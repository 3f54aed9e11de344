# Ari-Ani, modelled and proved about

The repository is a WhatsApp bot: one Node process with a Baileys socket, a
MongoDB database and in-memory caches.  Node runs one callback at a time, so
everything that is hard here happens at `await`: every message has a handler of
its own, the handlers interleave at each database call, documents are read,
changed in memory and saved without a version check, and caches are filled with
what was read before the wait.  The process may also die at any point and start
again from the database.

Paths below are relative to `src/src/`.

## Inventory

| Component | State | Operations | What is hard | What makes it correct |
|---|---|---|---|---|
| Economy (`core/economy`, `commands/Economy`) | one account document per user: wallet, bank, pending crops and investments, time stamps | deposit, withdraw, pay, daily, timed rewards, farm/invest/collect, crime, rob, heist, duel, games, shop | read-modify-save without versions, two-document commands, cooldown gates, clamping | replies and balances agree; one reward per cooldown; promised coins are paid once; the bank is safe |
| Standing (`performGather`, `runTimedReward`, `updateStreak`) | streak, rare meter, failures in a row, statistics of an account | /beg, /work, /fish, /mine, /hunt, decay on any load | the streak is updated after and beside the save | streaks and meters are earned; reply, counters and statistics agree |
| Connection (`core/RuntimeClient.ts`, `runtime/ExponentialBackoff.ts`) | socket and its listeners, `isReconnecting`, reconnect timer, backoff | `connect`, `handleConnectionUpdate`, timer | a close event twice, awaits between a check and its use, failed connects, crash | one live socket, one reconnect per lost socket, the bot comes back |
| Auth session (`core/MongoAuth.ts`) | credentials and Signal keys in MongoDB, encrypted | `getAuthState`, `saveCreds`, `clear`, key store | saves in flight at a reconnect, another key after a restart, half a `clear()` | a saved pairing is found again; only dead sessions are cleared; keys are those of the pairing |
| View-once media (`services/ViewOnceService.ts`) | two files per message | capture, prune, /retrieve | files are written, listed and removed one by one | what was captured can be retrieved until it is old |
| Message pipeline (`pipeline/MessagePipeline.ts`) | disabled-commands cache, command tables | `loadCommands`, `handleMessage`, cache load and invalidation, moderation, chat | decisions made of values read at three awaits | disabled, banned and switched off means no command runs; a name finds its command |
| Toggles, bans, group switches (`commands/Config`, `commands/Dev`, `commands/Moderation`, `services/UserDataService.ts`) | `disabledcommands`, `users.ban`, `groups.cmd`, `feature` and its copy in memory | /disable, /enable, /ban, /unban, /activate, /deactivate | they run through the gate they control; two copies of a flag | every decision takes effect and can be taken back |
| Inbound admission (`core/RuntimeClient.ts`) | ids of messages the bot sent, burst windows, message cache, moderator list | `handleMessagesUpsert`, `sendMessage`, `resolveMods` | echoes before the id is noted, redelivery, a list refilled across awaits | the bot does not answer itself; others are heard; moderators are who they are |
| Groups (`services/GroupService.ts`, `commands/Moderation`, `runtime/TimerRegistry.ts`) | metadata cache, purge confirmations, group timers | promote, demote, remove, open, close, purge, /timer, link moderation | metadata fetched before a change and cached after it; overwritten timers | what the bot does to a group is right by the group; the last timer locks it |
| Chat (`services/QuotaService.ts`, `core/ChatAI.ts`, `core/Identity.ts`, `commands/Fun/Chat.ts`) | switch, quota, recent turns, learnt facts and their cache | /chat, automatic answers, quota commands, /identity | read-then-write counters, objects held across a provider call, a cache filled late | no more answers than the quota; a memory holds its own chat's turns; a reset sticks |
| Menus (`core/MenuManager.ts`, `utils/media.ts`, `core/MediaMenu.ts`) | stack of sessions of a user, preferences per command | show, link to the sent message, reply, clear, expire, save preferences | replies that race, sends that resolve late, read-modify-write of all preferences | a reply that quotes a menu on the stack selects in it, once; preferences are what was said |
| Media (`core/YT.ts`, `core/Spotify.ts`, `commands/Media`) | a request between menu, preference and answer; a ZIP on disk | search, ranges, limits, APIs in turn, stream or ZIP | every call may fail, in any order of completions | the chosen format, tracks in order, a complete ZIP, a word at the end |
| Startup and shutdown (`index.ts`, `runtime/`) | stages, listeners, cron job | run a stage, time out, shut down | a timeout does not stop the body it gave up on | nothing arrives before its listener; every start settles |
| Observed chats (`core/RuntimeClient.ts`, `commands/Dev/BroadCast.ts`) | a Set of chats | observe, cron sweep, /broadcast | the Set grows while it is iterated | no chat is passed by; the count told is the count sent |
| Bonds (`core/Ship`, `commands/Fun/Ship.ts`) | bond and rizz documents | ship, react, rank, migrate | upserts beside a migration that moves documents one by one | counters add up; a migration moves everything once |
| Games in memory (`commands/Gaming`, `commands/Games`) | boards, words, challenges | challenge, move, forfeit, guess | turn order, awaits between a challenge and its game | only the player whose turn it is moves; one payment, to the winner |
| Role-playing game (`rpg`, `commands/Gaming/RPG*`) | profile and combat documents | start, choose, quest, pick, hunt, move, rest, use | two documents read, changed and saved whole | a foe is paid for once; hunts keep their cooldown |
| The rest | none | web requests, media conversion, formatted replies, greetings, experience points | nothing a model would show | - |

Interaction: Baileys events reach `RuntimeClient`, which simplifies messages
and emits them; `MessagePipeline.handleMessage` decides and runs a command; a
command calls a service; services read and write MongoDB.  The pipeline's cache
is invalidated by two commands that go through it.  A reconnect replaces the
socket under everything else.

## Modules

| Module | Models | Uses |
|---|---|---|
| `Money` | the arithmetic of `core/economy/utils.ts` | |
| `Economy` | `EconomyService` and the checks of the command files | `Money` |
| `Economy_proofs` | theorems about `Economy` | `Economy`, TLAPS |
| `Connection` | connect, close, reconnect, the stored session | |
| `KeyStore` | the Signal keys beside the credentials | |
| `ViewOnce` | the snapshot files of one message | |
| `CommandGate` | the command gate of `handleMessage` and the commands that control it | |
| `CommandGate_proofs` | theorems about `CommandGate` | `CommandGate`, TLAPS |
| `Registry` | `loadCommands` and the lookup of a name | |
| `Features` | the feature flag of the chatbot and its copy in memory | |
| `Menus` | `MenuManager`, the commands that show menus, the preferences they save | |
| `Media` | media requests, the APIs, playlists | |
| `Startup` | database, stages, listeners, shutdown | |
| `Inbound` | messages from WhatsApp to the pipeline, the list of moderators | |
| `Group` | one group, the commands that administer it, `TimerRegistry` as /timer uses it | |
| `Chats` | the observed chats, the cron sweep, /broadcast | |
| `Chat` | /chat: switch, quota, memory, identity | |
| `Bonds` | ships, reactions, rizz, migration | |
| `RPG` | a player of the role-playing game | |
| `Standing` | streak, rare meter and statistics of an account | |
| `TurnGame` | what a board game in a chat promises: the abstract specification | |
| `ConnectFour`, `Ludo` | the two board games, implementations of `TurnGame` | `TurnGame` (INSTANCE) |
| `Chess` | challenge, game and payment of /chess | |
| `Parlour` | hangman and the number to guess | |
| `Connection_proofs` | theorems about `Connection` | `Connection`, TLAPS |
| `Session_proofs` | theorems about `KeyStore`, `ViewOnce` and the three of `MCSession` | `MCSession`, `Connection_proofs` |
| `Bonds_proofs` | theorems about `Bonds`, and about sums over finite sets | `Bonds`, TLAPS |
| `Games_proofs` | theorems about the games, the refinement of `TurnGame` among them | `MCGames`, `Bonds_proofs` |
| `People_proofs` | theorems about the parts of `MCPeople` | `MCPeople`, TLAPS |
| `Runtime_proofs` | theorems about the parts of `MCRuntime` | `MCRuntime`, TLAPS |
| `MCEconomy`, `MCConnection`, `MCCommandGate` | small instances for TLC | one module each |
| `MCSession` | `Connection`, `KeyStore`, `ViewOnce`, one at a time | |
| `MCGames` | the four games and `Bonds`, one at a time | |
| `MCPeople` | `Chat`, `Menus`, `RPG`, `Standing`, `Features`, one at a time | |
| `MCRuntime` | `Startup`, `Inbound`, `Group`, `Media`, `Registry`, `Chats`, one at a time | |

The modules put side by side in `MCSession`, `MCGames`, `MCPeople` and `MCRuntime`
share no state and call nothing of each other, so that an interleaving of two of
them shows nothing that each alone does not: a variable (`part`, `playing`) says
which of them a behaviour is about.  Where components do interact they are one
module: the quota, the memory and the identity in `Chat`, the metadata cache and
the commands it is read by in `Group`, the gate and the commands that control it
in `CommandGate`.

### Economy

A handler goes through `Start` (the command file's checks), `Load` (one
`getAccount` each; two documents in either order), `PassGate` or
`RefusedAtGate` (the `findOneAndUpdate` on a time stamp), one decision
(`Deposit` ... `Duel`, computed from the loaded documents and nothing else) and
one `Save` per document.  `SaveDoc` is what Mongoose does: only the fields that
were assigned a new value are written, whatever the document holds by now.
`SaveFails` and `Crash` lose saves.  Time is a clock of ticks.

The random choices of the code are nondeterministic choices among the rewards in
`Coins`; jobs, factions, tools and buffs, which no reachable command can give an
account, would only change how likely a choice is.  What an account has beside its
coins is in `Standing`.  A typed amount is "all",
"half" or a number.  The gate compares with the database's time in the model and
with the time the query was built in the code; two passes are spaced alike.

The ghosts keep the ledger a reader of the replies would keep: `book` (what the
replies add up to), `promised`, `paid` and `claims` (claims that were saved and answered as
granted; what they brought is what the last save left), and they remember why the
ledger may be off: `raced` (a save overwrote a field that changed since it was
read) and `short` (a clamped or capped edit was saved).  The properties say that
there is no third reason.

### Connection

The awaits of `connect()` are stages of a call; a call belongs to the startup or
to the timer.  `clear()` and `saveCreds()` are writes in flight until
`ClearLands` or `SaveLands`; the close handler continues where `ClearLands`
does.  `Pairs`, `CredsUpdate`, `Opens` and the reasons of `Closes` are what
WhatsApp may do; a session it refused once is refused from then on.  A socket
that lost its listeners is deaf but not closed.  `ConnectFails` ends a `connect()` at any
of its awaits, and `ClearFails` a `clear()` with the session deleted or not.

### CommandGate

A handler reads the group's switch, the sender's ban, and the cache or, on a
miss, the collection; then the roles are checked and the command starts.  The
controlling commands read, write and, for toggles, invalidate.  `known` holds
the reasons to refuse that were established when a message arrived and that
nothing has lifted since; `excused` holds the commands whose cache entry may be
wrong for a reason the model names: a fill that a toggle overtook, or a toggle
whose write was applied without an answer.

### Menus

The stack of one user: a set of sessions, each with the moment it was set, so that the
newest is the one on top.  The user writes in a group and in a direct chat.  A command shows
its menu (`Show`), and when the send resolves its message is linked to the newest session of
the command (`Sent`), which by then may be another one.  A reply selects the session of the
quoted message or else, when none on the stack is linked to it, the newest of the chat
(`Selection`), and clears it before its first await, except an "always" answer, which reads
and writes the preferences first (`AnswerAlways`, `ReadPrefs`, `WritePrefs`).  The menu of
/media clears everything and then removes the preferences of all commands.  The words after
/media, and /mediareset, never reach the preferences (`M.args[0]` is the command itself), so
neither is an action.  `QuoteSelectsItsMenu` compares `Selection` of every quote with what it
should be: the session of the quoted menu while it is on the stack, and otherwise what a
reply without a quote selects, which may be the menu of another command.  `crossed`, `gone`,
`unsent`, `always` and `raced` are ghosts that name the ways a property may fail: a link
that another menu took, a menu off the stack before it was linked, a menu whose send failed,
an answer that stays on the stack while it saves, a save over a newer one.

### KeyStore and ViewOnce

`KeyStore` has what `Connection` leaves out of the session: `set` is one ordered
bulk of upserts whose operations reach the database one after the other
(`SetKeys`, `WriteLands`), a deleted key is an empty value, and `clear()` deletes
both collections, either of which may fail (`ClearStep`, `DeletionFails`).  A
secret is the encryption key of a connect; what another secret wrote does not
decrypt.  Ghosts remember a write that landed late, half a clear and a lost write.

`ViewOnce` writes, lists, tests and removes the `.bin` and the `.json` of one
message each by itself, so that a redelivered message, a prune and a /retrieve
may meet between any two of them.  `rewritten` notes that a file was written over
that of an earlier delivery, or in the place of one that a prune has found old and will unlink.

### Registry and Features

`Registry` imports the command files in any order the file system may list
them; the first of a name and the first of an alias are kept.  `Features` has the
document of the chatbot's flag and the copy in memory, each written by itself.

### Media

A request goes through search, format menu or remembered preference, and the
APIs in turn (`InfoApi`, `Download`); a playlist is fetched track by track
(`Fetch`) and streamed or written into a ZIP, whose completion is an event of its
own.  A fault may hit every call.  What a request's video lasts is told as a number, in
words, or not at all; only the number is compared with the limit (`unmeasured` are the
requests that passed without one).

### Startup

The stages of `StartupManager` run in the order of `index.ts`, each raced against
its timer: `StageTimesOut` settles the stage and leaves its body running
(`BodyEnds`, `BodyThrows` come later and settle nothing).  `Open` and `NewMessage` are
events of the client, heard by the listeners bound so far.

### Inbound

WhatsApp delivers batches in which a message may come twice, and the echo of what the bot
sends at any time after it was accepted, before `trackSent` noted the id too.  A batch has
one message or two, and each is taken by itself (`Take`); the window of a burst is a suffix
of the times at which commands came.  `EmitNewMessage` hands a message on when its metadata
is there.  `ResolveMods` clears the list of moderators and adds them again across awaits
(`Added`, `LidFound`).

### Group

The group as WhatsApp has it, the copy in the cache, and what is on its way:
notices, and answers that were computed before a change (`Answer`, `Arrive`).  A
command or the link moderation acts by the metadata that came with its message.
`SetTimer`, `Timer` and `ClearByOwner` are /timer with the `TimerRegistry`; `Minutes`
pass and timers expire.  `told` is the time the reply named, which is not what
`setTimeout` was given when the minutes overflow it (`Delay`).

### Chats

The sweep iterates the live Set with an await at each chat; a broadcast iterates
a copy.  Both meet chats that are observed meanwhile and calls that fail.

### Chat

A /chat passes the stages of the code: the switch, the reading and the counting
of the quota, the memory, the identity (read, then cached), the provider.  The
memory is an object: `Begin` takes it, `Commit` puts it back, whether it was
dropped meanwhile or not.  A learnt fact is added by a task of its own after the
answer (`AddRead`, `AddWrite`, `AddDrop`).  A write of an identity may be applied and
its answer lost, and then the copy in the cache is not dropped (`AnswerLost`).  Ghosts
count what was granted, and note a write of the quota that was based on an old reading, a
turn committed to a dropped memory, an addition that a reset overtook, and a copy that a
lost answer left in the cache (`undropped`).

### Bonds

Documents are keyed by the set of members, and rizz by the set of one.  /ship
writes the bond and the rizz of every member it names at once: the documents are stored
one at a time, in any order (a `bulkWrite` is not atomic over its documents), and either
request may fail after some of them (`ShipStored`, `RizzStored`, `ShipWriteFails`).  The
migration takes a snapshot of the collection and moves one document after another
(`Find`, `MoveDoc`, `DeleteOld`); `overrun` notes that it wrote over what a command had
written since, `cut` that it ended between the two writes of a move.

### RPG

A command reads the profile (and, where the code does, the combat), decides, and
has a list of writes left (`Going`): profiles and combats are saved whole, over
whatever was stored meanwhile.  `SaveFight` may add a second combat document,
because the collection has no unique index.

### Standing

A run loads the account, decides (`Ends` gives the set of outcomes), saves only the
fields it assigned, and updates the streak by itself (`NoteWin`, `NoteFirst`,
`NoteFailure`).  Any load may store a decayed meter (`SaveDecayed`).  The many commands that
count themselves in the statistics and save (daily, crime, farm, invest, collect, rob and
others) are `LoadToCount` and `SaveCounted`, and may overtake a run as it may overtake them.

### The games

A handler of `ConnectFour`, `Ludo` and `Parlour` changes its game before its first
await, so a command is one step.  `Chess` awaits its answer between reading a
challenge and acting on it (`Accept`, `Forfeit` have two steps) and calls a library
for the rules: a move may end the game or not.  `TurnGame` is the game of seats and
turns that the two board games refine; the mapping reads the seats and the turn
off their state.

## Runs

| Run | Module | Checks | Shows |
|---|---|---|---|
| `solo` | MCEconomy | `TypeOK`, `LedgerHolds`, `PromisesKept`, `GrantsSpaced` | every command of one account: replies and balances agree unless a stale save or a clamp is to blame; promises are paid once; cooldowns are kept |
| `pairs` | MCEconomy | `LedgerHolds`, `BankProtected` | payments, robberies, heists and duels of two users: both accounts add up, the bank is out of reach |
| `session` | MCSession | `SessionTypeOK`, `OneSocketUp`, `NoNeedlessPairing`, `ClearedBetweenSessions`, `KeysHold`, `SnapshotsHold` | one socket, no needless pairing, no session cleared under a socket; keys are read as they were set and by their own pairing; a snapshot is there until it is old, but for the races named |
| `reconnects` | MCConnection | `OneReconnectUnlessCleared`, `ComesBack` | sockets that close twice: each is followed by another one, and none is replaced twice unless its session was cleared |
| `gate` | MCCommandGate | `TypeOK`, `CacheAgrees`, `DisabledHolds`, `BanHolds`, `QuietHolds` | disabled, banned and switched off hold for every message that arrives afterwards, and the cache says what the collection says, but for the two ways named |
| `games` | MCGames | `BoardsHold`, `NeverBlocked`, `PaidOnceToTheWinner`, `AreTurnGames`, `BondsHold` | lines, captures and lives follow the rules; a chat can always get out of a game; the winner of chess is paid once; both board games are games of turns; ships and rizz are counted once and survive the migration, but for the races named |
| `people` | MCPeople | `PeopleTypeOK`, `QuotaHolds`, `ChatHolds`, `QuoteSelectsItsMenu`, `AnsweredOnce`, `PrefsAsChosen`, `RewardsHold`, `StandingHolds` | what people collect, agree on and are granted is counted once and stays, but for the races named |
| `runtime` | MCRuntime | `RuntimeTypeOK`, `StartupHolds`, `GroupHolds`, `MediaHolds`, `SendersRecognised`, `ChatsHold`, `OthersAreHeard`, `TimersEndThings` | listeners before events, echoes ignored, others heard, moderators recognised, groups judged by what they are, downloads as asked, sweeps complete; starts, timers and downloads end |

Some of these are conjunctions, one part per module:

| Property | Parts |
|---|---|
| `BondsHold` | `BondsAndRizzAgree`, `CountsAddUp`, `MigrationCompletes`, `OnlyNewOutsidersCount` |
| `ChatHolds` | `TurnsKept`, `PersonaAgrees`, `ResetSticks`; `FlagHolds` of `Features` |
| `StandingHolds` | `StreakEarned`, `MeterEarned`, `ResultsAgree`, `StatsComplete` |
| `RewardsHold` | `RewardedOnce`, `HuntsSpaced` |
| `BoardsHold` | the types, `LineDecides`, `OneColorPerCell`, `LivesAreLetters` |
| `StartupHolds` | `StartsInOrder`; `RegistryHolds` of `Registry` |
| `GroupHolds` | `StaleOnlyByRace`, `JudgedByTheRoom`, `PurgeEmpties`, `LockedByLastTimer` |
| `MediaHolds` | `FormatsFit`, `PlaylistInOrder`, `ZipHolds`, `EndsInWords`, `LongRefused` |
| `SendersRecognised` | `EchoIgnored`, `ModsRecognised` |
| `ChatsHold` | no chat was passed by, no count misreported |
| `KeysHold` | `OwnKeysOnly`, `ReadsWhatItSet` |
| `TimersEndThings` | `StartupSettles`, `TimersEnd`, `DownloadsEnd` |

Four more runs check a sentence of the repository, quoted in the comment of the
property, and find the code to disagree with it:

| Run | Property | What the code does |
|---|---|---|
| `daily_twice` | `DailyOncePerDay` | two claims in flight are both granted and both saved and answered as paid; the second save writes the same total over the first, so the wallet is credited once |
| `first_collect` | `RefusedOnlyOnCooldown` | an account that never collected is refused as on cooldown for ever |
| `stale_fill` | `DisabledGlobally` | a cache miss stores what it read before /disable, and a disabled command runs on |
| `gate_atomic` | `GateIsAtomic` | two chats that read the quota together are both let through where one was left |

### Bounds

- Economy: two handlers (a race needs two), one user in `solo` and two in `pairs`
  (a two-party command needs two), three commands (the load and save of one
  around all of another, and one more to see the damage), one crash.  `solo` has
  three ticks, a cooldown of one (before, at and after) and days of two; `pairs`
  two ticks.  `Coins` has one reward and amounts are "all" or 2, which with a
  reward of 3 is below, at and above a balance at different times.  `MaxSafe` is
  far above what is earned, so that clamping above is left to the proofs.
- Connection: a lost socket, its replacement, one more for a reconnect too many,
  and in `session` one after a crash.  `session` has one close event of a socket,
  one failure and one crash.  `reconnects` has two close events and leaves logouts
  to `session`; its steps (`SteadyNext`) are those without a failure (a failed reconnect
  is not tried again, see below) and without a crash (nothing in the code restarts the
  process).
- KeyStore: two keys, two secrets, two pairings, two sets, one loss: a set in
  flight over a clear and the next pairing's set.  ViewOnce: one capture, one pruner
  and one reader at a time, two deliveries, one prune, a lifetime of one tick in three.
- CommandGate: three messages in three handlers (a fill, a toggle that overtakes
  it and a second toggle or the command itself), a moderator and another user,
  one group, one failure, one crash.
- Games: connect four with three in a row on 3 by 3; ludo with three seats, two
  tokens each, a track of five cells with three safe ones, so that captures, blocked
  tokens and both finishes occur; chess with three users (two of them one person
  on two addresses), two handlers, two sessions, two accepts, one lost answer;
  guessing games with three lives and two attempts.
- Bonds: four addresses, one of them the device form of another; two ships, a
  reaction, a migration and a fault, of the ships and the reaction two in one behaviour
  (`MaxDeeds`), which is a ship beside a migration that is cut short.  Bonds have at most
  three members, so that a ship has two rizz documents to write; three users reach that cap
  and do not exceed it, so the cut is left to the proofs.
- Chat: one chatter, two handlers, two turns, two acts of moderators in a group and one
  in a direct chat, one tick, one fault: a turn beside a turn, a reset or an extension.
- Menus: two handlers, three messages, one failure, one restart, two chats; one
  command stands for the six that clear their own menu.
- RPG: two handlers, three commands, one foe, one tick, one fault: a hunt begun,
  won and found again.  Standing: two handlers, three commands over three sets of
  commands (/beg; /beg, a command that counts itself or one that reads; the others, or one
  that counts itself), two ticks, one fault, a meter that fills at three.  Features: two
  handlers, three toggles, one fault.
- Startup: all eight stages, two opens.  Inbound: one other user, the operator's
  phone with a recent and an old message, one reply, two cached messages, a burst
  of one; two moderators resolved twice.
- Group: the owner, the bot and one more, of whom two may be acted on; two handlers,
  two messages, one change by people (without /timer) or timers of one and three
  minutes with reminders (without changes), answers delayed by at most two.
- Media: six commands, two APIs, lists of four tracks, a cap of two, lengths below,
  at and above the limit, ranges inside, at and beyond a list, two requests, one
  death of the process.
- Registry: five files with a name and an alias that collide and a helper.  Chats: two
  groups and a direct chat, two sweeps, two broadcasts, one loss.

Handlers and users are symmetric where a run says so; `reconnects` and `runtime`, the
runs with liveness properties, use no symmetry.  Deadlock is not checked: the
bounded counters stop every behaviour, and a bot with nothing to do waits.

### Fairness

Only what the process itself or a timer of Node brings about is fair; nothing is
assumed of people and of WhatsApp.

- `reconnects`: Node fires a due timer, and MongoDB and the version lookup answer.
  A socket need not open, close or pair.  `ComesBack` is about every socket but the
  last one the bound allows.
- `StartupFairness`: stages run one after another, and the timer of a stage fires; a
  body need not end.
- `InboundFairness`: the promise of a message that was taken settles, and it is
  handed on.
- `GroupFairness`: minutes pass and due timers fire.
- `MediaFairness`: calls of the APIs carry timeouts of 30 s and 120 s
  (`core/YT.ts`), so each ends with an answer or an error.

### Read in the code, and not checked

The models have most of these, and no property contradicts them.

Connection and session: a failed `connect()` or `clear()` is never tried again
(`core/RuntimeClient.ts:439`, `:408`), and two bad-session closes may reconnect twice,
because the guard is read after the await of `clear()` (`:408`, unlike the comment at
`:181`); the backoff is reset when the socket is made, not when it opens (`:436`).
Without `APP_ENCRYPTION_KEY` a restart makes a random key, and the saved session is
not found again (`core/MongoAuth.ts:155`, `:163`); a key set back to an earlier value
makes the keys of an older pairing readable.  `getMessage` (`core/RuntimeClient.ts:575`)
never finds the bot's own messages, since echoes are skipped (`:458`) before the
cache is filled (`:482`).  A redelivered message rewrites its snapshot while /retrieve
may read it half, and the prune's `stat`-then-`unlink` may remove a file rewritten in
between; `captureViewOnce` stores every image and video, unlike its comment.

Messages and commands: a ban is stored under the one address form the group shows
(`services/UserDataService.ts:44`); commands run in a quiet group when its metadata
cannot be had (`pipeline/MessagePipeline.ts:91`); messages of private chats end at
`:70`, before the gate, unlike the comment at `:167`; a timed-out command (`:178`) runs
on.  /disable accepts "enable".  An alias is shadowed by a later command of its name:
"heist" is an alias of `Crime.ts` and the name of `Heist.ts`.  A full message cache throws.
`getFeatures` creates a flag as enabled without telling the memory (`Enable.ts:39`
then says "already enabled"), and nothing awaits `loadFeatures()` (`index.ts:171`).

Groups and chats: /timer does not ask whether the bot is an admin, more than 35791
minutes overflow `setTimeout` and lock the group at once, and a restart forgets the
timers.  `GroupDispatcher.ts` takes participants for strings where
`core/RuntimeClient.ts:520` passes objects, so greetings throw, and `safeAsyncVoid`
swallows it; `Everyone.ts:18` has the same mistake.  The cron job logs that all chats
were cleared whatever `modifyAllChats` returned.  `BroadCast.ts:62` passes the chat as the
type of the reply, so every copy goes to the chat of the command.  In a direct chat
/identity reset uses `M.sender.jid` where the chat stores under `M.from`.
`ErrorBoundary.capture` emits 'error' to no listener, so that it throws and is only logged.

Economy: a deposit above the wallet credits the bank with all of it and clamps the wallet at
0 (`core/economy/EconomyService.ts:407`; `Deposit.ts:18`: "Deposit coins into your bank"); a
robbery that fails credits the target in full and charges the thief what the wallet holds
(`:894`); an account whose stamp is null is refused by every gated command; an error after
the save is answered as a failure though coins were credited; a lost note of a failure
leaves the streak; a work streak cannot grow, its cooldown and its timeout both being five
minutes; loading an account twice a day keeps its rare meter from decaying; /slot pays only
the row it drew last; what a rejected faction seeding left would be remembered for ever
(`:87`).

Bonds and games: `core/Ship/index.ts:123` says that the sender of a reaction is always
included, and the cap of five may cut them off; the bases of `migrate.ts`'s comment are not those
of the code; a ship with oneself is random and stores nothing.  The level of a role-playing
character never rises (`rpg/RPGEngine.ts:43`), so "LEVEL UP!" is never sent; the bonus of a
cleared zone is paid at every /rpghunt; the prompt says "forbidden" where the action
is "forbidden_skill"; `RPGPick.ts:27` resolves the first unseen event, not the one that
`RPGQuest.ts:74` showed.

Menus and media: /mediareset and the words after /media read `M.args[0]`, which is the
command itself (`commands/Utility/MediaReset.ts:31`, `commands/Utility/MediaSettings.ts:20`), so that
no preference of one command can be reset; nothing reads the global preference; an
"always" answer clears a menu of its command that was shown while the preference was
being saved (`utils/media.ts:23`).  Search errors are only logged; durations in words, or
none, pass the 30-minute limit; a streamed playlist whose tracks all fail ends without a word;
audio and video use the same API result, and TikTok and Instagram links go to the
YouTube APIs; an error while a ZIP is written ends the process, and the cleanup at
`index.ts:81` does not know `.zip`.

## Proofs

A theorem holds for every value of the constants that the `ASSUME` of its module allows: any
number of users, handlers, sockets, chats, files, keys, any lists and any bounds.  The
assumptions say what the code needs and no more: that limits are natural numbers and not
zero where the code divides or cuts by them, that a roll of ludo is no longer than its
track, that the stages which load the commands and bind the listeners come before the one
that makes the socket, that sets the code keeps in memory are finite, that the old documents
of bonds are of ships whose two writes both arrived (a lost write is an exception of
`BondsHold`, before the start as after it).  TLC evaluates each of them in a run.

Every safety property and every action property of the passing runs is proved;
`Connection`'s `TypeOK` is part of `SessionTypeOK`, which the run checks.  The invariant of
each proof was checked by TLC on the run of its module before it was proved.

| Module | Theorem | Property |
|---|---|---|
| `Economy_proofs` | `TypeCorrect`, `LedgerCorrect`, `PromisesCorrect`, `GatesCorrect`, `BanksProtected` | `TypeOK`, `LedgerHolds`, `PromisesKept`, `GrantsSpaced`, `BankProtected` |
| `CommandGate_proofs` | `TypeCorrect`, `CacheCorrect`, `DisabledCorrect`, `BansCorrect`, `QuietCorrect` | `TypeOK`, `CacheAgrees`, `DisabledHolds`, `BanHolds`, `QuietHolds` |
| `Connection_proofs` | `TypeCorrect`, `ReconnectsOnce`, `SocketsAlone`, `ClearsBetween`, `PairsOnlyWhenNeeded` | `TypeOK`, `OneReconnectUnlessCleared`, `OneSocketUp`, `ClearedBetweenSessions`, `NoNeedlessPairing` |
| `Session_proofs` | `SessionTyped`, `KeysAreKept`, `SnapshotsServed` | `SessionTypeOK`, `KeysHold`, `SnapshotsHold` |
| `Games_proofs` | `BoardsAlwaysHold`, `ChessNeverBlocks`, `ChessPaysOnce`, `GamesOfTurns` | `BoardsHold`, `NeverBlocked`, `PaidOnceToTheWinner`, `AreTurnGames` |
| `Bonds_proofs` | `BondsAlwaysHold` | `BondsHold` |
| `People_proofs` | `PeopleTyped`, `QuotaIsHeld`, `ChatAlwaysHolds`, `QuotesSelect`, `AnswersOnce`, `PrefsKept`, `RewardsOnce`, `StandingEarned` | `PeopleTypeOK`, `QuotaHolds`, `ChatHolds`, `QuoteSelectsItsMenu`, `AnsweredOnce`, `PrefsAsChosen`, `RewardsHold`, `StandingHolds` |
| `Runtime_proofs` | `RuntimeTyped`, `RuntimeStarts`, `SendersKnown`, `GroupsRight`, `MediaRight`, `ChatsCleared` | `RuntimeTypeOK`, `StartupHolds`, `SendersRecognised`, `GroupHolds`, `MediaHolds`, `ChatsHold` |

The parts of `MCSession`, `MCGames`, `MCPeople` and `MCRuntime` share no variable, so each
has an inductive invariant of its own, kept by the steps of its part and untouched by
those of the others.

### Economy

Type correctness has a lemma per decision (`DepositDecides` ...), all of one form:
from well-typed documents it issues well-typed saves, and it says the change it
makes unless it was cut (`Decision`).  The lemmas rest on `ClampInRange`,
`ParseInRange` and `CommitMineDecides`/`CommitBothDecides`.

`LedgerHolds` is not inductive, since it says nothing of the saves that are on
their way.  `LedgerInv` adds that every pending save changes the wealth of the
document that was read by what the reply will say, unless the account is cut.  A
save then either finds the fields it writes as it read them, and moves balance
and book by the same amount, or sets `raced`.

`PromisesKept` goes the same way, by what is owed: `PromisesInv` adds that a pending save
changes what is owed to an account by as much as the handler added to its promises or
to what it was paid (`EditsFaithful`), and `FreshSaveMovesOwed` does the step of a save.

`GrantsSpaced` needs that the stored stamp of an account is at least the time of
every handler past its gate and never ahead of the clock (`GateInv`): a handler
that passes now finds the stamp a cooldown old, hence every earlier handler too.

### CommandGate

`BanHolds` speaks of handlers at "run" only.  `GateInv` adds that every reason a
handler knows is still a fact, because `Lift` takes away those a write ends, and
that the reads of the group and the user let no such reason pass; a handler that
has come as far as "run" cannot know one.  `CacheInv` adds for the cache that a
command a message knows to be disabled is still in the collection and has no
toggle half done: /enable would have lifted the reason, and /disable does not
write what is there (`Duplicate`).  With `CacheAgrees` the entry is then missing,
"disabled" or excused, and of the two steps that start a command (`StartsGate`)
`Lookup` finds it so and `Fill` reads it so.

### Connection

`GuardInv` says what the guard stands for: `isReconnecting` holds from the arming of the
timer to the end of the `connect()` it fires, during which nobody listens, and a socket
that was replaced is heard no more while the guard holds.  It gives
`OneReconnectUnlessCleared`.

`AloneInv` says that at most one of these is there: a live socket, a session being
cleared, an armed timer, a `connect()`.  It holds while no socket that asked to clear has
closed twice (`ClosedOnce`): such a socket passes the guard twice, because the guard is
read after the await of `clear()`.  `OneSocketUp`, `ClearedBetweenSessions` and
`NoNeedlessPairing` have the same antecedent: they say nothing of a socket whose second
close clears the session of its successor.  `PairingInv` adds that the accepted pairing
that was saved is in the store, in a `connect()` that has read the store and in the socket
that listens, as long as the key is fixed and no save
landed after a clear (`late`, which `NoNeedlessPairing` excuses).

### KeyStore and ViewOnce

`KeyInv` says of every stored key which the socket's secret can read that it is of the
socket's pairing until `clear()` has come to it, of every write on its way that it is late
or of this socket, and that a key is what the write on its way will make it or what was set
last.  Late writes, half a clear and lost writes are the exceptions `KeysHold` names.

`ViewInv` says that one capture at a time writes a file, no write outlasts a tick, what a
prune found old is old still or gone, and whoever asked while the snapshot was due reads
it whole, unless a capture failed or a file was written again.

### Games

`GamesOfTurns` proves for `ConnectFour` and `Ludo` that the initial states map to initial
states of `TurnGame` and every step to a step of it or a stutter; for ludo that needs a
running game to have two seats at least, of different users (`LudoPlaying`).  `LineDecides` says
that a game of connect4 is over just when somebody has a line, although `checkWin` looks
only at lines through the piece that fell last: a line that is new goes through it.
`ChessInv` says that a game on the table or on its way there is unpaid and is that of the
challenge, unless a handler went on after the challenge it had read was gone.
`HangmanInv` counts lives by wrong letters.

### Bonds

The counts of ships and the scores of rizz are sums over sets (`MapThenSumSet`), defined by
a recursion over the set.  The library's induction theorems cannot be used for them, but
a set of numbers that is not empty has a least element (`FirstOne`), and that suffices:
`SumsExist` (a sum is defined), `SumsAgree` (there is one), `SumsInsert` (one element more
adds its number, whichever the recursion takes first).  `OneMore` is what the rest uses.

- `MigrationInv`: a document of the snapshot that is left is still there, and as it was
  where its key changes (`SnapshotThere`); one that is not left is clean (`CleansUp`); what
  was found under the new key only grows, and holds the shippers of the old one once it is
  written (`MovesOn`).  `MigrationCompletes` is `CleansUp` at the end.
- `CountsHold` gives `CountsAddUp`: between the two writes of a move, the document under the
  old key is counted once more (`BeingMoved`).
- `Agreed` gives `BondsAndRizzAgree`: where the two collections differ, of the bond
  and the rizz of one member one write is left (`Waiting`), and the one that was stored
  first is in its collection; writes that were lost, or that a migration wrote over, are the
  exceptions it names.
- `OutsidersGivePoints` is `OnlyNewOutsidersCount`: what a ship stores adds nothing to any
  bond (`TermStays`), and the clamps pass on one point at most (`OnePointMore`).

### People

- `FlagInv`: unless the copy of the chatbot's switch is torn, what is on its way to it is
  what is stored.
- `ChatInv`: what is stored of the quota is what was granted unless a reading was overtaken
  (`QuotaKept`); a turn under way and a fact not yet written have been seen nowhere else
  (`FactsApart`), so a reset forgets what was learnt before it and nothing else.  The
  identity in the cache is what is stored unless an addition was overtaken or the copy was
  not dropped because the answer to a write was lost.
  `CapFifoKeeps` says that cutting a list to its last elements before or after adding one
  is the same.
- `MenuInv`: one menu is one session and is shown once (`MenusApart`), a session is linked to
  the message of its own menu unless links crossed, so what a quote selects on the stack is
  its menu, and a quote off the stack selects as no quote does; what is on the stack
  was not answered yet, unless its answer saves a preference first (`OffTheStack`), and a
  session over the one whose message is on its way was set since (`LinksComing`).  Menus
  answered with "always" are no part of `AnsweredOnce`: two such answers may both be sent.
- `RpgInv`: the writes a command has left change the stored profile in one way, by one
  victory over a foe that is not beaten and whose combat is deleted by then, or by one new
  event (`Follows`), and none of them forgets the last hunt (`Later`), while one command
  runs at a time.
- `StandingInv`: a streak that counts has a domain, and a meter has lost the decay of the
  whole days before it was touched last (`MeterSoFar`); a stale save over what a newer one
  stored is the exception `StandingHolds` names.

### Runtime

- `StartupInv`: a body of the socket's stage runs only after the commands were loaded and
  the listeners bound with success; one job is scheduled at most, and none before the
  first opening.
- `RegistryInv`: a name runs a command of that name and an alias a registered command that
  lists it, among the files read so far, whatever their order.
- `ChatsInv`: a sweep has reached exactly the chats before the one it is at, which suffices
  because the Set grows only at its end; a broadcast has sent, failed or left each group.
- `InboundInv` counts every delivery of an id once, wherever it is, and knows an id that
  was noted in time until its echo comes; `ModsInv` follows the last run of `resolveMods`:
  one of its moderators is in the making, and those before are done.
- `GroupInv`: a copy of the metadata is the room, or a notice is due, or one overtook the
  copy (`CopiesOfTheRoom`); a purge is going to remove everyone but the owner, the bot and
  those who came since, and leaves last (`Proceeds`); every timer is known to the registry,
  and the one that locks is the last that was set (`TimersKnown`).  It locks at the minute the
  reply told, unless those minutes overflow `setTimeout`: then it locks at once, early by
  all of them, and `LockedByLastTimer` says that nothing else locks early.
- `MediaInv`: what is known of a request at each of its steps (`Placed`), and that what was
  handed over and what was given up are together all tracks before the next one, in their
  order (`InOrder`).  `MediaHolds` names what it lets pass: a streamed playlist whose tracks
  all fail ends silently, a ZIP stays when the process dies, and a long video passes when its
  length was not told as a number.

### Only model-checked

- `ComesBack`, `OthersAreHeard` and `TimersEndThings`: liveness under fairness.
- That the four sentences of the repository are violated: their runs show it.

No module declares a RECURSIVE operator.

## Not modelled

- The inventory of an account, and what nothing calls: `joinFaction`, `leaveFaction`,
  `donateFaction`, `setJob`, `equip`, `useItem`, `addBank`, `rewardGame`, `resetAllBalances`.
- The import of legacy sessions, metrics and statistics of the auth store.
- The menu state, pending media and `hasPending` of `MediaMenu`, which nothing
  calls; the score of the quiz.
- Experience points: one atomic increment that nothing reads to decide.
- `GroupDispatcher` and `CallHandler`: stateless, they greet and reject.
- `ErrorBoundary`: it counts and logs what was thrown.
- Titles, traits, affinities and gear of the role-playing game, which reach no guard of a
  character whose level never rises.
- The rules of chess, the language models and the media services, which are libraries
  or services; subjects, descriptions and invite links of groups; pictures, wording,
  searches and the commands that only ask a web service and format its answer.

## Plan

The modules planned are written, and their safety properties and action properties are
proved.  What is left:

1. Map the invariants of `Connection` and `KeyStore` onto one abstract session store, so
   that what a socket may assume of its keys is stated once.
2. `TurnGame` for chess: `Chess` reads its challenge before an await and acts on it after,
   so it implements a game of turns only while one handler runs.

The set of runs is kept to a dozen, so that all of it can be repeated on every
change.

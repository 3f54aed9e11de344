--------------------------------- MODULE RPG --------------------------------
(***************************************************************************)
(* The role-playing game of one player (players share nothing): a profile  *)
(* document and a combat document, read and written whole by commands that *)
(* may be waiting together.  The level of a profile is never raised by the *)
(* code, so a player stays among the foes of the first zone; titles,       *)
(* traits, affinities, evolutions and mana reach no guard of a player of   *)
(* the first level and are left out, with the gear that is not found there.*)
(***************************************************************************)
EXTENDS Integers, SequencesExt, FiniteSetsExt

CONSTANTS
  Foes,           \* enemies of the zone where a player starts
  FarFoes,        \* some of the other zones
  FoeHp, FoeXp, BonusXp,
  XpForLevel,     \* XpForLevel[l]: xpForLevel
  BaseHp, Heal,
  Events,         \* EVENTS: a sequence of names
  MinLevel,       \* MinLevel[e]
  Tutorial,       \* the events of the personality test
  EventXp,        \* EventXp[e]: xp that e may bring
  ZoneLevel,      \* ZoneLevel[z]: minLevel of the zones next to the first
  Cooldown,       \* HUNT_COOLDOWN_MS
  RpgHandlers,
  MaxCommands, MaxClock, MaxRpgFaults   \* bounds

ASSUME RpgAssumption ==
  /\ Foes \cap FarFoes = {} /\ FoeHp \in Nat \ {0} /\ {FoeXp, BonusXp, Heal} \subseteq Nat
  /\ Tutorial \subseteq Range(Events) /\ MinLevel \in [Range(Events) -> Nat]
  /\ EventXp \in [Range(Events) -> Nat] /\ Cooldown \in Nat \ {0}
  /\ XpForLevel[1] \in Nat \ {0} /\ BaseHp \in Nat \ {0}

EventNames == Range(Events)
Moves   == {"attack", "analyze", "flee"}
NoFight    == [foe |-> "none", hp |-> 0, foeHp |-> 0]

\* The profile that createPlayer stores, and the one that is not there.
NewProfile == [stage |-> "origin_selection", level |-> 1, xp |-> 0, rose |-> 0, hp |-> BaseHp,
               kills |-> [f \in Foes |-> 0], seen |-> {}, rations |-> 2, hunted |-> -Cooldown]
NoProfile  == [NewProfile EXCEPT !.stage = "absent"]

Resting == [at |-> "idle", cmd |-> "none", arg |-> "none", p |-> NoProfile, todo |-> <<>>,
            first |-> FALSE]

VARIABLES
  player,     \* the profile document
  fights,     \* the combat documents of the player, in the order findOne meets them
  rpg,        \* rpg[h]: a command between two awaits, and the writes it has left
  isMod, clock, commands, rpgFaults,
  paid,       \* paid[f]: ghost, victories over f that reached the profile
  solved,     \* solved[e]: ghost, outcomes of e that reached the profile
  begun,      \* ghost: when the last fight began
  rushed,     \* ghost: a fight began less than the cooldown after another
  together  \* ghost: two commands have been under way together

rpgVars == <<player, fights, rpg, isMod, clock, commands, rpgFaults, paid, solved,
             begun, rushed, together>>

Profiles == [stage : {"absent", "origin_selection", "personality_test", "awakening", "awakened"},
             level : Nat, xp : Nat, rose : Nat, hp : Nat, kills : [Foes -> Nat],
             seen : SUBSET EventNames, rations : Nat, hunted : Int]

RpgTypeOK ==
  /\ player \in Profiles
  /\ \A i \in 1..Len(fights) : fights[i].foe \in Foes /\ fights[i].hp \in Nat /\ fights[i].foeHp > 0
  /\ \A h \in RpgHandlers :
       /\ rpg[h].at \in {"idle", "look", "write"} /\ rpg[h].p \in Profiles
       /\ rpg[h].at = "write" <=> rpg[h].todo # <<>>
  /\ paid \in [Foes -> Nat] /\ solved \in [EventNames -> Nat]

RpgInit ==
  /\ player \in {NoProfile, [NewProfile EXCEPT !.stage = "awakening", !.seen = Tutorial]}
  /\ fights = <<>> /\ rpg = [h \in RpgHandlers |-> Resting]
  /\ isMod \in BOOLEAN /\ clock = 0 /\ commands = 0 /\ rpgFaults = 0
  /\ paid = [f \in Foes |-> 0]
  /\ solved = [e \in EventNames |-> IF e \in player.seen THEN 1 ELSE 0]
  /\ begun = -Cooldown /\ rushed = FALSE /\ together = FALSE

-----------------------------------------------------------------------------
(* Profiles and what commands make of them.                                *)

FullHp(p) == BaseHp + p.rose

\* Whatever xp is over the need of the level raises the stats; the level itself stays.
AddXp(p, amount) ==
  LET total == p.xp + amount
      n     == total \div XpForLevel[p.level]
  IN  [p EXCEPT !.xp = total % XpForLevel[p.level], !.rose = @ + n,
                !.hp = IF n > 0 THEN BaseHp + p.rose + n ELSE @]

ZoneCleared(p) == \A f \in Foes : p.kills[f] > 0

\* Writes: the profile with what it tells of, the combat, its deletion, the second lookup
\* of /rpgstart and the creation.
SaveAs(p, what, name)  == [op |-> "profile", p |-> p, f |-> NoFight, what |-> what, name |-> name]
SaveProfile(p)         == SaveAs(p, "nothing", "none")
SaveFight(f)           == [SaveAs(NoProfile, "nothing", "none") EXCEPT !.op = "fight", !.f = f]
BeginFight(f)          == [SaveFight(f) EXCEPT !.what = "begun"]
Plain(op)              == [SaveAs(NoProfile, "nothing", "none") EXCEPT !.op = op]

Nothing == {<<>>}

(* Each command, from what it has read, gives the set of the writes it may *)
(* go on to make; Nothing when it only replies.                            *)

Start(p) == IF p.stage \notin {"absent", "origin_selection"} THEN Nothing
            ELSE {<<Plain("lookup"), Plain("create")>>}

SetOrigin(p) == [p EXCEPT !.stage = "personality_test", !.hp = FullHp(p)]

Choose(p) == IF p.stage # "origin_selection" THEN Nothing ELSE {<<SaveProfile(SetOrigin(p))>>}

Unseen(p)    == EventNames \ p.seen
Available(p) == {e \in Unseen(p) : MinLevel[e] <= p.level}

\* The first of some events, in the order of EVENTS.
FirstOf(names) ==
  {Events[i] : i \in {j \in DOMAIN Events : /\ Events[j] \in names
                                           /\ \A k \in 1 .. j - 1 : Events[k] \notin names}}

Quest(p, f) ==
  LET trials == Unseen(p) \cap Tutorial IN
  CASE p.stage \in {"absent", "origin_selection"} \/ f # NoFight -> Nothing
    [] p.stage = "personality_test" ->
         IF trials # {} THEN {<<SaveAs(p, "shown", e)>> : e \in FirstOf(trials)}
         ELSE {<<SaveProfile([p EXCEPT !.stage = "awakening"])>>}
    [] p.stage \in {"awakening", "awakened"} ->
         IF Available(p) = {} THEN {<<SaveProfile([p EXCEPT !.stage = "awakened"])>>}
         ELSE {<<SaveAs(p, "shown", e)>> : e \in Available(p)}

\* resolveEvent and applyEffects: seen from then on, and for better or worse.
Outcomes(p, e) ==
  LET then == [p EXCEPT !.seen = @ \cup {e}]
  IN  {AddXp(then, EventXp[e]), [then EXCEPT !.hp = IF @ > 0 THEN @ - 1 ELSE 0]}

\* The first event not seen yet is resolved.
Pick(p) ==
  IF p.stage = "absent" \/ Unseen(p) = {} THEN Nothing
  ELSE UNION {{<<SaveAs(q, "solved", e)>> : q \in Outcomes(p, e)} : e \in FirstOf(Unseen(p))}

Rest(p) == IF p.stage = "absent" THEN Nothing ELSE {<<SaveProfile([p EXCEPT !.hp = FullHp(p)])>>}

\* An expired ration heals or is rotten.
Use(p) ==
  IF p.stage = "absent" \/ p.rations = 0 THEN Nothing
  ELSE {<<SaveProfile([p EXCEPT !.rations = @ - 1, !.hp = n])>> :
          n \in {Min({FullHp(p), p.hp + Heal}), Max({0, p.hp - 1})}}

Move(p, f) ==
  IF p.stage = "absent" \/ f # NoFight \/ (\A z \in DOMAIN ZoneLevel : p.level < ZoneLevel[z])
  THEN Nothing ELSE {<<SaveProfile(p)>>}

-----------------------------------------------------------------------------
(* /rpghunt.                                                               *)

CoolingDown(p) == ~isMod /\ clock - p.hunted < Cooldown

InitCombat(p, foe) == [foe |-> foe, hp |-> p.hp, foeHp |-> FoeHp]

BeginHunt(p, foe) ==
  LET q == IF isMod THEN p ELSE [p EXCEPT !.hunted = clock]
  IN  IF foe \notin Foes \/ p.kills[foe] > 0 THEN Nothing
      ELSE {<<BeginFight(InitCombat(p, foe)), SaveProfile(q)>>}

\* The zone being cleared is worth a bonus, each time it is found so.
Prowl(p) == IF ZoneCleared(p) THEN {<<SaveProfile(AddXp(p, BonusXp))>>} ELSE Nothing

Beaten(p) == [p EXCEPT !.xp = (@ * 7) \div 10, !.hp = (FullHp(p) * 3) \div 10]

\* Mutant: the profile is saved before the fight is deleted.
Victory_SaveFirst(p, foe) ==
  {<<SaveAs([AddXp(p, FoeXp) EXCEPT !.kills[foe] = @ + 1], "won", foe), Plain("unfight")>>}

\* The reward, then the combat is deleted, then the profile saved; the bonus comes after.
Victory(p, foe) ==
  LET won == {[AddXp(p, FoeXp) EXCEPT !.kills[foe] = @ + 1, !.rations = @ + n] : n \in {0, 1}}
  IN  {<<Plain("unfight"), SaveAs(q, "won", foe)>>
         \o (IF ZoneCleared(q) THEN <<SaveProfile(AddXp(q, BonusXp))>> ELSE <<>>) : q \in won}

Defeat(p) ==
  {<<Plain("unfight"), SaveProfile(Beaten(p))>>
     \o (IF ZoneCleared(p) THEN <<SaveProfile(AddXp(Beaten(p), BonusXp))>> ELSE <<>>)}

EnemyTurn(p, f) == IF f.hp <= 1 THEN Defeat(p)
                   ELSE {<<SaveFight([f EXCEPT !.hp = @ - 1]), SaveProfile(p)>>}

\* A turn: the player's move, and unless it decides the fight, the foe's blow.
Turn(p, f, arg) ==
  LET hits  == IF arg \in {"none", "attack"} THEN {1, 2} ELSE {0}
      fled  == IF arg = "flee" THEN {<<Plain("unfight"), SaveProfile(p)>>} ELSE {}
      after(d) ==
        CASE f.foeHp <= d -> Victory(p, f.foe)
          [] f.foeHp > d  -> EnemyTurn(p, [f EXCEPT !.foeHp = @ - d])
  IN  fled \cup UNION {after(d) : d \in hits}

Hunt(p, f, arg) ==
  CASE p.stage = "absent" -> Nothing
    [] p.stage # "absent" /\ f # NoFight -> Turn(p, f, arg)
    [] p.stage # "absent" /\ f = NoFight /\ CoolingDown(p) -> Nothing
    [] p.stage # "absent" /\ f = NoFight /\ ~CoolingDown(p) ->
         IF arg = "none" THEN Prowl(p) ELSE BeginHunt(p, arg)

-----------------------------------------------------------------------------
(* Actions.                                                                *)

Readers == {"start", "choose", "pick", "rest", "use"}    \* these read the profile only
Lookers == {"quest", "hunt", "move"}                     \* these read the combat next

Args(cmd) == IF cmd = "hunt" THEN Foes \cup FarFoes \cup Moves \cup {"none"} ELSE {"none"}

Plans(cmd, p) ==
  CASE cmd = "start" -> Start(p) [] cmd = "choose" -> Choose(p) [] cmd = "pick" -> Pick(p)
    [] cmd = "rest" -> Rest(p)   [] cmd = "use" -> Use(p)

PlansInSight(cmd, p, f, arg) ==
  CASE cmd = "quest" -> Quest(p, f) [] cmd = "hunt" -> Hunt(p, f, arg) [] cmd = "move" -> Move(p, f)

FirstFight == IF fights = <<>> THEN NoFight ELSE Head(fights)

\* A handler with the writes it has left; its upsert has met no document so far if first.
Going(handler, todo) ==
  IF todo = <<>> THEN Resting
  ELSE [handler EXCEPT !.at = "write", !.todo = todo, !.first = fights = <<>>]

Command(h, cmd) ==
  /\ rpg[h].at = "idle" /\ commands < MaxCommands /\ cmd \in Readers
  /\ \E todo \in Plans(cmd, player) :
       rpg' = [rpg EXCEPT ![h] = Going([Resting EXCEPT !.cmd = cmd, !.p = player], todo)]
  /\ commands' = commands + 1
  /\ together' = (together \/ \E g \in RpgHandlers : rpg[g].at # "idle")
  /\ UNCHANGED <<player, fights, isMod, clock, rpgFaults, paid, solved, begun, rushed>>

CommandInSight(h, cmd, arg) ==
  /\ rpg[h].at = "idle" /\ commands < MaxCommands /\ cmd \in Lookers /\ arg \in Args(cmd)
  /\ rpg' = [rpg EXCEPT ![h] = IF player = NoProfile THEN Resting
               ELSE [Resting EXCEPT !.at = "look", !.cmd = cmd, !.arg = arg, !.p = player]]
  /\ commands' = commands + 1
  /\ together' = (together \/ \E g \in RpgHandlers : rpg[g].at # "idle")
  /\ UNCHANGED <<player, fights, isMod, clock, rpgFaults, paid, solved, begun, rushed>>

Look(h) ==
  /\ rpg[h].at = "look"
  /\ \E todo \in PlansInSight(rpg[h].cmd, rpg[h].p, FirstFight, rpg[h].arg) :
       rpg' = [rpg EXCEPT ![h] = Going(rpg[h], todo)]
  /\ UNCHANGED <<player, fights, isMod, clock, commands, rpgFaults, paid, solved,
                 begun, rushed, together>>

\* savePlayer: the whole profile, over whatever was stored meanwhile.
WriteProfile(h) ==
  LET w == Head(rpg[h].todo) IN
  /\ rpg[h].at = "write" /\ w.op = "profile"
  /\ player' = w.p
  /\ paid' = IF w.what = "won" THEN [paid EXCEPT ![w.name] = @ + 1] ELSE paid
  /\ solved' = IF w.what = "solved" THEN [solved EXCEPT ![w.name] = @ + 1] ELSE solved
  /\ rpg' = [rpg EXCEPT ![h] = Going(rpg[h], Tail(rpg[h].todo))]
  /\ UNCHANGED <<fights, isMod, clock, commands, rpgFaults, begun, rushed, together>>

\* saveCombat: playerJid is not unique, so an upsert that met no document may add a second.
WriteFight(h) ==
  LET w == Head(rpg[h].todo) IN
  /\ rpg[h].at = "write" /\ w.op = "fight"
  /\ \/ fights # <<>> /\ fights' = [fights EXCEPT ![1] = w.f]
     \/ (fights = <<>> \/ rpg[h].first) /\ fights' = Append(fights, w.f)
  /\ LET when == rpg[h].todo[2].p.hunted IN
     IF w.what = "begun" /\ ~isMod
     THEN rushed' = (rushed \/ when - begun < Cooldown) /\ begun' = when
     ELSE UNCHANGED <<begun, rushed>>
  /\ rpg' = [rpg EXCEPT ![h] = Going(rpg[h], Tail(rpg[h].todo))]
  /\ UNCHANGED <<player, isMod, clock, commands, rpgFaults, paid, solved, together>>

\* deleteCombat takes the first document only.
DropFight(h) ==
  /\ rpg[h].at = "write" /\ Head(rpg[h].todo).op = "unfight"
  /\ fights' = IF fights = <<>> THEN <<>> ELSE Tail(fights)
  /\ rpg' = [rpg EXCEPT ![h] = Going(rpg[h], Tail(rpg[h].todo))]
  /\ UNCHANGED <<player, isMod, clock, commands, rpgFaults, paid, solved, begun,
                 rushed, together>>

\* getOrCreateProfile looks again, and creates; jid is unique.
LookAgain(h) ==
  /\ rpg[h].at = "write" /\ Head(rpg[h].todo).op = "lookup"
  /\ rpg' = [rpg EXCEPT ![h] = IF player = NoProfile THEN Going(rpg[h], Tail(rpg[h].todo)) ELSE Resting]
  /\ UNCHANGED <<player, fights, isMod, clock, commands, rpgFaults, paid, solved,
                 begun, rushed, together>>

Create(h) ==
  /\ rpg[h].at = "write" /\ Head(rpg[h].todo).op = "create"
  /\ player' = IF player = NoProfile THEN NewProfile ELSE player
  /\ rpg' = [rpg EXCEPT ![h] = Resting]
  /\ UNCHANGED <<fights, isMod, clock, commands, rpgFaults, paid, solved, begun,
                 rushed, together>>

\* A call to the database rejects, or the process dies with what it had left to write.
Drop(gone) ==
  /\ rpgFaults < MaxRpgFaults /\ \E h \in gone : rpg[h].at # "idle"
  /\ rpgFaults' = rpgFaults + 1
  /\ rpg' = [h \in RpgHandlers |-> IF h \in gone THEN Resting ELSE rpg[h]]
  /\ UNCHANGED <<player, fights, isMod, clock, commands, paid, solved, begun,
                 rushed, together>>

ClockTicks ==
  /\ clock < MaxClock /\ clock' = clock + 1
  /\ UNCHANGED <<player, fights, rpg, isMod, commands, rpgFaults, paid, solved,
                 begun, rushed, together>>

RpgNext ==
  \/ \E h \in RpgHandlers :
       \/ \E cmd \in Readers : Command(h, cmd)
       \/ \E cmd \in Lookers : \E arg \in Args(cmd) : CommandInSight(h, cmd, arg)
       \/ Look(h) \/ WriteProfile(h) \/ WriteFight(h) \/ DropFight(h) \/ LookAgain(h) \/ Create(h)
       \/ Drop({h})
  \/ Drop(RpgHandlers) \/ ClockTicks

RpgSpec == RpgInit /\ [][RpgNext]_rpgVars

-----------------------------------------------------------------------------
(* Properties.                                                             *)

\* While one command runs at a time, no foe is paid for twice and no event takes effect
\* twice, wherever the process dies: the combat is deleted before the profile is saved.
RewardedOnce ==
  ~together => /\ \A f \in Foes : paid[f] <= 1
                 /\ \A e \in EventNames : solved[e] <= 1

\* Unless two commands together or one was cut short between its two writes, the fights
\* of a player who is no moderator begin a cooldown apart.
HuntsSpaced == rushed => together \/ rpgFaults > 0

\* What a player gains is gained once, and no sooner than it may be.
RewardsHold == RewardedOnce /\ HuntsSpaced
=============================================================================

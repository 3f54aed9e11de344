----------------------------- MODULE CommandGate -----------------------------
(***************************************************************************)
(* MessagePipeline.handleMessage for messages that carry a command: which  *)
(* commands run, for whom and where, while the commands that decide it     *)
(* (/disable, /enable, /ban, /unban, /activate, /deactivate) run too.      *)
(*                                                                         *)
(* Every message has a handler of its own.  A handler alternates reads of  *)
(* MongoDB, each an await, with code that runs alone.  Whether a command   *)
(* is disabled is asked of a cache first; a miss reads the collection,     *)
(* and what was read is stored after the await.                            *)
(*                                                                         *)
(* A message of a private chat has no group metadata and is dropped before *)
(* all this.  Replies, experience points, the antilink moderation (calls   *)
(* to WhatsApp that nothing waits for) and what other commands do are left *)
(* out.  The 120 s limit on a command ends the wait for it, not the        *)
(* command: it changes none of this state.                                 *)
(***************************************************************************)
EXTENDS Integers, FiniteSets

CONSTANTS
  Users, Groups,
  Mods,          \* the configured moderators
  Admins,        \* the admins of the groups
  Modes,         \* how a group addresses users: phone numbers or LIDs
  ModeOf,        \* the mode of each group
  Features,      \* the switches of a group; "cmd": commands run
  Plain,         \* the commands other than the ones below
  AdminOnly,     \* the commands among them for group admins
  Used,          \* the commands that are sent in this instance
  Toggled,       \* the commands that /disable and /enable are about
  Metas,         \* whether group metadata can be had, and whether it can not
  Handlers,      \* message handlers that may be in flight together
  MaxMessages,   \* bound: messages received in one behaviour
  MaxFails,      \* bound: database operations that fail
  MaxCrashes     \* bound: crashes of the process

Toggles  == {"disable", "enable"}
Bans     == {"ban", "unban"}
Switches == {"activate", "deactivate"}
ModsOnly == Toggles \cup Bans
Cmds     == Plain \cup Toggles \cup Bans \cup Switches

ASSUME GateAssumption ==
  /\ Plain \cap (Toggles \cup Bans \cup Switches) = {}
  /\ Mods \subseteq Users /\ Admins \subseteq Users
  /\ AdminOnly \subseteq Plain /\ Used \subseteq Cmds /\ Toggled \subseteq Cmds
  /\ Metas \subseteq BOOLEAN /\ "cmd" \in Features
  /\ ModeOf \in [Groups -> Modes]
  /\ MaxMessages \in Nat /\ MaxFails \in Nat /\ MaxCrashes \in Nat

(* What a message is about. *)
Abouts(cmd) ==
  CASE cmd \in Toggles  -> Toggled
    [] cmd \in Bans     -> Users
    [] cmd \in Switches -> Features
    [] OTHER            -> {cmd}

(* Group metadata is missing (meta is FALSE) when WhatsApp did not answer. *)
Messages ==
  {m \in [cmd : Cmds, about : Cmds \cup Users \cup Features, from : Users,
          chat : Groups, meta : BOOLEAN] : m.about \in Abouts(m.cmd)}
NoMessage == [cmd |-> "none"]

(* A user is stored under the address the group shows. *)
Address(u, g) == <<u, ModeOf[g]>>
Addresses     == Users \X Modes

VARIABLES
  disabled,   \* the disabledcommands collection
  banned,     \* the addresses of users with ban set
  active,     \* active[g]: the features that are on in group g
  cache,      \* disabledCommandsCache: "unknown" when there is no entry
  stage,      \* stage[h]: the await the handler is at
  task,       \* task[h]: its message
  got,        \* got[h]: the verdict a cache miss read
  known,      \* known[h]: ghost, why the message should be refused, since it came
  excused,    \* ghost: commands whose entry was filled with an old verdict, or
              \* whose toggle failed half-way
  received, fails, crashes

stored == <<disabled, banned, active>>
local  == <<stage, task, got>>
bounds == <<received, fails, crashes>>
vars   == <<stored, cache, local, known, excused, bounds>>

Stages  == {"idle", "group", "user", "lookup", "fill", "filled", "run", "write", "written"}
Verdict == {"unknown", "disabled", "enabled"}
Reasons == {"disabled", "banned", "quiet"}

TypeOK ==
  /\ disabled \in SUBSET Cmds /\ banned \in SUBSET Addresses
  /\ active \in [Groups -> SUBSET Features]
  /\ cache \in [Cmds -> Verdict]
  /\ stage \in [Handlers -> Stages]
  /\ task \in [Handlers -> Messages \cup {NoMessage}]
  /\ \A h \in Handlers : stage[h] # "idle" => task[h] \in Messages
  /\ got \in [Handlers -> BOOLEAN]
  /\ known \in [Handlers -> SUBSET Reasons]
  /\ excused \in SUBSET Cmds
  /\ received \in 0 .. MaxMessages /\ fails \in 0 .. MaxFails /\ crashes \in 0 .. MaxCrashes

Init ==
  /\ disabled = {} /\ banned = {}
  /\ active = [g \in Groups |-> {"cmd"}]
  /\ cache = [c \in Cmds |-> "unknown"]
  /\ stage = [h \in Handlers |-> "idle"]
  /\ task = [h \in Handlers |-> NoMessage]
  /\ got = [h \in Handlers |-> FALSE]
  /\ known = [h \in Handlers |-> {}]
  /\ excused = {}
  /\ received = 0 /\ fails = 0 /\ crashes = 0

-----------------------------------------------------------------------------
(* Mutant: the handler keeps its stage. *)
Finish_StageKept(h) ==
  /\ UNCHANGED stage
  /\ task' = [task EXCEPT ![h] = NoMessage]
  /\ got' = [got EXCEPT ![h] = FALSE]
  /\ known' = [known EXCEPT ![h] = {}]

(* The handler returns. *)
Finish(h) ==
  /\ stage' = [stage EXCEPT ![h] = "idle"]
  /\ task' = [task EXCEPT ![h] = NoMessage]
  /\ got' = [got EXCEPT ![h] = FALSE]
  /\ known' = [known EXCEPT ![h] = {}]

GoTo(h, next) == stage' = [stage EXCEPT ![h] = next]

(* A toggle of c was written and its handler has not come to the cache yet. *)
Unsettled(c) == \E h \in Handlers :
                  stage[h] = "written" /\ task[h].cmd \in Toggles /\ task[h].about = c

(* The reasons to refuse that are established when the message arrives. *)
Established(m) ==
  (IF m.cmd \in disabled /\ ~Unsettled(m.cmd) THEN {"disabled"} ELSE {})
  \cup (IF Address(m.from, m.chat) \in banned THEN {"banned"} ELSE {})
  \cup (IF "cmd" \notin active[m.chat] THEN {"quiet"} ELSE {})

(* The group's document is read for the command gate, except for /activate and
   /deactivate and when there is no metadata, which lets every command pass. *)
Receive(h, m) ==
  /\ stage[h] = "idle" /\ received < MaxMessages
  /\ received' = received + 1
  /\ task' = [task EXCEPT ![h] = m]
  /\ known' = [known EXCEPT ![h] = Established(m)]
  /\ GoTo(h, IF m.meta /\ m.cmd \notin Switches THEN "group" ELSE "user")
  /\ UNCHANGED <<stored, cache, got, excused, fails, crashes>>

(* Mutant: the group's switch is not looked at. *)
ReadGroup_Ignored(h) ==
  /\ stage[h] = "group"
  /\ GoTo(h, "user")
  /\ UNCHANGED <<stored, cache, task, got, known, excused, bounds>>

ReadGroup(h) ==
  /\ stage[h] = "group"
  /\ IF "cmd" \in active[task[h].chat]
     THEN GoTo(h, "user") /\ UNCHANGED <<task, got, known>>
     ELSE Finish(h)
  /\ UNCHANGED <<stored, cache, excused, bounds>>

(* Mutant: moderators are let through without a look at their ban. *)
ReadUser_NotMods(h) ==
  /\ stage[h] = "user"
  /\ IF Address(task[h].from, task[h].chat) \in banned /\ task[h].from \notin Mods
     THEN Finish(h)
     ELSE GoTo(h, "lookup") /\ UNCHANGED <<task, got, known>>
  /\ UNCHANGED <<stored, cache, excused, bounds>>

ReadUser(h) ==
  /\ stage[h] = "user"
  /\ IF Address(task[h].from, task[h].chat) \in banned
     THEN Finish(h)
     ELSE GoTo(h, "lookup") /\ UNCHANGED <<task, got, known>>
  /\ UNCHANGED <<stored, cache, excused, bounds>>

(* A verdict is at hand: the role checks and the start of the command follow
   without an await.                                                       *)
Permitted(m) ==
  /\ m.cmd \in ModsOnly => m.from \in Mods
  /\ m.cmd \in AdminOnly => m.meta /\ m.from \in Admins

Decide(h, verdict) ==
  IF verdict = "enabled" /\ Permitted(task[h])
  THEN GoTo(h, "run") /\ UNCHANGED <<task, got, known>>
  ELSE Finish(h)

Lookup(h) ==
  /\ stage[h] = "lookup"
  /\ IF cache[task[h].cmd] = "unknown"
     THEN GoTo(h, "fill") /\ UNCHANGED <<task, got, known>>
     ELSE Decide(h, cache[task[h].cmd])
  /\ UNCHANGED <<stored, cache, excused, bounds>>

ReadDisabled(h) ==
  /\ stage[h] = "fill"
  /\ got' = [got EXCEPT ![h] = task[h].cmd \in disabled]
  /\ GoTo(h, "filled")
  /\ UNCHANGED <<stored, cache, task, known, excused, bounds>>

(* The verdict read before the await overwrites whatever the entry is now. *)
Fill(h) ==
  LET c       == task[h].cmd
      verdict == IF got[h] THEN "disabled" ELSE "enabled"
  IN  /\ stage[h] = "filled"
      /\ cache' = [cache EXCEPT ![c] = verdict]
      /\ excused' = IF got[h] = (c \in disabled) THEN excused \ {c} ELSE excused \cup {c}
      /\ Decide(h, verdict)
      /\ UNCHANGED <<stored, bounds>>

-----------------------------------------------------------------------------
(* The commands that decide.  Each reads what it is about, answers "already"
   when there is nothing to change, and otherwise writes.                  *)

Target(m)  == Address(m.about, m.chat)
Sets(m)    == m.cmd \in {"disable", "ban", "activate"}
Holds(m)   == CASE m.cmd \in Toggles  -> m.about \in disabled
                [] m.cmd \in Bans     -> Target(m) \in banned
                [] m.cmd \in Switches -> m.about \in active[m.chat]

Run(h) ==
  /\ stage[h] = "run"
  /\ IF task[h].cmd \in Plain \/ Holds(task[h]) = Sets(task[h])
     THEN Finish(h)
     ELSE GoTo(h, "write") /\ UNCHANGED <<task, got, known>>
  /\ UNCHANGED <<stored, cache, excused, bounds>>

(* The reasons that a write takes away from messages that are on their way. *)
Lifted(g) ==
  (IF task[g].cmd \notin disabled' THEN {"disabled"} ELSE {})
  \cup (IF Address(task[g].from, task[g].chat) \notin banned' THEN {"banned"} ELSE {})
  \cup (IF "cmd" \in active'[task[g].chat] THEN {"quiet"} ELSE {})

Lift ==
  known' = [g \in Handlers |-> IF stage'[g] = "idle" THEN {} ELSE known[g] \ Lifted(g)]

(* The write of the command of h reaches the database. *)
(* What each command stores. *)
DisableCommand(m) == disabled' = disabled \cup {m.about} /\ UNCHANGED <<banned, active>>
EnableCommand(m)  == disabled' = disabled \ {m.about} /\ UNCHANGED <<banned, active>>
BanUser(m)        == banned' = banned \cup {Target(m)} /\ UNCHANGED <<disabled, active>>
UnbanUser(m)      == banned' = banned \ {Target(m)} /\ UNCHANGED <<disabled, active>>
Activate(m) ==
  active' = [active EXCEPT ![m.chat] = @ \cup {m.about}] /\ UNCHANGED <<disabled, banned>>
Deactivate(m) ==
  active' = [active EXCEPT ![m.chat] = @ \ {m.about}] /\ UNCHANGED <<disabled, banned>>

Store(h) ==
  LET m == task[h]
  IN  CASE m.cmd = "disable"    -> DisableCommand(m)
        [] m.cmd = "enable"     -> EnableCommand(m)
        [] m.cmd = "ban"        -> BanUser(m)
        [] m.cmd = "unban"      -> UnbanUser(m)
        [] m.cmd = "activate"   -> Activate(m)
        [] m.cmd = "deactivate" -> Deactivate(m)

(* disabledcommands has a unique index: of two inserts the second throws. *)
Duplicate(m) == m.cmd = "disable" /\ m.about \in disabled

Drop(h) ==
  /\ stage' = [stage EXCEPT ![h] = "idle"]
  /\ task' = [task EXCEPT ![h] = NoMessage]
  /\ got' = [got EXCEPT ![h] = FALSE]

Write(h) ==
  /\ stage[h] = "write"
  /\ IF Duplicate(task[h])
     THEN Finish(h) /\ UNCHANGED stored
     ELSE /\ Store(h)
          /\ IF task[h].cmd \in Toggles
             THEN GoTo(h, "written") /\ UNCHANGED <<task, got>>
             ELSE Drop(h)
          /\ Lift
  /\ UNCHANGED <<cache, excused, bounds>>

(* Mutant: only /disable invalidates the entry. *)
Invalidate_DisableOnly(h) ==
  LET c == task[h].about
  IN  /\ stage[h] = "written"
      /\ cache' = IF task[h].cmd = "disable" THEN [cache EXCEPT ![c] = "unknown"] ELSE cache
      /\ excused' = excused \ {c}
      /\ Finish(h)
      /\ UNCHANGED <<stored, bounds>>

(* Mutant: the entry of the toggling command is invalidated instead. *)
Invalidate_Itself(h) ==
  /\ stage[h] = "written"
  /\ cache' = [cache EXCEPT ![task[h].cmd] = "unknown"]
  /\ excused' = excused \ {task[h].about}
  /\ Finish(h)
  /\ UNCHANGED <<stored, bounds>>

Invalidate(h) ==
  LET c == task[h].about
  IN  /\ stage[h] = "written"
      /\ cache' = [cache EXCEPT ![c] = "unknown"]
      /\ excused' = excused \ {c}
      /\ Finish(h)
      /\ UNCHANGED <<stored, bounds>>

(* A database operation throws: the pipeline logs it and the handler is over.
   A write may have been applied before its answer was lost.               *)
Fails(h) ==
  /\ stage[h] \in {"group", "user", "fill", "run", "write"} /\ fails < MaxFails
  /\ fails' = fails + 1
  /\ \/ Finish(h) /\ UNCHANGED <<stored, excused>>
     \/ /\ stage[h] = "write" /\ ~Duplicate(task[h])
        /\ Store(h) /\ Drop(h) /\ Lift
        /\ excused' = IF task[h].cmd \in Toggles THEN excused \cup {task[h].about} ELSE excused
  /\ UNCHANGED <<cache, received, crashes>>

(* The process restarts and loads the cache from the collection. *)
Crash ==
  /\ crashes < MaxCrashes
  /\ crashes' = crashes + 1
  /\ cache' = [c \in Cmds |-> IF c \in disabled THEN "disabled" ELSE "unknown"]
  /\ stage' = [h \in Handlers |-> "idle"]
  /\ task' = [h \in Handlers |-> NoMessage]
  /\ got' = [h \in Handlers |-> FALSE]
  /\ known' = [h \in Handlers |-> {}]
  /\ excused' = {}
  /\ UNCHANGED <<stored, received, fails>>

Next ==
  \/ \E h \in Handlers :
       \/ \E cmd \in Used, u \in Users, g \in Groups, meta \in Metas :
            \E about \in Abouts(cmd) :
              Receive(h, [cmd |-> cmd, about |-> about, from |-> u, chat |-> g, meta |-> meta])
       \/ ReadGroup(h) \/ ReadUser(h) \/ Lookup(h) \/ ReadDisabled(h) \/ Fill(h)
       \/ Run(h) \/ Write(h) \/ Invalidate(h) \/ Fails(h)
  \/ Crash

Spec == Init /\ [][Next]_vars

-----------------------------------------------------------------------------
(***************************************************************************)
(* Properties                                                              *)
(***************************************************************************)

(* Once no toggle of a command is half done, its cache entry says what the
   collection says: across toggles, misses and restarts that overlap, unless
   a miss stored a verdict read before a toggle, or a toggle failed after its
   write (MessagePipeline and the commands /disable and /enable).          *)
CacheAgrees ==
  \A c \in Cmds :
    cache[c] = "unknown" \/ Unsettled(c) \/ c \in excused
    \/ (cache[c] = "disabled" <=> c \in disabled)

(* A message that arrives after /disable answered does not run the command,
   with the same two exceptions.                                           *)
DisabledHolds ==
  [][\A h \in Handlers :
       stage[h] # "run" /\ stage'[h] = "run" /\ "disabled" \in known[h] =>
         task[h].cmd \in excused']_vars

(* Disable.ts: "Disable a command or feature globally".  The same without an
   exception.                                                              *)
DisabledGlobally ==
  \A h \in Handlers : stage[h] = "run" => "disabled" \notin known[h]

(* Ban.ts: "Ban a user from using the bot".  A message that arrives after the
   ban of the address it comes from is stored, and that no unban overtakes,
   runs nothing.  The same user at the other kind of address is not banned. *)
BanHolds ==
  \A h \in Handlers : stage[h] = "run" => "banned" \notin known[h]

(* Group.ts: "Are commands enabled for this group".  In a group whose commands
   were off when a message arrived, and stay off, only /activate and
   /deactivate run, unless the group's metadata could not be had.          *)
QuietHolds ==
  \A h \in Handlers :
    stage[h] = "run" /\ "quiet" \in known[h] => task[h].cmd \in Switches \/ ~task[h].meta
=============================================================================

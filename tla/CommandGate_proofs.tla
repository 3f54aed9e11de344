------------------------- MODULE CommandGate_proofs -------------------------
(***************************************************************************)
(* Theorems about CommandGate, for any users, groups, commands, handlers   *)
(* and bounds: its type invariant, that bans and switched-off groups hold  *)
(* for every message that arrives afterwards, and that the cache and the   *)
(* gate agree with the collection of disabled commands.                    *)
(***************************************************************************)
EXTENDS CommandGate, TLAPS

(* Every reason to refuse that is remembered is still a fact, and the reads of
   the group and of the user have not let it pass: what is true of a handler
   at "run" has to be true from the read on.                               *)
GroundedAt(h) ==
  stage[h] # "idle" =>
    /\ "banned" \in known[h] =>
         /\ Address(task[h].from, task[h].chat) \in banned
         /\ stage[h] \in {"group", "user"}
    /\ "quiet" \in known[h] =>
         /\ "cmd" \notin active[task[h].chat]
         /\ stage[h] # "group" => task[h].cmd \in Switches \/ ~task[h].meta
    /\ stage[h] \in {"write", "written"} => task[h].cmd \in Toggles \cup Bans \cup Switches

Grounded == \A h \in Handlers : GroundedAt(h)

GateInv == TypeOK /\ Grounded

USE DEF Stages, Verdict, Reasons

-----------------------------------------------------------------------------
(* Nothing is known of a message before one arrives. *)
LEMMA InitGate == Init => GateInv
  BY GateAssumption DEF Init, GateInv, TypeOK, Grounded, GroundedAt, NoMessage, Addresses

(* A message that arrives. *)
LEMMA ReceiveGate ==
  ASSUME GateInv, NEW h \in Handlers, NEW m \in Messages, Receive(h, m)
  PROVE  GateInv'
<1>1. TypeOK'
  BY GateAssumption DEF Receive, GateInv, TypeOK, GoTo, Established, stored
<1>2. Grounded'
  <2> SUFFICES ASSUME NEW g \in Handlers PROVE GroundedAt(g)'
    BY DEF Grounded
  <2>1. CASE g = h
    BY <2>1 DEF Receive, GateInv, TypeOK, GroundedAt, GoTo, Established, stored, Address
  <2>2. CASE g # h
    BY <2>2 DEF Receive, GateInv, TypeOK, Grounded, GroundedAt, GoTo, stored, Address
  <2> QED BY <2>1, <2>2
<1> QED BY <1>1, <1>2 DEF GateInv

(* The steps that read.  The handler moves on, or it returns and forgets its
   message; the database stays as it is.                                   *)
Moves(h, next) ==
  /\ next \in Stages \ {"idle"}
  /\ GoTo(h, next) /\ UNCHANGED <<task, known>>

(* A handler that moves on past a read keeps the invariant, if it lets no reason pass. *)
LEMMA MovesGate ==
  ASSUME GateInv, NEW h \in Handlers, NEW next, Moves(h, next),
         UNCHANGED <<disabled, banned, active>>, stage[h] # "idle",
         "banned" \in known[h] => next \in {"group", "user"},
         "quiet" \in known[h] /\ next # "group" => task[h].cmd \in Switches \/ ~task[h].meta,
         next \in {"write", "written"} => task[h].cmd \in Toggles \cup Bans \cup Switches
  PROVE  /\ stage' \in [Handlers -> Stages]
         /\ \A g \in Handlers : stage'[g] # "idle" => task'[g] \in Messages
         /\ Grounded'
<1>1. /\ stage' \in [Handlers -> Stages]
      /\ \A g \in Handlers : stage'[g] # "idle" => task'[g] \in Messages
  BY DEF Moves, GoTo, GateInv, TypeOK
<1>2. ASSUME NEW g \in Handlers PROVE GroundedAt(g)'
  <2>1. CASE g = h
    BY <2>1 DEF Moves, GoTo, GateInv, TypeOK, Grounded, GroundedAt, Address
  <2>2. CASE g # h
    BY <2>2 DEF Moves, GoTo, GateInv, TypeOK, Grounded, GroundedAt, Address
  <2> QED BY <2>1, <2>2
<1> QED BY <1>1, <1>2 DEF Grounded

(* A handler that returns keeps the invariant. *)
LEMMA FinishGate ==
  ASSUME GateInv, NEW h \in Handlers, Finish(h), UNCHANGED <<disabled, banned, active>>
  PROVE  /\ stage' \in [Handlers -> Stages]
         /\ task' \in [Handlers -> Messages \cup {NoMessage}]
         /\ \A g \in Handlers : stage'[g] # "idle" => task'[g] \in Messages
         /\ got' \in [Handlers -> BOOLEAN] /\ known' \in [Handlers -> SUBSET Reasons]
         /\ Grounded'
<1>1. /\ stage' \in [Handlers -> Stages]
      /\ task' \in [Handlers -> Messages \cup {NoMessage}]
      /\ \A g \in Handlers : stage'[g] # "idle" => task'[g] \in Messages
      /\ got' \in [Handlers -> BOOLEAN] /\ known' \in [Handlers -> SUBSET Reasons]
  BY DEF Finish, GateInv, TypeOK
<1>2. ASSUME NEW g \in Handlers PROVE GroundedAt(g)'
  BY DEF Finish, GateInv, TypeOK, Grounded, GroundedAt, Address
<1> QED BY <1>1, <1>2 DEF Grounded

(* The read of the group keeps it. *)
LEMMA ReadGroupGate ==
  ASSUME GateInv, NEW h \in Handlers, ReadGroup(h)
  PROVE  GateInv'
<1>1. CASE "cmd" \in active[task[h].chat]
  <2>1. Moves(h, "user")
    BY <1>1 DEF ReadGroup, Moves
  <2>2. "quiet" \notin known[h]
    BY <1>1 DEF ReadGroup, GateInv, Grounded, GroundedAt
  <2> QED BY <1>1, <2>1, <2>2, MovesGate DEF ReadGroup, GateInv, TypeOK, stored, bounds
<1>2. CASE "cmd" \notin active[task[h].chat]
  BY <1>2, FinishGate DEF ReadGroup, GateInv, TypeOK, stored, bounds
<1> QED BY <1>1, <1>2

(* The read of the user keeps it. *)
LEMMA ReadUserGate ==
  ASSUME GateInv, NEW h \in Handlers, ReadUser(h)
  PROVE  GateInv'
<1>1. CASE Address(task[h].from, task[h].chat) \in banned
  BY <1>1, FinishGate DEF ReadUser, GateInv, TypeOK, stored, bounds
<1>2. CASE Address(task[h].from, task[h].chat) \notin banned
  <2>1. Moves(h, "lookup")
    BY <1>2 DEF ReadUser, Moves
  <2>2. /\ "banned" \notin known[h]
        /\ "quiet" \in known[h] => task[h].cmd \in Switches \/ ~task[h].meta
    BY <1>2 DEF ReadUser, GateInv, Grounded, GroundedAt
  <2> QED BY <1>2, <2>1, <2>2, MovesGate DEF ReadUser, GateInv, TypeOK, stored, bounds
<1> QED BY <1>1, <1>2

(* Past the reads of the group and the user nothing is asked of them again. *)
LEMMA PastReads ==
  ASSUME GateInv, NEW h \in Handlers, stage[h] \notin {"idle", "group", "user"}
  PROVE  /\ "banned" \notin known[h]
         /\ "quiet" \in known[h] => task[h].cmd \in Switches \/ ~task[h].meta
  BY DEF GateInv, Grounded, GroundedAt

(* A verdict keeps it. *)
LEMMA DecideGate ==
  ASSUME GateInv, NEW h \in Handlers, NEW v, Decide(h, v),
         UNCHANGED <<disabled, banned, active>>, stage[h] \in {"lookup", "filled"}
  PROVE  /\ stage' \in [Handlers -> Stages]
         /\ task' \in [Handlers -> Messages \cup {NoMessage}]
         /\ \A g \in Handlers : stage'[g] # "idle" => task'[g] \in Messages
         /\ got' \in [Handlers -> BOOLEAN] /\ known' \in [Handlers -> SUBSET Reasons]
         /\ Grounded'
<1>1. CASE v = "enabled" /\ Permitted(task[h])
  <2>1. Moves(h, "run") /\ UNCHANGED got
    BY <1>1 DEF Decide, Moves
  <2> QED BY <2>1, PastReads, MovesGate DEF GateInv, TypeOK, Moves
<1>2. CASE ~(v = "enabled" /\ Permitted(task[h]))
  BY <1>2, FinishGate DEF Decide
<1> QED BY <1>1, <1>2

(* So does a look at the cache, *)
LEMMA LookupGate ==
  ASSUME GateInv, NEW h \in Handlers, Lookup(h)
  PROVE  GateInv'
<1>1. CASE cache[task[h].cmd] = "unknown"
  <2>1. Moves(h, "fill") /\ UNCHANGED got
    BY <1>1 DEF Lookup, Moves
  <2> QED BY <2>1, PastReads, MovesGate DEF Lookup, GateInv, TypeOK, stored, bounds, Moves
<1>2. CASE cache[task[h].cmd] # "unknown"
  BY <1>2, DecideGate DEF Lookup, GateInv, TypeOK, stored, bounds
<1> QED BY <1>1, <1>2

(* a read of the collection, *)
LEMMA ReadDisabledGate ==
  ASSUME GateInv, NEW h \in Handlers, ReadDisabled(h)
  PROVE  GateInv'
<1>1. Moves(h, "filled")
  BY DEF ReadDisabled, Moves
<1> QED BY <1>1, PastReads, MovesGate DEF ReadDisabled, GateInv, TypeOK, stored, bounds, Moves

(* and a fill. *)
LEMMA FillGate ==
  ASSUME GateInv, NEW h \in Handlers, Fill(h)
  PROVE  GateInv'
<1>1. task[h] \in Messages
  BY DEF Fill, GateInv, TypeOK
<1>2. cache' \in [Cmds -> Verdict] /\ excused' \in SUBSET Cmds
  BY <1>1 DEF Fill, GateInv, TypeOK, Messages
<1>3. \E v : Decide(h, v)
  BY DEF Fill
<1> QED BY <1>2, <1>3, DecideGate DEF Fill, GateInv, TypeOK, stored, bounds

-----------------------------------------------------------------------------
(* The steps of the commands that decide. *)

(* A command that has something to write keeps it. *)
LEMMA RunGate ==
  ASSUME GateInv, NEW h \in Handlers, Run(h)
  PROVE  GateInv'
<1>1. CASE task[h].cmd \in Plain \/ Holds(task[h]) = Sets(task[h])
  BY <1>1, FinishGate DEF Run, GateInv, TypeOK, stored, bounds
<1>2. CASE ~(task[h].cmd \in Plain \/ Holds(task[h]) = Sets(task[h]))
  <2>1. Moves(h, "write") /\ UNCHANGED got
    BY <1>2 DEF Run, Moves
  <2>2. task[h] \in Messages
    BY DEF Run, GateInv, TypeOK
  <2>3. task[h].cmd \in Toggles \cup Bans \cup Switches
    BY <1>2, <2>2 DEF Messages, Cmds
  <2> QED BY <2>1, <2>3, PastReads, MovesGate DEF Run, GateInv, TypeOK, stored, bounds, Moves
<1> QED BY <1>1, <1>2

(* What a controlling command is about. *)
LEMMA AboutTyped ==
  ASSUME NEW m \in Messages
  PROVE  /\ m.cmd \in Toggles => m.about \in Cmds
         /\ m.cmd \in Bans => m.about \in Users /\ Target(m) \in Addresses
         /\ m.cmd \in Switches => m.about \in Features
<1>1. m.about \in Abouts(m.cmd) /\ m.chat \in Groups
  BY DEF Messages
<1>2. m.cmd \in Toggles => m.about \in Toggled
  BY <1>1 DEF Abouts, Toggles, Bans, Switches
<1>3. m.cmd \in Bans => m.about \in Users
  BY <1>1 DEF Abouts, Toggles, Bans, Switches
<1>4. m.cmd \in Switches => m.about \in Features
  BY <1>1 DEF Abouts, Toggles, Bans, Switches
<1>5. ModeOf[m.chat] \in Modes
  BY <1>1, GateAssumption
<1> QED BY <1>2, <1>3, <1>4, <1>5, GateAssumption DEF Target, Address, Addresses

(* A write keeps the types. *)
LEMMA StoreTyped ==
  ASSUME GateInv, NEW h \in Handlers, stage[h] = "write", Store(h)
  PROVE  /\ disabled' \in SUBSET Cmds /\ banned' \in SUBSET Addresses
         /\ active' \in [Groups -> SUBSET Features]
<1> DEFINE m == task[h]
<1>1. m \in Messages /\ m.cmd \in Toggles \cup Bans \cup Switches
  BY DEF GateInv, TypeOK, Grounded, GroundedAt
<1>2. CASE m.cmd \in Toggles
  BY <1>1, <1>2, AboutTyped DEF Store, DisableCommand, EnableCommand, GateInv, TypeOK, Toggles
<1>3. CASE m.cmd \in Bans
  BY <1>1, <1>3, AboutTyped DEF Store, BanUser, UnbanUser, GateInv, TypeOK, Bans
<1>4. CASE m.cmd \in Switches
  <2>1. m.about \in Features /\ m.chat \in Groups
    BY <1>1, <1>4, AboutTyped DEF Messages
  <2>2. /\ UNCHANGED <<disabled, banned>>
        /\ \/ active' = [active EXCEPT ![m.chat] = @ \cup {m.about}]
           \/ active' = [active EXCEPT ![m.chat] = @ \ {m.about}]
    BY <1>4 DEF Store, Activate, Deactivate, Switches
  <2> HIDE DEF m
  <2> QED BY <2>1, <2>2 DEF GateInv, TypeOK
<1> QED BY <1>1, <1>2, <1>3, <1>4

(* After a write the reasons that are left are still facts: Lift takes away
   those that it ends.                                                     *)
LEMMA LiftGrounds ==
  ASSUME GateInv, NEW h \in Handlers, Lift,
         \A g \in Handlers \ {h} : stage'[g] = stage[g] /\ task'[g] = task[g],
         \/ stage'[h] = "idle"
         \/ /\ stage[h] = "write" /\ stage'[h] = "written"
            /\ task'[h] = task[h]
  PROVE  Grounded' /\ known' \in [Handlers -> SUBSET Reasons]
<1>1. known' \in [Handlers -> SUBSET Reasons]
  BY DEF Lift, GateInv, TypeOK
<1>2. ASSUME NEW g \in Handlers PROVE GroundedAt(g)'
  <2> SUFFICES ASSUME stage'[g] # "idle" PROVE GroundedAt(g)'
    BY DEF GroundedAt
  <2>1. task'[g] = task[g] /\ stage[g] # "idle"
    OBVIOUS
  <2>2. /\ stage'[g] = stage[g] \/ (stage[g] = "write" /\ stage'[g] = "written")
        /\ GroundedAt(g)
    BY DEF GateInv, Grounded
  <2>3. known'[g] = known[g] \ Lifted(g)
    BY DEF Lift
  <2>4. /\ "banned" \in known'[g] => "banned" \in known[g] /\ Address(task[g].from, task[g].chat) \in banned'
        /\ "quiet" \in known'[g] => "quiet" \in known[g] /\ "cmd" \notin active'[task[g].chat]
    BY <2>3 DEF Lifted
  <2> QED BY <2>1, <2>2, <2>4 DEF GroundedAt, Address
<1> QED BY <1>1, <1>2 DEF Grounded

(* The write of a command, and the end of the handler or the way to the cache. *)
LEMMA WriteGate ==
  ASSUME GateInv, NEW h \in Handlers, Write(h)
  PROVE  GateInv'
<1>1. CASE Duplicate(task[h])
  BY <1>1, FinishGate DEF Write, GateInv, TypeOK, stored, bounds
<1>2. CASE ~Duplicate(task[h])
  <2>1. Store(h) /\ Lift
    BY <1>2 DEF Write
  <2>2. /\ disabled' \in SUBSET Cmds /\ banned' \in SUBSET Addresses
        /\ active' \in [Groups -> SUBSET Features]
    BY <2>1, StoreTyped DEF Write
  <2>3. /\ stage' \in [Handlers -> Stages]
        /\ task' \in [Handlers -> Messages \cup {NoMessage}]
        /\ got' \in [Handlers -> BOOLEAN]
        /\ \A g \in Handlers : stage'[g] # "idle" => task'[g] \in Messages
    BY <1>2 DEF Write, Drop, GoTo, GateInv, TypeOK
  <2>4. /\ \A g \in Handlers \ {h} : stage'[g] = stage[g] /\ task'[g] = task[g]
        /\ \/ stage'[h] = "idle"
           \/ /\ stage[h] = "write" /\ stage'[h] = "written"
              /\ task'[h] = task[h]
    BY <1>2 DEF Write, Drop, GoTo, GateInv, TypeOK
  <2>5. Grounded' /\ known' \in [Handlers -> SUBSET Reasons]
    BY <2>1, <2>4, LiftGrounds
  <2> QED BY <2>2, <2>3, <2>5 DEF Write, GateInv, TypeOK, bounds
<1> QED BY <1>1, <1>2

(* The way to the cache keeps the invariant. *)
LEMMA InvalidateGate ==
  ASSUME GateInv, NEW h \in Handlers, Invalidate(h)
  PROVE  GateInv'
<1>1. cache' \in [Cmds -> Verdict] /\ excused' \in SUBSET Cmds
  BY DEF Invalidate, GateInv, TypeOK
<1> QED BY <1>1, FinishGate DEF Invalidate, GateInv, TypeOK, stored, bounds

(* A failed operation, with its effect or without. *)
LEMMA FailsGate ==
  ASSUME GateInv, NEW h \in Handlers, Fails(h)
  PROVE  GateInv'
<1>1. fails' \in 0 .. MaxFails
  BY GateAssumption DEF Fails, GateInv, TypeOK
<1>2. CASE Finish(h) /\ UNCHANGED <<stored, excused>>
  BY <1>1, <1>2, FinishGate DEF Fails, GateInv, TypeOK, stored
<1>3. CASE /\ stage[h] = "write" /\ ~Duplicate(task[h])
           /\ Store(h) /\ Drop(h) /\ Lift
           /\ excused' = IF task[h].cmd \in Toggles THEN excused \cup {task[h].about} ELSE excused
  <2>1. /\ disabled' \in SUBSET Cmds /\ banned' \in SUBSET Addresses
        /\ active' \in [Groups -> SUBSET Features]
    BY <1>3, StoreTyped
  <2>2. /\ stage' \in [Handlers -> Stages]
        /\ task' \in [Handlers -> Messages \cup {NoMessage}]
        /\ got' \in [Handlers -> BOOLEAN]
        /\ \A g \in Handlers : stage'[g] # "idle" => task'[g] \in Messages
    BY <1>3 DEF Drop, GateInv, TypeOK
  <2>3. /\ \A g \in Handlers \ {h} : stage'[g] = stage[g] /\ task'[g] = task[g]
        /\ stage'[h] = "idle"
    BY <1>3 DEF Drop, GateInv, TypeOK
  <2>4. Grounded' /\ known' \in [Handlers -> SUBSET Reasons]
    BY <1>3, <2>3, LiftGrounds
  <2>5. excused' \in SUBSET Cmds
    <3>1. task[h] \in Messages
      BY <1>3 DEF GateInv, TypeOK
    <3> QED BY <1>3, <3>1, AboutTyped DEF GateInv, TypeOK
  <2> QED BY <1>1, <2>1, <2>2, <2>4, <2>5 DEF Fails, GateInv, TypeOK
<1> QED BY <1>2, <1>3 DEF Fails

(* A restart keeps it. *)
LEMMA CrashGate == GateInv /\ Crash => GateInv'
<1> SUFFICES ASSUME GateInv, Crash PROVE GateInv'
  OBVIOUS
<1>1. TypeOK'
  BY GateAssumption DEF Crash, GateInv, TypeOK, stored
<1>2. Grounded'
  BY DEF Crash, Grounded, GroundedAt
<1> QED BY <1>1, <1>2 DEF GateInv

(* A step that changes nothing keeps it. *)
LEMMA StutterGate == GateInv /\ UNCHANGED vars => GateInv'
  BY DEF GateInv, TypeOK, Grounded, GroundedAt, Address, vars, stored, local, bounds

-----------------------------------------------------------------------------
(* A message that Next receives is a message. *)
LEMMA ReceivedTyped ==
  ASSUME NEW cmd \in Used, NEW u \in Users, NEW g \in Groups, NEW meta \in Metas,
         NEW about \in Abouts(cmd)
  PROVE  [cmd |-> cmd, about |-> about, from |-> u, chat |-> g, meta |-> meta] \in Messages
<1>1. cmd \in Cmds /\ meta \in BOOLEAN
  BY GateAssumption
<1>2. about \in Cmds \cup Users \cup Features
  BY <1>1, GateAssumption DEF Abouts, Toggles, Bans, Switches
<1> QED BY <1>1, <1>2 DEF Messages

(* The invariant is inductive. *)
LEMMA NextGate == GateInv /\ [Next]_vars => GateInv'
<1> SUFFICES ASSUME GateInv, Next PROVE GateInv'
  BY StutterGate
<1>1. CASE Crash
  BY <1>1, CrashGate
<1>2. ASSUME NEW h \in Handlers, NEW m \in Messages, Receive(h, m)
      PROVE  GateInv'
  BY <1>2, ReceiveGate
<1>3. ASSUME NEW h \in Handlers,
             \/ ReadGroup(h) \/ ReadUser(h) \/ Lookup(h) \/ ReadDisabled(h) \/ Fill(h)
             \/ Run(h) \/ Write(h) \/ Invalidate(h) \/ Fails(h)
      PROVE  GateInv'
  BY <1>3, ReadGroupGate, ReadUserGate, LookupGate, ReadDisabledGate, FillGate,
     RunGate, WriteGate, InvalidateGate, FailsGate
<1> QED BY <1>1, <1>2, <1>3, ReceivedTyped DEF Next

(* The gate keeps its invariant in every behaviour. *)
LEMMA GateInvariant == Spec => []GateInv
  BY InitGate, NextGate, PTL DEF Spec

(* What the handlers hold, and what the collections and the cache hold, is
   always of its type (MessagePipeline and the commands that decide).      *)
THEOREM TypeCorrect == Spec => []TypeOK
<1>1. GateInv => TypeOK
  BY DEF GateInv
<1> QED BY <1>1, GateInvariant, PTL

(* A message that arrives after the ban of its address is stored, and that no
   unban overtakes, runs nothing (ReadUser of MessagePipeline).            *)
THEOREM BansCorrect == Spec => []BanHolds
<1>1. GateInv => BanHolds
  BY DEF GateInv, Grounded, GroundedAt, BanHolds
<1> QED BY <1>1, GateInvariant, PTL

(* In a group whose commands are off from before a message arrived, it runs
   nothing but /activate and /deactivate, when the metadata could be had.  *)
THEOREM QuietCorrect == Spec => []QuietHolds
<1>1. GateInv => QuietHolds
  BY DEF GateInv, Grounded, GroundedAt, QuietHolds
<1> QED BY <1>1, GateInvariant, PTL
-----------------------------------------------------------------------------
(* The commands with a toggle that is half done. *)
Open ==
  {task[g].about : g \in {g \in Handlers : stage[g] = "written" /\ task[g].cmd \in Toggles}}

(* Open collects what Unsettled says of one command. *)
LEMMA OpenUnsettled == \A c : Unsettled(c) <=> c \in Open
  BY DEF Open, Unsettled

Agreed ==
  \A c \in Cmds :
    cache[c] = "unknown" \/ c \in Open \/ c \in excused
    \/ (cache[c] = "disabled" <=> c \in disabled)

(* Agreed is CacheAgrees, said with Open. *)
LEMMA AgreedCache == Agreed => CacheAgrees
  BY OpenUnsettled DEF Agreed, CacheAgrees

(* A message that is known to be disabled still is, and no toggle of its
   command is half done: /enable would have lifted the reason, and /disable
   does not write again what is there.                                     *)
Informed ==
  \A h \in Handlers :
    stage[h] # "idle" /\ "disabled" \in known[h] =>
      task[h].cmd \in disabled /\ task[h].cmd \notin Open

CacheInv == Agreed /\ Informed

(* A step of h alone, neither to the cache of a toggle nor from it. *)
Apart(h) ==
  /\ \A g \in Handlers \ {h} : stage'[g] = stage[g] /\ task'[g] = task[g] /\ known'[g] = known[g]
  /\ stage[h] # "written" /\ stage'[h] # "written"

Onward(h) ==
  stage'[h] = "idle" \/ (stage[h] # "idle" /\ task'[h] = task[h] /\ known'[h] = known[h])

(* A step apart from the toggles opens and closes none. *)
LEMMA ApartOpen ==
  ASSUME NEW h \in Handlers, Apart(h)
  PROVE  Open' = Open
<1>1. \A g \in Handlers : stage'[g] = "written" <=> stage[g] = "written"
  BY DEF Apart
<1>2. \A g \in Handlers : stage[g] = "written" => task'[g] = task[g]
  BY DEF Apart
<1> QED BY <1>1, <1>2 DEF Open

(* It keeps what messages know, *)
LEMMA ApartInformed ==
  ASSUME NEW h \in Handlers, Informed, Apart(h), Onward(h), disabled' = disabled
  PROVE  Informed'
<1> SUFFICES ASSUME NEW g \in Handlers, stage'[g] # "idle", "disabled" \in known'[g]
             PROVE  task'[g].cmd \in disabled' /\ task'[g].cmd \notin Open'
  BY DEF Informed
<1>1. stage[g] # "idle" /\ task'[g] = task[g] /\ "disabled" \in known[g]
  BY DEF Apart, Onward
<1>2. task[g].cmd \in disabled /\ task[g].cmd \notin Open
  BY <1>1 DEF Informed
<1> QED BY <1>1, <1>2, ApartOpen

(* and what the cache says, if it leaves cache and collection alone. *)
LEMMA ApartCache ==
  ASSUME NEW h \in Handlers, Agreed, Apart(h), UNCHANGED <<disabled, cache, excused>>
  PROVE  Agreed'
  BY ApartOpen DEF Agreed

(* A handler that returns takes a step apart. *)
LEMMA FinishApart ==
  ASSUME GateInv, NEW h \in Handlers, Finish(h), stage[h] # "written"
  PROVE  Apart(h) /\ Onward(h)
  BY DEF Finish, Apart, Onward, GateInv, TypeOK

(* So does one that moves on, *)
LEMMA GoToApart ==
  ASSUME GateInv, NEW h \in Handlers, NEW next, GoTo(h, next), UNCHANGED <<task, known>>,
         stage[h] \notin {"idle", "written"}, next # "written"
  PROVE  Apart(h) /\ Onward(h)
  BY DEF GoTo, Apart, Onward, GateInv, TypeOK

(* and one that decides. *)
LEMMA DecideApart ==
  ASSUME GateInv, NEW h \in Handlers, NEW v, Decide(h, v), stage[h] \notin {"idle", "written"}
  PROVE  Apart(h) /\ Onward(h)
  BY FinishApart, GoToApart DEF Decide

(* A message that arrives knows of a settled toggle only. *)
LEMMA ReceiveCache ==
  ASSUME GateInv, CacheInv, NEW h \in Handlers, NEW m \in Messages, Receive(h, m)
  PROVE  CacheInv'
<1>1. Apart(h)
  BY DEF Receive, GoTo, Apart, GateInv, TypeOK
<1>2. Agreed'
  BY <1>1, ApartCache DEF Receive, CacheInv, stored
<1>3. ASSUME NEW g \in Handlers, stage'[g] # "idle", "disabled" \in known'[g]
      PROVE  task'[g].cmd \in disabled' /\ task'[g].cmd \notin Open'
  <2>1. CASE g = h
    <3>1. task'[g] = m /\ known'[g] = Established(m)
      BY <2>1 DEF Receive, GateInv, TypeOK
    <3>2. m.cmd \in disabled /\ m.cmd \notin Open
      BY <1>3, <3>1, OpenUnsettled DEF Established
    <3> QED BY <1>1, <3>1, <3>2, ApartOpen DEF Receive, stored
  <2>2. CASE g # h
    <3>1. stage'[g] = stage[g] /\ task'[g] = task[g] /\ known'[g] = known[g]
      BY <1>1, <2>2 DEF Apart
    <3>2. task[g].cmd \in disabled /\ task[g].cmd \notin Open
      BY <1>3, <3>1 DEF CacheInv, Informed
    <3> QED BY <1>1, <3>1, <3>2, ApartOpen DEF Receive, stored
  <2> QED BY <2>1, <2>2
<1> QED BY <1>2, <1>3 DEF CacheInv, Informed

(* The steps that touch neither the collection nor the cache. *)
LEMMA ReadsCache ==
  ASSUME GateInv, CacheInv, NEW h \in Handlers,
         ReadGroup(h) \/ ReadUser(h) \/ Lookup(h) \/ ReadDisabled(h) \/ Run(h)
  PROVE  CacheInv'
<1>1. UNCHANGED <<disabled, cache, excused>>
  BY DEF ReadGroup, ReadUser, Lookup, ReadDisabled, Run, stored
<1>2. Apart(h) /\ Onward(h)
  <2>1. CASE ReadGroup(h)
    BY <2>1, FinishApart, GoToApart DEF ReadGroup
  <2>2. CASE ReadUser(h)
    BY <2>2, FinishApart, GoToApart DEF ReadUser
  <2>3. CASE Lookup(h)
    BY <2>3, DecideApart, GoToApart DEF Lookup
  <2>4. CASE ReadDisabled(h)
    BY <2>4, GoToApart DEF ReadDisabled
  <2>5. CASE Run(h)
    BY <2>5, FinishApart, GoToApart DEF Run
  <2> QED BY <2>1, <2>2, <2>3, <2>4, <2>5
<1> QED BY <1>1, <1>2, ApartCache, ApartInformed DEF CacheInv

(* A miss that is stored says what the collection says, or it is excused. *)
LEMMA FillCache ==
  ASSUME GateInv, CacheInv, NEW h \in Handlers, Fill(h)
  PROVE  CacheInv'
<1> DEFINE c == task[h].cmd
<1>1. Apart(h) /\ Onward(h) /\ disabled' = disabled
  BY DecideApart DEF Fill, stored
<1>2. ASSUME NEW d \in Cmds
      PROVE  \/ cache'[d] = "unknown" \/ d \in Open' \/ d \in excused'
             \/ (cache'[d] = "disabled" <=> d \in disabled')
  <2>1. CASE d = c
    <3>1. cache'[d] = (IF got[h] THEN "disabled" ELSE "enabled")
      BY <2>1 DEF Fill, GateInv, TypeOK
    <3>2. got[h] \in BOOLEAN
      BY DEF GateInv, TypeOK
    <3>3. CASE got[h] = (c \in disabled)
      BY <1>1, <2>1, <3>1, <3>2, <3>3
    <3>4. CASE got[h] # (c \in disabled)
      BY <2>1, <3>4 DEF Fill
    <3> QED BY <3>3, <3>4
  <2>2. CASE d # c
    <3>1. cache'[d] = cache[d] /\ (d \in excused => d \in excused')
      BY <2>2 DEF Fill, GateInv, TypeOK
    <3> QED BY <1>1, <3>1, ApartOpen DEF CacheInv, Agreed
  <2> QED BY <2>1, <2>2
<1>3. Agreed'
  BY <1>2 DEF Agreed
<1> QED BY <1>1, <1>3, ApartInformed DEF CacheInv

(* What a write of h changes for the commands other than the one it is about,
   and for the reasons that are left.                                      *)
LEMMA StoreDisabled ==
  ASSUME GateInv, NEW h \in Handlers, stage[h] = "write", Store(h), ~Duplicate(task[h])
  PROVE  /\ task[h].cmd \notin Toggles => disabled' = disabled
         /\ \A d : d # task[h].about => (d \in disabled' <=> d \in disabled)
         /\ task[h].cmd \in Toggles => ~(task[h].about \in disabled /\ task[h].about \in disabled')
<1>1. task[h].cmd \in Toggles \cup Bans \cup Switches
  BY DEF GateInv, Grounded, GroundedAt
<1>2. CASE task[h].cmd \in Toggles
  BY <1>2 DEF Store, DisableCommand, EnableCommand, Duplicate, Toggles
<1>3. CASE task[h].cmd \in Bans
  BY <1>3 DEF Store, BanUser, UnbanUser, Bans, Toggles
<1>4. CASE task[h].cmd \in Switches
  BY <1>4 DEF Store, Activate, Deactivate, Switches, Toggles
<1> QED BY <1>1, <1>2, <1>3, <1>4

(* The reasons that a write leaves are known from before, and still true. *)
LEMMA LiftKeeps ==
  ASSUME GateInv, NEW h \in Handlers, NEW g \in Handlers, Lift,
         stage'[g] # "idle", "disabled" \in known'[g]
  PROVE  "disabled" \in known[g] /\ task[g].cmd \in disabled'
  BY DEF Lift, Lifted

(* A write opens the toggle of the command that it changes. *)
LEMMA WriteCache ==
  ASSUME GateInv, CacheInv, NEW h \in Handlers, Write(h)
  PROVE  CacheInv'
<1>1. CASE Duplicate(task[h])
  <2>1. Finish(h) /\ UNCHANGED <<disabled, cache, excused>> /\ stage[h] = "write"
    BY <1>1 DEF Write, stored
  <2> QED BY <2>1, FinishApart, ApartCache, ApartInformed DEF CacheInv
<1>2. CASE ~Duplicate(task[h])
  <2> DEFINE c == task[h].about
  <2>1. /\ Store(h) /\ Lift /\ stage[h] = "write" /\ UNCHANGED <<cache, excused>>
    BY <1>2 DEF Write
  <2>2. /\ \A g \in Handlers \ {h} : stage'[g] = stage[g] /\ task'[g] = task[g]
        /\ \/ task[h].cmd \in Toggles /\ stage'[h] = "written" /\ task'[h] = task[h]
           \/ task[h].cmd \notin Toggles /\ stage'[h] = "idle"
    BY <1>2 DEF Write, Drop, GoTo, GateInv, TypeOK
  <2>3. /\ task[h].cmd \notin Toggles => disabled' = disabled
        /\ \A d : d # c => (d \in disabled' <=> d \in disabled)
        /\ task[h].cmd \in Toggles => ~(c \in disabled /\ c \in disabled')
    BY <1>2, <2>1, StoreDisabled
  <2>4. \A d : d \in Open' <=> d \in Open \/ (task[h].cmd \in Toggles /\ d = c)
    BY <2>1, <2>2 DEF Open
  <2>5. Agreed'
    BY <2>1, <2>3, <2>4 DEF CacheInv, Agreed
  <2>6. ASSUME NEW g \in Handlers, stage'[g] # "idle", "disabled" \in known'[g]
        PROVE  task'[g].cmd \in disabled' /\ task'[g].cmd \notin Open'
    <3>1. "disabled" \in known[g] /\ task[g].cmd \in disabled'
      BY <2>1, <2>6, LiftKeeps
    <3>2. stage[g] # "idle" /\ task'[g] = task[g]
      BY <2>1, <2>2, <2>6
    <3>3. task[g].cmd \in disabled /\ task[g].cmd \notin Open
      BY <3>1, <3>2 DEF CacheInv, Informed
    <3> QED BY <2>3, <2>4, <3>1, <3>2, <3>3
  <2> QED BY <2>5, <2>6 DEF CacheInv, Informed
<1> QED BY <1>1, <1>2

(* The way to the cache closes a toggle and forgets the entry. *)
LEMMA InvalidateCache ==
  ASSUME GateInv, CacheInv, NEW h \in Handlers, Invalidate(h)
  PROVE  CacheInv'
<1> DEFINE c == task[h].about
<1>1. /\ \A g \in Handlers \ {h} :
           stage'[g] = stage[g] /\ task'[g] = task[g] /\ known'[g] = known[g]
      /\ stage'[h] = "idle" /\ disabled' = disabled
  BY DEF Invalidate, Finish, GateInv, TypeOK, stored
<1>2. \A d : /\ d \in Open' => d \in Open
             /\ d # c => (d \in Open' <=> d \in Open)
  BY <1>1 DEF Open
<1>3. Agreed'
  <2> SUFFICES ASSUME NEW d \in Cmds
               PROVE  \/ cache'[d] = "unknown" \/ d \in Open' \/ d \in excused'
                      \/ (cache'[d] = "disabled" <=> d \in disabled')
    BY DEF Agreed
  <2>1. CASE d = c
    BY <2>1 DEF Invalidate, GateInv, TypeOK
  <2>2. CASE d # c
    <3>1. cache'[d] = cache[d] /\ (d \in excused => d \in excused')
      BY <2>2 DEF Invalidate, GateInv, TypeOK
    <3> QED BY <1>1, <1>2, <2>2, <3>1 DEF CacheInv, Agreed
  <2> QED BY <2>1, <2>2
<1>4. Informed'
  <2> SUFFICES ASSUME NEW g \in Handlers, stage'[g] # "idle", "disabled" \in known'[g]
               PROVE  task'[g].cmd \in disabled' /\ task'[g].cmd \notin Open'
    BY DEF Informed
  <2>1. stage[g] # "idle" /\ "disabled" \in known[g] /\ task'[g] = task[g]
    BY <1>1
  <2>2. task[g].cmd \in disabled /\ task[g].cmd \notin Open
    BY <2>1 DEF CacheInv, Informed
  <2> QED BY <1>1, <1>2, <2>1, <2>2
<1> QED BY <1>3, <1>4 DEF CacheInv

(* A toggle that failed half-way excuses its command. *)
LEMMA FailsCache ==
  ASSUME GateInv, CacheInv, NEW h \in Handlers, Fails(h)
  PROVE  CacheInv'
<1>1. CASE Finish(h) /\ UNCHANGED <<stored, excused>>
  <2>1. Finish(h) /\ UNCHANGED <<disabled, cache, excused>> /\ stage[h] # "written"
    BY <1>1 DEF Fails, stored
  <2> QED BY <2>1, FinishApart, ApartCache, ApartInformed DEF CacheInv
<1>2. CASE /\ stage[h] = "write" /\ ~Duplicate(task[h])
           /\ Store(h) /\ Drop(h) /\ Lift
           /\ excused' = IF task[h].cmd \in Toggles THEN excused \cup {task[h].about} ELSE excused
  <2> DEFINE c == task[h].about
  <2>1. /\ \A g \in Handlers \ {h} : stage'[g] = stage[g] /\ task'[g] = task[g]
        /\ stage'[h] = "idle" /\ cache' = cache
    BY <1>2 DEF Fails, Drop, GateInv, TypeOK
  <2>2. /\ task[h].cmd \notin Toggles => disabled' = disabled
        /\ \A d : d # c => (d \in disabled' <=> d \in disabled)
    BY <1>2, StoreDisabled
  <2>3. Open' = Open
    <3>1. \A g \in Handlers : stage'[g] = "written" <=> stage[g] = "written"
      BY <1>2, <2>1
    <3>2. \A g \in Handlers : stage[g] = "written" => task'[g] = task[g]
      BY <1>2, <2>1
    <3> QED BY <3>1, <3>2 DEF Open
  <2>4. Agreed'
    BY <1>2, <2>1, <2>2, <2>3 DEF CacheInv, Agreed
  <2>5. ASSUME NEW g \in Handlers, stage'[g] # "idle", "disabled" \in known'[g]
        PROVE  task'[g].cmd \in disabled' /\ task'[g].cmd \notin Open'
    <3>1. "disabled" \in known[g] /\ task[g].cmd \in disabled'
      BY <1>2, <2>5, LiftKeeps
    <3>2. stage[g] # "idle" /\ task'[g] = task[g]
      BY <2>1, <2>5
    <3>3. task[g].cmd \in disabled /\ task[g].cmd \notin Open
      BY <3>1, <3>2 DEF CacheInv, Informed
    <3> QED BY <2>3, <3>1, <3>2, <3>3
  <2> QED BY <2>4, <2>5 DEF CacheInv, Informed
<1> QED BY <1>1, <1>2 DEF Fails

(* After a restart the cache is the collection. *)
LEMMA CrashCache == Crash => CacheInv'
  BY DEF Crash, CacheInv, Agreed, Informed, stored

(* The cache starts empty. *)
LEMMA InitCache == Init => CacheInv
  BY DEF Init, CacheInv, Agreed, Informed

(* A step that changes nothing keeps the cache right. *)
LEMMA StutterCache == CacheInv /\ UNCHANGED vars => CacheInv'
  BY DEF CacheInv, Agreed, Informed, Open, vars, stored, local, bounds

(* Every step keeps the cache right. *)
LEMMA NextCache == GateInv /\ CacheInv /\ [Next]_vars => CacheInv'
<1> SUFFICES ASSUME GateInv, CacheInv, Next PROVE CacheInv'
  BY StutterCache
<1>1. CASE Crash
  BY <1>1, CrashCache
<1>2. ASSUME NEW h \in Handlers, NEW m \in Messages, Receive(h, m)
      PROVE  CacheInv'
  BY <1>2, ReceiveCache
<1>3. ASSUME NEW h \in Handlers,
             \/ ReadGroup(h) \/ ReadUser(h) \/ Lookup(h) \/ ReadDisabled(h) \/ Fill(h)
             \/ Run(h) \/ Write(h) \/ Invalidate(h) \/ Fails(h)
      PROVE  CacheInv'
  BY <1>3, ReadsCache, FillCache, WriteCache, InvalidateCache, FailsCache
<1> QED BY <1>1, <1>2, <1>3, ReceivedTyped DEF Next

(* Both invariants hold in every behaviour. *)
LEMMA CacheInvariant == Spec => [](GateInv /\ CacheInv)
<1>1. GateInv /\ CacheInv /\ [Next]_vars => (GateInv /\ CacheInv)'
  BY NextGate, NextCache
<1> QED BY <1>1, InitGate, InitCache, PTL DEF Spec

(* Once no toggle of a command is half done, its cache entry says what the
   collection says, for all but the commands that are excused.             *)
THEOREM CacheCorrect == Spec => []CacheAgrees
<1>1. GateInv /\ CacheInv => CacheAgrees
  BY AgreedCache DEF CacheInv
<1> QED BY <1>1, CacheInvariant, PTL

-----------------------------------------------------------------------------
(* Only the two steps with a verdict start a command. *)
LEMMA StartsGate ==
  ASSUME GateInv, Next, NEW h \in Handlers, stage[h] # "run", stage'[h] = "run"
  PROVE  Lookup(h) \/ Fill(h)
<1>1. CASE Crash
  BY <1>1 DEF Crash
<1>2. ASSUME NEW g \in Handlers, NEW m \in Messages, Receive(g, m)
      PROVE  FALSE
  BY <1>2 DEF Receive, GoTo, GateInv, TypeOK
<1>3. ASSUME NEW g \in Handlers, ReadGroup(g) \/ ReadUser(g) \/ ReadDisabled(g) \/ Run(g)
      PROVE  FALSE
  BY <1>3 DEF ReadGroup, ReadUser, ReadDisabled, Run, GoTo, Finish, GateInv, TypeOK
<1>4. ASSUME NEW g \in Handlers, Write(g) \/ Invalidate(g) \/ Fails(g)
      PROVE  FALSE
  BY <1>4 DEF Write, Invalidate, Fails, Drop, GoTo, Finish, GateInv, TypeOK
<1>5. ASSUME NEW g \in Handlers, Lookup(g) \/ Fill(g)
      PROVE  g = h
  BY <1>5 DEF Lookup, Fill, Decide, GoTo, Finish, GateInv, TypeOK
<1> QED BY <1>1, <1>2, <1>3, <1>4, <1>5, ReceivedTyped DEF Next

(* A step that starts a command known to be disabled finds it excused. *)
LEMMA DisabledStep ==
  ASSUME GateInv, CacheInv, Next, NEW h \in Handlers,
         stage[h] # "run", stage'[h] = "run", "disabled" \in known[h]
  PROVE  task[h].cmd \in excused'
<1> DEFINE c == task[h].cmd
<1>1. CASE Lookup(h)
  <2>1. cache[c] # "unknown" /\ Decide(h, cache[c]) /\ excused' = excused
    BY <1>1 DEF Lookup, GoTo, GateInv, TypeOK
  <2>2. cache[c] = "enabled"
    BY <2>1 DEF Decide, Finish, GateInv, TypeOK
  <2>3. c \in disabled /\ c \notin Open
    BY <1>1 DEF Lookup, CacheInv, Informed
  <2>4. c \in Cmds
    BY <1>1 DEF Lookup, GateInv, TypeOK, Messages
  <2> QED BY <2>1, <2>2, <2>3, <2>4 DEF CacheInv, Agreed
<1>2. CASE Fill(h)
  <2>1. Decide(h, IF got[h] THEN "disabled" ELSE "enabled")
    BY <1>2 DEF Fill
  <2>2. ~got[h]
    BY <2>1 DEF Decide, Finish, GateInv, TypeOK
  <2>3. c \in disabled
    BY <1>2 DEF Fill, CacheInv, Informed
  <2> QED BY <1>2, <2>2, <2>3 DEF Fill
<1> QED BY <1>1, <1>2, StartsGate

(* A message that arrives after /disable answered does not run the command,
   unless the command is excused.                                          *)
THEOREM DisabledCorrect == Spec => DisabledHolds
<1>1. GateInv /\ CacheInv /\ [Next]_vars =>
        [\A h \in Handlers :
           stage[h] # "run" /\ stage'[h] = "run" /\ "disabled" \in known[h] =>
             task[h].cmd \in excused']_vars
  BY DisabledStep
<1> QED BY <1>1, CacheInvariant, PTL DEF Spec, DisabledHolds
=============================================================================

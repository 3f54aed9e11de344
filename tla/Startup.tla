------------------------------- MODULE Startup ------------------------------
(***************************************************************************)
(* The process from its start to its end: the connection to the database,  *)
(* the stages of StartupManager, each raced against a timer of 60 s, the   *)
(* events of the client with the listeners bound to them, and the          *)
(* shutdown.  A body whose stage timed out runs on.  Reconnects are the    *)
(* subject of Connection; here the connection opens again and again.       *)
(***************************************************************************)
EXTENDS Integers, Sequences

CONSTANTS
  StageList,   \* the stages, in order
  MaxOpens     \* bound: times the connection opens

ASSUME StartupAssumption ==
  /\ StageList \in Seq(STRING) /\ MaxOpens \in Nat
  /\ {"commands", "features", "listeners", "socket"} \subseteq {StageList[i] : i \in DOMAIN StageList}
  /\ \A i, j \in DOMAIN StageList :
       StageList[i] \in {"commands", "listeners"} /\ StageList[j] = "socket" => i < j

StageNames == {StageList[i] : i \in DOMAIN StageList}

VARIABLES
  process,    \* down, connecting (to the database), up, idle (startup over), gone
  stages,     \* StartupManager's record of each stage
  bodies,     \* the function of each stage: none, running, done, failed
  features,   \* loadFeatures, which nothing waits for: none, running, done
  opens,      \* times "open" was emitted
  crons,      \* cron jobs scheduled
  initialized,
  unheard       \* ghost: the client emitted to no listener, or a message met no commands

startupVars == <<process, stages, bodies, features, opens, crons, initialized, unheard>>

Status == {"pending", "running", "success", "failed"}

StartupTypeOK ==
  /\ process \in {"down", "connecting", "up", "idle", "gone"}
  /\ stages \in [StageNames -> Status]
  /\ bodies \in [StageNames -> {"none", "running", "done", "failed"}]
  /\ \A s \in StageNames : stages[s] = "success" => bodies[s] = "done"
  /\ features \in {"none", "running", "done"} /\ opens \in 0..MaxOpens
  /\ crons \in Nat /\ initialized \in BOOLEAN

StartupInit ==
  /\ process = "down"
  /\ stages = [s \in StageNames |-> "pending"] /\ bodies = [s \in StageNames |-> "none"]
  /\ features = "none" /\ opens = 0 /\ crons = 0 /\ initialized = FALSE /\ unheard = FALSE

-----------------------------------------------------------------------------
Launch ==
  /\ process = "down" /\ process' = "connecting"
  /\ UNCHANGED <<stages, bodies, features, opens, crons, initialized, unheard>>

DatabaseConnects ==
  /\ process = "connecting" /\ process' = "up"
  /\ UNCHANGED <<stages, bodies, features, opens, crons, initialized, unheard>>

DatabaseRefused ==
  /\ process = "connecting" /\ process' = "gone"
  /\ UNCHANGED <<stages, bodies, features, opens, crons, initialized, unheard>>

\* Once a stage has failed, start() has rejected.
Allowed(i) == \A j \in 1 .. i-1 : stages[StageList[j]] = "success"

RunStage(i) ==
  LET s == StageList[i] IN
  /\ process = "up" /\ stages[s] = "pending" /\ Allowed(i)
  /\ stages' = [stages EXCEPT ![s] = "running"]
  /\ bodies' = [bodies EXCEPT ![s] = "running"]
  /\ UNCHANGED <<process, features, opens, crons, initialized, unheard>>

Settled(s, status) ==
  stages' = IF stages[s] = "running" THEN [stages EXCEPT ![s] = status] ELSE stages

BodyEnds(s) ==
  /\ process \in {"up", "idle"} /\ bodies[s] = "running"
  /\ bodies' = [bodies EXCEPT ![s] = "done"]
  /\ Settled(s, "success")
  /\ features' = IF s = "features" THEN "running" ELSE features
  /\ UNCHANGED <<process, opens, crons, initialized, unheard>>

BodyThrows(s) ==
  /\ process \in {"up", "idle"} /\ bodies[s] = "running"
  /\ bodies' = [bodies EXCEPT ![s] = "failed"]
  /\ Settled(s, "failed")
  /\ UNCHANGED <<process, features, opens, crons, initialized, unheard>>

\* Mutant: the socket stage has no timer.
StageTimesOut_NotTheSocket(s) ==
  /\ process = "up" /\ stages[s] = "running" /\ s # "socket"
  /\ Settled(s, "failed")
  /\ UNCHANGED <<process, bodies, features, opens, crons, initialized, unheard>>

StageTimesOut(s) ==
  /\ process = "up" /\ stages[s] = "running"
  /\ Settled(s, "failed")
  /\ UNCHANGED <<process, bodies, features, opens, crons, initialized, unheard>>

\* start() returns when every stage succeeded, and rejects when one failed: a line is
\* logged and the process stays.
StartEnds ==
  /\ process = "up"
  /\ \/ \A s \in StageNames : stages[s] = "success"
     \/ \E s \in StageNames : stages[s] = "failed"
  /\ process' = "idle"
  /\ UNCHANGED <<stages, bodies, features, opens, crons, initialized, unheard>>

FeaturesLoad ==
  /\ process \in {"up", "idle"} /\ features = "running" /\ features' = "done"
  /\ UNCHANGED <<process, stages, bodies, opens, crons, initialized, unheard>>

-----------------------------------------------------------------------------
(* The events of the client, of which the socket is the source.            *)

Connected == process \in {"up", "idle"} /\ bodies["socket"] = "done"

Jobs == IF initialized THEN crons ELSE crons + 1

\* The listener of "open" schedules the cron job, if one is configured.
Open ==
  /\ Connected /\ opens < MaxOpens /\ opens' = opens + 1
  /\ IF bodies["listeners"] = "done"
     THEN crons' = Jobs /\ initialized' = TRUE /\ unheard' = unheard
     ELSE unheard' = TRUE /\ UNCHANGED <<crons, initialized>>
  /\ UNCHANGED <<process, stages, bodies, features>>

NewMessage ==
  /\ Connected /\ opens > 0
  /\ unheard' = (unheard \/ bodies["listeners"] # "done" \/ bodies["commands"] # "done")
  /\ UNCHANGED <<process, stages, bodies, features, opens, crons, initialized>>

\* A signal or an uncaught exception; gracefulShutdown awaits nothing.
Shutdown ==
  /\ process \in {"connecting", "up", "idle"} /\ process' = "gone" /\ crons' = 0
  /\ UNCHANGED <<stages, bodies, features, opens, initialized, unheard>>

StartupNext ==
  \/ Launch \/ DatabaseConnects \/ DatabaseRefused
  \/ \E i \in DOMAIN StageList : RunStage(i)
  \/ \E s \in StageNames : BodyEnds(s) \/ BodyThrows(s) \/ StageTimesOut(s)
  \/ StartEnds \/ FeaturesLoad \/ Open \/ NewMessage \/ Shutdown

\* The timer of each stage fires, and start() goes on after each stage; that a body ends is
\* not assumed.
StartupFairness ==
  /\ \A i \in DOMAIN StageList : WF_startupVars(RunStage(i))
  /\ \A s \in StageNames : WF_startupVars(StageTimesOut(s))
  /\ WF_startupVars(StartEnds)

StartupSpec == StartupInit /\ [][StartupNext]_startupVars /\ StartupFairness

-----------------------------------------------------------------------------
(* Properties.                                                             *)

\* Nothing that the socket brings comes before the listeners and the commands are there, also
\* if stages time out and their bodies end later, and one cron job at most is scheduled
\* however often the connection opens.
StartsInOrder == ~unheard /\ crons <= 1

\* A startup comes to an end, whatever its bodies wait for.
StartupSettles == (process = "up") ~> (process \in {"idle", "gone"})
=============================================================================

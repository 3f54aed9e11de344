------------------------------ MODULE Features ------------------------------
(***************************************************************************)
(* The switch of the chatbot: a document of the collection `feature`, and  *)
(* the copy in memory by which messages are judged.  /enable and /disable  *)
(* read the document and write first it, then the copy; the startup copies *)
(* the document, and no stage waits for that.                              *)
(***************************************************************************)
EXTENDS Naturals

CONSTANTS FlagHandlers, MaxToggles, MaxFlagFaults   \* the last two are bounds

ASSUME FeaturesAssumption == {MaxToggles, MaxFlagFaults} \subseteq Nat

VARIABLES
  flag,      \* the document: "none" or its state
  flagCopy,  \* the copy: "none" or the state
  toggling,  \* toggling[h]: where a command is, and what it sets
  loading,   \* the load at startup: not yet answered, answered, over
  toggles, flagFaults,
  torn       \* ghost: the copy was left behind, in one of the ways named below

flagVars == <<flag, flagCopy, toggling, loading, toggles, flagFaults, torn>>

States == {"none", "on", "off"}
Idle0  == [at |-> "free", to |-> "none"]
NoLoad == [at |-> "over", state |-> "none"]
Load   == [at |-> "asked", state |-> "none"]

FeaturesTypeOK ==
  /\ {flag, flagCopy} \subseteq States
  /\ toggling \in [FlagHandlers -> [at : {"free", "write", "copy"}, to : States]]
  /\ loading \in [at : {"asked", "answered", "over"}, state : States]
  /\ toggles \in 0 .. MaxToggles /\ flagFaults \in 0 .. MaxFlagFaults /\ torn \in BOOLEAN

FeaturesInit ==
  /\ flag \in States /\ flagCopy = "none" /\ loading = Load
  /\ toggling = [h \in FlagHandlers |-> Idle0]
  /\ toggles = 0 /\ flagFaults = 0 /\ torn = FALSE

\* getFeatures: a document that is not there is made, and its default is "on".
GetFeatures == IF flag = "none" THEN "on" ELSE flag

Toggle(h, to) ==
  /\ toggling[h].at = "free" /\ toggles < MaxToggles /\ toggles' = toggles + 1
  /\ flag' = GetFeatures
  /\ torn' = (torn \/ flag = "none")
  /\ toggling' = [toggling EXCEPT ![h] = IF GetFeatures = to THEN Idle0 ELSE [at |-> "write", to |-> to]]
  /\ UNCHANGED <<flagCopy, loading, flagFaults>>

EnableChatbot(h)  == Toggle(h, "on")
DisableChatbot(h) == Toggle(h, "off")

\* toggleFeature: the document, then the copy.
ToggleStored(h) ==
  /\ toggling[h].at = "write" /\ flag' = toggling[h].to
  /\ toggling' = [toggling EXCEPT ![h].at = "copy"]
  /\ torn' = (loading.at = "answered" \/ \E g \in FlagHandlers \ {h} : toggling[g].at = "copy")
  /\ UNCHANGED <<flagCopy, loading, toggles, flagFaults>>

ToggleCopied(h) ==
  /\ toggling[h].at = "copy" /\ flagCopy' = toggling[h].to
  /\ toggling' = [toggling EXCEPT ![h] = Idle0]
  /\ UNCHANGED <<flag, loading, toggles, flagFaults, torn>>

LoadFeatures ==
  /\ loading.at = "asked" /\ loading' = [at |-> "answered", state |-> flag]
  /\ UNCHANGED <<flag, flagCopy, toggling, toggles, flagFaults, torn>>

SetFeatures ==
  /\ loading.at = "answered" /\ loading' = NoLoad
  /\ flagCopy' = IF loading.state = "none" THEN flagCopy ELSE loading.state
  /\ UNCHANGED <<flag, toggling, toggles, flagFaults, torn>>

FlagFault == flagFaults < MaxFlagFaults /\ flagFaults' = flagFaults + 1

\* The write fails, or only its answer is lost; or the load fails.
FlagFails ==
  /\ FlagFault
  /\ \/ \E h \in FlagHandlers :
          /\ toggling[h].at \in {"write", "copy"} /\ toggling' = [toggling EXCEPT ![h] = Idle0]
          /\ torn' = (torn \/ toggling[h].at = "copy") /\ UNCHANGED loading
     \/ loading.at = "asked" /\ loading' = NoLoad /\ torn' = TRUE /\ UNCHANGED toggling
  /\ UNCHANGED <<flag, flagCopy, toggles>>

FlagRestart ==
  /\ FlagFault
  /\ flagCopy' = "none" /\ toggling' = [h \in FlagHandlers |-> Idle0] /\ loading' = Load /\ torn' = FALSE
  /\ UNCHANGED <<flag, toggles>>

FeaturesNext ==
  \/ \E h \in FlagHandlers :
       EnableChatbot(h) \/ DisableChatbot(h) \/ ToggleStored(h) \/ ToggleCopied(h)
  \/ LoadFeatures \/ SetFeatures \/ FlagFails \/ FlagRestart

FeaturesSpec == FeaturesInit /\ [][FeaturesNext]_flagVars

(* When no command and no load is under way, messages are judged by what is
   stored; unless the document was made by a read, two writes or a write and
   the load overlapped, or one of the two was lost.                        *)
FlagHolds ==
  (~torn /\ loading.at = "over" /\ \A h \in FlagHandlers : toggling[h].at = "free") =>
    (flagCopy = "on" <=> flag = "on")
=============================================================================

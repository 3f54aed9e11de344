------------------------------- MODULE MCRuntime ----------------------------
(***************************************************************************)
(* The runtime under the commands: the startup of the process, the         *)
(* messages that come in, the moderators, the groups it administers, the   *)
(* media it sends, the registry of its commands and the chats it observed. *)
(* They share no state, so one behaviour is about one of them; what people *)
(* change in the group comes without /timer, and /timer without it.        *)
(***************************************************************************)
EXTENDS Startup, Inbound, Group, Media, Registry, Chats

VARIABLE part

AllStages == <<"environment", "database", "runtime", "commands", "assets", "features", "listeners",
               "socket">>
TwoMods   == <<"m1", "m2">>
SomeFiles  == {"Crime", "Heist", "Rob", "Robbery", "_helpers"}
SomeNames  == [f \in SomeFiles |-> CASE f = "Crime" -> "crime" [] f = "Heist" -> "heist" [] OTHER -> "rob"]
SomeAliases == [f \in SomeFiles |-> CASE f = "Crime" -> {"heist", "steal"}
                                     [] f = "Heist" -> {"bankheist"}
                                     [] OTHER -> {"rob", "steal"}]
SomeRanges == {<<2, 3>>, <<1, 1>>, <<4, 5>>, <<2, 6>>}

RuntimeInit ==
  /\ part \in {"startup", "inbound", "mods", "group", "timers", "media", "registry", "chats"}
  /\ StartupInit /\ InboundInit /\ GroupInit /\ MediaInit /\ RegistryInit /\ ChatsInit
  /\ (part = "timers") = (changes = MaxChanges)
  /\ toCome["p"] = 1 /\ (part # "inbound" => toCome["q"] = 1 /\ toCome["a"] = 1)

RuntimeNext ==
  \/ part = "startup" /\ StartupNext
     /\ UNCHANGED <<part, inboundVars, groupVars, mediaVars, registryVars, chatsVars>>
  \/ part = "inbound" /\ MessagesNext
     /\ UNCHANGED <<part, startupVars, groupVars, mediaVars, registryVars, chatsVars>>
  \/ part = "mods" /\ ModsNext
     /\ UNCHANGED <<part, startupVars, groupVars, mediaVars, registryVars, chatsVars>>
  \/ GroupNext /\ (part = "timers" \/ (part = "group" /\ armed' = {}))
     /\ UNCHANGED <<part, startupVars, inboundVars, mediaVars, registryVars, chatsVars>>
  \/ part = "media" /\ MediaNext
     /\ UNCHANGED <<part, startupVars, inboundVars, groupVars, registryVars, chatsVars>>
  \/ part = "registry" /\ RegistryNext
     /\ UNCHANGED <<part, startupVars, inboundVars, groupVars, mediaVars, chatsVars>>
  \/ part = "chats" /\ ChatsNext
     /\ UNCHANGED <<part, startupVars, inboundVars, groupVars, mediaVars, registryVars>>

(* The fair actions of a part are not enabled while another one runs. *)
RuntimeSpec ==
  /\ RuntimeInit
  /\ [][RuntimeNext]_<<part, startupVars, inboundVars, groupVars, mediaVars, registryVars, chatsVars>>
  /\ StartupFairness /\ InboundFairness /\ GroupFairness /\ MediaFairness

(***************************************************************************)
(* Properties of the parts together.                                       *)
(***************************************************************************)

(* Every variable of the runtime has its type.                             *)
RuntimeTypeOK ==
  StartupTypeOK /\ InboundTypeOK /\ GroupTypeOK /\ MediaTypeOK
  /\ RegistryTypeOK /\ ChatsTypeOK

(* The startup: what the socket brings finds listeners and commands, and every
   command is found under its name, whatever the order of its file.        *)
StartupHolds == StartsInOrder /\ RegistryHolds

(* The groups: what the bot does to one is right by the group, and /timer
   locks it in the minutes that were told, if setTimeout can wait for so many. *)
GroupHolds == MetadataHolds /\ LockedByLastTimer

(* What the timers of node are to end does end: a stage of the startup, a
   group's timer with its reminders, and a download from the APIs.         *)
TimersEndThings == StartupSettles /\ TimersEnd /\ DownloadsEnd
=============================================================================

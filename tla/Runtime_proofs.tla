---------------------------- MODULE Runtime_proofs --------------------------
(***************************************************************************)
(* The runtime under the commands, for any stages, commands, chats, people *)
(* and requests.  The parts of MCRuntime share no variable, so each has an *)
(* inductive invariant of its own.                                         *)
(***************************************************************************)
EXTENDS MCRuntime, FiniteSetTheorems, SequenceTheorems, TLAPS

-----------------------------------------------------------------------------
(* The startup                                                             *)

\* The socket is made after the commands were loaded and the listeners bound, and one job
\* at most is scheduled.
StartupInv ==
  /\ StartupTypeOK
  /\ bodies["socket"] # "none" => stages["commands"] = "success" /\ stages["listeners"] = "success"
  /\ ~unheard /\ crons <= 1 /\ (~initialized => crons = 0)

LEMMA FourStages ==
  /\ {"commands", "features", "listeners", "socket"} \subseteq StageNames
  /\ \A i \in DOMAIN StageList : StageList[i] \in StageNames /\ i \in 1 .. Len(StageList)
  /\ \A i, j \in DOMAIN StageList :
       StageList[i] \in {"commands", "listeners"} /\ StageList[j] = "socket" => i < j
  /\ MaxOpens \in Nat
BY StartupAssumption DEF StartupAssumption, StageNames

LEMMA StartupStarts ==
  ASSUME StartupInit
  PROVE  StartupInv
<1>1. MaxOpens \in Nat /\ "socket" \in StageNames
  BY FourStages
<1>2. StartupTypeOK
  <2>1. 0 \in 0 .. MaxOpens
    BY <1>1
  <2>2. stages \in [StageNames -> Status] /\ bodies \in [StageNames -> {"none", "running", "done", "failed"}]
        /\ \A s \in StageNames : stages[s] # "success"
    BY DEF StartupInit, Status
  <2> QED
    BY <2>1, <2>2 DEF StartupInit, StartupTypeOK
<1> QED
  BY <1>1, <1>2 DEF StartupInit, StartupInv

LEMMA StartupTyped ==
  ASSUME StartupTypeOK, StartupNext
  PROVE  StartupTypeOK'
<1> USE DEF StartupTypeOK, Status
<1>1. CASE Launch \/ DatabaseConnects \/ DatabaseRefused \/ StartEnds \/ FeaturesLoad \/ NewMessage \/ Shutdown
  BY <1>1 DEF Launch, DatabaseConnects, DatabaseRefused, StartEnds, FeaturesLoad, NewMessage, Shutdown
<1>2. CASE Open
  <2>1. opens' \in 0 .. MaxOpens
    BY <1>2, FourStages DEF Open
  <2>2. crons' \in Nat
    BY <1>2 DEF Open, Jobs
  <2>3. initialized' \in BOOLEAN
    <3>1. (initialized' = TRUE) \/ UNCHANGED initialized
      BY <1>2, Zenon DEF Open
    <3> QED
      BY <3>1
  <2> QED
    BY <1>2, <2>1, <2>2, <2>3 DEF Open
<1>3. ASSUME NEW i \in DOMAIN StageList, RunStage(i) PROVE StartupTypeOK'
  BY <1>3, FourStages DEF RunStage
<1>4. ASSUME NEW s \in StageNames, BodyEnds(s) \/ BodyThrows(s) \/ StageTimesOut(s) PROVE StartupTypeOK'
  BY <1>4 DEF BodyEnds, BodyThrows, StageTimesOut, Settled
<1> QED
  BY <1>1, <1>2, <1>3, <1>4 DEF StartupNext

LEMMA StartupKept ==
  ASSUME StartupInv, [StartupNext]_startupVars
  PROVE  StartupInv'
<1>0. CASE UNCHANGED startupVars
  BY <1>0 DEF startupVars, StartupInv, StartupTypeOK
<1> SUFFICES ASSUME StartupNext PROVE StartupInv'
  BY <1>0
<1>t. StartupTypeOK /\ StartupTypeOK'
  BY StartupTyped DEF StartupInv
<1>1. CASE Launch \/ DatabaseConnects \/ DatabaseRefused \/ StartEnds \/ FeaturesLoad \/ Shutdown
  BY <1>1, <1>t DEF StartupInv, Launch, DatabaseConnects, DatabaseRefused, StartEnds, FeaturesLoad, Shutdown
<1>2. CASE Open \/ NewMessage
  <2>1. Connected
    BY <1>2 DEF Open, NewMessage
  <2>2. bodies["listeners"] = "done" /\ bodies["commands"] = "done"
    BY <2>1, <1>t, FourStages DEF StartupInv, Connected, StartupTypeOK
  <2>3. CASE Open
    <3>1. UNCHANGED <<stages, bodies>> /\ crons' = Jobs /\ initialized' = TRUE /\ unheard' = unheard
      BY <2>2, <2>3 DEF Open
    <3> QED
      BY <3>1, <1>t DEF StartupInv, Jobs
  <2>4. CASE NewMessage
    <3>1. UNCHANGED <<stages, bodies, crons, initialized>> /\ ~unheard'
      BY <2>2, <2>4 DEF NewMessage, StartupInv
    <3> QED
      BY <3>1, <1>t DEF StartupInv
  <2> QED
    BY <1>2, <2>3, <2>4
<1>3. ASSUME NEW i \in DOMAIN StageList, RunStage(i) PROVE StartupInv'
  <2> DEFINE s == StageList[i]
  <2>1. /\ stages[s] = "pending" /\ Allowed(i) /\ UNCHANGED <<crons, initialized, unheard>>
        /\ stages' = [stages EXCEPT ![s] = "running"] /\ bodies' = [bodies EXCEPT ![s] = "running"]
    BY <1>3 DEF RunStage
  <2>2. s = "socket" => stages["commands"] = "success" /\ stages["listeners"] = "success"
    <3> SUFFICES ASSUME s = "socket", NEW n \in {"commands", "listeners"} PROVE stages[n] = "success"
      OBVIOUS
    <3>1. PICK j \in DOMAIN StageList : StageList[j] = n
      BY FourStages DEF StageNames
    <3>2. j < i /\ j \in 1 .. Len(StageList) /\ i \in 1 .. Len(StageList)
      BY <3>1, FourStages
    <3>3. j \in 1 .. i - 1
      BY <3>2
    <3> QED
      BY <2>1, <3>1, <3>3 DEF Allowed
  <2>3. stages \in [StageNames -> Status] /\ bodies \in [StageNames -> {"none", "running", "done", "failed"}]
    BY <1>t DEF StartupTypeOK
  <2> HIDE DEF s
  <2>4. bodies'["socket"] # "none" => stages'["commands"] = "success" /\ stages'["listeners"] = "success"
    BY <2>1, <2>2, <2>3, FourStages DEF StartupInv
  <2> QED
    BY <2>1, <2>4, <1>t DEF StartupInv
<1>4. ASSUME NEW s \in StageNames, BodyEnds(s) \/ BodyThrows(s) \/ StageTimesOut(s) PROVE StartupInv'
  <2>1. /\ UNCHANGED <<crons, initialized, unheard>>
        /\ \A n \in StageNames : /\ stages[n] = "success" => stages'[n] = "success"
                                 /\ bodies[n] = "none" => bodies'[n] = "none"
    BY <1>4, <1>t DEF BodyEnds, BodyThrows, StageTimesOut, Settled, StartupTypeOK
  <2> QED
    BY <2>1, <1>t, FourStages DEF StartupInv
<1> QED
  BY <1>1, <1>2, <1>3, <1>4 DEF StartupNext

-----------------------------------------------------------------------------
(* The registry                                                            *)

\* A name runs a command of that name, and an alias a registered command that lists it,
\* which is there whenever one is.
RegistryInv ==
  LET read == CommandFiles \ (unread \cup Skipped) IN
  /\ RegistryTypeOK
  /\ \A k \in Keys :
       /\ commands[k] # NoFile => commands[k] \in read /\ NameOf[commands[k]] = k
       /\ aliases[k] # NoFile =>
            aliases[k] \in read /\ k \in AliasesOf[aliases[k]] /\ commands[NameOf[aliases[k]]] = aliases[k]
  /\ \A f \in read :
       /\ commands[NameOf[f]] # NoFile
       /\ commands[NameOf[f]] = f => \A k \in AliasesOf[f] : Lookup(k) # NoFile

LEMMA KeysOf ==
  /\ NoFile \notin CommandFiles /\ Skipped \subseteq CommandFiles
  /\ \A f \in CommandFiles : NameOf[f] \in Keys /\ AliasesOf[f] \subseteq Keys
BY RegistryAssumption DEF RegistryAssumption, Keys, NoFile

LEMMA RegistryStarts ==
  ASSUME RegistryInit
  PROVE  RegistryInv
BY KeysOf DEF RegistryInit, RegistryInv, RegistryTypeOK

LEMMA RegistryKept ==
  ASSUME RegistryInv, [RegistryNext]_registryVars
  PROVE  RegistryInv'
<1>0. CASE UNCHANGED registryVars
  BY <1>0 DEF registryVars, RegistryInv, RegistryTypeOK, Lookup
<1>1. ASSUME NEW f \in CommandFiles, Import(f) PROVE RegistryInv'
  <2>1. /\ f \in unread \ Skipped /\ unread' = unread \ {f} /\ loading' = loading /\ commands' = Registered(f)
        /\ aliases' = (IF commands' = commands THEN aliases
                       ELSE [k \in Keys |-> IF k \in FreeAliases(f) THEN f ELSE aliases[k]])
    BY <1>1 DEF Import
  <2> DEFINE n == NameOf[f]
  <2>2. n \in Keys /\ AliasesOf[f] \subseteq Keys /\ f # NoFile
    BY KeysOf
  <2>3. commands \in [Keys -> CommandFiles \cup {NoFile}] /\ aliases \in [Keys -> CommandFiles \cup {NoFile}]
    BY DEF RegistryInv, RegistryTypeOK
  <2>4. CASE commands[n] # NoFile
    <3>1. commands' = commands /\ aliases' = aliases
      BY <2>1, <2>4 DEF Registered
    <3>2. commands[n] # f
      BY <2>1, <2>2, <2>4 DEF RegistryInv
    <3> QED
      BY <2>1, <2>4, <3>1, <3>2 DEF RegistryInv, RegistryTypeOK, Lookup
  <2>5. CASE commands[n] = NoFile
    <3>1. commands' = [commands EXCEPT ![n] = f]
      BY <2>1, <2>5 DEF Registered
    <3>2. commands' # commands
      BY <2>2, <2>3, <2>5, <3>1
    <3>3. /\ commands'[n] = f /\ \A k \in Keys : k # n => commands'[k] = commands[k]
          /\ aliases' = [k \in Keys |-> IF k \in AliasesOf[f] /\ commands'[k] = NoFile /\ aliases[k] = NoFile
                                        THEN f ELSE aliases[k]]
      BY <2>1, <2>2, <2>3, <3>1, <3>2 DEF FreeAliases
    <3> HIDE DEF n
    <3>4. RegistryTypeOK'
      BY <2>1, <2>2, <2>3, <3>1, <3>3 DEF RegistryTypeOK, RegistryInv
    <3>5. \A k \in Keys : commands'[k] # NoFile =>
            commands'[k] \in CommandFiles \ (unread' \cup Skipped) /\ NameOf[commands'[k]] = k
      BY <2>1, <3>3 DEF RegistryInv, n
    <3>6. \A k \in Keys : aliases'[k] # NoFile =>
            /\ aliases'[k] \in CommandFiles \ (unread' \cup Skipped) /\ k \in AliasesOf[aliases'[k]]
            /\ commands'[NameOf[aliases'[k]]] = aliases'[k]
      <4> SUFFICES ASSUME NEW k \in Keys, aliases'[k] # NoFile
                   PROVE  /\ aliases'[k] \in CommandFiles \ (unread' \cup Skipped) /\ k \in AliasesOf[aliases'[k]]
                          /\ commands'[NameOf[aliases'[k]]] = aliases'[k]
        OBVIOUS
      <4>1. CASE aliases'[k] = f /\ k \in AliasesOf[f]
        BY <4>1, <2>1, <3>3 DEF n
      <4>2. CASE aliases'[k] = aliases[k]
        <5>1. aliases[k] \in CommandFiles \ (unread \cup Skipped) /\ k \in AliasesOf[aliases[k]]
              /\ commands[NameOf[aliases[k]]] = aliases[k]
          BY <4>2 DEF RegistryInv
        <5>2. NameOf[aliases[k]] # n /\ NameOf[aliases[k]] \in Keys
          BY <5>1, <2>5, KeysOf
        <5> QED
          BY <4>2, <5>1, <5>2, <2>1, <3>3
      <4> QED
        BY <4>1, <4>2, <3>3
    <3>7. \A g \in CommandFiles \ (unread' \cup Skipped) : commands'[NameOf[g]] # NoFile
      BY <2>1, <2>2, <3>3, KeysOf DEF RegistryInv, n
    <3>8. \A g \in CommandFiles \ (unread' \cup Skipped) :
            commands'[NameOf[g]] = g => \A k \in AliasesOf[g] : Lookup(k)' # NoFile
      <4> SUFFICES ASSUME NEW g \in CommandFiles \ (unread' \cup Skipped), commands'[NameOf[g]] = g,
                          NEW k \in AliasesOf[g]
                   PROVE  commands'[k] # NoFile \/ aliases'[k] # NoFile
        BY DEF Lookup
      <4>1. k \in Keys
        BY KeysOf
      <4>2. CASE g = f
        BY <4>1, <4>2, <2>2, <3>3
      <4>3. CASE g # f
        <5>1. g \in CommandFiles \ (unread \cup Skipped) /\ NameOf[g] \in Keys
          BY <4>3, <2>1, KeysOf
        <5>2. NameOf[g] # n
          BY <4>3, <3>3
        <5>3. commands[NameOf[g]] = g
          BY <5>1, <5>2, <3>3
        <5>4. commands[k] # NoFile \/ aliases[k] # NoFile
          BY <5>1, <5>3 DEF RegistryInv, Lookup
        <5> QED
          BY <5>4, <4>1, <2>2, <3>3
      <4> QED
        BY <4>2, <4>3
    <3> QED
      BY <3>4, <3>5, <3>6, <3>7, <3>8 DEF RegistryInv
  <2> QED
    BY <2>4, <2>5
<1>2. ASSUME NEW f \in CommandFiles, SkipFile(f) \/ ImportThrows(f) PROVE RegistryInv'
  <2>1. UNCHANGED <<commands, aliases>> /\ unread' \cup Skipped = unread \cup Skipped
        /\ unread' \subseteq CommandFiles /\ loading' \in {"yes", "done", "failed"}
    BY <1>2 DEF SkipFile, ImportThrows, RegistryInv, RegistryTypeOK
  <2> QED
    BY <2>1 DEF RegistryInv, RegistryTypeOK, Lookup
<1>3. CASE AllLoaded
  BY <1>3 DEF AllLoaded, RegistryInv, RegistryTypeOK, Lookup
<1> QED
  BY <1>0, <1>1, <1>2, <1>3 DEF RegistryNext

LEMMA RegistryImplies ==
  ASSUME RegistryInv
  PROVE  RegistryHolds
<1> DEFINE Read == CommandFiles \ (unread \cup Skipped)
           Named(k)  == {f \in Read : NameOf[f] = k}
           Listed(k) == {f \in Read : k \in AliasesOf[f] /\ commands[NameOf[f]] = f}
<1> SUFFICES ASSUME NEW k \in Keys
             PROVE  Lookup(k) \in IF Named(k) # {} THEN Named(k)
                                 ELSE IF Listed(k) # {} THEN Listed(k) ELSE {NoFile}
  BY DEF RegistryHolds
<1>1. commands[k] # NoFile => commands[k] \in Named(k)
  BY DEF RegistryInv
<1>2. aliases[k] # NoFile => aliases[k] \in Listed(k)
  BY DEF RegistryInv
<1>3. Named(k) # {} => commands[k] # NoFile
  BY DEF RegistryInv
<1>4. Listed(k) # {} => Lookup(k) # NoFile
  BY DEF RegistryInv
<1>5. Named(k) # {} => Lookup(k) \in Named(k)
  BY <1>1, <1>3 DEF Lookup
<1>6. Named(k) = {} /\ Listed(k) # {} => Lookup(k) \in Listed(k)
  BY <1>1, <1>2, <1>4 DEF Lookup
<1>7. Named(k) = {} /\ Listed(k) = {} => Lookup(k) = NoFile
  BY <1>1, <1>2 DEF Lookup
<1> HIDE DEF Named, Listed
<1>8. CASE Named(k) # {}
  BY <1>5, <1>8
<1>9. CASE Named(k) = {} /\ Listed(k) # {}
  BY <1>6, <1>9
<1>10. CASE Named(k) = {} /\ Listed(k) = {}
  BY <1>7, <1>10
<1> QED
  BY <1>8, <1>9, <1>10

-----------------------------------------------------------------------------
(* The observed chats                                                      *)

\* A sweep has reached the chats before the one it is at, and none is skipped, as the Set
\* only grows at its end; a broadcast has sent, failed or left each of its groups.
ChatsInv ==
  /\ ChatsTypeOK
  /\ \A j \in Sweeps :
       /\ sweep[j].reached = {observed[i] : i \in 1 .. sweep[j].next - 1}
       /\ sweep[j].at = "idle" => sweep[j] = NoSweep
  /\ cast.sent + cast.failed + cast.left = cast.groups
  /\ cast.heard \in cast.sent .. cast.sent + cast.failed
  /\ ChatsHold

LEMMA GroupCount ==
  /\ Cardinality(GroupChats) \in Nat
  /\ \A S : Cardinality(S \cap GroupChats) \in 0 .. Cardinality(GroupChats)
<1>1. IsFiniteSet(GroupChats)
  BY ChatsAssumption DEF ChatsAssumption
<1> SUFFICES ASSUME NEW S PROVE Cardinality(S \cap GroupChats) \in 0 .. Cardinality(GroupChats)
  BY <1>1, FS_CardinalityType
<1>2. S \cap GroupChats \subseteq GroupChats
  OBVIOUS
<1>3. IsFiniteSet(S \cap GroupChats) /\ Cardinality(S \cap GroupChats) <= Cardinality(GroupChats)
  BY <1>1, <1>2, FS_Subset
<1> QED
  BY <1>1, <1>3, FS_CardinalityType

LEMMA SweepFields ==
  ASSUME NEW A, NEW N, NEW R, NEW s \in [at : A, next : N, reached : R], NEW n \in N, NEW r \in R
  PROVE  LET t == [s EXCEPT !.next = n, !.reached = r]
         IN  t \in [at : A, next : N, reached : R] /\ t.at = s.at /\ t.next = n /\ t.reached = r
OBVIOUS

LEMMA CastFields ==
  ASSUME NEW A, NEW G, NEW c \in [at : A, groups : G, left : Nat, sent : Nat, failed : Nat, heard : Nat],
         NEW l \in Nat, NEW s \in Nat, NEW f \in Nat, NEW h \in Nat
  PROVE  LET b == [[c EXCEPT !.left = l, !.sent = s, !.failed = f] EXCEPT !.heard = h]
         IN  /\ b \in [at : A, groups : G, left : Nat, sent : Nat, failed : Nat, heard : Nat]
             /\ b.groups = c.groups /\ b.left = l /\ b.sent = s /\ b.failed = f /\ b.heard = h
OBVIOUS

LEMMA ChatsStart ==
  ASSUME ChatsInit
  PROVE  ChatsInv
<1>1. observed = <<>> /\ sweep = [j \in Sweeps |-> NoSweep] /\ cast = NoCast /\ ChatsHold
  BY DEF ChatsInit, ChatsHold
<1>2. ChatsTypeOK
  BY <1>1, GroupCount DEF ChatsTypeOK, NoSweep, NoCast, IsInjective
<1> QED
  BY <1>1, <1>2 DEF ChatsInv, NoSweep, NoCast

LEMMA ChatsKept ==
  ASSUME ChatsInv, [ChatsNext]_chatsVars
  PROVE  ChatsInv'
<1>0. CASE UNCHANGED chatsVars
  BY <1>0 DEF chatsVars, ChatsInv, ChatsTypeOK, ChatsHold
<1> SUFFICES ASSUME ChatsNext PROVE ChatsInv'
  BY <1>0
<1>t. /\ observed \in Seq(ChatIds) /\ IsInjective(observed) /\ Len(observed) \in Nat
      /\ sweep \in [Sweeps -> [at : {"idle", "clearing"}, next : 1 .. Len(observed) + 1,
                                reached : SUBSET ChatIds]]
      /\ ~passedBy /\ ~misreported
  BY DEF ChatsInv, ChatsTypeOK, ChatsHold
<1>1. ASSUME NEW c \in ChatIds, Observe(c) PROVE ChatsInv'
  <2>1. c \notin Range(observed) /\ observed' = Append(observed, c)
        /\ UNCHANGED <<sweep, cast, passedBy, misreported>>
    BY <1>1 DEF Observe
  <2>2. observed' \in Seq(ChatIds) /\ Len(observed') = Len(observed) + 1
        /\ \A i \in 1 .. Len(observed) : observed'[i] = observed[i]
    BY <1>t, <2>1
  <2>3. IsInjective(observed')
    <3>1. DOMAIN observed = 1 .. Len(observed) /\ DOMAIN observed' = 1 .. Len(observed) + 1
          /\ observed'[Len(observed) + 1] = c
      BY <1>t, <2>1, <2>2
    <3>2. \A i \in 1 .. Len(observed) : observed[i] # c
      BY <2>1, <3>1 DEF Range
    <3> QED
      BY <1>t, <2>2, <3>1, <3>2 DEF IsInjective
  <2>4. ChatsTypeOK'
    BY <1>t, <2>1, <2>2, <2>3 DEF ChatsInv, ChatsTypeOK
  <2>5. \A j \in Sweeps : {observed'[i] : i \in 1 .. sweep[j].next - 1} = {observed[i] : i \in 1 .. sweep[j].next - 1}
    <3> SUFFICES ASSUME NEW j \in Sweeps
                 PROVE  \A i \in 1 .. sweep[j].next - 1 : observed'[i] = observed[i]
      BY Zenon
    <3> QED
      BY <1>t, <2>2
  <2> QED
    BY <2>1, <2>4, <2>5 DEF ChatsInv, ChatsHold
<1>2. ASSUME NEW j \in Sweeps, StartSweep(j) \/ EndSweep(j) \/ SweepFails(j) PROVE ChatsInv'
  <2>1. UNCHANGED <<observed, cast, misreported>>
    BY <1>2 DEF StartSweep, EndSweep, SweepFails
  <2>2. sweep' = [sweep EXCEPT ![j].at = "clearing"] \/ sweep' = [sweep EXCEPT ![j] = NoSweep]
    BY <1>2 DEF StartSweep, EndSweep, SweepFails
  <2>3. ~passedBy'
    <3>1. CASE EndSweep(j)
      <4>1. sweep[j].next = Len(observed) + 1
        BY <3>1, <1>t DEF EndSweep, Over
      <4>2. sweep[j].reached = {observed[i] : i \in 1 .. Len(observed)}
        BY <4>1, <1>t DEF ChatsInv
      <4>3. Range(observed) = sweep[j].reached
        BY <4>2, <1>t DEF Range
      <4> QED
        BY <3>1, <4>3, <1>t DEF EndSweep
    <3> QED
      BY <1>2, <3>1, <1>t DEF StartSweep, SweepFails
  <2>4. NoSweep \in [at : {"idle", "clearing"}, next : 1 .. Len(observed) + 1, reached : SUBSET ChatIds]
        /\ NoSweep.reached = {} /\ NoSweep.next = 1
    BY <1>t DEF NoSweep
  <2> DEFINE T == [at : {"idle", "clearing"}, next : 1 .. Len(observed) + 1, reached : SUBSET ChatIds]
  <2>9. sweep[j] \in T /\ [sweep[j] EXCEPT !.at = "clearing"] \in T
    BY <1>t
  <2>10. sweep' \in [Sweeps -> T]
    BY <1>t, <2>2, <2>4, <2>9
  <2>5. ChatsTypeOK'
    BY <1>t, <2>1, <2>10 DEF ChatsInv, ChatsTypeOK
  <2>6. ASSUME NEW k \in Sweeps
        PROVE  /\ sweep'[k].reached = {observed[i] : i \in 1 .. sweep'[k].next - 1}
               /\ sweep'[k].at = "idle" => sweep'[k] = NoSweep
    <3>1. sweep'[k] = sweep[k] \/ sweep'[k] = NoSweep
          \/ (sweep'[k].at = "clearing" /\ sweep'[k].reached = sweep[k].reached /\ sweep'[k].next = sweep[k].next)
      BY <1>t, <2>2
    <3> QED
      BY <3>1, <2>4 DEF ChatsInv
  <2> QED
    BY <1>t, <2>1, <2>3, <2>5, <2>6 DEF ChatsInv, ChatsHold
<1>3. ASSUME NEW j \in Sweeps, ClearChat(j) PROVE ChatsInv'
  <2> DEFINE n == sweep[j].next
             new == [sweep[j] EXCEPT !.next = @ + 1, !.reached = @ \cup {observed[n]}]
  <2>1. sweep[j].at = "clearing" /\ n <= Len(observed) /\ sweep' = [sweep EXCEPT ![j] = new]
        /\ UNCHANGED <<observed, cast, passedBy, misreported>>
    BY <1>3 DEF ClearChat
  <2>2. n \in 1 .. Len(observed) /\ observed[n] \in ChatIds
    BY <1>t, <2>1
  <2>3. /\ new \in [at : {"idle", "clearing"}, next : 1 .. Len(observed) + 1, reached : SUBSET ChatIds]
        /\ new.at = "clearing" /\ new.next = n + 1 /\ new.reached = sweep[j].reached \cup {observed[n]}
    <3>1. sweep[j] \in [at : {"idle", "clearing"}, next : 1 .. Len(observed) + 1, reached : SUBSET ChatIds]
      BY <1>t
    <3>3. n + 1 \in 1 .. Len(observed) + 1 /\ sweep[j].reached \cup {observed[n]} \subseteq ChatIds
      BY <1>t, <2>2, <3>1
    <3> QED
      BY <2>1, <3>1, <3>3, SweepFields
  <2> HIDE DEF new
  <2>4. ChatsTypeOK'
    BY <1>t, <2>1, <2>3 DEF ChatsInv, ChatsTypeOK
  <2>5. new.reached = {observed[i] : i \in 1 .. new.next - 1}
    <3>1. sweep[j].reached = {observed[i] : i \in 1 .. n - 1}
      BY DEF ChatsInv
    <3>2. 1 .. new.next - 1 = (1 .. n - 1) \cup {n}
      BY <2>2, <2>3
    <3> QED
      BY <2>3, <3>1, <3>2
  <2>6. ASSUME NEW k \in Sweeps
        PROVE  /\ sweep'[k].reached = {observed[i] : i \in 1 .. sweep'[k].next - 1}
               /\ sweep'[k].at = "idle" => sweep'[k] = NoSweep
    BY <1>t, <2>1, <2>3, <2>5 DEF ChatsInv
  <2> QED
    BY <1>t, <2>1, <2>4, <2>6 DEF ChatsInv, ChatsHold
<1>c. /\ cast.groups \in 0 .. Cardinality(GroupChats) /\ Cardinality(GroupChats) \in Nat
      /\ cast.left \in Nat /\ cast.sent \in Nat /\ cast.failed \in Nat /\ cast.heard \in Nat
      /\ cast.sent + cast.failed + cast.left = cast.groups
      /\ cast.heard \in cast.sent .. cast.sent + cast.failed
      /\ cast \in [at : {"idle", "sending"}, groups : 0 .. Cardinality(GroupChats), left : Nat, sent : Nat,
                   failed : Nat, heard : Nat]
  BY GroupCount DEF ChatsInv, ChatsTypeOK
<1>s. ASSUME UNCHANGED <<observed, sweep, passedBy>>, ~misreported',
             cast' \in [at : {"idle", "sending"}, groups : 0 .. Cardinality(GroupChats), left : Nat,
                        sent : Nat, failed : Nat, heard : Nat],
             cast'.sent + cast'.failed + cast'.left = cast'.groups,
             cast'.heard \in cast'.sent .. cast'.sent + cast'.failed
      PROVE  ChatsInv'
  <2>1. cast'.left \in Nat /\ cast'.sent \in Nat /\ cast'.failed \in Nat /\ cast'.heard \in Nat
        /\ cast'.groups \in Nat
    BY <1>s, GroupCount
  <2>2. {cast'.left, cast'.sent, cast'.failed, cast'.heard} \subseteq 0 .. cast'.groups
    BY <1>s, <2>1
  <2> QED
    BY <1>s, <1>t, <2>2 DEF ChatsInv, ChatsTypeOK, ChatsHold
<1>n. NoCast \in [at : {"idle", "sending"}, groups : 0 .. Cardinality(GroupChats), left : Nat,
                  sent : Nat, failed : Nat, heard : Nat]
      /\ NoCast.sent = 0 /\ NoCast.failed = 0 /\ NoCast.left = 0 /\ NoCast.groups = 0 /\ NoCast.heard = 0
  BY GroupCount DEF NoCast
<1>4. CASE Broadcast
  <2> DEFINE n == Cardinality(Range(observed) \cap GroupChats)
  <2>1. n \in 0 .. Cardinality(GroupChats)
    BY GroupCount
  <2>2. cast' = (IF n = 0 THEN NoCast ELSE [NoCast EXCEPT !.at = "sending", !.groups = n, !.left = n])
        /\ UNCHANGED <<observed, sweep, passedBy, misreported>>
    BY <1>4 DEF Broadcast
  <2> DEFINE c == [NoCast EXCEPT !.at = "sending", !.groups = n, !.left = n]
  <2> HIDE DEF n
  <2>3. /\ c \in [at : {"idle", "sending"}, groups : 0 .. Cardinality(GroupChats), left : Nat, sent : Nat,
                  failed : Nat, heard : Nat]
        /\ c.sent = 0 /\ c.failed = 0 /\ c.left = n /\ c.groups = n /\ c.heard = 0
    <3>1. n \in 0 .. Cardinality(GroupChats) /\ n \in Nat
      BY <2>1, GroupCount
    <3>2. /\ c \in [at : {"idle", "sending"}, groups : 0 .. Cardinality(GroupChats), left : Nat, sent : Nat,
                    failed : Nat, heard : Nat]
      BY <3>1 DEF NoCast
    <3>3. c.sent = 0 /\ c.failed = 0 /\ c.left = n /\ c.groups = n /\ c.heard = 0
      BY DEF NoCast
    <3> QED
      BY <3>2, <3>3
  <2> HIDE DEF c
  <2>4. cast' = NoCast \/ cast' = c
    BY <2>2 DEF c
  <2>5. /\ cast' \in [at : {"idle", "sending"}, groups : 0 .. Cardinality(GroupChats), left : Nat, sent : Nat,
                      failed : Nat, heard : Nat]
        /\ cast'.sent = 0 /\ cast'.failed = 0 /\ cast'.left = cast'.groups /\ cast'.heard = 0
        /\ cast'.groups \in Nat
    BY <2>1, <2>3, <2>4, <1>n, GroupCount
  <2> QED
    BY <1>s, <1>t, <2>2, <2>5
<1>5. CASE SendCopy \/ CopyFails
  <2>1. PICK ok \in BOOLEAN, there \in {0, 1} :
          /\ (ok => there = 1) /\ cast.left > 0
          /\ cast' = [Counted(cast, ok) EXCEPT !.heard = @ + there]
          /\ UNCHANGED <<observed, sweep, passedBy, misreported>>
    BY <1>5 DEF SendCopy, CopyFails
  <2> DEFINE sent1   == IF ok THEN cast.sent + 1 ELSE cast.sent
             failed1 == IF ok THEN cast.failed ELSE cast.failed + 1
  <2>2. cast' = [[cast EXCEPT !.left = cast.left - 1, !.sent = sent1, !.failed = failed1]
                  EXCEPT !.heard = Counted(cast, ok).heard + there]
    BY <2>1 DEF Counted
  <2>3. Counted(cast, ok).heard = cast.heard
    BY <1>c DEF Counted
  <2>4. cast.left - 1 \in Nat /\ cast.heard + there \in Nat /\ sent1 \in Nat /\ failed1 \in Nat
        /\ sent1 + failed1 = cast.sent + cast.failed + 1
        /\ cast.heard + there \in sent1 .. sent1 + failed1
    BY <1>c, <2>1
  <2> HIDE DEF sent1, failed1
  <2>5. /\ cast' \in [at : {"idle", "sending"}, groups : 0 .. Cardinality(GroupChats), left : Nat, sent : Nat,
                      failed : Nat, heard : Nat]
        /\ cast'.groups = cast.groups /\ cast'.left = cast.left - 1 /\ cast'.sent = sent1
        /\ cast'.failed = failed1 /\ cast'.heard = cast.heard + there
    BY <1>c, <2>2, <2>3, <2>4, CastFields
  <2>6. cast'.sent + cast'.failed + cast'.left = cast'.groups
        /\ cast'.heard \in cast'.sent .. cast'.sent + cast'.failed
    BY <1>c, <2>4, <2>5
  <2> QED
    BY <1>s, <1>t, <2>1, <2>5, <2>6
<1>6. CASE Report
  <2>1. /\ cast.left = 0 /\ cast' = NoCast /\ UNCHANGED <<observed, sweep, passedBy>>
        /\ misreported' = (misreported \/ cast.heard \notin cast.sent .. cast.sent + cast.failed
                           \/ cast.sent + cast.failed # cast.groups)
    BY <1>6 DEF Report, Reported
  <2>2. ~misreported'
    <3>1. ~(cast.heard \notin cast.sent .. cast.sent + cast.failed)
          /\ ~(cast.sent + cast.failed # cast.groups)
      BY <1>c, <2>1
    <3> QED
      BY <1>t, <2>1, <3>1, Zenon
  <2>3. cast'.heard \in cast'.sent .. cast'.sent + cast'.failed
        /\ cast'.sent + cast'.failed + cast'.left = cast'.groups
    BY <1>n, <2>1
  <2> QED
    BY <1>s, <1>n, <2>1, <2>2, <2>3
<1>7. CASE RestartChats
  <2>1. observed' = <<>> /\ sweep' = [j \in Sweeps |-> NoSweep] /\ cast' = NoCast
        /\ UNCHANGED <<passedBy, misreported>>
    BY <1>7 DEF RestartChats
  <2>2. ChatsTypeOK'
    BY <2>1, GroupCount DEF ChatsTypeOK, NoSweep, NoCast, IsInjective
  <2> QED
    BY <2>1, <2>2, <1>t DEF ChatsInv, ChatsHold, NoSweep, NoCast
<1> QED
  BY <1>1, <1>2, <1>3, <1>4, <1>5, <1>6, <1>7 DEF ChatsNext

-----------------------------------------------------------------------------
(* The messages that come in, and the moderators                           *)

\* A delivery is counted once, wherever it is; an id that was noted in time is known until
\* its echo comes.  The last run of resolveMods has reached one of the moderators, and those
\* before that one are done.
InboundInv ==
  /\ InboundTypeOK
  /\ seconds \in Nat /\ commandBurst \in Seq(Nat) /\ IsFiniteSet(messageCache)
  /\ \A i \in Ids : /\ emitted[i] + simplifying[i] <= came[i]
                    /\ came[i] + toCome[i] <= 2
  /\ \A r \in Replies : /\ sent[r] = "no" => toCome[r] = 0 /\ came[r] = 0
                        /\ r \notin excused => emitted[r] = 0 /\ simplifying[r] = 0
                        /\ r \notin excused /\ sent[r] = "noted" /\ came[r] = 0 => r \in sentByBot

ModsInv ==
  /\ modJids \subseteq Forms /\ opened \in Nat
  /\ \A r \in resolves : r.at \in 1 .. Len(ConfigMods) /\ r = [run |-> r.run, at |-> r.at]
  /\ opened > 0 => \E p \in 1 .. Len(ConfigMods) + 1 :
       /\ p <= Len(ConfigMods) => [run |-> opened, at |-> p] \in resolves
       /\ \A i \in 1 .. Len(ConfigMods) :
            /\ i <= p => <<ConfigMods[i], "pn">> \in modJids
            /\ i < p => <<ConfigMods[i], "lid">> \in modJids \/ ConfigMods[i] \in unmapped

Sources == [sent : SUBSET Replies, cache : SUBSET Ids, burst : Seq(Nat), out : [Ids -> Nat],
            thrown : BOOLEAN]

LEMMA InboundConstants ==
  /\ Replies \subseteq Ids /\ BurstLimit \in Nat \ {0} /\ MaxKeys \in Nat \ {0}
  /\ Len(ConfigMods) \in Nat /\ DOMAIN ConfigMods = 1 .. Len(ConfigMods) /\ MaxResolves \in Nat
BY InboundAssumption DEF InboundAssumption, Ids

\* What is left of a burst is no longer than it was.
LEMMA RecentShorter ==
  ASSUME NEW times \in Seq(Nat), seconds \in Nat
  PROVE  Recent(times) \in Seq(Nat) /\ Len(Recent(times)) <= Len(times)
<1> DEFINE old == {k \in DOMAIN times : seconds - times[k] >= Window}
<1>1. DOMAIN times = 1 .. Len(times) /\ Len(times) \in Nat
  OBVIOUS
<1>2. IsFiniteSet(1 .. Len(times)) /\ Cardinality(1 .. Len(times)) = Len(times)
  <2>1. Cardinality(1 .. Len(times)) = IF 1 > Len(times) THEN 0 ELSE Len(times) - 1 + 1
    BY <1>1, FS_Interval
  <2> QED
    BY <1>1, <2>1, FS_Interval
<1>3. old \subseteq 1 .. Len(times)
  BY <1>1
<1>4. Cardinality(old) \in 0 .. Len(times)
  BY <1>2, <1>3, FS_Subset, FS_CardinalityType
<1> HIDE DEF old
<1>5. Recent(times) = SubSeq(times, Cardinality(old) + 1, Len(times))
  BY DEF Recent, old
<1>6. SubSeq(times, Cardinality(old) + 1, Len(times)) \in Seq(Nat)
  BY <1>1, <1>4, SubSeqProperties
<1>7. Len(SubSeq(times, Cardinality(old) + 1, Len(times))) <= Len(times)
  BY <1>1, <1>4, SubSeqProperties
<1> QED
  BY <1>5, <1>6, <1>7

\* What one message does to the caches: its own id is all that goes out of sentByBot, and it is
\* handed on only if it was not in there.
LEMMA Takes ==
  ASSUME NEW s \in Sources, NEW i \in Ids, seconds \in Nat,
         IsFiniteSet(s.cache), Cardinality(s.cache) <= MaxKeys, Len(s.burst) <= BurstLimit
  PROVE  LET t == Take(s, i) IN
         /\ t \in Sources /\ IsFiniteSet(t.cache) /\ Cardinality(t.cache) <= MaxKeys
         /\ Len(t.burst) <= BurstLimit /\ s.sent \ {i} \subseteq t.sent
         /\ \A j \in Ids : t.out[j] = s.out[j] \/ (j = i /\ i \notin s.sent /\ t.out[j] = s.out[j] + 1)
<1> DEFINE times == Recent(s.burst)
           burst == IF i \in Mine THEN Append(times, seconds) ELSE s.burst
           t     == Take(s, i)
           Good(x) == /\ x \in Sources /\ IsFiniteSet(x.cache) /\ Cardinality(x.cache) <= MaxKeys
                      /\ Len(x.burst) <= BurstLimit /\ s.sent \ {i} \subseteq x.sent
                      /\ \A j \in Ids : x.out[j] = s.out[j]
                                        \/ (j = i /\ i \notin s.sent /\ x.out[j] = s.out[j] + 1)
<1>1. /\ s.sent \subseteq Replies /\ s.cache \subseteq Ids /\ s.burst \in Seq(Nat)
      /\ s.out \in [Ids -> Nat] /\ s.thrown \in BOOLEAN
  BY DEF Sources
<1>2. times \in Seq(Nat) /\ Len(times) <= BurstLimit /\ Len(times) \in Nat
  BY <1>1, RecentShorter, InboundConstants
<1> HIDE DEF times
<1>3. ASSUME ~(i \in Mine \ Old /\ Len(times) >= BurstLimit), ~(i \notin s.sent /\ i \in Old)
      PROVE  i \in s.sent \/ (burst \in Seq(Nat) /\ Len(burst) <= BurstLimit)
  <2>1. CASE i \in s.sent
    BY <2>1
  <2>2. CASE i \notin s.sent /\ i \notin Mine
    BY <2>2, <1>1
  <2>3. CASE i \notin s.sent /\ i \in Mine
    <3>1. Len(times) < BurstLimit
      BY <1>2, <1>3, <2>3, InboundConstants
    <3>2. Append(times, seconds) \in Seq(Nat) /\ Len(Append(times, seconds)) = Len(times) + 1
      BY <1>2
    <3> QED
      BY <3>1, <3>2, <1>2, <2>3, InboundConstants
  <2> QED
    BY <2>1, <2>2, <2>3
<1> HIDE DEF burst
<1>4. CASE s.thrown
  <2>1. t = s
    BY <1>4 DEF Take
  <2> QED
    BY <2>1
<1>5. CASE ~s.thrown /\ i \in s.sent
  <2>1. t = [s EXCEPT !.sent = @ \ {i}]
    BY <1>5 DEF Take
  <2>2. Good([s EXCEPT !.sent = @ \ {i}])
    BY <1>1 DEF Sources
  <2> QED
    BY <2>1, <2>2
<1>6. CASE ~s.thrown /\ i \notin s.sent /\ i \in Old
  <2>1. t = s
    BY <1>6 DEF Take
  <2> QED
    BY <2>1
<1>7. CASE ~s.thrown /\ i \notin s.sent /\ i \in Mine \ Old /\ Len(times) >= BurstLimit
  <2>1. t = [s EXCEPT !.burst = times]
    BY <1>7 DEF Take, times
  <2>2. Good([s EXCEPT !.burst = times])
    BY <1>1, <1>2 DEF Sources
  <2> QED
    BY <2>1, <2>2
<1>8. CASE ~s.thrown /\ i \notin s.sent /\ i \notin Old /\ ~(i \in Mine \ Old /\ Len(times) >= BurstLimit)
  <2>1. t = IF Cardinality(s.cache) >= MaxKeys
            THEN [s EXCEPT !.burst = burst, !.thrown = TRUE]
            ELSE [s EXCEPT !.burst = burst, !.cache = @ \cup {i}, !.out[i] = @ + 1]
    BY <1>8 DEF Take, times, burst
  <2>2. burst \in Seq(Nat) /\ Len(burst) <= BurstLimit
    BY <1>3, <1>8
  <2>3. CASE Cardinality(s.cache) >= MaxKeys
    <3>1. t = [s EXCEPT !.burst = burst, !.thrown = TRUE]
      BY <2>1, <2>3
    <3>2. Good([s EXCEPT !.burst = burst, !.thrown = TRUE])
      BY <1>1, <2>2 DEF Sources
    <3> QED
      BY <3>1, <3>2
  <2>4. CASE ~(Cardinality(s.cache) >= MaxKeys)
    <3> DEFINE cache == s.cache \cup {i}
               out   == [s.out EXCEPT ![i] = @ + 1]
    <3>1. t = [s EXCEPT !.burst = burst, !.cache = cache, !.out = out]
      BY <2>1, <2>4
    <3>2. IsFiniteSet(cache) /\ Cardinality(cache) <= MaxKeys /\ cache \subseteq Ids
      <4>1. Cardinality(s.cache) \in Nat
        BY FS_CardinalityType
      <4>2. IsFiniteSet(cache) /\ (Cardinality(cache) = Cardinality(s.cache)
                                  \/ Cardinality(cache) = Cardinality(s.cache) + 1)
        BY FS_AddElement
      <4>3. Cardinality(cache) <= MaxKeys
        BY <2>4, <4>1, <4>2, InboundConstants
      <4> QED
        BY <1>1, <4>2, <4>3
    <3>3. out \in [Ids -> Nat] /\ \A j \in Ids : out[j] = s.out[j] \/ (j = i /\ out[j] = s.out[j] + 1)
      BY <1>1
    <3> HIDE DEF cache, out
    <3>4. LET x == [s EXCEPT !.burst = burst, !.cache = cache, !.out = out]
          IN  /\ x \in Sources /\ x.burst = burst /\ x.cache = cache /\ x.out = out /\ x.sent = s.sent
      BY <2>2, <3>2, <3>3 DEF Sources
    <3> QED
      BY <1>8, <2>2, <3>1, <3>2, <3>3, <3>4
  <2> QED
    BY <2>3, <2>4
<1> QED
  BY <1>4, <1>5, <1>6, <1>7, <1>8, <1>1

LEMMA InboundStarts ==
  ASSUME InboundInit
  PROVE  InboundInv /\ ModsInv
<1>1. /\ toCome \in [Ids -> 0..2] /\ \A i \in Ids : toCome[i] = 0 <=> i \in Replies
      /\ sent = [r \in Replies |-> "no"] /\ owed = 0 /\ sentByBot = {} /\ messageCache = {}
      /\ commandBurst = <<>> /\ simplifying = [i \in Ids |-> 0] /\ emitted = [i \in Ids |-> 0]
      /\ came = [i \in Ids |-> 0] /\ seconds = 0 /\ modJids = {} /\ resolves = {} /\ opened = 0
  BY DEF InboundInit
<1>2. IsFiniteSet(messageCache) /\ Cardinality(messageCache) = 0
  BY <1>1, FS_EmptySet
<1>3. InboundTypeOK
  BY <1>1, <1>2, InboundConstants DEF InboundTypeOK
<1>4. InboundInv
  BY <1>1, <1>2, <1>3, InboundConstants DEF InboundInv
<1> QED
  BY <1>1, <1>4, InboundConstants DEF ModsInv

LEMMA UpsertKept ==
  ASSUME InboundInv, NEW b \in Batches, MessagesUpsert(b)
  PROVE  InboundInv'
<1> DEFINE n     == [i \in Ids |-> IF i \in Range(b) THEN 1 ELSE 0]
           start == [sent |-> sentByBot, cache |-> messageCache, burst |-> commandBurst,
                     out |-> simplifying, thrown |-> FALSE]
           first == Take(start, b[1])
           s     == IF Len(b) = 1 THEN first ELSE Take(first, b[2])
<1>1. /\ \A i \in Ids : n[i] <= toCome[i]
      /\ toCome' = [i \in Ids |-> toCome[i] - n[i]] /\ came' = [i \in Ids |-> came[i] + n[i]]
      /\ sentByBot' = s.sent /\ messageCache' = s.cache /\ commandBurst' = s.burst /\ simplifying' = s.out
      /\ excused' = excused \cup {r \in Replies : n[r] > 0 /\ (sent[r] # "noted" \/ came[r] > 0)}
      /\ UNCHANGED <<sent, owed, emitted, seconds, modJids, resolves>>
  BY DEF MessagesUpsert, modVars
<1>t. /\ toCome \in [Ids -> 0..2] /\ sent \in [Replies -> {"no", "accepted", "noted"}] /\ owed \in Nat
      /\ sentByBot \subseteq Replies /\ messageCache \subseteq Ids /\ Cardinality(messageCache) <= MaxKeys
      /\ Len(commandBurst) <= BurstLimit /\ seconds \in Nat /\ commandBurst \in Seq(Nat)
      /\ IsFiniteSet(messageCache)
      /\ simplifying \in [Ids -> 0..2] /\ emitted \in [Ids -> 0..2] /\ came \in [Ids -> 0..2]
  BY DEF InboundInv, InboundTypeOK
<1>2. start \in Sources /\ start.sent = sentByBot /\ start.cache = messageCache
      /\ start.burst = commandBurst /\ start.out = simplifying
  <2>1. simplifying \in [Ids -> Nat]
    BY <1>t
  <2> QED
    BY <1>t, <2>1 DEF Sources
<1>3. /\ s \in Sources /\ IsFiniteSet(s.cache) /\ Cardinality(s.cache) <= MaxKeys
      /\ Len(s.burst) <= BurstLimit
      /\ \A r \in Replies \cap sentByBot : r \in s.sent \/ r \in Range(b)
      /\ \A i \in Ids : \/ s.out[i] = simplifying[i]
                        \/ i \in Range(b) /\ i \notin sentByBot /\ s.out[i] = simplifying[i] + 1
  <2>1. /\ b[1] \in Ids /\ b[1] \in Range(b)
        /\ Len(b) # 1 => b[2] \in Ids /\ b[2] \in Range(b) /\ b[1] # b[2]
    <3>1. CASE b \in {<<i>> : i \in Ids}
      BY <3>1 DEF Range
    <3>2. CASE b \in {c \in Ids \X Ids : c[1] # c[2]}
      <4>1. b[1] \in Ids /\ b[2] \in Ids /\ b[1] # b[2] /\ DOMAIN b = 1 .. 2
        BY <3>2
      <4>2. 1 \in DOMAIN b /\ 2 \in DOMAIN b
        BY <4>1
      <4> QED
        BY <4>1, <4>2 DEF Range
    <3> QED
      BY <3>1, <3>2 DEF Batches
  <2> HIDE DEF start, first
  <2>2. /\ first \in Sources /\ IsFiniteSet(first.cache) /\ Cardinality(first.cache) <= MaxKeys
        /\ Len(first.burst) <= BurstLimit /\ sentByBot \ {b[1]} \subseteq first.sent
        /\ \A j \in Ids : first.out[j] = simplifying[j]
                          \/ (j = b[1] /\ b[1] \notin sentByBot /\ first.out[j] = simplifying[j] + 1)
    BY <1>2, <1>t, <2>1, Takes DEF first
  <2>3. CASE Len(b) = 1
    BY <2>1, <2>2, <2>3
  <2>4. CASE Len(b) # 1
    <3> DEFINE t == Take(first, b[2])
    <3>1. /\ t \in Sources /\ IsFiniteSet(t.cache) /\ Cardinality(t.cache) <= MaxKeys
          /\ Len(t.burst) <= BurstLimit /\ first.sent \ {b[2]} \subseteq t.sent
          /\ \A j \in Ids : t.out[j] = first.out[j]
                            \/ (j = b[2] /\ b[2] \notin first.sent /\ t.out[j] = first.out[j] + 1)
      BY <1>t, <2>1, <2>2, <2>4, Takes
    <3>2. s = t
      BY <2>4
    <3> HIDE DEF t, s
    <3>3. \A j \in Ids : \/ t.out[j] = simplifying[j]
                         \/ j \in Range(b) /\ j \notin sentByBot /\ t.out[j] = simplifying[j] + 1
      BY <2>1, <2>2, <2>4, <3>1
    <3>4. \A r \in Replies \cap sentByBot : r \in t.sent \/ r \in Range(b)
      BY <2>1, <2>2, <2>4, <3>1
    <3> QED
      BY <3>1, <3>2, <3>3, <3>4
  <2> QED
    BY <2>3, <2>4
<1> HIDE DEF s
<1>4. /\ sentByBot' \subseteq Replies /\ messageCache' \subseteq Ids /\ commandBurst' \in Seq(Nat)
      /\ simplifying' \in [Ids -> Nat]
  BY <1>1, <1>3 DEF Sources
<1>5. ASSUME NEW i \in Ids
      PROVE  /\ emitted'[i] + simplifying'[i] <= came'[i] /\ came'[i] + toCome'[i] <= 2
             /\ toCome'[i] \in 0..2 /\ came'[i] \in 0..2 /\ simplifying'[i] \in 0..2
  <2>1. n[i] \in {0, 1} /\ (i \in Range(b) <=> n[i] = 1) /\ n[i] <= toCome[i]
        /\ toCome'[i] = toCome[i] - n[i] /\ came'[i] = came[i] + n[i]
    BY <1>1
  <2>2. emitted[i] + simplifying[i] <= came[i] /\ came[i] + toCome[i] <= 2
        /\ emitted[i] \in 0..2 /\ simplifying[i] \in 0..2 /\ toCome[i] \in 0..2 /\ came[i] \in 0..2
    BY <1>t DEF InboundInv
  <2>3. emitted'[i] = emitted[i] /\ (simplifying'[i] = simplifying[i]
        \/ (i \in Range(b) /\ simplifying'[i] = simplifying[i] + 1))
    BY <1>1, <1>3
  <2> HIDE DEF n
  <2> QED
    BY <2>1, <2>2, <2>3
<1>6. ASSUME NEW r \in Replies
      PROVE  /\ sent'[r] = "no" => toCome'[r] = 0 /\ came'[r] = 0
             /\ r \notin excused' => emitted'[r] = 0 /\ simplifying'[r] = 0
             /\ r \notin excused' /\ sent'[r] = "noted" /\ came'[r] = 0 => r \in sentByBot'
  <2>1. /\ sent[r] = "no" => toCome[r] = 0 /\ came[r] = 0
        /\ r \notin excused => emitted[r] = 0 /\ simplifying[r] = 0
        /\ r \notin excused /\ sent[r] = "noted" /\ came[r] = 0 => r \in sentByBot
        /\ r \in Ids /\ toCome[r] \in 0..2 /\ came[r] \in 0..2
    BY <1>t, InboundConstants DEF InboundInv
  <2>2. n[r] \in {0, 1} /\ (r \in Range(b) <=> n[r] = 1) /\ n[r] <= toCome[r]
        /\ toCome'[r] = toCome[r] - n[r] /\ came'[r] = came[r] + n[r]
        /\ sent'[r] = sent[r] /\ emitted'[r] = emitted[r]
    BY <1>1, <2>1
  <2>3. /\ r \in excused => r \in excused'
        /\ n[r] = 1 /\ (sent[r] # "noted" \/ came[r] > 0) => r \in excused'
    BY <1>1
  <2>4. /\ r \in sentByBot => r \in sentByBot' \/ n[r] = 1
        /\ simplifying'[r] = simplifying[r] \/ (n[r] = 1 /\ r \notin sentByBot)
    BY <1>1, <1>3, <2>1, <2>2
  <2> HIDE DEF n
  <2> QED
    BY <2>1, <2>2, <2>3, <2>4
<1>7. /\ toCome' \in [Ids -> 0..2] /\ came' \in [Ids -> 0..2] /\ simplifying' \in [Ids -> 0..2]
  <2>1. DOMAIN toCome' = Ids /\ DOMAIN came' = Ids /\ DOMAIN simplifying' = Ids
        /\ toCome' = [i \in Ids |-> toCome'[i]] /\ came' = [i \in Ids |-> came'[i]]
        /\ simplifying' = [i \in Ids |-> simplifying'[i]]
    BY <1>1, <1>4
  <2> QED
    BY <1>5, <2>1
<1>8. Cardinality(messageCache') <= MaxKeys /\ Len(commandBurst') <= BurstLimit /\ IsFiniteSet(messageCache')
  BY <1>1, <1>3
<1>9. InboundTypeOK'
  BY <1>1, <1>4, <1>7, <1>8 DEF InboundInv, InboundTypeOK
<1> QED
  BY <1>1, <1>4, <1>5, <1>6, <1>8, <1>9, <1>t DEF InboundInv

LEMMA MessagesKept ==
  ASSUME InboundInv, MessagesNext
  PROVE  InboundInv'
<1>t. /\ toCome \in [Ids -> 0..2] /\ sent \in [Replies -> {"no", "accepted", "noted"}] /\ owed \in Nat
      /\ sentByBot \subseteq Replies /\ messageCache \subseteq Ids /\ Cardinality(messageCache) <= MaxKeys
      /\ Len(commandBurst) <= BurstLimit /\ seconds \in Nat /\ commandBurst \in Seq(Nat)
      /\ IsFiniteSet(messageCache) /\ Replies \subseteq Ids
      /\ simplifying \in [Ids -> 0..2] /\ emitted \in [Ids -> 0..2] /\ came \in [Ids -> 0..2]
  BY InboundConstants DEF InboundInv, InboundTypeOK
<1>1. ASSUME NEW i \in Ids, EmitNewMessage(i) PROVE InboundInv'
  <2>1. /\ simplifying[i] > 0 /\ simplifying' = [simplifying EXCEPT ![i] = @ - 1]
        /\ emitted' = [emitted EXCEPT ![i] = @ + 1] /\ owed' \in {owed, owed + 1}
        /\ UNCHANGED <<toCome, sent, sentByBot, messageCache, commandBurst, came, excused, seconds, modJids, resolves>>
    BY <1>1 DEF EmitNewMessage, modVars
  <2>2. ASSUME NEW j \in Ids
        PROVE  /\ emitted'[j] + simplifying'[j] <= came'[j] /\ came'[j] + toCome'[j] <= 2
               /\ simplifying'[j] \in 0..2 /\ emitted'[j] \in 0..2
               /\ j \in Replies \ excused => emitted'[j] = 0 /\ simplifying'[j] = 0
    <3>1. emitted[j] + simplifying[j] <= came[j] /\ came[j] + toCome[j] <= 2
          /\ emitted[j] \in 0..2 /\ simplifying[j] \in 0..2 /\ toCome[j] \in 0..2 /\ came[j] \in 0..2
          /\ (j \in Replies \ excused => emitted[j] = 0 /\ simplifying[j] = 0)
      BY <1>t DEF InboundInv
    <3>2. came'[j] = came[j] /\ toCome'[j] = toCome[j]
          /\ (IF j = i THEN simplifying'[j] = simplifying[j] - 1 /\ emitted'[j] = emitted[j] + 1
              ELSE simplifying'[j] = simplifying[j] /\ emitted'[j] = emitted[j])
      BY <1>t, <2>1
    <3> QED
      BY <2>1, <3>1, <3>2
  <2>3. simplifying' \in [Ids -> 0..2] /\ emitted' \in [Ids -> 0..2]
    <3>1. DOMAIN simplifying' = Ids /\ DOMAIN emitted' = Ids
          /\ simplifying' = [j \in Ids |-> simplifying'[j]] /\ emitted' = [j \in Ids |-> emitted'[j]]
      BY <1>t, <2>1
    <3> QED
      BY <2>2, <3>1
  <2>4. owed' \in Nat
    BY <1>t, <2>1
  <2> QED
    BY <1>t, <2>1, <2>2, <2>3, <2>4 DEF InboundInv, InboundTypeOK
<1>2. ASSUME NEW r \in Replies, Send(r) PROVE InboundInv'
  <2>1. /\ owed > 0 /\ sent[r] = "no" /\ owed' = owed - 1 /\ sent' = [sent EXCEPT ![r] = "accepted"]
        /\ UNCHANGED <<sentByBot, messageCache, commandBurst, simplifying, emitted, came, excused, seconds, modJids, resolves>>
    BY <1>2 DEF Send, modVars
  <2>2. PICK n \in 1..2 : toCome' = [toCome EXCEPT ![r] = n]
    BY <1>2 DEF Send
  <2>3. came[r] = 0 /\ toCome[r] = 0
    BY <2>1 DEF InboundInv
  <2>4. toCome' \in [Ids -> 0..2] /\ sent' \in [Replies -> {"no", "accepted", "noted"}] /\ owed' \in Nat
    BY <1>t, <2>1, <2>2
  <2>5. \A i \in Ids : came'[i] + toCome'[i] <= 2
    BY <1>t, <2>1, <2>2, <2>3 DEF InboundInv
  <2>6. \A q \in Replies : /\ sent'[q] = "no" => sent[q] = "no" /\ toCome'[q] = toCome[q]
                           /\ sent'[q] = "noted" => sent[q] = "noted"
    BY <1>t, <2>1, <2>2
  <2> QED
    BY <1>t, <2>1, <2>4, <2>5, <2>6 DEF InboundInv, InboundTypeOK
<1>3. ASSUME NEW r \in Replies, TrackSent(r) PROVE InboundInv'
  <2>1. /\ sent[r] = "accepted" /\ sent' = [sent EXCEPT ![r] = "noted"] /\ sentByBot' = sentByBot \cup {r}
        /\ UNCHANGED <<toCome, owed, messageCache, commandBurst, simplifying, emitted, came, excused, seconds, modJids, resolves>>
    BY <1>3 DEF TrackSent, Noted, modVars
  <2>2. sent' \in [Replies -> {"no", "accepted", "noted"}] /\ sentByBot' \subseteq Replies
    BY <1>t, <2>1
  <2>3. \A q \in Replies : /\ sent'[q] = "no" => sent[q] = "no"
                           /\ q # r => sent'[q] = sent[q]
    BY <1>t, <2>1
  <2> QED
    BY <1>t, <2>1, <2>2, <2>3 DEF InboundInv, InboundTypeOK
<1>4. CASE MessageExpires
  <2>1. PICK i \in messageCache : messageCache' = messageCache \ {i}
    BY <1>4 DEF MessageExpires
  <2>2. UNCHANGED <<toCome, sent, owed, sentByBot, commandBurst, simplifying, emitted, came, excused, seconds, modJids, resolves>>
    BY <1>4 DEF MessageExpires, modVars
  <2>3. IsFiniteSet(messageCache') /\ Cardinality(messageCache') <= Cardinality(messageCache)
    BY <1>t, <2>1, FS_Subset
  <2>4. Cardinality(messageCache') <= MaxKeys
    BY <1>t, <2>3, FS_CardinalityType, InboundConstants
  <2> QED
    BY <1>t, <2>1, <2>2, <2>3, <2>4 DEF InboundInv, InboundTypeOK
<1>5. CASE SentExpires
  <2>1. PICK r \in sentByBot : sentByBot' = sentByBot \ {r} /\ excused' = excused \cup {r}
    BY <1>5 DEF SentExpires
  <2>2. UNCHANGED <<toCome, sent, owed, messageCache, commandBurst, simplifying, emitted, came, seconds, modJids, resolves>>
    BY <1>5 DEF SentExpires, modVars
  <2> QED
    BY <1>t, <2>1, <2>2 DEF InboundInv, InboundTypeOK
<1>6. CASE SecondPasses
  <2>1. seconds' = seconds + 1
        /\ UNCHANGED <<toCome, sent, owed, sentByBot, messageCache, commandBurst, simplifying, emitted, came, excused, modJids, resolves>>
    BY <1>6 DEF SecondPasses, modVars
  <2> QED
    BY <1>t, <2>1 DEF InboundInv, InboundTypeOK
<1> QED
  BY <1>1, <1>2, <1>3, <1>4, <1>5, <1>6, UpsertKept DEF MessagesNext

LEMMA ModsKept ==
  ASSUME ModsInv, ModsNext
  PROVE  ModsInv'
<1> DEFINE N == Len(ConfigMods)
<1>0. N \in Nat /\ DOMAIN ConfigMods = 1 .. N
  BY InboundConstants
<1>1. CASE ResolveMods
  <2>1. /\ opened' = opened + 1 /\ N > 0 /\ modJids' = {<<ConfigMods[1], "pn">>}
        /\ resolves' = resolves \cup {[run |-> opened', at |-> 1]} /\ unmapped' = unmapped
    BY <1>1 DEF ResolveMods
  <2>2. opened' \in Nat /\ modJids' \subseteq Forms
    BY <1>0, <2>1 DEF ModsInv, Forms
  <2>3. \A r \in resolves' : r.at \in 1 .. N /\ r = [run |-> r.run, at |-> r.at]
    BY <1>0, <2>1 DEF ModsInv
  <2>4. 1 \in 1 .. N + 1 /\ [run |-> opened', at |-> 1] \in resolves' /\ \A i \in 1 .. N : i <= 1 => i = 1
    BY <1>0, <2>1
  <2> QED
    BY <2>1, <2>2, <2>3, <2>4 DEF ModsInv
<1>2. ASSUME NEW r \in resolves, LidFound(r) PROVE ModsInv'
  <2> DEFINE m    == ConfigMods[r.at]
             last == r.at = N
             then == IF last THEN {} ELSE {<<ConfigMods[r.at + 1], "pn">>}
  <2>1. /\ \/ modJids' = modJids \cup ({<<m, "lid">>} \cup then) /\ unmapped' = unmapped
           \/ modJids' = modJids \cup then /\ unmapped' = unmapped \cup {m}
        /\ resolves' = (resolves \ {r}) \cup (IF last THEN {} ELSE {[r EXCEPT !.at = @ + 1]})
        /\ opened' = opened
    BY <1>2 DEF LidFound, Added
  <2>2. r.at \in 1 .. N /\ r = [run |-> r.run, at |-> r.at]
    BY DEF ModsInv
  <2>3. [r EXCEPT !.at = @ + 1] = [run |-> r.run, at |-> r.at + 1]
    BY <2>2
  <2>4. /\ modJids \subseteq modJids' /\ unmapped \subseteq unmapped' /\ opened' \in Nat
        /\ then \subseteq modJids' /\ (<<m, "lid">> \in modJids' \/ m \in unmapped')
    BY <2>1 DEF ModsInv
  <2>5. modJids' \subseteq Forms
    <3>1. m \in {ConfigMods[i] : i \in DOMAIN ConfigMods}
      BY <1>0, <2>2
    <3>2. ~last => ConfigMods[r.at + 1] \in {ConfigMods[i] : i \in DOMAIN ConfigMods}
      BY <1>0, <2>2
    <3> QED
      BY <2>1, <3>1, <3>2 DEF ModsInv, Forms
  <2>6. \A q \in resolves' : q.at \in 1 .. N /\ q = [run |-> q.run, at |-> q.at]
    <3> SUFFICES ASSUME NEW q \in resolves' PROVE q.at \in 1 .. N /\ q = [run |-> q.run, at |-> q.at]
      OBVIOUS
    <3>1. CASE q \in resolves
      BY <3>1 DEF ModsInv
    <3>2. CASE q = [run |-> r.run, at |-> r.at + 1] /\ ~last
      BY <1>0, <2>2, <3>2
    <3> QED
      BY <2>1, <2>3, <3>1, <3>2
  <2>7. ASSUME opened > 0
        PROVE  \E p \in 1 .. N + 1 :
                 /\ p <= N => [run |-> opened, at |-> p] \in resolves'
                 /\ \A i \in 1 .. N : /\ i <= p => <<ConfigMods[i], "pn">> \in modJids'
                                      /\ i < p => <<ConfigMods[i], "lid">> \in modJids' \/ ConfigMods[i] \in unmapped'
    <3>1. PICK p \in 1 .. N + 1 :
             /\ p <= N => [run |-> opened, at |-> p] \in resolves
             /\ \A i \in 1 .. N : /\ i <= p => <<ConfigMods[i], "pn">> \in modJids
                                  /\ i < p => <<ConfigMods[i], "lid">> \in modJids \/ ConfigMods[i] \in unmapped
      BY <2>7 DEF ModsInv
    <3>2. CASE p <= N /\ r = [run |-> opened, at |-> p]
      <4>1. r.at = p /\ r.run = opened
        BY <3>2
      <4>2. p + 1 \in 1 .. N + 1
        BY <1>0, <3>2
      <4>3. p + 1 <= N => [run |-> opened, at |-> p + 1] \in resolves'
        BY <1>0, <2>1, <2>3, <4>1
      <4>4. ASSUME NEW i \in 1 .. N, i <= p + 1 PROVE <<ConfigMods[i], "pn">> \in modJids'
        <5>1. CASE i <= p
          BY <2>4, <3>1, <5>1
        <5>2. CASE i = p + 1
          <6>0. p # N
            <7>1. N \in Nat /\ i \in 1 .. N /\ p \in 1 .. N + 1
              BY <1>0
            <7> HIDE DEF N
            <7> QED
              BY <5>2, <7>1
          <6>1. ~last /\ i = r.at + 1
            BY <4>1, <5>2, <6>0, Zenon
          <6>2. <<ConfigMods[i], "pn">> \in then
            BY <6>1
          <6> QED
            BY <2>4, <6>2
        <5> QED
          BY <4>4, <5>1, <5>2
      <4>5. ASSUME NEW i \in 1 .. N, i < p + 1
            PROVE  <<ConfigMods[i], "lid">> \in modJids' \/ ConfigMods[i] \in unmapped'
        <5>1. CASE i < p
          BY <2>4, <3>1, <5>1
        <5>2. CASE i = p
          BY <2>4, <4>1, <5>2
        <5> QED
          BY <4>5, <5>1, <5>2
      <4> QED
        BY <4>2, <4>3, <4>4, <4>5
    <3>3. CASE ~(p <= N /\ r = [run |-> opened, at |-> p])
      BY <2>1, <2>4, <3>1, <3>3
    <3> QED
      BY <3>2, <3>3
  <2> QED
    BY <2>1, <2>4, <2>5, <2>6, <2>7 DEF ModsInv
<1> QED
  BY <1>1, <1>2 DEF ModsNext

LEMMA SendersKept ==
  ASSUME InboundInv, ModsInv, MessagesNext \/ ModsNext \/ UNCHANGED inboundVars
  PROVE  InboundInv' /\ ModsInv'
<1>1. CASE UNCHANGED inboundVars
  <2>1. InboundInv'
    BY <1>1 DEF inboundVars, inVars, modVars, InboundInv, InboundTypeOK
  <2> QED
    BY <1>1, <2>1 DEF inboundVars, inVars, modVars, ModsInv
<1>2. CASE MessagesNext
  <2>1. UNCHANGED modVars
    BY <1>2 DEF MessagesNext, MessagesUpsert, EmitNewMessage, Send, TrackSent, MessageExpires, SentExpires,
                SecondPasses
  <2>2. ModsInv'
    BY <2>1 DEF modVars, ModsInv
  <2> QED
    BY <1>2, <2>2, MessagesKept
<1>3. CASE ModsNext
  <2>1. ModsInv' /\ UNCHANGED inVars
    BY <1>3, ModsKept DEF ModsNext, ResolveMods, LidFound
  <2>2. InboundInv'
    BY <2>1 DEF inVars, InboundInv, InboundTypeOK, ModsInv
  <2> QED
    BY <2>1, <2>2
<1> QED
  BY <1>1, <1>2, <1>3

LEMMA SendersImplied ==
  ASSUME InboundInv, ModsInv
  PROVE  InboundTypeOK /\ SendersRecognised
<1>1. EchoIgnored
  <2> SUFFICES ASSUME NEW r \in Replies, emitted[r] + simplifying[r] > 0 PROVE r \in excused
    BY DEF EchoIgnored
  <2> QED
    BY DEF InboundInv
<1>2. ModsRecognised
  <2> SUFFICES ASSUME opened > 0, resolves = {}, NEW i \in DOMAIN ConfigMods
               PROVE  /\ <<ConfigMods[i], "pn">> \in modJids
                      /\ <<ConfigMods[i], "lid">> \in modJids \/ ConfigMods[i] \in unmapped
    BY DEF ModsRecognised
  <2>1. PICK p \in 1 .. Len(ConfigMods) + 1 :
           /\ p <= Len(ConfigMods) => [run |-> opened, at |-> p] \in resolves
           /\ \A k \in 1 .. Len(ConfigMods) :
                /\ k <= p => <<ConfigMods[k], "pn">> \in modJids
                /\ k < p => <<ConfigMods[k], "lid">> \in modJids \/ ConfigMods[k] \in unmapped
    BY DEF ModsInv
  <2>2. p = Len(ConfigMods) + 1 /\ i \in 1 .. Len(ConfigMods)
    BY <2>1, InboundConstants
  <2> QED
    BY <2>1, <2>2, InboundConstants
<1> QED
  BY <1>1, <1>2 DEF InboundInv, SendersRecognised

-----------------------------------------------------------------------------
(* The group                                                               *)

Args       == People \cup Minutes \cup {"none"}
OpNames    == OnUser \cup {"open", "close", "leave"}
Operations == OpNames \X Args
Handlings  ==
  [at : {"free", "asked", "answered", "judged", "acting"}, cmd : Cmds \cup {"link", "none"}, arg : Args,
   from : People \cup {"none"}, meta : Rooms, todo : Seq(Operations), wasAdmin : BOOLEAN,
   wasNot : BOOLEAN, spared : SUBSET People, refused : BOOLEAN]

\* Whom the operations are going to remove.
ToRemove(todo) == {u \in People : \E i \in DOMAIN todo : todo[i] = <<"remove", u>>}

\* A message that is handled, beside the room as it is: its sender is what the room says, and
\* was what its metadata say; a purge is going to remove everyone but the owner, the bot and
\* those who came since its metadata were taken; and it leaves last.
Proceeds(a, r) ==
  /\ a.at # "free" => /\ a.from \in People /\ a.cmd # "none"
                      /\ a.from \in r.admins => a.wasAdmin
                      /\ a.from \notin r.admins => a.wasNot
  /\ a.at \in {"answered", "judged"} => /\ a.from \in a.meta.admins => a.wasAdmin
                                        /\ a.from \notin a.meta.admins => a.wasNot
                                        /\ a.cmd = "purge" => r.members \subseteq a.meta.members \cup a.spared
  /\ a.at = "acting" <=> a.todo # <<>>
  /\ a.at = "acting" => /\ a.cmd = "link" => a.wasNot
                        /\ a.cmd # "link" => a.wasAdmin
                        /\ a.cmd = "purge" /\ ~a.refused =>
                             r.members \subseteq ToRemove(a.todo) \cup {Owner, Bot} \cup a.spared
                        /\ \A i \in DOMAIN a.todo : a.todo[i][1] = "leave" => a.cmd = "purge" /\ i = Len(a.todo)
  /\ a.cmd = "timer" => a.arg \in Minutes

\* A copy is the room, or a notice is due, or one overtook the copy.
CopiesOfTheRoom ==
  /\ metaCache # NoMeta => metaCache = room \/ notices > 0 \/ raced
  /\ \A h \in GroupHandlers : admin[h].at = "answered" => admin[h].meta = room \/ notices > 0 \/ raced

\* What setTimeout does not wait for.
Overlong == {m \in Nat : m > MaxDelay}

\* The registry knows every timer, and the one that locks is the last that was set, with the
\* minutes it was told of unless they were more than setTimeout waits for.
TimersKnown ==
  /\ armed \subseteq [kind : {"lock", "alert"}, left : Nat, known : {TRUE}]
  /\ \A t \in armed : t.kind = "lock" => t.left = counting \/ told \in Overlong
  /\ locks \in Nat /\ told \in Nat /\ counting \in Nat \cup {-1}
  /\ early \subseteq Overlong

RoomsInv ==
  /\ room \in Rooms /\ room.admins \subseteq room.members /\ metaCache \in Rooms /\ notices \in Nat
  /\ admin \in [GroupHandlers -> Handlings]
  /\ \A h \in GroupHandlers : Proceeds(admin[h], room)
  /\ CopiesOfTheRoom
  /\ emptied \subseteq {Owner}

GroupInv == RoomsInv /\ TimersKnown

LEMMA GroupConstants ==
  /\ IsFiniteSet(People) /\ Owner \in People /\ Bot \in People /\ Owner # Bot /\ Targets \subseteq People
  /\ Minutes \subseteq Nat /\ MaxDelay \in Nat /\ AlertEvery \in Nat
BY GroupAssumption DEF GroupAssumption

(* The operators of the group.                                             *)

LEMMA Demoted ==
  ASSUME NEW r \in Rooms, NEW u
  PROVE  LET x == [r EXCEPT !.admins = @ \ {u}]
         IN  x \in Rooms /\ x.admins = r.admins \ {u} /\ x.members = r.members
BY DEF Rooms

LEMMA Promoted ==
  ASSUME NEW r \in Rooms, NEW u \in People
  PROVE  LET x == [r EXCEPT !.admins = @ \cup {u}]
         IN  x \in Rooms /\ x.admins = r.admins \cup {u} /\ x.members = r.members
BY DEF Rooms

LEMMA Removed ==
  ASSUME NEW r \in Rooms, NEW u
  PROVE  LET x == [r EXCEPT !.admins = @ \ {u}, !.members = @ \ {u}]
         IN  x \in Rooms /\ x.admins = r.admins \ {u} /\ x.members = r.members \ {u}
BY DEF Rooms

LEMMA Joined ==
  ASSUME NEW r \in Rooms, NEW u \in People
  PROVE  LET x == [r EXCEPT !.members = @ \cup {u}]
         IN  x \in Rooms /\ x.admins = r.admins /\ x.members = r.members \cup {u}
BY DEF Rooms

LEMMA RoomClosed ==
  ASSUME NEW r \in Rooms, NEW c \in BOOLEAN
  PROVE  /\ [r EXCEPT !.closed = c] \in Rooms
         /\ [r EXCEPT !.closed = c].members = r.members
         /\ [r EXCEPT !.closed = c].admins = r.admins
BY DEF Rooms

LEMMA RoomTyped ==
  ASSUME NEW r \in Rooms
  PROVE  r.members \subseteq People /\ r.admins \subseteq People /\ r.closed \in BOOLEAN
BY DEF Rooms

\* What WhatsApp does is to the room of the bot: nobody comes by it.
LEMMA AfterProper ==
  ASSUME room \in Rooms, room.admins \subseteq room.members, NEW op, NEW u
  PROVE  /\ After(op, u) \in Rooms /\ After(op, u).admins \subseteq After(op, u).members
         /\ After(op, u).members \subseteq room.members
         /\ Left \in Rooms /\ Left.admins \subseteq Left.members
         /\ Left.members = room.members \ {Bot}
<1>t. room.members \subseteq People /\ room.admins \subseteq People
  BY RoomTyped
<1>1. Left \in Rooms /\ Left.admins = room.admins \ {Bot} /\ Left.members = room.members \ {Bot}
  BY <1>t, Removed DEF Left
<1>2. ASSUME NEW x \in {room, [room EXCEPT !.admins = @ \ {u}],
                        [room EXCEPT !.admins = @ \ {u}, !.members = @ \ {u}],
                        [room EXCEPT !.closed = FALSE], [room EXCEPT !.closed = TRUE]}
                       \cup (IF u \in room.members THEN {[room EXCEPT !.admins = @ \cup {u}]} ELSE {})
      PROVE  x \in Rooms /\ x.admins \subseteq x.members /\ x.members \subseteq room.members
  <2>1. CASE x = room
    BY <2>1
  <2>2. CASE x = [room EXCEPT !.admins = @ \ {u}]
    BY <1>t, <2>2, Demoted
  <2>3. CASE x = [room EXCEPT !.admins = @ \ {u}, !.members = @ \ {u}]
    BY <1>t, <2>3, Removed
  <2>4. CASE \E c \in BOOLEAN : x = [room EXCEPT !.closed = c]
    BY <2>4, RoomClosed
  <2>5. CASE u \in room.members /\ x = [room EXCEPT !.admins = @ \cup {u}]
    BY <1>t, <2>5, Promoted
  <2> QED
    BY <1>2, <2>1, <2>2, <2>3, <2>4, <2>5
<1>3. After(op, u) \in {room, [room EXCEPT !.admins = @ \ {u}],
                        [room EXCEPT !.admins = @ \ {u}, !.members = @ \ {u}],
                        [room EXCEPT !.closed = FALSE], [room EXCEPT !.closed = TRUE]}
                       \cup (IF u \in room.members THEN {[room EXCEPT !.admins = @ \cup {u}]} ELSE {})
  <2> DEFINE X == {room, [room EXCEPT !.admins = @ \ {u}], [room EXCEPT !.admins = @ \ {u}, !.members = @ \ {u}],
                   [room EXCEPT !.closed = FALSE], [room EXCEPT !.closed = TRUE]}
                  \cup (IF u \in room.members THEN {[room EXCEPT !.admins = @ \cup {u}]} ELSE {})
  <2>1. CASE Bot \notin room.admins
    BY <2>1 DEF After
  <2>2. CASE Bot \in room.admins /\ op = "promote" /\ u \in room.members
    BY <2>2 DEF After
  <2>3. CASE Bot \in room.admins /\ op = "demote" /\ u # Owner
    BY <2>3 DEF After
  <2>4. CASE Bot \in room.admins /\ op = "remove" /\ u # Owner
    BY <2>4 DEF After
  <2>5. CASE Bot \in room.admins /\ op = "open"
    BY <2>5 DEF After
  <2>6. CASE Bot \in room.admins /\ op = "close"
    BY <2>6 DEF After
  <2>7. CASE Bot \in room.admins /\ ~(op = "promote" /\ u \in room.members) /\ ~(op = "demote" /\ u # Owner)
             /\ ~(op = "remove" /\ u # Owner) /\ op # "open" /\ op # "close"
    BY <2>7 DEF After
  <2> QED
    BY <2>1, <2>2, <2>3, <2>4, <2>5, <2>6, <2>7
<1> QED
  BY <1>1, <1>2, <1>3

\* Each asks one operation for everyone.
LEMMA EachOne ==
  ASSUME NEW op \in OpNames, NEW users \in SUBSET People
  PROVE  /\ Each(op, users) \in Seq(Operations)
         /\ \A i \in DOMAIN Each(op, users) : Each(op, users)[i][1] = op
         /\ \A u \in users : \E i \in DOMAIN Each(op, users) : Each(op, users)[i] = <<op, u>>
<1> DEFINE N == Cardinality(users)
           f == SetToSeq(users)
<1>1. IsFiniteSet(users) /\ N \in Nat /\ ExistsBijection(1 .. N, users)
  BY GroupConstants, FS_Subset, FS_CardinalityType
<1>2. f \in [1 .. N -> users] /\ IsInjective(f)
  <2>1. \E g \in [1 .. N -> users] : IsInjective(g)
    BY <1>1 DEF ExistsBijection, Bijection, Injection
  <2> QED
    BY <2>1 DEF SetToSeq
<1>3. \A u \in users : \E i \in 1 .. N : f[i] = u
  <2>1. f \in Injection(1 .. N, users)
    BY <1>2 DEF Injection
  <2>2. IsFiniteSet(1 .. N) /\ Cardinality(1 .. N) = N
    <3>1. Cardinality(1 .. N) = IF 1 > N THEN 0 ELSE N - 1 + 1
      BY <1>1, FS_Interval
    <3> QED
      BY <1>1, <3>1, FS_Interval
  <2>3. Cardinality(1 .. N) = Cardinality(users)
    BY <2>2
  <2>4. f \in Surjection(1 .. N, users)
    BY <1>1, <2>1, <2>3, FS_Injection
  <2> QED
    BY <2>4 DEF Surjection
<1> HIDE DEF N, f
<1>4. Each(op, users) = [i \in 1 .. N |-> <<op, f[i]>>]
  BY DEF Each, N, f
<1>5. \A i \in 1 .. N : <<op, f[i]>> \in Operations
  BY <1>2 DEF Operations, Args
<1>6. Each(op, users) \in [1 .. N -> Operations]
  BY <1>4, <1>5
<1>7. Each(op, users) \in Seq(Operations)
  BY <1>1, <1>6, SeqDef
<1>8. \A u \in users : \E i \in 1 .. N : Each(op, users)[i] = <<op, u>>
  BY <1>3, <1>4
<1>9. DOMAIN Each(op, users) = 1 .. N /\ \A i \in 1 .. N : Each(op, users)[i][1] = op
  BY <1>4
<1> QED
  BY <1>7, <1>8, <1>9

LEMMA FreeProper ==
  /\ Free \in Handlings /\ Free.at = "free" /\ Free.meta = NoMeta
  /\ \A r : Proceeds(Free, r)
<1>1. NoMeta \in Rooms
  BY DEF NoMeta, Rooms
<1>2. <<>> \in Seq(Operations)
  OBVIOUS
<1>3. Free \in Handlings
  BY <1>1, <1>2 DEF Free, Handlings, Args
<1>4. Free.at = "free" /\ Free.todo = <<>> /\ Free.cmd = "none" /\ Free.meta = NoMeta
  BY DEF Free
<1> QED
  BY <1>3, <1>4 DEF Proceeds

\* The messages follow the room, if r is the room but for those who are gone from it.
LEMMA WatchedKeeps ==
  ASSUME NEW a \in Handlings, NEW new \in Rooms, NEW r, Proceeds(a, r),
         new.members \subseteq r.members \cup (new.members \ room.members)
  PROVE  LET w == Watched(a, new)
         IN  /\ w \in Handlings /\ Proceeds(w, new)
             /\ w.at = "answered" => a.at = "answered" /\ w.meta = a.meta
<1>1. CASE a.at = "free"
  BY <1>1, FreeProper DEF Watched
<1>2. CASE a.at # "free"
  <2> DEFINE p == a.wasAdmin \/ a.from \in new.admins
             q == a.wasNot \/ a.from \notin new.admins
             S == IF a.cmd = "purge" THEN a.spared \cup (new.members \ room.members) ELSE {}
             w == [a EXCEPT !.wasAdmin = p, !.wasNot = q, !.spared = S]
  <2>1. Watched(a, new) = w
    BY <1>2 DEF Watched
  <2>2. p \in BOOLEAN /\ q \in BOOLEAN
    OBVIOUS
  <2>3. S \subseteq People
    BY RoomTyped DEF Handlings
  <2>4. (a.wasAdmin => p) /\ (a.from \in new.admins => p) /\ (a.wasNot => q) /\ (a.from \notin new.admins => q)
    OBVIOUS
  <2>5. a.cmd = "purge" => \A X : r.members \subseteq X \cup a.spared => new.members \subseteq X \cup S
    OBVIOUS
  <2> HIDE DEF p, q, S
  <2>6. /\ w \in Handlings /\ w.at = a.at /\ w.cmd = a.cmd /\ w.arg = a.arg /\ w.from = a.from
        /\ w.meta = a.meta /\ w.todo = a.todo /\ w.refused = a.refused
        /\ w.wasAdmin = p /\ w.wasNot = q /\ w.spared = S
    <3>1. a \in Handlings /\ p \in BOOLEAN /\ q \in BOOLEAN /\ S \in SUBSET People
      BY <2>2, <2>3
    <3> QED
      BY <3>1 DEF Handlings
  <2> HIDE DEF w
  <2>7. Proceeds(w, new)
    <3>1. /\ w.from \in People /\ w.cmd # "none"
          /\ w.from \in new.admins => w.wasAdmin
          /\ w.from \notin new.admins => w.wasNot
      BY <1>2, <2>4, <2>6 DEF Proceeds
    <3>2. w.at \in {"answered", "judged"} => /\ w.from \in w.meta.admins => w.wasAdmin
                                             /\ w.from \notin w.meta.admins => w.wasNot
                                             /\ w.cmd = "purge" => new.members \subseteq w.meta.members \cup w.spared
      BY <2>4, <2>5, <2>6 DEF Proceeds
    <3>3. w.at = "acting" =>
            /\ w.cmd = "link" => w.wasNot
            /\ w.cmd # "link" => w.wasAdmin
            /\ \A i \in DOMAIN w.todo : w.todo[i][1] = "leave" => w.cmd = "purge" /\ i = Len(w.todo)
      BY <2>4, <2>6 DEF Proceeds
    <3>4. w.at = "acting" /\ w.cmd = "purge" /\ ~w.refused =>
             new.members \subseteq ToRemove(w.todo) \cup {Owner, Bot} \cup w.spared
      BY <2>5, <2>6 DEF Proceeds
    <3> QED
      BY <2>6, <3>1, <3>2, <3>3, <3>4 DEF Proceeds
  <2> QED
    BY <2>1, <2>6, <2>7
<1> QED
  BY <1>1, <1>2

\* What the commands ask for: a purge asks for the removal of everyone, and to leave.
LEMMA AsksProper ==
  ASSUME NEW a \in Handlings, a.cmd \in {"promote", "demote", "remove", "close", "open", "purge"}
  PROVE  LET t == Asks(a.cmd, a.arg, a.from, a.meta)
         IN  /\ t \in Seq(Operations)
             /\ \A i \in DOMAIN t : t[i][1] = "leave" => a.cmd = "purge" /\ i = Len(t)
             /\ a.cmd = "purge" /\ t # <<>> => a.meta.members \subseteq ToRemove(t) \cup {Owner, Bot}
<1> DEFINE m == a.meta
           t == Asks(a.cmd, a.arg, a.from, m)
<1>1. m \in Rooms /\ a.arg \in Args /\ m.members \subseteq People /\ m.admins \subseteq People
  BY RoomTyped DEF Handlings
<1>2. CASE a.cmd # "purge"
  <2>1. t = <<>> \/ t = <<<<a.cmd, a.arg>>>> \/ t = <<<<a.cmd, "none">>>>
    <3>1. CASE a.cmd = "promote"
      BY <3>1 DEF Asks, Promotion
    <3>2. CASE a.cmd = "demote"
      BY <3>2 DEF Asks, Demotion
    <3>3. CASE a.cmd = "remove"
      BY <3>3 DEF Asks, Removal
    <3>4. CASE a.cmd = "close"
      BY <3>4 DEF Asks, Closing
    <3>5. CASE a.cmd = "open"
      BY <3>5 DEF Asks, Opening
    <3> QED
      BY <1>2, <3>1, <3>2, <3>3, <3>4, <3>5
  <2>2. ASSUME NEW x \in Args, t = <<<<a.cmd, x>>>> PROVE t \in Seq(Operations) /\ t[1][1] = a.cmd /\ DOMAIN t = {1}
    <3>1. a.cmd \in OpNames
      BY <1>2 DEF OpNames, OnUser
    <3>2. <<a.cmd, x>> \in Operations
      BY <3>1 DEF Operations
    <3> HIDE DEF t
    <3>3. t[1] = <<a.cmd, x>> /\ DOMAIN t = 1 .. 1 /\ t \in Seq(Operations)
      BY <2>2, <3>2
    <3> QED
      BY <3>3
  <2>3. a.cmd # "leave" /\ "none" \in Args /\ <<>> \in Seq(Operations) /\ DOMAIN <<>> = {}
    BY DEF Args
  <2> HIDE DEF t
  <2>4. t = <<>> \/ (t \in Seq(Operations) /\ t[1][1] = a.cmd /\ DOMAIN t = {1})
    BY <1>1, <2>1, <2>2, <2>3
  <2>5. t \in Seq(Operations) /\ \A i \in DOMAIN t : t[i][1] # "leave"
    BY <2>3, <2>4
  <2> QED
    BY <1>2, <2>5 DEF t
<1>3. CASE a.cmd = "purge"
  <2> DEFINE A == m.members \ m.admins
             B == m.admins \ {Owner, Bot}
             E == Each("remove", A)
             F == Each("remove", B)
             R == E \o F
             L == <<<<"leave", "none">>>>
  <2>1. t = <<>> \/ t = R \o L
    BY <1>3 DEF Asks, Purge, Removals
  <2>2. CASE t = <<>>
    BY <2>2
  <2>3. CASE t = R \o L
    <3>1. /\ E \in Seq(Operations) /\ \A i \in DOMAIN E : E[i][1] = "remove"
          /\ \A u \in A : \E i \in DOMAIN E : E[i] = <<"remove", u>>
      <4>1. A \in SUBSET People /\ "remove" \in OpNames
        BY <1>1 DEF OpNames, OnUser
      <4> HIDE DEF A
      <4> QED
        BY <4>1, EachOne
    <3>2. /\ F \in Seq(Operations) /\ \A i \in DOMAIN F : F[i][1] = "remove"
          /\ \A u \in B : \E i \in DOMAIN F : F[i] = <<"remove", u>>
      <4>1. B \in SUBSET People /\ "remove" \in OpNames
        BY <1>1 DEF OpNames, OnUser
      <4> HIDE DEF B
      <4> QED
        BY <4>1, EachOne
    <3> HIDE DEF E, F
    <3>3. L \in Seq(Operations) /\ Len(L) = 1 /\ L[1] = <<"leave", "none">>
      <4>1. "leave" \in OpNames /\ "none" \in Args
        BY DEF Args, OpNames
      <4>2. <<"leave", "none">> \in Operations
        BY <4>1 DEF Operations
      <4> QED
        BY <4>2
    <3>4. /\ R \in Seq(Operations) /\ Len(R) = Len(E) + Len(F)
          /\ \A i \in 1 .. Len(E) : R[i] = E[i]
          /\ \A i \in 1 .. Len(F) : R[Len(E) + i] = F[i]
          /\ \A i \in 1 .. Len(R) : R[i][1] = "remove"
      <4>1. R \in Seq(Operations) /\ Len(R) = Len(E) + Len(F)
            /\ \A i \in 1 .. Len(R) : R[i] = IF i <= Len(E) THEN E[i] ELSE F[i - Len(E)]
        BY <3>1, <3>2, ConcatProperties
      <4>2. Len(E) \in Nat /\ Len(F) \in Nat /\ DOMAIN E = 1 .. Len(E) /\ DOMAIN F = 1 .. Len(F)
        BY <3>1, <3>2
      <4> HIDE DEF R
      <4>3. ASSUME NEW i \in 1 .. Len(R) PROVE R[i][1] = "remove"
        <5>1. CASE i <= Len(E)
          <6>1. i \in DOMAIN E /\ R[i] = E[i]
            BY <4>1, <4>2, <5>1
          <6> QED
            BY <3>1, <6>1
        <5>2. CASE ~(i <= Len(E))
          <6>1. i - Len(E) \in DOMAIN F /\ R[i] = F[i - Len(E)]
            BY <4>1, <4>2, <5>2
          <6> QED
            BY <3>2, <6>1
        <5> QED
          BY <5>1, <5>2
      <4> QED
        BY <4>1, <4>2, <4>3
    <3> HIDE DEF R, L
    <3>5. /\ t \in Seq(Operations) /\ Len(t) = Len(R) + 1
          /\ \A i \in 1 .. Len(R) : t[i] = R[i]
          /\ t[Len(R) + 1] = <<"leave", "none">>
      <4>1. R \o L \in Seq(Operations) /\ Len(R \o L) = Len(R) + Len(L)
            /\ \A i \in 1 .. Len(R) + Len(L) : (R \o L)[i] = IF i <= Len(R) THEN R[i] ELSE L[i - Len(R)]
        BY <3>3, <3>4, ConcatProperties
      <4>2. Len(R) \in Nat
        BY <3>4
      <4> QED
        BY <2>3, <3>3, <4>1, <4>2
    <3> HIDE DEF t
    <3>6. Len(E) \in Nat /\ Len(F) \in Nat /\ Len(R) \in Nat /\ DOMAIN t = 1 .. Len(R) + 1
          /\ DOMAIN E = 1 .. Len(E) /\ DOMAIN F = 1 .. Len(F)
      BY <3>1, <3>2, <3>4, <3>5
    <3>7. \A i \in DOMAIN t : t[i][1] = "leave" => i = Len(t)
      BY <3>4, <3>5, <3>6
    <3>8. \A u \in A \cup B : u \in ToRemove(t)
      <4>1. ASSUME NEW u \in A PROVE u \in ToRemove(t)
        <5>1. PICK i \in 1 .. Len(E) : E[i] = <<"remove", u>>
          BY <3>1, <3>6
        <5>2. i \in 1 .. Len(R) /\ i \in DOMAIN t
          BY <3>4, <3>6
        <5>3. t[i] = <<"remove", u>>
          BY <3>4, <3>5, <5>1, <5>2
        <5> QED
          BY <1>1, <5>2, <5>3 DEF ToRemove
      <4>2. ASSUME NEW u \in B PROVE u \in ToRemove(t)
        <5>1. PICK i \in 1 .. Len(F) : F[i] = <<"remove", u>>
          BY <3>2, <3>6
        <5>2. Len(E) + i \in 1 .. Len(R) /\ Len(E) + i \in DOMAIN t
          BY <3>4, <3>6
        <5>3. t[Len(E) + i] = <<"remove", u>>
          BY <3>4, <3>5, <5>1, <5>2
        <5> QED
          BY <1>1, <5>2, <5>3 DEF ToRemove
      <4> QED
        BY <4>1, <4>2
    <3>9. m.members \subseteq A \cup B \cup {Owner, Bot}
      OBVIOUS
    <3> QED
      BY <1>3, <3>5, <3>7, <3>8, <3>9 DEF t
  <2> QED
    BY <2>1, <2>2, <2>3
<1> QED
  BY <1>2, <1>3

\* A step that changes the room.
LEMMA BecomesKeeps ==
  ASSUME RoomsInv, NEW new \in Rooms, new.admins \subseteq new.members,
         NEW as \in [GroupHandlers -> Handlings],
         \A h \in GroupHandlers :
           \/ as[h] = admin[h]
           \/ \E r : /\ Proceeds(as[h], r) /\ as[h].at # "answered"
                    /\ new.members \subseteq r.members \cup (new.members \ room.members),
         Becomes(new, as), UNCHANGED <<metaCache, raced>>, emptied' \subseteq {Owner}
  PROVE  RoomsInv'
<1>1. /\ room' = new /\ notices' = (IF new = room THEN notices ELSE notices + 1)
      /\ admin' = [h \in GroupHandlers |-> Watched(as[h], new)]
  BY DEF Becomes
<1>2. room \in Rooms /\ metaCache \in Rooms /\ notices \in Nat
  BY DEF RoomsInv
<1>3. \A h \in GroupHandlers : /\ Watched(as[h], new) \in Handlings /\ Proceeds(Watched(as[h], new), new)
                               /\ Watched(as[h], new).at = "answered" =>
                                    admin[h].at = "answered" /\ Watched(as[h], new).meta = admin[h].meta
  <2> SUFFICES ASSUME NEW h \in GroupHandlers
               PROVE  /\ Watched(as[h], new) \in Handlings /\ Proceeds(Watched(as[h], new), new)
                      /\ Watched(as[h], new).at = "answered" =>
                           admin[h].at = "answered" /\ Watched(as[h], new).meta = admin[h].meta
    OBVIOUS
  <2>1. PICK r : /\ Proceeds(as[h], r) /\ new.members \subseteq r.members \cup (new.members \ room.members)
                 /\ as[h].at = "answered" => as[h] = admin[h]
    <3>1. CASE as[h] = admin[h]
      <4>1. Proceeds(as[h], room)
        BY <3>1 DEF RoomsInv
      <4>2. new.members \subseteq room.members \cup (new.members \ room.members)
        OBVIOUS
      <4> QED
        BY <3>1, <4>1, <4>2
    <3> QED
      BY <3>1
  <2>2. as[h] \in Handlings
    OBVIOUS
  <2> QED
    BY <2>1, <2>2, WatchedKeeps
<1>4. \A h \in GroupHandlers : admin'[h] = Watched(as[h], new)
  BY <1>1
<1>5. admin' \in [GroupHandlers -> Handlings]
  BY <1>1, <1>3
<1>6. notices' \in Nat /\ (room' = room \/ notices' > 0) /\ (notices > 0 => notices' > 0)
  BY <1>1, <1>2
<1>7. CopiesOfTheRoom'
  <2>1. metaCache' # NoMeta => metaCache' = room' \/ notices' > 0 \/ raced'
    BY <1>6 DEF RoomsInv, CopiesOfTheRoom
  <2>2. ASSUME NEW h \in GroupHandlers, admin'[h].at = "answered"
        PROVE  admin'[h].meta = room' \/ notices' > 0 \/ raced'
    <3>1. admin[h].at = "answered" /\ admin'[h].meta = admin[h].meta
      BY <1>3, <1>4, <2>2
    <3>2. admin[h].meta = room \/ notices > 0 \/ raced
      BY <3>1 DEF RoomsInv, CopiesOfTheRoom
    <3> QED
      BY <1>6, <3>1, <3>2
  <2> QED
    BY <2>1, <2>2 DEF CopiesOfTheRoom
<1>8. \A h \in GroupHandlers : Proceeds(admin'[h], room')
  BY <1>1, <1>3, <1>4
<1> QED
  BY <1>1, <1>2, <1>5, <1>6, <1>7, <1>8 DEF RoomsInv

\* A step of one message that leaves the room.
LEMMA HandlerKeeps ==
  ASSUME RoomsInv, NEW h \in GroupHandlers, NEW x \in Handlings, Proceeds(x, room),
         admin' = [admin EXCEPT ![h] = x], UNCHANGED <<room, notices, raced, emptied>>,
         x.at = "answered" => x.meta = room,
         metaCache' = metaCache \/ (admin[h].at = "answered" /\ metaCache' = admin[h].meta)
  PROVE  RoomsInv'
<1>1. /\ room \in Rooms /\ room.admins \subseteq room.members /\ metaCache \in Rooms /\ notices \in Nat
      /\ admin \in [GroupHandlers -> Handlings] /\ emptied \subseteq {Owner}
      /\ \A g \in GroupHandlers : Proceeds(admin[g], room)
  BY DEF RoomsInv
<1>2. admin' \in [GroupHandlers -> Handlings] /\ \A g \in GroupHandlers : admin'[g] = IF g = h THEN x ELSE admin[g]
  BY <1>1
<1>3. \A g \in GroupHandlers : Proceeds(admin'[g], room')
  BY <1>1, <1>2
<1>4. metaCache' \in Rooms
  BY <1>1 DEF Handlings
<1>5. CopiesOfTheRoom'
  BY <1>2 DEF RoomsInv, CopiesOfTheRoom
<1> QED
  BY <1>1, <1>2, <1>3, <1>4, <1>5 DEF RoomsInv

LEMMA ReceiveKeeps ==
  ASSUME RoomsInv, NEW h \in GroupHandlers, NEW cmd \in Cmds \cup {"link"}, NEW arg \in Args,
         NEW u \in People, cmd = "timer" => arg \in Minutes, Receive(h, cmd, arg, u)
  PROVE  RoomsInv'
<1> DEFINE stale  == metaCache # NoMeta /\ metaCache # room
           where  == IF metaCache = NoMeta THEN "asked" ELSE "judged"
           was    == stale \/ u \in room.admins
           wasnt  == stale \/ u \notin room.admins
           spared == IF cmd = "purge" THEN room.members \ metaCache.members ELSE {}
           x == [Free EXCEPT !.at = where, !.cmd = cmd, !.arg = arg, !.from = u, !.meta = metaCache,
                             !.wasAdmin = was, !.wasNot = wasnt, !.spared = spared]
<1>1. admin' = [admin EXCEPT ![h] = x] /\ UNCHANGED <<room, notices, metaCache, raced, emptied>>
  BY DEF Receive
<1>2. room \in Rooms /\ metaCache \in Rooms /\ room.members \subseteq People
  BY RoomTyped DEF RoomsInv
<1>3. was \in BOOLEAN /\ wasnt \in BOOLEAN /\ spared \subseteq People /\ where \in {"asked", "judged"}
  BY <1>2
<1>4. /\ u \in room.admins => was
      /\ u \notin room.admins => wasnt
      /\ where = "judged" => /\ u \in metaCache.admins => was
                             /\ u \notin metaCache.admins => wasnt
      /\ cmd = "purge" => room.members \subseteq metaCache.members \cup spared
  OBVIOUS
<1> HIDE DEF was, wasnt, spared, where
<1>5. Free \in Handlings /\ Free.todo = <<>>
  BY FreeProper DEF Free
<1>6. /\ x \in Handlings /\ x.at = where /\ x.cmd = cmd /\ x.arg = arg /\ x.from = u /\ x.meta = metaCache
      /\ x.todo = <<>> /\ x.wasAdmin = was /\ x.wasNot = wasnt /\ x.spared = spared
  BY <1>2, <1>3, <1>5 DEF Handlings
<1> HIDE DEF x
<1>7. Proceeds(x, room)
  <2>1. cmd # "none"
    BY DEF Cmds, OnUser
  <2> QED
    BY <1>3, <1>4, <1>6, <2>1 DEF Proceeds
<1> QED
  BY <1>1, <1>3, <1>6, <1>7, HandlerKeeps

LEMMA AnswersKeep ==
  ASSUME RoomsInv, NEW h \in GroupHandlers, Answer(h) \/ NoAnswer(h) \/ Arrive(h)
  PROVE  RoomsInv'
<1> DEFINE a == admin[h]
<1>0. a \in Handlings /\ Proceeds(a, room) /\ admin \in [GroupHandlers -> Handlings] /\ room \in Rooms
  BY DEF RoomsInv
<1>1. CASE Answer(h)
  <2> DEFINE x == [a EXCEPT !.at = "answered", !.meta = room, !.spared = {}]
  <2>1. a.at = "asked" /\ admin' = [admin EXCEPT ![h] = x]
        /\ UNCHANGED <<room, notices, metaCache, raced, emptied>>
    BY <1>0, <1>1 DEF Answer
  <2>2. /\ x \in Handlings /\ x.at = "answered" /\ x.meta = room /\ x.spared = {} /\ x.cmd = a.cmd
        /\ x.arg = a.arg /\ x.from = a.from /\ x.todo = a.todo /\ x.wasAdmin = a.wasAdmin /\ x.wasNot = a.wasNot
    BY <1>0 DEF Handlings
  <2> HIDE DEF x
  <2>3. Proceeds(x, room)
    BY <1>0, <2>1, <2>2 DEF Proceeds
  <2> QED
    BY <2>1, <2>2, <2>3, HandlerKeeps
<1>2. CASE NoAnswer(h)
  BY <1>2, FreeProper, HandlerKeeps DEF NoAnswer
<1>3. CASE Arrive(h)
  <2> DEFINE x == [a EXCEPT !.at = "judged"]
  <2>1. a.at = "answered" /\ metaCache' = a.meta /\ admin' = [admin EXCEPT ![h] = x]
        /\ UNCHANGED <<room, notices, raced, emptied>>
    BY <1>0, <1>3 DEF Arrive
  <2>2. /\ x \in Handlings /\ x.at = "judged" /\ x.meta = a.meta /\ x.spared = a.spared /\ x.cmd = a.cmd
        /\ x.arg = a.arg /\ x.from = a.from /\ x.todo = a.todo /\ x.wasAdmin = a.wasAdmin /\ x.wasNot = a.wasNot
    BY <1>0 DEF Handlings
  <2> HIDE DEF x
  <2>3. Proceeds(x, room)
    BY <1>0, <2>1, <2>2 DEF Proceeds
  <2> QED
    BY <2>1, <2>2, <2>3, HandlerKeeps
<1> QED
  BY <1>1, <1>2, <1>3

\* A command begins: what it asks for is what its metadata warrant.
LEMMA BeginsKeep ==
  ASSUME RoomsInv, NEW h \in GroupHandlers, Act(h) \/ Moderate(h)
  PROVE  RoomsInv'
<1> DEFINE a == admin[h]
<1>0. a \in Handlings /\ Proceeds(a, room) /\ admin \in [GroupHandlers -> Handlings] /\ room \in Rooms
  BY DEF RoomsInv
<1>1. a.at = "judged" /\ UNCHANGED <<room, notices, metaCache, raced, emptied>>
  BY DEF Act, Moderate, timerVars
<1>2. CASE admin' = [admin EXCEPT ![h] = Free]
  BY <1>1, <1>2, FreeProper, HandlerKeeps
<1>3. ASSUME NEW t \in Seq(Operations), t # <<>>, admin' = [admin EXCEPT ![h].at = "acting", ![h].todo = t],
             a.cmd = "link" => a.wasNot, a.cmd # "link" => a.wasAdmin,
             \A i \in DOMAIN t : t[i][1] = "leave" => a.cmd = "purge" /\ i = Len(t),
             a.cmd = "purge" => a.meta.members \subseteq ToRemove(t) \cup {Owner, Bot}
      PROVE  RoomsInv'
  <2> DEFINE x == [a EXCEPT !.at = "acting", !.todo = t]
  <2>1. admin' = [admin EXCEPT ![h] = x]
    BY <1>0, <1>3
  <2>2. /\ x \in Handlings /\ x.at = "acting" /\ x.meta = a.meta /\ x.spared = a.spared /\ x.cmd = a.cmd
        /\ x.arg = a.arg /\ x.from = a.from /\ x.todo = t /\ x.wasAdmin = a.wasAdmin /\ x.wasNot = a.wasNot
    BY <1>0 DEF Handlings
  <2> HIDE DEF x
  <2>3. a.cmd = "purge" => room.members \subseteq ToRemove(t) \cup {Owner, Bot} \cup a.spared
    BY <1>0, <1>1, <1>3 DEF Proceeds
  <2>4. Proceeds(x, room)
    BY <1>0, <1>1, <1>3, <2>2, <2>3 DEF Proceeds
  <2> QED
    BY <1>1, <2>1, <2>2, <2>4, HandlerKeeps
<1>4. CASE Act(h)
  <2> DEFINE t == Asks(a.cmd, a.arg, a.from, a.meta)
  <2>1. a.cmd \notin {"link", "timer", "end"}
        /\ admin' = Doing(h, IF SenderIsAdmin(h) /\ IsBotAdmin(h) THEN t ELSE <<>>)
    BY <1>4 DEF Act
  <2>2. a.cmd \in {"promote", "demote", "remove", "close", "open", "purge"}
    BY <1>0, <1>1, <2>1 DEF Handlings, Proceeds, Cmds, OnUser
  <2>3. /\ t \in Seq(Operations)
        /\ \A i \in DOMAIN t : t[i][1] = "leave" => a.cmd = "purge" /\ i = Len(t)
        /\ a.cmd = "purge" /\ t # <<>> => a.meta.members \subseteq ToRemove(t) \cup {Owner, Bot}
    BY <1>0, <2>2, AsksProper
  <2> HIDE DEF t
  <2>4. CASE SenderIsAdmin(h) /\ IsBotAdmin(h) /\ t # <<>>
    <3>1. a.from \in a.meta.admins
      BY <2>4 DEF SenderIsAdmin
    <3>2. a.wasAdmin /\ a.cmd # "link"
      BY <1>0, <1>1, <2>2, <3>1 DEF Proceeds
    <3>3. admin' = [admin EXCEPT ![h].at = "acting", ![h].todo = t]
      BY <2>1, <2>4 DEF Doing
    <3> QED
      BY <1>3, <2>3, <2>4, <3>2, <3>3
  <2>5. CASE ~(SenderIsAdmin(h) /\ IsBotAdmin(h) /\ t # <<>>)
    BY <1>2, <2>1, <2>5 DEF Doing
  <2> QED
    BY <2>4, <2>5
<1>5. CASE Moderate(h)
  <2> DEFINE t == <<<<"remove", a.from>>>>
  <2>1. a.cmd = "link" /\ admin' = Doing(h, IF IsBotAdmin(h) /\ ~SenderIsAdmin(h) THEN t ELSE <<>>)
    BY <1>5 DEF Moderate
  <2>2. <<"remove", a.from>> \in Operations
    BY <1>0, <1>1 DEF Proceeds, Operations, OpNames, OnUser, Args
  <2>3. t \in Seq(Operations) /\ t # <<>> /\ \A i \in DOMAIN t : t[i][1] # "leave"
    BY <2>2
  <2> HIDE DEF t
  <2>4. CASE IsBotAdmin(h) /\ ~SenderIsAdmin(h)
    <3>1. a.from \notin a.meta.admins
      BY <2>4 DEF SenderIsAdmin
    <3>2. a.wasNot
      BY <1>0, <1>1, <3>1 DEF Proceeds
    <3>3. admin' = [admin EXCEPT ![h].at = "acting", ![h].todo = t]
      BY <2>1, <2>3, <2>4 DEF Doing
    <3> QED
      BY <1>3, <2>1, <2>3, <3>2, <3>3
  <2>5. CASE ~(IsBotAdmin(h) /\ ~SenderIsAdmin(h))
    BY <1>2, <2>1, <2>5 DEF Doing
  <2> QED
    BY <2>4, <2>5
<1> QED
  BY <1>4, <1>5

LEMMA RoomChangesKeep ==
  ASSUME RoomsInv, ChangedByPeople \/ Lock
  PROVE  RoomsInv'
<1>0. /\ room \in Rooms /\ room.admins \subseteq room.members /\ admin \in [GroupHandlers -> Handlings]
      /\ room.members \subseteq People /\ room.admins \subseteq People /\ room.closed \in BOOLEAN
      /\ emptied \subseteq {Owner}
  BY RoomTyped DEF RoomsInv
<1>1. UNCHANGED <<metaCache, raced, emptied>>
  BY DEF ChangedByPeople, Lock
<1>2. \E new \in Rooms : new.admins \subseteq new.members /\ Becomes(new, admin)
  <2>1. CASE ChangedByPeople
    <3>1. PICK new \in {[room EXCEPT !.closed = ~@]}
                  \cup {[room EXCEPT !.admins = @ \cup {u}] : u \in room.members}
                  \cup {[room EXCEPT !.admins = @ \ {u}] : u \in room.admins \ {Owner}}
                  \cup {[room EXCEPT !.admins = @ \ {u}, !.members = @ \ {u}] : u \in room.members \ {Owner, Bot}}
                  \cup {[room EXCEPT !.members = @ \cup {u}] : u \in People \ room.members} :
             Becomes(new, admin)
      BY <2>1 DEF ChangedByPeople
    <3>2. new \in Rooms /\ new.admins \subseteq new.members
      <4>1. CASE new = [room EXCEPT !.closed = ~@]
        <5>1. PICK c \in BOOLEAN : new = [room EXCEPT !.closed = c]
          BY <4>1
        <5> QED
          BY <1>0, <5>1, RoomClosed
      <4>2. CASE new \in {[room EXCEPT !.admins = @ \cup {u}] : u \in room.members}
        <5>1. PICK u \in room.members : new = [room EXCEPT !.admins = @ \cup {u}]
          BY <4>2
        <5>2. u \in People
          BY <1>0, <5>1
        <5>3. new \in Rooms /\ new.admins = room.admins \cup {u} /\ new.members = room.members
          BY <1>0, <5>1, <5>2, Promoted
        <5> QED
          BY <1>0, <5>1, <5>3
      <4>3. CASE new \in {[room EXCEPT !.admins = @ \ {u}] : u \in room.admins \ {Owner}}
        <5>1. PICK u \in room.admins \ {Owner} : new = [room EXCEPT !.admins = @ \ {u}]
          BY <4>3
        <5> QED
          BY <1>0, <5>1, Demoted
      <4>4. CASE new \in {[room EXCEPT !.admins = @ \ {u}, !.members = @ \ {u}] : u \in room.members \ {Owner, Bot}}
        <5>1. PICK u \in room.members \ {Owner, Bot} :
                     new = [room EXCEPT !.admins = @ \ {u}, !.members = @ \ {u}]
          BY <4>4
        <5> QED
          BY <1>0, <5>1, Removed
      <4>5. CASE new \in {[room EXCEPT !.members = @ \cup {u}] : u \in People \ room.members}
        <5>1. PICK u \in People \ room.members : new = [room EXCEPT !.members = @ \cup {u}]
          BY <4>5
        <5> QED
          BY <1>0, <5>1, Joined
      <4> QED
        BY <3>1, <4>1, <4>2, <4>3, <4>4, <4>5
    <3> QED
      BY <3>1, <3>2
  <2>2. CASE Lock
    BY <1>0, <2>2, AfterProper DEF Lock
  <2> QED
    BY <2>1, <2>2
<1> QED
  BY <1>0, <1>1, <1>2, BecomesKeeps

\* The copy is dropped.
LEMMA NoticesKeep ==
  ASSUME RoomsInv, HandleGroupUpdate \/ MetadataExpires
  PROVE  RoomsInv'
<1>0. /\ metaCache' = NoMeta /\ UNCHANGED <<room, admin, emptied>>
      /\ UNCHANGED notices \/ (notices > 0 /\ notices' = notices - 1)
  BY DEF HandleGroupUpdate, MetadataExpires, Dropped
<1>1. notices' \in Nat
  BY <1>0 DEF RoomsInv
<1>4. ASSUME NEW h \in GroupHandlers, admin[h].at = "answered" PROVE raced'
  BY <1>4, Zenon DEF HandleGroupUpdate, MetadataExpires
<1>2. NoMeta \in Rooms
  BY DEF NoMeta, Rooms
<1>3. CopiesOfTheRoom'
  BY <1>0, <1>4 DEF CopiesOfTheRoom
<1> QED
  BY <1>0, <1>1, <1>2, <1>3 DEF RoomsInv

\* A call to WhatsApp, for a purge the removal of one more, or its end.
LEMMA CallKeeps ==
  ASSUME RoomsInv, NEW h \in GroupHandlers, Call(h)
  PROVE  RoomsInv'
<1> DEFINE a    == admin[h]
           op   == Head(a.todo)
           rest == Tail(a.todo)
           next == [a EXCEPT !.at = IF rest = <<>> THEN "free" ELSE "acting", !.todo = rest]
           done(new) == IF rest = <<>> THEN Free ELSE [next EXCEPT !.refused = @ \/ op[2] \in new.members]
<1>0. /\ a \in Handlings /\ Proceeds(a, room) /\ admin \in [GroupHandlers -> Handlings]
      /\ room \in Rooms /\ room.admins \subseteq room.members /\ emptied \subseteq {Owner}
  BY DEF RoomsInv
<1>1. PICK new \in {room, IF op[1] = "leave" THEN Left ELSE After(op[1], op[2])} :
         /\ Becomes(new, [admin EXCEPT ![h] = done(new)])
         /\ emptied' = IF op[1] = "leave" /\ new = Left /\ ~a.refused THEN new.members \ a.spared ELSE emptied
  BY DEF Call
<1>2. a.at = "acting" /\ UNCHANGED <<metaCache, raced>>
  BY DEF Call
<1>3. new \in Rooms /\ new.admins \subseteq new.members /\ new.members \subseteq room.members
  BY <1>0, <1>1, AfterProper
<1>4. /\ a.todo \in Seq(Operations) /\ a.todo # <<>> /\ op = a.todo[1] /\ Len(a.todo) \in Nat /\ Len(a.todo) >= 1
      /\ rest \in Seq(Operations) /\ Len(rest) = Len(a.todo) - 1
      /\ DOMAIN a.todo = 1 .. Len(a.todo) /\ DOMAIN rest = 1 .. Len(a.todo) - 1
      /\ \A i \in 1 .. Len(a.todo) - 1 : rest[i] = a.todo[i + 1]
  <2>1. a.todo \in Seq(Operations) /\ a.todo # <<>>
    BY <1>0, <1>2 DEF Proceeds, Handlings
  <2> QED
    BY <2>1, HeadTailProperties
<1> HIDE DEF rest, op
\* What is still to be removed.
<1>5. \A u \in ToRemove(a.todo) : op = <<"remove", u>> \/ u \in ToRemove(rest)
  <2> SUFFICES ASSUME NEW u \in People, NEW i \in 1 .. Len(a.todo), a.todo[i] = <<"remove", u>>
               PROVE  op = <<"remove", u>> \/ u \in ToRemove(rest)
    BY <1>4 DEF ToRemove
  <2>1. CASE i = 1
    BY <1>4, <2>1
  <2>2. CASE i # 1
    <3>1. i - 1 \in DOMAIN rest /\ rest[i - 1] = a.todo[i]
      BY <1>4, <2>2
    <3> QED
      BY <3>1 DEF ToRemove
  <2> QED
    BY <2>1, <2>2
<1>6. emptied' \subseteq {Owner}
  <2>1. CASE op[1] = "leave" /\ new = Left /\ ~a.refused
    <3>1. 1 \in DOMAIN a.todo /\ a.todo[1][1] = "leave"
      BY <1>4, <2>1
    <3>2. a.cmd = "purge" /\ 1 = Len(a.todo)
      BY <1>0, <1>2, <3>1 DEF Proceeds
    <3>3. ToRemove(a.todo) = {}
      <4> SUFFICES ASSUME NEW i \in DOMAIN a.todo PROVE a.todo[i][1] # "remove"
        BY DEF ToRemove
      <4>1. i = 1
        BY <1>4, <3>2
      <4> QED
        BY <3>1, <4>1
    <3>4. room.members \subseteq {Owner, Bot} \cup a.spared
      BY <1>0, <1>2, <2>1, <3>2, <3>3 DEF Proceeds
    <3>5. new.members = room.members \ {Bot}
      BY <1>0, <2>1, AfterProper
    <3> QED
      BY <1>1, <2>1, <3>4, <3>5
  <2>2. CASE ~(op[1] = "leave" /\ new = Left /\ ~a.refused)
    BY <1>0, <1>1, <2>2
  <2> QED
    BY <2>1, <2>2
<1>7. done(new) \in Handlings /\ done(new).at # "answered"
      /\ \E r : /\ Proceeds(done(new), r)
                /\ new.members \subseteq r.members \cup (new.members \ room.members)
  <2>1. CASE rest = <<>>
    <3>1. done(new) = Free
      BY <2>1
    <3>2. new.members \subseteq new.members \cup (new.members \ room.members)
      OBVIOUS
    <3> QED
      BY <3>1, <3>2, FreeProper
  <2>2. CASE rest # <<>>
    <3> DEFINE no == a.refused \/ op[2] \in new.members
               x  == [next EXCEPT !.refused = no]
               r  == [members |-> new.members, admins |-> room.admins]
    <3>1. next \in Handlings /\ next.at = "acting" /\ next.todo = rest /\ next.cmd = a.cmd /\ next.arg = a.arg
          /\ next.from = a.from /\ next.meta = a.meta /\ next.wasAdmin = a.wasAdmin /\ next.wasNot = a.wasNot
          /\ next.spared = a.spared /\ next.refused = a.refused
      BY <1>0, <1>4, <2>2 DEF Handlings
    <3>2. done(new) = x
      BY <2>2, <3>1
    <3>3. no \in BOOLEAN /\ (~no => ~a.refused /\ op[2] \notin new.members)
      OBVIOUS
    <3> HIDE DEF no, next
    <3>4. /\ x \in Handlings /\ x.at = "acting" /\ x.todo = rest /\ x.cmd = a.cmd /\ x.arg = a.arg
          /\ x.from = a.from /\ x.meta = a.meta /\ x.wasAdmin = a.wasAdmin /\ x.wasNot = a.wasNot
          /\ x.spared = a.spared /\ x.refused = no
      BY <3>1, <3>3 DEF Handlings
    <3>5. r.members = new.members /\ r.admins = room.admins
      OBVIOUS
    <3> HIDE DEF x, r
    <3>6. a.cmd = "purge" /\ ~no => new.members \subseteq ToRemove(rest) \cup {Owner, Bot} \cup a.spared
      <4> SUFFICES ASSUME a.cmd = "purge", ~no, NEW u \in new.members
                   PROVE  u \in ToRemove(rest) \cup {Owner, Bot} \cup a.spared
        OBVIOUS
      <4>1. u \in ToRemove(a.todo) \cup {Owner, Bot} \cup a.spared
        BY <1>0, <1>2, <1>3, <3>3 DEF Proceeds
      <4>2. op # <<"remove", u>>
        BY <3>3
      <4> QED
        BY <1>5, <4>1, <4>2
    <3>7. \A i \in DOMAIN rest : rest[i][1] = "leave" => a.cmd = "purge" /\ i = Len(rest)
      <4> SUFFICES ASSUME NEW i \in DOMAIN rest, rest[i][1] = "leave" PROVE a.cmd = "purge" /\ i = Len(rest)
        OBVIOUS
      <4>1. i + 1 \in DOMAIN a.todo /\ a.todo[i + 1][1] = "leave" /\ i \in Nat
        BY <1>4
      <4>2. a.cmd = "purge" /\ i + 1 = Len(a.todo)
        BY <1>0, <1>2, <4>1 DEF Proceeds
      <4> QED
        BY <1>4, <4>1, <4>2
    <3>8. Proceeds(x, r)
      <4>1. /\ a.from \in People /\ a.cmd # "none"
            /\ a.from \in room.admins => a.wasAdmin
            /\ a.from \notin room.admins => a.wasNot
            /\ a.cmd = "link" => a.wasNot
            /\ a.cmd # "link" => a.wasAdmin
            /\ a.cmd = "timer" => a.arg \in Minutes
        BY <1>0, <1>2 DEF Proceeds
      <4> QED
        BY <2>2, <3>4, <3>5, <3>6, <3>7, <4>1 DEF Proceeds
    <3>9. new.members \subseteq r.members \cup (new.members \ room.members)
      BY <3>5
    <3> QED
      BY <3>2, <3>4, <3>8, <3>9
  <2> QED
    BY <2>1, <2>2
<1> HIDE DEF done
<1> DEFINE as == [admin EXCEPT ![h] = done(new)]
<1>8. as \in [GroupHandlers -> Handlings] /\ \A g \in GroupHandlers : as[g] = IF g = h THEN done(new) ELSE admin[g]
  BY <1>0, <1>7
<1>9. \A g \in GroupHandlers :
        \/ as[g] = admin[g]
        \/ \E r : /\ Proceeds(as[g], r) /\ as[g].at # "answered"
                  /\ new.members \subseteq r.members \cup (new.members \ room.members)
  BY <1>7, <1>8
<1>10. Becomes(new, as)
  BY <1>1
<1> HIDE DEF as
<1> QED
  BY <1>2, <1>3, <1>6, <1>8, <1>9, <1>10, BecomesKeeps

(* The timers.                                                             *)

LEMMA TimersKept ==
  ASSUME GroupInv, GroupNext
  PROVE  TimersKnown'
<1> USE DEF GroupInv
<1>1. CASE UNCHANGED <<armed, locks, told, counting, early>>
  BY <1>1 DEF TimersKnown
<1>2. ClearByOwner(armed) = {} /\ Forgotten({}) = {}
  BY DEF TimersKnown, ClearByOwner, Forgotten
<1>3. ASSUME NEW h \in GroupHandlers, SetTimer(h) PROVE TimersKnown'
  <2> DEFINE m == admin[h].arg
  <2>1. /\ admin[h].cmd = "timer" /\ UNCHANGED <<locks, early>>
        /\ \/ UNCHANGED <<armed, told, counting>>
           \/ /\ armed' = {Timer("alert", AlertEvery), Timer("lock", Delay(m))}
              /\ told' = m /\ counting' = m
    BY <1>2, <1>3 DEF SetTimer
  <2>2. m \in Nat
    BY <2>1, GroupConstants DEF RoomsInv, Proceeds
  <2>3. Delay(m) \in Nat /\ (Delay(m) = m \/ m \in Overlong)
    BY <2>2 DEF Delay, Overlong
  <2>4. CASE armed' = {Timer("alert", AlertEvery), Timer("lock", Delay(m))} /\ told' = m /\ counting' = m
    <3> DEFINE d == Delay(m)
    <3>1. armed' = {Timer("alert", AlertEvery), Timer("lock", d)} /\ told' = m /\ counting' = m
      BY <2>4
    <3>2. d \in Nat /\ (d = m \/ m \in Overlong) /\ UNCHANGED <<locks, early>>
      BY <2>1, <2>3
    <3> HIDE DEF m, d
    <3>3. Timer("alert", AlertEvery) \in [kind : {"lock", "alert"}, left : Nat, known : {TRUE}]
      BY GroupConstants DEF Timer
    <3>4. Timer("lock", d) \in [kind : {"lock", "alert"}, left : Nat, known : {TRUE}]
      BY <3>2 DEF Timer
    <3>5. Timer("alert", AlertEvery).kind = "alert" /\ Timer("lock", d).left = d
      BY DEF Timer
    <3>6. ASSUME NEW t \in armed', t.kind = "lock" PROVE t.left = counting' \/ told' \in Overlong
      BY <3>1, <3>2, <3>5, <3>6
    <3> QED
      BY <2>2, <3>1, <3>2, <3>3, <3>4, <3>6 DEF TimersKnown
  <2> QED
    BY <1>1, <2>1, <2>4
<1>4. ASSUME NEW h \in GroupHandlers, EndTimer(h) PROVE TimersKnown'
  <2>1. /\ UNCHANGED <<locks, early>>
        /\ UNCHANGED <<armed, told, counting>> \/ (armed' = {} /\ told' = 0 /\ counting' = -1)
    BY <1>2, <1>4 DEF EndTimer
  <2>2. CASE armed' = {} /\ told' = 0 /\ counting' = -1
    BY <2>1, <2>2 DEF TimersKnown
  <2> QED
    BY <1>1, <2>1, <2>2
<1>5. CASE MinutePasses
  <2>1. /\ armed' = {[t EXCEPT !.left = IF @ = 0 THEN 0 ELSE @ - 1] : t \in armed}
        /\ counting' = (IF counting > 0 THEN counting - 1 ELSE counting)
        /\ UNCHANGED <<locks, told, early>>
    BY <1>5 DEF MinutePasses
  <2>2. ASSUME NEW s \in armed'
        PROVE  /\ s \in [kind : {"lock", "alert"}, left : Nat, known : {TRUE}]
               /\ s.kind = "lock" => s.left = counting' \/ told \in Overlong
    <3>1. PICK t \in armed : s = [t EXCEPT !.left = IF @ = 0 THEN 0 ELSE @ - 1]
      BY <2>1
    <3>2. /\ t \in [kind : {"lock", "alert"}, left : Nat, known : {TRUE}]
          /\ t.kind = "lock" => t.left = counting \/ told \in Overlong
      BY DEF TimersKnown
    <3> DEFINE l == IF t.left = 0 THEN 0 ELSE t.left - 1
    <3>3. l \in Nat /\ t.left \in Nat
      BY <3>2
    <3>4. s = [t EXCEPT !.left = l]
      BY <3>1
    <3>5. t.kind = "lock" => l = counting' \/ told \in Overlong
      BY <2>1, <3>2, <3>3
    <3> HIDE DEF l
    <3> QED
      BY <3>2, <3>3, <3>4, <3>5
  <2>3. counting' \in Nat \cup {-1}
    BY <2>1 DEF TimersKnown
  <2> QED
    BY <2>1, <2>2, <2>3 DEF TimersKnown
<1>6. CASE RemindersRing
  <2>1. PICK t \in armed : t.kind = "alert" /\ armed' = (armed \ {t}) \cup {[t EXCEPT !.left = AlertEvery]}
    BY <1>6 DEF RemindersRing
  <2> DEFINE s == [t EXCEPT !.left = AlertEvery]
  <2>2. s \in [kind : {"lock", "alert"}, left : Nat, known : {TRUE}] /\ s.kind = "alert"
    BY <2>1, GroupConstants DEF TimersKnown
  <2>3. UNCHANGED <<locks, told, counting, early>> /\ armed' = (armed \ {t}) \cup {s}
    BY <1>6, <2>1 DEF RemindersRing
  <2> HIDE DEF s
  <2> QED
    BY <2>2, <2>3 DEF TimersKnown
<1>7. CASE TimerExpires
  <2>1. PICK t \in armed : t.kind = "lock" /\ t.left = 0 /\ armed' = ClearByOwner(armed) \ {t}
    BY <1>7 DEF TimerExpires
  <2>2. /\ locks' = locks + 1 /\ told' = 0 /\ counting' = -1
        /\ early' = (IF counting = 0 THEN early ELSE early \cup {told})
    BY <1>7 DEF TimerExpires
  <2>3. counting = 0 \/ told \in Overlong
    BY <2>1 DEF TimersKnown
  <2>4. armed' = {}
    BY <1>2, <2>1
  <2>5. early' \subseteq Overlong
    BY <2>2, <2>3 DEF TimersKnown, Overlong
  <2> QED
    BY <2>2, <2>4, <2>5 DEF TimersKnown
<1>8. CASE Lock
  <2>1. locks > 0 /\ locks' = locks - 1 /\ UNCHANGED <<armed, told, counting, early>>
    BY <1>8 DEF Lock
  <2>2. locks' \in Nat
    BY <2>1 DEF TimersKnown
  <2> QED
    BY <2>1, <2>2 DEF TimersKnown
<1>9. CASE ChangedByPeople \/ HandleGroupUpdate \/ MetadataExpires \/ PurgeExpires
  BY <1>1, <1>9 DEF ChangedByPeople, HandleGroupUpdate, MetadataExpires, PurgeExpires, timerVars
<1>10. ASSUME NEW h \in GroupHandlers,
              \/ \E u \in People : \/ \E cmd \in OnUser, arg \in Targets : Receive(h, cmd, arg, u)
                                   \/ \E m \in Minutes : Receive(h, "timer", m, u)
                                   \/ \E cmd \in (Cmds \cup {"link"}) \ (OnUser \cup {"timer"}) :
                                        Receive(h, cmd, "none", u)
              \/ Answer(h) \/ NoAnswer(h) \/ Arrive(h) \/ Act(h) \/ Moderate(h) \/ Call(h)
       PROVE  TimersKnown'
  BY <1>1, <1>10 DEF Receive, Answer, NoAnswer, Arrive, Act, Moderate, Call, timerVars
<1> QED
  BY <1>3, <1>4, <1>5, <1>6, <1>7, <1>8, <1>9, <1>10 DEF GroupNext

LEMMA GroupStarts ==
  ASSUME GroupInit
  PROVE  GroupInv
<1>1. /\ room = [members |-> People, admins |-> {Owner, Bot}, closed |-> FALSE] /\ notices = 0
      /\ metaCache = NoMeta /\ admin = [h \in GroupHandlers |-> Free] /\ armed = {} /\ locks = 0
      /\ told = 0 /\ counting = -1 /\ early = {} /\ emptied = {}
  BY DEF GroupInit
<1>2. room \in Rooms /\ room.admins \subseteq room.members /\ NoMeta \in Rooms
  BY <1>1, GroupConstants DEF Rooms, NoMeta
<1>3. \A h \in GroupHandlers : admin[h] \in Handlings /\ admin[h].at = "free" /\ Proceeds(admin[h], room)
  BY <1>1, FreeProper
<1>4. admin \in [GroupHandlers -> Handlings]
  BY <1>1, FreeProper
<1>5. RoomsInv
  BY <1>1, <1>2, <1>3, <1>4 DEF RoomsInv, CopiesOfTheRoom
<1> QED
  BY <1>1, <1>5 DEF GroupInv, TimersKnown

LEMMA GroupKept ==
  ASSUME GroupInv, [GroupNext]_groupVars
  PROVE  GroupInv'
<1>0. CASE UNCHANGED groupVars
  BY <1>0 DEF groupVars, GroupInv, RoomsInv, TimersKnown, CopiesOfTheRoom
<1> SUFFICES ASSUME GroupNext PROVE RoomsInv'
  BY <1>0, TimersKept DEF GroupInv
<1>1. RoomsInv
  BY DEF GroupInv
<1>2. CASE ChangedByPeople \/ Lock
  BY <1>1, <1>2, RoomChangesKeep
<1>3. CASE HandleGroupUpdate \/ MetadataExpires
  BY <1>1, <1>3, NoticesKeep
<1>4. CASE PurgeExpires \/ MinutePasses \/ RemindersRing \/ TimerExpires
  <2>1. UNCHANGED <<room, notices, metaCache, admin, raced, emptied>>
    BY <1>4 DEF PurgeExpires, MinutePasses, RemindersRing, TimerExpires
  <2> QED
    BY <1>1, <2>1 DEF RoomsInv, CopiesOfTheRoom
<1>5. ASSUME NEW h \in GroupHandlers, SetTimer(h) \/ EndTimer(h) PROVE RoomsInv'
  <2>1. admin' = [admin EXCEPT ![h] = Free] /\ UNCHANGED <<room, notices, metaCache, raced, emptied>>
    BY <1>5 DEF SetTimer, EndTimer
  <2> QED
    BY <1>1, <2>1, FreeProper, HandlerKeeps
<1>6. ASSUME NEW h \in GroupHandlers, NEW u \in People,
             \/ \E cmd \in OnUser, arg \in Targets : Receive(h, cmd, arg, u)
             \/ \E m \in Minutes : Receive(h, "timer", m, u)
             \/ \E cmd \in (Cmds \cup {"link"}) \ (OnUser \cup {"timer"}) : Receive(h, cmd, "none", u)
      PROVE  RoomsInv'
  <2>1. CASE \E cmd \in OnUser, arg \in Targets : Receive(h, cmd, arg, u)
    <3>1. PICK cmd \in OnUser, arg \in Targets : Receive(h, cmd, arg, u)
      BY <2>1
    <3>2. cmd \in Cmds \cup {"link"} /\ arg \in Args /\ cmd # "timer"
      BY GroupConstants DEF Cmds, OnUser, Args
    <3> QED
      BY <1>1, <3>1, <3>2, ReceiveKeeps
  <2>2. CASE \E m \in Minutes : Receive(h, "timer", m, u)
    <3>1. PICK m \in Minutes : Receive(h, "timer", m, u)
      BY <2>2
    <3>2. "timer" \in Cmds \cup {"link"} /\ m \in Args
      BY DEF Cmds, Args
    <3> QED
      BY <1>1, <3>1, <3>2, ReceiveKeeps
  <2>3. CASE \E cmd \in (Cmds \cup {"link"}) \ (OnUser \cup {"timer"}) : Receive(h, cmd, "none", u)
    <3>1. PICK cmd \in (Cmds \cup {"link"}) \ (OnUser \cup {"timer"}) : Receive(h, cmd, "none", u)
      BY <2>3
    <3>2. cmd \in Cmds \cup {"link"} /\ "none" \in Args /\ cmd # "timer"
      BY DEF Args
    <3> QED
      BY <1>1, <3>1, <3>2, ReceiveKeeps
  <2> QED
    BY <1>6, <2>1, <2>2, <2>3
<1>7. ASSUME NEW h \in GroupHandlers, Answer(h) \/ NoAnswer(h) \/ Arrive(h) PROVE RoomsInv'
  BY <1>1, <1>7, AnswersKeep
<1>8. ASSUME NEW h \in GroupHandlers, Act(h) \/ Moderate(h) PROVE RoomsInv'
  BY <1>1, <1>8, BeginsKeep
<1>9. ASSUME NEW h \in GroupHandlers, Call(h) PROVE RoomsInv'
  BY <1>1, <1>9, CallKeeps
<1> QED
  BY <1>2, <1>3, <1>4, <1>5, <1>6, <1>7, <1>8, <1>9 DEF GroupNext

LEMMA GroupImplied ==
  ASSUME GroupInv
  PROVE  GroupTypeOK /\ GroupHolds
<1>1. GroupTypeOK
  <2>1. \A h \in GroupHandlers : /\ admin[h].at \in {"free", "asked", "answered", "judged", "acting"}
                                 /\ admin[h].meta \in Rooms
                                 /\ admin[h].at = "acting" <=> admin[h].todo # <<>>
    BY DEF GroupInv, RoomsInv, Handlings, Proceeds
  <2>2. \A t \in armed : t.kind \in {"lock", "alert"} /\ t.left \in Nat /\ t.known \in BOOLEAN
    BY DEF GroupInv, TimersKnown
  <2> QED
    BY <2>1, <2>2, GroupConstants DEF GroupInv, RoomsInv, TimersKnown, Overlong, GroupTypeOK
<1>2. JudgedByTheRoom
  <2> SUFFICES ASSUME NEW h \in GroupHandlers, admin[h].todo # <<>>
               PROVE  IF admin[h].cmd = "link" THEN admin[h].wasNot ELSE admin[h].wasAdmin
    BY DEF JudgedByTheRoom
  <2>1. Proceeds(admin[h], room)
    BY DEF GroupInv, RoomsInv
  <2> QED
    BY <2>1 DEF Proceeds
<1>3. StaleOnlyByRace /\ PurgeEmpties /\ LockedByLastTimer
  BY DEF GroupInv, RoomsInv, CopiesOfTheRoom, TimersKnown, Overlong, StaleOnlyByRace, PurgeEmpties, LockedByLastTimer
<1> QED
  BY <1>1, <1>2, <1>3 DEF GroupHolds, MetadataHolds

-----------------------------------------------------------------------------
(* The media                                                               *)

Modes == {"audio", "video", "document"}
Requests == [cmd : Wanted \cup {"none"}, long : BOOLEAN, unmeasured : BOOLEAN, api : 1 .. Apis, images : Nat,
          video : BOOLEAN, type : {"none", "audio", "video"}, mode : Modes \cup {"none"},
          range : TrackRanges \cup {Everything}, found : Nat, tracks : Seq(Nat), zip : BOOLEAN, next : Nat \ {0}]

\* What a command hands over.
Kind(cmd) == IF cmd \in {"play", "spotify", "ytaudio"} THEN "audio" ELSE "video"

\* The tracks of a request that are sent: from First on, as many as there are up to the limit.
From(range)  == IF range = Everything THEN 1 ELSE range[1]
To(n, range) == IF range = Everything THEN n ELSE Min({range[2], n})
First(j) == From(j.range)
Due(j)   == SubSeq(j.tracks, 1, Min({Len(j.tracks), MaxPlaylistTracks}))

Resting == {"idle", "down"}
Early   == {"info", "infoApi", "find"}
Formed  == {"remember", "download", "send"}
Single  == Early \cup {"images", "prefer", "menu"} \cup Formed

\* What is known of a request at each of its steps.
Placed(s, j) ==
  /\ j \in Requests
  /\ s \in Early \cup {"tracks", "choose"} => j.next = 1 /\ j.images = 0 /\ ~j.zip
  /\ s \in Single => j.range = Everything
  /\ s \in Single \cup {"tracks"} => j.tracks = <<>>
  /\ s = "tracks" => j.mode = "none"
  /\ s = "images" => j.next <= j.images + 1 /\ (j.images > 0 \/ j.video)
  /\ s \in {"prefer", "menu"} \cup Formed => j.next = j.images + 1
  /\ s \in {"menu"} \cup Formed => j.cmd \in Wanted /\ j.type = Kind(j.cmd)
  /\ s \in Formed => j.mode \in {j.type, "document"}
  /\ j.long /\ j.cmd = "ytvideo" /\ s \notin {"info", "infoApi"} \cup Resting => j.unmeasured
  /\ s \in ListSteps => j.tracks # <<>>
  /\ j.tracks # <<>> => /\ j.tracks = Selected(j.found, j.range) /\ j.mode = "none"
                        /\ j.next <= Len(Due(j)) + 1 /\ s \notin Single \cup {"tracks"}
  /\ j.zip => j.tracks # <<>>
  /\ s \in {"fetch", "post"} => j.next <= Len(Due(j))
  /\ s = "post" => ~j.zip
  /\ s \in {"finalize", "sendZip"} => j.zip /\ j.next = Len(Due(j)) + 1

\* What was handed over, of those before the next one, in their order; the others were given up.
InOrder(out, gone, first, next) ==
  LET given == {out[i] : i \in DOMAIN out}
  IN  Increasing(out) /\ given \cap gone = {} /\ given \cup gone = first .. first + next - 2

HandedOver == IF job.zip THEN entries ELSE Numbers

DeliveredInv ==
  /\ delivered \in Seq((Modes \cup {"image", "zip"}) \X Nat) /\ entries \in Seq(Nat) /\ missed \subseteq Nat
  /\ at \in Early \cup {"tracks", "choose"} => delivered = <<>> /\ entries = <<>> /\ missed = {}
  /\ at \notin Resting \/ job.tracks # <<>> => InOrder(HandedOver, missed, First(job), job.next)
  /\ job.tracks # <<>> /\ ~job.zip => \A i \in DOMAIN delivered : delivered[i][1] = "audio"
  /\ job.zip => \A i \in DOMAIN delivered : delivered[i] = <<"zip", Len(entries)>>
  /\ job.zip /\ at \notin Resting => delivered = <<>>
  /\ at \in Single => \A i \in DOMAIN delivered : delivered[i][1] = "image"
  /\ job.tracks = <<>> => \A i \in DOMAIN delivered : delivered[i][1] \in {"image", job.mode} \ {"zip"}
  /\ \A i, j \in DOMAIN delivered :
       i < j /\ delivered[i][1] = "image" /\ delivered[j][1] = "image" => delivered[i][2] < delivered[j][2]

EndsInv ==
  /\ word \in {"none", "told", "silent", "cancelled"} /\ requests \in Nat /\ deaths \in Nat /\ files \in Nat
  /\ at \notin Resting => word = "none"
  /\ at = "down" => word = "silent"
  /\ word = "told" => \A i \in DOMAIN delivered : delivered[i][1] # job.mode
  /\ at = "idle" /\ word = "none" /\ requests > 0 => delivered # <<>> \/ missed # {}
  /\ files <= deaths + (IF job.zip /\ at \in ListSteps THEN 1 ELSE 0)
  /\ job.zip /\ at \in ListSteps => files > 0

KeptInv == kept \in [Wanted -> {"none"} \cup Modes] /\ \A c \in Wanted : kept[c] \in {"none", Kind(c), "document"}

MediaInv == at \in MediaSteps /\ Placed(at, job) /\ DeliveredInv /\ EndsInv /\ KeptInv

-----------------------------------------------------------------------------

LEMMA MediaConstants ==
  /\ Apis \in Nat \ {0} /\ MaxTracks \in Nat \ {0} /\ MaxPlaylistTracks \in Nat \ {0} /\ Lengths \subseteq Nat
  /\ \A r \in TrackRanges : r[1] \in Nat \ {0} /\ r[2] \in Nat /\ r[2] >= r[1] /\ r # Everything
  /\ MaxImages \in Nat /\ MaxRequests \in Nat /\ MaxDeaths \in Nat
BY MediaAssumption DEF MediaAssumption, Everything

LEMMA Smaller ==
  ASSUME NEW a \in Nat, NEW b \in Nat
  PROVE  Min({a, b}) = IF a < b THEN a ELSE b
<1> DEFINE m == IF a < b THEN a ELSE b
<1>1. m \in {a, b} /\ \A y \in {a, b} : m <= y
  OBVIOUS
<1>2. \A x \in {a, b} : (\A y \in {a, b} : x <= y) => x = m
  OBVIOUS
<1> HIDE DEF m
<1>3. Min({a, b}) = m
  BY <1>1, <1>2 DEF Min
<1> QED
  BY <1>3 DEF m

LEMMA FirstOne ==
  ASSUME NEW j \in Requests
  PROVE  First(j) \in Nat \ {0}
BY MediaConstants DEF Requests, First, From

\* The tracks of a range are those from its first on.
LEMMA SelectedTracks ==
  ASSUME NEW n \in Nat, NEW range \in TrackRanges \cup {Everything}
  PROVE  /\ Selected(n, range) \in Seq(Nat) /\ From(range) \in Nat \ {0}
         /\ To(n, range) \in Nat /\ To(n, range) <= n
         /\ Len(Selected(n, range)) = IF From(range) <= To(n, range) THEN To(n, range) - From(range) + 1 ELSE 0
         /\ \A i \in 1 .. Len(Selected(n, range)) : Selected(n, range)[i] = From(range) + i - 1
<1> DEFINE all == [i \in 1 .. n |-> i]
<1>1. all \in Seq(Nat) /\ Len(all) = n /\ \A i \in 1 .. n : all[i] = i
  <2>1. all \in [1 .. n -> Nat] /\ DOMAIN all = 1 .. n /\ \A i \in 1 .. n : all[i] = i
    OBVIOUS
  <2> HIDE DEF all
  <2> QED
    BY <2>1
<1>2. CASE range = Everything
  BY <1>1, <1>2 DEF Selected, From, To
<1>3. CASE range # Everything
  <2> DEFINE a  == range[1]
             hi == Min({range[2], n})
             t  == SubSeq(all, a, hi)
  <2>1. range \in TrackRanges /\ a \in Nat \ {0} /\ range[2] \in Nat
    BY <1>3, MediaConstants
  <2>2. hi \in Nat /\ hi <= n
    BY <2>1, Smaller
  <2>3. Selected(n, range) = t
    BY <1>3 DEF Selected
  <2> HIDE DEF hi, all, a
  <2>4. \A i \in a .. hi : all[i] \in Nat
    BY <1>1, <2>1, <2>2
  <2>5. /\ t \in Seq(Nat) /\ Len(t) = IF a <= hi THEN hi - a + 1 ELSE 0
        /\ \A i \in 1 .. hi - a + 1 : t[i] = all[a + i - 1]
    BY <2>1, <2>2, <2>4, SubSeqProperties
  <2> HIDE DEF t
  <2>6. ASSUME NEW i \in 1 .. Len(t) PROVE t[i] = a + i - 1
    <3>1. i \in 1 .. hi - a + 1 /\ a + i - 1 \in 1 .. n
      BY <2>1, <2>2, <2>5
    <3> QED
      BY <1>1, <2>5, <3>1
  <2> QED
    BY <1>3, <2>1, <2>2, <2>3, <2>5, <2>6 DEF hi, a, From, To
<1> QED
  BY <1>2, <1>3

LEMMA DueTracks ==
  ASSUME NEW j \in Requests
  PROVE  LET m == IF Len(j.tracks) < MaxPlaylistTracks THEN Len(j.tracks) ELSE MaxPlaylistTracks
         IN  /\ Due(j) \in Seq(Nat) /\ Len(Due(j)) = m /\ m \in Nat
             /\ j.tracks # <<>> => m > 0
             /\ \A i \in 1 .. m : Due(j)[i] = j.tracks[i]
<1> DEFINE m == IF Len(j.tracks) < MaxPlaylistTracks THEN Len(j.tracks) ELSE MaxPlaylistTracks
<1>1. j.tracks \in Seq(Nat) /\ Len(j.tracks) \in Nat /\ MaxPlaylistTracks \in Nat \ {0}
  BY MediaConstants DEF Requests
<1>2. Min({Len(j.tracks), MaxPlaylistTracks}) = m
  BY <1>1, Smaller
<1>3. m \in Nat /\ m <= Len(j.tracks) /\ (j.tracks # <<>> => m > 0)
  BY <1>1
<1>4. \A i \in 1 .. m : j.tracks[i] \in Nat
  BY <1>1, <1>3
<1> HIDE DEF m
<1>5. /\ SubSeq(j.tracks, 1, m) \in Seq(Nat)
      /\ Len(SubSeq(j.tracks, 1, m)) = IF 1 <= m THEN m - 1 + 1 ELSE 0
      /\ \A i \in 1 .. m - 1 + 1 : SubSeq(j.tracks, 1, m)[i] = j.tracks[1 + i - 1]
  BY <1>3, <1>4, SubSeqProperties
<1>6. Due(j) = SubSeq(j.tracks, 1, m)
  BY <1>2 DEF Due
<1>7. Len(Due(j)) = m /\ \A i \in 1 .. m : Due(j)[i] = j.tracks[i]
  BY <1>3, <1>5, <1>6
<1> QED
  BY <1>3, <1>5, <1>6, <1>7 DEF m

\* The next track of a playlist, by its number.
LEMMA NextDue ==
  ASSUME NEW j \in Requests, j.tracks # <<>>, j.tracks = Selected(j.found, j.range), j.next <= Len(Due(j))
  PROVE  Due(j)[j.next] = First(j) + j.next - 1
<1>1. j.found \in Nat /\ j.range \in TrackRanges \cup {Everything} /\ j.next \in Nat \ {0} /\ j.tracks \in Seq(Nat)
  BY DEF Requests
<1>2. \A i \in 1 .. Len(j.tracks) : j.tracks[i] = First(j) + i - 1
  <2>1. \A i \in 1 .. Len(Selected(j.found, j.range)) : Selected(j.found, j.range)[i] = From(j.range) + i - 1
    BY <1>1, SelectedTracks
  <2> QED
    BY <2>1 DEF First
<1>3. j.next <= Len(j.tracks) /\ Due(j)[j.next] = j.tracks[j.next]
  BY <1>1, DueTracks, MediaConstants
<1> QED
  BY <1>1, <1>2, <1>3

-----------------------------------------------------------------------------
(* What is handed over.                                                    *)

LEMMA OneHanded ==
  ASSUME NEW out \in Seq(Nat), NEW gone, NEW first \in Nat, NEW n \in Nat \ {0},
         InOrder(out, gone, first, n)
  PROVE  InOrder(Append(out, first + n - 1), gone, first, n + 1)
<1> DEFINE t == first + n - 1
           more == Append(out, t)
           given == {out[i] : i \in DOMAIN out}
           givenMore == {more[i] : i \in DOMAIN more}
<1>1. t \in Nat /\ first .. first + (n + 1) - 2 = (first .. first + n - 2) \cup {t} /\ t \notin first .. first + n - 2
  OBVIOUS
<1>2. \A i \in DOMAIN out : out[i] \in first .. first + n - 2
  BY DEF InOrder
<1>3. given \cap gone = {} /\ given \cup gone = first .. first + n - 2 /\ Increasing(out)
  BY DEF InOrder
<1> HIDE DEF t
<1>4. /\ more \in Seq(Nat) /\ Len(more) = Len(out) + 1 /\ more[Len(out) + 1] = t
      /\ \A i \in 1 .. Len(out) : more[i] = out[i]
      /\ DOMAIN more = 1 .. Len(out) + 1 /\ DOMAIN out = 1 .. Len(out) /\ Len(out) \in Nat
  BY <1>1, AppendProperties
<1> HIDE DEF more
<1>5. givenMore = given \cup {t}
  <2>1. ASSUME NEW i \in DOMAIN more PROVE more[i] \in given \cup {t}
    BY <1>4
  <2>2. ASSUME NEW i \in DOMAIN out PROVE out[i] \in givenMore
    BY <1>4
  <2>3. t \in givenMore
    BY <1>4
  <2> QED
    BY <2>1, <2>2, <2>3
<1>6. Increasing(more)
  <2> SUFFICES ASSUME NEW i \in DOMAIN more, NEW j \in DOMAIN more, i < j PROVE more[i] < more[j]
    BY DEF Increasing
  <2>1. i \in DOMAIN out /\ more[i] = out[i]
    BY <1>4
  <2>2. out[i] < t
    BY <1>1, <1>2, <2>1 DEF t
  <2>3. CASE j \in DOMAIN out
    BY <1>3, <1>4, <2>1, <2>3 DEF Increasing
  <2>4. CASE j = Len(out) + 1
    BY <1>4, <2>1, <2>2, <2>4
  <2> QED
    BY <1>4, <2>3, <2>4
<1> HIDE DEF given, givenMore
<1>7. t \notin gone
  BY <1>1, <1>3
<1>8. givenMore \cap gone = {} /\ givenMore \cup gone = first .. first + (n + 1) - 2
  BY <1>1, <1>3, <1>5, <1>7
<1> QED
  BY <1>6, <1>8 DEF InOrder, t, more, givenMore

LEMMA OneGivenUp ==
  ASSUME NEW out \in Seq(Nat), NEW gone, NEW first \in Nat, NEW n \in Nat \ {0},
         InOrder(out, gone, first, n)
  PROVE  InOrder(out, gone \cup {first + n - 1}, first, n + 1)
<1> DEFINE t == first + n - 1
           given == {out[i] : i \in DOMAIN out}
<1>1. t \in Nat /\ first .. first + (n + 1) - 2 = (first .. first + n - 2) \cup {t} /\ t \notin first .. first + n - 2
  OBVIOUS
<1>2. given \cap gone = {} /\ given \cup gone = first .. first + n - 2 /\ Increasing(out)
  BY DEF InOrder
<1> HIDE DEF t, given
<1>3. given \cap (gone \cup {t}) = {} /\ given \cup (gone \cup {t}) = first .. first + (n + 1) - 2
  BY <1>1, <1>2
<1> QED
  BY <1>2, <1>3 DEF InOrder, given, t

-----------------------------------------------------------------------------
(* Steps that hand nothing over, and those that do.                        *)

\* What the invariant says of a step depends on these alone.
SameList(j) == j.range = job.range /\ j.next = job.next /\ j.zip = job.zip /\ j.tracks = job.tracks

LEMMA QuietKeeps ==
  ASSUME MediaInv, at \notin Resting, NEW s \in MediaSteps \ Resting, NEW j, Placed(s, j), SameList(j),
         Progress(s, j), SendsNothing,
         s \in Early \cup {"tracks", "choose"} => at \in Early \cup {"tracks", "choose"},
         s \in Single => at \in Single, s \in ListSteps <=> at \in ListSteps
  PROVE  MediaInv'
<1>1. /\ at' = s /\ job' = j
      /\ UNCHANGED <<kept, word, requests, deaths, delivered, missed, entries, files>>
  BY DEF Progress, SendsNothing
<1>2. /\ First(job') = First(job) /\ job'.next = job.next /\ job'.zip = job.zip /\ job'.tracks = job.tracks
      /\ HandedOver' = HandedOver
  BY <1>1 DEF SameList, First, HandedOver, Numbers
<1>3. DeliveredInv'
  <2>1. /\ delivered' \in Seq((Modes \cup {"image", "zip"}) \X Nat) /\ entries' \in Seq(Nat) /\ missed' \subseteq Nat
        /\ at' \in Early \cup {"tracks", "choose"} => delivered' = <<>> /\ entries' = <<>> /\ missed' = {}
        /\ InOrder(HandedOver', missed', First(job'), job'.next)
    BY <1>1, <1>2 DEF MediaInv, DeliveredInv
  <2>2. /\ job'.tracks # <<>> /\ ~job'.zip => \A i \in DOMAIN delivered' : delivered'[i][1] = "audio"
        /\ job'.zip => \A i \in DOMAIN delivered' : delivered'[i] = <<"zip", Len(entries')>>
        /\ job'.zip /\ at' \notin Resting => delivered' = <<>>
        /\ at' \in Single => \A i \in DOMAIN delivered' : delivered'[i][1] = "image"
        /\ \A i, k \in DOMAIN delivered' : i < k /\ delivered'[i][1] = "image" /\ delivered'[k][1] = "image"
                                            => delivered'[i][2] < delivered'[k][2]
    BY <1>1, <1>2 DEF MediaInv, DeliveredInv
  <2>3. job'.tracks = <<>> => \A i \in DOMAIN delivered' : delivered'[i][1] \in {"image", job'.mode} \ {"zip"}
    <3>1. CASE s \in Single
      BY <1>1, <2>2, <3>1
    <3>2. CASE s \in {"tracks", "choose"}
      BY <1>1, <2>1, <3>2
    <3>3. CASE s \in ListSteps
      BY <1>1, <3>3 DEF Placed
    <3> QED
      BY <3>1, <3>2, <3>3 DEF MediaSteps, AtApis, ListSteps, Single, Early, Formed, Resting
  <2> QED
    BY <2>1, <2>2, <2>3 DEF DeliveredInv
<1>4. EndsInv'
  BY <1>1, <1>2 DEF MediaInv, EndsInv, Resting
<1>5. KeptInv'
  BY <1>1 DEF MediaInv, KeptInv
<1> QED
  BY <1>1, <1>3, <1>4, <1>5 DEF MediaInv

LEMMA PlacedToRest ==
  ASSUME NEW s, NEW j, Placed(s, j), NEW r \in Resting
  PROVE  Placed(r, j)
BY DEF Placed, Resting, Early, Single, Formed, ListSteps

LEMMA StopKeeps ==
  ASSUME MediaInv, at \notin Resting, NEW w \in {"none", "told", "silent", "cancelled"}, Ends(w),
         UNCHANGED <<delivered, missed, entries>>,
         files' = IF job.zip /\ at \in ListSteps THEN files - 1 ELSE files,
         w = "none" => delivered # <<>> \/ missed # {},
         w = "told" => at \in Single \cup {"tracks", "choose"} \/ job.zip
  PROVE  MediaInv'
<1>1. at' = "idle" /\ word' = w /\ UNCHANGED <<job, kept, requests, deaths, delivered, missed, entries>>
  BY DEF Ends
<1>2. Placed(at', job')
  BY <1>1, PlacedToRest DEF MediaInv, Resting
<1>3. at' \in MediaSteps /\ at' \in Resting /\ at' \notin Single \cup ListSteps \cup {"tracks", "choose"}
  BY <1>1 DEF MediaSteps, Resting, Single, Early, Formed, ListSteps
<1>4. HandedOver' = HandedOver
  BY <1>1 DEF HandedOver, Numbers
<1>5. DeliveredInv'
  BY <1>1, <1>3, <1>4 DEF MediaInv, DeliveredInv, First, Single
<1>6. files' \in Nat /\ files' <= deaths
  BY DEF MediaInv, EndsInv
<1>7. w = "told" => \A i \in DOMAIN delivered : delivered[i][1] # job.mode
  <2>1. CASE at \in Single
    <3>1. job.mode # "image"
      BY DEF MediaInv, Placed, Requests, Modes
    <3> QED
      BY <2>1, <3>1 DEF MediaInv, DeliveredInv
  <2>2. CASE at \in {"tracks", "choose"} \/ job.zip
    BY <2>2 DEF MediaInv, DeliveredInv
  <2> QED
    BY <2>1, <2>2
<1>8. EndsInv'
  BY <1>1, <1>3, <1>6, <1>7 DEF MediaInv, EndsInv
<1>9. KeptInv'
  BY <1>1 DEF MediaInv, KeptInv
<1> QED
  BY <1>2, <1>3, <1>5, <1>8, <1>9 DEF MediaInv

\* The next image or track is handed over, or given up.
TakesOne ==
  LET t == First(job) + job.next - 1
  IN  \/ missed' = missed \cup {t} /\ UNCHANGED <<delivered, entries>>
      \/ /\ ~job.zip /\ delivered' = Append(delivered, <<IF job.tracks = <<>> THEN "image" ELSE "audio", t>>)
         /\ UNCHANGED <<missed, entries>>
      \/ job.zip /\ entries' = Append(entries, t) /\ UNCHANGED <<delivered, missed>>

LEMMA TakeKeeps ==
  ASSUME MediaInv, NEW s \in {"images"} \cup ListSteps, NEW j, Placed(s, j), Progress(s, j), UNCHANGED files,
         j.range = job.range, j.next = job.next + 1, j.zip = job.zip, j.tracks = job.tracks, j.mode = job.mode,
         at \in {"images"} \cup ListSteps, at = "images" <=> s = "images", TakesOne
  PROVE  MediaInv'
<1> DEFINE t   == First(job) + job.next - 1
           how == IF job.tracks = <<>> THEN "image" ELSE "audio"
<1>1. at' = s /\ job' = j /\ UNCHANGED <<kept, word, requests, deaths, files>>
  BY DEF Progress
<1>2. /\ First(job') = First(job) /\ First(job) \in Nat \ {0} /\ job.next \in Nat \ {0} /\ t \in Nat
      /\ job \in Requests
  BY <1>1, FirstOne DEF First, MediaInv, Placed, Requests
<1>3. at \notin Resting /\ at' \notin Resting /\ at' \notin Early \cup {"tracks", "choose"}
      /\ (at' \in ListSteps <=> at \in ListSteps) /\ (at' \in Single => at \in Single)
      /\ (at \in Single <=> job.tracks = <<>>)
  BY <1>1 DEF Resting, Early, ListSteps, Single, Formed, MediaInv, Placed
<1>4. /\ delivered \in Seq((Modes \cup {"image", "zip"}) \X Nat) /\ entries \in Seq(Nat) /\ missed \subseteq Nat
      /\ InOrder(HandedOver, missed, First(job), job.next)
  BY <1>3 DEF MediaInv, DeliveredInv
<1>5. Len(delivered) \in Nat /\ DOMAIN delivered = 1 .. Len(delivered)
      /\ \A i \in DOMAIN delivered : delivered[i][1] \in Modes \cup {"image", "zip"} /\ delivered[i][2] \in Nat
  BY <1>4
<1>6. Numbers \in Seq(Nat) /\ Len(Numbers) = Len(delivered) /\ HandedOver \in Seq(Nat)
  <2>1. Numbers \in [1 .. Len(delivered) -> Nat]
    BY <1>5 DEF Numbers
  <2>2. Numbers \in Seq(Nat) /\ Len(Numbers) = Len(delivered)
    BY <1>5, <2>1
  <2>3. HandedOver = entries \/ HandedOver = Numbers
    BY DEF HandedOver
  <2> QED
    BY <1>4, <2>2, <2>3
<1> HIDE DEF t, how
<1>7. CASE missed' = missed \cup {t} /\ UNCHANGED <<delivered, entries>>
  <2>1. HandedOver' = HandedOver
    BY <1>1, <1>7 DEF HandedOver, Numbers
  <2>2. InOrder(HandedOver', missed', First(job'), job'.next)
    <3>1. InOrder(HandedOver, missed \cup {First(job) + job.next - 1}, First(job), job.next + 1)
      BY <1>2, <1>4, <1>6, OneGivenUp
    <3> QED
      BY <1>1, <1>2, <1>7, <2>1, <3>1 DEF t
  <2>3. missed' \subseteq Nat
    BY <1>2, <1>4, <1>7
  <2>4. DeliveredInv'
    BY <1>1, <1>3, <1>7, <2>2, <2>3 DEF MediaInv, DeliveredInv
  <2>5. EndsInv'
    BY <1>1, <1>3, <1>7 DEF MediaInv, EndsInv, Resting
  <2> QED
    BY <1>1, <2>4, <2>5 DEF MediaInv, KeptInv, MediaSteps
<1>8. CASE job.zip /\ entries' = Append(entries, t) /\ UNCHANGED <<delivered, missed>>
  <2>1. HandedOver' = Append(HandedOver, t) /\ delivered = <<>>
    BY <1>1, <1>3, <1>8 DEF HandedOver, MediaInv, DeliveredInv
  <2>5. entries' \in Seq(Nat)
    BY <1>2, <1>4, <1>8, AppendProperties
  <2>2. InOrder(HandedOver', missed', First(job'), job'.next)
    BY <1>1, <1>2, <1>4, <1>6, <1>8, <2>1, OneHanded DEF t
  <2>3. DeliveredInv'
    BY <1>1, <1>3, <1>4, <1>8, <2>1, <2>2, <2>5 DEF DeliveredInv
  <2>4. EndsInv'
    BY <1>1, <1>3, <1>8 DEF MediaInv, EndsInv, Resting
  <2> QED
    BY <1>1, <2>3, <2>4 DEF MediaInv, KeptInv, MediaSteps
<1>9. CASE ~job.zip /\ delivered' = Append(delivered, <<how, t>>) /\ UNCHANGED <<missed, entries>>
  <2>1. /\ delivered' \in Seq((Modes \cup {"image", "zip"}) \X Nat) /\ Len(delivered') = Len(delivered) + 1
        /\ DOMAIN delivered' = 1 .. Len(delivered) + 1 /\ delivered' # <<>>
        /\ \A i \in 1 .. Len(delivered) : delivered'[i] = delivered[i]
        /\ delivered'[Len(delivered) + 1] = <<how, t>>
    <3>1. <<how, t>> \in (Modes \cup {"image", "zip"}) \X Nat
      BY <1>2 DEF how, Modes
    <3> HIDE DEF how
    <3> QED
      BY <1>4, <1>5, <1>9, <3>1, AppendProperties
  <2>2. Numbers' = Append(Numbers, t)
    <3>1. Append(Numbers, t) \in Seq(Nat) /\ Len(Append(Numbers, t)) = Len(delivered) + 1
          /\ \A i \in 1 .. Len(delivered) : Append(Numbers, t)[i] = Numbers[i]
          /\ Append(Numbers, t)[Len(delivered) + 1] = t
      BY <1>2, <1>5, <1>6, AppendProperties
    <3>2. Numbers' \in [1 .. Len(delivered) + 1 -> Nat]
      <4> SUFFICES ASSUME NEW i \in DOMAIN delivered' PROVE delivered'[i][2] \in Nat
        BY <2>1 DEF Numbers
      <4> QED
        BY <1>2, <1>5, <2>1
    <3>3. \A i \in 1 .. Len(delivered) + 1 : Numbers'[i] = Append(Numbers, t)[i]
      <4> SUFFICES ASSUME NEW i \in 1 .. Len(delivered) + 1 PROVE Numbers'[i] = Append(Numbers, t)[i]
        OBVIOUS
      <4>1. Numbers'[i] = delivered'[i][2]
        BY <2>1 DEF Numbers
      <4>2. CASE i \in 1 .. Len(delivered)
        BY <1>5, <2>1, <3>1, <4>1, <4>2 DEF Numbers
      <4>3. CASE i = Len(delivered) + 1
        BY <2>1, <3>1, <4>1, <4>3
      <4>4. i \in 1 .. Len(delivered) \/ i = Len(delivered) + 1
        BY <1>5
      <4> QED
        BY <4>2, <4>3, <4>4
    <3>4. Append(Numbers, t) \in [1 .. Len(delivered) + 1 -> Nat]
      BY <3>1, LenProperties
    <3> QED
      BY <3>2, <3>3, <3>4
  <2>3. HandedOver' = Append(HandedOver, t)
    BY <1>1, <1>9, <2>2 DEF HandedOver
  <2>4. InOrder(HandedOver', missed', First(job'), job'.next)
    BY <1>1, <1>2, <1>4, <1>6, <1>9, <2>3, OneHanded DEF t
  <2>5. \A i \in DOMAIN delivered' : delivered'[i][1] = how
    <3>1. \A i \in DOMAIN delivered : delivered[i][1] = how
      BY <1>3, <1>9 DEF how, MediaInv, DeliveredInv
    <3> QED
      BY <1>5, <2>1, <3>1
  <2>6. ASSUME NEW i \in DOMAIN delivered', NEW k \in DOMAIN delivered', i < k, how = "image"
        PROVE  delivered'[i][2] < delivered'[k][2]
    <3>1. ~job'.zip /\ Increasing(Numbers')
      BY <1>1, <1>9, <2>4 DEF InOrder, HandedOver
    <3> QED
      BY <2>6, <3>1 DEF Increasing, Numbers
  <2>7. DeliveredInv'
    BY <1>1, <1>3, <1>4, <1>9, <2>1, <2>4, <2>5, <2>6 DEF DeliveredInv, how
  <2>8. EndsInv'
    BY <1>1, <1>3, <2>1 DEF MediaInv, EndsInv, Resting
  <2> QED
    BY <1>1, <2>7, <2>8 DEF MediaInv, KeptInv, MediaSteps
<1> QED
  BY <1>7, <1>8, <1>9 DEF TakesOne, t, how

-----------------------------------------------------------------------------
(* The request, and what is learnt of it.                                  *)

\* A step that leaves what is known of the request.
LEMMA MovesOn ==
  ASSUME MediaInv, at \notin Resting, NEW s \in MediaSteps \ Resting, Placed(s, job), Progress(s, job), SendsNothing,
         s \in Early \cup {"tracks", "choose"} => at \in Early \cup {"tracks", "choose"},
         s \in Single => at \in Single, s \in ListSteps <=> at \in ListSteps
  PROVE  MediaInv'
BY QuietKeeps DEF SameList

LEMMA ApisInTurn ==
  ASSUME MediaInv, at \in AtApis, ApiFails, SendsNothing
  PROVE  MediaInv'
<1> DEFINE x == [job EXCEPT !.api = @ + 1]
<1>1. job \in Requests /\ Placed(at, job) /\ job.api < Apis /\ Progress(at, x) /\ job.api + 1 \in 1 .. Apis
  BY MediaConstants DEF MediaInv, Placed, ApiFails, Requests
<1>2. /\ x \in Requests /\ SameList(x) /\ x.cmd = job.cmd /\ x.long = job.long /\ x.unmeasured = job.unmeasured
      /\ x.images = job.images /\ x.video = job.video /\ x.type = job.type /\ x.mode = job.mode
      /\ x.found = job.found
  BY <1>1 DEF Requests, SameList
<1> HIDE DEF x
<1>3. Placed(at, x)
  BY <1>1, <1>2 DEF Placed, SameList, Due
<1>4. at \in MediaSteps \ Resting
  BY DEF AtApis, MediaSteps, Resting
<1> QED
  BY <1>1, <1>2, <1>3, <1>4, QuietKeeps

\* A request that ends with a word to its user, before anything but images was sent.
LEMMA ToldOrSilent ==
  ASSUME MediaInv, at \in Single \cup {"tracks", "choose"}, SendsNothing,
         Ends("told") \/ Ends("silent") \/ Ends("cancelled")
  PROVE  MediaInv'
<1>1. at \notin Resting /\ at \notin ListSteps
  BY DEF Single, Early, Formed, Resting, ListSteps
<1>2. files' = IF job.zip /\ at \in ListSteps THEN files - 1 ELSE files
  BY <1>1 DEF SendsNothing
<1>3. UNCHANGED <<delivered, missed, entries>>
  BY DEF SendsNothing
<1> QED
  BY <1>1, <1>2, <1>3, StopKeeps

LEMMA InfoKeeps ==
  ASSUME MediaInv,
         PlayInfo \/ YtAudioInfo \/ YtVideoInfo \/ TikTokInfo \/ SpotifyInfo \/ SearchYouTube
  PROVE  MediaInv'
<1>1. /\ at \in {"info", "find"} /\ SendsNothing
      /\ \/ Progress("prefer", job) /\ (job.long /\ job.cmd = "ytvideo" => job.unmeasured)
         \/ Progress("infoApi", job) /\ at = "info"
         \/ Progress("find", job) /\ at = "info" /\ job.cmd = "spotify"
         \/ Ends("told") \/ Ends("silent")
  BY DEF PlayInfo, YtAudioInfo, YtVideoInfo, TikTokInfo, SpotifyInfo, SearchYouTube, Info, MediaInv, Placed, Resting
<1>2. Placed(at, job) /\ at \notin Resting /\ at \in Single /\ at \in Early /\ at \notin ListSteps
  BY <1>1 DEF MediaInv, Single, Early, Resting, ListSteps
<1>3. CASE Progress("prefer", job) /\ (job.long /\ job.cmd = "ytvideo" => job.unmeasured)
  <2>1. Placed("prefer", job)
    BY <1>2, <1>3 DEF Placed, Single, Early, Formed, ListSteps
  <2> QED
    BY <1>1, <1>2, <1>3, <2>1, MovesOn DEF MediaSteps, Resting, Single, Early, Formed, ListSteps
<1>4. CASE Progress("infoApi", job)
  <2>1. Placed("infoApi", job)
    BY <1>2, <1>4 DEF Placed, Single, Early, Formed, ListSteps
  <2> QED
    BY <1>1, <1>2, <1>4, <2>1, MovesOn DEF MediaSteps, AtApis, Resting, Single, Early, Formed, ListSteps
<1>5. CASE Progress("find", job) /\ job.cmd = "spotify"
  <2>1. Placed("find", job)
    BY <1>2, <1>5 DEF Placed, Single, Early, Formed, ListSteps
  <2> QED
    BY <1>1, <1>2, <1>5, <2>1, MovesOn DEF MediaSteps, Resting, Single, Early, Formed, ListSteps
<1>6. CASE Ends("told") \/ Ends("silent")
  BY <1>1, <1>2, <1>6, ToldOrSilent
<1> QED
  BY <1>1, <1>3, <1>4, <1>5, <1>6

LEMMA InfoApiKeeps ==
  ASSUME MediaInv, InfoApi
  PROVE  MediaInv'
<1>1. at = "infoApi" /\ SendsNothing /\ Placed(at, job) /\ at \notin Resting /\ at \in Single /\ at \in AtApis
  BY DEF InfoApi, MediaInv, Single, Early, Resting, AtApis
<1>2. CASE Ends("told")
  BY <1>1, <1>2, ToldOrSilent
<1>3. CASE ApiFails
  BY <1>1, <1>3, ApisInTurn
<1>4. CASE ~job.long /\ Progress("prefer", job)
  <2>1. Placed("prefer", job)
    BY <1>1, <1>4 DEF Placed, Single, Early, Formed, ListSteps
  <2> QED
    BY <1>1, <1>4, <2>1, MovesOn DEF MediaSteps, Resting, Single, Early, Formed, ListSteps
<1>5. CASE Progress("prefer", [job EXCEPT !.unmeasured = TRUE])
  <2> DEFINE x == [job EXCEPT !.unmeasured = TRUE]
  <2>1. /\ x \in Requests /\ SameList(x) /\ x.cmd = job.cmd /\ x.unmeasured /\ x.images = job.images
        /\ x.type = job.type /\ x.mode = job.mode /\ x.found = job.found
    BY <1>1 DEF Placed, Requests, SameList
  <2> HIDE DEF x
  <2>2. Placed("prefer", x)
    BY <1>1, <2>1 DEF Placed, SameList, Due, Single, Early, Formed, ListSteps
  <2> QED
    BY <1>1, <1>5, <2>1, <2>2, QuietKeeps DEF x, MediaSteps, Resting, Single, Early, Formed, ListSteps
<1> QED
  BY <1>2, <1>3, <1>4, <1>5 DEF InfoApi

LEMMA InstagramKeeps ==
  ASSUME MediaInv, InstagramInfo
  PROVE  MediaInv'
<1>1. at = "info" /\ job.cmd = "instagram" /\ SendsNothing /\ Placed(at, job) /\ at \notin Resting /\ at \in Single
      /\ at \in Early /\ at \notin ListSteps
  BY DEF InstagramInfo, Info, MediaInv, Single, Early, Resting, ListSteps
<1>2. CASE Ends("told")
  BY <1>1, <1>2, ToldOrSilent
<1>3. ASSUME NEW n \in 0 .. MaxImages, NEW video \in BOOLEAN, n > 0 \/ video,
             Progress("images", [job EXCEPT !.images = n, !.video = video])
      PROVE  MediaInv'
  <2> DEFINE x == [job EXCEPT !.images = n, !.video = video]
  <2>1. n \in Nat
    BY MediaConstants
  <2>2. /\ x \in Requests /\ SameList(x) /\ x.cmd = job.cmd /\ x.images = n /\ x.video = video
        /\ x.type = job.type /\ x.mode = job.mode /\ x.found = job.found
    BY <1>1, <2>1 DEF Placed, Requests, SameList
  <2> HIDE DEF x
  <2>3. Placed("images", x)
    BY <1>1, <1>3, <2>1, <2>2 DEF Placed, SameList, Due, Single, Early, Formed, ListSteps
  <2> QED
    BY <1>1, <1>3, <2>2, <2>3, QuietKeeps DEF x, MediaSteps, Resting, Single, Early, Formed, ListSteps
<1> QED
  BY <1>2, <1>3 DEF InstagramInfo

LEMMA ImagesKeep ==
  ASSUME MediaInv, Images
  PROVE  MediaInv'
<1>1. /\ at = "images" /\ UNCHANGED <<entries, files>> /\ Placed(at, job) /\ at \notin Resting /\ at \in Single
      /\ at \notin ListSteps /\ job \in Requests /\ job.range = Everything /\ job.tracks = <<>> /\ ~job.zip
      /\ job.next \in Nat \ {0} /\ job.images \in Nat /\ job.next <= job.images + 1 /\ (job.images > 0 \/ job.video)
  BY DEF Images, MediaInv, Single, Placed, Requests, Resting, ListSteps
<1>2. First(job) + job.next - 1 = job.next
  BY <1>1 DEF First, From
<1>3. CASE job.next <= job.images /\ Progress("images", [job EXCEPT !.next = @ + 1])
  <2> DEFINE x == [job EXCEPT !.next = @ + 1]
  <2>1. /\ x \in Requests /\ x.next = job.next + 1 /\ x.cmd = job.cmd /\ x.images = job.images
        /\ x.video = job.video /\ x.type = job.type /\ x.mode = job.mode /\ x.found = job.found
        /\ x.range = job.range /\ x.zip = job.zip /\ x.tracks = job.tracks /\ x.long = job.long
        /\ x.unmeasured = job.unmeasured
    BY <1>1 DEF Requests
  <2> HIDE DEF x
  <2>2. Placed("images", x)
    BY <1>1, <1>3, <2>1 DEF Placed, Single, Early, Formed, ListSteps
  <2>3. TakesOne
    BY <1>1, <1>2, <1>3 DEF Images, TakesOne
  <2> QED
    BY <1>1, <1>3, <2>1, <2>2, <2>3, TakeKeeps DEF x
<1>4. CASE job.next > job.images
  <2>1. UNCHANGED <<delivered, missed>> /\ SendsNothing
        /\ IF job.video THEN Progress("prefer", job) ELSE Ends("none")
    BY <1>1, <1>4 DEF Images, SendsNothing
  <2>2. CASE job.video
    <3>1. Placed("prefer", job)
      BY <1>1, <1>4 DEF Placed, Single, Early, Formed, ListSteps
    <3> QED
      BY <1>1, <2>1, <2>2, <3>1, MovesOn DEF MediaSteps, Resting, Single, Early, Formed, ListSteps
  <2>3. CASE ~job.video
    <3>1. InOrder(HandedOver, missed, 1, job.next) /\ HandedOver = Numbers
      BY <1>1 DEF MediaInv, DeliveredInv, HandedOver, First, From
    <3>2. 1 \in 1 .. 1 + job.next - 2
      BY <1>1, <1>4, <2>3
    <3>3. missed # {} \/ DOMAIN Numbers # {}
      BY <3>1, <3>2 DEF InOrder
    <3>4. delivered # <<>> \/ missed # {}
      BY <3>3 DEF Numbers
    <3>5. files' = IF job.zip /\ at \in ListSteps THEN files - 1 ELSE files
      BY <1>1
    <3> QED
      BY <1>1, <2>1, <2>3, <3>4, <3>5, StopKeeps
  <2> QED
    BY <2>2, <2>3
<1> QED
  BY <1>1, <1>3, <1>4 DEF Images

-----------------------------------------------------------------------------
(* The preference, or the menu; and the media that is sent.                *)

LEMMA FormatsOffered ==
  ASSUME NEW cmd, NEW n \in 1 .. 4
  PROVE  FormatActions(cmd)[n].mode \in {Kind(cmd), "document"}
<1>1. Options(cmd)[1] = Kind(cmd) /\ Options(cmd)[2] = "document"
  BY DEF Options, Kind
<1>2. (n + 1) \div 2 \in {1, 2}
  <2>1. CASE n = 1 \/ n = 2
    BY <2>1
  <2>2. CASE n = 3 \/ n = 4
    BY <2>2
  <2> QED
    BY <2>1, <2>2
<1>3. FormatActions(cmd)[n].mode = Options(cmd)[(n + 1) \div 2]
  BY DEF FormatActions
<1> QED
  BY <1>1, <1>2, <1>3

\* A command hands media of its kind over, to a menu or in the format that is kept.
LEMMA PreferKeeps ==
  ASSUME MediaInv, NEW cmd \in Wanted, Prefer(cmd, Kind(cmd))
  PROVE  MediaInv'
<1>1. /\ at = "prefer" /\ job.cmd = cmd /\ SendsNothing /\ Placed(at, job) /\ at \notin Resting /\ at \in Single
      /\ job \in Requests /\ Kind(cmd) \in {"audio", "video"}
  BY DEF Prefer, MediaInv, Single, Resting, Placed, Kind
<1>2. CASE Ends("told")
  BY <1>1, <1>2, ToldOrSilent
<1>3. CASE kept[cmd] = "none" /\ Progress("menu", [job EXCEPT !.type = Kind(cmd)])
  <2> DEFINE x == [job EXCEPT !.type = Kind(cmd)]
  <2>1. /\ x \in Requests /\ SameList(x) /\ x.cmd = job.cmd /\ x.unmeasured = job.unmeasured /\ x.images = job.images
        /\ x.long = job.long /\ x.type = Kind(cmd) /\ x.mode = job.mode /\ x.found = job.found
    BY <1>1 DEF Requests, SameList
  <2> HIDE DEF x
  <2>2. Placed("menu", x)
    BY <1>1, <2>1 DEF Placed, SameList, Due, Single, Early, Formed, ListSteps
  <2> QED
    BY <1>1, <1>3, <2>1, <2>2, QuietKeeps DEF x, MediaSteps, Resting, Single, Early, Formed, ListSteps
<1>4. CASE kept[cmd] # "none" /\ Progress("download", [job EXCEPT !.type = Kind(cmd), !.mode = kept[cmd], !.api = 1])
  <2> DEFINE m == kept[cmd]
             x == [job EXCEPT !.type = Kind(cmd), !.mode = m, !.api = 1]
  <2>1. m \in {Kind(cmd), "document"} /\ 1 \in 1 .. Apis /\ m \in Modes
    BY <1>1, <1>4, MediaConstants DEF MediaInv, KeptInv, Modes
  <2> HIDE DEF m
  <2>2. /\ x \in Requests /\ SameList(x) /\ x.cmd = job.cmd /\ x.unmeasured = job.unmeasured /\ x.images = job.images
        /\ x.long = job.long /\ x.type = Kind(cmd) /\ x.mode = m /\ x.found = job.found
    BY <1>1, <2>1 DEF Requests, SameList
  <2> HIDE DEF x
  <2>3. Placed("download", x)
    BY <1>1, <2>1, <2>2 DEF Placed, SameList, Due, Single, Early, Formed, ListSteps
  <2> QED
    BY <1>1, <1>4, <2>2, <2>3, QuietKeeps DEF x, m, MediaSteps, AtApis, Resting, Single, Early, Formed, ListSteps
<1> QED
  BY <1>2, <1>3, <1>4 DEF Prefer

LEMMA PrefersKeep ==
  ASSUME MediaInv,
         PlayPrefers \/ SpotifyPrefers \/ YtAudioPrefers \/ YtVideoPrefers \/ TikTokPrefers \/ InstagramPrefers
  PROVE  MediaInv'
<1>1. PICK cmd : Prefer(cmd, Kind(cmd)) /\ cmd # "none"
  BY DEF PlayPrefers, SpotifyPrefers, YtAudioPrefers, YtVideoPrefers, TikTokPrefers, InstagramPrefers, Kind
<1>2. cmd \in Wanted
  BY <1>1 DEF Prefer, MediaInv, Placed, Requests
<1> QED
  BY <1>1, <1>2, PreferKeeps

LEMMA ChooseKeeps ==
  ASSUME MediaInv, NEW n \in 1 .. 4, ChooseFormat(n)
  PROVE  MediaInv'
<1> DEFINE m == FormatActions(job.cmd)[n].mode
           s == IF FormatActions(job.cmd)[n].remember THEN "remember" ELSE "download"
           x == [job EXCEPT !.mode = m, !.api = 1]
<1>1. /\ at = "menu" /\ SendsNothing /\ Placed(at, job) /\ at \notin Resting /\ at \in Single
      /\ job \in Requests /\ Progress(s, x)
  BY DEF ChooseFormat, MediaInv, Single, Resting, Placed
<1>2. m \in {job.type, "document"} /\ 1 \in 1 .. Apis /\ m \in Modes /\ s \in {"remember", "download"}
  BY <1>1, FormatsOffered, MediaConstants DEF Placed, Kind, Modes
<1> HIDE DEF m, s
<1>3. /\ x \in Requests /\ SameList(x) /\ x.cmd = job.cmd /\ x.unmeasured = job.unmeasured /\ x.images = job.images
      /\ x.long = job.long /\ x.type = job.type /\ x.mode = m /\ x.found = job.found
  BY <1>1, <1>2 DEF Requests, SameList
<1> HIDE DEF x
<1>4. Placed(s, x)
  BY <1>1, <1>2, <1>3 DEF Placed, SameList, Due, Single, Early, Formed, ListSteps
<1> QED
  BY <1>1, <1>2, <1>3, <1>4, QuietKeeps DEF MediaSteps, AtApis, Resting, Single, Early, Formed, ListSteps

LEMMA RememberKeeps ==
  ASSUME MediaInv, Remember
  PROVE  MediaInv'
<1>1. /\ at = "remember" /\ SendsNothing /\ Placed(at, job) /\ at \notin Resting /\ at \in Single
      /\ job \in Requests
  BY DEF Remember, MediaInv, Single, Formed, Resting, Placed
<1>2. CASE Progress("menu", job)
  <2>1. Placed("menu", job)
    BY <1>1 DEF Placed, Single, Early, Formed, ListSteps
  <2> QED
    BY <1>1, <1>2, <2>1, MovesOn DEF MediaSteps, Resting, Single, Early, Formed, ListSteps
<1>3. CASE kept' = [kept EXCEPT ![job.cmd] = job.mode] /\ at' = "download" /\ UNCHANGED <<job, word, requests, deaths>>
  <2>1. Placed("download", job)
    BY <1>1 DEF Placed, Single, Early, Formed, ListSteps
  <2>2. KeptInv'
    <3>1. job.cmd \in Wanted /\ job.mode \in {Kind(job.cmd), "document"} /\ job.mode \in Modes
      BY <1>1 DEF Placed, Formed, Kind, Modes
    <3> QED
      BY <1>3, <3>1 DEF MediaInv, KeptInv
  <2>3. DeliveredInv'
    <3>1. UNCHANGED <<delivered, missed, entries, job>>
      BY <1>1, <1>3 DEF SendsNothing
    <3>2. HandedOver' = HandedOver /\ First(job') = First(job)
      BY <3>1 DEF HandedOver, Numbers
    <3> QED
      BY <1>1, <1>3, <3>1, <3>2 DEF MediaInv, DeliveredInv, Resting, Single, Early, Formed
  <2>4. EndsInv'
    BY <1>1, <1>3 DEF SendsNothing, MediaInv, EndsInv, Resting, ListSteps
  <2> QED
    BY <1>3, <2>1, <2>2, <2>3, <2>4 DEF MediaInv, MediaSteps, AtApis
<1> QED
  BY <1>1, <1>2, <1>3 DEF Remember

LEMMA DownloadKeeps ==
  ASSUME MediaInv, Download
  PROVE  MediaInv'
<1>1. /\ at = "download" /\ SendsNothing /\ Placed(at, job) /\ at \notin Resting /\ at \in Single /\ at \in AtApis
      /\ (Progress("send", job) \/ ApiFails \/ Ends("told"))
  BY DEF Download, MediaInv, Single, Formed, Resting, AtApis
<1>2. CASE Progress("send", job)
  <2>1. Placed("send", job)
    BY <1>1 DEF Placed, Single, Early, Formed, ListSteps
  <2> QED
    BY <1>1, <1>2, <2>1, MovesOn DEF MediaSteps, Resting, Single, Early, Formed, ListSteps
<1> QED
  BY <1>1, <1>2, ApisInTurn, ToldOrSilent

LEMMA SendKeeps ==
  ASSUME MediaInv, SendMedia
  PROVE  MediaInv'
<1>1. /\ at = "send" /\ UNCHANGED <<missed, entries, files>> /\ Placed(at, job) /\ at \notin Resting
      /\ at \in Single /\ at \notin ListSteps /\ job \in Requests /\ job.mode \in Modes /\ job.tracks = <<>> /\ ~job.zip
  BY DEF SendMedia, MediaInv, Single, Formed, Resting, ListSteps, Placed, Kind, Modes
<1>2. CASE Ends("told") /\ UNCHANGED delivered
  BY <1>1, <1>2, ToldOrSilent DEF SendsNothing
<1>3. CASE Ends("none") /\ delivered' = Append(delivered, <<job.mode, 0>>)
  <2>1. at' = "idle" /\ word' = "none" /\ UNCHANGED <<job, kept, requests, deaths>>
    BY <1>3 DEF Ends
  <2>2. Placed(at', job')
    BY <1>1, <2>1, PlacedToRest DEF Resting
  <2>3. /\ delivered \in Seq((Modes \cup {"image", "zip"}) \X Nat)
        /\ \A i \in DOMAIN delivered : delivered[i][1] = "image"
        /\ \A i, k \in DOMAIN delivered : i < k => delivered[i][2] < delivered[k][2]
        /\ entries \in Seq(Nat) /\ missed \subseteq Nat
    BY <1>1 DEF MediaInv, DeliveredInv
  <2> DEFINE d == <<job.mode, 0>>
  <2>4. d \in (Modes \cup {"image", "zip"}) \X Nat /\ d[1] = job.mode
    BY <1>1
  <2> HIDE DEF d
  <2>5. /\ delivered' \in Seq((Modes \cup {"image", "zip"}) \X Nat) /\ delivered' # <<>>
        /\ Len(delivered) \in Nat /\ DOMAIN delivered = 1 .. Len(delivered)
        /\ DOMAIN delivered' = 1 .. Len(delivered) + 1
        /\ \A i \in 1 .. Len(delivered) : delivered'[i] = delivered[i]
        /\ delivered'[Len(delivered) + 1] = d
    BY <1>3, <2>3, <2>4, AppendProperties DEF d
  <2>6. job.mode \notin {"image", "zip"}
    BY <1>1 DEF Modes
  <2>7. \A i \in DOMAIN delivered' : delivered'[i][1] \in {"image", job.mode} \ {"zip"}
    <3> SUFFICES ASSUME NEW i \in DOMAIN delivered'
                 PROVE  delivered'[i][1] = "image" \/ delivered'[i][1] = job.mode
      BY <2>6
    <3>1. i \in DOMAIN delivered \/ i = Len(delivered) + 1
      BY <2>5
    <3> QED
      BY <2>3, <2>4, <2>5, <3>1
  <2>8. \A i, k \in DOMAIN delivered' : i < k /\ delivered'[i][1] = "image" /\ delivered'[k][1] = "image"
                                          => delivered'[i][2] < delivered'[k][2]
    <3> SUFFICES ASSUME NEW i \in DOMAIN delivered', NEW k \in DOMAIN delivered', i < k,
                        delivered'[i][1] = "image", delivered'[k][1] = "image"
                 PROVE  delivered'[i][2] < delivered'[k][2]
      OBVIOUS
    <3>1. k # Len(delivered) + 1
      BY <2>4, <2>5, <2>6
    <3>2. i \in DOMAIN delivered /\ k \in DOMAIN delivered
      BY <2>5, <3>1
    <3> QED
      BY <2>3, <2>5, <3>2
  <2>9. at' \in Resting /\ at' \notin Single /\ at' \notin Early \cup {"tracks", "choose"} \cup ListSteps
    BY <2>1 DEF Resting, Single, Early, Formed, ListSteps
  <2>10. DeliveredInv'
    BY <1>1, <2>1, <2>3, <2>5, <2>7, <2>8, <2>9 DEF DeliveredInv
  <2>11. EndsInv'
    BY <1>1, <2>1, <2>5, <2>9 DEF MediaInv, EndsInv
  <2> QED
    BY <2>1, <2>2, <2>9, <2>10, <2>11 DEF MediaInv, KeptInv, MediaSteps
<1> QED
  BY <1>2, <1>3 DEF SendMedia

-----------------------------------------------------------------------------
(* Playlists.                                                              *)

LEMMA TracksKeep ==
  ASSUME MediaInv, Tracks
  PROVE  MediaInv'
<1>1. /\ at = "tracks" /\ SendsNothing /\ Placed(at, job) /\ at \notin Resting /\ job \in Requests
      /\ job.tracks = <<>> /\ job.next = 1 /\ ~job.zip /\ delivered = <<>> /\ missed = {} /\ entries = <<>>
      /\ job.range \in TrackRanges \cup {Everything}
  BY DEF Tracks, MediaInv, DeliveredInv, Resting, Placed, Requests
<1>2. CASE Ends("told")
  BY <1>1, <1>2, ToldOrSilent
<1>3. ASSUME NEW n \in Lengths,
             Progress("choose", [job EXCEPT !.found = Min({n, MaxTracks}), !.tracks = Selected(Min({n, MaxTracks}), job.range)])
      PROVE  MediaInv'
  <2> DEFINE found == Min({n, MaxTracks})
             list  == Selected(found, job.range)
             x     == [job EXCEPT !.found = found, !.tracks = list]
  <2>1. found \in Nat
    BY MediaConstants, Smaller
  <2> HIDE DEF found
  <2>2. list \in Seq(Nat)
    BY <1>1, <2>1, SelectedTracks
  <2> HIDE DEF list
  <2>3. /\ x \in Requests /\ x.cmd = job.cmd /\ x.unmeasured = job.unmeasured /\ x.images = job.images
        /\ x.long = job.long /\ x.type = job.type /\ x.mode = job.mode /\ x.found = found
        /\ x.tracks = list /\ x.range = job.range /\ x.next = job.next /\ x.zip = job.zip
    BY <1>1, <2>1, <2>2 DEF Requests
  <2>4. job' = x /\ at' = "choose" /\ UNCHANGED <<kept, word, requests, deaths, delivered, missed, entries, files>>
    BY <1>1, <1>3 DEF Progress, SendsNothing, found, list
  <2> HIDE DEF x
  <2>5. Len(Due(x)) \in Nat
    BY <2>3, DueTracks
  <2>6. job.mode = "none" /\ (job.long /\ job.cmd = "ytvideo" => job.unmeasured)
    BY <1>1 DEF Placed, Resting
  <2>7. Placed("choose", x)
    <3>1. x.tracks # <<>> => x.tracks = Selected(x.found, x.range) /\ x.mode = "none" /\ x.next <= Len(Due(x)) + 1
      BY <1>1, <2>3, <2>5, <2>6 DEF list
    <3>2. x.next = 1 /\ x.images = 0 /\ ~x.zip
      BY <1>1, <2>3 DEF Placed
    <3> QED
      BY <2>3, <2>6, <3>1, <3>2 DEF Placed, Single, Early, Formed, ListSteps
  <2>8. DeliveredInv'
    <3>1. HandedOver' = HandedOver /\ First(job') = First(job) /\ job'.next = job.next
      BY <1>1, <2>3, <2>4 DEF HandedOver, Numbers, First
    <3>2. InOrder(HandedOver', missed', First(job'), job'.next)
      BY <1>1, <2>4, <3>1 DEF MediaInv, DeliveredInv
    <3>3. delivered' \in Seq((Modes \cup {"image", "zip"}) \X Nat) /\ entries' \in Seq(Nat) /\ missed' \subseteq Nat
      BY <2>4 DEF MediaInv, DeliveredInv
    <3>4. delivered' = <<>> /\ entries' = <<>> /\ missed' = {} /\ ~job'.zip /\ DOMAIN delivered' = {}
      BY <1>1, <2>3, <2>4
    <3> QED
      BY <3>2, <3>3, <3>4 DEF DeliveredInv
  <2>9. EndsInv'
    BY <1>1, <2>3, <2>4 DEF MediaInv, EndsInv, Resting, ListSteps
  <2> QED
    BY <2>4, <2>7, <2>8, <2>9 DEF MediaInv, KeptInv, MediaSteps
<1> QED
  BY <1>1, <1>2, <1>3 DEF Tracks

LEMMA DeliveryKeeps ==
  ASSUME MediaInv, NEW zip \in BOOLEAN, ChooseDelivery(zip)
  PROVE  MediaInv'
<1>1. /\ at = "choose" /\ UNCHANGED <<delivered, missed, entries>> /\ Placed(at, job) /\ at \notin Resting
      /\ job \in Requests /\ job.next = 1 /\ ~job.zip /\ delivered = <<>> /\ missed = {} /\ entries = <<>>
      /\ at \notin ListSteps
  BY DEF ChooseDelivery, MediaInv, DeliveredInv, Resting, Placed, ListSteps
<1>2. CASE Ends("told") /\ UNCHANGED files
  BY <1>1, <1>2, ToldOrSilent DEF SendsNothing
<1>3. CASE job.tracks # <<>> /\ Progress("search", [job EXCEPT !.zip = zip]) /\ files' = IF zip THEN files + 1 ELSE files
  <2> DEFINE x == [job EXCEPT !.zip = zip]
  <2>1. /\ x \in Requests /\ x.cmd = job.cmd /\ x.unmeasured = job.unmeasured /\ x.images = job.images
        /\ x.long = job.long /\ x.type = job.type /\ x.mode = job.mode /\ x.found = job.found
        /\ x.tracks = job.tracks /\ x.range = job.range /\ x.next = job.next /\ x.zip = zip
    BY <1>1 DEF Requests
  <2>2. job' = x /\ at' = "search" /\ UNCHANGED <<kept, word, requests, deaths, delivered, missed, entries>>
    BY <1>1, <1>3 DEF Progress
  <2> HIDE DEF x
  <2>3. Placed("search", x)
    BY <1>1, <1>3, <2>1 DEF Placed, Due, Resting, Single, Early, Formed, ListSteps
  <2>4. DeliveredInv'
    <3>1. /\ DOMAIN delivered = {} /\ DOMAIN entries = {}
          /\ HandedOver = Numbers /\ DOMAIN Numbers = {}
      BY <1>1 DEF HandedOver, Numbers
    <3>2. DOMAIN HandedOver' = {} /\ First(job') = First(job) /\ job'.next = job.next
      BY <1>1, <2>1, <2>2, <3>1 DEF HandedOver, Numbers, First
    <3>3. InOrder(HandedOver, missed, First(job), job.next)
      BY <1>1 DEF MediaInv, DeliveredInv
    <3>4. InOrder(HandedOver', missed', First(job'), job'.next)
      <4>1. missed = First(job) .. First(job) + job.next - 2
        BY <1>1, <3>1, <3>3 DEF InOrder
      <4> QED
        BY <1>1, <2>2, <3>2, <4>1 DEF InOrder, Increasing
    <3>5. delivered' \in Seq((Modes \cup {"image", "zip"}) \X Nat) /\ entries' \in Seq(Nat) /\ missed' \subseteq Nat
      BY <2>2 DEF MediaInv, DeliveredInv
    <3>6. delivered' = <<>> /\ entries' = <<>> /\ missed' = {} /\ DOMAIN delivered' = {}
      BY <1>1, <2>2, <3>1
    <3> QED
      BY <3>4, <3>5, <3>6 DEF DeliveredInv
  <2>5. EndsInv'
    BY <1>1, <1>3, <2>1, <2>2 DEF MediaInv, EndsInv, Resting, ListSteps
  <2> QED
    BY <2>2, <2>3, <2>4, <2>5 DEF MediaInv, KeptInv, MediaSteps, ListSteps
<1> QED
  BY <1>1, <1>2, <1>3 DEF ChooseDelivery

\* What a step of the list knows.
LEMMA OfTheList ==
  ASSUME MediaInv, at \in ListSteps
  PROVE  /\ Placed(at, job) /\ at \notin Resting /\ at \notin Single /\ job \in Requests /\ job.tracks # <<>>
         /\ job.tracks = Selected(job.found, job.range) /\ job.next \in Nat \ {0} /\ job.next <= Len(ToSend) + 1
         /\ ToSend = Due(job) /\ Len(ToSend) \in Nat \ {0}
         /\ at \in {"fetch", "post"} => job.next <= Len(ToSend)
<1>1. Placed(at, job) /\ job \in Requests /\ job.tracks # <<>> /\ job.next \in Nat \ {0} /\ ToSend = Due(job)
  BY DEF MediaInv, Placed, ToSend, Due, Requests
<1>2. Len(Due(job)) \in Nat \ {0}
  BY <1>1, DueTracks
<1> QED
  BY <1>1, <1>2 DEF Placed, Resting, Single, Early, Formed, ListSteps

\* One track is behind.
LEMMA TrackBehind ==
  ASSUME MediaInv, at \in ListSteps, job.next <= Len(ToSend), NextTrack, UNCHANGED files,
         \/ missed' = missed \cup {ToSend[job.next]} /\ UNCHANGED <<delivered, entries>>
         \/ ~job.zip /\ delivered' = Append(delivered, <<"audio", ToSend[job.next]>>) /\ UNCHANGED <<missed, entries>>
         \/ job.zip /\ entries' = Append(entries, ToSend[job.next]) /\ UNCHANGED <<delivered, missed>>
  PROVE  MediaInv'
<1> DEFINE n == job.next + 1
           x == [job EXCEPT !.next = n, !.api = 1]
<1>1. /\ Placed(at, job) /\ job \in Requests /\ job.tracks # <<>> /\ job.next \in Nat \ {0} /\ 1 \in 1 .. Apis
      /\ ToSend = Due(job) /\ ToSend[job.next] = First(job) + job.next - 1 /\ Len(ToSend) \in Nat \ {0}
  BY OfTheList, NextDue, MediaConstants
<1>0. n \in Nat \ {0}
  BY <1>1
<1>3. Progress("search", x)
  BY DEF NextTrack
<1> HIDE DEF n
<1>2. /\ x \in Requests /\ x.next = n /\ x.cmd = job.cmd /\ x.images = job.images
      /\ x.video = job.video /\ x.type = job.type /\ x.mode = job.mode /\ x.found = job.found
      /\ x.range = job.range /\ x.zip = job.zip /\ x.tracks = job.tracks /\ x.long = job.long
      /\ x.unmeasured = job.unmeasured
  BY <1>0, <1>1 DEF Requests
<1> HIDE DEF x
<1>4. x.next <= Len(Due(x)) + 1
  <2>1. Due(x) = Due(job)
    BY <1>2 DEF Due
  <2> QED
    BY <1>1, <1>2, <2>1 DEF n
<1>5. Placed("search", x)
  BY <1>1, <1>2, <1>4 DEF Placed, Resting, Single, Early, Formed, ListSteps
<1>6. TakesOne
  BY <1>1 DEF TakesOne
<1>7. at # "images" /\ "search" \in {"images"} \cup ListSteps
  BY DEF ListSteps
<1> QED
  BY <1>2, <1>3, <1>5, <1>6, <1>7, TakeKeeps DEF n

LEMMA SearchKeeps ==
  ASSUME MediaInv, Search
  PROVE  MediaInv'
<1>1. at = "search" /\ at \in ListSteps
  BY DEF Search, ListSteps
<1>2. CASE job.next <= Len(ToSend) /\ GivesUp
  BY <1>1, <1>2, TrackBehind DEF GivesUp
<1>3. CASE job.next <= Len(ToSend) /\ Progress("fetch", job) /\ SendsNothing
  <2>1. Placed("fetch", job)
    BY <1>1, <1>3, OfTheList DEF Placed, Resting, Single, Early, Formed, ListSteps
  <2> QED
    BY <1>1, <1>3, <2>1, OfTheList, MovesOn DEF MediaSteps, AtApis, Resting, Single, Early, Formed, ListSteps
<1>4. CASE job.next > Len(ToSend) /\ SendsNothing /\ job.zip /\ Progress("finalize", job)
  <2>1. job.next = Len(Due(job)) + 1
    BY <1>1, <1>4, OfTheList
  <2>2. Placed("finalize", job)
    BY <1>1, <1>4, <2>1, OfTheList DEF Placed, Resting, Single, Early, Formed, ListSteps
  <2> QED
    BY <1>1, <1>4, <2>2, OfTheList, MovesOn DEF MediaSteps, Resting, Single, Early, Formed, ListSteps
<1>5. CASE job.next > Len(ToSend) /\ SendsNothing /\ ~job.zip /\ Ends("none")
  <2>1. job.next >= 2 /\ job.next \in Nat /\ job \in Requests
    BY <1>1, <1>5, OfTheList
  <2>2. InOrder(Numbers, missed, First(job), job.next)
    BY <1>1, <1>5, OfTheList DEF MediaInv, DeliveredInv, HandedOver
  <2>3. First(job) \in First(job) .. First(job) + job.next - 2
    BY <2>1, FirstOne
  <2>4. missed # {} \/ DOMAIN Numbers # {}
    BY <2>2, <2>3 DEF InOrder
  <2>5. delivered # <<>> \/ missed # {}
    BY <2>4 DEF Numbers
  <2>6. files' = IF job.zip /\ at \in ListSteps THEN files - 1 ELSE files
    BY <1>5 DEF SendsNothing
  <2>7. UNCHANGED <<delivered, missed, entries>>
    BY <1>5 DEF SendsNothing
  <2> QED
    BY <1>1, <1>5, <2>5, <2>6, <2>7, OfTheList, StopKeeps
<1> QED
  BY <1>2, <1>3, <1>4, <1>5 DEF Search

LEMMA FetchKeeps ==
  ASSUME MediaInv, Fetch \/ Post
  PROVE  MediaInv'
<1>1. at \in {"fetch", "post"} /\ at \in ListSteps /\ job.next <= Len(ToSend)
  BY OfTheList DEF Fetch, Post, ListSteps
<1>2. CASE GivesUp
  BY <1>1, <1>2, TrackBehind DEF GivesUp
<1>3. CASE at = "fetch" /\ ~job.zip /\ Progress("post", job) /\ SendsNothing
  <2>1. Placed("post", job)
    BY <1>1, <1>3, OfTheList DEF Placed, Resting, Single, Early, Formed, ListSteps
  <2> QED
    BY <1>1, <1>3, <2>1, OfTheList, MovesOn DEF MediaSteps, Resting, Single, Early, Formed, ListSteps
<1>4. CASE at = "fetch" /\ ApiFails /\ SendsNothing
  BY <1>4, ApisInTurn DEF AtApis
<1>5. CASE job.zip /\ NextTrack /\ entries' = Append(entries, ToSend[job.next]) /\ UNCHANGED <<delivered, missed, files>>
  BY <1>1, <1>5, TrackBehind
<1>6. CASE Post /\ NextTrack /\ delivered' = Append(delivered, <<"audio", ToSend[job.next]>>) /\ UNCHANGED <<missed, entries, files>>
  <2>1. ~job.zip
    BY <1>1, <1>6, OfTheList DEF Placed, Post
  <2> QED
    BY <1>1, <1>6, <2>1, TrackBehind
<1> QED
  BY <1>2, <1>3, <1>4, <1>5, <1>6 DEF Fetch, Post

LEMMA ZipKeeps ==
  ASSUME MediaInv, Finalize \/ SendZip
  PROVE  MediaInv'
<1>1. at \in {"finalize", "sendZip"} /\ at \in ListSteps /\ UNCHANGED <<missed, entries>>
  BY DEF Finalize, SendZip, ListSteps
<1>2. /\ job.zip /\ delivered = <<>> /\ files \in Nat \ {0} /\ Placed(at, job) /\ at \notin Resting
      /\ job.tracks # <<>> /\ deaths \in Nat /\ files <= deaths + 1
  BY <1>1, OfTheList DEF Placed, MediaInv, DeliveredInv, EndsInv
<1>3. CASE at = "finalize" /\ Progress("sendZip", job) /\ UNCHANGED <<delivered, files>>
  <2>1. Placed("sendZip", job)
    BY <1>2, <1>3 DEF Placed, Resting, Single, Early, Formed, ListSteps
  <2> QED
    BY <1>1, <1>2, <1>3, <2>1, MovesOn DEF SendsNothing, MediaSteps, Resting, Single, Early, Formed, ListSteps
<1>4. CASE (Ends("silent") \/ Ends("told")) /\ files' = files - 1 /\ UNCHANGED delivered
  BY <1>1, <1>2, <1>4, StopKeeps
<1>5. CASE Ends("none") /\ files' = files - 1 /\ delivered' = Append(delivered, <<"zip", Len(entries)>>)
  <2>1. at' = "idle" /\ word' = "none" /\ UNCHANGED <<job, kept, requests, deaths>>
    BY <1>5 DEF Ends
  <2>2. Placed(at', job')
    BY <1>2, <2>1, PlacedToRest DEF Resting
  <2>3. /\ entries \in Seq(Nat) /\ missed \subseteq Nat /\ Len(entries) \in Nat
        /\ InOrder(entries, missed, First(job), job.next)
    BY <1>2 DEF MediaInv, DeliveredInv, HandedOver
  <2>4. delivered' = <<<<"zip", Len(entries)>>>>
    BY <1>2, <1>5
  <2>5. /\ delivered' \in Seq((Modes \cup {"image", "zip"}) \X Nat) /\ delivered' # <<>>
        /\ DOMAIN delivered' = {1} /\ delivered'[1] = <<"zip", Len(entries)>>
    BY <2>3, <2>4
  <2>6. InOrder(HandedOver', missed', First(job'), job'.next)
    BY <1>1, <1>2, <2>1, <2>3 DEF HandedOver, First
  <2>7. at' \in Resting /\ at' \notin Single /\ at' \notin Early \cup {"tracks", "choose"} \cup ListSteps
    BY <2>1 DEF Resting, Single, Early, Formed, ListSteps
  <2>8. DeliveredInv'
    BY <1>1, <1>2, <2>1, <2>3, <2>5, <2>6, <2>7 DEF DeliveredInv
  <2>9. EndsInv'
    BY <1>2, <1>5, <2>1, <2>5, <2>7 DEF MediaInv, EndsInv
  <2> QED
    BY <2>1, <2>2, <2>7, <2>8, <2>9 DEF MediaInv, KeptInv, MediaSteps
<1> QED
  BY <1>1, <1>3, <1>4, <1>5 DEF Finalize, SendZip

-----------------------------------------------------------------------------
(* A new request, and the process.                                         *)

LEMMA NoRequest ==
  /\ NoJob \in Requests /\ NoJob.next = 1 /\ NoJob.images = 0 /\ ~NoJob.zip /\ NoJob.range = Everything
  /\ NoJob.tracks = <<>> /\ NoJob.mode = "none" /\ ~NoJob.long
BY MediaConstants DEF NoJob, Requests, Modes

\* Nothing was handed over of what is new.
LEMMA NothingYet ==
  ASSUME NEW first \in Nat \ {0}
  PROVE  InOrder(<<>>, {}, first, 1)
<1>1. DOMAIN <<>> = {} /\ first .. first + 1 - 2 = {}
  OBVIOUS
<1> QED
  BY <1>1 DEF InOrder, Increasing

LEMMA RequestKeeps ==
  ASSUME MediaInv, NEW cmd \in Wanted, Request(cmd)
  PROVE  MediaInv'
<1>1. /\ requests' = requests + 1 /\ word' = "none" /\ delivered' = <<>> /\ missed' = {} /\ entries' = <<>>
      /\ UNCHANGED <<kept, files, deaths>> /\ at \in {"idle", "menu", "choose"}
  BY DEF Request
<1>5. at \notin ListSteps
  BY <1>1 DEF ListSteps
<1>6. requests \in Nat /\ deaths \in Nat /\ files \in Nat /\ files <= deaths
  BY <1>5 DEF MediaInv, EndsInv
<1>2. ASSUME NEW x \in Requests, NEW s \in {"info", "tracks"}, at' = s, job' = x, Placed(s, x),
             x.next = 1, ~x.zip, x.tracks = <<>>
      PROVE  MediaInv'
  <2>1. First(x) \in Nat \ {0}
    BY FirstOne
  <2>2. HandedOver' = <<>>
    <3>1. Numbers' = [i \in {} |-> delivered'[i][2]]
      BY <1>1 DEF Numbers
    <3>2. [i \in {} |-> delivered'[i][2]] = <<>>
      BY SeqEqual
    <3> QED
      BY <1>2, <3>1, <3>2 DEF HandedOver
  <2>3. InOrder(HandedOver', missed', First(job'), job'.next)
    BY <1>1, <1>2, <2>1, <2>2, NothingYet
  <2>4. DeliveredInv'
    BY <1>1, <1>2, <2>3 DEF DeliveredInv
  <2>5. EndsInv'
    BY <1>1, <1>2, <1>6 DEF EndsInv, Resting, ListSteps
  <2> QED
    BY <1>1, <1>2, <2>4, <2>5 DEF MediaInv, KeptInv, MediaSteps
<1>3. ASSUME NEW long \in BOOLEAN, at' = "info", job' = [NoJob EXCEPT !.cmd = cmd, !.long = long]
      PROVE  MediaInv'
  <2> DEFINE x == [NoJob EXCEPT !.cmd = cmd, !.long = long]
  <2>1. x \in Requests /\ x.next = 1 /\ x.images = 0 /\ ~x.zip /\ x.range = Everything /\ x.tracks = <<>>
    BY NoRequest DEF Requests
  <2> HIDE DEF x
  <2>2. Placed("info", x)
    BY <2>1 DEF Placed, Single, Early, Formed, ListSteps
  <2> QED
    BY <1>2, <1>3, <2>1, <2>2 DEF x
<1>4. ASSUME NEW r \in TrackRanges \cup {Everything}, at' = "tracks", job' = [NoJob EXCEPT !.cmd = cmd, !.range = r]
      PROVE  MediaInv'
  <2> DEFINE x == [NoJob EXCEPT !.cmd = cmd, !.range = r]
  <2>1. x \in Requests /\ x.next = 1 /\ x.images = 0 /\ ~x.zip /\ x.tracks = <<>> /\ x.mode = "none" /\ ~x.long
    BY NoRequest DEF Requests
  <2> HIDE DEF x
  <2>2. Placed("tracks", x)
    BY <2>1 DEF Placed, Single, Early, Formed, ListSteps
  <2> QED
    BY <1>2, <1>4, <2>1, <2>2 DEF x
<1> QED
  BY <1>3, <1>4 DEF Request

LEMMA ProcessKeeps ==
  ASSUME MediaInv, Dies \/ Restarts
  PROVE  MediaInv'
<1>1. /\ UNCHANGED <<job, kept, delivered, missed, entries, files, requests>>
      /\ \/ at # "down" /\ deaths' = deaths + 1 /\ at' = "down" /\ word' = "silent"
         \/ at = "down" /\ at' = "idle" /\ UNCHANGED <<word, deaths>>
  BY DEF Dies, Restarts
<1>2. at' \in Resting /\ at' \in MediaSteps /\ at' \notin Single \cup {"tracks", "choose"} \cup ListSteps \cup Early
      /\ at' \in {"idle", "down"}
  BY <1>1 DEF Resting, MediaSteps, Single, Early, Formed, ListSteps
<1>3. Placed(at', job')
  BY <1>1, <1>2, PlacedToRest DEF MediaInv
<1>4. DeliveredInv'
  <2>1. HandedOver' = HandedOver /\ First(job') = First(job)
    BY <1>1 DEF HandedOver, Numbers
  <2>2. job.tracks = <<>> => \A i \in DOMAIN delivered : delivered[i][1] \in {"image", job.mode} \ {"zip"}
    BY DEF MediaInv, DeliveredInv
  <2> QED
    BY <1>1, <1>2, <2>1, <2>2 DEF MediaInv, DeliveredInv
<1>5. files' \in Nat /\ deaths' \in Nat /\ files' <= deaths'
  <2>1. files \in Nat /\ deaths \in Nat /\ files <= deaths + 1 /\ (at = "down" => files <= deaths)
    BY DEF MediaInv, EndsInv, ListSteps
  <2> QED
    BY <1>1, <2>1
<1>6. EndsInv'
  <2>1. /\ word \in {"none", "told", "silent", "cancelled"} /\ requests \in Nat /\ (at = "down" => word = "silent")
        /\ word = "told" => \A i \in DOMAIN delivered : delivered[i][1] # job.mode
    BY DEF MediaInv, EndsInv
  <2>2. /\ word' \in {"none", "told", "silent", "cancelled"} /\ word' = "silent"
    BY <1>1, <2>1
  <2>3. files' <= deaths' + (IF job'.zip /\ at' \in ListSteps THEN 1 ELSE 0)
    <3>1. (IF job'.zip /\ at' \in ListSteps THEN 1 ELSE 0) \in Nat
      OBVIOUS
    <3>2. \A a, b, k \in Nat : a <= b => a <= b + k
      OBVIOUS
    <3> QED
      BY <1>5, <3>1, <3>2
  <2>4. requests' \in Nat
    BY <1>1, <2>1
  <2> QED
    BY <1>2, <1>5, <2>2, <2>3, <2>4 DEF EndsInv
<1> QED
  BY <1>1, <1>2, <1>3, <1>4, <1>6 DEF MediaInv, KeptInv

LEMMA MediaStarts ==
  ASSUME MediaInit
  PROVE  MediaInv
<1>1. /\ at = "idle" /\ job = NoJob /\ kept = [c \in Wanted |-> "none"] /\ delivered = <<>> /\ missed = {}
      /\ word = "none" /\ entries = <<>> /\ files = 0 /\ requests = 0 /\ deaths = 0
  BY DEF MediaInit
<1>2. Placed(at, job)
  BY <1>1, NoRequest DEF Placed, Resting, Single, Early, Formed, ListSteps
<1>3. DeliveredInv
  BY <1>1, NoRequest DEF DeliveredInv, Resting, Single, Early, Formed
<1>4. EndsInv /\ KeptInv
  BY <1>1 DEF EndsInv, KeptInv, Resting, ListSteps
<1> QED
  BY <1>1, <1>2, <1>3, <1>4 DEF MediaInv, MediaSteps

LEMMA MediaKept ==
  ASSUME MediaInv, [MediaNext]_mediaVars
  PROVE  MediaInv'
<1>1. CASE UNCHANGED mediaVars
  <2>1. UNCHANGED <<at, job, kept, delivered, missed, word, entries, files, requests, deaths>>
    BY <1>1 DEF mediaVars
  <2>2. HandedOver' = HandedOver /\ First(job') = First(job)
    BY <2>1 DEF HandedOver, Numbers
  <2>3. DeliveredInv'
    BY <2>1, <2>2 DEF MediaInv, DeliveredInv
  <2>4. EndsInv' /\ KeptInv' /\ Placed(at', job')
    BY <2>1 DEF MediaInv, EndsInv, KeptInv
  <2> QED
    BY <2>1, <2>3, <2>4 DEF MediaInv
<1>2. CASE at \in {"menu", "choose"} /\ Ends("cancelled") /\ SendsNothing
  BY <1>2, ToldOrSilent DEF Single
<1>3. ASSUME MediaNext PROVE MediaInv'
  BY <1>2, <1>3, RequestKeeps, InfoKeeps, InfoApiKeeps, InstagramKeeps, ImagesKeep, PrefersKeep, ChooseKeeps,
     RememberKeeps, DownloadKeeps, SendKeeps, TracksKeep, DeliveryKeeps, SearchKeeps, FetchKeeps, ZipKeeps,
     ProcessKeeps DEF MediaNext, Cancels
<1> QED
  BY <1>1, <1>3

-----------------------------------------------------------------------------
(* What the invariant says of what was asked for.                          *)

\* The tracks asked for are those from the first on, and those due are the first of these.
LEMMA DueByNumber ==
  ASSUME NEW j \in Requests, j.tracks # <<>>, j.tracks = Selected(j.found, j.range)
  PROVE  LET wanted == {t \in 1 .. j.found : j.range = Everything \/ t \in j.range[1] .. j.range[2]}
             due   == {t \in wanted : Cardinality({u \in wanted : u < t}) < MaxPlaylistTracks}
         IN  due = First(j) .. First(j) + Len(Due(j)) - 1
<1> DEFINE n     == j.found
           r     == j.range
           lo    == From(r)
           hi    == To(n, r)
           wanted == {t \in 1 .. n : r = Everything \/ t \in r[1] .. r[2]}
           due   == {t \in wanted : Cardinality({u \in wanted : u < t}) < MaxPlaylistTracks}
           m     == Len(Due(j))
<1>1. n \in Nat /\ r \in TrackRanges \cup {Everything} /\ MaxPlaylistTracks \in Nat \ {0}
  BY MediaConstants DEF Requests
<1>2. lo \in Nat \ {0} /\ hi \in Nat /\ hi <= n /\ Len(j.tracks) = IF lo <= hi THEN hi - lo + 1 ELSE 0
  BY <1>1, SelectedTracks
<1>3. wanted = lo .. hi
  <2>1. CASE r = Everything
    BY <1>1, <2>1 DEF From, To
  <2>2. CASE r # Everything
    <3> DEFINE a == r[1]
               b == r[2]
    <3>1. a \in Nat \ {0} /\ b \in Nat
      BY <1>1, <2>2, MediaConstants
    <3>2. lo = a /\ hi = IF b < n THEN b ELSE n
      BY <1>1, <2>2, <3>1, Smaller DEF From, To
    <3>3. wanted = {t \in 1 .. n : t \in a .. b}
      BY <2>2
    <3> HIDE DEF a, b, lo, hi, n, wanted
    <3> QED
      BY <1>1, <3>1, <3>2, <3>3
  <2> QED
    BY <2>1, <2>2
<1>4. Len(j.tracks) > 0 /\ lo <= hi /\ Len(j.tracks) = hi - lo + 1
  <2>1. j.tracks \in Seq(Nat)
    BY DEF Requests
  <2>2. Len(j.tracks) \in Nat \ {0}
    BY <2>1, EmptySeq
  <2> DEFINE k == Len(j.tracks)
  <2>3. k \in Nat \ {0} /\ k = (IF lo <= hi THEN hi - lo + 1 ELSE 0)
    BY <1>2, <2>2
  <2> HIDE DEF lo, hi, k
  <2>4. k > 0 /\ lo <= hi /\ k = hi - lo + 1
    BY <2>3
  <2> QED
    BY <2>4 DEF k
<1>5. m = IF hi - lo + 1 < MaxPlaylistTracks THEN hi - lo + 1 ELSE MaxPlaylistTracks
  BY <1>4, DueTracks
<1> HIDE DEF lo, hi, wanted, m
<1>6. ASSUME NEW t \in lo .. hi PROVE Cardinality({u \in wanted : u < t}) = t - lo
  <2>1. {u \in wanted : u < t} = lo .. t - 1
    BY <1>2, <1>3
  <2>2. Cardinality(lo .. t - 1) = IF lo > t - 1 THEN 0 ELSE t - 1 - lo + 1
    <3>1. lo \in Int /\ t - 1 \in Int
      BY <1>2
    <3> QED
      BY <3>1, FS_Interval
  <2>3. t - 1 - lo + 1 = t - lo /\ (lo > t - 1 => t - lo = 0)
    BY <1>2
  <2> QED
    BY <2>1, <2>2, <2>3
<1>7. due = {t \in lo .. hi : t - lo < MaxPlaylistTracks}
  BY <1>3, <1>6
<1> HIDE DEF due
<1>8. due = lo .. lo + m - 1
  BY <1>1, <1>2, <1>4, <1>5, <1>7
<1> QED
  BY <1>8 DEF due, wanted, lo, m, First

LEMMA PlaylistImplied ==
  ASSUME MediaInv
  PROVE  PlaylistInOrder
<1> SUFFICES ASSUME job.tracks # <<>> PROVE PlaylistInOrder
  BY DEF PlaylistInOrder
<1> DEFINE wanted == {t \in 1 .. job.found : job.range = Everything \/ t \in job.range[1] .. job.range[2]}
           due   == {t \in wanted : Cardinality({u \in wanted : u < t}) < MaxPlaylistTracks}
           out   == IF job.zip THEN entries ELSE Numbers
           given == {out[i] : i \in DOMAIN out}
           first == First(job)
           n     == job.next
           m     == Len(Due(job))
<1>1. /\ job \in Requests /\ job.tracks = Selected(job.found, job.range) /\ n <= m + 1
      /\ at \in {"finalize", "sendZip"} => n = m + 1
  BY DEF MediaInv, Placed
<1>2. first \in Nat \ {0} /\ n \in Nat \ {0} /\ m \in Nat
  BY <1>1, FirstOne, DueTracks DEF Requests
<1>3. due = first .. first + m - 1
  BY <1>1, DueByNumber
<1>4. Increasing(out) /\ given \cap missed = {} /\ given \cup missed = first .. first + n - 2
  BY DEF MediaInv, DeliveredInv, HandedOver, InOrder
<1>5. Sent(IF job.zip THEN "zip" ELSE "audio") = DOMAIN delivered
  <2>1. \A i \in DOMAIN delivered : delivered[i][1] = IF job.zip THEN "zip" ELSE "audio"
    BY DEF MediaInv, DeliveredInv
  <2> QED
    BY <2>1 DEF Sent
<1> HIDE DEF due, given, out, first, n, m
<1>6. given \cup missed \subseteq due
  BY <1>1, <1>2, <1>3, <1>4
<1>7. Cardinality(given \cup missed) = n - 1
  <2>1. Cardinality(first .. first + n - 2) = IF first > first + n - 2 THEN 0 ELSE first + n - 2 - first + 1
    BY <1>2, FS_Interval
  <2>2. first + n - 2 - first + 1 = n - 1 /\ (first > first + n - 2 => n - 1 = 0)
    BY <1>2
  <2> QED
    BY <1>4, <2>1, <2>2
<1>8. at \in {"finalize", "sendZip"} => given \cup missed = due
  BY <1>1, <1>2, <1>3, <1>4
<1> QED
  BY <1>4, <1>5, <1>6, <1>7, <1>8 DEF PlaylistInOrder, due, given, out, n

LEMMA MediaImplied ==
  ASSUME MediaInv
  PROVE  MediaTypeOK /\ MediaHolds
<1>1. MediaTypeOK
  BY DEF MediaInv, Placed, Requests, KeptInv, EndsInv, DeliveredInv, MediaTypeOK, Modes
<1>2. FormatsFit
  BY DEF MediaInv, Placed, Formed, FormatsFit, Sendable
<1>3. ZipHolds
  <2>1. ASSUME NEW i \in DOMAIN delivered, delivered[i][1] = "zip" PROVE delivered[i][2] = Len(entries)
    <3>1. job.zip
      BY <2>1 DEF MediaInv, DeliveredInv
    <3> QED
      BY <3>1 DEF MediaInv, DeliveredInv
  <2> QED
    BY <2>1 DEF ZipHolds, Sent, Numbers, MediaInv, EndsInv
<1>4. EndsInWords
  <2>1. \A i, j \in Sent("image") : i < j => Numbers[i] < Numbers[j]
    BY DEF Sent, Numbers, MediaInv, DeliveredInv
  <2>2. ASSUME at \in {"prefer", "menu"}
        PROVE  LET given == {Numbers[i] : i \in Sent("image")}
               IN  given \cup missed = 1 .. job.images /\ given \cap missed = {}
    <3>1. at \in Single /\ at \notin Resting
      BY <2>2 DEF Single, Resting
    <3>2. /\ job \in Requests /\ job.range = Everything /\ ~job.zip /\ job.next = job.images + 1 /\ job.images \in Nat
      BY <2>2, <3>1 DEF MediaInv, Placed, Requests
    <3>3. Sent("image") = DOMAIN delivered /\ DOMAIN Numbers = DOMAIN delivered
      BY <3>1 DEF Sent, MediaInv, DeliveredInv, Numbers
    <3>4. InOrder(Numbers, missed, 1, job.next)
      BY <3>1, <3>2 DEF MediaInv, DeliveredInv, HandedOver, First, From
    <3>5. 1 .. 1 + job.next - 2 = 1 .. job.images
      BY <3>2
    <3> QED
      BY <3>3, <3>4, <3>5 DEF InOrder
  <2>3. word = "told" => Sent(job.mode) = {}
    BY DEF Sent, MediaInv, EndsInv
  <2>4. at = "idle" /\ word = "none" /\ requests > 0 => delivered # <<>> \/ missed # {}
    BY DEF MediaInv, EndsInv
  <2> QED
    BY <2>1, <2>2, <2>3, <2>4 DEF EndsInWords
<1>5. LongRefused
  BY DEF LongRefused, MediaInv, Placed, Resting
<1> QED
  BY <1>1, <1>2, <1>3, <1>4, <1>5, PlaylistImplied DEF MediaHolds

-----------------------------------------------------------------------------
(***************************************************************************)
(* The runtime.  Its parts take turns and share no variable, so each       *)
(* invariant is kept by the steps of its own part and by the others'.      *)
(***************************************************************************)

runtimeVars == <<part, startupVars, inboundVars, groupVars, mediaVars, registryVars, chatsVars>>

\* What a step of the runtime is for each of its parts.
LEMMA RuntimeSteps ==
  ASSUME [RuntimeNext]_runtimeVars
  PROVE  /\ [StartupNext]_startupVars /\ [GroupNext]_groupVars /\ [RegistryNext]_registryVars
         /\ [ChatsNext]_chatsVars /\ [MediaNext]_mediaVars
         /\ MessagesNext \/ ModsNext \/ UNCHANGED inboundVars
BY DEF RuntimeNext, runtimeVars

(* What the socket brings finds its listeners and the commands, also if stages
   time out and end later, one cron job at most is scheduled, and a name runs
   a command of that name, whatever the order of the files.                *)
THEOREM RuntimeStarts == RuntimeSpec => []StartupHolds
<1> DEFINE Inv == StartupInv /\ RegistryInv
<1>1. RuntimeInit => Inv
  BY StartupStarts, RegistryStarts DEF RuntimeInit
<1>2. Inv /\ [RuntimeNext]_<<part, startupVars, inboundVars, groupVars, mediaVars, registryVars, chatsVars>> => Inv'
  BY RuntimeSteps, StartupKept, RegistryKept DEF runtimeVars
<1>3. StartupInv => StartsInOrder
  BY Zenon DEF StartupInv, StartsInOrder
<1>4. Inv => StartupHolds
  BY <1>3, RegistryImplies DEF StartupHolds
<1> QED
  BY <1>1, <1>2, <1>4, PTL DEF RuntimeSpec

(* A "clear" that is reported done has cleared every chat observed until then,
   and the report of a broadcast has the numbers of that broadcast.        *)
THEOREM ChatsCleared == RuntimeSpec => []ChatsHold
<1>1. RuntimeInit => ChatsInv
  BY ChatsStart DEF RuntimeInit
<1>2. ChatsInv /\ [RuntimeNext]_<<part, startupVars, inboundVars, groupVars, mediaVars, registryVars, chatsVars>>
        => ChatsInv'
  BY RuntimeSteps, ChatsKept DEF runtimeVars
<1>3. ChatsInv => ChatsHold
  BY DEF ChatsInv
<1> QED
  BY <1>1, <1>2, <1>3, PTL DEF RuntimeSpec

(* What the bot does to a group is right by the group, though it goes by a copy
   of it, unless an answer from before a change overtook its notice; and a
   group is locked by its last /timer, when the minutes that were told are
   over, unless they are more than setTimeout waits for.                   *)
THEOREM GroupsRight == RuntimeSpec => []GroupHolds
<1>1. RuntimeInit => GroupInv
  BY GroupStarts DEF RuntimeInit
<1>2. GroupInv /\ [RuntimeNext]_<<part, startupVars, inboundVars, groupVars, mediaVars, registryVars, chatsVars>>
        => GroupInv'
  BY RuntimeSteps, GroupKept DEF runtimeVars
<1>3. GroupInv => GroupHolds
  BY GroupImplied
<1> QED
  BY <1>1, <1>2, <1>3, PTL DEF RuntimeSpec

(* The bot answers no echo of what it said, but for the cases that are named,
   and knows its moderators by both addresses once they are resolved.      *)
THEOREM SendersKnown == RuntimeSpec => []SendersRecognised
<1> DEFINE Inv == InboundInv /\ ModsInv
<1>1. RuntimeInit => Inv
  BY InboundStarts DEF RuntimeInit
<1>2. Inv /\ [RuntimeNext]_<<part, startupVars, inboundVars, groupVars, mediaVars, registryVars, chatsVars>> => Inv'
  BY RuntimeSteps, SendersKept DEF runtimeVars
<1>3. Inv => SendersRecognised
  BY SendersImplied
<1> QED
  BY <1>1, <1>2, <1>3, PTL DEF RuntimeSpec

(* Every media is sent in a form that was offered, playlists and images come in
   order and once.  A ZIP file holds what was collected, and one stays only for
   a process that died while it was written.  A request that comes to its end
   without a word has sent something, or gave up every track of a playlist;
   left out are a search that rejects outside of any try, a ZIP file that cannot
   be finished and the death of the process.  A long video is refused, unless
   the API that answered told no number of seconds.                        *)
THEOREM MediaRight == RuntimeSpec => []MediaHolds
<1>1. RuntimeInit => MediaInv
  BY MediaStarts DEF RuntimeInit
<1>2. MediaInv /\ [RuntimeNext]_<<part, startupVars, inboundVars, groupVars, mediaVars, registryVars, chatsVars>>
        => MediaInv'
  BY RuntimeSteps, MediaKept DEF runtimeVars
<1>3. MediaInv => MediaHolds
  BY MediaImplied
<1> QED
  BY <1>1, <1>2, <1>3, PTL DEF RuntimeSpec

(* Every variable of the runtime has its type.                             *)
THEOREM RuntimeTyped == RuntimeSpec => []RuntimeTypeOK
<1> DEFINE Inv == StartupInv /\ RegistryInv /\ ChatsInv /\ InboundInv /\ ModsInv /\ GroupInv /\ MediaInv
<1>1. RuntimeInit => Inv
  BY StartupStarts, RegistryStarts, ChatsStart, InboundStarts, GroupStarts, MediaStarts DEF RuntimeInit
<1>2. Inv /\ [RuntimeNext]_<<part, startupVars, inboundVars, groupVars, mediaVars, registryVars, chatsVars>> => Inv'
  BY RuntimeSteps, StartupKept, RegistryKept, ChatsKept, SendersKept, GroupKept, MediaKept DEF runtimeVars
<1>3. Inv => RuntimeTypeOK
  <2>1. StartupInv => StartupTypeOK
    BY DEF StartupInv
  <2>2. RegistryInv => RegistryTypeOK
    BY DEF RegistryInv
  <2>3. ChatsInv => ChatsTypeOK
    BY DEF ChatsInv
  <2>4. InboundInv /\ ModsInv => InboundTypeOK
    BY SendersImplied
  <2>5. GroupInv => GroupTypeOK
    BY GroupImplied
  <2>6. MediaInv => MediaTypeOK
    BY MediaImplied
  <2> QED
    BY <2>1, <2>2, <2>3, <2>4, <2>5, <2>6 DEF RuntimeTypeOK
<1> QED
  BY <1>1, <1>2, <1>3, PTL DEF RuntimeSpec
=============================================================================

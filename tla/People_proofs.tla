---------------------------- MODULE People_proofs ---------------------------
(***************************************************************************)
(* What the bot remembers of people, for any number of them, of handlers   *)
(* and of steps.  The parts of MCPeople share no variable, so each has an  *)
(* inductive invariant of its own, kept by the steps of its part and by    *)
(* those of the others, which leave its variables alone.                   *)
(***************************************************************************)
EXTENDS MCPeople, FiniteSetTheorems, SequenceTheorems, WellFoundedInduction, TLAPS

peopleVars == <<part, chatVars, vars, rpgVars, standingVars, flagVars>>

-----------------------------------------------------------------------------
(* The switch of the chatbot                                               *)

\* Unless the copy is torn, what is on its way to it is what is stored, and when nothing
\* is on its way it agrees; a document that is not there was never written.
CopiesAgree ==
  /\ \A h \in FlagHandlers : toggling[h].at = "copy" => toggling[h].to = flag
  /\ loading.at = "answered" => loading.state = flag
  /\ (loading.at = "over" /\ \A h \in FlagHandlers : toggling[h].at # "copy") =>
       (flagCopy = "on" <=> flag = "on")

NeverWritten ==
  flag = "none" => /\ flagCopy = "none"
                   /\ \A h \in FlagHandlers : toggling[h].at = "free"
                   /\ loading.state = "none"

FlagInv ==
  /\ FeaturesTypeOK
  /\ \A h \in FlagHandlers : toggling[h].at # "free" => toggling[h].to \in {"on", "off"}
  /\ NeverWritten
  /\ ~torn => CopiesAgree

\* It holds at first, whichever part a behaviour is about.
LEMMA FlagStarts ==
  ASSUME PeopleInit
  PROVE  FlagInv
<1>1. FeaturesInit
  BY DEF PeopleInit
<1>2. FeaturesTypeOK
  <2>1. toggling \in [FlagHandlers -> [at : {"free", "write", "copy"}, to : States]]
    BY <1>1 DEF FeaturesInit, Idle0, States
  <2>2. toggles \in 0 .. MaxToggles /\ flagFaults \in 0 .. MaxFlagFaults
    BY <1>1, FeaturesAssumption DEF FeaturesInit, FeaturesAssumption
  <2>3. loading \in [at : {"asked", "answered", "over"}, state : States] /\ {flag, flagCopy} \subseteq States
    BY <1>1 DEF FeaturesInit, Load, States
  <2>4. torn \in BOOLEAN
    BY <1>1 DEF FeaturesInit
  <2> QED
    BY <2>1, <2>2, <2>3, <2>4 DEF FeaturesTypeOK
<1>3. (\A h \in FlagHandlers : toggling[h].at = "free") /\ loading.at = "asked"
      /\ loading.state = "none" /\ flagCopy = "none"
  BY <1>1 DEF FeaturesInit, Idle0, Load
<1> QED
  BY <1>2, <1>3 DEF FlagInv, CopiesAgree, NeverWritten

\* The types are kept.
LEMMA FlagTyped ==
  ASSUME FeaturesTypeOK, FeaturesNext
  PROVE  FeaturesTypeOK'
<1> USE DEF FeaturesTypeOK, States
<1>a. FeaturesAssumption
  BY FeaturesAssumption
<1>1. ASSUME NEW h \in FlagHandlers, NEW to \in {"on", "off"}, Toggle(h, to) PROVE FeaturesTypeOK'
  <2>1. GetFeatures \in States
    BY DEF GetFeatures
  <2> QED
    BY <2>1, <1>1, <1>a DEF Toggle, Idle0, FeaturesAssumption
<1>2. ASSUME NEW h \in FlagHandlers, ToggleStored(h) PROVE FeaturesTypeOK'
  BY <1>2 DEF ToggleStored
<1>3. ASSUME NEW h \in FlagHandlers, ToggleCopied(h) PROVE FeaturesTypeOK'
  BY <1>3 DEF ToggleCopied, Idle0
<1>4. CASE LoadFeatures
  BY <1>4 DEF LoadFeatures
<1>5. CASE SetFeatures
  BY <1>5 DEF SetFeatures, NoLoad
<1>6. CASE FlagFails
  <2>1. toggling' \in [FlagHandlers -> [at : {"free", "write", "copy"}, to : States]]
    BY <1>6 DEF FlagFails, Idle0
  <2>2. loading' \in [at : {"asked", "answered", "over"}, state : States]
    BY <1>6 DEF FlagFails, NoLoad
  <2>4. torn' \in BOOLEAN
    BY <1>6, Zenon DEF FlagFails
  <2>3. flagFaults' \in 0 .. MaxFlagFaults
    BY <1>6, <1>a DEF FlagFails, FlagFault, FeaturesAssumption
  <2> QED
    BY <1>6, <2>1, <2>2, <2>3, <2>4 DEF FlagFails
<1>7. CASE FlagRestart
  <2>3. flagFaults' \in 0 .. MaxFlagFaults
    BY <1>7, <1>a DEF FlagRestart, FlagFault, FeaturesAssumption
  <2> QED
    BY <1>7, <2>3 DEF FlagRestart, Idle0, Load
<1> QED
  BY <1>1, <1>2, <1>3, <1>4, <1>5, <1>6, <1>7 DEF FeaturesNext, EnableChatbot, DisableChatbot

\* What is true of the copies is kept: a write that overlaps another write or the load
\* tears them, and one that does not mends them.
LEMMA FlagKept ==
  ASSUME FlagInv, [FeaturesNext]_flagVars
  PROVE  FlagInv'
<1> USE DEF FlagInv
<1>0. CASE UNCHANGED flagVars
  BY <1>0 DEF flagVars, FeaturesTypeOK, NeverWritten, CopiesAgree
<1> SUFFICES ASSUME FeaturesNext PROVE FlagInv'
  BY <1>0
<1>t. FeaturesTypeOK'
  BY FlagTyped
<1> USE DEF NeverWritten, CopiesAgree
<1>1. ASSUME NEW h \in FlagHandlers, NEW to \in {"on", "off"}, Toggle(h, to) PROVE FlagInv'
  <2>1. GetFeatures # "none" /\ (flag # "none" => GetFeatures = flag)
    BY DEF GetFeatures
  <2>2. \A g \in FlagHandlers : g # h => toggling'[g] = toggling[g]
    BY <1>1 DEF Toggle, FeaturesTypeOK
  <2>3. toggling'[h] = Idle0 \/ toggling'[h] = [at |-> "write", to |-> to]
    BY <1>1 DEF Toggle, FeaturesTypeOK
  <2>4. flag' # "none" /\ (flag # "none" => flag' = flag) /\ (~torn' => ~torn /\ flag # "none")
        /\ UNCHANGED <<flagCopy, loading>>
    BY <2>1, <1>1 DEF Toggle
  <2>5. (\A g \in FlagHandlers : toggling'[g].at # "free" => toggling'[g].to \in {"on", "off"})
        /\ (\A g \in FlagHandlers : toggling'[g].at = "copy" => g # h /\ toggling[g].at = "copy"
                                                           /\ toggling'[g].to = toggling[g].to)
    BY <2>2, <2>3 DEF Idle0
  <2>6. \A g \in FlagHandlers : toggling[g].at = "copy" => toggling'[g].at = "copy"
    BY <2>2, <1>1 DEF Toggle
  <2> QED
    BY <2>4, <2>5, <2>6, <1>t
<1>2. ASSUME NEW h \in FlagHandlers, ToggleStored(h) PROVE FlagInv'
  <2>1. \A g \in FlagHandlers : g # h => toggling'[g] = toggling[g]
    BY <1>2 DEF ToggleStored, FeaturesTypeOK
  <2>2. toggling'[h].at = "copy" /\ toggling'[h].to = toggling[h].to
    BY <1>2 DEF ToggleStored, FeaturesTypeOK
  <2> QED
    BY <2>1, <2>2, <1>2, <1>t DEF ToggleStored
<1>3. ASSUME NEW h \in FlagHandlers, ToggleCopied(h) PROVE FlagInv'
  <2>1. \A g \in FlagHandlers : g # h => toggling'[g] = toggling[g]
    BY <1>3 DEF ToggleCopied, FeaturesTypeOK
  <2>2. toggling'[h] = Idle0
    BY <1>3 DEF ToggleCopied, FeaturesTypeOK
  <2> QED
    BY <2>1, <2>2, <1>3, <1>t DEF ToggleCopied, Idle0
<1>4. CASE LoadFeatures
  BY <1>4, <1>t DEF LoadFeatures
<1>5. CASE SetFeatures
  BY <1>5, <1>t DEF SetFeatures, NoLoad
<1>6. CASE FlagFails
  <2>1. ASSUME NEW h \in FlagHandlers, toggling[h].at \in {"write", "copy"},
               toggling' = [toggling EXCEPT ![h] = Idle0],
               torn' = (torn \/ toggling[h].at = "copy"), UNCHANGED <<loading, flag, flagCopy>>
        PROVE  FlagInv'
    <3>1. /\ \A g \in FlagHandlers : g # h => toggling'[g] = toggling[g]
          /\ toggling'[h] = Idle0
      BY <2>1 DEF FeaturesTypeOK
    <3>2. (\A g \in FlagHandlers : toggling'[g].at # "free" => toggling'[g].to \in {"on", "off"})
          /\ (\A g \in FlagHandlers : toggling[g].at = "free" => toggling'[g].at = "free")
      BY <3>1 DEF Idle0
    <3>3. \A g \in FlagHandlers : toggling'[g].at = "copy" =>
            toggling[g].at = "copy" /\ toggling'[g].to = toggling[g].to
      BY <3>1 DEF Idle0
    <3>4. ~torn' => ~torn /\ \A g \in FlagHandlers : toggling[g].at = "copy" => toggling'[g].at = "copy"
      BY <3>1, <2>1
    <3> QED
      BY <3>2, <3>3, <3>4, <2>1, <1>t
  <2>2. ASSUME loading' = NoLoad, torn', UNCHANGED <<toggling, flag, flagCopy>>
        PROVE  FlagInv'
    BY <2>2, <1>t DEF NoLoad
  <2> QED
    BY <2>1, <2>2, <1>6 DEF FlagFails
<1>7. CASE FlagRestart
  BY <1>7, <1>t DEF FlagRestart, Idle0, Load
<1> QED
  BY <1>1, <1>2, <1>3, <1>4, <1>5, <1>6, <1>7 DEF FeaturesNext, EnableChatbot, DisableChatbot

-----------------------------------------------------------------------------
(* /chat                                                                   *)

ChatStages == {"idle", "switch", "spoken", "voice", "quota", "count", "counted",
               "delta", "fill", "model"}
Held       == {"delta", "fill", "model"}     \* a chat holds a memory object
Quotas     == [used : Nat, resetAt : 0 .. MaxNow + Period, limit : {InitialLimit} \cup Limits]
ChatRecs   == [stage : ChatStages, user : Chatters \cup {"nobody"}, at : 0 .. MaxNow,
               seen : [used : Nat, resetAt : 0 .. MaxNow + Period, limit : Nat],
               turn : Nat, state : Nat, delta : Seq(Nat)]
Additions0 == [stage : {"none", "read", "write", "del"}, fact : Nat, base : Seq(Nat)]

\* What a chat that is under way has read so far, when there are n memory objects.
Proper(r, n) ==
  /\ r.stage # "idle" => r.user \in Chatters
  /\ r.state <= n /\ Len(r.delta) <= FactCap
  /\ r.stage \in Held => r.state # NoState

ChatsTyped ==
  /\ chat \in [ChatHandlers -> ChatRecs]
  /\ \A h \in ChatHandlers : Proper(chat[h], Len(states))

QuotaTyped ==
  /\ quota \in [Chatters -> Quotas]
  /\ granted \in [Chatters -> Nat] /\ ceiling \in [Chatters -> Nat]
  /\ misread \in [Chatters -> BOOLEAN]
  /\ extending \in {NoExt} \cup [user : Chatters, seen : Nat]

MemoryTyped ==
  /\ states \in Seq(Seq(Nat)) /\ \A i \in DOMAIN states : Len(states[i]) <= RecentTurnCap
  /\ current \in 0 .. Len(states) /\ spoken \in Seq(Nat)

IdentityTyped ==
  /\ identity \in Seq(Nat) /\ Len(identity) <= FactCap
  /\ persona \in Seq(Nat) /\ (persona = NoPersona \/ Len(persona) <= FactCap)
  /\ adding \in [ChatHandlers -> Additions0]

SwitchTyped ==
  /\ now \in 0 .. MaxNow /\ direct \in BOOLEAN /\ enabled \in BOOLEAN /\ stopping \in BOOLEAN
  /\ turns \in Nat

ChatTyped == SwitchTyped /\ ChatsTyped /\ QuotaTyped /\ MemoryTyped /\ IdentityTyped

\* The limit is never over the highest one, and unless a reading was overtaken what is
\* stored is what was granted.
QuotaKept ==
  \A u \in Chatters :
    /\ quota[u].limit <= ceiling[u]
    /\ misread[u] \/ (quota[u].used = granted[u] /\ granted[u] <= ceiling[u])

\* Turns are kept, and a memory that is not there has no turns.
MemoryKept == TurnsKept /\ (current = NoState => spoken = <<>>)

\* A turn under way, and a fact that is not yet written, has been seen nowhere else.
Unwritten(n) ==
  /\ n \notin Range(identity) /\ n \notin forgotten /\ n \in 1 .. turns
  /\ \A h \in ChatHandlers : n \notin Range(adding[h].base)

Talking == {h \in ChatHandlers : chat[h].stage # "idle"}
Waiting == {h \in ChatHandlers : adding[h].stage \in {"read", "write"}}

FactsApart ==
  /\ \A h \in Talking : Unwritten(chat[h].turn)
  /\ \A h \in Waiting : Unwritten(adding[h].fact)
  /\ \A g, h \in Talking : g # h => chat[g].turn # chat[h].turn
  /\ \A g, h \in Waiting : g # h => adding[g].fact # adding[h].fact
  /\ \A g \in Talking, h \in Waiting : chat[g].turn # adding[h].fact
  /\ Range(identity) \cup forgotten \subseteq 1 .. turns
  /\ \A h \in ChatHandlers : Range(adding[h].base) \subseteq 1 .. turns

ChatInv ==
  ChatTyped /\ QuotaKept /\ MemoryKept /\ PersonaAgrees /\ FactsApart /\ ResetSticks

\* CapFifo keeps the last n of a sequence: whether it is cut before or after an element is
\* added, the result is the same.
LEMMA CapFifoKeeps ==
  ASSUME NEW S, NEW s \in Seq(S), NEW n \in Nat \ {0}
  PROVE  /\ CapFifo(s, n) \in Seq(S) /\ Len(CapFifo(s, n)) <= n
         /\ Range(CapFifo(s, n)) \subseteq Range(s)
         /\ Len(CapFifo(s, n)) = IF Len(s) > n THEN n ELSE Len(s)
         /\ \A i \in 1 .. Len(CapFifo(s, n)) :
              CapFifo(s, n)[i] = IF Len(s) > n THEN s[i + Len(s) - n] ELSE s[i]
<1>1. CASE Len(s) > n
  <2>1. /\ SubSeq(s, Len(s) - n + 1, Len(s)) \in Seq(S)
        /\ Len(SubSeq(s, Len(s) - n + 1, Len(s))) = n
        /\ \A i \in 1 .. n : SubSeq(s, Len(s) - n + 1, Len(s))[i] = s[i + Len(s) - n]
    BY <1>1
  <2>2. \A i \in 1 .. n : i + Len(s) - n \in DOMAIN s
    BY <1>1
  <2> QED
    BY <2>1, <2>2, <1>1 DEF CapFifo, Range
<1>2. CASE ~(Len(s) > n)
  BY <1>2 DEF CapFifo, Range
<1> QED
  BY <1>1, <1>2

LEMMA CapFifoTwice ==
  ASSUME NEW S, NEW s \in Seq(S), NEW x \in S, NEW n \in Nat \ {0}
  PROVE  CapFifo(Append(CapFifo(s, n), x), n) = CapFifo(Append(s, x), n)
<1> DEFINE c == CapFifo(s, n)  ac == Append(c, x)  as == Append(s, x)
<1>1. /\ c \in Seq(S) /\ Len(c) = (IF Len(s) > n THEN n ELSE Len(s))
      /\ \A i \in 1 .. Len(c) : c[i] = IF Len(s) > n THEN s[i + Len(s) - n] ELSE s[i]
  BY CapFifoKeeps
<1> HIDE DEF c
<1>2. /\ ac \in Seq(S) /\ Len(ac) = Len(c) + 1 /\ ac[Len(c) + 1] = x
      /\ \A i \in 1 .. Len(c) : ac[i] = c[i]
  BY <1>1
<1>3. /\ as \in Seq(S) /\ Len(as) = Len(s) + 1 /\ as[Len(s) + 1] = x
      /\ \A i \in 1 .. Len(s) : as[i] = s[i]
  OBVIOUS
<1> HIDE DEF ac, as
<1> DEFINE a == CapFifo(ac, n)  b == CapFifo(as, n)
<1>4. /\ a \in Seq(S) /\ Len(a) = (IF Len(ac) > n THEN n ELSE Len(ac))
      /\ \A i \in 1 .. Len(a) : a[i] = IF Len(ac) > n THEN ac[i + Len(ac) - n] ELSE ac[i]
  BY <1>2, CapFifoKeeps
<1>5. /\ b \in Seq(S) /\ Len(b) = (IF Len(as) > n THEN n ELSE Len(as))
      /\ \A i \in 1 .. Len(b) : b[i] = IF Len(as) > n THEN as[i + Len(as) - n] ELSE as[i]
  BY <1>3, CapFifoKeeps
<1> HIDE DEF a, b
<1>l. Len(s) \in Nat /\ Len(c) \in Nat
  BY <1>1
<1>6. Len(a) = Len(b) /\ Len(a) \in Nat /\ Len(a) <= Len(c) + 1
  BY <1>1, <1>2, <1>3, <1>4, <1>5, <1>l
<1>7. ASSUME NEW i \in 1 .. Len(a) PROVE a[i] = b[i]
  <2>1. CASE Len(s) > n
    <3>1. Len(c) = n /\ Len(a) = n
      BY <2>1, <1>1, <1>2, <1>4, <1>l
    <3>i. i \in Nat /\ n \in Nat /\ i <= n
      BY <3>1
    <3>5. i + Len(ac) - n = i + 1 /\ i + Len(as) - n = i + Len(s) + 1 - n
          /\ Len(ac) > n /\ Len(as) > n
      BY <3>i, <3>1, <2>1, <1>2, <1>3, <1>l
    <3>2. a[i] = ac[i + 1] /\ b[i] = as[i + Len(s) + 1 - n]
      BY <3>5, <1>4, <1>5, <1>6
    <3>3. CASE i = n
      <4>1. i + Len(s) + 1 - n = Len(s) + 1 /\ i + 1 = Len(c) + 1
        BY <3>3, <3>1, <3>i, <1>l
      <4> QED
        BY <4>1, <3>2, <1>2, <1>3
    <3>4. CASE i < n
      <4>1. i + 1 \in 1 .. Len(c) /\ i + Len(s) + 1 - n \in 1 .. Len(s)
        BY <3>1, <3>4, <3>i, <2>1, <1>l
      <4>2. c[i + 1] = s[(i + 1) + Len(s) - n]
        BY <4>1, <1>1, <2>1
      <4>3. (i + 1) + Len(s) - n = i + Len(s) + 1 - n
        BY <3>i, <1>l
      <4> QED
        BY <4>1, <4>2, <4>3, <3>2, <1>2, <1>3
    <3> QED
      BY <3>i, <3>3, <3>4
  <2>2. CASE ~(Len(s) > n)
    <3>1. Len(c) = Len(s) /\ Len(ac) = Len(as) /\ \A j \in 1 .. Len(s) : c[j] = s[j]
      BY <2>2, <1>1, <1>2, <1>3
    <3>2. \A j \in 1 .. Len(as) : ac[j] = as[j]
      <4>1. \A j \in 1 .. Len(as) : j \in 1 .. Len(s) \/ j = Len(s) + 1
        BY <1>3, <1>l
      <4> QED
        BY <4>1, <3>1, <1>2, <1>3
    <3>3. \/ Len(as) > n /\ i + Len(as) - n \in 1 .. Len(as)
          \/ ~(Len(as) > n) /\ i \in 1 .. Len(as)
      <4>1. i \in Nat /\ n \in Nat /\ 1 <= i /\ i <= Len(a) /\ Len(as) \in Nat
        BY <1>6, <1>3, <1>l
      <4>2. Len(a) = IF Len(as) > n THEN n ELSE Len(as)
        BY <3>1, <1>4
      <4>3. CASE Len(as) > n
        <5>1. \A j, l, k \in Nat : 1 <= j /\ j <= k /\ l > k => j + l - k \in 1 .. l
          OBVIOUS
        <5>2. i <= n
          BY <4>1, <4>2, <4>3
        <5> QED
          BY <5>1, <5>2, <4>1, <4>3
      <4>4. CASE ~(Len(as) > n)
        BY <4>1, <4>2, <4>4
      <4> QED
        BY <4>3, <4>4
    <3> QED
      BY <3>1, <3>2, <3>3, <1>4, <1>5, <1>6
  <2> QED
    BY <2>1, <2>2
<1>8. a = b
  BY <1>4, <1>5, <1>6, <1>7, SeqEqual
<1> QED
  BY <1>8 DEF a, b, ac, as, c

\* What is appended is all that is new.
LEMMA AppendedRange ==
  ASSUME NEW S, NEW s \in Seq(S), NEW x \in S
  PROVE  Append(s, x) \in Seq(S) /\ Range(Append(s, x)) = Range(s) \cup {x}
<1>1. /\ Append(s, x) \in Seq(S) /\ DOMAIN Append(s, x) = 1 .. Len(s) + 1
      /\ DOMAIN s = 1 .. Len(s) /\ Len(s) \in Nat
  OBVIOUS
<1>2. (\A i \in 1 .. Len(s) : Append(s, x)[i] = s[i]) /\ Append(s, x)[Len(s) + 1] = x
  OBVIOUS
<1>3. ASSUME NEW i \in DOMAIN Append(s, x) PROVE Append(s, x)[i] \in Range(s) \cup {x}
  BY <1>1, <1>2 DEF Range
<1>4. ASSUME NEW i \in DOMAIN s PROVE s[i] \in Range(Append(s, x))
  BY <1>1, <1>2 DEF Range
<1>5. x \in Range(Append(s, x))
  BY <1>1, <1>2 DEF Range
<1> QED
  BY <1>1, <1>3, <1>4, <1>5 DEF Range

LEMMA ChatStarts ==
  ASSUME PeopleInit
  PROVE  ChatInv
<1>1. ChatInit
  BY DEF PeopleInit
<1> USE <1>1, ChatAssumption DEF ChatInit, ChatAssumption
<1>2. QuotaTyped /\ QuotaKept
  BY DEF QuotaTyped, QuotaKept, NoQuota, Quotas
<1>3. MemoryTyped /\ MemoryKept
  BY DEF MemoryTyped, MemoryKept, TurnsKept, NoState
<1>4. IdentityTyped /\ PersonaAgrees
  BY DEF IdentityTyped, PersonaAgrees, NoPersona, NoAdd, Additions0
<1>5. ChatsTyped
  BY DEF ChatsTyped, Proper, ChatRecs, ChatStages, Held, NoChat, NoQuota, NoState
<1>6. SwitchTyped
  <2>1. now \in 0 .. MaxNow /\ turns \in Nat
    OBVIOUS
  <2>2. direct \in BOOLEAN /\ enabled \in BOOLEAN /\ stopping \in BOOLEAN
    OBVIOUS
  <2> QED
    BY <2>1, <2>2 DEF SwitchTyped
<1>7. FactsApart /\ ResetSticks
  BY DEF FactsApart, ResetSticks, Talking, Waiting, NoChat, NoAdd, Range
<1> QED
  BY <1>2, <1>3, <1>4, <1>5, <1>6, <1>7 DEF ChatInv, ChatTyped

\* The steps that leave the quota alone.
LEMMA QuotaAlone ==
  ASSUME ChatNext,
         ~\E u \in Chatters : ExtendRead(u) \/ \E limit \in Limits : SetLimit(u, limit),
         ~\E h \in ChatHandlers : CountUse(h) \/ ChatFails(h),
         ~ExtendWrite, ~ChatCrash
  PROVE  UNCHANGED quotaVars
<1>1. CASE \E on \in BOOLEAN : Switch(on)
  BY <1>1 DEF Switch
<1>2. CASE \E u \in Chatters, h \in ChatHandlers : Say(h, u) \/ AutoChat(h, u)
  BY <1>2 DEF Say, AutoChat, Hear
<1>3. CASE \E h \in ChatHandlers :
             \/ ReadSwitch(h) \/ Download(h) \/ ReadQuota(h) \/ Begin(h) \/ ReadDelta(h) \/ FillCache(h)
  BY <1>3 DEF ReadSwitch, Download, ReadQuota, Begin, ReadDelta, FillCache
<1>4. CASE \E h \in ChatHandlers :
             \/ Answer(h) \/ NoAnswer(h) \/ AddRead(h) \/ AddWrite(h) \/ AddDrop(h) \/ AnswerLost(h)
  BY <1>4 DEF Answer, NoAnswer, AddRead, AddWrite, AddDrop, AnswerLost
<1>5. CASE ForgetChat \/ ResetWrite \/ ResetDrop \/ PersonaExpires \/ Hour \/ Gc \/ ChatTick
  BY <1>5 DEF ForgetChat, ResetWrite, ResetDrop, PersonaExpires, Hour, Gc, ChatTick
<1> QED
  BY <1>1, <1>2, <1>3, <1>4, <1>5 DEF ChatNext

\* What is written to a quota of one user is typed and leaves the others alone.
LEMMA QuotaKeeps ==
  ASSUME ChatTyped, QuotaKept, ChatNext
  PROVE  QuotaTyped' /\ QuotaKept'
<1> USE DEF ChatTyped, QuotaTyped, QuotaKept
<1>a. InitialLimit \in Nat /\ Limits \subseteq Nat /\ ExtendBy \in Nat /\ Period \in Nat /\ MaxNow \in Nat
  BY ChatAssumption DEF ChatAssumption
<1>q. \A q \in Quotas : /\ q.used \in Nat /\ q.resetAt \in 0 .. MaxNow + Period
                        /\ q.limit \in {InitialLimit} \cup Limits /\ q.limit \in Nat
  BY <1>a DEF Quotas
<1>1. ASSUME NEW u \in Chatters, NEW limit \in Limits, SetLimit(u, limit) PROVE QuotaTyped' /\ QuotaKept'
  <2>1. /\ \A v \in Chatters : v # u => quota'[v] = quota[v] /\ ceiling'[v] = ceiling[v]
        /\ quota'[u] = [used |-> quota[u].used, resetAt |-> quota[u].resetAt, limit |-> limit]
        /\ ceiling'[u] = (IF limit > ceiling[u] THEN limit ELSE ceiling[u])
        /\ quota' \in [Chatters -> Quotas]
    BY <1>1, <1>q DEF SetLimit, Quotas
  <2>2. limit \in Nat /\ ceiling' \in [Chatters -> Nat]
    BY <1>1, <1>a DEF SetLimit
  <2>3. UNCHANGED <<granted, misread, extending>>
    BY <1>1 DEF SetLimit
  <2>4. ASSUME NEW v \in Chatters PROVE QuotaKept!(v)'
    BY <2>1, <2>2, <2>3, <1>a, <1>q
  <2> QED
    BY <2>1, <2>2, <2>3, <2>4
<1>2. ASSUME NEW u \in Chatters, ExtendRead(u) PROVE QuotaTyped' /\ QuotaKept'
  BY <1>2, <1>q DEF ExtendRead
<1>3. CASE ExtendWrite
  <2> DEFINE u == extending.user
  <2>1. u \in Chatters /\ extending.seen \in Nat
    BY <1>3 DEF ExtendWrite
  <2>2. \A n \in Nat : Less(n) \in Nat
    BY <1>a DEF Less
  <2>3. \A m, n \in Nat : m <= n => Less(m) <= n
    BY <1>a DEF Less
  <2>4. /\ \A v \in Chatters : v # u => /\ quota'[v] = quota[v] /\ granted'[v] = granted[v]
                                        /\ misread'[v] = misread[v]
        /\ quota'[u] = [used |-> Less(extending.seen), resetAt |-> quota[u].resetAt, limit |-> quota[u].limit]
        /\ granted'[u] = Less(granted[u])
        /\ misread'[u] = (misread[u] \/ quota[u].used # extending.seen)
        /\ UNCHANGED ceiling
    BY <1>3, <1>q, <2>1 DEF ExtendWrite, Quotas
  <2>5. quota' \in [Chatters -> Quotas]
    BY <1>3, <1>q, <2>1, <2>2 DEF ExtendWrite, Quotas
  <2>6. granted' \in [Chatters -> Nat]
    BY <1>3, <2>1, <2>2 DEF ExtendWrite
  <2>7. misread' \in [Chatters -> BOOLEAN] /\ extending' = NoExt
    BY <1>3, <2>1 DEF ExtendWrite
  <2>8. ASSUME NEW v \in Chatters PROVE QuotaKept!(v)'
    <3> HIDE DEF u
    <3>1. granted[v] \in Nat /\ ceiling[v] \in Nat
      OBVIOUS
    <3>2. CASE v # u
      BY <3>2, <2>4
    <3>3. CASE v = u
      <4>1. quota'[v].limit = quota[v].limit /\ ceiling'[v] = ceiling[v]
        BY <3>3, <2>4
      <4>2. ASSUME ~misread'[v] PROVE quota'[v].used = granted'[v] /\ granted'[v] <= ceiling'[v]
        <5>1. ~misread[v] /\ quota[v].used = extending.seen
          BY <4>2, <3>3, <2>4
        <5>2. quota[v].used = granted[v] /\ granted[v] <= ceiling[v]
          BY <5>1
        <5>3. quota'[v].used = Less(extending.seen) /\ granted'[v] = Less(granted[v])
          BY <3>3, <2>4
        <5> QED
          BY <5>1, <5>2, <5>3, <4>1, <3>1, <2>3
      <4> QED
        BY <4>1, <4>2
    <3> QED
      BY <3>2, <3>3
  <2> QED
    BY <2>4, <2>5, <2>6, <2>7, <2>8
<1>4. ASSUME NEW h \in ChatHandlers, CountUse(h) PROVE QuotaTyped' /\ QuotaKept'
  <2>0. PICK u \in Chatters : u = chat[h].user
    BY <1>4 DEF CountUse, ChatsTyped, Proper
  <2> DEFINE seen == chat[h].seen
             at   == chat[h].at
             next == Consumed(seen, at)
  <2>1. /\ u \in Chatters /\ seen.used \in Nat /\ seen.resetAt \in 0 .. MaxNow + Period /\ seen.limit \in Nat
        /\ at \in 0 .. MaxNow
    BY <1>4, <2>0 DEF ChatsTyped, ChatRecs
  <2>2. next.used \in Nat /\ next.resetAt \in 0 .. MaxNow + Period
    BY <2>1, <1>a DEF Consumed
  <2>3. /\ quota' = [quota EXCEPT ![u].used = next.used, ![u].resetAt = next.resetAt]
        /\ granted' = [granted EXCEPT ![u] = (IF at >= quota[u].resetAt THEN 0 ELSE @)
                                             + (IF Allowed(seen, at) THEN 1 ELSE 0)]
        /\ ceiling' = [ceiling EXCEPT ![u] = IF at >= quota[u].resetAt THEN quota[u].limit ELSE @]
        /\ misread' = [misread EXCEPT ![u] = (@ /\ ~(at >= quota[u].resetAt)) \/ quota[u] # seen]
        /\ UNCHANGED extending
    BY <1>4, <2>0 DEF CountUse
  <2>t. QuotaTyped'
    <3> HIDE DEF seen, at, next
    <3>1. quota' \in [Chatters -> Quotas]
      BY <2>1, <2>2, <2>3, <1>q DEF Quotas
    <3>2. granted' \in [Chatters -> Nat] /\ ceiling' \in [Chatters -> Nat]
      BY <2>1, <2>3, <1>q
    <3>3. misread' \in [Chatters -> BOOLEAN]
      BY <2>1, <2>3
    <3> QED
      BY <3>1, <3>2, <3>3, <2>3
  <2>4. ASSUME NEW v \in Chatters, v # u PROVE QuotaKept!(v)'
    <3> HIDE DEF seen, at, next
    <3>1. quota'[v] = quota[v] /\ granted'[v] = granted[v] /\ ceiling'[v] = ceiling[v]
          /\ misread'[v] = misread[v]
      BY <2>1, <2>3, <2>4
    <3> QED
      BY <3>1
  <2>5. QuotaKept!(u)'
    <3>1. /\ quota'[u].used = next.used /\ quota'[u].limit = quota[u].limit
          /\ granted'[u] = (IF at >= quota[u].resetAt THEN 0 ELSE granted[u])
                             + (IF Allowed(seen, at) THEN 1 ELSE 0)
          /\ ceiling'[u] = (IF at >= quota[u].resetAt THEN quota[u].limit ELSE ceiling[u])
          /\ misread'[u] = ((misread[u] /\ ~(at >= quota[u].resetAt)) \/ quota[u] # seen)
      <4> HIDE DEF seen, at, next
      <4> QED
        BY <2>1, <2>3, <1>q
    <3>2. quota[u].used \in Nat /\ quota[u].limit \in Nat /\ granted[u] \in Nat /\ ceiling[u] \in Nat
          /\ quota[u].resetAt \in Nat /\ at \in Nat
      BY <2>1, <1>q, <1>a
    <3>3. quota'[u].limit <= ceiling'[u]
      BY <3>1, <3>2, <2>1
    <3>4. ASSUME ~misread'[u] PROVE quota'[u].used = granted'[u] /\ granted'[u] <= ceiling'[u]
      <4>1. quota[u] = seen
        BY <3>1, <3>4
      <4>2. CASE at >= quota[u].resetAt
        BY <4>1, <4>2, <3>1, <3>2 DEF Consumed, Allowed
      <4>3. CASE ~(at >= quota[u].resetAt)
        <5>1. ~misread[u]
          BY <4>3, <3>1, <3>4
        <5>2. quota[u].used = granted[u] /\ granted[u] <= ceiling[u] /\ quota[u].limit <= ceiling[u]
          BY <5>1, <2>1
        <5> QED
          BY <5>2, <4>1, <4>3, <3>1, <3>2 DEF Consumed, Allowed
      <4> QED
        BY <4>2, <4>3
    <3> QED
      BY <3>3, <3>4
  <2> QED
    BY <2>t, <2>4, <2>5
<1>5. CASE (\E h \in ChatHandlers : ChatFails(h)) \/ ChatCrash
  <2>1. UNCHANGED <<quota, granted, ceiling, misread>> /\ extending' \in {extending, NoExt}
    BY <1>5 DEF ChatFails, ChatCrash
  <2> QED
    BY <2>1
<1>6. CASE UNCHANGED quotaVars
  BY <1>6 DEF quotaVars
<1> QED
  BY <1>1, <1>2, <1>3, <1>4, <1>5, <1>6, QuotaAlone

\* The steps that leave the memory of the turns alone.
LEMMA MemoryAlone ==
  ASSUME ChatNext,
         ~\E h \in ChatHandlers : Begin(h) \/ Answer(h),
         ~ForgetChat, ~Hour, ~Gc, ~ChatCrash
  PROVE  UNCHANGED memoryVars
<1>1. CASE \/ \E on \in BOOLEAN : Switch(on)
           \/ \E u \in Chatters : ExtendRead(u) \/ \E limit \in Limits : SetLimit(u, limit)
  BY <1>1 DEF Switch, ExtendRead, SetLimit
<1>2. CASE \E u \in Chatters, h \in ChatHandlers : Say(h, u) \/ AutoChat(h, u)
  BY <1>2 DEF Say, AutoChat, Hear
<1>3. CASE \E h \in ChatHandlers :
             \/ ReadSwitch(h) \/ Download(h) \/ ReadQuota(h) \/ CountUse(h) \/ ReadDelta(h) \/ FillCache(h)
  BY <1>3 DEF ReadSwitch, Download, ReadQuota, CountUse, ReadDelta, FillCache
<1>4. CASE \E h \in ChatHandlers :
             \/ NoAnswer(h) \/ AddRead(h) \/ AddWrite(h) \/ AddDrop(h) \/ ChatFails(h) \/ AnswerLost(h)
  BY <1>4 DEF NoAnswer, AddRead, AddWrite, AddDrop, ChatFails, AnswerLost
<1>5. CASE ExtendWrite \/ ResetWrite \/ ResetDrop \/ PersonaExpires \/ ChatTick
  BY <1>5 DEF ExtendWrite, ResetWrite, ResetDrop, PersonaExpires, ChatTick
<1> QED
  BY <1>1, <1>2, <1>3, <1>4, <1>5 DEF ChatNext

\* The object in the store has the last turns: a chat that answers adds its turn to the
\* object it took, and to no other.
LEMMA MemoryKeeps ==
  ASSUME ChatTyped, MemoryKept, ChatNext
  PROVE  MemoryTyped' /\ MemoryKept' /\ (Len(states') >= Len(states) \/ ChatCrash)
<1> USE DEF ChatTyped, MemoryTyped, MemoryKept, TurnsKept
<1>a. RecentTurnCap \in Nat \ {0}
  BY ChatAssumption DEF ChatAssumption
<1>l. Len(states) \in Nat /\ DOMAIN states = 1 .. Len(states)
  OBVIOUS
<1>1. ASSUME NEW h \in ChatHandlers, Begin(h)
      PROVE  MemoryTyped' /\ MemoryKept' /\ Len(states') >= Len(states)
  <2>1. CASE current = NoState
    <3>1. /\ states' = Append(states, <<>>) /\ current' = Len(states') /\ UNCHANGED <<spoken, strayed>>
      BY <1>1, <2>1 DEF Begin
    <3>2. <<>> \in Seq(Nat) /\ Len(<<>>) = 0
      OBVIOUS
    <3>3. /\ states' \in Seq(Seq(Nat)) /\ Len(states') = Len(states) + 1
          /\ states'[Len(states) + 1] = <<>> /\ \A i \in 1 .. Len(states) : states'[i] = states[i]
      BY <3>1, <3>2
    <3>4. \A i \in DOMAIN states' : Len(states'[i]) <= RecentTurnCap
      <4>1. \A i \in DOMAIN states' : i \in 1 .. Len(states) \/ i = Len(states) + 1
        BY <3>3, <1>l
      <4> QED
        <5>1. ASSUME NEW i \in 1 .. Len(states) PROVE Len(states'[i]) <= RecentTurnCap
          <6>1. states'[i] = states[i]
            BY <3>3
          <6> QED
            BY <6>1, <1>l
        <5>2. Len(states'[Len(states) + 1]) <= RecentTurnCap
          BY <3>2, <3>3, <1>a
        <5> QED
          BY <4>1, <5>1, <5>2
    <3>5. current' = Len(states) + 1 /\ current' # NoState /\ current' \in 0 .. Len(states')
      BY <3>1, <3>3, <1>l DEF NoState
    <3>6. CapFifo(<<>>, RecentTurnCap) = <<>>
      BY <3>2, <1>a DEF CapFifo
    <3> QED
      BY <3>1, <3>3, <3>4, <3>5, <3>6, <2>1, <1>l
  <2>2. CASE current # NoState
    BY <1>1, <1>l, <2>2 DEF Begin
  <2> QED
    BY <2>1, <2>2
<1>2. ASSUME NEW h \in ChatHandlers, Answer(h)
      PROVE  MemoryTyped' /\ MemoryKept' /\ Len(states') >= Len(states)
  <2>0. PICK i \in Nat : i = chat[h].state
    BY DEF ChatsTyped, ChatRecs
  <2>1. PICK turn \in Nat : turn = chat[h].turn
    BY DEF ChatsTyped, ChatRecs
  <2>2. i \in 1 .. Len(states)
    <3>1. chat[h].stage = "model"
      BY <1>2 DEF Answer
    <3>2. chat[h].state <= Len(states) /\ chat[h].state # NoState
      BY <3>1 DEF ChatsTyped, Proper, Held
    <3> QED
      BY <3>2, <1>l, <2>0 DEF NoState
  <2>3. /\ states' = [states EXCEPT ![i] = CapFifo(Append(states[i], turn), RecentTurnCap)]
        /\ current' = i /\ spoken' = Append(spoken, turn)
        /\ strayed' = (strayed \/ current # i)
    BY <1>2, <2>0, <2>1 DEF Answer, Commit, Push
  <2>4. states[i] \in Seq(Nat) /\ Append(states[i], turn) \in Seq(Nat)
    BY <2>2
  <2>5. /\ CapFifo(Append(states[i], turn), RecentTurnCap) \in Seq(Nat)
        /\ Len(CapFifo(Append(states[i], turn), RecentTurnCap)) <= RecentTurnCap
    BY <2>4, <1>a, CapFifoKeeps
  <2>6. /\ states' \in Seq(Seq(Nat)) /\ Len(states') = Len(states) /\ DOMAIN states' = DOMAIN states
        /\ states'[i] = CapFifo(Append(states[i], turn), RecentTurnCap)
        /\ \A j \in DOMAIN states : j # i => states'[j] = states[j]
    BY <2>2, <2>3, <2>5
  <2>7. \A j \in DOMAIN states' : Len(states'[j]) <= RecentTurnCap
    BY <2>5, <2>6
  <2>8. current' # NoState /\ current' \in 0 .. Len(states') /\ spoken' \in Seq(Nat)
    BY <2>2, <2>3, <2>6, <1>l DEF NoState
  <2>9. ASSUME ~strayed' PROVE states'[current'] = CapFifo(spoken', RecentTurnCap)
    <3>0. i # NoState
      BY <2>2 DEF NoState
    <3>1. ~strayed /\ current = i /\ current # NoState
      BY <2>3, <2>9, <3>0, Zenon
    <3>2. states[i] = CapFifo(spoken, RecentTurnCap)
      BY <3>1
    <3>3. CapFifo(Append(CapFifo(spoken, RecentTurnCap), turn), RecentTurnCap)
            = CapFifo(Append(spoken, turn), RecentTurnCap)
      BY <1>a, CapFifoTwice
    <3> QED
      BY <3>2, <3>3, <2>3, <2>6, Zenon
  <2> QED
    BY <2>6, <2>7, <2>8, <2>9, <1>l
<1>3. CASE ForgetChat \/ Gc
  <2>1. UNCHANGED states /\ current' = NoState /\ spoken' = <<>>
    BY <1>3 DEF ForgetChat, ForgetMemory, Gc
  <2> QED
    BY <2>1, <1>l DEF NoState
<1>4. CASE Hour
  BY <1>4, <1>l DEF Hour
<1>5. CASE ChatCrash
  BY <1>5 DEF ChatCrash, NoState
<1>6. CASE UNCHANGED memoryVars
  BY <1>6, <1>l DEF memoryVars
<1> QED
  BY <1>1, <1>2, <1>3, <1>4, <1>5, <1>6, MemoryAlone

\* The steps that leave what is known of the chat alone.
LEMMA IdentityAlone ==
  ASSUME ChatNext,
         ~\E h \in ChatHandlers :
            \/ FillCache(h) \/ Answer(h) \/ AddRead(h) \/ AddWrite(h) \/ AddDrop(h)
            \/ ChatFails(h) \/ AnswerLost(h),
         ~ResetWrite, ~ResetDrop, ~PersonaExpires, ~ChatCrash
  PROVE  UNCHANGED identityVars
<1>1. CASE \/ \E on \in BOOLEAN : Switch(on)
           \/ \E u \in Chatters : ExtendRead(u) \/ \E limit \in Limits : SetLimit(u, limit)
  BY <1>1 DEF Switch, ExtendRead, SetLimit
<1>2. CASE \E u \in Chatters, h \in ChatHandlers : Say(h, u) \/ AutoChat(h, u)
  BY <1>2 DEF Say, AutoChat, Hear
<1>3. CASE \E h \in ChatHandlers :
             \/ ReadSwitch(h) \/ Download(h) \/ ReadQuota(h) \/ CountUse(h) \/ Begin(h) \/ ReadDelta(h)
  BY <1>3 DEF ReadSwitch, Download, ReadQuota, CountUse, Begin, ReadDelta
<1>4. CASE \E h \in ChatHandlers : NoAnswer(h)
  BY <1>4 DEF NoAnswer
<1>5. CASE ForgetChat \/ ExtendWrite \/ Hour \/ Gc \/ ChatTick
  BY <1>5 DEF ForgetChat, ExtendWrite, Hour, Gc, ChatTick
<1> QED
  BY <1>1, <1>2, <1>3, <1>4, <1>5 DEF ChatNext

\* A step moves at most one chat, unless the process dies: it begins with a turn of its
\* own, goes on with the turn it has, or is over.
Moved(h, r) ==
  /\ chat' = [chat EXCEPT ![h] = r] /\ r \in ChatRecs /\ Proper(r, Len(states'))
  /\ r.stage = "idle" \/ (chat[h].stage # "idle" /\ r.turn = chat[h].turn)

Heard(h, r) ==
  /\ chat' = [chat EXCEPT ![h] = r] /\ r \in ChatRecs /\ Proper(r, Len(states'))
  /\ turns' = turns + 1 /\ r.turn = turns + 1 /\ UNCHANGED identityVars

LEMMA ChatsMove ==
  ASSUME ChatTyped, ChatNext
  PROVE  \/ UNCHANGED <<chat, turns>>
         \/ \E h \in ChatHandlers, r \in ChatRecs : Moved(h, r) /\ UNCHANGED turns
         \/ \E h \in ChatHandlers, r \in ChatRecs : Heard(h, r)
         \/ ChatCrash
<1> USE DEF ChatTyped
<1>a. InitialLimit \in Nat /\ Limits \subseteq Nat /\ Period \in Nat /\ MaxNow \in Nat /\ FactCap \in Nat
  BY ChatAssumption DEF ChatAssumption
<1>c. \A h \in ChatHandlers : chat[h] \in ChatRecs /\ Proper(chat[h], Len(states))
  BY DEF ChatsTyped
<1>n. NoChat \in ChatRecs /\ \A n \in Nat : Proper(NoChat, n)
  BY <1>a DEF NoChat, NoQuota, ChatRecs, ChatStages, Proper, Held, NoState
<1>l. Len(states) \in Nat
  BY DEF MemoryTyped
<1>s. SwitchTyped
  OBVIOUS
<1>o. ASSUME NEW h \in ChatHandlers, Done(h), UNCHANGED <<states, turns>>
      PROVE  \E r \in ChatRecs : Moved(h, r) /\ UNCHANGED turns
  <2>1. chat' = [chat EXCEPT ![h] = NoChat] /\ NoChat.stage = "idle"
    BY <1>o DEF Done, NoChat
  <2> QED
    BY <2>1, <1>o, <1>n, <1>l DEF Moved
<1>t. ASSUME NEW h \in ChatHandlers, NEW where \in ChatStages, To(h, where), UNCHANGED <<states, turns>>,
             chat[h].stage # "idle", where \in Held => chat[h].stage \in Held
      PROVE  \E r \in ChatRecs : Moved(h, r) /\ UNCHANGED turns
  <2> DEFINE r == [chat[h] EXCEPT !.stage = where]
  <2>1. r \in ChatRecs /\ r.turn = chat[h].turn /\ Proper(r, Len(states))
    BY <1>c, <1>t DEF ChatRecs, Proper
  <2>2. chat' = [chat EXCEPT ![h] = r]
    BY <1>t DEF To
  <2> HIDE DEF r
  <2> QED
    BY <2>1, <2>2, <1>t DEF Moved
<1>1. ASSUME NEW h \in ChatHandlers, NEW u \in Chatters, NEW where \in {"quota", "switch", "spoken"},
             Hear(h, u, where)
      PROVE  \E r \in ChatRecs : Heard(h, r)
  <2> DEFINE r == [NoChat EXCEPT !.stage = where, !.user = u, !.at = now, !.turn = turns']
  <2>1. chat' = [chat EXCEPT ![h] = r] /\ turns' = turns + 1 /\ UNCHANGED <<identityVars, states>>
    BY <1>1 DEF Hear, memoryVars
  <2>2. r.turn = turns' /\ turns' \in Nat
    BY <2>1, <1>s DEF NoChat, SwitchTyped
  <2>3. r \in ChatRecs
    <3>1. where \in ChatStages /\ u \in Chatters \cup {"nobody"} /\ now \in 0 .. MaxNow
      BY <1>s DEF ChatStages, SwitchTyped
    <3> QED
      BY <3>1, <2>2, <1>n DEF ChatRecs
  <2>4. Proper(r, Len(states))
    BY <1>l, <1>a DEF NoChat, Proper, Held, NoState
  <2> HIDE DEF r
  <2> QED
    BY <2>1, <2>2, <2>3, <2>4 DEF Heard
<1>2. ASSUME NEW h \in ChatHandlers, ReadSwitch(h) \/ Download(h)
      PROVE  \E r \in ChatRecs : Moved(h, r) /\ UNCHANGED turns
  <2>1. UNCHANGED <<states, turns>> /\ chat[h].stage # "idle"
    BY <1>2 DEF ReadSwitch, Download, memoryVars, ChatBoundsKept
  <2>2. ASSUME chat' = [chat EXCEPT ![h].stage = "quota", ![h].at = now]
        PROVE  \E r \in ChatRecs : Moved(h, r) /\ UNCHANGED turns
    <3> DEFINE r == [chat[h] EXCEPT !.stage = "quota", !.at = now]
    <3>1. r \in ChatRecs /\ r.turn = chat[h].turn /\ Proper(r, Len(states))
      BY <1>c, <1>s, <2>1 DEF ChatRecs, ChatStages, Proper, SwitchTyped, Held
    <3>2. chat' = [chat EXCEPT ![h] = r]
      BY <2>2
    <3> HIDE DEF r
    <3> QED
      BY <3>1, <3>2, <2>1 DEF Moved
  <2>3. \/ Done(h) \/ To(h, "voice") \/ chat' = [chat EXCEPT ![h].stage = "quota", ![h].at = now]
    BY <1>2 DEF ReadSwitch, Download
  <2> QED
    BY <2>1, <2>2, <2>3, <1>o, <1>t DEF ChatStages, Held
<1>3. ASSUME NEW h \in ChatHandlers, ReadQuota(h)
      PROVE  \E r \in ChatRecs : Moved(h, r) /\ UNCHANGED turns
  <2> DEFINE r == [chat[h] EXCEPT !.stage = "count", !.seen = quota[chat[h].user]]
  <2>1. UNCHANGED <<states, turns>> /\ chat[h].stage # "idle" /\ chat' = [chat EXCEPT ![h] = r]
    BY <1>3 DEF ReadQuota, memoryVars, ChatBoundsKept
  <2>2. quota[chat[h].user] \in [used : Nat, resetAt : 0 .. MaxNow + Period, limit : Nat]
    <3>1. quota[chat[h].user] \in Quotas
      BY <1>c, <2>1 DEF Proper, QuotaTyped
    <3> QED
      BY <3>1, <1>a DEF Quotas
  <2>3. r \in ChatRecs /\ r.turn = chat[h].turn /\ Proper(r, Len(states))
    BY <1>c, <2>1, <2>2 DEF ChatRecs, ChatStages, Proper, Held
  <2> HIDE DEF r
  <2> QED
    BY <2>1, <2>3 DEF Moved
<1>4. ASSUME NEW h \in ChatHandlers, CountUse(h)
      PROVE  \E r \in ChatRecs : Moved(h, r) /\ UNCHANGED turns
  <2>1. UNCHANGED <<states, turns>> /\ chat[h].stage = "count" /\ (To(h, "counted") \/ Done(h))
    BY <1>4 DEF CountUse, memoryVars, ChatBoundsKept
  <2> QED
    BY <2>1, <1>o, <1>t DEF ChatStages, Held
<1>5. ASSUME NEW h \in ChatHandlers, Begin(h)
      PROVE  \E r \in ChatRecs : Moved(h, r) /\ UNCHANGED turns
  <2> DEFINE r == [chat[h] EXCEPT !.state = current',
                                  !.stage = IF persona = NoPersona THEN "delta" ELSE "model"]
  <2>1. UNCHANGED turns /\ chat[h].stage # "idle" /\ chat' = [chat EXCEPT ![h] = r]
    BY <1>5 DEF Begin, ChatBoundsKept
  <2>2. current' \in Nat /\ current' # NoState /\ current' <= Len(states') /\ Len(states') \in Nat
    BY <1>5, <1>l DEF Begin, MemoryTyped, NoState
  <2>3. r \in ChatRecs /\ r.turn = chat[h].turn /\ Proper(r, Len(states'))
    BY <1>c, <2>1, <2>2 DEF ChatRecs, ChatStages, Proper
  <2> HIDE DEF r
  <2> QED
    BY <2>1, <2>3 DEF Moved
<1>6. ASSUME NEW h \in ChatHandlers, ReadDelta(h)
      PROVE  \E r \in ChatRecs : Moved(h, r) /\ UNCHANGED turns
  <2> DEFINE r == [chat[h] EXCEPT !.stage = "fill", !.delta = identity]
  <2>1. UNCHANGED <<states, turns>> /\ chat[h].stage = "delta" /\ chat' = [chat EXCEPT ![h] = r]
    BY <1>6 DEF ReadDelta, memoryVars, ChatBoundsKept
  <2>3. r \in ChatRecs /\ r.turn = chat[h].turn /\ Proper(r, Len(states))
    BY <1>c, <2>1 DEF ChatRecs, ChatStages, Proper, Held, IdentityTyped
  <2> HIDE DEF r
  <2> QED
    BY <2>1, <2>3 DEF Moved
<1>7. ASSUME NEW h \in ChatHandlers, FillCache(h)
      PROVE  \E r \in ChatRecs : Moved(h, r) /\ UNCHANGED turns
  <2>1. UNCHANGED <<states, turns>> /\ chat[h].stage = "fill" /\ To(h, "model")
    BY <1>7 DEF FillCache, memoryVars, ChatBoundsKept
  <2> QED
    BY <2>1, <1>t DEF ChatStages, Held
<1>8. ASSUME NEW h \in ChatHandlers, Answer(h)
      PROVE  \E r \in ChatRecs : Moved(h, r) /\ UNCHANGED turns
  <2>1. UNCHANGED turns /\ chat' = [chat EXCEPT ![h] = NoChat] /\ NoChat.stage = "idle"
    BY <1>8 DEF Answer, Done, ChatBoundsKept, NoChat
  <2>2. Len(states') \in Nat
    <3>1. states' = [states EXCEPT ![chat[h].state] =
                       CapFifo(Append(states[chat[h].state], chat[h].turn), RecentTurnCap)]
      BY <1>8 DEF Answer, Commit, Push
    <3>2. DOMAIN states' = 1 .. Len(states)
      BY <3>1 DEF MemoryTyped
    <3> QED
      BY <3>1, <3>2, <1>l, LenProperties DEF MemoryTyped
  <2> QED
    BY <2>1, <2>2, <1>n DEF Moved
<1>9. ASSUME NEW h \in ChatHandlers, NoAnswer(h)
      PROVE  \E r \in ChatRecs : Moved(h, r) /\ UNCHANGED turns
  BY <1>9, <1>o DEF NoAnswer, memoryVars
<1>10. ASSUME NEW h \in ChatHandlers, ChatFails(h)
       PROVE  UNCHANGED <<chat, turns>> \/ \E r \in ChatRecs : Moved(h, r) /\ UNCHANGED turns
  BY <1>10, <1>o DEF ChatFails, memoryVars
<1>15. ASSUME NEW h \in ChatHandlers, AnswerLost(h)
       PROVE  UNCHANGED <<chat, turns>> \/ \E r \in ChatRecs : Moved(h, r) /\ UNCHANGED turns
  BY <1>15, <1>o DEF AnswerLost, memoryVars
<1>11. CASE \/ \E on \in BOOLEAN : Switch(on)
            \/ \E u \in Chatters : ExtendRead(u) \/ \E limit \in Limits : SetLimit(u, limit)
  BY <1>11 DEF Switch, ExtendRead, SetLimit, ModActs
<1>12. CASE ForgetChat \/ ExtendWrite \/ ResetWrite \/ ResetDrop \/ PersonaExpires \/ Hour \/ Gc \/ ChatTick
  BY <1>12 DEF ForgetChat, ExtendWrite, ResetWrite, ResetDrop, PersonaExpires, Hour, Gc, ChatTick,
               ModActs, ChatBoundsKept
<1>13. CASE \E h \in ChatHandlers : AddRead(h) \/ AddWrite(h) \/ AddDrop(h)
  BY <1>13 DEF AddRead, AddWrite, AddDrop, ChatBoundsKept
<1>14. CASE \E u \in Chatters, h \in ChatHandlers : Say(h, u) \/ AutoChat(h, u)
  BY <1>14, <1>1 DEF Say, AutoChat
<1> QED
  BY <1>2, <1>3, <1>4, <1>5, <1>6, <1>7, <1>8, <1>9, <1>10, <1>11, <1>12, <1>13, <1>14,
     <1>15 DEF ChatNext

LEMMA ChatsKeepTyped ==
  ASSUME ChatTyped, MemoryKept, ChatNext
  PROVE  ChatsTyped' /\ SwitchTyped' /\ turns' \in {turns, turns + 1}
<1> USE DEF ChatTyped
<1>m. Len(states) \in Nat /\ (Len(states') >= Len(states) \/ ChatCrash) /\ Len(states') \in Nat
  <2>1. MemoryTyped' /\ (Len(states') >= Len(states) \/ ChatCrash)
    BY MemoryKeeps
  <2> QED
    BY <2>1 DEF MemoryTyped
<1>1. ASSUME NEW h \in ChatHandlers, NEW r \in ChatRecs, ~ChatCrash,
             chat' = [chat EXCEPT ![h] = r], Proper(r, Len(states'))
      PROVE  ChatsTyped'
  <2>1. chat' \in [ChatHandlers -> ChatRecs] /\ chat'[h] = r
        /\ \A g \in ChatHandlers : g # h => chat'[g] = chat[g]
    BY <1>1 DEF ChatsTyped
  <2>2. ASSUME NEW g \in ChatHandlers PROVE Proper(chat'[g], Len(states'))
    <3>1. CASE g = h
      BY <3>1, <2>1, <1>1
    <3>2. CASE g # h
      <4>1. Proper(chat[g], Len(states)) /\ chat[g].state \in Nat
        BY DEF ChatsTyped, ChatRecs
      <4>2. Proper(chat[g], Len(states'))
        BY <4>1, <1>m, <1>1 DEF Proper
      <4> QED
        BY <4>2, <3>2, <2>1
    <3> QED
      BY <3>1, <3>2
  <2> QED
    BY <2>1, <2>2 DEF ChatsTyped
<1>2. CASE ChatCrash
  <2>1. chat' = [h \in ChatHandlers |-> NoChat] /\ turns' = turns
        /\ UNCHANGED <<now, direct, enabled>> /\ stopping' = FALSE
    BY <1>2 DEF ChatCrash
  <2>2. NoChat \in ChatRecs /\ \A n \in Nat : Proper(NoChat, n)
    BY ChatAssumption DEF ChatAssumption, NoChat, NoQuota, ChatRecs, ChatStages, Proper, Held, NoState
  <2>3. ChatsTyped'
    BY <2>1, <2>2, <1>m DEF ChatsTyped
  <2> QED
    BY <2>1, <2>3 DEF SwitchTyped
<1>3. ASSUME UNCHANGED <<chat, turns>>, ~ChatCrash PROVE ChatsTyped'
  <2>1. ASSUME NEW h \in ChatHandlers PROVE Proper(chat'[h], Len(states'))
    <3>1. Proper(chat[h], Len(states)) /\ chat[h].state \in Nat
      BY DEF ChatsTyped, ChatRecs
    <3> QED
      BY <3>1, <1>m, <1>3 DEF Proper
  <2>2. chat' \in [ChatHandlers -> ChatRecs]
    BY <1>3 DEF ChatsTyped
  <2>3. (\A h \in ChatHandlers : Proper(chat[h], Len(states)))'
    BY <2>1
  <2> QED
    BY <2>2, <2>3 DEF ChatsTyped
<1>4. ChatsTyped' /\ turns' \in {turns, turns + 1}
  <2>1. turns' \in {turns, turns + 1}
    BY <1>2, ChatsMove DEF Moved, Heard, ChatCrash
  <2>2. ChatsTyped'
    BY <1>1, <1>2, <1>3, ChatsMove DEF Moved, Heard
  <2> QED
    BY <2>1, <2>2
<1>5. turns' \in Nat
  BY <1>4 DEF SwitchTyped
<1>b. now \in 0 .. MaxNow /\ direct \in BOOLEAN /\ enabled \in BOOLEAN /\ stopping \in BOOLEAN
  BY DEF SwitchTyped
<1> HIDE DEF ChatTyped
<1>a. MaxNow \in Nat
  BY ChatAssumption DEF ChatAssumption
<1>6. ASSUME UNCHANGED <<now, direct, switchVars>> PROVE SwitchTyped'
  <2>1. now' = now /\ direct' = direct /\ enabled' = enabled /\ stopping' = stopping
    BY <1>6 DEF switchVars
  <2>2. direct' \in BOOLEAN /\ enabled' \in BOOLEAN /\ stopping' \in BOOLEAN
    BY <2>1, <1>b, Zenon
  <2>3. now' \in 0 .. MaxNow
    BY <2>1, <1>b, Zenon
  <2> QED
    BY <2>2, <2>3, <1>5 DEF SwitchTyped
<1>7. ASSUME NEW on \in BOOLEAN, Switch(on) PROVE SwitchTyped'
  <2>1. now' = now /\ direct' = direct /\ enabled' = on /\ stopping' = (direct /\ ~on)
    BY <1>7 DEF Switch, ModActs
  <2>2. direct' \in BOOLEAN /\ enabled' \in BOOLEAN /\ stopping' \in BOOLEAN
    BY <2>1, <1>b, Zenon
  <2>3. now' \in 0 .. MaxNow
    BY <2>1, <1>b, Zenon
  <2> QED
    BY <2>2, <2>3, <1>5 DEF SwitchTyped
<1>8. ASSUME ForgetChat PROVE SwitchTyped'
  <2>1. now' = now /\ direct' = direct /\ enabled' = enabled /\ stopping' = FALSE
    BY <1>8 DEF ForgetChat, ChatBoundsKept
  <2>2. direct' \in BOOLEAN /\ enabled' \in BOOLEAN /\ stopping' \in BOOLEAN
    BY <2>1, <1>b, Zenon
  <2>3. now' \in 0 .. MaxNow
    BY <2>1, <1>b, Zenon
  <2> QED
    BY <2>2, <2>3, <1>5 DEF SwitchTyped
<1>9. ASSUME ChatTick PROVE SwitchTyped'
  <2>1. direct' = direct /\ enabled' = enabled /\ stopping' = stopping
    BY <1>9 DEF ChatTick, switchVars
  <2>2. direct' \in BOOLEAN /\ enabled' \in BOOLEAN /\ stopping' \in BOOLEAN
    BY <2>1, <1>b, Zenon
  <2>3. now' \in 0 .. MaxNow
    BY <1>9, <1>a, <1>b DEF ChatTick
  <2> QED
    BY <2>2, <2>3, <1>5 DEF SwitchTyped
<1>10. CASE \E u \in Chatters : \/ ExtendRead(u) \/ \E limit \in Limits : SetLimit(u, limit)
                                \/ \E h \in ChatHandlers : Say(h, u) \/ AutoChat(h, u)
  BY <1>10, <1>4, <1>6 DEF ExtendRead, SetLimit, Say, AutoChat, Hear, ModActs
<1>11. CASE \E h \in ChatHandlers :
              \/ ReadSwitch(h) \/ Download(h) \/ ReadQuota(h) \/ CountUse(h) \/ Begin(h)
              \/ ReadDelta(h) \/ FillCache(h)
  BY <1>11, <1>4, <1>6 DEF ReadSwitch, Download, ReadQuota, CountUse, Begin, ReadDelta, FillCache, ChatBoundsKept
<1>12. CASE \E h \in ChatHandlers :
              \/ Answer(h) \/ NoAnswer(h) \/ AddRead(h) \/ AddWrite(h) \/ AddDrop(h) \/ ChatFails(h)
  BY <1>12, <1>4, <1>6 DEF Answer, NoAnswer, AddRead, AddWrite, AddDrop, ChatFails, ChatBoundsKept
<1>13. CASE ExtendWrite \/ ResetWrite \/ ResetDrop \/ PersonaExpires \/ Hour \/ Gc
  BY <1>13, <1>4, <1>6 DEF ExtendWrite, ResetWrite, ResetDrop, PersonaExpires, Hour, Gc, ModActs, ChatBoundsKept
<1>14. ASSUME NEW h \in ChatHandlers, AnswerLost(h) PROVE SwitchTyped'
  <2>1. now' = now /\ direct' = direct /\ enabled' = enabled /\ (stopping' = stopping \/ stopping' = FALSE)
    BY <1>14 DEF AnswerLost
  <2>2. direct' \in BOOLEAN /\ enabled' \in BOOLEAN /\ stopping' \in BOOLEAN
    BY <2>1, <1>b, Zenon
  <2>3. now' \in 0 .. MaxNow
    BY <2>1, <1>b, Zenon
  <2> QED
    BY <2>2, <2>3, <1>5 DEF SwitchTyped
<1> QED
  BY <1>2, <1>4, <1>7, <1>8, <1>9, <1>10, <1>11, <1>12, <1>13, <1>14 DEF ChatNext

\* What is known of the chat is typed, and the cache agrees with it.
LEMMA IdentityKeeps ==
  ASSUME ChatTyped, PersonaAgrees, ChatNext
  PROVE  IdentityTyped' /\ PersonaAgrees'
<1> USE DEF ChatTyped, IdentityTyped, PersonaAgrees
<1>a. FactCap \in Nat \ {0}
  BY ChatAssumption DEF ChatAssumption
<1>n. NoPersona \in Seq(Nat) /\ NoAdd \in Additions0 /\ <<>> \in Seq(Nat) /\ Len(<<>>) = 0
  BY DEF NoPersona, NoAdd, Additions0
<1>1. ASSUME NEW h \in ChatHandlers, FillCache(h) PROVE IdentityTyped' /\ PersonaAgrees'
  <2>1. /\ persona' = chat[h].delta /\ overtaken' = (chat[h].delta # identity)
        /\ UNCHANGED <<identity, adding, resetting>>
    BY <1>1 DEF FillCache
  <2>2. chat[h].delta \in Seq(Nat) /\ Len(chat[h].delta) <= FactCap
    BY DEF ChatsTyped, ChatRecs, Proper
  <2> QED
    BY <2>1, <2>2
<1>2. ASSUME NEW h \in ChatHandlers, Answer(h) PROVE IdentityTyped' /\ PersonaAgrees'
  <2>0. chat[h].turn \in Nat
    BY DEF ChatsTyped, ChatRecs
  <2>1. UNCHANGED <<identity, persona, resetting, overtaken, undropped>>
    BY <1>2 DEF Answer
  <2>2. \/ UNCHANGED adding
        \/ /\ adding[h] = NoAdd
           /\ \E fact \in Nat : adding' = [adding EXCEPT ![h] = [NoAdd EXCEPT !.stage = "read", !.fact = fact]]
    BY <1>2, <2>0 DEF Answer, Sanitized, Additions, Gaslight
  <2>3. CASE UNCHANGED adding
    BY <2>1, <2>3
  <2>4. ASSUME adding[h] = NoAdd, NEW fact \in Nat,
               adding' = [adding EXCEPT ![h] = [NoAdd EXCEPT !.stage = "read", !.fact = fact]]
        PROVE  IdentityTyped' /\ PersonaAgrees'
    <3>1. [NoAdd EXCEPT !.stage = "read", !.fact = fact] \in Additions0
      BY <1>n DEF Additions0
    <3>2. adding' \in [ChatHandlers -> Additions0] /\ \A g \in ChatHandlers : g # h => adding'[g] = adding[g]
      BY <2>4, <3>1
    <3>3. adding[h].stage # "del"
      BY <2>4 DEF NoAdd
    <3> QED
      BY <3>2, <3>3, <2>1
  <2> QED
    BY <2>2, <2>3, <2>4
<1>3. ASSUME NEW h \in ChatHandlers, AddRead(h) PROVE IdentityTyped' /\ PersonaAgrees'
  <2>1. /\ adding[h].stage = "read" /\ UNCHANGED <<identity, persona, resetting, overtaken, undropped>>
        /\ adding' = [adding EXCEPT ![h].stage = "write", ![h].base = identity]
    BY <1>3 DEF AddRead
  <2>2. adding' \in [ChatHandlers -> Additions0] /\ \A g \in ChatHandlers : g # h => adding'[g] = adding[g]
    BY <2>1 DEF Additions0
  <2> QED
    BY <2>1, <2>2
<1>4. ASSUME NEW h \in ChatHandlers, AddWrite(h) PROVE IdentityTyped' /\ PersonaAgrees'
  <2>0. PICK base \in Seq(Nat), fact \in Nat : base = adding[h].base /\ fact = adding[h].fact
    BY DEF Additions0
  <2>1. /\ adding' = [adding EXCEPT ![h].stage = "del"] /\ UNCHANGED persona
        /\ identity' = CapFifo(Append(base, fact), FactCap)
    BY <1>4, <2>0 DEF AddWrite, WriteDelta
  <2>2. adding' \in [ChatHandlers -> Additions0] /\ adding'[h].stage = "del"
    BY <2>1 DEF Additions0
  <2>3. Append(base, fact) \in Seq(Nat)
    OBVIOUS
  <2>4. identity' \in Seq(Nat) /\ Len(identity') <= FactCap
    BY <2>1, <2>3, <1>a, CapFifoKeeps
  <2> QED
    BY <2>1, <2>2, <2>4
<1>5. ASSUME NEW h \in ChatHandlers, AddDrop(h) PROVE IdentityTyped' /\ PersonaAgrees'
  BY <1>5, <1>n DEF AddDrop, Dropped
<1>6. CASE ResetWrite
  BY <1>6, <1>n, <1>a DEF ResetWrite, WriteDelta
<1>7. CASE ResetDrop \/ PersonaExpires
  BY <1>7, <1>n DEF ResetDrop, PersonaExpires, Dropped
<1>8. ASSUME NEW h \in ChatHandlers, ChatFails(h) PROVE IdentityTyped' /\ PersonaAgrees'
  <2>1. UNCHANGED <<identity, persona, resetting, overtaken, undropped>>
    BY <1>8 DEF ChatFails
  <2>2. \/ UNCHANGED adding
        \/ adding[h].stage \in {"read", "write"} /\ adding' = [adding EXCEPT ![h] = NoAdd]
    BY <1>8 DEF ChatFails
  <2> QED
    BY <2>1, <2>2, <1>n
<1>9. CASE ChatCrash
  BY <1>9, <1>n DEF ChatCrash, Dropped
<1>10. CASE UNCHANGED identityVars
  BY <1>10 DEF identityVars
<1>11. ASSUME NEW h \in ChatHandlers, AnswerLost(h) PROVE IdentityTyped' /\ PersonaAgrees'
  <2>1. UNCHANGED <<identity, persona, overtaken>>
    BY <1>11 DEF AnswerLost
  <2>2. CASE UNCHANGED <<adding, resetting, undropped>>
    BY <2>1, <2>2
  <2>3. CASE ~UNCHANGED <<adding, resetting, undropped>>
    <3>1. adding' \in {adding, [adding EXCEPT ![h] = NoAdd]} /\ undropped' = (persona # NoPersona)
      BY <1>11, <2>3 DEF AnswerLost
    <3>2. adding' \in [ChatHandlers -> Additions0]
      BY <3>1, <1>n
    <3> QED
      BY <2>1, <3>1, <3>2
  <2> QED
    BY <2>2, <2>3
<1> QED
  BY <1>1, <1>2, <1>3, <1>4, <1>5, <1>6, <1>7, <1>8, <1>9, <1>10, <1>11, IdentityAlone

\* What a step adds to what is known was in no document and in no reading, so that a reset
\* removes it for good or never saw it.
LEMMA FactsKeep ==
  ASSUME ChatTyped, FactsApart, ResetSticks, ChatNext, turns' \in {turns, turns + 1}
  PROVE  FactsApart' /\ ResetSticks'
<1> USE DEF FactsApart, Talking, Waiting, Unwritten
<1>r. Range(<<>>) = {} /\ NoChat.stage = "idle" /\ NoAdd.stage = "none" /\ NoAdd.base = <<>>
  BY DEF Range, NoChat, NoAdd
<1>t. turns \in Nat /\ \A h \in ChatHandlers : chat[h].turn \in Nat /\ adding[h].fact \in Nat
  BY DEF ChatTyped, SwitchTyped, ChatsTyped, ChatRecs, IdentityTyped, Additions0
<1>c. chat \in [ChatHandlers -> ChatRecs] /\ adding \in [ChatHandlers -> Additions0]
  BY DEF ChatTyped, ChatsTyped, IdentityTyped
<1>0. CASE UNCHANGED <<chat, turns, identityVars>>
  BY <1>0 DEF identityVars, ResetSticks
<1>1. ASSUME NEW h \in ChatHandlers, NEW r \in ChatRecs, Moved(h, r), UNCHANGED turns,
             UNCHANGED <<identity, adding, forgotten, restored>>
      PROVE  FactsApart' /\ ResetSticks'
  <2>1. chat'[h] = r /\ \A g \in ChatHandlers : g # h => chat'[g] = chat[g]
    BY <1>1, <1>c DEF Moved
  <2>2. \A g \in Talking' : g \in Talking /\ chat'[g].turn = chat[g].turn
    BY <2>1, <1>1 DEF Moved
  <2> HIDE DEF Talking, Unwritten
  <2>3. \A n : Unwritten(n)' <=> Unwritten(n)
    BY <1>1 DEF Unwritten
  <2>4. Waiting' = Waiting
    BY <1>1
  <2> QED
    BY <2>2, <2>3, <2>4, <1>1 DEF ResetSticks
<1>2. ASSUME NEW h \in ChatHandlers, NEW r \in ChatRecs, Heard(h, r)
      PROVE  FactsApart' /\ ResetSticks'
  <2>0. PICK new \in Nat : new = turns + 1
    BY <1>t
  <2>1. chat'[h] = r /\ (\A g \in ChatHandlers : g # h => chat'[g] = chat[g])
        /\ turns' = new /\ r.turn = new /\ UNCHANGED <<identity, adding, forgotten, restored>>
    BY <1>2, <2>0, <1>c DEF Heard, identityVars
  <2>2. \A n : Unwritten(n) => Unwritten(n)'
    <3>1. 1 .. turns \subseteq 1 .. turns'
      BY <2>0, <2>1, <1>t
    <3> QED
      BY <3>1, <2>1
  <2>3. Unwritten(new)'
    <3>1. new \in 1 .. turns' /\ new \notin 1 .. turns
      BY <2>0, <2>1, <1>t
    <3>2. /\ new \notin Range(identity) /\ new \notin forgotten
          /\ \A g \in ChatHandlers : new \notin Range(adding[g].base)
      BY <3>1
    <3> QED
      BY <3>1, <3>2, <2>1
  <2>4. \A n : Unwritten(n) => n # new
    BY <2>0, <1>t
  <2>5. \A g \in Talking' : g # h => g \in Talking /\ chat'[g] = chat[g]
    BY <2>1
  <2>6. Waiting' = Waiting
    BY <2>1
  <2>7. Range(identity) \cup forgotten \subseteq 1 .. turns'
        /\ \A g \in ChatHandlers : Range(adding[g].base) \subseteq 1 .. turns'
    BY <2>0, <2>1, <1>t
  <2> HIDE DEF Unwritten, Talking, Waiting
  <2>8. (\A g \in Talking : Unwritten(chat[g].turn))'
    <3>1. ASSUME NEW g \in Talking' PROVE (Unwritten(chat[g].turn))'
      <4>1. CASE g = h
        <5>1. chat'[g].turn = new
          BY <4>1, <2>1
        <5> QED
          BY <5>1, <2>3, <2>1
      <4>2. CASE g # h
        <5>1. Unwritten(chat[g].turn) /\ chat'[g].turn = chat[g].turn
          BY <4>2, <2>5
        <5> QED
          BY <5>1, <2>2
      <4> QED
        BY <4>1, <4>2
    <3> QED
      BY <3>1
  <2>9. \A g \in Waiting' : adding'[g] = adding[g] /\ Unwritten(adding[g].fact)
    BY <2>1, <2>6
  <2>14. (\A g \in Waiting : Unwritten(adding[g].fact))'
    BY <2>2, <2>9
  <2>10. \A g, k \in Talking' : g # k => chat'[g].turn # chat'[k].turn
    BY <2>1, <2>4, <2>5
  <2>11. \A g \in Talking', k \in Waiting' : chat'[g].turn # adding'[k].fact
    BY <2>1, <2>4, <2>5, <2>6
  <2>12. \A g, k \in Waiting' : g # k => adding'[g].fact # adding'[k].fact
    BY <2>6, <2>9
  <2>13. ResetSticks'
    BY <2>1 DEF ResetSticks
  <2>15. (Range(identity) \cup forgotten)' \subseteq 1 .. turns'
         /\ \A g \in ChatHandlers : Range(adding'[g].base) \subseteq 1 .. turns'
    BY <2>1, <2>7
  <2> QED
    BY <2>8, <2>10, <2>11, <2>12, <2>13, <2>14, <2>15
<1>3. ASSUME NEW h \in ChatHandlers, Answer(h) PROVE FactsApart' /\ ResetSticks'
  <2>1. /\ chat'[h] = NoChat /\ chat[h].stage # "idle"
        /\ \A g \in ChatHandlers : g # h => chat'[g] = chat[g]
        /\ UNCHANGED <<identity, forgotten, restored, turns>>
    BY <1>3, <1>c DEF Answer, Done, ChatBoundsKept
  <2>2. \/ UNCHANGED adding
        \/ adding' = [adding EXCEPT ![h] = [NoAdd EXCEPT !.stage = "read", !.fact = chat[h].turn]]
    BY <1>3 DEF Answer, Sanitized, Additions, Gaslight
  <2>3. CASE UNCHANGED adding
    BY <2>1, <2>3, <1>r DEF ResetSticks
  <2>4. CASE adding' = [adding EXCEPT ![h] = [NoAdd EXCEPT !.stage = "read", !.fact = chat[h].turn]]
    <3>1. /\ adding'[h].fact = chat[h].turn /\ adding'[h].base = <<>>
          /\ \A g \in ChatHandlers : g # h => adding'[g] = adding[g]
      BY <2>4, <1>c DEF NoAdd
    <3>2. \A n : Unwritten(n) => Unwritten(n)'
      BY <3>1, <2>1, <1>r
    <3>3. \A g \in Talking' : g # h /\ g \in Talking /\ chat'[g] = chat[g]
      BY <2>1, <1>r
    <3>4. \A g \in Waiting' : g # h => g \in Waiting /\ adding'[g] = adding[g]
      BY <3>1
    <3>5. h \in Talking
      BY <2>1
    <3>6. \A g \in ChatHandlers : Range(adding'[g].base) \subseteq 1 .. turns
      BY <3>1, <1>r
    <3> HIDE DEF Unwritten, Talking, Waiting
    <3> QED
      BY <2>1, <3>1, <3>2, <3>3, <3>4, <3>5, <3>6 DEF ResetSticks
  <2> QED
    BY <2>2, <2>3, <2>4
<1>4. ASSUME NEW h \in ChatHandlers, AddRead(h) PROVE FactsApart' /\ ResetSticks'
  <2>1. /\ adding'[h].fact = adding[h].fact /\ adding'[h].base = identity /\ h \in Waiting
        /\ \A g \in ChatHandlers : g # h => adding'[g] = adding[g]
        /\ UNCHANGED <<chat, turns, identity, forgotten, restored>>
    BY <1>4, <1>c DEF AddRead, ChatBoundsKept, Additions0
  <2>2. \A n : Unwritten(n) => Unwritten(n)'
    BY <2>1
  <2>3. Talking' = Talking /\ \A g \in Waiting' : g \in Waiting /\ adding'[g].fact = adding[g].fact
    BY <2>1
  <2>4. \A g \in ChatHandlers : Range(adding'[g].base) \subseteq 1 .. turns
    BY <2>1
  <2> HIDE DEF Unwritten, Talking, Waiting
  <2> QED
    BY <2>1, <2>2, <2>3, <2>4 DEF ResetSticks
<1>5. ASSUME NEW h \in ChatHandlers, AddWrite(h) PROVE FactsApart' /\ ResetSticks'
  <2>0. PICK base \in Seq(Nat), fact \in Nat : base = adding[h].base /\ fact = adding[h].fact
    BY <1>c DEF Additions0
  <2>1. /\ adding'[h].base = base /\ h \in Waiting /\ adding'[h].stage = "del"
        /\ \A g \in ChatHandlers : g # h => adding'[g] = adding[g]
        /\ UNCHANGED <<chat, turns, forgotten>>
        /\ identity' = CapFifo(Append(base, fact), FactCap)
        /\ restored' = (restored \/ Range(base) \cap forgotten # {})
    BY <1>5, <1>c, <2>0 DEF AddWrite, ChatBoundsKept, Additions0, WriteDelta
  <2>2. Range(identity') \subseteq Range(base) \cup {fact}
    <3>1. FactCap \in Nat \ {0}
      BY ChatAssumption DEF ChatAssumption
    <3>2. Append(base, fact) \in Seq(Nat) /\ Range(Append(base, fact)) = Range(base) \cup {fact}
      BY AppendedRange
    <3> HIDE DEF Unwritten, Talking, Waiting
    <3> QED
      BY <2>1, <3>1, <3>2, CapFifoKeeps
  <2>3. \A n : Unwritten(n) /\ n # fact => Unwritten(n)'
    BY <2>0, <2>1, <2>2
  <2>4. Talking' = Talking /\ \A g \in Waiting' : g # h /\ g \in Waiting /\ adding'[g] = adding[g]
    BY <2>1
  <2>5. Unwritten(fact)
    BY <2>0, <2>1
  <2>6. /\ Range(identity') \cup forgotten \subseteq 1 .. turns
        /\ \A g \in ChatHandlers : Range(adding'[g].base) \subseteq 1 .. turns
    BY <2>0, <2>1, <2>2, <2>5
  <2>7. ResetSticks'
    <3>1. fact \notin forgotten
      BY <2>5
    <3>2. ASSUME ~restored' PROVE Range(identity') \cap forgotten' = {}
      <4>1. Range(base) \cap forgotten = {}
        BY <3>2, <2>1, Zenon
      <4> QED
        BY <4>1, <3>1, <2>1, <2>2
    <3> QED
      BY <3>2 DEF ResetSticks
  <2> HIDE DEF Unwritten, Talking, Waiting
  <2> QED
    BY <2>0, <2>1, <2>3, <2>4, <2>6, <2>7
<1>6. ASSUME NEW h \in ChatHandlers, UNCHANGED <<chat, turns, identity, forgotten, restored>>,
             adding' = [adding EXCEPT ![h] = NoAdd]
      PROVE  FactsApart' /\ ResetSticks'
  <2>1. /\ adding'[h] = NoAdd /\ \A g \in ChatHandlers : g # h => adding'[g] = adding[g]
    BY <1>6, <1>c
  <2>2. \A n : Unwritten(n) => Unwritten(n)'
    BY <2>1, <1>6, <1>r
  <2>3. Talking' = Talking /\ \A g \in Waiting' : g \in Waiting /\ adding'[g] = adding[g]
    BY <2>1, <1>6, <1>r
  <2>4. \A g \in ChatHandlers : Range(adding'[g].base) \subseteq 1 .. turns
    BY <2>1, <1>r
  <2> HIDE DEF Unwritten, Talking, Waiting
  <2> QED
    BY <1>6, <2>1, <2>2, <2>3, <2>4 DEF ResetSticks
<1>7. CASE ResetWrite
  <2>1. /\ identity' = <<>> /\ forgotten' = forgotten \cup Range(identity)
        /\ UNCHANGED <<chat, turns, adding, restored>>
    BY <1>7 DEF ResetWrite, WriteDelta, ModActs
  <2> QED
    BY <2>1, <1>r DEF ResetSticks
<1>8. CASE ResetDrop \/ PersonaExpires
  BY <1>8 DEF ResetDrop, PersonaExpires, ChatBoundsKept, ResetSticks
<1>9. ASSUME NEW h \in ChatHandlers, ChatFails(h), ~UNCHANGED adding PROVE FactsApart' /\ ResetSticks'
  BY <1>9, <1>6 DEF ChatFails
<1>14. ASSUME NEW h \in ChatHandlers, AnswerLost(h), ~UNCHANGED adding PROVE FactsApart' /\ ResetSticks'
  <2>1. UNCHANGED <<chat, turns, identity, forgotten, restored>> /\ adding' = [adding EXCEPT ![h] = NoAdd]
    BY <1>14 DEF AnswerLost
  <2> QED
    BY <2>1, <1>6
<1>10. CASE ChatCrash
  <2>1. /\ chat' = [h \in ChatHandlers |-> NoChat] /\ adding' = [h \in ChatHandlers |-> NoAdd]
        /\ UNCHANGED <<turns, identity, forgotten, restored>>
    BY <1>10 DEF ChatCrash
  <2> QED
    BY <2>1, <1>r DEF ResetSticks
<1>11. ASSUME NEW h \in ChatHandlers, AddDrop(h) PROVE FactsApart' /\ ResetSticks'
  BY <1>11, <1>6 DEF AddDrop, ChatBoundsKept
<1>12. CASE UNCHANGED <<identity, adding, forgotten, restored>>
  <2>1. CASE UNCHANGED <<chat, turns>>
    BY <1>12, <2>1 DEF ResetSticks
  <2> QED
    BY <2>1, <1>12, <1>1, <1>2, <1>10, ChatsMove
<1>13. ASSUME NEW h \in ChatHandlers, FillCache(h) PROVE FactsApart' /\ ResetSticks'
  BY <1>13, <1>12 DEF FillCache
<1> QED
  <2>1. CASE UNCHANGED identityVars
    BY <2>1, <1>12 DEF identityVars
  <2>2. ASSUME NEW h \in ChatHandlers, ChatFails(h), UNCHANGED adding PROVE FactsApart' /\ ResetSticks'
    BY <2>2, <1>12 DEF ChatFails
  <2>3. ASSUME NEW h \in ChatHandlers, AnswerLost(h), UNCHANGED adding PROVE FactsApart' /\ ResetSticks'
    BY <2>3, <1>12 DEF AnswerLost
  <2> HIDE DEF FactsApart, Talking, Waiting, Unwritten
  <2> QED
    BY <2>1, <2>2, <2>3, <1>14, <1>3, <1>4, <1>5, <1>7, <1>8, <1>9, <1>10, <1>11, <1>13, IdentityAlone

LEMMA ChatKept ==
  ASSUME ChatInv, [ChatNext]_chatVars
  PROVE  ChatInv'
<1>1. CASE ChatNext
  <2> USE <1>1 DEF ChatInv
  <2>1. QuotaTyped' /\ QuotaKept' /\ MemoryTyped' /\ MemoryKept'
    BY QuotaKeeps, MemoryKeeps
  <2>2. ChatsTyped' /\ SwitchTyped' /\ turns' \in {turns, turns + 1}
    BY ChatsKeepTyped
  <2>3. IdentityTyped' /\ PersonaAgrees' /\ FactsApart' /\ ResetSticks'
    BY <2>2, IdentityKeeps, FactsKeep
  <2> QED
    BY <2>1, <2>2, <2>3 DEF ChatTyped
<1>2. CASE UNCHANGED chatVars
  <2> USE <1>2 DEF chatVars, switchVars, quotaVars, memoryVars, identityVars
  <2>1. ChatsTyped' /\ QuotaTyped' /\ MemoryTyped' /\ IdentityTyped'
    BY DEF ChatInv, ChatTyped, ChatsTyped, QuotaTyped, MemoryTyped, IdentityTyped
  <2>2. SwitchTyped'
    <3>1. now' = now /\ direct' = direct /\ enabled' = enabled /\ stopping' = stopping /\ turns' = turns
      OBVIOUS
    <3>2. now \in 0 .. MaxNow /\ direct \in BOOLEAN /\ enabled \in BOOLEAN /\ stopping \in BOOLEAN
          /\ turns \in Nat
      BY DEF ChatInv, ChatTyped, SwitchTyped
    <3> QED
      BY <3>1, <3>2, Zenon DEF SwitchTyped
  <2>3. QuotaKept' /\ MemoryKept' /\ PersonaAgrees'
    BY DEF ChatInv, QuotaKept, MemoryKept, TurnsKept, PersonaAgrees
  <2>4. FactsApart' /\ ResetSticks'
    BY DEF ChatInv, FactsApart, ResetSticks, Unwritten, Talking, Waiting
  <2> QED
    BY <2>1, <2>2, <2>3, <2>4 DEF ChatInv, ChatTyped
<1> QED
  BY <1>1, <1>2

LEMMA ChatImplies ==
  ASSUME ChatInv
  PROVE  ChatTypeOK /\ QuotaHolds /\ MemoryHolds
<1> USE DEF ChatInv, ChatTyped
<1>1. QuotaHolds
  BY DEF QuotaKept, QuotaHolds
<1>2. MemoryHolds
  BY DEF MemoryKept, MemoryHolds
<1>3. quota \in [Chatters -> [used : Nat, resetAt : 0 .. MaxNow + Period, limit : {InitialLimit} \cup Limits]]
  BY DEF QuotaTyped, Quotas
<1>4. ASSUME NEW h \in ChatHandlers
      PROVE  /\ chat[h].stage \in {"idle", "switch", "spoken", "voice", "quota", "count", "counted",
                                   "delta", "fill", "model"}
             /\ chat[h].stage # "idle" => chat[h].user \in Chatters
             /\ chat[h].state \in 0 .. Len(states)
             /\ adding[h].stage \in {"none", "read", "write", "del"}
  BY DEF ChatsTyped, ChatRecs, ChatStages, Proper, IdentityTyped, Additions0, MemoryTyped
<1>5. /\ current \in 0 .. Len(states)
      /\ \A i \in DOMAIN states : Len(states[i]) <= RecentTurnCap
      /\ Len(identity) <= FactCap /\ (persona = NoPersona \/ Len(persona) <= FactCap)
  BY DEF MemoryTyped, IdentityTyped
<1>6. now \in 0 .. MaxNow /\ direct \in BOOLEAN /\ enabled \in BOOLEAN /\ stopping \in BOOLEAN
  BY DEF SwitchTyped
<1> QED
  BY <1>1, <1>2, <1>3, <1>4, <1>5, <1>6 DEF ChatTypeOK

-----------------------------------------------------------------------------
(* Menus                                                                   *)

Asking  == {h \in Handlers : stage[h] = "asked"}
Sending == {h \in Handlers : stage[h] = "sending"}

\* One menu is one session, and the sessions are in an order.
StackOrdered ==
  /\ \A s, t \in stack : (s.menu = t.menu \/ s.since = t.since) => s = t
  /\ \E n \in Nat : \A s \in stack : s.since <= n

\* A menu is asked for by one message, shown then, and not answered before.
MenusApart ==
  /\ shown \subseteq 1 .. received /\ always \subseteq shown
  /\ \A s \in stack : s.menu \in shown
  /\ \A h \in Asking : /\ task[h].menu \in 1 .. received /\ task[h].menu \notin shown
                        /\ task[h].botMsgId = NoId
  /\ \A g, h \in Asking : g # h => task[g].menu # task[h].menu
  /\ \A m \in Ids : m \notin shown => answers[m] = 0

\* What is on the stack is not answered, unless a preference is saved first.
OffTheStack ==
  /\ \A s \in stack : s.menu \notin always => answers[s.menu] = 0
  /\ \A h \in Handlers : stage[h] \in {"reading", "writing"} => task[h].menu \in always

\* A session over the one whose message is on its way was set since.
LinksComing ==
  \A h \in Sending :
    /\ task[h].menu \in shown
    /\ \A t \in stack : t.menu = task[h].menu =>
         /\ t.cmd = task[h].cmd
         /\ \A s \in stack : s.cmd = t.cmd /\ s.since > t.since => task[h].menu \in crossed

\* A session has the message of its menu, unless a link went astray; and one that has none
\* is on its way to one, or its message was not sent.
LinksRight ==
  \A s \in stack :
    /\ s.botMsgId \in {NoId, s.menu} \cup crossed \cup gone
    /\ s.botMsgId # NoId \/ s.menu \in crossed \cup unsent \/ \E h \in Sending : task[h].menu = s.menu

MenuInv ==
  /\ TypeOK /\ StackOrdered /\ MenusApart /\ OffTheStack /\ LinksComing
  /\ LinksRight /\ AnsweredOnce /\ PrefsAsChosen

\* A bounded set of numbers has a greatest one, and Max is it.
LEMMA MaxIsGreatest ==
  ASSUME NEW S, S \subseteq Nat, S # {}, NEW n \in Nat, \A x \in S : x <= n
  PROVE  Max(S) \in S /\ \A x \in S : x <= Max(S)
<1> DEFINE B == {k \in Nat : \A x \in S : x <= k}
<1>1. PICK k \in B : \A j \in B : ~(j < k)
  <2>1. IsWellFoundedOn(OpToRel(<, Nat), Nat)
    BY NatLessThanWellFounded
  <2>2. B \subseteq Nat /\ B # {}
    OBVIOUS
  <2>3. \E x \in B : \A y \in B : ~(<<y, x>> \in OpToRel(<, Nat))
    BY <2>1, <2>2, WFMin
  <2>4. \A x, y \in B : <<y, x>> \in OpToRel(<, Nat) <=> y < x
    BY DEF OpToRel
  <2> QED
    BY <2>3, <2>4
<1>2. k \in S
  <2>1. SUFFICES ASSUME k \notin S PROVE FALSE
    OBVIOUS
  <2>2. \A x \in S : x < k
    BY <2>1
  <2>3. k # 0 /\ k \in Nat
    <3>1. PICK x \in S : x \in Nat
      OBVIOUS
    <3> QED
      BY <3>1, <2>2
  <2>4. k - 1 \in B
    BY <2>2, <2>3
  <2> QED
    BY <2>3, <2>4, <1>1
<1>3. \E x \in S : \A y \in S : x >= y
  BY <1>1, <1>2
<1>4. Max(S) \in S /\ \A y \in S : Max(S) >= y
  BY <1>3 DEF Max
<1> QED
  BY <1>4

\* The menus of a user who has not been heard of yet.
LEMMA MenuStarts ==
  ASSUME PeopleInit
  PROVE  MenuInv
<1>1. Init /\ prefs \in Prefs
  <2>1. prefs \in Prefs
    BY DEF PeopleInit, Init
  <2> QED
    BY <2>1 DEF PeopleInit
<1> USE <1>1 DEF Init
<1>a. MaxMessages \in Nat /\ MaxFails \in Nat /\ MaxCrashes \in Nat
  BY MenusAssumption DEF MenusAssumption
<1>2. TypeOK
  <2>1. /\ stage \in [Handlers -> Stages] /\ mode \in [Handlers -> Modes \cup {Unset}]
        /\ got \in [Handlers -> Prefs] /\ task \in [Handlers -> Sessions \cup {NoSession}]
    BY DEF Stages, Prefs, NoPrefs
  <2>2. answers \in [Ids -> Nat] /\ {shown, always, crossed, gone, unsent} \subseteq SUBSET Ids
    OBVIOUS
  <2>3. received \in 0 .. MaxMessages /\ fails \in 0 .. MaxFails /\ crashes \in 0 .. MaxCrashes
    BY <1>a
  <2>4. raced \in BOOLEAN
    BY <1>1
  <2>5. stack \subseteq Sessions /\ (\A h \in Handlers : stage[h] = "idle") /\ chosen \in Prefs
        /\ preferred \in Modes \cup {Unset}
    OBVIOUS
  <2> QED
    BY <2>1, <2>2, <2>3, <2>4, <2>5 DEF TypeOK
<1>3. StackOrdered /\ MenusApart /\ OffTheStack /\ LinksComing
  BY DEF StackOrdered, MenusApart, OffTheStack, LinksComing, Asking, Sending
<1>4. LinksRight /\ AnsweredOnce /\ PrefsAsChosen
  BY DEF LinksRight, AnsweredOnce, PrefsAsChosen
<1> QED
  BY <1>2, <1>3, <1>4 DEF MenuInv

\* A handler at an await has a session, and what it has read is typed.
AtAwait ==
  /\ stage \in [Handlers -> Stages] /\ task \in [Handlers -> Sessions \cup {NoSession}]
  /\ \A h \in Handlers : stage[h] # "idle" => task[h] \in Sessions
  /\ mode \in [Handlers -> Modes \cup {Unset}] /\ got \in [Handlers -> Prefs]

Counts ==
  /\ received \in 0 .. MaxMessages /\ fails \in 0 .. MaxFails /\ crashes \in 0 .. MaxCrashes
  /\ answers \in [Ids -> Nat] /\ {shown, always, crossed, gone, unsent} \subseteq SUBSET Ids

LEMMA FinishTyped ==
  ASSUME AtAwait, NEW h \in Handlers, Finish(h)
  PROVE  AtAwait'
<1>1. NoPrefs \in Prefs /\ "idle" \in Stages /\ Unset \in Modes \cup {Unset}
  BY DEF NoPrefs, Prefs, Stages
<1> QED
  BY <1>1 DEF AtAwait, Finish, GoTo, Forget

LEMMA ReceiveTyped ==
  ASSUME Counts, NEW h \in Handlers, Receive(h)
  PROVE  /\ received' = received + 1 /\ received' \in Ids /\ received' \in 0 .. MaxMessages
         /\ UNCHANGED <<fails, crashes>>
<1>1. MaxMessages \in Nat
  BY MenusAssumption DEF MenusAssumption
<1> QED
  BY <1>1 DEF Counts, Receive, Ids

LEMMA StepsTyped ==
  ASSUME NEW cmd \in Used
  PROVE  cmd \in Commands /\ StepsOf(cmd) \subseteq Steps /\ ("format" \in StepsOf(cmd) => cmd \in Savers)
<1>1. cmd \in Commands /\ Formats \cap {"spotify", "quiz", "media"} = {}
  BY MenusAssumption DEF MenusAssumption
<1>2. CASE cmd \in Formats
  <2>1. StepsOf(cmd) = {"format"}
    BY <1>1, <1>2 DEF StepsOf
  <2> QED
    BY <2>1, <1>1, <1>2 DEF Steps, Savers
<1>3. CASE cmd = "spotify"
  <2>1. StepsOf(cmd) = {"format", "playlistDelivery"}
    BY <1>1, <1>3 DEF StepsOf
  <2> QED
    BY <2>1, <1>1, <1>3 DEF Steps, Savers
<1>4. CASE cmd = "quiz"
  <2>1. StepsOf(cmd) = {"question"}
    BY <1>1, <1>4 DEF StepsOf
  <2> QED
    BY <2>1, <1>1, <1>4 DEF Steps
<1>5. CASE cmd = "media"
  <2>1. StepsOf(cmd) = {"selection"}
    BY <1>1, <1>5 DEF StepsOf
  <2> QED
    BY <2>1, <1>1, <1>5 DEF Steps
<1> QED
  BY <1>1, <1>2, <1>3, <1>4, <1>5 DEF Commands

\* A session that is linked or pushed is one, and what is removed leaves sessions.
LEMMA StackTyped ==
  ASSUME stack \subseteq Sessions
  PROVE  /\ \A cmd, step : ClearedStep(cmd, step) \subseteq stack
         /\ \A cmd : Cleared(cmd) \subseteq stack /\ After(cmd) \subseteq stack
         /\ \A quoted, c : Selection(quoted, c) \subseteq stack
         /\ \A cmd : \A id \in Ids : Linked(cmd, id) \subseteq Sessions
         /\ StackOrdered => \A session \in Sessions : Pushed(session) \subseteq Sessions
<1>1. \A cmd, step : ClearedStep(cmd, step) \subseteq stack
  BY DEF ClearedStep
<1>2. \A cmd : Cleared(cmd) \subseteq stack /\ After(cmd) \subseteq stack
  BY DEF Cleared, After
<1>3. \A quoted, c : Selection(quoted, c) \subseteq stack
  BY DEF Selection, Newest
<1>4. ASSUME NEW cmd, NEW id \in Ids PROVE Linked(cmd, id) \subseteq Sessions
  <2>1. \A s \in stack : [s EXCEPT !.botMsgId = id] \in Sessions
    BY DEF Sessions
  <2> QED
    BY <2>1 DEF Linked
<1>5. ASSUME StackOrdered, NEW session \in Sessions PROVE Pushed(session) \subseteq Sessions
  <2> DEFINE S == {0} \cup {s.since : s \in stack}
  <2>1. PICK n \in Nat : \A s \in stack : s.since <= n
    BY <1>5 DEF StackOrdered
  <2>2. S \subseteq Nat /\ S # {} /\ \A x \in S : x <= n
    BY <2>1 DEF Sessions
  <2>3. Max(S) \in Nat
    <3> HIDE DEF S
    <3> QED
      BY <2>2, MaxIsGreatest
  <2>4. [session EXCEPT !.since = 1 + Max(S)] \in Sessions
    BY <2>3 DEF Sessions
  <2> QED
    BY <2>4 DEF Pushed
<1> QED
  BY <1>1, <1>2, <1>3, <1>4, <1>5

LEMMA MenusTyped ==
  ASSUME TypeOK, StackOrdered, Next
  PROVE  TypeOK'
<1>t. /\ AtAwait /\ Counts /\ stack \subseteq Sessions /\ prefs \in Prefs /\ chosen \in Prefs
      /\ preferred \in Modes \cup {Unset} /\ raced \in BOOLEAN
  BY DEF TypeOK, AtAwait, Counts
<1>q. ASSUME AtAwait', Counts', stack' \subseteq Sessions, prefs' \in Prefs, chosen' \in Prefs,
             preferred' \in Modes \cup {Unset}, raced' \in BOOLEAN
      PROVE  TypeOK'
  BY <1>q DEF TypeOK, AtAwait, Counts
<1>n. NoPrefs \in Prefs
  BY DEF NoPrefs, Prefs
<1>c. MaxMessages \in Nat /\ MaxFails \in Nat /\ MaxCrashes \in Nat /\ NoId \in Ids \cup {NoId}
  BY MenusAssumption DEF MenusAssumption
<1>s. ASSUME NEW h \in Handlers, Save(h) PROVE prefs' \in Prefs /\ chosen' \in Prefs /\ raced' \in BOOLEAN
  <2>1. prefs' = [got[h] EXCEPT ![task[h].cmd] = mode[h]] /\ chosen' = [chosen EXCEPT ![task[h].cmd] = mode[h]]
    BY <1>s DEF Save, Merged
  <2>2. got[h] \in Prefs /\ mode[h] \in Modes \cup {Unset}
    BY <1>t DEF AtAwait
  <2>3. raced' \in BOOLEAN
    BY <1>s, Zenon DEF Save
  <2> QED
    BY <2>1, <2>2, <2>3, <1>t DEF Prefs
<1>1. ASSUME NEW h \in Handlers, NEW cmd \in Used, NEW c \in Chats, NEW step \in StepsOf(cmd),
             Ask(h, cmd, step, c)
      PROVE  TypeOK'
  <2>1. received' \in Ids /\ received' \in 0 .. MaxMessages /\ UNCHANGED <<fails, crashes>>
    BY <1>1, <1>t, ReceiveTyped DEF Ask
  <2>2. cmd \in Commands /\ step \in Steps /\ (step = "format" => cmd \in Savers)
    BY StepsTyped
  <2>3. (IF step = "format" THEN prefs[cmd] ELSE Unset) \in Modes \cup {Unset}
    BY <1>t, <2>2 DEF Prefs
  <2>4. [cmd |-> cmd, step |-> step, chat |-> c, menu |-> received', botMsgId |-> NoId, since |-> 0] \in Sessions
    BY <2>1, <2>2, <1>c DEF Sessions
  <2>5. /\ stage' = [stage EXCEPT ![h] = "asked"] /\ UNCHANGED <<stack, got, stored, ghosts>>
        /\ task' = [task EXCEPT ![h] = [cmd |-> cmd, step |-> step, chat |-> c, menu |-> received',
                                        botMsgId |-> NoId, since |-> 0]]
        /\ mode' = [mode EXCEPT ![h] = IF step = "format" THEN prefs[cmd] ELSE Unset]
    BY <1>1 DEF Ask, GoTo
  <2>6. AtAwait'
    BY <2>3, <2>4, <2>5, <1>t DEF AtAwait, Stages
  <2>7. Counts' /\ prefs' \in Prefs /\ chosen' \in Prefs /\ preferred' \in Modes \cup {Unset}
    BY <2>1, <2>5, <1>t DEF Counts, stored, ghosts
  <2>8. raced' = raced
    BY <2>5 DEF ghosts
  <2> QED
    BY <2>5, <2>6, <2>7, <2>8, <1>t, <1>q
<1>2. ASSUME NEW h \in Handlers, Show(h) PROVE TypeOK'
  <2>1. task[h] \in Sessions /\ stage[h] = "asked"
    BY <1>2, <1>t DEF Show, AtAwait
  <2>2. UNCHANGED <<prefs, preferred, answers, always, gone, unsent, chosen, raced, received, fails, crashes>>
    BY <1>2 DEF Show, stored
  <2>3. CASE mode[h] # Unset
    <3>1. Finish(h) /\ UNCHANGED <<stack, shown, crossed>>
      BY <1>2, <2>3 DEF Show
    <3> QED
      BY <3>1, <2>2, <1>t, <1>q, FinishTyped DEF Counts
  <2>4. CASE mode[h] = Unset
    <3>1. /\ stack' = Pushed(task[h]) /\ GoTo(h, "sending") /\ UNCHANGED <<task, mode, got>>
          /\ shown' = shown \cup {task[h].menu}
          /\ crossed' = crossed \cup {task[g].menu : g \in OnTheirWay(task[h].cmd)}
      BY <1>2, <2>4 DEF Show
    <3>2. stack' \subseteq Sessions
      BY <3>1, <2>1, <1>t, StackTyped
    <3>3. AtAwait'
      BY <3>1, <2>1, <1>t DEF AtAwait, GoTo, Stages
    <3>4. task[h].menu \in Ids /\ \A g \in OnTheirWay(task[h].cmd) : task[g].menu \in Ids
      BY <2>1, <1>t DEF AtAwait, OnTheirWay, Sessions
    <3>5. Counts'
      BY <3>1, <3>4, <2>2, <1>t DEF Counts
    <3> QED
      BY <3>2, <3>3, <3>5, <2>2, <1>t, <1>q
  <2> QED
    BY <2>3, <2>4
<1>3. ASSUME NEW h \in Handlers, Sent(h) PROVE TypeOK'
  <2>1. task[h].menu \in Ids
    BY <1>3, <1>t DEF Sent, AtAwait, Sessions
  <2>2. /\ stack' \subseteq Sessions
    <3>1. stack' = Linked(task[h].cmd, task[h].menu)
      BY <1>3 DEF Sent
    <3>2. \A cmd : \A id \in Ids : Linked(cmd, id) \subseteq Sessions
      BY <1>t, StackTyped
    <3> QED
      BY <3>1, <3>2, <2>1
  <2>3. /\ UNCHANGED <<prefs, preferred, shown, answers, always, crossed, unsent, chosen, raced, received, fails,
                       crashes>>
        /\ gone' \in {gone, gone \cup {task[h].menu}} /\ Finish(h)
    BY <1>3 DEF Sent, stored
  <2> QED
    BY <2>1, <2>2, <2>3, <1>t, <1>q, FinishTyped DEF Counts
<1>4. ASSUME NEW h \in Handlers, SendFails(h) PROVE TypeOK'
  <2>1. /\ UNCHANGED <<stack, prefs, preferred, shown, answers, always, crossed, gone, chosen, raced, received, crashes>>
        /\ fails' \in 0 .. MaxFails /\ Finish(h) /\ unsent' = unsent \cup {task[h].menu}
    BY <1>4, <1>t, <1>c DEF SendFails, stored, Counts
  <2>2. task[h].menu \in Ids
    BY <1>4, <1>t DEF SendFails, AtAwait, Sessions
  <2> QED
    BY <2>1, <2>2, <1>t, <1>q, FinishTyped DEF Counts
<1>5. CASE Expire
  <2>1. /\ stack' \subseteq stack
        /\ UNCHANGED <<stage, task, mode, got, prefs, preferred, shown, answers, always, crossed, gone, unsent, chosen, raced,
                       received, fails, crashes>>
    BY <1>5 DEF Expire, stored, ghosts
  <2> QED
    BY <2>1, <1>t, <1>q DEF Counts, AtAwait
<1>6. ASSUME NEW h \in Handlers, NEW s \in stack, Cancel(h, s) \/ AnswerOnce(h, s) \/ AnswerWrongly(h, s)
      PROVE  TypeOK'
  <2>1. /\ Receive(h) /\ stack' \subseteq stack
        /\ UNCHANGED <<stage, task, mode, got, prefs, preferred, shown, always, crossed, gone, unsent, chosen, raced>>
    BY <1>6, <1>t, StackTyped DEF Cancel, AnswerOnce, AnswerWrongly, AtOnce, stored
  <2>2. s.menu \in Ids /\ (Counted(s.menu) \/ UNCHANGED answers)
    BY <1>6, <1>t DEF Cancel, AnswerOnce, AnswerWrongly, Sessions
  <2>3. answers' \in [Ids -> Nat]
    BY <2>2, <1>t DEF Counted, Counts
  <2>4. Counts'
    BY <2>1, <2>3, <1>t, ReceiveTyped DEF Counts
  <2> QED
    BY <2>1, <2>4, <1>t, <1>q DEF AtAwait
<1>7. ASSUME NEW h \in Handlers, NEW s \in stack,
             \/ \E m \in Modes : AnswerAlways(h, s, m)
             \/ \E m \in Modes \cup {Unset} : AnswerMedia(h, s, m)
      PROVE  TypeOK'
  <2>1. PICK m \in Modes \cup {Unset} : AnswerAlways(h, s, m) \/ AnswerMedia(h, s, m)
    BY <1>7
  <2>2. /\ Receive(h) /\ stack' \subseteq stack
        /\ UNCHANGED <<got, prefs, preferred, shown, crossed, gone, unsent, chosen, raced>>
        /\ task' = [task EXCEPT ![h] = s] /\ mode' = [mode EXCEPT ![h] = m]
        /\ always' \in {always, always \cup {s.menu}}
        /\ Counted(s.menu) \/ UNCHANGED answers
    BY <2>1 DEF AnswerAlways, AnswerMedia, stored
  <2>3. stage' = [stage EXCEPT ![h] = "reading"] \/ stage' = [stage EXCEPT ![h] = "global"]
    BY <2>1 DEF AnswerAlways, AnswerMedia, GoTo
  <2>4. s \in Sessions /\ s.menu \in Ids
    BY <1>t DEF Sessions
  <2>5. AtAwait'
    BY <2>2, <2>3, <2>4, <1>t DEF AtAwait, Stages
  <2>6. answers' \in [Ids -> Nat]
    BY <2>2, <2>4, <1>t DEF Counted, Counts
  <2>7. Counts'
    BY <2>2, <2>4, <2>6, <1>t, ReceiveTyped DEF Counts
  <2> QED
    BY <2>2, <2>5, <2>7, <1>t, <1>q
<1>9. ASSUME NEW h \in Handlers, ReadPrefs(h) \/ SetGlobal(h) PROVE TypeOK'
  <2>1. /\ UNCHANGED <<stack, prefs, shown, answers, always, crossed, gone, unsent, chosen, raced, received, fails, crashes,
                       task, mode>>
        /\ stage[h] # "idle"
        /\ stage' = [stage EXCEPT ![h] = "writing"] \/ stage' = [stage EXCEPT ![h] = "checking"]
        /\ got' = [got EXCEPT ![h] = prefs] \/ got' = got
        /\ preferred' \in {preferred, mode[h]}
    BY <1>9 DEF ReadPrefs, SetGlobal, stored, ghosts, GoTo
  <2>2. AtAwait' /\ preferred' \in Modes \cup {Unset}
    BY <2>1, <1>t DEF AtAwait, Stages
  <2> QED
    BY <2>1, <2>2, <1>t, <1>q DEF Counts
<1>10. ASSUME NEW h \in Handlers, WritePrefs(h) PROVE TypeOK'
  <2>1. /\ Save(h) /\ Finish(h) /\ stack' \subseteq stack /\ stage[h] # "idle"
        /\ UNCHANGED <<preferred, shown, always, crossed, gone, unsent, received, fails, crashes>>
        /\ Counted(task[h].menu)
    BY <1>10, <1>t, StackTyped DEF WritePrefs
  <2>2. task[h].menu \in Ids
    BY <2>1, <1>t DEF AtAwait, Sessions
  <2>3. answers' \in [Ids -> Nat]
    BY <2>1, <2>2, <1>t DEF Counted, Counts
  <2>4. Counts'
    BY <2>1, <2>3, <1>t DEF Counts
  <2> QED
    BY <2>1, <2>4, <1>s, <1>t, <1>q, FinishTyped
<1>11. ASSUME NEW h \in Handlers, CheckPrefs(h) PROVE TypeOK'
  <2>1. /\ UNCHANGED <<stack, prefs, preferred, shown, answers, always, crossed, gone, unsent, raced,
                       received, fails, crashes>>
        /\ chosen' \in {chosen, NoPrefs} /\ stage[h] # "idle"
    BY <1>11 DEF CheckPrefs, stored, ghosts
  <2>2. Finish(h) \/ (stage' = [stage EXCEPT ![h] = "unsetting"] /\ UNCHANGED <<task, mode, got>>)
    BY <1>11 DEF CheckPrefs, GoTo
  <2>3. AtAwait'
    <3>1. CASE Finish(h)
      BY <3>1, <1>t, FinishTyped
    <3>2. CASE ~Finish(h)
      BY <3>2, <2>1, <2>2, <1>t DEF AtAwait, Stages
    <3> QED
      BY <3>1, <3>2
  <2> QED
    BY <2>1, <2>3, <1>t, <1>n, <1>q DEF Counts
<1>12. ASSUME NEW h \in Handlers, UnsetPrefs(h) PROVE TypeOK'
  BY <1>12, <1>t, <1>n, <1>q, FinishTyped DEF UnsetPrefs, Counts
<1>13. ASSUME NEW h \in Handlers, StoreFails(h) PROVE TypeOK'
  <2>1. /\ UNCHANGED <<stack, preferred, shown, answers, always, crossed, gone, unsent, received, crashes>>
        /\ Finish(h) /\ (Save(h) \/ UNCHANGED <<prefs, chosen, raced>>)
    BY <1>13 DEF StoreFails
  <2>2. fails' \in 0 .. MaxFails
    BY <1>13, <1>t, <1>c DEF StoreFails, Counts
  <2>3. prefs' \in Prefs /\ chosen' \in Prefs /\ raced' \in BOOLEAN
    <3>1. CASE Save(h)
      BY <3>1, <1>s
    <3>2. CASE UNCHANGED <<prefs, chosen, raced>>
      <4>1. raced' = raced /\ prefs' = prefs /\ chosen' = chosen
        BY <3>2
      <4> QED
        BY <4>1, <1>t, Zenon
    <3> QED
      BY <2>1, <3>1, <3>2
  <2> QED
    BY <2>1, <2>2, <2>3, <1>t, <1>q, FinishTyped DEF Counts
<1>14. CASE Crash
  <2>1. /\ UNCHANGED <<prefs, preferred, shown, answers, always, crossed, gone, unsent, chosen, raced, received, fails>>
        /\ stack' = {} /\ crashes' \in 0 .. MaxCrashes
    BY <1>14, <1>t, <1>c DEF Crash, stored, ghosts, Counts
  <2>2. AtAwait'
    BY <1>14, <1>n DEF Crash, AtAwait, Stages
  <2> QED
    BY <2>1, <2>2, <1>t, <1>q DEF Counts
<1>15. \A quoted \in Quotes, c \in Chats : Selection(quoted, c) \subseteq stack
  BY <1>t, StackTyped
<1> QED
  BY <1>1, <1>2, <1>3, <1>4, <1>5, <1>6, <1>7, <1>9, <1>10, <1>11, <1>12, <1>13, <1>14, <1>15 DEF Next

\* What removes sessions keeps the order of those that stay, and they stay unanswered.
LEMMA StackShrinks ==
  ASSUME TypeOK, StackOrdered, LinksRight, stack' \subseteq stack,
         UNCHANGED <<crossed, gone>>, unsent \subseteq unsent',
         \A h \in Sending : \/ h \in Sending' /\ task'[h] = task[h]
                           \/ task[h].menu \in unsent' \/ stack' = {}
  PROVE  StackOrdered' /\ LinksRight'
<1>1. StackOrdered'
  BY DEF StackOrdered
<1>2. LinksRight'
  BY DEF LinksRight
<1> QED
  BY <1>1, <1>2

\* A menu that is put on the stack was shown nowhere before; those of its command whose
\* message is on its way are crossed by it.
LEMMA ShowKeeps ==
  ASSUME MenuInv, TypeOK', NEW h \in Handlers, Show(h)
  PROVE  MenuInv'
<1> USE DEF MenuInv
<1>t. AtAwait /\ Counts /\ stack \subseteq Sessions
  BY DEF TypeOK, AtAwait, Counts
<1>a. h \in Asking /\ task[h] \in Sessions
  BY <1>t DEF Asking, Show, AtAwait
<1>u. UNCHANGED <<prefs, answers, always, gone, unsent, chosen, raced, received>> /\ stage[h] = "asked"
  BY DEF Show, stored
<1>1. CASE mode[h] # Unset
  <2>1. /\ stack' = stack /\ UNCHANGED <<shown, crossed>>
        /\ stage' = [stage EXCEPT ![h] = "idle"] /\ task' = [task EXCEPT ![h] = NoSession]
    BY <1>1 DEF Show, Finish, GoTo, Forget
  <2>2. /\ \A g \in Asking' : g \in Asking /\ task'[g] = task[g]
        /\ \A g \in Sending' : g \in Sending /\ task'[g] = task[g]
        /\ \A g \in Handlers : stage'[g] \in {"reading", "writing"} =>
             stage[g] = stage'[g] /\ task'[g] = task[g]
        /\ \A g \in Sending : g \in Sending' /\ task'[g] = task[g]
    BY <2>1, <1>u, <1>t DEF Asking, Sending, AtAwait
  <2>3. StackOrdered' /\ LinksRight'
    BY <2>1, <2>2, <1>u, StackShrinks
  <2>4. MenusApart'
    BY <2>1, <2>2, <1>u DEF MenusApart
  <2>5. OffTheStack'
    BY <2>1, <2>2, <1>u DEF OffTheStack
  <2>6. LinksComing'
    BY <2>1, <2>2, <1>u DEF LinksComing
  <2>7. AnsweredOnce' /\ PrefsAsChosen'
    BY <1>u DEF AnsweredOnce, PrefsAsChosen
  <2> QED
    BY <2>3, <2>4, <2>5, <2>6, <2>7
<1>2. CASE mode[h] = Unset
  <2> DEFINE S == {0} \cup {s.since : s \in stack}
  <2>1. PICK top \in Nat : top = 1 + Max(S) /\ \A s \in stack : s.since < top
    <3>1. PICK n \in Nat : \A s \in stack : s.since <= n
      BY DEF StackOrdered
    <3>2. S \subseteq Nat /\ S # {} /\ \A x \in S : x <= n
      BY <3>1, <1>t DEF Sessions
    <3>3. \A s \in stack : s.since \in S
      OBVIOUS
    <3>4. Max(S) \in Nat /\ \A x \in S : x <= Max(S)
      <4> HIDE DEF S
      <4> QED
        BY <3>2, MaxIsGreatest
    <3> HIDE DEF S
    <3>5. \A s \in stack : s.since \in Nat
      BY <1>t DEF Sessions
    <3> QED
      BY <3>3, <3>4, <3>5
  <2> HIDE DEF S
  <2>2. PICK new \in Sessions : new = [task[h] EXCEPT !.since = top]
    BY <1>a, <2>1 DEF Sessions
  <2>3. new.menu = task[h].menu /\ new.cmd = task[h].cmd /\ new.since = top
        /\ new.step = task[h].step /\ new.botMsgId = task[h].botMsgId
    BY <1>a, <2>2 DEF Sessions
  <2>4. stack' = {s \in stack : s.cmd # task[h].cmd \/ s.step # task[h].step} \cup {new}
    BY <1>2, <2>1, <2>2 DEF Show, Pushed, S
  <2>5. /\ shown' = shown \cup {new.menu}
        /\ crossed' = crossed \cup {task[g].menu : g \in OnTheirWay(new.cmd)}
        /\ stage' = [stage EXCEPT ![h] = "sending"] /\ UNCHANGED task
    BY <1>2, <2>3 DEF Show, GoTo
  <2>6. /\ \A g \in Handlers : g # h => stage'[g] = stage[g]
        /\ stage'[h] = "sending" /\ Asking' = Asking \ {h} /\ Sending' = Sending \cup {h}
    BY <2>5, <1>a, <1>t DEF Asking, Sending, AtAwait
  <2>7. new.menu \notin shown /\ new.menu \in 1 .. received
    BY <1>a, <2>3 DEF MenusApart
  <2>8. \A s \in stack' : s = new \/ s \in stack
    BY <2>4
  <2>9. StackOrdered'
    <3>1. \A s \in stack' : s.since <= top
      BY <2>1, <2>3, <2>8, <1>t DEF Sessions
    <3>2. \A s \in stack : s.menu # new.menu /\ s.since # new.since
      BY <2>1, <2>3, <2>7, <1>t DEF MenusApart, Sessions
    <3>3. \A s, t \in stack' : (s.menu = t.menu \/ s.since = t.since) => s = t
      BY <2>8, <3>2 DEF StackOrdered
    <3> QED
      BY <2>1, <3>1, <3>3 DEF StackOrdered
  <2>10. MenusApart'
    <3>1. shown' \subseteq 1 .. received' /\ always' \subseteq shown'
      BY <2>5, <2>7, <1>u DEF MenusApart
    <3>2. \A s \in stack' : s.menu \in shown'
      BY <2>5, <2>8 DEF MenusApart
    <3>3. \A g \in Asking' : /\ task'[g].menu \in 1 .. received' /\ task'[g].menu \notin shown'
                             /\ task'[g].botMsgId = NoId
      BY <2>3, <2>5, <2>6, <1>a, <1>u DEF MenusApart
    <3>4. \A f, g \in Asking' : f # g => task'[f].menu # task'[g].menu
      BY <2>5, <2>6 DEF MenusApart
    <3>5. \A m \in Ids : m \notin shown' => answers'[m] = 0
      BY <2>5, <1>u DEF MenusApart
    <3> QED
      BY <3>1, <3>2, <3>3, <3>4, <3>5 DEF MenusApart
  <2>11. OffTheStack'
    <3>1. new.menu \in Ids
      BY DEF Sessions
    <3>2. \A s \in stack' : s.menu \notin always' => answers'[s.menu] = 0
      BY <3>1, <2>7, <2>8, <1>u DEF OffTheStack, MenusApart
    <3>3. \A g \in Handlers : stage'[g] \in {"reading", "writing"} => task'[g].menu \in always'
      BY <2>5, <2>6, <1>u DEF OffTheStack
    <3> QED
      BY <3>2, <3>3 DEF OffTheStack
  <2>12. LinksComing'
    <3>1. ASSUME NEW g \in Sending' PROVE task'[g].menu \in shown'
      BY <2>3, <2>5, <2>6 DEF LinksComing
    <3>2. ASSUME NEW g \in Sending', NEW t \in stack', t.menu = task'[g].menu
          PROVE  /\ t.cmd = task'[g].cmd
                 /\ \A s \in stack' : s.cmd = t.cmd /\ s.since > t.since => task'[g].menu \in crossed'
      <4>1. CASE g = h
        <5>1. t = new
          BY <4>1, <3>2, <2>3, <2>5, <2>7, <2>8 DEF MenusApart
        <5>2. \A s \in stack' : ~(s.since > top)
          BY <2>1, <2>3, <2>8, <1>t DEF Sessions
        <5> QED
          BY <5>1, <5>2, <4>1, <2>3, <2>5
      <4>2. CASE g # h
        <5>1. g \in Sending /\ task'[g] = task[g] /\ task[g].menu \in shown
          BY <4>2, <2>5, <2>6 DEF LinksComing
        <5>2. t \in stack /\ t # new
          BY <5>1, <3>2, <2>7, <2>8
        <5>3. t.cmd = task[g].cmd
          BY <5>1, <5>2, <3>2 DEF LinksComing
        <5>4. ASSUME NEW s \in stack', s.cmd = t.cmd, s.since > t.since PROVE task[g].menu \in crossed'
          <6>1. CASE s \in stack
            BY <6>1, <5>1, <5>2, <5>4, <3>2, <2>5 DEF LinksComing
          <6>2. CASE s = new
            <7>1. g \in OnTheirWay(new.cmd)
              BY <6>2, <5>1, <5>3, <5>4 DEF OnTheirWay, Sending
            <7> QED
              BY <7>1, <2>5
          <6> QED
            BY <6>1, <6>2, <2>8
        <5> QED
          BY <5>1, <5>3, <5>4
      <4> QED
        BY <4>1, <4>2
    <3> QED
      BY <3>1, <3>2 DEF LinksComing
  <2>13. LinksRight'
    <3>1. new.botMsgId = NoId /\ h \in Sending' /\ task'[h].menu = new.menu
      BY <1>a, <2>3, <2>5, <2>6 DEF MenusApart
    <3>2. \A g \in Sending : g \in Sending' /\ task'[g] = task[g]
      BY <2>5, <2>6
    <3>3. ASSUME NEW s \in stack
          PROVE  /\ s.botMsgId \in {NoId, s.menu} \cup crossed' \cup gone'
                 /\ \/ s.botMsgId # NoId \/ s.menu \in crossed' \cup unsent'
                    \/ \E g \in Sending' : task'[g].menu = s.menu
      BY <3>2, <2>5, <1>u DEF LinksRight
    <3> QED
      BY <3>1, <3>3, <2>8 DEF LinksRight
  <2>14. AnsweredOnce' /\ PrefsAsChosen'
    BY <1>u DEF AnsweredOnce, PrefsAsChosen
  <2> QED
    BY <2>9, <2>10, <2>11, <2>12, <2>13, <2>14
<1> QED
  BY <1>1, <1>2

\* The message of a menu is linked to the newest session of its command: that is the menu,
\* or one that was set over it since, or the menu is gone.
LEMMA SentKeeps ==
  ASSUME MenuInv, TypeOK', NEW h \in Handlers, Sent(h)
  PROVE  MenuInv'
<1> USE DEF MenuInv
<1>t. AtAwait /\ Counts /\ stack \subseteq Sessions
  BY DEF TypeOK, AtAwait, Counts
<1>a. h \in Sending /\ task[h] \in Sessions
  BY <1>t DEF Sending, Sent, AtAwait
<1> DEFINE newest  == Newest({s \in stack : s.cmd = task[h].cmd})
           link(s) == IF s \in newest THEN [s EXCEPT !.botMsgId = task[h].menu] ELSE s
<1>u. /\ UNCHANGED <<prefs, shown, answers, always, crossed, unsent, chosen, raced, received>>
      /\ stage' = [stage EXCEPT ![h] = "idle"] /\ task' = [task EXCEPT ![h] = NoSession]
  BY DEF Sent, stored, Finish, GoTo, Forget
<1>1. stack' = {link(s) : s \in stack}
  BY DEF Sent, Linked
<1>2. \A s \in stack : /\ link(s).menu = s.menu /\ link(s).cmd = s.cmd /\ link(s).since = s.since
                       /\ link(s) = s \/ (s \in newest /\ link(s).botMsgId = task[h].menu)
  BY <1>t DEF Sessions
<1>3. \A g \in Asking' : g \in Asking /\ task'[g] = task[g]
  BY <1>u, <1>t DEF Asking, AtAwait
<1>4. \A g \in Sending' : g \in Sending /\ task'[g] = task[g]
  BY <1>u, <1>t DEF Sending, AtAwait
<1>5. \A g \in Handlers : stage'[g] \in {"reading", "writing"} => stage[g] = stage'[g] /\ task'[g] = task[g]
  BY <1>u, <1>t DEF AtAwait
<1>6. \A s \in newest : s \in stack /\ s.cmd = task[h].cmd
        /\ \A t \in stack : t.cmd = task[h].cmd => t.since <= s.since
  BY DEF Newest
<1>7. \A s \in stack : s.since \in Nat
  BY <1>t DEF Sessions
<1> HIDE DEF newest, link
<1>8. \A s \in stack' : \E t \in stack : s = link(t)
  BY <1>1
<1>9. StackOrdered'
  <2>1. ASSUME NEW s \in stack', NEW t \in stack', s.menu = t.menu \/ s.since = t.since
        PROVE  s = t
    <3>1. PICK a \in stack : s = link(a)
      BY <1>8
    <3>2. PICK b \in stack : t = link(b)
      BY <1>8
    <3>3. a = b
      BY <3>1, <3>2, <2>1, <1>2 DEF StackOrdered
    <3> QED
      BY <3>1, <3>2, <3>3
  <2>2. PICK n \in Nat : \A s \in stack : s.since <= n
    BY DEF StackOrdered
  <2>3. \A s \in stack' : s.since <= n
    BY <2>2, <1>2, <1>8
  <2> QED
    BY <2>1, <2>2, <2>3 DEF StackOrdered
<1>10. \A s \in stack' : \E t \in stack : s.menu = t.menu
  BY <1>2, <1>8
<1>11. MenusApart'
  BY <1>3, <1>10, <1>u DEF MenusApart
<1>12. OffTheStack'
  BY <1>5, <1>10, <1>u DEF OffTheStack
<1>13. LinksComing'
  <2>1. ASSUME NEW g \in Sending', NEW t \in stack', t.menu = task'[g].menu
        PROVE  /\ t.cmd = task'[g].cmd
               /\ \A s \in stack' : s.cmd = t.cmd /\ s.since > t.since => task'[g].menu \in crossed'
    <3>1. PICK b \in stack : t = link(b)
      BY <1>8
    <3>2. g \in Sending /\ task'[g] = task[g] /\ b.menu = task[g].menu
      BY <3>1, <2>1, <1>2, <1>4
    <3>3. b.cmd = task[g].cmd
      BY <3>2 DEF LinksComing
    <3>4. ASSUME NEW s \in stack', s.cmd = t.cmd, s.since > t.since PROVE task[g].menu \in crossed'
      <4>1. PICK a \in stack : s = link(a)
        BY <1>8
      <4>2. a.cmd = b.cmd /\ a.since > b.since
        BY <4>1, <3>1, <3>4, <1>2
      <4> QED
        BY <4>2, <3>2, <1>u DEF LinksComing
    <3> QED
      BY <3>1, <3>2, <3>3, <3>4, <1>2
  <2>2. \A g \in Sending' : task'[g].menu \in shown'
    BY <1>4, <1>u DEF LinksComing
  <2> QED
    BY <2>1, <2>2 DEF LinksComing
<1>14. LinksRight'
  <2>1. gone \subseteq gone' /\ ((\E s \in stack : s.menu = task[h].menu) \/ task[h].menu \in gone')
    BY DEF Sent
  <2>2. ASSUME NEW s \in stack' PROVE s.botMsgId \in {NoId, s.menu} \cup crossed' \cup gone'
    <3>1. PICK a \in stack : s = link(a)
      BY <1>8
    <3>2. CASE s = a
      BY <3>2, <2>1, <1>u DEF LinksRight
    <3>3. CASE a \in newest /\ s.botMsgId = task[h].menu
      <4>1. CASE \E t \in stack : t.menu = task[h].menu
        <5>1. PICK t \in stack : t.menu = task[h].menu
          BY <4>1
        <5>2. t.cmd = task[h].cmd /\ a.cmd = t.cmd /\ t.since <= a.since
          BY <5>1, <3>3, <1>6, <1>a DEF LinksComing
        <5>3. CASE a = t
          BY <5>1, <5>3, <3>1, <3>3, <1>2
        <5>4. CASE a # t
          <6>1. a.since > t.since
            BY <5>2, <5>4, <1>7 DEF StackOrdered
          <6> QED
            BY <6>1, <5>1, <5>2, <3>3, <1>a, <1>u DEF LinksComing
        <5> QED
          BY <5>3, <5>4
      <4> QED
        BY <4>1, <2>1, <3>3
    <3> QED
      BY <3>1, <3>2, <3>3, <1>2
  <2>3. ASSUME NEW s \in stack', s.botMsgId = NoId
        PROVE  s.menu \in crossed' \cup unsent' \/ \E g \in Sending' : task'[g].menu = s.menu
    <3>1. PICK a \in stack : s = link(a)
      BY <1>8
    <3>2. task[h].menu # NoId
      BY <1>a DEF Sessions, Ids, NoId
    <3>3. a \notin newest /\ s = a
      BY <3>1, <3>2, <2>3, <1>t DEF link, Sessions
    <3>4. CASE a.menu \in crossed \cup unsent
      BY <3>3, <3>4, <1>u
    <3>5. CASE a.menu = task[h].menu
      <4>1. a.cmd = task[h].cmd
        BY <3>5, <1>a DEF LinksComing
      <4>2. PICK t \in stack : t.cmd = task[h].cmd /\ ~(t.since <= a.since)
        BY <3>3, <4>1 DEF newest, Newest
      <4>3. t.since > a.since
        BY <4>2, <1>7
      <4> QED
        BY <4>1, <4>2, <4>3, <3>3, <3>5, <1>a, <1>u DEF LinksComing
    <3>6. CASE \E g \in Sending : g # h /\ task[g].menu = a.menu
      <4>1. PICK g \in Sending : g # h /\ task[g].menu = a.menu
        BY <3>6
      <4>2. g \in Sending' /\ task'[g] = task[g]
        BY <4>1, <1>u, <1>t DEF Sending, AtAwait
      <4> QED
        BY <4>1, <4>2, <3>3
    <3> QED
      BY <3>3, <3>4, <3>5, <3>6, <2>3 DEF LinksRight
  <2> QED
    BY <2>2, <2>3 DEF LinksRight
<1>15. AnsweredOnce' /\ PrefsAsChosen'
  BY <1>u DEF AnsweredOnce, PrefsAsChosen
<1> QED
  BY <1>9, <1>11, <1>12, <1>13, <1>14, <1>15

\* A step that shows nothing and asks for no menu, and answers one menu at most: one that
\* was answered "always", or one that is off the stack then.
Unmoved ==
  /\ stack' \subseteq stack
  /\ UNCHANGED <<shown, crossed, gone>>
  /\ received' \in {received, received + 1} /\ always \subseteq always' /\ always' \subseteq shown
  /\ \A g \in Asking' \cup Sending' : task'[g] = task[g]
  /\ Asking' \subseteq Asking /\ Sending' \subseteq Sending
  /\ unsent \subseteq unsent'
  /\ \A g \in Sending : g \in Sending' \/ task[g].menu \in unsent' \/ stack' = {}
  /\ \A g \in Handlers : stage'[g] \in {"reading", "writing"} => task'[g].menu \in always'
  /\ \/ answers' = answers
     \/ \E m \in shown : /\ answers' = [answers EXCEPT ![m] = @ + 1]
                         /\ m \in always \/ (answers[m] = 0 /\ \A t \in stack' : t.menu # m)

LEMMA UnmovedKeeps ==
  ASSUME MenuInv, Unmoved
  PROVE  StackOrdered' /\ LinksRight' /\ MenusApart' /\ OffTheStack' /\ LinksComing' /\ AnsweredOnce'
<1> USE DEF MenuInv
<1>1. /\ stack' \subseteq stack /\ UNCHANGED <<shown, crossed, gone>>
      /\ received' \in {received, received + 1} /\ always \subseteq always' /\ always' \subseteq shown
      /\ \A g \in Asking' \cup Sending' : task'[g] = task[g]
      /\ Asking' \subseteq Asking /\ Sending' \subseteq Sending
      /\ unsent \subseteq unsent'
      /\ \A g \in Sending : g \in Sending' \/ task[g].menu \in unsent' \/ stack' = {}
      /\ \A g \in Handlers : stage'[g] \in {"reading", "writing"} => task'[g].menu \in always'
  BY DEF Unmoved
<1>2. /\ answers \in [Ids -> Nat] /\ shown \subseteq Ids /\ \A t \in stack : t.menu \in Ids
  BY DEF TypeOK, Sessions
<1>3. /\ \A m \in Ids : m \notin shown => answers'[m] = 0
      /\ \A m \in Ids \ always' : answers'[m] <= 1
      /\ \A t \in stack' : t.menu \notin always' => answers'[t.menu] = 0
  <2>1. CASE answers' = answers
    BY <2>1, <1>1 DEF MenusApart, OffTheStack, AnsweredOnce
  <2>2. CASE answers' # answers
    <3>1. PICK m \in shown : /\ answers' = [answers EXCEPT ![m] = @ + 1]
                             /\ m \in always \/ (answers[m] = 0 /\ \A t \in stack' : t.menu # m)
      BY <2>2 DEF Unmoved
    <3>2. \A k \in Ids : k # m => answers'[k] = answers[k]
      BY <3>1, <1>2
    <3>3. m \in Ids /\ answers'[m] = answers[m] + 1
      BY <3>1, <1>2
    <3>4. \A k \in Ids : k \notin shown => answers'[k] = 0
      BY <3>2 DEF MenusApart
    <3>5. \A k \in Ids \ always' : answers'[k] <= 1
      BY <3>1, <3>2, <3>3, <1>1 DEF AnsweredOnce
    <3>6. \A t \in stack' : t.menu \notin always' => answers'[t.menu] = 0
      BY <3>1, <3>2, <1>1, <1>2 DEF OffTheStack
    <3> QED
      BY <3>4, <3>5, <3>6
  <2> QED
    BY <2>1, <2>2
<1>4. StackOrdered' /\ LinksRight'
  <2>1. UNCHANGED <<crossed, gone>> /\ unsent \subseteq unsent'
        /\ \A h \in Sending : \/ h \in Sending' /\ task'[h] = task[h]
                              \/ task[h].menu \in unsent' \/ stack' = {}
    BY <1>1
  <2> QED
    BY <2>1, <1>1, StackShrinks
<1>5. MenusApart'
  <2>1. 1 .. received \subseteq 1 .. received'
    BY <1>1 DEF TypeOK
  <2> QED
    BY <2>1, <1>1, <1>3 DEF MenusApart
<1>6. OffTheStack'
  BY <1>1, <1>3 DEF OffTheStack
<1>7. LinksComing'
  BY <1>1 DEF LinksComing
<1>8. AnsweredOnce'
  BY <1>3 DEF AnsweredOnce
<1> QED
  BY <1>4, <1>5, <1>6, <1>7, <1>8

\* A menu that is asked for has the number of its own message.
LEMMA AskKeeps ==
  ASSUME MenuInv, TypeOK', NEW h \in Handlers, NEW cmd, NEW step, NEW c, Ask(h, cmd, step, c)
  PROVE  MenuInv'
<1> USE DEF MenuInv
<1>t. AtAwait /\ Counts
  BY DEF TypeOK, AtAwait, Counts
<1>1. /\ received' = received + 1 /\ stage[h] = "idle"
      /\ stage' = [stage EXCEPT ![h] = "asked"]
      /\ UNCHANGED <<stack, prefs, shown, answers, always, crossed, gone, unsent, chosen, raced>>
  BY DEF Ask, Receive, GoTo, stored, ghosts
<1>2. \A g \in Handlers : g # h => stage'[g] = stage[g] /\ task'[g] = task[g]
  BY <1>1, <1>t DEF Ask, AtAwait
<1>3. task'[h].menu = received + 1 /\ task'[h].botMsgId = NoId /\ stage'[h] = "asked"
  BY <1>1, <1>t DEF Ask, AtAwait
<1>4. /\ \A g \in Asking' : g = h \/ (g \in Asking /\ task'[g] = task[g])
      /\ \A g \in Sending' : g \in Sending /\ task'[g] = task[g]
      /\ \A g \in Handlers : stage'[g] \in {"reading", "writing"} => stage[g] = stage'[g] /\ task'[g] = task[g]
  BY <1>2, <1>3 DEF Asking, Sending
<1>5. received \in Nat
  BY <1>t DEF Counts
<1>6. StackOrdered' /\ LinksRight'
  <2>1. \A g \in Sending : g \in Sending' /\ task'[g] = task[g]
    BY <1>1, <1>2 DEF Sending
  <2> QED
    BY <2>1, <1>1, StackShrinks
<1>7. MenusApart'
  <2>1. shown' \subseteq 1 .. received' /\ always' \subseteq shown' /\ \A s \in stack' : s.menu \in shown'
    BY <1>1, <1>5 DEF MenusApart
  <2>2. \A g \in Asking' : /\ task'[g].menu \in 1 .. received' /\ task'[g].menu \notin shown'
                           /\ task'[g].botMsgId = NoId
    BY <1>1, <1>3, <1>4, <1>5 DEF MenusApart
  <2>3. \A g \in Asking : task[g].menu # received + 1
    BY <1>5 DEF MenusApart
  <2>4. \A f, g \in Asking' : f # g => task'[f].menu # task'[g].menu
    BY <1>3, <1>4, <2>3 DEF MenusApart
  <2>5. \A m \in Ids : m \notin shown' => answers'[m] = 0
    BY <1>1 DEF MenusApart
  <2> QED
    BY <2>1, <2>2, <2>4, <2>5 DEF MenusApart
<1>8. OffTheStack'
  BY <1>1, <1>4 DEF OffTheStack
<1>9. LinksComing'
  BY <1>1, <1>4 DEF LinksComing
<1>10. AnsweredOnce' /\ PrefsAsChosen'
  BY <1>1 DEF AnsweredOnce, PrefsAsChosen
<1> QED
  BY <1>6, <1>7, <1>8, <1>9, <1>10

\* Preferences that are written over those that were read change one preference, as was told.
LEMMA SaveKeeps ==
  ASSUME PrefsAsChosen, NEW h \in Handlers, Save(h)
  PROVE  PrefsAsChosen'
<1>1. CASE raced \/ got[h] # prefs
  BY <1>1 DEF Save, PrefsAsChosen
<1>2. CASE ~raced /\ got[h] = prefs
  BY <1>2 DEF Save, Merged, PrefsAsChosen
<1> QED
  BY <1>1, <1>2

\* A handler that is done, or that goes on to an await other than the two of a menu.
LEMMA MovesOn ==
  ASSUME MenuInv, NEW h \in Handlers, NEW s, NEW next \in Stages \ {"asked", "sending"},
         stage' = [stage EXCEPT ![h] = next], task' = [task EXCEPT ![h] = s]
  PROVE  /\ \A g \in Asking' \cup Sending' : task'[g] = task[g]
         /\ Asking' \subseteq Asking /\ Sending' \subseteq Sending
         /\ \A g \in Sending : g \in Sending' \/ g = h
         /\ (next \in {"reading", "writing"} => s.menu \in always') /\ always \subseteq always'
              => \A g \in Handlers : stage'[g] \in {"reading", "writing"} => task'[g].menu \in always'
<1>1. AtAwait
  BY DEF MenuInv, TypeOK, AtAwait
<1>2. \A g \in Handlers : g # h => stage'[g] = stage[g] /\ task'[g] = task[g]
  BY <1>1 DEF AtAwait
<1>3. stage'[h] = next /\ task'[h] = s
  BY <1>1 DEF AtAwait
<1>4. \A g \in Handlers : stage[g] \in {"reading", "writing"} => task[g].menu \in always
  BY DEF MenuInv, OffTheStack
<1> QED
  BY <1>2, <1>3, <1>4 DEF Asking, Sending

\* A handler that goes on, or is done, without an answer: SendFails, ReadPrefs, SetGlobal,
\* CheckPrefs, UnsetPrefs, StoreFails and the new handler of AnswerAlways.
LEMMA GoesOnKeeps ==
  ASSUME MenuInv, TypeOK', PrefsAsChosen', NEW h \in Handlers, NEW s,
         NEW next \in Stages \ {"asked", "sending"},
         stage' = [stage EXCEPT ![h] = next], task' = [task EXCEPT ![h] = s],
         next \in {"reading", "writing"} => s.menu \in always',
         UNCHANGED <<stack, shown, crossed, gone, answers>>, unsent \subseteq unsent',
         stage[h] = "sending" => task[h].menu \in unsent',
         received' \in {received, received + 1}, always \subseteq always', always' \subseteq shown
  PROVE  MenuInv'
<1>1. /\ \A g \in Asking' \cup Sending' : task'[g] = task[g]
      /\ Asking' \subseteq Asking /\ Sending' \subseteq Sending
      /\ \A g \in Sending : g \in Sending' \/ g = h
      /\ \A g \in Handlers : stage'[g] \in {"reading", "writing"} => task'[g].menu \in always'
  BY MovesOn
<1>2. Unmoved
  BY <1>1 DEF Unmoved, Sending
<1> QED
  BY <1>2, UnmovedKeeps DEF MenuInv

LEMMA DoneKeeps ==
  ASSUME MenuInv, TypeOK', PrefsAsChosen', NEW h \in Handlers, Finish(h),
         UNCHANGED <<stack, shown, crossed, gone, answers, always, received>>,
         unsent \subseteq unsent', stage[h] = "sending" => task[h].menu \in unsent'
  PROVE  MenuInv'
<1>1. stage' = [stage EXCEPT ![h] = "idle"] /\ task' = [task EXCEPT ![h] = NoSession]
  BY DEF Finish, GoTo, Forget
<1>2. "idle" \in Stages \ {"asked", "sending"} /\ always \subseteq shown
  BY DEF Stages, MenuInv, MenusApart
<1> QED
  BY <1>1, <1>2, GoesOnKeeps

\* The menu that is answered is off the stack, and was not answered before.
LEMMA AnsweredLeaves ==
  ASSUME MenuInv, NEW s \in stack, stack' = After(s.cmd)
  PROVE  /\ s.menu \in shown /\ stack' \subseteq stack
         /\ s.menu \in always \/ (answers[s.menu] = 0 /\ \A t \in stack' : t.menu # s.menu)
<1>1. stack' \subseteq {t \in stack : t.cmd # s.cmd}
  BY DEF After, Cleared
<1>2. \A t \in stack : t.menu = s.menu => t = s
  BY DEF MenuInv, StackOrdered
<1>3. s.menu \in shown /\ (s.menu \notin always => answers[s.menu] = 0)
  BY DEF MenuInv, MenusApart, OffTheStack
<1> QED
  BY <1>1, <1>2, <1>3

LEMMA AnswersKeep ==
  ASSUME MenuInv, TypeOK', NEW h \in Handlers, NEW s \in stack,
         Cancel(h, s) \/ AnswerOnce(h, s) \/ AnswerWrongly(h, s)
  PROVE  MenuInv'
<1>1. /\ received' = received + 1
      /\ UNCHANGED <<stage, task, prefs, shown, always, crossed, gone, unsent, chosen, raced>>
  BY DEF Cancel, AnswerOnce, AnswerWrongly, AtOnce, Receive, stored
<1>2. stack' \subseteq stack
  BY StackTyped DEF Cancel, AnswerOnce, AnswerWrongly, MenuInv, TypeOK
<1>3. \/ answers' = answers
      \/ /\ answers' = [answers EXCEPT ![s.menu] = @ + 1]
         /\ stack' = After(s.cmd)
  BY DEF Cancel, AnswerOnce, AnswerWrongly, Counted
<1>4. \/ answers' = answers
      \/ \E m \in shown : /\ answers' = [answers EXCEPT ![m] = @ + 1]
                          /\ m \in always \/ (answers[m] = 0 /\ \A t \in stack' : t.menu # m)
  BY <1>3, AnsweredLeaves
<1>5. /\ \A g \in Asking' \cup Sending' : task'[g] = task[g]
      /\ Asking' \subseteq Asking /\ Sending' = Sending /\ unsent \subseteq unsent'
      /\ \A g \in Handlers : stage'[g] \in {"reading", "writing"} => task'[g].menu \in always'
      /\ always \subseteq always' /\ always' \subseteq shown
  BY <1>1 DEF Asking, Sending, MenuInv, OffTheStack, MenusApart
<1>6. Unmoved
  BY <1>1, <1>2, <1>4, <1>5 DEF Unmoved
<1>7. PrefsAsChosen'
  BY <1>1 DEF MenuInv, PrefsAsChosen
<1> QED
  BY <1>6, <1>7, UnmovedKeeps DEF MenuInv

LEMMA AnswerMediaKeeps ==
  ASSUME MenuInv, TypeOK', NEW h \in Handlers, NEW s \in stack, NEW m, AnswerMedia(h, s, m)
  PROVE  MenuInv'
<1>1. /\ received' = received + 1 /\ stack' = {} /\ s.cmd = "media" /\ unsent' = unsent
      /\ stage' = [stage EXCEPT ![h] = "global"] /\ task' = [task EXCEPT ![h] = s]
      /\ answers' = [answers EXCEPT ![s.menu] = @ + 1]
      /\ UNCHANGED <<prefs, shown, always, crossed, gone, unsent, chosen, raced>>
  BY DEF AnswerMedia, Receive, GoTo, Counted, stored
<1>2. After(s.cmd) = {}
  BY <1>1, MenusAssumption DEF After, MenusAssumption
<1>3. /\ s.menu \in shown
      /\ s.menu \in always \/ (answers[s.menu] = 0 /\ \A t \in stack' : t.menu # s.menu)
  BY <1>1, <1>2, AnsweredLeaves
<1>4. /\ \A g \in Asking' \cup Sending' : task'[g] = task[g]
      /\ Asking' \subseteq Asking /\ Sending' \subseteq Sending
      /\ \A g \in Handlers : stage'[g] \in {"reading", "writing"} => task'[g].menu \in always'
  <2>1. "global" \in Stages \ {"asked", "sending"} /\ "global" \notin {"reading", "writing"}
    BY DEF Stages
  <2>2. always \subseteq always'
    BY <1>1
  <2> QED
    BY <1>1, <2>1, <2>2, MovesOn
<1>5. Unmoved
  <2>1. always' \subseteq shown
    BY <1>1 DEF MenuInv, MenusApart
  <2>2. \E k \in shown : /\ answers' = [answers EXCEPT ![k] = @ + 1]
                         /\ k \in always \/ (answers[k] = 0 /\ \A t \in stack' : t.menu # k)
    BY <1>1, <1>3
  <2> QED
    BY <1>1, <1>4, <2>1, <2>2 DEF Unmoved
<1>6. PrefsAsChosen'
  BY <1>1 DEF MenuInv, PrefsAsChosen
<1> QED
  BY <1>5, <1>6, UnmovedKeeps DEF MenuInv

LEMMA WritePrefsKeeps ==
  ASSUME MenuInv, TypeOK', NEW h \in Handlers, WritePrefs(h)
  PROVE  MenuInv'
<1>1. /\ stack' = After(task[h].cmd)
      /\ stage' = [stage EXCEPT ![h] = "idle"] /\ task' = [task EXCEPT ![h] = NoSession]
      /\ answers' = [answers EXCEPT ![task[h].menu] = @ + 1]
      /\ UNCHANGED <<shown, always, crossed, gone, unsent, received>> /\ stage[h] = "writing"
  BY DEF WritePrefs, Finish, GoTo, Forget, Counted
<1>2. task[h].menu \in always /\ always \subseteq shown /\ stack' \subseteq stack
  BY <1>1, StackTyped DEF WritePrefs, MenuInv, OffTheStack, MenusApart, TypeOK
<1>3. /\ \A g \in Asking' \cup Sending' : task'[g] = task[g]
      /\ Asking' \subseteq Asking /\ Sending' \subseteq Sending
      /\ \A g \in Sending : g \in Sending' \/ g = h
      /\ \A g \in Handlers : stage'[g] \in {"reading", "writing"} => task'[g].menu \in always'
  <2>1. "idle" \in Stages \ {"asked", "sending"} /\ "idle" \notin {"reading", "writing"}
    BY DEF Stages
  <2>2. always \subseteq always'
    BY <1>1
  <2> QED
    BY <1>1, <2>1, <2>2, MovesOn
<1>4. Unmoved
  BY <1>1, <1>2, <1>3 DEF Unmoved, Sending
<1>5. PrefsAsChosen'
  BY SaveKeeps DEF MenuInv, WritePrefs
<1> QED
  BY <1>4, <1>5, UnmovedKeeps DEF MenuInv

\* A step of the menus.
LEMMA MenuKept ==
  ASSUME MenuInv, [Next]_vars
  PROVE  MenuInv'
<1>p. TypeOK /\ StackOrdered /\ PrefsAsChosen /\ always \subseteq shown
  BY DEF MenuInv, MenusApart
<1>t. AtAwait
  BY <1>p DEF TypeOK, AtAwait
<1>1. CASE UNCHANGED vars
  <2>1. UNCHANGED <<stack, preferred, prefs, stage, task, mode, got, received, fails, crashes,
                    shown, answers, always, crossed, gone, unsent, chosen, raced>>
    BY <1>1 DEF vars, memory, stored, ghosts
  <2>2. TypeOK' /\ StackOrdered'
    BY <2>1, <1>p DEF TypeOK, StackOrdered
  <2>3. MenusApart' /\ OffTheStack' /\ LinksComing'
    BY <2>1 DEF MenuInv, MenusApart, OffTheStack, LinksComing, Asking, Sending
  <2>4. LinksRight' /\ AnsweredOnce' /\ PrefsAsChosen'
    BY <2>1 DEF MenuInv, LinksRight, Sending, AnsweredOnce, PrefsAsChosen
  <2> QED
    BY <2>2, <2>3, <2>4 DEF MenuInv
<1>2. CASE Next
  <2>t. TypeOK'
    BY <1>2, <1>p, MenusTyped
  <2>1. ASSUME NEW h \in Handlers, NEW cmd \in Used, NEW c \in Chats, NEW step \in StepsOf(cmd),
               Ask(h, cmd, step, c)
        PROVE  MenuInv'
    BY <2>1, <2>t, AskKeeps
  <2>2. ASSUME NEW h \in Handlers, Show(h) \/ Sent(h) PROVE MenuInv'
    BY <2>2, <2>t, ShowKeeps, SentKeeps
  <2>3. ASSUME NEW h \in Handlers, SendFails(h) PROVE MenuInv'
    <3>1. /\ Finish(h) /\ UNCHANGED <<stack, prefs, shown, crossed, gone, answers, always, chosen, raced, received>>
          /\ unsent' = unsent \cup {task[h].menu}
      BY <2>3 DEF SendFails, stored
    <3>2. PrefsAsChosen'
      BY <3>1, <1>p DEF PrefsAsChosen
    <3> QED
      BY <3>1, <3>2, <2>t, DoneKeeps
  <2>4. ASSUME NEW h \in Handlers, NEW s \in stack,
               Cancel(h, s) \/ AnswerOnce(h, s) \/ AnswerWrongly(h, s)
        PROVE  MenuInv'
    BY <2>4, <2>t, AnswersKeep
  <2>5. ASSUME NEW h \in Handlers, NEW s \in stack, NEW m, AnswerAlways(h, s, m) PROVE MenuInv'
    <3>1. /\ stage' = [stage EXCEPT ![h] = "reading"] /\ task' = [task EXCEPT ![h] = s]
          /\ always' = always \cup {s.menu} /\ received' = received + 1 /\ stage[h] = "idle"
          /\ UNCHANGED <<stack, prefs, shown, answers, crossed, gone, unsent, chosen, raced>>
      BY <2>5 DEF AnswerAlways, Receive, GoTo, stored
    <3>2. PrefsAsChosen' /\ s.menu \in shown /\ "reading" \in Stages \ {"asked", "sending"}
      BY <3>1 DEF MenuInv, MenusApart, PrefsAsChosen, Stages
    <3>3. always \subseteq always' /\ always' \subseteq shown
      BY <3>1, <3>2, <1>p
    <3> QED
      BY <3>1, <3>2, <3>3, <2>t, GoesOnKeeps
  <2>6. ASSUME NEW h \in Handlers, NEW s \in stack, NEW m, AnswerMedia(h, s, m) PROVE MenuInv'
    BY <2>6, <2>t, AnswerMediaKeeps
  <2>8. ASSUME NEW h \in Handlers, ReadPrefs(h) \/ SetGlobal(h) PROVE MenuInv'
    <3>1. UNCHANGED <<stack, prefs, task, shown, answers, always, crossed, gone, unsent, chosen, raced, received>>
      BY <2>8 DEF ReadPrefs, SetGlobal, stored, ghosts
    <3>2. task' = [task EXCEPT ![h] = task[h]]
      BY <3>1, <1>t DEF AtAwait
    <3>3. PICK next \in {"writing", "checking"} :
            /\ stage' = [stage EXCEPT ![h] = next] /\ (next = "writing" => stage[h] = "reading")
            /\ stage[h] # "sending"
      BY <2>8 DEF ReadPrefs, SetGlobal, GoTo
    <3>4. next \in Stages \ {"asked", "sending"} /\ (next \in {"reading", "writing"} => task[h].menu \in always')
      BY <3>1, <3>3 DEF Stages, MenuInv, OffTheStack
    <3>5. PrefsAsChosen'
      BY <3>1, <1>p DEF PrefsAsChosen
    <3> QED
      BY <3>1, <3>2, <3>3, <3>4, <3>5, <1>p, <2>t, GoesOnKeeps
  <2>9. ASSUME NEW h \in Handlers, WritePrefs(h) PROVE MenuInv'
    BY <2>9, <2>t, WritePrefsKeeps
  <2>11. ASSUME NEW h \in Handlers, UnsetPrefs(h) PROVE MenuInv'
    <3>1. /\ Finish(h) /\ UNCHANGED <<stack, shown, crossed, gone, unsent, answers, always, received>>
          /\ stage[h] # "sending"
      BY <2>11 DEF UnsetPrefs
    <3>2. PrefsAsChosen'
      BY <2>11 DEF UnsetPrefs, PrefsAsChosen
    <3> QED
      BY <3>1, <3>2, <2>t, DoneKeeps
  <2>12. ASSUME NEW h \in Handlers, StoreFails(h) PROVE MenuInv'
    <3>1. /\ Finish(h) /\ UNCHANGED <<stack, shown, crossed, gone, unsent, answers, always, received>>
          /\ stage[h] # "sending"
          /\ Save(h) \/ UNCHANGED <<prefs, chosen, raced>>
      BY <2>12 DEF StoreFails
    <3>2. PrefsAsChosen'
      BY <3>1, <1>p, SaveKeeps DEF PrefsAsChosen
    <3> QED
      BY <3>1, <3>2, <2>t, DoneKeeps
  <2>13. ASSUME NEW h \in Handlers, CheckPrefs(h) PROVE MenuInv'
    <3>1. /\ UNCHANGED <<stack, prefs, shown, answers, always, crossed, gone, unsent, raced, received>>
          /\ stage[h] = "checking" /\ (chosen' = chosen \/ (prefs = NoPrefs /\ chosen' = NoPrefs))
      BY <2>13 DEF CheckPrefs, stored
    <3>2. PrefsAsChosen'
      BY <3>1, <1>p DEF PrefsAsChosen
    <3>3. CASE Finish(h)
      BY <3>1, <3>2, <3>3, <2>t, DoneKeeps
    <3>4. CASE ~Finish(h)
      <4>1. stage' = [stage EXCEPT ![h] = "unsetting"] /\ UNCHANGED task
        BY <2>13, <3>4 DEF CheckPrefs, GoTo
      <4>2. task' = [task EXCEPT ![h] = task[h]]
        BY <4>1, <1>t DEF AtAwait
      <4>3. "unsetting" \in Stages \ {"asked", "sending"} /\ "unsetting" \notin {"reading", "writing"}
        BY DEF Stages
      <4> QED
        BY <3>1, <3>2, <4>1, <4>2, <4>3, <1>p, <2>t, GoesOnKeeps
    <3> QED
      BY <3>3, <3>4
  <2>14. CASE Expire \/ Crash
    <3>1. /\ stack' \subseteq stack
          /\ UNCHANGED <<prefs, shown, answers, always, crossed, gone, unsent, chosen, raced, received>>
          /\ \A h \in Handlers : \/ stage'[h] = stage[h] /\ task'[h] = task[h]
                                 \/ stage'[h] = "idle" /\ stack' = {}
      BY <2>14 DEF Expire, Crash, stored, ghosts
    <3>2. PrefsAsChosen'
      BY <3>1, <1>p DEF PrefsAsChosen
    <3>3. \A h \in Handlers : stage[h] \in {"reading", "writing"} => task[h].menu \in always
      BY DEF MenuInv, OffTheStack
    <3>4. Unmoved
      BY <3>1, <3>3, <1>p DEF Unmoved, Asking, Sending
    <3> QED
      BY <3>2, <3>4, <2>t, UnmovedKeeps DEF MenuInv
  <2>15. \A quoted \in Quotes, c \in Chats : Selection(quoted, c) \subseteq stack
    BY <1>p, StackTyped DEF TypeOK
  <2> QED
    BY <1>2, <2>1, <2>2, <2>3, <2>4, <2>5, <2>6, <2>8, <2>9, <2>11, <2>12, <2>13, <2>14, <2>15
       DEF Next
<1> QED
  BY <1>1, <1>2

\* The sessions that show in the message of a menu are that menu's, if any is on the stack.
LEMMA MenuImplies ==
  ASSUME MenuInv
  PROVE  QuoteSelectsItsMenu
<1> USE DEF MenuInv
<1> SUFFICES ASSUME NEW q \in shown \ (crossed \cup gone \cup unsent), NEW c \in Chats,
                    ~\E h \in Handlers : stage[h] = "sending" /\ task[h].menu = q,
                    ~\E s \in {t \in stack : t.menu = q} : s.botMsgId \in crossed \cup gone
             PROVE  Selection(q, c) = IF {s \in stack : s.menu = q} # {}
                                      THEN {s \in stack : s.menu = q} ELSE Selection(NoId, c)
  BY DEF QuoteSelectsItsMenu
<1> DEFINE own == {s \in stack : s.menu = q}
           in(id) == {s \in stack : id # NoId /\ s.botMsgId = id}
<1>1. q # NoId /\ stack \subseteq Sessions
  BY DEF TypeOK, Ids, NoId
<1>2. in(q) = own
  <2>1. ASSUME NEW s \in in(q) PROVE s \in own
    BY <2>1, <1>1 DEF LinksRight
  <2>2. ASSUME NEW s \in own PROVE s \in in(q)
    <3>1. s.botMsgId # NoId
      BY DEF LinksRight, Sending
    <3> QED
      BY <3>1, <1>1 DEF LinksRight
  <2> QED
    BY <2>1, <2>2
<1>3. Newest(own) = own
  <2>1. \A s, t \in own : s = t /\ t.since <= s.since
    BY <1>1 DEF StackOrdered, Sessions
  <2> QED
    BY <2>1 DEF Newest
<1>4. in(NoId) = {} /\ Newest({}) = {}
  BY DEF Newest
<1>5. \A id : Selection(id, c) = IF Newest(in(id)) # {} THEN Newest(in(id)) ELSE Newest({s \in stack : s.chat = c})
  BY DEF Selection
<1>6. Selection(NoId, c) = Newest({s \in stack : s.chat = c})
  BY <1>4, <1>5
<1> HIDE DEF own, in
<1>7. Selection(q, c) = IF own # {} THEN own ELSE Selection(NoId, c)
  BY <1>2, <1>3, <1>5, <1>6
<1> QED
  BY <1>7 DEF own

-----------------------------------------------------------------------------
(* Standing                                                                *)

Cards  == [meter : 0 .. Full, meterAt : Nat, fails : 0 .. 10, last : {"none", "win", "fail"}, stats : Nat]
Rows   == [count : Nat, domain : Domains \cup {"none"}, at : Nat]
Places == {"free", "run", "noting", "first", "reading", "decayed", "decaying", "counting"}

\* What is loaded was stored at some moment, and a run that is noted has a domain.
CardsTyped ==
  /\ card \in Cards /\ card.meterAt <= moment
  /\ playing \in [StandingHandlers -> [at : Places, domain : Domains \cup {"none"}, loaded : Cards, won : BOOLEAN]]
  /\ \A h \in StandingHandlers :
       /\ playing[h].loaded.meterAt <= moment
       /\ playing[h].at \in {"run", "noting", "first"} => playing[h].domain \in Domains

\* A streak that counts something has a domain.
RowsTyped ==
  /\ streak \in Rows /\ row \in Rows
  /\ streak.count = 0 <=> streak.domain = "none"

TimesTyped ==
  /\ stamps \in [Domains -> Int] /\ moment \in 0 .. MaxTime /\ runs \in 0 .. Len(Asked)
  /\ earned \in Nat /\ completed \in Nat /\ overwrote \in BOOLEAN /\ blended \in BOOLEAN

\* The meter has lost the decay of the whole days before it was touched last.
MeterSoFar ==
  ~overwrote => card.meter <= earned /\ card.meter >= earned - Decay * (card.meterAt \div DayTicks)

StandingInv ==
  CardsTyped /\ RowsTyped /\ TimesTyped /\ MeterSoFar /\ StreakEarned /\ ResultsAgree /\ StatsComplete

LEMMA StandingStarts ==
  ASSUME PeopleInit
  PROVE  StandingInv
<1>1. StandingInit
  BY DEF PeopleInit
<1>a. /\ Full \in Nat /\ Decay \in Nat /\ DayTicks \in Nat \ {0} /\ MaxTime \in Nat
      /\ CooldownOf \in [Domains -> Nat \ {0}] /\ Len(Asked) \in Nat
  BY StandingAssumption DEF StandingAssumption
<1>2. NewCard \in Cards /\ NewCard.meterAt = 0 /\ NewCard.meter = 0 /\ NewCard.fails = 0
      /\ NewCard.last = "none" /\ NewCard.stats = 0
  BY <1>a DEF NewCard, Cards
<1>b. /\ card = NewCard /\ moment = 0 /\ streak = NoStreak /\ row = NoStreak /\ earned = 0 /\ completed = 0
      /\ playing = [h \in StandingHandlers |-> Absent0] /\ runs = 0
  BY <1>1 DEF StandingInit
<1>c. card.meter = 0 /\ card.meterAt = 0 /\ card.fails = 0 /\ card.last = "none" /\ card.stats = 0
  BY <1>b, <1>2
<1>3. CardsTyped
  <2>1. Absent0 \in [at : Places, domain : Domains \cup {"none"}, loaded : Cards, won : BOOLEAN]
        /\ Absent0.loaded = NewCard /\ Absent0.at = "free"
    BY <1>2 DEF Absent0, Places
  <2> QED
    <3>1. \A h \in StandingHandlers : playing[h] = Absent0
      BY <1>b
    <3>2. playing \in [StandingHandlers -> [at : Places, domain : Domains \cup {"none"}, loaded : Cards, won : BOOLEAN]]
      BY <1>b, <2>1
    <3>3. card \in Cards /\ card.meterAt <= moment
      BY <1>b, <1>c, <1>2
    <3>4. \A h \in StandingHandlers : playing[h].loaded.meterAt <= moment /\ playing[h].at = "free"
      BY <3>1, <2>1, <1>b, <1>2
    <3> QED
      BY <3>2, <3>3, <3>4 DEF CardsTyped
<1>4. RowsTyped
  BY <1>b DEF RowsTyped, NoStreak, Rows
<1>5. TimesTyped
  <2>1. stamps \in [Domains -> Int]
    BY <1>1, <1>a DEF StandingInit
  <2>2. overwrote \in BOOLEAN /\ blended \in BOOLEAN
    BY <1>1 DEF StandingInit
  <2> QED
    BY <1>b, <1>a, <2>1, <2>2 DEF TimesTyped
<1>6. StreakEarned
  <2>1. streak.count = 0
    BY <1>b DEF NoStreak
  <2> QED
    BY <2>1 DEF StreakEarned
<1>7. MeterSoFar
  <2>1. 0 \div DayTicks = 0 /\ Decay * 0 = 0
    BY <1>a
  <2> QED
    BY <1>b, <1>c, <2>1 DEF MeterSoFar
<1>8. ResultsAgree /\ StatsComplete
  BY <1>b, <1>c DEF ResultsAgree, StatsComplete
<1> QED
  BY <1>3, <1>4, <1>5, <1>6, <1>7, <1>8 DEF StandingInv

\* A save leaves each field as it was stored or as the command made it; if nothing was
\* stored meanwhile, the card is as the command made it.
LEMMA SavedFields ==
  ASSUME card \in Cards, NEW l \in Cards, NEW c \in Cards
  PROVE  /\ Saved(l, c) \in Cards
         /\ Saved(l, c).meterAt \in {card.meterAt, c.meterAt}
         /\ c.fails = l.fails /\ c.last = l.last
              => Saved(l, c).fails = card.fails /\ Saved(l, c).last = card.last
         /\ card = l => Saved(l, c) = c
<1> DEFINE new == Saved(l, c)
<1>1. new = [f \in {"meter", "meterAt", "fails", "last", "stats"} |-> IF c[f] # l[f] THEN c[f] ELSE card[f]]
  BY DEF Saved, Cards
<1>2. /\ new.meter = (IF c.meter # l.meter THEN c.meter ELSE card.meter)
      /\ new.meterAt = (IF c.meterAt # l.meterAt THEN c.meterAt ELSE card.meterAt)
      /\ new.fails = (IF c.fails # l.fails THEN c.fails ELSE card.fails)
      /\ new.last = (IF c.last # l.last THEN c.last ELSE card.last)
      /\ new.stats = (IF c.stats # l.stats THEN c.stats ELSE card.stats)
  BY <1>1
<1>3. new = [meter |-> new.meter, meterAt |-> new.meterAt, fails |-> new.fails, last |-> new.last,
             stats |-> new.stats]
  BY <1>1
<1> HIDE DEF new
<1>4. new \in Cards
  BY <1>2, <1>3 DEF Cards
<1>5. card = l => new = c
  <2>1. c = [meter |-> c.meter, meterAt |-> c.meterAt, fails |-> c.fails, last |-> c.last, stats |-> c.stats]
    BY DEF Cards
  <2> QED
    BY <1>2, <1>3, <2>1
<1> QED
  BY <1>2, <1>4, <1>5 DEF new

\* Whole days add up to no more than the days of the whole.
LEMMA DaysAdd ==
  ASSUME NEW a \in Nat, NEW b \in Nat, a <= b, NEW d \in Nat \ {0}, NEW k \in Nat
  PROVE  /\ a \div d \in Nat /\ (b - a) \div d \in Nat /\ b \div d \in Nat
         /\ k * (a \div d) + k * ((b - a) \div d) <= k * (b \div d)
         /\ k * (a \div d) \in Nat /\ k * ((b - a) \div d) \in Nat /\ k * (b \div d) \in Nat
         /\ k * (a \div d) <= k * (b \div d)
<1>1. a \div d \in Nat /\ (b - a) \div d \in Nat /\ b \div d \in Nat
  OBVIOUS
<1>2. /\ a = d * (a \div d) + (a % d) /\ a % d \in 0 .. d - 1
      /\ b - a = d * ((b - a) \div d) + ((b - a) % d) /\ (b - a) % d \in 0 .. d - 1
      /\ b = d * (b \div d) + (b % d) /\ b % d \in 0 .. d - 1
  <2>1. \A n \in Nat : /\ n = d * (n \div d) + (n % d)
                       /\ n % d \in 0 .. d - 1
    OBVIOUS
  <2>2. b - a \in Nat
    OBVIOUS
  <2> QED
    BY <2>1, <2>2
<1>3. (a \div d) + ((b - a) \div d) <= b \div d
  <2> DEFINE x == a \div d
             y == (b - a) \div d
             z == b \div d
  <2>1. x \in Nat /\ y \in Nat /\ z \in Nat
    BY <1>1
  <2>2. d * z + d > d * x + d * y
    BY <1>1, <1>2
  <2>3. \A u, v, w, e \in Nat : e * w + e > e * u + e * v => u + v <= w
    <3>1. SUFFICES ASSUME NEW u \in Nat, NEW v \in Nat, NEW w \in Nat, NEW e \in Nat, u + v >= w + 1
                   PROVE  e * u + e * v >= e * w + e
      OBVIOUS
    <3>2. e * (u + v) >= e * (w + 1)
      BY <3>1
    <3>3. e * (u + v) = e * u + e * v /\ e * (w + 1) = e * w + e
      OBVIOUS
    <3> QED
      BY <3>2, <3>3
  <2> HIDE DEF x, y, z
  <2>4. x + y <= z
    BY <2>1, <2>2, <2>3
  <2> QED
    BY <2>4 DEF x, y, z
<1>4. \A u, v, w, e \in Nat : u + v <= w => /\ e * u + e * v <= e * w /\ e * u \in Nat /\ e * v \in Nat
                                            /\ e * w \in Nat
  <2>1. SUFFICES ASSUME NEW u \in Nat, NEW v \in Nat, NEW w \in Nat, NEW e \in Nat, u + v <= w
                 PROVE  e * u + e * v <= e * w /\ e * u \in Nat /\ e * v \in Nat /\ e * w \in Nat
    OBVIOUS
  <2>2. e * (u + v) <= e * w /\ e * (u + v) = e * u + e * v
    BY <2>1
  <2> QED
    BY <2>2
<1> QED
  BY <1>1, <1>3, <1>4

\* A decayed meter has lost what the days since it was touched take.
LEMMA Decays ==
  ASSUME TimesTyped, NEW c \in Cards, c.meterAt <= moment
  PROVE  /\ DecayedMeter(c) \in 0 .. c.meter /\ c.meter \in 0 .. Full
         /\ \A e \in Nat : c.meter >= e - Decay * (c.meterAt \div DayTicks)
              => DecayedMeter(c) >= e - Decay * (moment \div DayTicks)
<1>a. Full \in Nat /\ Decay \in Nat /\ DayTicks \in Nat \ {0} /\ MaxTime \in Nat
  BY StandingAssumption DEF StandingAssumption
<1>1. c.meter \in 0 .. Full /\ c.meterAt \in Nat /\ moment \in Nat
  BY <1>a DEF Cards, TimesTyped
<1> DEFINE x == Decay * (c.meterAt \div DayTicks)
           y == Decay * ((moment - c.meterAt) \div DayTicks)
           z == Decay * (moment \div DayTicks)
<1>2. x + y <= z /\ x \in Nat /\ y \in Nat /\ z \in Nat
  BY <1>a, <1>1, DaysAdd
<1>3. DecayedMeter(c) = Larger(0, c.meter - y)
  BY DEF DecayedMeter
<1> HIDE DEF x, y, z
<1>4. DecayedMeter(c) = (IF 0 >= c.meter - y THEN 0 ELSE c.meter - y)
  BY <1>3 DEF Larger
<1>5. DecayedMeter(c) \in 0 .. c.meter
  BY <1>1, <1>2, <1>4, <1>a
<1>6. \A e \in Nat : c.meter >= e - x => DecayedMeter(c) >= e - z
  BY <1>1, <1>2, <1>4, <1>a
<1> QED
  BY <1>1, <1>5, <1>6 DEF x, z

\* A failure and a win are written on a card.
LEMMA Results ==
  ASSUME NEW t \in Cards, NEW k \in 0 .. 10, NEW l \in {"none", "win", "fail"}
  PROVE  /\ [t EXCEPT !.fails = k, !.last = l] \in Cards
         /\ \A m \in 0 .. Full, a \in Nat :
              [t EXCEPT !.meter = m, !.meterAt = a, !.fails = k, !.last = l] \in Cards
<1>1. [t EXCEPT !.fails = k, !.last = l] \in Cards
  BY DEF Cards
<1>2. ASSUME NEW m \in 0 .. Full, NEW a \in Nat
      PROVE  [t EXCEPT !.meter = m, !.meterAt = a, !.fails = k, !.last = l] \in Cards
  BY DEF Cards
<1> QED
  BY <1>1, <1>2

\* What a run makes of the card it loaded.
Made(l, c) ==
  /\ c \in Cards /\ c.meterAt <= moment /\ c.stats = l.stats + 1
  /\ c.fails > 0 <=> c.last = "fail"

LEMMA RunMakes ==
  ASSUME TimesTyped, NEW c \in Cards, c.meterAt <= moment, NEW d \in Domains
  PROVE  /\ Made(c, Failed(d, c))
         /\ \/ Failed(d, c).meter = c.meter /\ Failed(d, c).meterAt = c.meterAt
            \/ Failed(d, c).meter = DecayedMeter(c) /\ Failed(d, c).meterAt = moment
         /\ \A m \in 0 .. Full : /\ Made(c, Won(c, m))
                                 /\ Won(c, m).meter = m /\ Won(c, m).meterAt = moment
<1>a. Full \in Nat /\ MaxTime \in Nat /\ moment \in Nat
  BY StandingAssumption DEF StandingAssumption, TimesTyped
<1>1. c = [meter |-> c.meter, meterAt |-> c.meterAt, fails |-> c.fails, last |-> c.last, stats |-> c.stats]
      /\ c.fails \in 0 .. 10 /\ c.stats \in Nat /\ c.meterAt \in Nat /\ c.meter \in 0 .. Full
  BY DEF Cards
<1>2. DecayedMeter(c) \in 0 .. Full
  BY <1>a, <1>1, Decays
<1> DEFINE dm == DecayedMeter(c)
           fl == Smaller(c.fails + 1, 10)
           t  == [c EXCEPT !.stats = @ + 1]
           f  == [t EXCEPT !.fails = fl, !.last = "fail"]
<1>3. fl \in 1 .. 10
  BY <1>1 DEF Smaller
<1> HIDE DEF dm, fl
<1>4. /\ t \in Cards /\ t.meter = c.meter /\ t.meterAt = c.meterAt /\ t.fails = c.fails
      /\ t.stats = c.stats + 1
  BY <1>1 DEF Cards
<1>t. t \in Cards
  BY <1>4
<1> HIDE DEF t
<1>5. /\ f \in Cards /\ f.meter = c.meter /\ f.meterAt = c.meterAt /\ f.fails = fl
      /\ f.stats = c.stats + 1 /\ f.last = "fail"
  <2>1. f \in Cards
    <3>1. fl \in 0 .. 10 /\ "fail" \in {"none", "win", "fail"}
      BY <1>3
    <3>2. [t EXCEPT !.fails = fl, !.last = "fail"] \in Cards
      BY <3>1, <1>t, Results, Zenon
    <3> QED
      BY <3>2 DEF f
  <2>2. f.meter = c.meter /\ f.meterAt = c.meterAt /\ f.stats = c.stats + 1
    BY <1>4 DEF Cards
  <2>3. f.fails = fl
    BY <1>4 DEF Cards
  <2>4. f.last = "fail"
    BY <1>4 DEF Cards
  <2> QED
    BY <2>1, <2>2, <2>3, <2>4
<1> HIDE DEF f
<1>6. Failed(d, c) = IF d \in Timed THEN [f EXCEPT !.meter = dm, !.meterAt = moment] ELSE f
  <2>1. [t EXCEPT !.fails = Smaller(@ + 1, 10), !.last = "fail"] = f
    BY <1>4 DEF f, fl
  <2>2. Tallied(c) = t
    BY DEF Tallied, t
  <2> QED
    BY <2>1, <2>2 DEF Failed, dm
<1>7. /\ Failed(d, c) \in Cards /\ Failed(d, c).fails = fl /\ Failed(d, c).stats = c.stats + 1
      /\ Failed(d, c).last = "fail"
      /\ \/ Failed(d, c).meter = c.meter /\ Failed(d, c).meterAt = c.meterAt
         \/ Failed(d, c).meter = dm /\ Failed(d, c).meterAt = moment
  <2>1. CASE d \in Timed
    <3>1. Failed(d, c) = [f EXCEPT !.meter = dm, !.meterAt = moment]
      BY <2>1, <1>6
    <3>2. dm \in 0 .. Full
      BY <1>2 DEF dm
    <3> QED
      BY <3>1, <3>2, <1>a, <1>5 DEF Cards
  <2>2. CASE d \notin Timed
    BY <2>2, <1>5, <1>6
  <2> QED
    BY <2>1, <2>2
<1>8. Made(c, Failed(d, c))
  BY <1>a, <1>1, <1>3, <1>7 DEF Made
<1>9. ASSUME NEW m \in 0 .. Full
      PROVE  Made(c, Won(c, m)) /\ Won(c, m).meter = m /\ Won(c, m).meterAt = moment
  <2>1. Won(c, m) = [t EXCEPT !.meter = m, !.meterAt = moment, !.fails = 0, !.last = "win"]
    BY DEF Won, Tallied, t
  <2>2. /\ Won(c, m) \in Cards /\ Won(c, m).meter = m /\ Won(c, m).meterAt = moment
        /\ Won(c, m).fails = 0 /\ Won(c, m).last = "win" /\ Won(c, m).stats = c.stats + 1
    <3>1. Won(c, m) \in Cards
      <4>1. 0 \in 0 .. 10 /\ "win" \in {"none", "win", "fail"} /\ moment \in Nat
        BY <1>a
      <4>2. [t EXCEPT !.meter = m, !.meterAt = moment, !.fails = 0, !.last = "win"] \in Cards
        BY <4>1, <1>t, Results, Zenon
      <4> QED
        BY <4>2, <2>1
    <3>2. /\ Won(c, m).meter = m /\ Won(c, m).meterAt = moment
          /\ Won(c, m).fails = 0 /\ Won(c, m).last = "win" /\ Won(c, m).stats = c.stats + 1
      BY <2>1, <1>t, <1>4 DEF Cards
    <3> QED
      BY <3>1, <3>2
  <2> QED
    BY <2>2, <1>a DEF Made
<1> QED
  BY <1>7, <1>8, <1>9 DEF dm

\* The save of a run.
LEMMA EndsKeep ==
  ASSUME StandingInv, NEW h \in StandingHandlers, NEW c, NEW won \in BOOLEAN, Ends(h, c, won),
         Made(playing[h].loaded, c), earned' \in Nat,
         card = playing[h].loaded /\ ~overwrote
           => c.meter <= earned' /\ c.meter >= earned' - Decay * (c.meterAt \div DayTicks)
  PROVE  StandingInv'
<1> DEFINE l == playing[h].loaded
<1>1. /\ card \in Cards /\ l \in Cards /\ c \in Cards /\ card.meterAt <= moment /\ c.meterAt <= moment
      /\ c.stats = l.stats + 1 /\ (c.fails > 0 <=> c.last = "fail")
  BY DEF StandingInv, CardsTyped, Made
<1>2. /\ card' = Saved(l, c) /\ playing[h].at = "run" /\ completed' = completed + 1
      /\ playing' = [playing EXCEPT ![h].at = "noting", ![h].won = won]
      /\ blended' = (card # l) /\ overwrote' = (overwrote \/ blended')
      /\ UNCHANGED <<stamps, streak, moment, runs, row>>
  BY DEF Ends
<1>3. card' \in Cards /\ card'.meterAt <= moment /\ (card = l => card' = c)
  BY <1>1, <1>2, SavedFields
<1>4. CardsTyped'
  <2>1. playing' \in [StandingHandlers -> [at : Places, domain : Domains \cup {"none"}, loaded : Cards, won : BOOLEAN]]
    BY <1>2 DEF StandingInv, CardsTyped, Places
  <2>2. \A g \in StandingHandlers : /\ playing'[g].loaded = playing[g].loaded /\ playing'[g].domain = playing[g].domain
                                    /\ playing'[g].at = playing[g].at \/ playing[g].at = "run"
    BY <1>2 DEF StandingInv, CardsTyped
  <2> QED
    BY <2>1, <2>2, <1>2, <1>3 DEF StandingInv, CardsTyped
<1>5. RowsTyped' /\ StreakEarned'
  BY <1>2 DEF StandingInv, RowsTyped, StreakEarned
<1>6. blended' \in BOOLEAN /\ overwrote' \in BOOLEAN
  <2>1. blended' \in BOOLEAN
    BY <1>2, Zenon
  <2>2. overwrote' \in BOOLEAN
    BY <1>2, Zenon
  <2> QED
    BY <2>1, <2>2
<1>7. TimesTyped'
  BY <1>2, <1>6 DEF StandingInv, TimesTyped
<1>8. ~overwrote' => card = l /\ ~overwrote /\ ~blended'
  BY <1>2
<1>9. MeterSoFar'
  BY <1>3, <1>8 DEF MeterSoFar
<1>10. ResultsAgree'
  BY <1>1, <1>2, <1>3 DEF ResultsAgree
<1>11. StatsComplete'
  BY <1>1, <1>2, <1>3, <1>8 DEF StatsComplete, StandingInv
<1> QED
  BY <1>4, <1>5, <1>7, <1>9, <1>10, <1>11 DEF StandingInv

LEMMA RunEndsKeep ==
  ASSUME StandingInv, NEW h \in StandingHandlers, RunEnds(h)
  PROVE  StandingInv'
<1> DEFINE c == playing[h].loaded
           d == playing[h].domain
<1>a. /\ Full \in Nat /\ Decay \in Nat /\ DayTicks \in Nat \ {0} /\ MaxTime \in Nat /\ Gains \subseteq Nat
  BY StandingAssumption DEF StandingAssumption
<1>1. playing[h].at = "run"
  BY DEF RunEnds, Ends
<1>2. c \in Cards /\ c.meterAt <= moment /\ d \in Domains /\ moment \in Nat /\ earned \in Nat /\ TimesTyped
  BY <1>1, <1>a DEF StandingInv, CardsTyped, TimesTyped
<1>3. c.meter \in 0 .. Full /\ DecayedMeter(c) \in 0 .. c.meter /\ c.meterAt \in Nat
  BY <1>2, Decays DEF Cards
<1>4. moment \div DayTicks \in Nat /\ Decay * (moment \div DayTicks) \in Nat
  BY <1>2, <1>3, <1>a, DaysAdd
<1>5. card = c /\ ~overwrote => /\ c.meter <= earned /\ c.meter >= earned - Decay * (c.meterAt \div DayTicks)
                                /\ DecayedMeter(c) <= earned
                                /\ DecayedMeter(c) >= earned - Decay * (moment \div DayTicks)
  <2>1. SUFFICES ASSUME card = c, ~overwrote
                 PROVE  /\ c.meter <= earned /\ c.meter >= earned - Decay * (c.meterAt \div DayTicks)
                        /\ DecayedMeter(c) <= earned
                        /\ DecayedMeter(c) >= earned - Decay * (moment \div DayTicks)
    OBVIOUS
  <2>2. c.meter <= earned /\ c.meter >= earned - Decay * (c.meterAt \div DayTicks)
    BY <2>1 DEF StandingInv, MeterSoFar
  <2>3. DecayedMeter(c) >= earned - Decay * (moment \div DayTicks)
    BY <2>2, <1>2, Decays
  <2> QED
    BY <2>2, <2>3, <1>2, <1>3, <1>a
<1>6. CASE Ends(h, Failed(d, c), FALSE) /\ UNCHANGED earned
  <2>1. Made(c, Failed(d, c))
    BY <1>2, RunMakes
  <2>2. \/ Failed(d, c).meter = c.meter /\ Failed(d, c).meterAt = c.meterAt
        \/ Failed(d, c).meter = DecayedMeter(c) /\ Failed(d, c).meterAt = moment
    BY <1>2, RunMakes
  <2>3. card = c /\ ~overwrote => /\ Failed(d, c).meter <= earned'
                                  /\ Failed(d, c).meter >= earned' - Decay * (Failed(d, c).meterAt \div DayTicks)
    BY <2>2, <1>5, <1>6
  <2> QED
    BY <2>1, <2>3, <1>2, <1>6, EndsKeep
<1>7. CASE Ends(h, RareWon(c), TRUE) /\ earned' = 0
  <2>1. RareWon(c) = Won(c, 0) /\ 0 \in 0 .. Full
    BY <1>a DEF RareWon
  <2>2. Made(c, Won(c, 0)) /\ Won(c, 0).meter = 0 /\ Won(c, 0).meterAt = moment
    BY <2>1, <1>2, RunMakes
  <2>3. 0 <= earned' /\ 0 >= earned' - Decay * (moment \div DayTicks)
    BY <1>7, <1>4
  <2> QED
    BY <2>1, <2>2, <2>3, <1>2, <1>7, EndsKeep
<1>8. ASSUME NEW g \in Gains, Ends(h, Won(c, FilledBy(c, g)), TRUE), earned' = Smaller(earned + g, Full)
      PROVE  StandingInv'
  <2> DEFINE m == FilledBy(c, g)
             k == Decay * (moment \div DayTicks)
             dm == DecayedMeter(c)
  <2>1. m = Smaller(dm + g, Full) /\ k \in Nat /\ g \in Nat /\ dm \in 0 .. c.meter
        /\ (card = c /\ ~overwrote => dm <= earned /\ dm >= earned - k)
    BY <1>3, <1>4, <1>5, <1>a DEF FilledBy
  <2> HIDE DEF m, k, dm
  <2>2. m = (IF dm + g <= Full THEN dm + g ELSE Full)
        /\ earned' = (IF earned + g <= Full THEN earned + g ELSE Full)
    BY <2>1, <1>8 DEF Smaller
  <2>3. m \in 0 .. Full /\ earned' \in Nat
    BY <2>1, <2>2, <1>2, <1>3, <1>a
  <2>4. card = c /\ ~overwrote => m <= earned' /\ m >= earned' - k
    BY <2>1, <2>2, <1>2, <1>3, <1>a
  <2>5. Made(c, Won(c, m)) /\ Won(c, m).meter = m /\ Won(c, m).meterAt = moment
    BY <2>3, <1>2, RunMakes
  <2>6. card = c /\ ~overwrote => /\ Won(c, m).meter <= earned'
                                  /\ Won(c, m).meter >= earned' - Decay * (Won(c, m).meterAt \div DayTicks)
    BY <2>4, <2>5 DEF k
  <2>7. Ends(h, Won(c, m), TRUE)
    BY <1>8 DEF m
  <2> QED
    BY <2>3, <2>5, <2>6, <2>7, EndsKeep
<1> QED
  BY <1>6, <1>7, <1>8 DEF RunEnds

\* What touches neither the card nor the streak, and starts a handler with the card as stored.
LEMMA GoesKeep ==
  ASSUME StandingInv, UNCHANGED <<card, streak, row, earned, completed, overwrote, blended, moment>>,
         stamps' \in [Domains -> Int], runs' \in 0 .. Len(Asked),
         NEW h \in StandingHandlers, NEW new,
         playing' = [playing EXCEPT ![h] = new],
         new \in [at : Places, domain : Domains \cup {"none"}, loaded : Cards, won : BOOLEAN],
         new.loaded.meterAt <= moment,
         new.at \in {"run", "noting", "first"} => new.domain \in Domains
  PROVE  StandingInv'
<1>1. playing' \in [StandingHandlers -> [at : Places, domain : Domains \cup {"none"}, loaded : Cards, won : BOOLEAN]]
  BY DEF StandingInv, CardsTyped
<1>2. playing'[h] = new /\ \A g \in StandingHandlers : g # h => playing'[g] = playing[g]
  BY DEF StandingInv, CardsTyped
<1>3. CardsTyped'
  BY <1>1, <1>2 DEF StandingInv, CardsTyped
<1>4. RowsTyped' /\ StreakEarned'
  BY DEF StandingInv, RowsTyped, StreakEarned
<1>5. TimesTyped'
  BY DEF StandingInv, TimesTyped
<1>6. MeterSoFar' /\ ResultsAgree' /\ StatsComplete'
  BY DEF StandingInv, MeterSoFar, ResultsAgree, StatsComplete
<1> QED
  BY <1>3, <1>4, <1>5, <1>6 DEF StandingInv

LEMMA AbsentTyped ==
  /\ Absent0 \in [at : Places, domain : Domains \cup {"none"}, loaded : Cards, won : BOOLEAN]
  /\ Absent0.at = "free" /\ Absent0.loaded.meterAt = 0
<1>1. Full \in Nat
  BY StandingAssumption DEF StandingAssumption
<1>2. NewCard \in Cards /\ NewCard.meterAt = 0
  BY <1>1 DEF NewCard, Cards
<1> QED
  BY <1>2 DEF Absent0, Places

LEMMA BeginRunKeeps ==
  ASSUME StandingInv, NEW h \in StandingHandlers, NEW d \in Domains, BeginRun(h, d)
  PROVE  StandingInv'
<1>a. MaxTime \in Nat /\ Len(Asked) \in Nat /\ moment \in Nat
  BY StandingAssumption DEF StandingAssumption, StandingInv, TimesTyped
<1>1. /\ UNCHANGED <<card, streak, row, earned, completed, overwrote, blended, moment>>
      /\ runs' \in 0 .. Len(Asked)
  BY <1>a DEF BeginRun, Ghosts, StandingInv, TimesTyped
<1>2. card \in Cards /\ card.meterAt <= moment /\ stamps \in [Domains -> Int]
  BY DEF StandingInv, CardsTyped, TimesTyped
<1>3. CASE stamps[d] <= moment - CooldownOf[d]
  <2> DEFINE new == [at |-> "run", domain |-> d, loaded |-> card, won |-> FALSE]
  <2>1. stamps' = [stamps EXCEPT ![d] = moment] /\ playing' = [playing EXCEPT ![h] = new]
    BY <1>3 DEF BeginRun
  <2>2. /\ new \in [at : Places, domain : Domains \cup {"none"}, loaded : Cards, won : BOOLEAN]
        /\ new.loaded.meterAt <= moment /\ new.domain \in Domains
    BY <1>2 DEF Places
  <2>3. stamps' \in [Domains -> Int]
    BY <2>1, <1>2, <1>a
  <2> HIDE DEF new
  <2> QED
    BY <2>1, <2>2, <2>3, <1>1, GoesKeep
<1>4. CASE ~(stamps[d] <= moment - CooldownOf[d])
  <2> DEFINE new == [playing[h] EXCEPT !.at = "reading"]
  <2>1. stamps' = stamps /\ playing' = [playing EXCEPT ![h] = new]
    BY <1>4 DEF BeginRun, Goes
  <2>2. /\ new \in [at : Places, domain : Domains \cup {"none"}, loaded : Cards, won : BOOLEAN]
        /\ new.loaded.meterAt <= moment /\ new.at = "reading"
    BY DEF Places, StandingInv, CardsTyped
  <2> HIDE DEF new
  <2> QED
    BY <2>1, <2>2, <1>1, <1>2, GoesKeep
<1> QED
  BY <1>3, <1>4

\* The two operations of updateStreak: a streak that goes on and a new one.
LEMMA NoteKeeps ==
  ASSUME StandingInv, NEW h \in StandingHandlers, NoteWin(h) \/ NoteFirst(h) \/ NoteFailure(h)
  PROVE  StandingInv'
<1> DEFINE d == playing[h].domain
<1>1. /\ UNCHANGED <<card, stamps, moment, runs, earned, completed, overwrote, blended>>
      /\ playing[h].at \in {"noting", "first"}
  BY DEF NoteWin, NoteFirst, NoteFailure, NoteUnchanged
<1>2. d \in Domains /\ streak \in Rows /\ row \in Rows /\ moment \in Nat
  <2>1. MaxTime \in Nat
    BY StandingAssumption DEF StandingAssumption
  <2> QED
    BY <1>1, <2>1 DEF StandingInv, CardsTyped, RowsTyped, TimesTyped
<1>3. "none" \notin Domains
  BY DEF Domains, Timed, Gather
<1>4. RowOf(d) \in Rows /\ RowOf(d).domain = d /\ RowOf(d).count >= 1
      /\ (row.domain = d => RowOf(d).count = row.count + 1)
  BY <1>2 DEF RowOf, Rows
<1>5. CASE NoteWin(h) /\ Continues(d)
  <2>1. streak' = [streak EXCEPT !.count = @ + 1, !.at = moment] /\ row' = RowOf(d)
        /\ playing' = [playing EXCEPT ![h] = Absent0]
    BY <1>5 DEF NoteWin
  <2>2. streak.domain = d /\ streak.count \in Nat /\ streak.count > 0
    BY <1>2, <1>3, <1>5 DEF Continues, Rows, StandingInv, RowsTyped
  <2>3. row.domain = d /\ streak.count <= row.count
    BY <2>2 DEF StandingInv, StreakEarned
  <2>4. streak' \in Rows /\ streak'.count = streak.count + 1 /\ streak'.domain = d
    <3>1. streak.count + 1 \in Nat
      BY <2>2
    <3>2. \A k \in Nat : /\ [streak EXCEPT !.count = k, !.at = moment] \in Rows
                         /\ [streak EXCEPT !.count = k, !.at = moment].count = k
                         /\ [streak EXCEPT !.count = k, !.at = moment].domain = streak.domain
      BY <1>2 DEF Rows
    <3>3. streak' = [streak EXCEPT !.count = streak.count + 1, !.at = moment]
      BY <2>1
    <3> QED
      BY <3>1, <3>2, <3>3, <2>2
  <2>5. RowsTyped' /\ StreakEarned'
    <3>1. RowsTyped'
      BY <2>1, <2>2, <2>4, <1>2, <1>3, <1>4 DEF RowsTyped
    <3>2. row'.count = row.count + 1 /\ row'.domain = d /\ row.count \in Nat
      BY <2>1, <2>3, <1>2, <1>4 DEF Rows
    <3>3. StreakEarned'
      BY <3>2, <2>2, <2>3, <2>4 DEF StreakEarned
    <3> QED
      BY <3>1, <3>3
  <2>6. CardsTyped'
    BY <2>1, <1>1, <1>2, AbsentTyped DEF StandingInv, CardsTyped
  <2> QED
    BY <2>5, <2>6, <1>1 DEF StandingInv, TimesTyped, MeterSoFar, ResultsAgree, StatsComplete
<1>6. CASE NoteWin(h) /\ ~Continues(d)
  <2> DEFINE new == [playing[h] EXCEPT !.at = "first"]
  <2>1. playing' = [playing EXCEPT ![h] = new] /\ UNCHANGED <<streak, row>>
    BY <1>6 DEF NoteWin, Goes
  <2>2. /\ new \in [at : Places, domain : Domains \cup {"none"}, loaded : Cards, won : BOOLEAN]
        /\ new.loaded.meterAt <= moment /\ new.domain \in Domains
    BY <1>2 DEF Places, StandingInv, CardsTyped
  <2>3. stamps' \in [Domains -> Int] /\ runs' \in 0 .. Len(Asked)
    BY <1>1 DEF StandingInv, TimesTyped
  <2> HIDE DEF new
  <2> QED
    BY <2>1, <2>2, <2>3, <1>1, GoesKeep
<1>7. CASE NoteFirst(h)
  <2>1. streak' = [count |-> 1, domain |-> d, at |-> moment] /\ row' = RowOf(d)
        /\ playing' = [playing EXCEPT ![h] = Absent0]
    BY <1>7 DEF NoteFirst
  <2>2. RowsTyped'
    BY <2>1, <1>2, <1>3, <1>4 DEF RowsTyped, Rows
  <2>3. StreakEarned'
    BY <2>1, <1>4 DEF StreakEarned
  <2>4. CardsTyped'
    BY <2>1, <1>1, <1>2, AbsentTyped DEF StandingInv, CardsTyped
  <2> QED
    BY <2>2, <2>3, <2>4, <1>1 DEF StandingInv, TimesTyped, MeterSoFar, ResultsAgree, StatsComplete
<1>8. CASE NoteFailure(h)
  <2>1. streak' = NoStreak /\ row' = NoStreak /\ playing' = [playing EXCEPT ![h] = Absent0]
    BY <1>8 DEF NoteFailure
  <2>2. RowsTyped' /\ StreakEarned'
    BY <2>1 DEF RowsTyped, Rows, NoStreak, StreakEarned
  <2>3. CardsTyped'
    BY <2>1, <1>1, <1>2, AbsentTyped DEF StandingInv, CardsTyped
  <2> QED
    BY <2>2, <2>3, <1>1 DEF StandingInv, TimesTyped, MeterSoFar, ResultsAgree, StatsComplete
<1> QED
  BY <1>5, <1>6, <1>7, <1>8

\* A decayed meter is stored, over what was stored since it was read or not.
LEMMA SaveDecayedKeeps ==
  ASSUME StandingInv, NEW h \in StandingHandlers, SaveDecayed(h)
  PROVE  StandingInv'
<1> DEFINE l == playing[h].loaded
           c == [l EXCEPT !.meter = DecayedMeter(l), !.meterAt = moment]
<1>a. Full \in Nat /\ MaxTime \in Nat
  BY StandingAssumption DEF StandingAssumption
<1>1. /\ card \in Cards /\ l \in Cards /\ card.meterAt <= moment /\ l.meterAt <= moment
      /\ moment \in Nat /\ TimesTyped /\ overwrote \in BOOLEAN
  BY <1>a DEF StandingInv, CardsTyped, TimesTyped
<1>2. DecayedMeter(l) \in 0 .. l.meter /\ l.meter \in 0 .. Full /\ DecayedMeter(l) \in 0 .. Full
  BY <1>a, <1>1, Decays
<1>3. /\ c \in Cards /\ c.meterAt = moment /\ c.meter = DecayedMeter(l) /\ c.fails = l.fails /\ c.last = l.last
      /\ c.stats = l.stats
  BY <1>1, <1>2 DEF Cards
<1>4. /\ card' = Saved(l, c) /\ overwrote' = (overwrote \/ card # l)
      /\ \/ playing' = [playing EXCEPT ![h] = Absent0]
         \/ playing' = [playing EXCEPT ![h].at = "counting", ![h].loaded = c]
      /\ UNCHANGED <<stamps, streak, moment, runs, row, earned, completed, blended>>
  BY DEF SaveDecayed
<1> HIDE DEF c
<1>5. /\ card' \in Cards /\ card'.meterAt <= moment /\ (card = l => card' = c)
      /\ card'.fails = card.fails /\ card'.last = card.last
  BY <1>1, <1>3, <1>4, SavedFields
<1>6. CardsTyped'
  <2>1. CASE playing' = [playing EXCEPT ![h] = Absent0]
    BY <1>1, <1>4, <1>5, <2>1, AbsentTyped DEF StandingInv, CardsTyped
  <2>2. CASE playing' = [playing EXCEPT ![h].at = "counting", ![h].loaded = c]
    <3> DEFINE new == [playing[h] EXCEPT !.at = "counting", !.loaded = c]
    <3>1. /\ new \in [at : Places, domain : Domains \cup {"none"}, loaded : Cards, won : BOOLEAN]
          /\ new.at = "counting" /\ new.loaded = c
      BY <1>3 DEF StandingInv, CardsTyped, Places
    <3>2. playing' = [playing EXCEPT ![h] = new]
      BY <2>2
    <3> HIDE DEF new
    <3> QED
      BY <1>1, <1>3, <1>4, <1>5, <3>1, <3>2 DEF StandingInv, CardsTyped
  <2> QED
    BY <1>4, <2>1, <2>2
<1>7. RowsTyped' /\ StreakEarned'
  BY <1>4 DEF StandingInv, RowsTyped, StreakEarned
<1>8. TimesTyped'
  <2>1. overwrote' \in BOOLEAN
    BY <1>4, Zenon
  <2> QED
    BY <2>1, <1>4 DEF StandingInv, TimesTyped
<1>9. MeterSoFar'
  <2>1. SUFFICES ASSUME ~overwrote'
                 PROVE  card'.meter <= earned /\ card'.meter >= earned - Decay * (card'.meterAt \div DayTicks)
    BY <1>4 DEF MeterSoFar
  <2>2. card = l /\ ~overwrote /\ card' = c
    BY <2>1, <1>4, <1>5
  <2>3. l.meter <= earned /\ l.meter >= earned - Decay * (l.meterAt \div DayTicks) /\ earned \in Nat
    BY <2>2 DEF StandingInv, MeterSoFar, TimesTyped
  <2>4. DecayedMeter(l) >= earned - Decay * (moment \div DayTicks)
    BY <2>3, <1>1, Decays
  <2> QED
    BY <2>2, <2>3, <2>4, <1>2, <1>3, <1>a
<1>10. ResultsAgree'
  BY <1>4, <1>5 DEF StandingInv, ResultsAgree
<1>11. StatsComplete'
  BY <1>3, <1>4, <1>5 DEF StandingInv, StatsComplete
<1> QED
  BY <1>6, <1>7, <1>8, <1>9, <1>10, <1>11 DEF StandingInv

\* The statistics are stored as they were loaded and one more.
LEMMA SaveCountedKeeps ==
  ASSUME StandingInv, NEW h \in StandingHandlers, SaveCounted(h)
  PROVE  StandingInv'
<1> DEFINE l == playing[h].loaded
           c == Tallied(l)
<1>1. card \in Cards /\ l \in Cards /\ card.meterAt <= moment /\ l.meterAt <= moment
  BY DEF StandingInv, CardsTyped
<1>2. /\ c \in Cards /\ c.meterAt = l.meterAt /\ c.meter = l.meter /\ c.fails = l.fails /\ c.last = l.last
      /\ c.stats = l.stats + 1
  BY <1>1 DEF Tallied, Cards
<1>3. /\ card' = Saved(l, c) /\ overwrote' = (overwrote \/ card # l) /\ completed' = completed + 1
      /\ playing' = [playing EXCEPT ![h] = Absent0]
      /\ UNCHANGED <<stamps, streak, moment, runs, row, earned, blended>>
  BY DEF SaveCounted
<1> HIDE DEF c
<1>4. /\ card' \in Cards /\ card'.meterAt <= moment /\ (card = l => card' = c)
      /\ card'.fails = card.fails /\ card'.last = card.last
  BY <1>1, <1>2, <1>3, SavedFields
<1>5. CardsTyped'
  BY <1>1, <1>3, <1>4, AbsentTyped DEF StandingInv, CardsTyped, TimesTyped
<1>6. RowsTyped' /\ StreakEarned'
  BY <1>3 DEF StandingInv, RowsTyped, StreakEarned
<1>7. TimesTyped'
  <2>1. overwrote' \in BOOLEAN
    BY <1>3, Zenon
  <2> QED
    BY <2>1, <1>3 DEF StandingInv, TimesTyped
<1>8. ASSUME ~overwrote' PROVE card = l /\ ~overwrote /\ card' = c
  BY <1>3, <1>4, <1>8
<1>9. MeterSoFar'
  BY <1>2, <1>3, <1>8 DEF StandingInv, MeterSoFar
<1>10. ResultsAgree'
  BY <1>3, <1>4 DEF StandingInv, ResultsAgree
<1>11. StatsComplete'
  BY <1>2, <1>3, <1>8 DEF StandingInv, StatsComplete
<1> QED
  BY <1>5, <1>6, <1>7, <1>9, <1>10, <1>11 DEF StandingInv

LEMMA StandingKept ==
  ASSUME StandingInv, [StandingNext]_standingVars
  PROVE  StandingInv'
<1>1. CASE UNCHANGED standingVars
  <2>1. UNCHANGED <<stamps, card, streak, playing, moment, runs, row, earned, completed, overwrote, blended>>
    BY <1>1 DEF standingVars
  <2>2. CardsTyped' /\ RowsTyped' /\ TimesTyped'
    BY <2>1 DEF StandingInv, CardsTyped, RowsTyped, TimesTyped
  <2> QED
    BY <2>1, <2>2 DEF StandingInv, MeterSoFar, StreakEarned, ResultsAgree, StatsComplete
<1>2. ASSUME NEW h \in StandingHandlers, Begs(h) \/ Works(h) \/ Fishes(h) \/ Mines(h) \/ Hunts(h)
      PROVE  StandingInv'
  <2>1. \E d \in Domains : BeginRun(h, d)
    BY <1>2 DEF Begs, Works, Fishes, Mines, Hunts, Domains, Timed, Gather
  <2> QED
    BY <2>1, BeginRunKeeps
<1>3. ASSUME NEW h \in StandingHandlers, GetAccount(h) PROVE StandingInv'
  <2> DEFINE new == IF DecayedMeter(card) # card.meter
                    THEN [playing[h] EXCEPT !.at = "decayed", !.loaded = card] ELSE Absent0
  <2>1. /\ UNCHANGED <<card, stamps, streak, row, earned, completed, overwrote, blended, moment>>
        /\ runs' = runs \/ (runs < Len(Asked) /\ runs' = runs + 1)
        /\ playing' = [playing EXCEPT ![h] = new]
    BY <1>3 DEF GetAccount, Ghosts
  <2>2. stamps' \in [Domains -> Int] /\ runs' \in 0 .. Len(Asked) /\ moment \in Nat
    <3>1. Len(Asked) \in Nat /\ MaxTime \in Nat
      BY StandingAssumption DEF StandingAssumption
    <3> QED
      BY <3>1, <2>1 DEF StandingInv, TimesTyped
  <2>3. /\ new \in [at : Places, domain : Domains \cup {"none"}, loaded : Cards, won : BOOLEAN]
        /\ new.loaded.meterAt <= moment /\ new.at \in {"decayed", "free"}
    <3>1. card \in Cards /\ card.meterAt <= moment
          /\ playing[h] \in [at : Places, domain : Domains \cup {"none"}, loaded : Cards, won : BOOLEAN]
      BY DEF StandingInv, CardsTyped
    <3>2. [playing[h] EXCEPT !.at = "decayed", !.loaded = card]
            \in [at : Places, domain : Domains \cup {"none"}, loaded : Cards, won : BOOLEAN]
          /\ [playing[h] EXCEPT !.at = "decayed", !.loaded = card].loaded = card
          /\ [playing[h] EXCEPT !.at = "decayed", !.loaded = card].at = "decayed"
      BY <3>1 DEF Places
    <3> QED
      BY <3>1, <3>2, <2>2, AbsentTyped
  <2> HIDE DEF new
  <2> QED
    BY <2>1, <2>2, <2>3, GoesKeep
<1>4. ASSUME NEW h \in StandingHandlers, StandingFails(h) PROVE StandingInv'
  <2>1. /\ UNCHANGED <<card, stamps, streak, row, earned, completed, overwrote, blended, moment, runs>>
        /\ playing' = [playing EXCEPT ![h] = Absent0]
    BY <1>4 DEF StandingFails, Ghosts
  <2>2. stamps' \in [Domains -> Int] /\ runs' \in 0 .. Len(Asked) /\ 0 <= moment
    BY <2>1 DEF StandingInv, TimesTyped
  <2> QED
    BY <2>1, <2>2, AbsentTyped, GoesKeep
<1>5. CASE StandingTick
  <2>1. /\ UNCHANGED <<card, stamps, streak, playing, row, earned, completed, overwrote, blended, runs>>
        /\ moment' = moment + 1 /\ moment < MaxTime
    BY <1>5 DEF StandingTick, Ghosts
  <2>2. MaxTime \in Nat /\ moment \in Nat
    BY StandingAssumption DEF StandingAssumption, StandingInv, TimesTyped
  <2>3. CardsTyped'
    <3>1. \A c \in Cards : c.meterAt \in Nat
      BY DEF Cards
    <3>2. \A h \in StandingHandlers : playing[h].loaded \in Cards
      BY DEF StandingInv, CardsTyped
    <3>3. card'.meterAt <= moment' /\ \A h \in StandingHandlers : playing'[h].loaded.meterAt <= moment'
      BY <3>1, <3>2, <2>1, <2>2 DEF StandingInv, CardsTyped
    <3> QED
      BY <3>3, <2>1 DEF StandingInv, CardsTyped
  <2>4. TimesTyped' /\ RowsTyped'
    BY <2>1, <2>2 DEF StandingInv, TimesTyped, RowsTyped
  <2> QED
    BY <2>1, <2>3, <2>4 DEF StandingInv, MeterSoFar, StreakEarned, ResultsAgree, StatsComplete
<1>6. ASSUME NEW h \in StandingHandlers, LoadToCount(h) PROVE StandingInv'
  <2>1. /\ UNCHANGED <<card, stamps, streak, row, earned, completed, overwrote, blended, moment>>
        /\ runs < Len(Asked) /\ runs' = runs + 1
        /\ \E to \in {"counting", "decaying"} :
             playing' = [playing EXCEPT ![h].at = to, ![h].loaded = card]
    BY <1>6 DEF LoadToCount, Ghosts
  <2>2. PICK to \in {"counting", "decaying"} : playing' = [playing EXCEPT ![h].at = to, ![h].loaded = card]
    BY <2>1
  <2> DEFINE new == [playing[h] EXCEPT !.at = to, !.loaded = card]
  <2>3. stamps' \in [Domains -> Int] /\ runs' \in 0 .. Len(Asked)
    <3>1. Len(Asked) \in Nat
      BY StandingAssumption DEF StandingAssumption
    <3> QED
      BY <3>1, <2>1 DEF StandingInv, TimesTyped
  <2>4. /\ new \in [at : Places, domain : Domains \cup {"none"}, loaded : Cards, won : BOOLEAN]
        /\ new.at = to /\ new.loaded = card
    BY DEF StandingInv, CardsTyped, Places
  <2>5. playing' = [playing EXCEPT ![h] = new] /\ card.meterAt <= moment
    BY <2>2 DEF StandingInv, CardsTyped
  <2> HIDE DEF new
  <2> QED
    BY <2>1, <2>3, <2>4, <2>5, GoesKeep
<1> QED
  BY <1>1, <1>2, <1>3, <1>4, <1>5, <1>6, RunEndsKeep, NoteKeeps, SaveDecayedKeeps, SaveCountedKeeps DEF StandingNext

LEMMA StandingImplies ==
  ASSUME StandingInv
  PROVE  StandingHolds /\ StandingTypeOK
<1>a. Full \in Nat /\ Decay \in Nat /\ DayTicks \in Nat \ {0} /\ MaxTime \in Nat
  BY StandingAssumption DEF StandingAssumption
<1>1. card \in Cards /\ card.meterAt \in Nat /\ card.meterAt <= moment /\ moment \in Nat /\ earned \in Nat
      /\ card.meter \in Nat
  BY <1>a DEF StandingInv, CardsTyped, TimesTyped, Cards
<1>2. MeterEarned
  <2> DEFINE x == Decay * (card.meterAt \div DayTicks)
             z == Decay * (moment \div DayTicks)
  <2>1. x <= z /\ x \in Nat /\ z \in Nat
    BY <1>1, <1>a, DaysAdd
  <2>2. ~overwrote => card.meter <= earned /\ card.meter >= earned - x
    BY DEF StandingInv, MeterSoFar
  <2> HIDE DEF x, z
  <2>3. ~overwrote => card.meter <= earned /\ card.meter >= earned - z
    BY <2>1, <2>2, <1>1
  <2> QED
    BY <2>3 DEF MeterEarned, z
<1>3. StandingTypeOK
  BY <1>1 DEF StandingTypeOK, StandingInv, CardsTyped, RowsTyped, TimesTyped, Cards, Rows, Places
<1> QED
  BY <1>2, <1>3 DEF StandingInv, StandingHolds

-----------------------------------------------------------------------------
(* The role-playing game                                                   *)

\* The level of a profile stays the first.
Docs   == {p \in Profiles : p.level = 1}
Fights == [foe : Foes, hp : Nat, foeHp : Nat \ {0}]
Writes == [op : {"profile", "fight", "unfight", "lookup", "create"}, p : Docs,
           f : Fights \cup {NoFight}, what : {"nothing", "shown", "solved", "won", "begun"},
           name : Foes \cup EventNames \cup {"none"}]

\* What is left to write can be written.
Sound(w) ==
  /\ w \in Writes /\ (w.op = "fight" => w.f \in Fights)
  /\ w.what = "won" => w.name \in Foes
  /\ w.what = "solved" => w.name \in EventNames

Players ==
  {x \in [at : {"idle", "look", "write"}, cmd : Readers \cup Lookers \cup {"none"},
          arg : Foes \cup FarFoes \cup Moves \cup {"none"}, p : Docs,
          todo : Seq(Writes), first : BOOLEAN] :
     /\ x.at = "write" <=> x.todo # <<>>
     /\ x.at = "look" => x.cmd \in Lookers
     /\ \A i \in 1 .. Len(x.todo) : Sound(x.todo[i])}

RpgTyped ==
  /\ player \in Docs /\ fights \in Seq(Fights) /\ rpg \in [RpgHandlers -> Players]
  /\ paid \in [Foes -> Nat] /\ solved \in [EventNames -> Nat] /\ clock \in Nat /\ rpgFaults \in Nat

\* A profile that tells of no victory and no event.
Kept(p, q) == p.kills = q.kills /\ p.seen = q.seen

\* The writes of one command change the profile q in one way: by one victory, over a foe
\* that is not beaten and whose combat is deleted by then, or by one event, that is new.
Follows(t, q, clear) ==
  \A i \in 1 .. Len(t) :
    /\ t[i].op = "profile" =>
         /\ t[i].what # "begun"
         /\ \A j \in i + 1 .. Len(t) : t[j].op = "profile" /\ t[j].what = "nothing"
         /\ t[i].what \in {"nothing", "shown"} =>
              IF i > 1 /\ t[i-1].op = "profile" THEN Kept(t[i].p, t[i-1].p) ELSE Kept(t[i].p, q)
         /\ t[i].what = "won" =>
              /\ q.kills[t[i].name] = 0 /\ t[i].p.kills = [q.kills EXCEPT ![t[i].name] = @ + 1]
              /\ t[i].p.seen = q.seen
              /\ IF i = 1 THEN clear ELSE t[i-1].op = "unfight"
         /\ t[i].what = "solved" =>
              /\ t[i].name \notin q.seen /\ t[i].p.seen = q.seen \cup {t[i].name}
              /\ t[i].p.kills = q.kills
    /\ t[i].op = "fight" => /\ i = 1 /\ Len(t) = 2 /\ q.kills[t[1].f.foe] = 0
                            /\ t[2].op = "profile" /\ t[2].what = "nothing"

\* While one command runs at a time: a stored combat is with a foe that is not beaten, and a
\* foe that was paid for is, an event that was solved is seen.
Alone == \A g, h \in RpgHandlers : g = h \/ rpg[g].at = "idle" \/ rpg[h].at = "idle"

Settled ==
  /\ Len(fights) <= 1 /\ \A i \in 1 .. Len(fights) : player.kills[fights[i].foe] = 0
  /\ \A f \in Foes : paid[f] <= 1 /\ paid[f] <= player.kills[f]
  /\ \A e \in EventNames : solved[e] <= 1 /\ (e \notin player.seen => solved[e] = 0)

AtEase(x, q, clear) ==
  /\ x.at = "look" => Kept(x.p, q)
  /\ x.at = "write" => Follows(x.todo, q, clear) /\ (x.todo[1].op = "fight" => (x.first => clear))

Calm == ~together => /\ Alone /\ Settled
                     /\ \A h \in RpgHandlers : AtEase(rpg[h], player, fights = <<>>)

\* No profile that is left to write forgets the last hunt, and a new one is a cooldown later.
Later(t, from) ==
  /\ \A i \in 1 .. Len(t) : t[i].op = "profile" => t[i].p.hunted >= from
  /\ t[1].op = "fight" /\ t[1].what = "begun" /\ ~isMod => t[2].p.hunted >= from + Cooldown

Paced(x, from) == /\ x.at = "look" => x.p.hunted >= from
                  /\ x.at = "write" => Later(x.todo, from)

Saving(x) == x.at = "write" /\ x.todo[1].op = "profile"

Spaced ==
  ~together /\ rpgFaults = 0 =>
    /\ ~rushed /\ begun \in Int
    /\ \A h \in RpgHandlers : Paced(rpg[h], begun)
    /\ player.hunted >= begun \/ \E h \in RpgHandlers : Saving(rpg[h])

RpgInv == RpgTyped /\ Calm /\ Spaced

\* What the code needs of the game's numbers.
RpgNumbers ==
  /\ FoeHp \in Nat \ {0} /\ FoeXp \in Nat /\ BonusXp \in Nat /\ Heal \in Nat /\ Cooldown \in Nat \ {0}
  /\ EventXp \in [EventNames -> Nat] /\ Tutorial \subseteq EventNames
  /\ XpForLevel[1] \in Nat \ {0} /\ BaseHp \in Nat \ {0}

LEMMA RpgConstants == RpgNumbers
BY RpgAssumption DEF RpgAssumption, RpgNumbers, EventNames

LEMMA NewDocs ==
  /\ NewProfile \in Docs /\ NoProfile \in Docs
  /\ NoProfile.kills = NewProfile.kills /\ NoProfile.seen = {} /\ NewProfile.seen = {}
  /\ NewProfile.kills = [f \in Foes |-> 0] /\ NoProfile.hunted = NewProfile.hunted
  /\ NewProfile.hunted = -Cooldown
<1>1. BaseHp \in Nat /\ Cooldown \in Nat
  BY RpgConstants DEF RpgNumbers
<1>2. NewProfile \in Docs
  BY <1>1 DEF NewProfile, Docs, Profiles
<1>3. NoProfile \in Docs /\ NoProfile.kills = NewProfile.kills /\ NoProfile.seen = NewProfile.seen
      /\ NoProfile.hunted = NewProfile.hunted
  BY <1>2 DEF NoProfile, Docs, Profiles
<1>4. NewProfile.kills = [f \in Foes |-> 0] /\ NewProfile.seen = {} /\ NewProfile.hunted = -Cooldown
  BY DEF NewProfile
<1> QED
  BY <1>2, <1>3, <1>4

\* What is written, field by field.
LEMMA WriteFields ==
  /\ \A p, what, name : /\ SaveAs(p, what, name).op = "profile" /\ SaveAs(p, what, name).p = p
                        /\ SaveAs(p, what, name).what = what /\ SaveAs(p, what, name).name = name
  /\ \A p : SaveProfile(p) = SaveAs(p, "nothing", "none")
  /\ \A f : /\ SaveFight(f).op = "fight" /\ SaveFight(f).f = f /\ SaveFight(f).what = "nothing"
            /\ BeginFight(f).op = "fight" /\ BeginFight(f).f = f /\ BeginFight(f).what = "begun"
  /\ \A op : Plain(op).op = op /\ Plain(op).what = "nothing"
<1>1. \A p, what, name : /\ SaveAs(p, what, name).op = "profile" /\ SaveAs(p, what, name).p = p
                         /\ SaveAs(p, what, name).what = what /\ SaveAs(p, what, name).name = name
  BY DEF SaveAs
<1>2. \A p : SaveProfile(p) = SaveAs(p, "nothing", "none")
  BY DEF SaveProfile
<1>3. \A f : SaveFight(f).op = "fight" /\ SaveFight(f).f = f /\ SaveFight(f).what = "nothing"
  BY DEF SaveFight, SaveAs
<1>4. \A f : BeginFight(f).op = "fight" /\ BeginFight(f).f = f /\ BeginFight(f).what = "begun"
  BY DEF BeginFight, SaveFight, SaveAs
<1>5. \A op : Plain(op).op = op /\ Plain(op).what = "nothing"
  BY DEF Plain, SaveAs
<1> QED
  BY <1>1, <1>2, <1>3, <1>4, <1>5

LEMMA WritesSound ==
  /\ \A p \in Docs, what \in {"nothing", "shown"}, name \in Foes \cup EventNames \cup {"none"} :
       Sound(SaveAs(p, what, name))
  /\ \A p \in Docs : /\ Sound(SaveProfile(p))
                     /\ \A f \in Foes : Sound(SaveAs(p, "won", f))
                     /\ \A e \in EventNames : Sound(SaveAs(p, "solved", e))
  /\ \A f \in Fights : Sound(SaveFight(f)) /\ Sound(BeginFight(f))
  /\ \A op \in {"unfight", "lookup", "create"} : Sound(Plain(op))
<1>1. \A p \in Docs, what \in {"nothing", "shown", "solved", "won", "begun"},
         name \in Foes \cup EventNames \cup {"none"} : SaveAs(p, what, name) \in Writes
  BY DEF SaveAs, Writes
<1>2. SaveAs(NoProfile, "nothing", "none") \in Writes
  BY <1>1, NewDocs
<1>3. \A f \in Fights : SaveFight(f) \in Writes
  BY <1>2 DEF SaveFight, Writes
<1>4. \A f \in Fights : BeginFight(f) \in Writes
  BY <1>3 DEF BeginFight, Writes
<1>5. \A op \in {"unfight", "lookup", "create"} : Plain(op) \in Writes
  BY <1>2 DEF Plain, Writes
<1> QED
  BY <1>1, <1>3, <1>4, <1>5, WriteFields DEF Sound

\* Experience changes no victory, no event and no hunt.
LEMMA AddXpKeeps ==
  ASSUME NEW p \in Docs, NEW amount \in Nat
  PROVE  AddXp(p, amount) \in Docs /\ Kept(AddXp(p, amount), p) /\ AddXp(p, amount).hunted = p.hunted
         /\ AddXp(p, amount).stage = p.stage
<1> DEFINE total == p.xp + amount
           n     == total \div XpForLevel[p.level]
           hp    == IF n > 0 THEN BaseHp + p.rose + n ELSE p.hp
           left  == total % XpForLevel[p.level]
           rose  == p.rose + n
<1>1. p.level = 1 /\ p \in Profiles /\ p.xp \in Nat /\ p.rose \in Nat /\ p.hp \in Nat
  BY DEF Docs, Profiles
<1>2. XpForLevel[1] \in Nat \ {0} /\ BaseHp \in Nat
  BY RpgConstants DEF RpgNumbers
<1>3. n \in Nat /\ left \in Nat
  <2>1. \A a \in Nat, d \in Nat \ {0} : a \div d \in Nat /\ a % d \in Nat
    OBVIOUS
  <2>2. total \in Nat
    BY <1>1
  <2> QED
    BY <2>1, <2>2, <1>1, <1>2
<1>4. hp \in Nat /\ rose \in Nat
  BY <1>1, <1>2, <1>3
<1>5. AddXp(p, amount) = [p EXCEPT !.xp = left, !.rose = rose, !.hp = hp]
  BY DEF AddXp
<1> HIDE DEF left, rose, hp
<1>6. /\ AddXp(p, amount).level = p.level /\ AddXp(p, amount).kills = p.kills
      /\ AddXp(p, amount).seen = p.seen /\ AddXp(p, amount).hunted = p.hunted
      /\ AddXp(p, amount).stage = p.stage
  BY <1>1, <1>5 DEF Profiles
<1>7. AddXp(p, amount) \in Profiles
  BY <1>1, <1>3, <1>4, <1>5 DEF Profiles
<1> QED
  BY <1>1, <1>6, <1>7 DEF Docs, Kept

\* The writes of a command that has read the profile p and met the combat f: they follow if
\* f is with a foe that is not beaten.
Good(t, p, f) ==
  /\ t \in Seq(Writes) /\ t # <<>> /\ \A i \in 1 .. Len(t) : Sound(t[i])
  /\ Later(t, p.hunted)
  /\ (f # NoFight => p.kills[f.foe] = 0) => \A clear : Follows(t, p, clear)

\* A profile, written alone.
LEMMA OneWrite ==
  ASSUME NEW p, NEW f, NEW w, Sound(w), w.op = "profile", w.p.hunted >= p.hunted,
         \/ w.what \in {"nothing", "shown"} /\ Kept(w.p, p)
         \/ /\ w.what = "solved" /\ w.name \notin p.seen /\ w.p.seen = p.seen \cup {w.name}
            /\ w.p.kills = p.kills
  PROVE  Good(<<w>>, p, f)
<1> DEFINE t == <<w>>
<1>1. t \in Seq(Writes) /\ t # <<>> /\ Len(t) = 1 /\ t[1] = w /\ \A i \in 1 .. Len(t) : i = 1
  BY DEF Sound
<1> HIDE DEF t
<1>2. Later(t, p.hunted)
  BY <1>1 DEF Later
<1>3. \A clear : Follows(t, p, clear)
  BY <1>1 DEF Follows
<1> QED
  BY <1>1, <1>2, <1>3 DEF Good, t

\* A combat that is written or deleted, and then the profile.
LEMMA TwoWrites ==
  ASSUME NEW p, NEW f, NEW a, NEW w, Sound(a), Sound(w), w.op = "profile", w.p.hunted >= p.hunted,
         \/ w.what = "nothing" /\ Kept(w.p, p)
         \/ /\ w.what = "won" /\ a.op = "unfight" /\ w.p.seen = p.seen /\ f # NoFight /\ w.name = f.foe
            /\ w.p.kills = [p.kills EXCEPT ![w.name] = @ + 1],
         \/ a.op = "unfight"
         \/ /\ a.op = "fight"
            /\ f # NoFight => a.f.foe = f.foe
            /\ f = NoFight => p.kills[a.f.foe] = 0
            /\ a.what = "begun" /\ ~isMod => w.p.hunted >= p.hunted + Cooldown
  PROVE  Good(<<a, w>>, p, f)
<1> DEFINE t == <<a, w>>
<1>1. t \in Seq(Writes) /\ t # <<>> /\ Len(t) = 2 /\ t[1] = a /\ t[2] = w /\ 1 .. Len(t) = {1, 2}
  BY DEF Sound
<1> HIDE DEF t
<1>2. Later(t, p.hunted)
  BY <1>1 DEF Later
<1>3. ASSUME f # NoFight => p.kills[f.foe] = 0, NEW clear PROVE Follows(t, p, clear)
  BY <1>1, <1>3 DEF Follows
<1>4. (f # NoFight => p.kills[f.foe] = 0) => \A clear : Follows(t, p, clear)
  BY <1>3
<1>5. \A i \in 1 .. Len(t) : Sound(t[i])
  BY <1>1
<1> QED
  BY <1>1, <1>2, <1>4, <1>5 DEF Good, t

\* The zone is cleared: the profile is written once more, with the bonus.
LEMMA ThreeWrites ==
  ASSUME NEW p, NEW f, NEW a, NEW w, NEW v, Sound(a), Sound(w), Sound(v),
         a.op = "unfight", w.op = "profile", v.op = "profile", v.what = "nothing",
         w.p.hunted >= p.hunted, v.p.hunted >= p.hunted, Kept(v.p, w.p),
         \/ w.what = "nothing" /\ Kept(w.p, p)
         \/ /\ w.what = "won" /\ w.p.seen = p.seen /\ f # NoFight /\ w.name = f.foe
            /\ w.p.kills = [p.kills EXCEPT ![w.name] = @ + 1]
  PROVE  Good(<<a, w, v>>, p, f)
<1> DEFINE t == <<a, w, v>>
<1>1. t \in Seq(Writes) /\ t # <<>> /\ Len(t) = 3 /\ t[1] = a /\ t[2] = w /\ t[3] = v /\ 1 .. Len(t) = {1, 2, 3}
  BY DEF Sound
<1> HIDE DEF t
<1>2. Later(t, p.hunted)
  BY <1>1 DEF Later
<1>3. ASSUME f # NoFight => p.kills[f.foe] = 0, NEW clear PROVE Follows(t, p, clear)
  BY <1>1, <1>3 DEF Follows
<1>4. (f # NoFight => p.kills[f.foe] = 0) => \A clear : Follows(t, p, clear)
  BY <1>3
<1>5. \A i \in 1 .. Len(t) : Sound(t[i])
  BY <1>1
<1> QED
  BY <1>1, <1>2, <1>4, <1>5 DEF Good, t

\* What is in a profile.
LEMMA DocFields ==
  ASSUME NEW p \in Docs
  PROVE  /\ p.hp \in Nat /\ p.rose \in Nat /\ p.rations \in Nat /\ p.xp \in Nat /\ p.hunted \in Int
         /\ p.level = 1 /\ p.kills \in [Foes -> Nat] /\ p.seen \subseteq EventNames
         /\ FullHp(p) \in Nat /\ Kept(p, p) /\ p.hunted >= p.hunted
<1>1. /\ p.hp \in Nat /\ p.rose \in Nat /\ p.rations \in Nat /\ p.xp \in Nat /\ p.hunted \in Int
      /\ p.level = 1 /\ p.kills \in [Foes -> Nat] /\ p.seen \subseteq EventNames
  BY DEF Docs, Profiles
<1>2. FullHp(p) \in Nat /\ Kept(p, p)
  BY <1>1, RpgConstants DEF FullHp, RpgNumbers, Kept
<1> QED
  BY <1>1, <1>2

\* The profiles that commands make.
LEMMA HealedDoc ==
  ASSUME NEW p \in Docs, NEW n \in Nat
  PROVE  [p EXCEPT !.hp = n] \in Docs /\ Kept([p EXCEPT !.hp = n], p) /\ [p EXCEPT !.hp = n].hunted = p.hunted
BY DEF Docs, Profiles, Kept

LEMMA StagedDoc ==
  ASSUME NEW p \in Docs, NEW s \in {"personality_test", "awakening", "awakened"}
  PROVE  /\ [p EXCEPT !.stage = s] \in Docs /\ Kept([p EXCEPT !.stage = s], p)
         /\ [p EXCEPT !.stage = s].hunted = p.hunted
BY DEF Docs, Profiles, Kept

LEMMA FedDoc ==
  ASSUME NEW p \in Docs, NEW m \in Nat, NEW n \in Nat
  PROVE  /\ [p EXCEPT !.rations = m, !.hp = n] \in Docs
         /\ Kept([p EXCEPT !.rations = m, !.hp = n], p)
         /\ [p EXCEPT !.rations = m, !.hp = n].hunted = p.hunted
BY DEF Docs, Profiles, Kept

LEMMA BeatenDoc ==
  ASSUME NEW p \in Docs, NEW m \in Nat, NEW n \in Nat
  PROVE  /\ [p EXCEPT !.xp = m, !.hp = n] \in Docs
         /\ Kept([p EXCEPT !.xp = m, !.hp = n], p)
         /\ [p EXCEPT !.xp = m, !.hp = n].hunted = p.hunted
BY DEF Docs, Profiles, Kept

LEMMA HuntingDoc ==
  ASSUME NEW p \in Docs, NEW n \in Int
  PROVE  /\ [p EXCEPT !.hunted = n] \in Docs /\ Kept([p EXCEPT !.hunted = n], p)
         /\ [p EXCEPT !.hunted = n].hunted = n
BY DEF Docs, Profiles, Kept

LEMMA ThirdJoins ==
  ASSUME NEW S, NEW a \in S, NEW w \in S, NEW v \in S
  PROVE  <<a, w>> \o <<v>> = <<a, w, v>> /\ <<a, w>> \o <<>> = <<a, w>>
<1>1. <<a, w>> \in Seq(S) /\ <<v>> \in Seq(S) /\ <<a, w, v>> \in Seq(S) /\ <<>> \in Seq(S)
  OBVIOUS
<1>2. <<a, w>> \o <<>> = <<a, w>>
  BY <1>1
<1>3. <<a, w>> \o <<v>> = <<a, w, v>>
  <2> DEFINE t == <<a, w>> \o <<v>>
             u == <<a, w, v>>
  <2>1. t \in Seq(S) /\ Len(t) = 3 /\ t[1] = a /\ t[2] = w /\ t[3] = v
    BY <1>1, ConcatProperties
  <2>2. u \in Seq(S) /\ Len(u) = 3 /\ u[1] = a /\ u[2] = w /\ u[3] = v
    OBVIOUS
  <2> HIDE DEF t, u
  <2>3. \A i \in 1 .. 3 : t[i] = u[i]
    <3>1. \A i \in 1 .. 3 : i = 1 \/ i = 2 \/ i = 3
      OBVIOUS
    <3> QED
      BY <2>1, <2>2, <3>1
  <2>4. t = u
    BY <2>1, <2>2, <2>3, SeqEqual
  <2> QED
    BY <2>4 DEF t, u
<1> QED
  BY <1>2, <1>3

LEMMA OfTwo ==
  ASSUME NEW a \in Nat, NEW b \in Int
  PROVE  (b \in Nat => Min({a, b}) \in Nat) /\ Max({a, b}) \in Nat
<1>1. \E x \in {a, b} : \A y \in {a, b} : x <= y
  OBVIOUS
<1>2. \E x \in {a, b} : \A y \in {a, b} : x >= y
  OBVIOUS
<1>3. Min({a, b}) \in {a, b}
  BY <1>1 DEF Min
<1>4. Max({a, b}) \in {a, b} /\ Max({a, b}) >= a
  BY <1>2 DEF Max
<1> QED
  BY <1>3, <1>4

\* The commands that read the profile only.
LEMMA ReadersFollow ==
  ASSUME NEW p \in Docs, NEW cmd \in Readers, NEW todo \in Plans(cmd, p)
  PROVE  todo = <<>> \/ Good(todo, p, NoFight)
<1> USE WritesSound, WriteFields
<1>t. /\ p.hp \in Nat /\ p.rations \in Nat /\ p.hunted \in Int /\ p.seen \subseteq EventNames
      /\ FullHp(p) \in Nat /\ p.kills \in [Foes -> Nat]
  BY DocFields
<1>p. ASSUME NEW q \in Docs, Kept(q, p), q.hunted = p.hunted
      PROVE  Good(<<SaveProfile(q)>>, p, NoFight)
  <2> DEFINE w == SaveProfile(q)
  <2>1. Sound(w) /\ w.op = "profile" /\ w.what = "nothing" /\ w.p = q
    OBVIOUS
  <2> HIDE DEF w
  <2>2. Good(<<w>>, p, NoFight)
    BY <2>1, <1>p, <1>t, OneWrite
  <2> QED
    BY <2>2 DEF w
<1>1. CASE cmd = "start"
  <2>1. todo = <<>> \/ todo = <<Plain("lookup"), Plain("create")>>
    BY <1>1 DEF Plans, Start, Nothing
  <2> DEFINE a == Plain("lookup")
             b == Plain("create")
             t == <<a, b>>
  <2>2. Sound(a) /\ Sound(b) /\ a.op = "lookup" /\ b.op = "create"
    OBVIOUS
  <2> HIDE DEF a, b
  <2>3. t \in Seq(Writes) /\ t # <<>> /\ Len(t) = 2 /\ t[1] = a /\ t[2] = b /\ 1 .. Len(t) = {1, 2}
    BY <2>2 DEF Sound
  <2> HIDE DEF t
  <2>4. Later(t, p.hunted) /\ \A clear : Follows(t, p, clear)
    BY <2>2, <2>3 DEF Later, Follows
  <2>5. Good(t, p, NoFight)
    BY <2>2, <2>3, <2>4 DEF Good
  <2> QED
    BY <2>1, <2>5 DEF t, a, b
<1>2. CASE cmd = "choose"
  <2>1. todo = <<>> \/ todo = <<SaveProfile(SetOrigin(p))>>
    BY <1>2 DEF Plans, Choose, Nothing
  <2> DEFINE q == [p EXCEPT !.stage = "personality_test"]
             r == [q EXCEPT !.hp = FullHp(p)]
  <2>2. SetOrigin(p) = r
    BY DEF SetOrigin
  <2>3. q \in Docs /\ Kept(q, p) /\ q.hunted = p.hunted
    BY StagedDoc
  <2> HIDE DEF q
  <2>4. r \in Docs /\ Kept(r, q) /\ r.hunted = q.hunted
    BY <2>3, <1>t, HealedDoc
  <2> HIDE DEF r
  <2>5. Good(<<SaveProfile(r)>>, p, NoFight)
    BY <2>3, <2>4, <1>p DEF Kept
  <2> QED
    BY <2>1, <2>2, <2>5
<1>3. CASE cmd = "pick"
  <2>1. todo = <<>> \/ \E e \in FirstOf(Unseen(p)) : \E q \in Outcomes(p, e) : todo = <<SaveAs(q, "solved", e)>>
    BY <1>3 DEF Plans, Pick, Nothing
  <2>2. ASSUME NEW e \in FirstOf(Unseen(p)), NEW q \in Outcomes(p, e), todo = <<SaveAs(q, "solved", e)>>
        PROVE  Good(todo, p, NoFight)
    <3>1. e \in EventNames /\ e \notin p.seen
      BY DEF FirstOf, Unseen
    <3> DEFINE then == [p EXCEPT !.seen = @ \cup {e}]
               hurt == IF then.hp > 0 THEN then.hp - 1 ELSE 0
    <3>2. then \in Docs /\ then.seen = p.seen \cup {e} /\ then.kills = p.kills /\ then.hunted = p.hunted
      BY <3>1 DEF Docs, Profiles
    <3>3. q = AddXp(then, EventXp[e]) \/ q = [then EXCEPT !.hp = hurt]
      BY DEF Outcomes
    <3>4. EventXp[e] \in Nat
      BY <3>1, RpgConstants DEF RpgNumbers
    <3> HIDE DEF then
    <3>5. hurt \in Nat
      <4>1. then.hp \in Nat
        BY <3>2 DEF Docs, Profiles
      <4> QED
        BY <4>1
    <3> HIDE DEF hurt
    <3>6. q \in Docs /\ Kept(q, then) /\ q.hunted = then.hunted
      <4>1. CASE q = AddXp(then, EventXp[e])
        BY <4>1, <3>2, <3>4, AddXpKeeps
      <4>2. CASE q = [then EXCEPT !.hp = hurt]
        BY <4>2, <3>2, <3>5, HealedDoc
      <4> QED
        BY <4>1, <4>2, <3>3
    <3> DEFINE w == SaveAs(q, "solved", e)
    <3>7. Sound(w) /\ w.op = "profile" /\ w.what = "solved" /\ w.p = q /\ w.name = e
      BY <3>1, <3>6
    <3> HIDE DEF w
    <3>8. Good(<<w>>, p, NoFight)
      BY <3>1, <3>2, <3>6, <3>7, <1>t, OneWrite DEF Kept
    <3> QED
      BY <3>8, <2>2 DEF w
  <2> QED
    BY <2>1, <2>2
<1>4. CASE cmd = "rest"
  <2>1. todo = <<>> \/ todo = <<SaveProfile([p EXCEPT !.hp = FullHp(p)])>>
    BY <1>4 DEF Plans, Rest, Nothing
  <2>2. [p EXCEPT !.hp = FullHp(p)] \in Docs /\ Kept([p EXCEPT !.hp = FullHp(p)], p)
        /\ [p EXCEPT !.hp = FullHp(p)].hunted = p.hunted
    BY <1>t, HealedDoc
  <2>3. Good(<<SaveProfile([p EXCEPT !.hp = FullHp(p)])>>, p, NoFight)
    BY <2>2, <1>p
  <2> QED
    BY <2>1, <2>3
<1>5. CASE cmd = "use"
  <2>1. todo = <<>> \/ \E n \in {Min({FullHp(p), p.hp + Heal}), Max({0, p.hp - 1})} :
                         todo = <<SaveProfile([p EXCEPT !.rations = @ - 1, !.hp = n])>> /\ p.rations # 0
    BY <1>5 DEF Plans, Use, Nothing
  <2>2. ASSUME NEW n \in {Min({FullHp(p), p.hp + Heal}), Max({0, p.hp - 1})}, p.rations # 0,
               todo = <<SaveProfile([p EXCEPT !.rations = @ - 1, !.hp = n])>>
        PROVE  Good(todo, p, NoFight)
    <3>1. n \in Nat
      <4>1. p.hp + Heal \in Nat /\ p.hp + Heal \in Int /\ p.hp - 1 \in Int /\ 0 \in Nat
        BY <1>t, RpgConstants DEF RpgNumbers
      <4>2. Min({FullHp(p), p.hp + Heal}) \in Nat
        BY <4>1, <1>t, OfTwo, Zenon
      <4>3. Max({0, p.hp - 1}) \in Nat
        BY <4>1, OfTwo, Zenon
      <4> QED
        BY <4>2, <4>3
    <3> DEFINE m == p.rations - 1
               q == [p EXCEPT !.rations = m, !.hp = n]
    <3>2. m \in Nat
      BY <2>2, <1>t
    <3>3. todo = <<SaveProfile(q)>>
      BY <2>2
    <3> HIDE DEF m
    <3>4. q \in Docs /\ Kept(q, p) /\ q.hunted = p.hunted
      <4> HIDE WritesSound, WriteFields
      <4> QED
        BY <3>1, <3>2, FedDoc
    <3> HIDE DEF q
    <3> QED
      BY <3>3, <3>4, <1>p
  <2> QED
    BY <2>1, <2>2
<1> QED
  BY <1>1, <1>2, <1>3, <1>4, <1>5 DEF Readers

\* The end of a combat that is won: the foe is one more victory, and may clear the zone.
LEMMA VictoryFollows ==
  ASSUME NEW p \in Docs, NEW f \in Fights, NEW todo \in Victory(p, f.foe)
  PROVE  Good(todo, p, f)
<1> DEFINE foe == f.foe
           x == AddXp(p, FoeXp)
<1>1. foe \in Foes /\ f # NoFight /\ p.hunted \in Int /\ p.kills \in [Foes -> Nat]
  <2>1. foe \in Foes /\ f.foeHp # 0
    BY DEF Fights
  <2>2. f # NoFight
    BY <2>1 DEF NoFight
  <2> QED
    BY <2>1, <2>2, DocFields
<1>2. x \in Docs /\ x.kills = p.kills /\ x.seen = p.seen /\ x.hunted = p.hunted
  BY AddXpKeeps, RpgConstants DEF RpgNumbers, Kept
<1> HIDE DEF x
<1>3. \E n \in {0, 1} : \E q : /\ q = [x EXCEPT !.kills[foe] = @ + 1, !.rations = @ + n]
                               /\ todo = <<Plain("unfight"), SaveAs(q, "won", foe)>>
                                    \o (IF ZoneCleared(q) THEN <<SaveProfile(AddXp(q, BonusXp))>> ELSE <<>>)
  BY DEF Victory, x
<1>4. PICK n \in {0, 1} : \E q : /\ q = [x EXCEPT !.kills[foe] = @ + 1, !.rations = @ + n]
                                 /\ todo = <<Plain("unfight"), SaveAs(q, "won", foe)>>
                                      \o (IF ZoneCleared(q) THEN <<SaveProfile(AddXp(q, BonusXp))>> ELSE <<>>)
  BY <1>3
<1>q. PICK q : /\ q = [x EXCEPT !.kills[foe] = @ + 1, !.rations = @ + n]
               /\ todo = <<Plain("unfight"), SaveAs(q, "won", foe)>>
                    \o (IF ZoneCleared(q) THEN <<SaveProfile(AddXp(q, BonusXp))>> ELSE <<>>)
  BY <1>4
<1>5. /\ q \in Docs /\ q.seen = p.seen /\ q.hunted = p.hunted
      /\ q.kills = [p.kills EXCEPT ![foe] = @ + 1]
  <2> DEFINE k == [x.kills EXCEPT ![foe] = @ + 1]
             r == x.rations + n
  <2>1. q = [x EXCEPT !.kills = k, !.rations = r]
    <3>1. q = [x EXCEPT !.kills[foe] = @ + 1, !.rations = @ + n]
      BY <1>q
    <3> QED
      BY <3>1, <1>2 DEF Docs, Profiles
  <2>2. k \in [Foes -> Nat] /\ k = [p.kills EXCEPT ![foe] = @ + 1]
    BY <1>1, <1>2
  <2>3. r \in Nat
    BY <1>2, DocFields
  <2> HIDE DEF k, r
  <2> QED
    BY <2>1, <2>2, <2>3, <1>2 DEF Docs, Profiles
<1> DEFINE a == Plain("unfight")
           w == SaveAs(q, "won", foe)
           v == SaveProfile(AddXp(q, BonusXp))
<1>6. Sound(a) /\ a.op = "unfight" /\ Sound(w) /\ w.op = "profile" /\ w.what = "won" /\ w.p = q /\ w.name = foe
  BY <1>1, <1>5, WritesSound, WriteFields
<1>7. Sound(v) /\ v.op = "profile" /\ v.what = "nothing" /\ Kept(v.p, q) /\ v.p.hunted = q.hunted
  <2>1. BonusXp \in Nat
    BY RpgConstants DEF RpgNumbers
  <2>2. AddXp(q, BonusXp) \in Docs /\ Kept(AddXp(q, BonusXp), q) /\ AddXp(q, BonusXp).hunted = q.hunted
    BY <1>5, <2>1, AddXpKeeps
  <2> QED
    BY <2>2, WritesSound, WriteFields
<1>8. todo = <<a, w>> \o (IF ZoneCleared(q) THEN <<v>> ELSE <<>>)
  BY <1>q
<1> HIDE DEF a, w, v
<1>9. todo = <<a, w>> \/ todo = <<a, w, v>>
  <2>1. a \in Writes /\ w \in Writes /\ v \in Writes
    BY <1>6, <1>7 DEF Sound
  <2>2. <<a, w>> \o <<v>> = <<a, w, v>> /\ <<a, w>> \o <<>> = <<a, w>>
    BY <2>1, ThirdJoins
  <2>3. CASE ZoneCleared(q)
    BY <2>2, <2>3, <1>8
  <2>4. CASE ~ZoneCleared(q)
    BY <2>2, <2>4, <1>8
  <2> QED
    BY <2>3, <2>4
<1>10. Good(<<a, w>>, p, f)
  BY <1>1, <1>5, <1>6, TwoWrites
<1>11. Good(<<a, w, v>>, p, f)
  BY <1>1, <1>5, <1>6, <1>7, ThreeWrites
<1> QED
  BY <1>9, <1>10, <1>11

LEMMA DefeatFollows ==
  ASSUME NEW p \in Docs, NEW f \in Fights, NEW todo \in Defeat(p)
  PROVE  Good(todo, p, f)
<1> DEFINE b == Beaten(p)
           a == Plain("unfight")
           w == SaveProfile(b)
           v == SaveProfile(AddXp(b, BonusXp))
<1>1. b \in Docs /\ Kept(b, p) /\ b.hunted = p.hunted /\ p.hunted \in Int
  <2>1. (p.xp * 7) \div 10 \in Nat /\ (FullHp(p) * 3) \div 10 \in Nat /\ p.hunted \in Int
    BY DocFields
  <2> DEFINE m == (p.xp * 7) \div 10
             n == (FullHp(p) * 3) \div 10
  <2>2. b = [p EXCEPT !.xp = m, !.hp = n]
    BY DEF Beaten
  <2> HIDE DEF m, n, b
  <2>3. m \in Nat /\ n \in Nat
    BY <2>1 DEF m, n
  <2> QED
    BY <2>1, <2>2, <2>3, BeatenDoc
<1> HIDE DEF b
<1>2. Sound(a) /\ a.op = "unfight" /\ Sound(w) /\ w.op = "profile" /\ w.what = "nothing" /\ w.p = b
  BY <1>1, WritesSound, WriteFields
<1>3. Sound(v) /\ v.op = "profile" /\ v.what = "nothing" /\ Kept(v.p, b) /\ v.p.hunted = b.hunted
  <2>1. BonusXp \in Nat
    BY RpgConstants DEF RpgNumbers
  <2>2. AddXp(b, BonusXp) \in Docs /\ Kept(AddXp(b, BonusXp), b) /\ AddXp(b, BonusXp).hunted = b.hunted
    BY <1>1, <2>1, AddXpKeeps
  <2> QED
    BY <2>2, WritesSound, WriteFields
<1>4. todo = <<a, w>> \o (IF ZoneCleared(p) THEN <<v>> ELSE <<>>)
  BY DEF Defeat, b
<1> HIDE DEF a, w, v
<1>5. todo = <<a, w>> \/ todo = <<a, w, v>>
  <2>1. a \in Writes /\ w \in Writes /\ v \in Writes
    BY <1>2, <1>3 DEF Sound
  <2>2. <<a, w>> \o <<v>> = <<a, w, v>> /\ <<a, w>> \o <<>> = <<a, w>>
    BY <2>1, ThirdJoins
  <2>3. CASE ZoneCleared(p)
    BY <2>2, <2>3, <1>4
  <2>4. CASE ~ZoneCleared(p)
    BY <2>2, <2>4, <1>4
  <2> QED
    BY <2>3, <2>4
<1>k. w.p.hunted >= p.hunted /\ v.p.hunted >= p.hunted /\ Kept(w.p, p) /\ Kept(v.p, w.p)
  BY <1>1, <1>2, <1>3
<1>6. Good(<<a, w>>, p, f)
  BY <1>k, <1>2, TwoWrites, Zenon
<1>7. Good(<<a, w, v>>, p, f)
  BY <1>k, <1>2, <1>3, ThreeWrites, Zenon
<1> QED
  BY <1>5, <1>6, <1>7

\* A turn of a combat.
LEMMA TurnFollows ==
  ASSUME NEW p \in Docs, NEW f \in Fights, NEW arg, NEW todo \in Turn(p, f, arg)
  PROVE  Good(todo, p, f)
<1>t. p.hunted \in Int /\ Kept(p, p) /\ f # NoFight
  <2>1. f.foeHp # 0
    BY DEF Fights
  <2>2. f # NoFight
    BY <2>1 DEF NoFight
  <2> QED
    BY <2>2, DocFields
<1> DEFINE w == SaveProfile(p)
           a == Plain("unfight")
<1>1. Sound(a) /\ a.op = "unfight" /\ Sound(w) /\ w.op = "profile" /\ w.what = "nothing" /\ w.p = p
  BY WritesSound, WriteFields
<1>2. CASE todo = <<a, w>>
  <2> HIDE DEF a, w
  <2>1. w.p.hunted >= p.hunted /\ Kept(w.p, p)
    BY <1>t, <1>1
  <2>2. Good(<<a, w>>, p, f)
    BY <2>1, <1>1, TwoWrites, Zenon
  <2> QED
    BY <2>2, <1>2
<1>3. ASSUME NEW g \in Fights, g.foe = f.foe, todo \in EnemyTurn(p, g)
      PROVE  Good(todo, p, f)
  <2>1. CASE g.hp <= 1
    BY <1>3, <2>1, DefeatFollows DEF EnemyTurn
  <2>2. CASE ~(g.hp <= 1)
    <3> DEFINE e == [g EXCEPT !.hp = @ - 1]
               b == SaveFight(e)
    <3>1. todo = <<b, w>>
      BY <1>3, <2>2 DEF EnemyTurn
    <3>2. e \in Fights /\ e.foe = f.foe
      BY <1>3, <2>2 DEF Fights
    <3> HIDE DEF e
    <3>3. Sound(b) /\ b.op = "fight" /\ b.f = e /\ b.what = "nothing"
      BY <3>2, WritesSound, WriteFields
    <3> HIDE DEF b, w
    <3>4. w.p.hunted >= p.hunted /\ Kept(w.p, p) /\ b.f.foe = f.foe /\ ~(b.what = "begun")
      BY <3>2, <3>3, <1>t, <1>1
    <3>5. Good(<<b, w>>, p, f)
      BY <3>3, <3>4, <1>t, <1>1, TwoWrites, Zenon
    <3> QED
      BY <3>1, <3>5
  <2> QED
    BY <2>1, <2>2
<1>4. ASSUME NEW d \in {0, 1, 2}, f.foeHp > d, todo \in EnemyTurn(p, [f EXCEPT !.foeHp = @ - d])
      PROVE  Good(todo, p, f)
  <2>1. [f EXCEPT !.foeHp = @ - d] \in Fights /\ [f EXCEPT !.foeHp = @ - d].foe = f.foe
    BY <1>4 DEF Fights
  <2> QED
    BY <2>1, <1>3, <1>4
<1>5. \/ todo = <<a, w>>
      \/ \E d \in {0, 1, 2} : \/ f.foeHp <= d /\ todo \in Victory(p, f.foe)
                              \/ f.foeHp > d /\ todo \in EnemyTurn(p, [f EXCEPT !.foeHp = @ - d])
  <2>1. f.foeHp \in Nat
    BY DEF Fights
  <2> DEFINE hits == IF arg \in {"none", "attack"} THEN {1, 2} ELSE {0}
             after(d) == CASE f.foeHp <= d -> Victory(p, f.foe)
                           [] f.foeHp > d  -> EnemyTurn(p, [f EXCEPT !.foeHp = @ - d])
  <2>2. hits \subseteq {0, 1, 2}
    OBVIOUS
  <2>3. todo = <<a, w>> \/ \E d \in hits : todo \in after(d)
    BY DEF Turn
  <2>4. ASSUME NEW d \in {0, 1, 2}, todo \in after(d)
        PROVE  \/ f.foeHp <= d /\ todo \in Victory(p, f.foe)
               \/ f.foeHp > d /\ todo \in EnemyTurn(p, [f EXCEPT !.foeHp = @ - d])
    BY <2>1, <2>4
  <2> HIDE DEF hits, after
  <2> QED
    BY <2>2, <2>3, <2>4
<1> QED
  BY <1>2, <1>4, <1>5, VictoryFollows

\* The commands that read the combat next.
LEMMA LookersFollow ==
  ASSUME NEW p \in Docs, NEW cmd \in Lookers, NEW f \in Fights \cup {NoFight}, NEW arg,
         clock \in Nat, NEW todo \in PlansInSight(cmd, p, f, arg)
  PROVE  todo = <<>> \/ Good(todo, p, f)
<1>t. p.hunted \in Int /\ Kept(p, p) /\ p.seen \subseteq EventNames
  BY DocFields
<1>w. ASSUME NEW q \in Docs, Kept(q, p), q.hunted = p.hunted,
             NEW what \in {"nothing", "shown"}, NEW name \in Foes \cup EventNames \cup {"none"}
      PROVE  Good(<<SaveAs(q, what, name)>>, p, f)
  <2> DEFINE w == SaveAs(q, what, name)
  <2>1. Sound(w) /\ w.op = "profile" /\ w.what = what /\ w.p = q
    BY WritesSound, WriteFields
  <2> HIDE DEF w
  <2>2. Good(<<w>>, p, f)
    BY <2>1, <1>w, <1>t, OneWrite
  <2> QED
    BY <2>2 DEF w
<1>p. ASSUME NEW q \in Docs, Kept(q, p), q.hunted = p.hunted
      PROVE  Good(<<SaveProfile(q)>>, p, f)
  BY <1>p, <1>w, WriteFields
<1>1. CASE cmd = "quest"
  <2>1. \/ todo = <<>>
        \/ \E s \in {"awakening", "awakened"} : todo = <<SaveProfile([p EXCEPT !.stage = s])>>
        \/ \E e \in FirstOf(Unseen(p) \cap Tutorial) : todo = <<SaveAs(p, "shown", e)>>
        \/ \E e \in Available(p) : todo = <<SaveAs(p, "shown", e)>>
    <3>1. \/ p.stage \in {"absent", "origin_selection"} \/ f # NoFight
          \/ p.stage = "personality_test" /\ f = NoFight
          \/ p.stage \in {"awakening", "awakened"} /\ f = NoFight
      BY DEF Docs, Profiles
    <3>2. CASE p.stage \in {"absent", "origin_selection"} \/ f # NoFight
      <4>1. todo \in Quest(p, f)
        BY <1>1 DEF PlansInSight
      <4>2. p.stage \in {"absent", "origin_selection"} \/ f # NoFight => Quest(p, f) \in {Nothing,
              IF Unseen(p) \cap Tutorial # {} THEN {<<SaveAs(p, "shown", e)>> : e \in FirstOf(Unseen(p) \cap Tutorial)}
              ELSE {<<SaveProfile([p EXCEPT !.stage = "awakening"])>>},
              IF Available(p) = {} THEN {<<SaveProfile([p EXCEPT !.stage = "awakened"])>>}
              ELSE {<<SaveAs(p, "shown", e)>> : e \in Available(p)}}
        BY DEF Quest
      <4> QED
        BY <4>1, <4>2, <3>2 DEF Nothing
    <3>3. CASE p.stage = "personality_test" /\ f = NoFight
      BY <1>1, <3>3 DEF PlansInSight, Quest
    <3>4. CASE p.stage \in {"awakening", "awakened"} /\ f = NoFight
      BY <1>1, <3>4 DEF PlansInSight, Quest
    <3> QED
      BY <3>1, <3>2, <3>3, <3>4
  <2>2. ASSUME NEW s \in {"awakening", "awakened"} PROVE Good(<<SaveProfile([p EXCEPT !.stage = s])>>, p, f)
    <3>1. /\ [p EXCEPT !.stage = s] \in Docs /\ Kept([p EXCEPT !.stage = s], p)
          /\ [p EXCEPT !.stage = s].hunted = p.hunted
      BY StagedDoc
    <3> QED
      BY <3>1, <1>p
  <2>3. ASSUME NEW e \in EventNames PROVE Good(<<SaveAs(p, "shown", e)>>, p, f)
    BY <1>t, <1>w
  <2>4. FirstOf(Unseen(p) \cap Tutorial) \subseteq EventNames /\ Available(p) \subseteq EventNames
    BY DEF FirstOf, Unseen, Available
  <2> QED
    BY <2>1, <2>2, <2>3, <2>4
<1>2. CASE cmd = "move"
  <2>1. todo = <<>> \/ todo = <<SaveProfile(p)>>
    BY <1>2 DEF PlansInSight, Move, Nothing
  <2> QED
    BY <2>1, <1>t, <1>p
<1>3. CASE cmd = "hunt"
  <2>1. todo \in Hunt(p, f, arg)
    BY <1>3 DEF PlansInSight
  <2>2. \/ todo = <<>>
        \/ f # NoFight /\ todo \in Turn(p, f, arg)
        \/ f = NoFight /\ ~CoolingDown(p) /\ todo \in Prowl(p)
        \/ f = NoFight /\ ~CoolingDown(p) /\ todo \in BeginHunt(p, arg)
    BY <2>1 DEF Hunt, Nothing
  <2>3. CASE f # NoFight /\ todo \in Turn(p, f, arg)
    BY <2>3, TurnFollows
  <2>4. CASE todo \in Prowl(p)
    <3>1. todo = <<>> \/ todo = <<SaveProfile(AddXp(p, BonusXp))>>
      BY <2>4 DEF Prowl, Nothing
    <3>2. /\ AddXp(p, BonusXp) \in Docs /\ Kept(AddXp(p, BonusXp), p)
          /\ AddXp(p, BonusXp).hunted = p.hunted
      BY AddXpKeeps, RpgConstants DEF RpgNumbers
    <3> QED
      BY <3>1, <3>2, <1>p
  <2>5. CASE f = NoFight /\ ~CoolingDown(p) /\ todo \in BeginHunt(p, arg)
    <3> DEFINE q == IF isMod THEN p ELSE [p EXCEPT !.hunted = clock]
               c == InitCombat(p, arg)
               a == BeginFight(c)
               w == SaveProfile(q)
    <3>1. todo = <<>> \/ (arg \in Foes /\ ~(p.kills[arg] > 0) /\ todo = <<a, w>>)
      BY <2>5 DEF BeginHunt, Nothing
    <3>2. SUFFICES ASSUME arg \in Foes, ~(p.kills[arg] > 0), todo = <<a, w>> PROVE Good(<<a, w>>, p, f)
      BY <3>1
    <3>3. p.kills[arg] = 0
      BY <3>2, DocFields
    <3>4. Cooldown \in Nat /\ (~isMod => clock >= p.hunted + Cooldown)
      BY <2>5, <1>t, RpgConstants DEF CoolingDown, RpgNumbers
    <3>5. q \in Docs /\ Kept(q, p) /\ q.hunted >= p.hunted /\ (~isMod => q.hunted >= p.hunted + Cooldown)
      <4>1. CASE isMod
        BY <4>1, <1>t
      <4>2. CASE ~isMod
        <5>1. q = [p EXCEPT !.hunted = clock] /\ clock \in Int
          BY <4>2
        <5>2. q \in Docs /\ Kept(q, p) /\ q.hunted = clock
          BY <5>1, HuntingDoc
        <5> QED
          BY <5>2, <4>2, <3>4, <1>t
      <4> QED
        BY <4>1, <4>2
    <3> HIDE DEF q
    <3>6. c \in Fights /\ c.foe = arg
      BY <3>2, DocFields, RpgConstants DEF InitCombat, Fights, RpgNumbers
    <3> HIDE DEF c
    <3>7. Sound(a) /\ a.op = "fight" /\ a.f = c /\ a.what = "begun"
      BY <3>6, WritesSound, WriteFields
    <3>8. Sound(w) /\ w.op = "profile" /\ w.what = "nothing" /\ w.p = q
      BY <3>5, WritesSound, WriteFields
    <3> HIDE DEF a, w
    <3> QED
      BY <2>5, <3>3, <3>5, <3>6, <3>7, <3>8, TwoWrites
  <2> QED
    BY <2>2, <2>3, <2>4, <2>5
<1> QED
  BY <1>1, <1>2, <1>3 DEF Lookers

\* A handler goes on with what it has left, or is done.
LEMMA GoingIs ==
  ASSUME NEW x \in Players, NEW t \in Seq(Writes), \A i \in 1 .. Len(t) : Sound(t[i])
  PROVE  /\ Going(x, t) \in Players /\ Resting \in Players /\ Resting.at = "idle"
         /\ t = <<>> => Going(x, t) = Resting
         /\ t # <<>> => /\ Going(x, t).at = "write" /\ Going(x, t).todo = t
                        /\ Going(x, t).first <=> fights = <<>>
<1> DEFINE Shapes == [at : {"idle", "look", "write"}, cmd : Readers \cup Lookers \cup {"none"},
                      arg : Foes \cup FarFoes \cup Moves \cup {"none"}, p : Docs,
                      todo : Seq(Writes), first : BOOLEAN]
<1>1. Resting \in Shapes /\ Resting.at = "idle" /\ Resting.todo = <<>>
  BY NewDocs DEF Resting
<1>2. Resting \in Players
  BY <1>1 DEF Players
<1>3. CASE t = <<>>
  BY <1>1, <1>2, <1>3 DEF Going
<1>4. CASE t # <<>>
  <2> DEFINE clear == fights = <<>>
             y == [x EXCEPT !.at = "write", !.todo = t, !.first = clear]
  <2>1. Going(x, t) = y
    BY <1>4 DEF Going
  <2>2. clear \in BOOLEAN
    BY Zenon
  <2> HIDE DEF clear
  <2>3. x \in Shapes
    BY DEF Players
  <2>4. y \in Shapes /\ y.at = "write" /\ y.todo = t /\ y.first = clear
    BY <2>2, <2>3
  <2> HIDE DEF y
  <2>5. y \in Players
    BY <2>4, <1>4 DEF Players
  <2>6. y.first <=> clear
    BY <2>2, <2>4
  <2> QED
    BY <1>1, <1>2, <1>4, <2>1, <2>4, <2>5, <2>6 DEF clear
<1> QED
  BY <1>3, <1>4

\* What is left after the first write.
LEMMA TailIs ==
  ASSUME NEW t \in Seq(Writes), t # <<>>
  PROVE  /\ Tail(t) \in Seq(Writes) /\ Len(Tail(t)) = Len(t) - 1 /\ Len(t) \in Nat \ {0}
         /\ \A i \in 1 .. Len(t) - 1 : Tail(t)[i] = t[i + 1] /\ i + 1 \in 2 .. Len(t)
         /\ Head(t) = t[1] /\ t[1] \in Writes
         /\ Tail(t) # <<>> => Len(t) >= 2 /\ Tail(t)[1] = t[2]
BY HeadTailProperties, EmptySeq

LEMMA TailSound ==
  ASSUME NEW t \in Seq(Writes), t # <<>>, \A i \in 1 .. Len(t) : Sound(t[i])
  PROVE  \A i \in 1 .. Len(Tail(t)) : Sound(Tail(t)[i])
BY TailIs

\* Once a profile is stored, what is left changes nothing more of it.
LEMMA FollowsSaved ==
  ASSUME NEW t \in Seq(Writes), t # <<>>, NEW q, NEW c, NEW d, Follows(t, q, c), t[1].op = "profile"
  PROVE  Follows(Tail(t), t[1].p, d)
<1> DEFINE s == Tail(t)
<1>1. s \in Seq(Writes) /\ Len(s) = Len(t) - 1 /\ Len(t) \in Nat \ {0}
      /\ \A i \in 1 .. Len(t) - 1 : s[i] = t[i + 1] /\ i + 1 \in 2 .. Len(t)
  BY TailIs
<1> HIDE DEF s
<1>2. \A j \in 2 .. Len(t) : t[j].op = "profile" /\ t[j].what = "nothing"
  <2>1. 1 \in 1 .. Len(t) /\ 1 + 1 = 2
    BY <1>1
  <2>2. \A j \in 1 + 1 .. Len(t) : t[j].op = "profile" /\ t[j].what = "nothing"
    BY <2>1 DEF Follows
  <2> QED
    BY <2>1, <2>2
<1>3. \A j \in 2 .. Len(t) : Kept(t[j].p, t[j-1].p)
  <2> SUFFICES ASSUME NEW j \in 2 .. Len(t) PROVE Kept(t[j].p, t[j-1].p)
    OBVIOUS
  <2>1. j \in 1 .. Len(t) /\ j > 1 /\ j - 1 \in 1 .. Len(t) /\ (j - 1 = 1 \/ j - 1 \in 2 .. Len(t))
    BY <1>1
  <2>2. t[j].op = "profile" /\ t[j].what = "nothing" /\ t[j-1].op = "profile"
    BY <2>1, <1>2
  <2> QED
    BY <2>1, <2>2 DEF Follows
<1>4. \A i \in 1 .. Len(s) : s[i].op = "profile" /\ s[i].what = "nothing"
  BY <1>1, <1>2
<1>5. \A i \in 1 .. Len(s) : IF i > 1 /\ s[i-1].op = "profile" THEN Kept(s[i].p, s[i-1].p) ELSE Kept(s[i].p, t[1].p)
  <2> SUFFICES ASSUME NEW i \in 1 .. Len(s)
               PROVE  IF i > 1 /\ s[i-1].op = "profile" THEN Kept(s[i].p, s[i-1].p) ELSE Kept(s[i].p, t[1].p)
    OBVIOUS
  <2>1. i \in Nat /\ i \in 1 .. Len(t) - 1 /\ s[i] = t[i+1] /\ i + 1 \in 2 .. Len(t) /\ (i + 1) - 1 = i
    BY <1>1
  <2>2. Kept(s[i].p, t[i].p)
    BY <2>1, <1>3
  <2>3. CASE i > 1
    <3>1. i - 1 \in 1 .. Len(t) - 1 /\ (i - 1) + 1 = i /\ i - 1 \in 1 .. Len(s)
      BY <2>1, <2>3, <1>1
    <3>2. s[i-1] = t[i]
      BY <3>1, <1>1
    <3> QED
      BY <3>1, <3>2, <2>2, <2>3, <1>4
  <2>4. CASE ~(i > 1)
    <3>1. i = 1
      BY <2>1, <2>4
    <3> QED
      BY <3>1, <2>2
  <2> QED
    BY <2>3, <2>4
<1>6. \A i \in 1 .. Len(s) : \A j \in i + 1 .. Len(s) : j \in 1 .. Len(s)
  BY <1>1
<1> QED
  BY <1>4, <1>5, <1>6 DEF Follows, s

\* Any other write leaves the profile; the combat is gone once it is deleted.
LEMMA FollowsOn ==
  ASSUME NEW t \in Seq(Writes), t # <<>>, NEW q, NEW c, NEW d, Follows(t, q, c), t[1].op # "profile",
         t[1].op = "unfight" => d
  PROVE  Follows(Tail(t), q, d)
<1> DEFINE s == Tail(t)
<1>1. s \in Seq(Writes) /\ Len(s) = Len(t) - 1 /\ Len(t) \in Nat \ {0}
      /\ \A i \in 1 .. Len(t) - 1 : s[i] = t[i + 1] /\ i + 1 \in 2 .. Len(t)
  BY TailIs
<1> HIDE DEF s
<1> SUFFICES ASSUME NEW i \in 1 .. Len(s)
             PROVE  /\ s[i].op = "profile" =>
                       /\ s[i].what # "begun"
                       /\ \A j \in i + 1 .. Len(s) : s[j].op = "profile" /\ s[j].what = "nothing"
                       /\ s[i].what \in {"nothing", "shown"} =>
                            IF i > 1 /\ s[i-1].op = "profile" THEN Kept(s[i].p, s[i-1].p) ELSE Kept(s[i].p, q)
                       /\ s[i].what = "won" =>
                            /\ q.kills[s[i].name] = 0 /\ s[i].p.kills = [q.kills EXCEPT ![s[i].name] = @ + 1]
                            /\ s[i].p.seen = q.seen
                            /\ IF i = 1 THEN d ELSE s[i-1].op = "unfight"
                       /\ s[i].what = "solved" =>
                            /\ s[i].name \notin q.seen /\ s[i].p.seen = q.seen \cup {s[i].name}
                            /\ s[i].p.kills = q.kills
                    /\ s[i].op # "fight"
  BY DEF Follows, s
<1> DEFINE k == i + 1
<1>2. i \in Nat /\ k \in 1 .. Len(t) /\ s[i] = t[k] /\ k # 1 /\ k - 1 = i /\ k > 1 /\ k \in Nat
  <2>1. i \in Nat /\ i >= 1 /\ i \in 1 .. Len(t) - 1
    BY <1>1
  <2>2. s[i] = t[i + 1]
    BY <1>1, <2>1
  <2>3. i + 1 \in 1 .. Len(t) /\ i + 1 # 1 /\ (i + 1) - 1 = i /\ i + 1 > 1
    BY <1>1, <2>1
  <2> QED
    BY <2>1, <2>2, <2>3
<1>3. \A j \in i + 1 .. Len(s) : s[j] = t[j + 1] /\ j + 1 \in k + 1 .. Len(t)
  <2> SUFFICES ASSUME NEW j \in i + 1 .. Len(s) PROVE s[j] = t[j + 1] /\ j + 1 \in k + 1 .. Len(t)
    OBVIOUS
  <2>1. j \in Int /\ j >= i + 1 /\ j <= Len(t) - 1 /\ i >= 1
    BY <1>1, <1>2
  <2>2. j \in 1 .. Len(t) - 1
    BY <2>1, <1>1, <1>2
  <2>3. j + 1 \in k + 1 .. Len(t)
    BY <2>1, <1>1, <1>2
  <2> QED
    BY <2>2, <2>3, <1>1
<1>4. i > 1 => s[i-1] = t[i]
  <2>1. i > 1 => i - 1 \in 1 .. Len(t) - 1 /\ (i - 1) + 1 = i
    BY <1>1, <1>2
  <2> QED
    BY <2>1, <1>1
<1> HIDE DEF k
<1>5. /\ t[k].op = "profile" =>
           /\ t[k].what # "begun"
           /\ \A j \in k + 1 .. Len(t) : t[j].op = "profile" /\ t[j].what = "nothing"
           /\ t[k].what \in {"nothing", "shown"} =>
                IF t[i].op = "profile" THEN Kept(t[k].p, t[i].p) ELSE Kept(t[k].p, q)
           /\ t[k].what = "won" =>
                /\ q.kills[t[k].name] = 0 /\ t[k].p.kills = [q.kills EXCEPT ![t[k].name] = @ + 1]
                /\ t[k].p.seen = q.seen /\ t[i].op = "unfight"
           /\ t[k].what = "solved" =>
                /\ t[k].name \notin q.seen /\ t[k].p.seen = q.seen \cup {t[k].name}
                /\ t[k].p.kills = q.kills
      /\ t[k].op # "fight"
  BY <1>2 DEF Follows
<1>6. i = 1 \/ i > 1
  BY <1>2
<1> QED
  BY <1>2, <1>3, <1>4, <1>5, <1>6

LEMMA LaterOn ==
  ASSUME NEW t \in Seq(Writes), t # <<>>, Tail(t) # <<>>, NEW q, NEW c, Follows(t, q, c),
         NEW from, NEW until, Later(t, from), \A i \in 2 .. Len(t) : t[i].op = "profile" => t[i].p.hunted >= until
  PROVE  Later(Tail(t), until)
<1> DEFINE s == Tail(t)
<1>1. s \in Seq(Writes) /\ Len(s) = Len(t) - 1 /\ Len(t) \in Nat \ {0} /\ Len(t) >= 2 /\ s[1] = t[2]
      /\ \A i \in 1 .. Len(t) - 1 : s[i] = t[i + 1] /\ i + 1 \in 2 .. Len(t)
  BY TailIs
<1> HIDE DEF s
<1>2. s[1].op # "fight"
  <2>1. 2 \in 1 .. Len(t) /\ 2 # 1
    BY <1>1
  <2>2. t[2].op = "fight" => 2 = 1
    BY <2>1 DEF Follows
  <2> QED
    BY <2>1, <2>2, <1>1
<1>3. \A i \in 1 .. Len(s) : s[i].op = "profile" => s[i].p.hunted >= until
  BY <1>1
<1> QED
  BY <1>2, <1>3 DEF Later, s

LEMMA LaterThan ==
  ASSUME NEW t \in Seq(Writes), t # <<>>, \A i \in 1 .. Len(t) : Sound(t[i]), NEW q, NEW c, Follows(t, q, c),
         NEW from \in Int, NEW until \in Int, from >= until, Later(t, from)
  PROVE  Later(t, until)
<1>1. Cooldown \in Nat
  BY RpgConstants DEF RpgNumbers
<1>2. Len(t) \in Nat \ {0} /\ 1 \in 1 .. Len(t)
  BY EmptySeq
<1>3. \A i \in 1 .. Len(t) : t[i].p.hunted \in Int
  <2> SUFFICES ASSUME NEW i \in 1 .. Len(t) PROVE t[i].p.hunted \in Int
    OBVIOUS
  <2>1. t[i].p \in Docs
    BY DEF Sound, Writes
  <2> QED
    BY <2>1, DocFields
<1>4. \A i \in 1 .. Len(t) : t[i].op = "profile" => t[i].p.hunted >= until
  BY <1>3 DEF Later
<1>5. t[1].op = "fight" => t[2].p.hunted \in Int
  <2>1. t[1].op = "fight" => Len(t) = 2
    BY <1>2 DEF Follows
  <2> QED
    BY <2>1, <1>3
<1>6. t[1].op = "fight" /\ t[1].what = "begun" /\ ~isMod => t[2].p.hunted >= until + Cooldown
  BY <1>1, <1>5 DEF Later
<1> QED
  BY <1>4, <1>6 DEF Later

LEMMA RpgStarts ==
  ASSUME PeopleInit
  PROVE  RpgInv
<1> DEFINE born == [NewProfile EXCEPT !.stage = "awakening", !.seen = Tutorial]
<1>1. RpgInit
  BY DEF PeopleInit
<1>2. /\ player = NoProfile \/ player = born
      /\ fights = <<>> /\ clock = 0 /\ rpgFaults = 0 /\ paid = [f \in Foes |-> 0]
      /\ rpg = [h \in RpgHandlers |-> Resting]
      /\ solved = [e \in EventNames |-> IF e \in player.seen THEN 1 ELSE 0]
      /\ begun = -Cooldown /\ rushed = FALSE
  BY <1>1 DEF RpgInit
<1>3. Cooldown \in Nat /\ Tutorial \subseteq EventNames
  BY RpgConstants DEF RpgNumbers
<1>4. born \in Docs /\ born.kills = NewProfile.kills /\ born.hunted = NewProfile.hunted
  <2>1. NewProfile \in Docs
    BY NewDocs
  <2> QED
    BY <2>1, <1>3 DEF Docs, Profiles
<1> HIDE DEF born
<1>5. player \in Docs /\ player.kills = [f \in Foes |-> 0] /\ player.hunted = -Cooldown
  BY <1>2, <1>4, NewDocs
<1>6. <<>> \in Seq(Writes) /\ \A i \in 1 .. Len(<<>>) : FALSE
  OBVIOUS
<1>7. Resting \in Players /\ Resting.at = "idle"
  <2>1. Resting.todo = <<>> /\ Resting.at = "idle"
    BY DEF Resting
  <2>2. Resting \in [at : {"idle", "look", "write"}, cmd : Readers \cup Lookers \cup {"none"},
                     arg : Foes \cup FarFoes \cup Moves \cup {"none"}, p : Docs,
                     todo : Seq(Writes), first : BOOLEAN]
    BY NewDocs DEF Resting
  <2> QED
    BY <2>1, <2>2 DEF Players
<1>8. RpgTyped
  BY <1>2, <1>5, <1>7 DEF RpgTyped
<1>9. Calm
  <2>1. Settled
    BY <1>2, <1>5 DEF Settled
  <2>2. \A h \in RpgHandlers : rpg[h].at = "idle"
    BY <1>2, <1>7
  <2> QED
    BY <2>1, <2>2 DEF Calm, Alone, AtEase
<1>10. Spaced
  <2>1. player.hunted >= begun /\ begun \in Int /\ ~rushed
    BY <1>2, <1>3, <1>5
  <2>2. \A h \in RpgHandlers : rpg[h].at = "idle"
    BY <1>2, <1>7
  <2> QED
    BY <2>1, <2>2 DEF Spaced, Paced
<1> QED
  BY <1>8, <1>9, <1>10 DEF RpgInv

\* One handler takes a step.
LEMMA RpgGoes ==
  ASSUME RpgInv, NEW h \in RpgHandlers, NEW x \in Players, rpg' = [rpg EXCEPT ![h] = x],
         player' \in Docs, fights' \in Seq(Fights), paid' \in [Foes -> Nat], solved' \in [EventNames -> Nat],
         UNCHANGED <<clock, rpgFaults, isMod>>,
         ~together' => /\ ~together /\ \A g \in RpgHandlers \ {h} : rpg[g].at = "idle"
                       /\ Settled' /\ AtEase(x, player', fights' = <<>>),
         ~together' /\ rpgFaults = 0 =>
            /\ ~rushed' /\ begun' \in Int /\ Paced(x, begun')
            /\ player'.hunted >= begun' \/ Saving(x)
  PROVE  RpgInv'
<1>1. RpgTyped'
  BY DEF RpgInv, RpgTyped
<1>2. rpg'[h] = x /\ \A g \in RpgHandlers : g # h => rpg'[g] = rpg[g]
  BY DEF RpgInv, RpgTyped
<1>3. ~together' => \A g \in RpgHandlers : g # h => rpg'[g].at = "idle"
  BY <1>2
<1>4. ~together' => \A g \in RpgHandlers : AtEase(rpg'[g], player', fights' = <<>>)
  <2> SUFFICES ASSUME ~together', NEW g \in RpgHandlers PROVE AtEase(rpg'[g], player', fights' = <<>>)
    OBVIOUS
  <2>1. CASE g = h
    BY <2>1, <1>2
  <2>2. CASE g # h
    BY <2>2, <1>3 DEF AtEase
  <2> QED
    BY <2>1, <2>2
<1>5. ~together' => Alone'
  BY <1>3 DEF Alone
<1>6. Calm'
  BY <1>4, <1>5 DEF Calm, AtEase
<1>7. Spaced'
  <2>1. ~together' /\ rpgFaults' = 0 => \A g \in RpgHandlers : Paced(rpg'[g], begun')
    <3> SUFFICES ASSUME ~together', rpgFaults' = 0, NEW g \in RpgHandlers PROVE Paced(rpg'[g], begun')
      OBVIOUS
    <3>1. CASE g = h
      BY <3>1, <1>2
    <3>2. CASE g # h
      BY <3>2, <1>3 DEF Paced
    <3> QED
      BY <3>1, <3>2
  <2> QED
    BY <2>1, <1>2 DEF Spaced, Paced, Later, Saving
<1> QED
  BY <1>1, <1>6, <1>7 DEF RpgInv

\* What is known of a handler before its step.
LEMMA RpgAlone ==
  ASSUME RpgInv, ~together, NEW h \in RpgHandlers
  PROVE  /\ Settled /\ AtEase(rpg[h], player, fights = <<>>)
         /\ rpg[h].at # "idle" => \A g \in RpgHandlers \ {h} : rpg[g].at = "idle"
         /\ rpgFaults = 0 => /\ ~rushed /\ begun \in Int /\ Paced(rpg[h], begun)
                             /\ (\A g \in RpgHandlers \ {h} : rpg[g].at = "idle") =>
                                  player.hunted >= begun \/ Saving(rpg[h])
<1>1. Settled /\ AtEase(rpg[h], player, fights = <<>>)
  BY DEF RpgInv, Calm
<1>2. rpg[h].at # "idle" => \A g \in RpgHandlers \ {h} : rpg[g].at = "idle"
  BY DEF RpgInv, Calm, Alone
<1>3. rpgFaults = 0 => /\ ~rushed /\ begun \in Int /\ Paced(rpg[h], begun)
                       /\ player.hunted >= begun \/ \E g \in RpgHandlers : Saving(rpg[g])
  BY DEF RpgInv, Spaced
<1>4. \A g \in RpgHandlers : rpg[g].at = "idle" => ~Saving(rpg[g])
  BY DEF Saving
<1> QED
  BY <1>1, <1>2, <1>3, <1>4

LEMMA RpgTypes ==
  ASSUME RpgInv, NEW h \in RpgHandlers
  PROVE  /\ player \in Docs /\ fights \in Seq(Fights) /\ paid \in [Foes -> Nat]
         /\ solved \in [EventNames -> Nat] /\ clock \in Nat /\ rpgFaults \in Nat
         /\ rpg[h] \in Players /\ rpg[h].todo \in Seq(Writes) /\ rpg[h].p \in Docs
         /\ rpg[h].at \in {"idle", "look", "write"} /\ rpg[h].first \in BOOLEAN
         /\ rpg[h].at = "write" <=> rpg[h].todo # <<>>
         /\ rpg[h].at = "look" => rpg[h].cmd \in Lookers
         /\ \A i \in 1 .. Len(rpg[h].todo) : Sound(rpg[h].todo[i])
         /\ NoProfile \in Docs /\ NewProfile \in Docs
BY NewDocs DEF RpgInv, RpgTyped, Players

\* A command starts.
LEMMA CommandKeeps ==
  ASSUME RpgInv, NEW h \in RpgHandlers, NEW cmd \in Readers, Command(h, cmd)
  PROVE  RpgInv'
<1> DEFINE y == [Resting EXCEPT !.cmd = cmd, !.p = player]
<1>1. PICK todo \in Plans(cmd, player) : rpg' = [rpg EXCEPT ![h] = Going(y, todo)]
  BY DEF Command
<1>2. /\ rpg[h].at = "idle" /\ UNCHANGED <<player, fights, isMod, clock, rpgFaults, paid, solved, begun, rushed>>
      /\ together' = (together \/ \E g \in RpgHandlers : rpg[g].at # "idle")
  BY DEF Command
<1>3. y \in Players
  <2>1. Resting \in Players /\ Resting.at = "idle" /\ Resting.todo = <<>>
    <3>1. <<>> \in Seq(Writes) /\ \A i \in 1 .. Len(<<>>) : Sound(<<>>[i])
      OBVIOUS
    <3> QED
      BY <3>1, RpgTypes, GoingIs DEF Resting
  <2> QED
    BY <2>1, RpgTypes DEF Players
<1> HIDE DEF y
<1>4. todo = <<>> \/ Good(todo, player, NoFight)
  BY RpgTypes, ReadersFollow
<1>5. todo \in Seq(Writes) /\ \A i \in 1 .. Len(todo) : Sound(todo[i])
  <2>1. CASE todo = <<>>
    BY <2>1
  <2>2. CASE Good(todo, player, NoFight)
    BY <2>2 DEF Good
  <2> QED
    BY <2>1, <2>2, <1>4
<1> DEFINE x == Going(y, todo)
<1>6. /\ x \in Players
      /\ todo = <<>> => x.at = "idle"
      /\ todo # <<>> => x.at = "write" /\ x.todo = todo /\ (x.first <=> fights = <<>>)
  BY <1>3, <1>5, GoingIs
<1>7. rpg' = [rpg EXCEPT ![h] = x]
  BY <1>1
<1> HIDE DEF x
<1>8. ~together' => /\ ~together /\ \A g \in RpgHandlers \ {h} : rpg[g].at = "idle"
                    /\ Settled' /\ AtEase(x, player', fights' = <<>>)
  <2> SUFFICES ASSUME ~together' PROVE /\ ~together /\ \A g \in RpgHandlers \ {h} : rpg[g].at = "idle"
                                       /\ Settled' /\ AtEase(x, player', fights' = <<>>)
    OBVIOUS
  <2>1. ~together /\ \A g \in RpgHandlers \ {h} : rpg[g].at = "idle"
    BY <1>2
  <2>2. Settled'
    BY <2>1, <1>2, RpgAlone DEF Settled
  <2>3. todo # <<>> => Follows(todo, player, fights = <<>>)
    BY <1>4 DEF Good
  <2>4. AtEase(x, player, fights = <<>>)
    <3>1. CASE todo = <<>>
      BY <3>1, <1>6 DEF AtEase
    <3>2. CASE todo # <<>>
      <4>1. x.at = "write" /\ x.todo = todo /\ (x.first => fights = <<>>)
        BY <3>2, <1>6, Zenon
      <4>2. x.at # "look"
        BY <4>1
      <4> QED
        BY <2>3, <3>2, <4>1, <4>2, Zenon DEF AtEase
    <3> QED
      BY <3>1, <3>2
  <2> QED
    BY <2>1, <2>2, <2>4, <1>2
<1>9. ~together' /\ rpgFaults = 0 => /\ ~rushed' /\ begun' \in Int /\ Paced(x, begun')
                                     /\ player'.hunted >= begun' \/ Saving(x)
  <2> SUFFICES ASSUME ~together', rpgFaults = 0
               PROVE  /\ ~rushed' /\ begun' \in Int /\ Paced(x, begun')
                      /\ player'.hunted >= begun' \/ Saving(x)
    OBVIOUS
  <2>1. ~together /\ \A g \in RpgHandlers \ {h} : rpg[g].at = "idle"
    BY <1>2
  <2>2. ~rushed /\ begun \in Int /\ player.hunted >= begun
    BY <2>1, <1>2, RpgAlone DEF Saving
  <2>3. todo # <<>> => Later(todo, player.hunted)
    BY <1>4 DEF Good
  <2>4. todo # <<>> => Later(todo, begun)
    <3>1. player.hunted \in Int
      BY RpgTypes, DocFields
    <3>2. todo # <<>> => Follows(todo, player, TRUE)
      BY <1>4 DEF Good
    <3> QED
      BY <2>2, <2>3, <3>1, <3>2, <1>5, LaterThan
  <2>5. Paced(x, begun)
    <3>1. CASE todo = <<>>
      BY <3>1, <1>6 DEF Paced
    <3>2. CASE todo # <<>>
      <4>1. x.at = "write" /\ x.todo = todo /\ x.at # "look"
        BY <3>2, <1>6
      <4> QED
        BY <2>4, <3>2, <4>1 DEF Paced
    <3> QED
      BY <3>1, <3>2
  <2> QED
    BY <2>2, <2>5, <1>2
<1> QED
  BY <1>2, <1>6, <1>7, <1>8, <1>9, RpgTypes, RpgGoes

LEMMA RestingIs ==
  Resting \in Players /\ Resting.at = "idle" /\ \A q, c, from : AtEase(Resting, q, c) /\ Paced(Resting, from)
<1>1. Resting.at = "idle" /\ Resting.todo = <<>>
  BY DEF Resting
<1>2. Resting \in [at : {"idle", "look", "write"}, cmd : Readers \cup Lookers \cup {"none"},
                   arg : Foes \cup FarFoes \cup Moves \cup {"none"}, p : Docs,
                   todo : Seq(Writes), first : BOOLEAN]
  BY NewDocs DEF Resting
<1>3. Resting \in Players
  BY <1>1, <1>2 DEF Players
<1> QED
  BY <1>1, <1>3 DEF AtEase, Paced

LEMMA CommandInSightKeeps ==
  ASSUME RpgInv, NEW h \in RpgHandlers, NEW cmd \in Lookers, NEW arg \in Args(cmd), CommandInSight(h, cmd, arg)
  PROVE  RpgInv'
<1> DEFINE y == [Resting EXCEPT !.at = "look", !.cmd = cmd, !.arg = arg, !.p = player]
           x == IF player = NoProfile THEN Resting ELSE y
<1>1. /\ rpg[h].at = "idle" /\ UNCHANGED <<player, fights, isMod, clock, rpgFaults, paid, solved, begun, rushed>>
      /\ together' = (together \/ \E g \in RpgHandlers : rpg[g].at # "idle")
      /\ rpg' = [rpg EXCEPT ![h] = x]
  BY DEF CommandInSight
<1>2. arg \in Foes \cup FarFoes \cup Moves \cup {"none"}
  BY DEF Args
<1>3. y \in Players /\ y.at = "look" /\ y.p = player
  <2>1. Resting.todo = <<>>
    BY DEF Resting
  <2> QED
    BY <2>1, <1>2, RestingIs, RpgTypes DEF Players
<1> HIDE DEF y
<1>4. x \in Players /\ (x = Resting \/ x = y)
  BY <1>3, RestingIs
<1> HIDE DEF x
<1>5. ASSUME ~together'
      PROVE  /\ ~together /\ \A g \in RpgHandlers \ {h} : rpg[g].at = "idle"
             /\ Settled' /\ AtEase(x, player', fights' = <<>>)
  <2>1. ~together /\ \A g \in RpgHandlers \ {h} : rpg[g].at = "idle"
    BY <1>5, <1>1
  <2>2. Settled'
    BY <2>1, <1>1, RpgAlone DEF Settled
  <2>3. Kept(player, player)
    BY DEF Kept
  <2>4. AtEase(x, player, fights = <<>>)
    BY <2>3, <1>3, <1>4, RestingIs DEF AtEase
  <2> QED
    BY <2>1, <2>2, <2>4, <1>1
<1>6. ASSUME ~together', rpgFaults = 0
      PROVE  /\ ~rushed' /\ begun' \in Int /\ Paced(x, begun')
             /\ player'.hunted >= begun' \/ Saving(x)
  <2>1. ~together /\ \A g \in RpgHandlers \ {h} : rpg[g].at = "idle"
    BY <1>6, <1>1
  <2>2. ~rushed /\ begun \in Int /\ player.hunted >= begun
    BY <2>1, <1>1, <1>6, RpgAlone DEF Saving
  <2>3. Paced(x, begun)
    BY <2>2, <1>3, <1>4, RestingIs DEF Paced
  <2> QED
    BY <2>2, <2>3, <1>1
<1>7. player' \in Docs /\ fights' \in Seq(Fights) /\ paid' \in [Foes -> Nat] /\ solved' \in [EventNames -> Nat]
  BY <1>1, RpgTypes
<1> QED
  BY <1>1, <1>4, <1>5, <1>6, <1>7, RpgGoes

\* What a command finds of the combat.
LEMMA LookKeeps ==
  ASSUME RpgInv, NEW h \in RpgHandlers, Look(h)
  PROVE  RpgInv'
<1> DEFINE z == rpg[h]
           f == FirstFight
<1>1. /\ z.at = "look"
      /\ UNCHANGED <<player, fights, isMod, clock, rpgFaults, paid, solved, begun, rushed, together>>
  BY DEF Look
<1>2. PICK todo \in PlansInSight(z.cmd, z.p, f, z.arg) : rpg' = [rpg EXCEPT ![h] = Going(z, todo)]
  BY DEF Look
<1>3. z \in Players /\ z.p \in Docs /\ z.cmd \in Lookers /\ clock \in Nat /\ player \in Docs
  BY <1>1, RpgTypes
<1>4. f \in Fights \cup {NoFight} /\ (fights # <<>> => f = fights[1] /\ 1 \in 1 .. Len(fights))
      /\ (fights = <<>> => f = NoFight)
  BY RpgTypes, HeadTailProperties, EmptySeq DEF FirstFight
<1> HIDE DEF f, z
<1>5. todo = <<>> \/ Good(todo, z.p, f)
  BY <1>3, <1>4, LookersFollow
<1>6. todo \in Seq(Writes) /\ \A i \in 1 .. Len(todo) : Sound(todo[i])
  <2>1. CASE todo = <<>>
    BY <2>1
  <2>2. CASE Good(todo, z.p, f)
    BY <2>2 DEF Good
  <2> QED
    BY <2>1, <2>2, <1>5
<1> DEFINE x == Going(z, todo)
<1>7. /\ x \in Players
      /\ todo = <<>> => x.at = "idle"
      /\ todo # <<>> => x.at = "write" /\ x.todo = todo /\ (x.first <=> fights = <<>>)
  BY <1>3, <1>6, GoingIs
<1>8. rpg' = [rpg EXCEPT ![h] = x]
  BY <1>2
<1> HIDE DEF x
<1>9. ~together => /\ Settled /\ Kept(z.p, player) /\ \A g \in RpgHandlers \ {h} : rpg[g].at = "idle"
                   /\ rpgFaults = 0 => /\ ~rushed /\ begun \in Int /\ z.p.hunted >= begun
                                       /\ player.hunted >= begun
  BY <1>1, RpgAlone DEF AtEase, Paced, Saving, z
<1>10. ~together /\ todo # <<>> => Follows(todo, player, fights = <<>>)
  <2> SUFFICES ASSUME ~together, todo # <<>> PROVE Follows(todo, player, fights = <<>>)
    OBVIOUS
  <2>1. f # NoFight => z.p.kills[f.foe] = 0
    <3>1. f # NoFight => player.kills[f.foe] = 0
      BY <1>4, <1>9 DEF Settled
    <3> QED
      BY <3>1, <1>9 DEF Kept
  <2>2. Follows(todo, z.p, fights = <<>>)
    BY <2>1, <1>5 DEF Good
  <2> QED
    BY <2>2, <1>9 DEF Follows, Kept
<1>11. ASSUME ~together'
       PROVE  /\ ~together /\ \A g \in RpgHandlers \ {h} : rpg[g].at = "idle"
              /\ Settled' /\ AtEase(x, player', fights' = <<>>)
  <2>1. ~together /\ \A g \in RpgHandlers \ {h} : rpg[g].at = "idle"
    BY <1>11, <1>1, <1>9
  <2>2. Settled'
    BY <2>1, <1>1, <1>9 DEF Settled
  <2>3. AtEase(x, player, fights = <<>>)
    <3>1. CASE todo = <<>>
      BY <3>1, <1>7 DEF AtEase
    <3>2. CASE todo # <<>>
      <4>1. x.at = "write" /\ x.todo = todo /\ (x.first => fights = <<>>)
        BY <3>2, <1>7, Zenon
      <4>2. x.at # "look"
        BY <4>1
      <4> QED
        BY <2>1, <3>2, <4>1, <4>2, <1>10, Zenon DEF AtEase
    <3> QED
      BY <3>1, <3>2
  <2> QED
    BY <2>1, <2>2, <2>3, <1>1
<1>12. ASSUME ~together', rpgFaults = 0
       PROVE  /\ ~rushed' /\ begun' \in Int /\ Paced(x, begun')
              /\ player'.hunted >= begun' \/ Saving(x)
  <2>1. ~together /\ ~rushed /\ begun \in Int /\ player.hunted >= begun /\ z.p.hunted >= begun
    BY <1>12, <1>1, <1>9
  <2>2. todo # <<>> => Later(todo, begun)
    <3>1. z.p.hunted \in Int
      BY <1>3, DocFields
    <3>2. todo # <<>> => Later(todo, z.p.hunted)
      BY <1>5 DEF Good
    <3> QED
      BY <2>1, <3>1, <3>2, <1>6, <1>10, LaterThan
  <2>3. Paced(x, begun)
    <3>1. CASE todo = <<>>
      BY <3>1, <1>7 DEF Paced
    <3>2. CASE todo # <<>>
      <4>1. x.at = "write" /\ x.todo = todo /\ x.at # "look"
        BY <3>2, <1>7
      <4> QED
        BY <2>2, <3>2, <4>1 DEF Paced
    <3> QED
      BY <3>1, <3>2
  <2> QED
    BY <2>1, <2>3, <1>1
<1>13. player' \in Docs /\ fights' \in Seq(Fights) /\ paid' \in [Foes -> Nat] /\ solved' \in [EventNames -> Nat]
  BY <1>1, RpgTypes
<1> QED
  BY <1>1, <1>7, <1>8, <1>11, <1>12, <1>13, RpgGoes

\* A handler that writes.
LEMMA WriterIs ==
  ASSUME RpgInv, NEW h \in RpgHandlers, rpg[h].at = "write"
  PROVE  /\ rpg[h].todo \in Seq(Writes) /\ rpg[h].todo # <<>> /\ Len(rpg[h].todo) \in Nat \ {0}
         /\ \A i \in 1 .. Len(rpg[h].todo) : Sound(rpg[h].todo[i]) /\ rpg[h].todo[i].p \in Docs
         /\ Head(rpg[h].todo) = rpg[h].todo[1] /\ rpg[h].todo[1] \in Writes /\ Sound(rpg[h].todo[1])
         /\ Going(rpg[h], Tail(rpg[h].todo)) \in Players
         /\ ~together => /\ Settled /\ Follows(rpg[h].todo, player, fights = <<>>)
                         /\ \A g \in RpgHandlers \ {h} : rpg[g].at = "idle"
                         /\ rpg[h].todo[1].op = "fight" => (rpg[h].first => fights = <<>>)
                         /\ rpgFaults = 0 => /\ ~rushed /\ begun \in Int /\ Later(rpg[h].todo, begun)
                                             /\ player.hunted >= begun \/ rpg[h].todo[1].op = "profile"
<1> DEFINE t == rpg[h].todo
<1>1. t \in Seq(Writes) /\ t # <<>> /\ rpg[h] \in Players /\ \A i \in 1 .. Len(t) : Sound(t[i])
  BY RpgTypes
<1>2. Len(t) \in Nat \ {0} /\ 1 \in 1 .. Len(t)
  BY <1>1, EmptySeq
<1>3. \A i \in 1 .. Len(t) : t[i].p \in Docs
  BY <1>1 DEF Sound, Writes
<1>4. Head(t) = t[1] /\ t[1] \in Writes /\ Sound(t[1])
  BY <1>1, <1>2, TailIs
<1>5. Tail(t) \in Seq(Writes) /\ \A i \in 1 .. Len(Tail(t)) : Sound(Tail(t)[i])
  BY <1>1, TailIs, TailSound
<1>6. Going(rpg[h], Tail(t)) \in Players
  BY <1>1, <1>5, GoingIs
<1>7. ~together => /\ Settled /\ Follows(t, player, fights = <<>>)
                   /\ \A g \in RpgHandlers \ {h} : rpg[g].at = "idle"
                   /\ t[1].op = "fight" => (rpg[h].first => fights = <<>>)
  BY RpgAlone DEF AtEase
<1>8. ~together /\ rpgFaults = 0 => /\ ~rushed /\ begun \in Int /\ Later(t, begun)
                                    /\ player.hunted >= begun \/ t[1].op = "profile"
  BY RpgAlone DEF Paced, Saving
<1> QED
  BY <1>1, <1>2, <1>3, <1>4, <1>6, <1>7, <1>8

LEMMA WriterGoesOn ==
  ASSUME RpgInv, NEW h \in RpgHandlers, rpg[h].at = "write", ~together, NEW q, NEW c,
         Follows(Tail(rpg[h].todo), q, c)
  PROVE  /\ AtEase(Going(rpg[h], Tail(rpg[h].todo)), q, c)
         /\ \A until \in Int :
              /\ rpgFaults = 0
              /\ \A i \in 2 .. Len(rpg[h].todo) : rpg[h].todo[i].op = "profile" => rpg[h].todo[i].p.hunted >= until
              => Paced(Going(rpg[h], Tail(rpg[h].todo)), until)
<1> DEFINE t == rpg[h].todo
           x == Going(rpg[h], Tail(t))
<1>1. /\ t \in Seq(Writes) /\ t # <<>> /\ Follows(t, player, fights = <<>>) /\ (rpgFaults = 0 => Later(t, begun))
  BY WriterIs
<1>2. Tail(t) \in Seq(Writes) /\ (\A i \in 1 .. Len(Tail(t)) : Sound(Tail(t)[i])) /\ rpg[h] \in Players
      /\ \A i \in 1 .. Len(t) : Sound(t[i])
  BY <1>1, TailIs, TailSound, RpgTypes
<1>3. /\ Tail(t) = <<>> => x.at = "idle"
      /\ Tail(t) # <<>> => x.at = "write" /\ x.todo = Tail(t)
  BY <1>2, GoingIs
<1>4. Tail(t) # <<>> => Tail(t)[1].op # "fight"
  <2> SUFFICES ASSUME Tail(t) # <<>> PROVE Tail(t)[1].op # "fight"
    OBVIOUS
  <2>1. 2 \in 1 .. Len(t) /\ Tail(t)[1] = t[2]
    BY <1>1, TailIs
  <2>2. t[2].op = "fight" => 2 = 1
    BY <2>1, <1>1 DEF Follows
  <2> QED
    BY <2>1, <2>2
<1>5. AtEase(x, q, c)
  <2>1. Follows(Tail(t), q, c)
    OBVIOUS
  <2> HIDE DEF x
  <2>2. CASE Tail(t) = <<>>
    BY <2>2, <1>3 DEF AtEase
  <2>3. CASE Tail(t) # <<>>
    <3>1. x.at = "write" /\ x.todo = Tail(t) /\ x.at # "look"
      BY <2>3, <1>3
    <3> QED
      BY <2>1, <2>3, <3>1, <1>4 DEF AtEase
  <2> QED
    BY <2>2, <2>3
<1>6. ASSUME NEW until \in Int, rpgFaults = 0, \A i \in 2 .. Len(t) : t[i].op = "profile" => t[i].p.hunted >= until
      PROVE  Paced(x, until)
  <2>1. Tail(t) # <<>> => Later(Tail(t), until)
    BY <1>1, <1>6, LaterOn
  <2> HIDE DEF x
  <2>2. CASE Tail(t) = <<>>
    BY <2>2, <1>3 DEF Paced
  <2>3. CASE Tail(t) # <<>>
    <3>1. x.at = "write" /\ x.todo = Tail(t) /\ x.at # "look"
      BY <2>3, <1>3
    <3> QED
      BY <2>1, <2>3, <3>1 DEF Paced
  <2> QED
    BY <2>2, <2>3
<1> HIDE DEF t, x
<1>7. \A until \in Int : /\ rpgFaults = 0
                         /\ \A i \in 2 .. Len(t) : t[i].op = "profile" => t[i].p.hunted >= until
                         => Paced(x, until)
  BY <1>6
<1> QED
  BY <1>5, <1>7 DEF t, x

LEMMA DropFightKeeps ==
  ASSUME RpgInv, NEW h \in RpgHandlers, DropFight(h)
  PROVE  RpgInv'
<1> DEFINE t == rpg[h].todo
           x == Going(rpg[h], Tail(t))
<1>1. /\ rpg[h].at = "write" /\ Head(t).op = "unfight" /\ rpg' = [rpg EXCEPT ![h] = x]
      /\ fights' = (IF fights = <<>> THEN <<>> ELSE Tail(fights))
      /\ UNCHANGED <<player, isMod, clock, rpgFaults, paid, solved, begun, rushed, together>>
  BY DEF DropFight
<1>2. x \in Players /\ t \in Seq(Writes) /\ t # <<>> /\ Head(t) = t[1] /\ Len(t) \in Nat \ {0}
  BY <1>1, WriterIs
<1>3. player' \in Docs /\ fights' \in Seq(Fights) /\ paid' \in [Foes -> Nat] /\ solved' \in [EventNames -> Nat]
  BY <1>1, RpgTypes
<1>4. ASSUME ~together
      PROVE  /\ \A g \in RpgHandlers \ {h} : rpg[g].at = "idle"
             /\ fights' = <<>> /\ Settled' /\ AtEase(x, player, TRUE)
             /\ rpgFaults = 0 => ~rushed /\ begun \in Int /\ Paced(x, begun) /\ player.hunted >= begun
  <2>1. /\ Settled /\ Follows(t, player, fights = <<>>)
        /\ \A g \in RpgHandlers \ {h} : rpg[g].at = "idle"
        /\ rpgFaults = 0 => /\ ~rushed /\ begun \in Int /\ Later(t, begun)
                            /\ player.hunted >= begun \/ t[1].op = "profile"
    BY <1>1, <1>4, WriterIs
  <2>2. fights' = <<>>
    <3>1. CASE fights = <<>>
      BY <3>1, <1>1
    <3>2. CASE fights # <<>>
      <4>1. fights \in Seq(Fights) /\ Len(fights) <= 1
        BY <2>1, RpgTypes DEF Settled
      <4>2. Tail(fights) \in Seq(Fights) /\ Len(Tail(fights)) = Len(fights) - 1 /\ Len(fights) \in Nat
        BY <3>2, <4>1, HeadTailProperties, EmptySeq
      <4>3. Len(Tail(fights)) = 0
        BY <4>1, <4>2, EmptySeq
      <4>4. Tail(fights) = <<>>
        BY <4>2, <4>3, EmptySeq
      <4> QED
        BY <4>4, <3>2, <1>1
    <3> QED
      BY <3>1, <3>2
  <2>3. Settled'
    BY <2>1, <2>2, <1>1 DEF Settled
  <2>4. Follows(Tail(t), player, TRUE)
    BY <2>1, <1>1, <1>2, FollowsOn
  <2>5. AtEase(x, player, TRUE)
    BY <2>4, <1>1, <1>4, WriterGoesOn
  <2>6. rpgFaults = 0 => Paced(x, begun)
    <3>1. rpgFaults = 0 => \A i \in 2 .. Len(t) : t[i].op = "profile" => t[i].p.hunted >= begun
      BY <2>1, <1>2 DEF Later
    <3> QED
      BY <2>1, <2>4, <3>1, <1>1, <1>4, WriterGoesOn
  <2>7. rpgFaults = 0 => player.hunted >= begun
    BY <2>1, <1>1, <1>2
  <2> QED
    BY <2>1, <2>2, <2>3, <2>5, <2>6, <2>7
<1> HIDE DEF t, x
<1>5. ~together' => /\ ~together /\ \A g \in RpgHandlers \ {h} : rpg[g].at = "idle"
                    /\ Settled' /\ AtEase(x, player', fights' = <<>>)
  <2>1. ~together => AtEase(x, player', fights' = <<>>)
    BY <1>1, <1>4 DEF AtEase, Follows
  <2> QED
    BY <2>1, <1>1, <1>4
<1>6. ~together' /\ rpgFaults = 0 => /\ ~rushed' /\ begun' \in Int /\ Paced(x, begun')
                                     /\ player'.hunted >= begun' \/ Saving(x)
  BY <1>1, <1>4
<1> QED
  BY <1>1, <1>2, <1>3, <1>5, <1>6, RpgGoes

LEMMA LookAgainKeeps ==
  ASSUME RpgInv, NEW h \in RpgHandlers, LookAgain(h)
  PROVE  RpgInv'
<1> DEFINE t == rpg[h].todo
           y == Going(rpg[h], Tail(t))
           x == IF player = NoProfile THEN y ELSE Resting
<1>1. /\ rpg[h].at = "write" /\ Head(t).op = "lookup" /\ rpg' = [rpg EXCEPT ![h] = x]
      /\ UNCHANGED <<player, fights, isMod, clock, rpgFaults, paid, solved, begun, rushed, together>>
  BY DEF LookAgain
<1>2. y \in Players /\ t \in Seq(Writes) /\ t # <<>> /\ Head(t) = t[1] /\ Len(t) \in Nat \ {0}
  BY <1>1, WriterIs
<1>3. player' \in Docs /\ fights' \in Seq(Fights) /\ paid' \in [Foes -> Nat] /\ solved' \in [EventNames -> Nat]
  BY <1>1, RpgTypes
<1>4. ASSUME ~together
      PROVE  /\ \A g \in RpgHandlers \ {h} : rpg[g].at = "idle"
             /\ Settled /\ AtEase(y, player, fights = <<>>)
             /\ rpgFaults = 0 => ~rushed /\ begun \in Int /\ Paced(y, begun) /\ player.hunted >= begun
  <2>1. /\ Settled /\ Follows(t, player, fights = <<>>)
        /\ \A g \in RpgHandlers \ {h} : rpg[g].at = "idle"
        /\ rpgFaults = 0 => /\ ~rushed /\ begun \in Int /\ Later(t, begun)
                            /\ player.hunted >= begun \/ t[1].op = "profile"
    BY <1>1, <1>4, WriterIs
  <2>4. Follows(Tail(t), player, fights = <<>>)
    BY <2>1, <1>1, <1>2, FollowsOn
  <2>5. AtEase(y, player, fights = <<>>)
    BY <2>4, <1>1, <1>4, WriterGoesOn
  <2>6. rpgFaults = 0 => Paced(y, begun)
    <3>1. rpgFaults = 0 => \A i \in 2 .. Len(t) : t[i].op = "profile" => t[i].p.hunted >= begun
      BY <2>1, <1>2 DEF Later
    <3> QED
      BY <2>1, <2>4, <3>1, <1>1, <1>4, WriterGoesOn
  <2>7. rpgFaults = 0 => player.hunted >= begun
    BY <2>1, <1>1, <1>2
  <2> QED
    BY <2>1, <2>5, <2>6, <2>7
<1>5. x \in Players /\ (x = y \/ x = Resting)
  BY <1>2, RestingIs
<1> HIDE DEF t, y, x
<1>6. ~together' => /\ ~together /\ \A g \in RpgHandlers \ {h} : rpg[g].at = "idle"
                    /\ Settled' /\ AtEase(x, player', fights' = <<>>)
  <2>1. ~together => AtEase(x, player, fights = <<>>)
    BY <1>4, <1>5, RestingIs
  <2>2. ~together => Settled'
    BY <1>1, <1>4 DEF Settled
  <2> QED
    BY <2>1, <2>2, <1>1, <1>4
<1>7. ~together' /\ rpgFaults = 0 => /\ ~rushed' /\ begun' \in Int /\ Paced(x, begun')
                                     /\ player'.hunted >= begun' \/ Saving(x)
  BY <1>1, <1>4, <1>5, RestingIs
<1> QED
  BY <1>1, <1>3, <1>5, <1>6, <1>7, RpgGoes

LEMMA CreateKeeps ==
  ASSUME RpgInv, NEW h \in RpgHandlers, Create(h)
  PROVE  RpgInv'
<1>1. /\ rpg[h].at = "write" /\ Head(rpg[h].todo).op = "create" /\ rpg' = [rpg EXCEPT ![h] = Resting]
      /\ player' = (IF player = NoProfile THEN NewProfile ELSE player)
      /\ UNCHANGED <<fights, isMod, clock, rpgFaults, paid, solved, begun, rushed, together>>
  BY DEF Create
<1>2. player' \in Docs /\ fights' \in Seq(Fights) /\ paid' \in [Foes -> Nat] /\ solved' \in [EventNames -> Nat]
      /\ player'.kills = player.kills /\ player'.seen = player.seen /\ player'.hunted = player.hunted
  BY <1>1, RpgTypes, NewDocs
<1>3. ~together => /\ Settled /\ \A g \in RpgHandlers \ {h} : rpg[g].at = "idle"
                   /\ rpgFaults = 0 => ~rushed /\ begun \in Int /\ player.hunted >= begun
  BY <1>1, WriterIs
<1>4. ~together' => /\ ~together /\ \A g \in RpgHandlers \ {h} : rpg[g].at = "idle"
                    /\ Settled' /\ AtEase(Resting, player', fights' = <<>>)
  BY <1>1, <1>2, <1>3, RestingIs DEF Settled
<1>5. ~together' /\ rpgFaults = 0 => /\ ~rushed' /\ begun' \in Int /\ Paced(Resting, begun')
                                     /\ player'.hunted >= begun' \/ Saving(Resting)
  BY <1>1, <1>2, <1>3, RestingIs
<1> QED
  BY <1>1, <1>2, <1>4, <1>5, RestingIs, RpgGoes

\* A profile is stored over the one that was.
LEMMA WriteProfileKeeps ==
  ASSUME RpgInv, NEW h \in RpgHandlers, WriteProfile(h)
  PROVE  RpgInv'
<1> DEFINE t == rpg[h].todo
           w == Head(t)
           x == Going(rpg[h], Tail(t))
<1>1. /\ rpg[h].at = "write" /\ w.op = "profile" /\ player' = w.p
      /\ paid' = (IF w.what = "won" THEN [paid EXCEPT ![w.name] = @ + 1] ELSE paid)
      /\ solved' = (IF w.what = "solved" THEN [solved EXCEPT ![w.name] = @ + 1] ELSE solved)
      /\ rpg' = [rpg EXCEPT ![h] = x]
      /\ UNCHANGED <<fights, isMod, clock, rpgFaults, begun, rushed, together>>
  BY DEF WriteProfile
<1>2. x \in Players /\ t \in Seq(Writes) /\ t # <<>> /\ w = t[1] /\ Len(t) \in Nat \ {0} /\ Sound(w) /\ w \in Writes
  BY <1>1, WriterIs
<1>3. w.p \in Docs /\ (w.what = "won" => w.name \in Foes) /\ (w.what = "solved" => w.name \in EventNames)
  BY <1>2 DEF Sound, Writes
<1>4. player \in Docs /\ fights \in Seq(Fights) /\ paid \in [Foes -> Nat] /\ solved \in [EventNames -> Nat]
  BY RpgTypes
<1>5. player' \in Docs /\ fights' \in Seq(Fights) /\ paid' \in [Foes -> Nat] /\ solved' \in [EventNames -> Nat]
  BY <1>1, <1>3, <1>4
<1>6. ASSUME ~together
      PROVE  /\ \A g \in RpgHandlers \ {h} : rpg[g].at = "idle"
             /\ Settled /\ Follows(t, player, fights = <<>>)
             /\ AtEase(x, w.p, fights = <<>>)
             /\ rpgFaults = 0 => ~rushed /\ begun \in Int /\ Paced(x, begun) /\ w.p.hunted >= begun
  <2>1. /\ Settled /\ Follows(t, player, fights = <<>>)
        /\ \A g \in RpgHandlers \ {h} : rpg[g].at = "idle"
        /\ rpgFaults = 0 => ~rushed /\ begun \in Int /\ Later(t, begun)
    BY <1>1, <1>6, WriterIs
  <2>2. Follows(Tail(t), w.p, fights = <<>>)
    BY <2>1, <1>1, <1>2, FollowsSaved
  <2>3. AtEase(x, w.p, fights = <<>>)
    BY <2>2, <1>1, <1>6, WriterGoesOn
  <2>4. rpgFaults = 0 => Paced(x, begun)
    <3>1. rpgFaults = 0 => \A i \in 2 .. Len(t) : t[i].op = "profile" => t[i].p.hunted >= begun
      BY <2>1, <1>2 DEF Later
    <3> QED
      BY <2>1, <2>2, <3>1, <1>1, <1>6, WriterGoesOn
  <2>5. rpgFaults = 0 => w.p.hunted >= begun
    <3>1. 1 \in 1 .. Len(t)
      BY <1>2
    <3> QED
      BY <2>1, <3>1, <1>1, <1>2 DEF Later
  <2> QED
    BY <2>1, <2>3, <2>4, <2>5
<1> HIDE DEF x
<1>7. ASSUME ~together PROVE Settled'
  <2>1. Follows(t, player, fights = <<>>) /\ 1 \in 1 .. Len(t) /\ Settled
    BY <1>2, <1>6, <1>7
  <2>2. /\ w.what # "begun"
        /\ w.what \in {"nothing", "shown"} => Kept(w.p, player)
        /\ w.what = "won" =>
             /\ player.kills[w.name] = 0 /\ w.p.kills = [player.kills EXCEPT ![w.name] = @ + 1]
             /\ w.p.seen = player.seen /\ fights = <<>>
        /\ w.what = "solved" =>
             /\ w.name \notin player.seen /\ w.p.seen = player.seen \cup {w.name}
             /\ w.p.kills = player.kills
    BY <2>1, <1>1, <1>2 DEF Follows
  <2>3. w.what \in {"nothing", "shown", "solved", "won", "begun"}
    BY <1>2 DEF Writes
  <2> HIDE DEF w, t
  <2>4. CASE w.what \in {"nothing", "shown"}
    <3>1. player'.kills = player.kills /\ player'.seen = player.seen /\ paid' = paid /\ solved' = solved
      BY <2>2, <2>4, <1>1 DEF Kept
    <3> QED
      BY <3>1, <2>1, <1>1 DEF Settled
  <2>5. CASE w.what = "won"
    <3>1. player'.kills = [player.kills EXCEPT ![w.name] = @ + 1] /\ player'.seen = player.seen
          /\ fights' = <<>> /\ paid' = [paid EXCEPT ![w.name] = @ + 1] /\ solved' = solved
      BY <2>2, <2>5, <1>1
    <3>2. w.name \in Foes /\ player.kills[w.name] = 0 /\ player.kills \in [Foes -> Nat]
      BY <2>2, <2>5, <1>3, <1>4, DocFields
    <3>3. \A f \in Foes : paid'[f] <= 1 /\ paid'[f] <= player'.kills[f]
      BY <3>1, <3>2, <2>1, <1>4 DEF Settled
    <3> QED
      BY <3>1, <3>3, <2>1 DEF Settled
  <2>6. CASE w.what = "solved"
    <3>1. player'.kills = player.kills /\ player'.seen = player.seen \cup {w.name}
          /\ paid' = paid /\ solved' = [solved EXCEPT ![w.name] = @ + 1] /\ fights' = fights
      BY <2>2, <2>6, <1>1
    <3>2. w.name \in EventNames /\ w.name \notin player.seen
      BY <2>2, <2>6, <1>3
    <3>3. \A e \in EventNames : solved'[e] <= 1 /\ (e \notin player'.seen => solved'[e] = 0)
      BY <3>1, <3>2, <2>1, <1>4 DEF Settled
    <3> QED
      BY <3>1, <3>3, <2>1 DEF Settled
  <2> QED
    BY <2>2, <2>3, <2>4, <2>5, <2>6
<1> HIDE DEF w, t
<1>8. ~together' => /\ ~together /\ \A g \in RpgHandlers \ {h} : rpg[g].at = "idle"
                    /\ Settled' /\ AtEase(x, player', fights' = <<>>)
  <2>1. ~together => AtEase(x, player', fights' = <<>>)
    BY <1>1, <1>6
  <2> QED
    BY <2>1, <1>1, <1>6, <1>7
<1>9. ~together' /\ rpgFaults = 0 => /\ ~rushed' /\ begun' \in Int /\ Paced(x, begun')
                                     /\ player'.hunted >= begun' \/ Saving(x)
  BY <1>1, <1>6
<1> QED
  BY <1>1, <1>2, <1>5, <1>8, <1>9, RpgGoes

\* A combat is stored: a foe that is not beaten, and a cooldown after the last.
LEMMA WriteFightKeeps ==
  ASSUME RpgInv, NEW h \in RpgHandlers, WriteFight(h)
  PROVE  RpgInv'
<1> DEFINE t == rpg[h].todo
           w == Head(t)
           x == Going(rpg[h], Tail(t))
           when == t[2].p.hunted
           began == w.what = "begun" /\ ~isMod
<1>1. /\ rpg[h].at = "write" /\ w.op = "fight" /\ rpg' = [rpg EXCEPT ![h] = x]
      /\ \/ fights # <<>> /\ fights' = [fights EXCEPT ![1] = w.f]
         \/ (fights = <<>> \/ rpg[h].first) /\ fights' = Append(fights, w.f)
      /\ UNCHANGED <<player, isMod, clock, rpgFaults, paid, solved, together>>
  BY DEF WriteFight
<1>b. /\ began => rushed' = (rushed \/ when - begun < Cooldown) /\ begun' = when
      /\ ~began => UNCHANGED <<begun, rushed>>
  BY DEF WriteFight
<1>2. x \in Players /\ t \in Seq(Writes) /\ t # <<>> /\ w = t[1] /\ Len(t) \in Nat \ {0} /\ Sound(w)
  BY <1>1, WriterIs
<1>3. w.f \in Fights
  BY <1>1, <1>2 DEF Sound
<1>4. player \in Docs /\ fights \in Seq(Fights) /\ paid \in [Foes -> Nat] /\ solved \in [EventNames -> Nat]
  BY RpgTypes
<1>5. fights' \in Seq(Fights)
  <2>1. CASE fights # <<>> /\ fights' = [fights EXCEPT ![1] = w.f]
    <3>1. 1 \in 1 .. Len(fights)
      BY <2>1, <1>4, EmptySeq
    <3> QED
      BY <2>1, <3>1, <1>3, <1>4
  <2>2. CASE fights' = Append(fights, w.f)
    BY <2>2, <1>3, <1>4
  <2> QED
    BY <2>1, <2>2, <1>1
<1>6. player' \in Docs /\ paid' \in [Foes -> Nat] /\ solved' \in [EventNames -> Nat]
  BY <1>1, <1>4
<1>7. ASSUME ~together
      PROVE  /\ \A g \in RpgHandlers \ {h} : rpg[g].at = "idle"
             /\ Settled /\ Follows(t, player, fights = <<>>) /\ (rpg[h].first => fights = <<>>)
             /\ Len(t) = 2 /\ player.kills[w.f.foe] = 0 /\ t[2].op = "profile"
             /\ rpgFaults = 0 => ~rushed /\ begun \in Int /\ Later(t, begun) /\ player.hunted >= begun
  <2>1. /\ Settled /\ Follows(t, player, fights = <<>>)
        /\ \A g \in RpgHandlers \ {h} : rpg[g].at = "idle"
        /\ t[1].op = "fight" => (rpg[h].first => fights = <<>>)
        /\ rpgFaults = 0 => /\ ~rushed /\ begun \in Int /\ Later(t, begun)
                            /\ player.hunted >= begun \/ t[1].op = "profile"
    BY <1>1, <1>7, WriterIs
  <2>2. 1 \in 1 .. Len(t) /\ t[1].op = "fight"
    BY <1>1, <1>2
  <2>3. Len(t) = 2 /\ player.kills[t[1].f.foe] = 0 /\ t[2].op = "profile"
    BY <2>1, <2>2 DEF Follows
  <2> QED
    BY <2>1, <2>2, <2>3, <1>2
<1>8. ASSUME ~together PROVE fights' # <<>> /\ Len(fights') = 1 /\ fights'[1] = w.f
  <2>1. fights \in Seq(Fights) /\ Len(fights) <= 1 /\ Len(fights) \in Nat
    BY <1>4, <1>7, <1>8, EmptySeq DEF Settled
  <2>2. CASE fights # <<>> /\ fights' = [fights EXCEPT ![1] = w.f]
    <3>1. Len(fights) = 1
      <4>1. Len(fights) \in Nat \ {0}
        BY <2>1, <2>2, EmptySeq
      <4>2. \A n \in Nat \ {0} : n <= 1 => n = 1
        OBVIOUS
      <4> QED
        BY <2>1, <4>1, <4>2, Zenon
    <3>2. Len(fights') = Len(fights) /\ fights'[1] = w.f
      BY <2>1, <2>2, <3>1, <1>3
    <3> QED
      BY <3>1, <3>2
  <2>3. CASE (fights = <<>> \/ rpg[h].first) /\ fights' = Append(fights, w.f)
    <3>1. fights = <<>>
      BY <2>3, <1>7, <1>8
    <3>2. fights' = Append(<<>>, w.f)
      BY <2>3, <3>1
    <3> QED
      BY <3>2
  <2> QED
    BY <2>2, <2>3, <1>1
<1>9. ASSUME ~together PROVE Settled' /\ AtEase(x, player, FALSE)
  <2>1. Settled'
    <3>1. \A i \in 1 .. Len(fights') : i = 1
      BY <1>8, <1>9
    <3> QED
      BY <3>1, <1>1, <1>7, <1>8, <1>9 DEF Settled
  <2>2. Follows(Tail(t), player, FALSE)
    BY <1>1, <1>2, <1>7, <1>9, FollowsOn
  <2> QED
    BY <2>1, <2>2, <1>1, <1>9, WriterGoesOn
<1>10. ASSUME ~together, rpgFaults = 0
       PROVE  /\ ~rushed' /\ begun' \in Int /\ Paced(x, begun') /\ Saving(x)
  <2>1. ~rushed /\ begun \in Int /\ Later(t, begun) /\ player.hunted >= begun /\ Len(t) = 2 /\ t[2].op = "profile"
        /\ Follows(t, player, fights = <<>>)
    BY <1>7, <1>10
  <2>2. when \in Int /\ when >= begun /\ Cooldown \in Nat
    <3>1. 2 \in 1 .. Len(t)
      BY <2>1
    <3>2. t[2].p \in Docs
      BY <3>1, <1>1, WriterIs
    <3>3. when >= begun
      BY <2>1, <3>1 DEF Later
    <3>4. Cooldown \in Nat
      BY RpgConstants DEF RpgNumbers
    <3> QED
      BY <3>2, <3>3, <3>4, DocFields
  <2>3. began => when >= begun + Cooldown
    BY <2>1, <1>1, <1>2 DEF Later
  <2>4. ~rushed' /\ begun' \in Int /\ when >= begun'
    <3>1. CASE began
      <4>1. ~(when - begun < Cooldown) /\ when >= when
        BY <3>1, <2>1, <2>2, <2>3
      <4>2. rushed' = (rushed \/ when - begun < Cooldown) /\ begun' = when
        BY <3>1, <1>b
      <4>3. ~rushed'
        BY <4>1, <4>2, <2>1, Zenon
      <4> QED
        BY <4>1, <4>2, <4>3, <2>2
    <3>2. CASE ~began
      BY <3>2, <2>1, <2>2, <1>b
    <3> QED
      BY <3>1, <3>2
  <2>5. \A i \in 2 .. Len(t) : t[i].op = "profile" => t[i].p.hunted >= begun'
    <3>1. \A i \in 2 .. Len(t) : i = 2
      BY <2>1
    <3> QED
      BY <3>1, <2>4
  <2>6. Follows(Tail(t), player, FALSE)
    BY <2>1, <1>1, <1>2, FollowsOn
  <2>7. Paced(x, begun')
    BY <2>4, <2>5, <2>6, <1>1, <1>10, WriterGoesOn
  <2>8. Saving(x)
    <3>1. Tail(t) \in Seq(Writes) /\ Len(Tail(t)) = 1
      BY <2>1, <1>2, TailIs
    <3>2. Tail(t) # <<>> /\ Tail(t)[1] = t[2]
      <4>0. \A s \in Seq(Writes) : Len(s) = 1 => s # <<>>
        BY EmptySeq
      <4>1. Tail(t) # <<>>
        BY <3>1, <4>0, Zenon
      <4> QED
        BY <4>1, <1>2, TailIs
    <3>3. rpg[h] \in Players /\ \A i \in 1 .. Len(Tail(t)) : Sound(Tail(t)[i])
      BY <1>1, <1>2, WriterIs, RpgTypes, TailSound
    <3>4. x.at = "write" /\ x.todo = Tail(t)
      BY <3>1, <3>2, <3>3, GoingIs
    <3> HIDE DEF x
    <3> QED
      BY <3>2, <3>4, <2>1 DEF Saving
  <2> QED
    BY <2>4, <2>7, <2>8
<1> HIDE DEF x, w, t, when, began
<1>11. ~together' => /\ ~together /\ \A g \in RpgHandlers \ {h} : rpg[g].at = "idle"
                     /\ Settled' /\ AtEase(x, player', fights' = <<>>)
  <2>1. ~together => AtEase(x, player', fights' = <<>>)
    BY <1>1, <1>8, <1>9
  <2> QED
    BY <2>1, <1>1, <1>7, <1>9
<1>12. ~together' /\ rpgFaults = 0 => /\ ~rushed' /\ begun' \in Int /\ Paced(x, begun')
                                      /\ player'.hunted >= begun' \/ Saving(x)
  BY <1>1, <1>10
<1> QED
  BY <1>1, <1>2, <1>5, <1>6, <1>11, <1>12, RpgGoes

LEMMA RpgDropKeeps ==
  ASSUME RpgInv, NEW idlers \in SUBSET RpgHandlers, Drop(idlers)
  PROVE  RpgInv'
<1>1. /\ rpgFaults' = rpgFaults + 1 /\ rpg' = [h \in RpgHandlers |-> IF h \in idlers THEN Resting ELSE rpg[h]]
      /\ UNCHANGED <<player, fights, isMod, clock, commands, paid, solved, begun, rushed, together>>
  BY DEF Drop
<1>2. rpg \in [RpgHandlers -> Players] /\ rpgFaults \in Nat
  BY DEF RpgInv, RpgTyped
<1>3. \A h \in RpgHandlers : rpg'[h] = Resting \/ rpg'[h] = rpg[h]
  BY <1>1
<1>4. RpgTyped'
  BY <1>1, <1>2, RestingIs DEF RpgInv, RpgTyped
<1>5. Calm'
  <2> SUFFICES ASSUME ~together' PROVE Alone' /\ Settled' /\ \A h \in RpgHandlers : AtEase(rpg'[h], player, fights = <<>>)
    BY <1>1 DEF Calm, AtEase
  <2>1. Alone /\ Settled /\ \A h \in RpgHandlers : AtEase(rpg[h], player, fights = <<>>)
    BY <1>1 DEF RpgInv, Calm
  <2>2. Alone'
    BY <2>1, <1>3, RestingIs DEF Alone
  <2>3. Settled'
    BY <2>1, <1>1 DEF Settled
  <2>4. \A h \in RpgHandlers : AtEase(rpg'[h], player, fights = <<>>)
    BY <2>1, <1>3, RestingIs
  <2> QED
    BY <2>2, <2>3, <2>4
<1>6. Spaced'
  BY <1>1, <1>2 DEF Spaced
<1> QED
  BY <1>4, <1>5, <1>6 DEF RpgInv

LEMMA RpgKept ==
  ASSUME RpgInv, [RpgNext]_rpgVars
  PROVE  RpgInv'
<1>1. CASE UNCHANGED rpgVars
  BY <1>1 DEF rpgVars, RpgInv, RpgTyped, Calm, Spaced, Alone, Settled, AtEase, Paced, Saving, Later
<1>2. CASE ClockTicks
  <2>1. /\ UNCHANGED <<player, fights, rpg, isMod, rpgFaults, paid, solved, begun, rushed, together>>
        /\ clock' = clock + 1
    BY <1>2 DEF ClockTicks
  <2>2. RpgTyped'
    BY <2>1 DEF RpgInv, RpgTyped
  <2> QED
    BY <2>1, <2>2 DEF RpgInv, Calm, Spaced, Alone, Settled, AtEase, Paced, Saving, Later
<1>3. CASE Drop(RpgHandlers)
  BY <1>3, RpgDropKeeps
<1>4. ASSUME NEW h \in RpgHandlers, Drop({h}) PROVE RpgInv'
  BY <1>4, RpgDropKeeps
<1>5. ASSUME NEW h \in RpgHandlers,
             \/ \E cmd \in Readers : Command(h, cmd)
             \/ \E cmd \in Lookers : \E arg \in Args(cmd) : CommandInSight(h, cmd, arg)
             \/ Look(h) \/ WriteProfile(h) \/ WriteFight(h) \/ DropFight(h) \/ LookAgain(h) \/ Create(h)
      PROVE  RpgInv'
  BY <1>5, CommandKeeps, CommandInSightKeeps, LookKeeps, WriteProfileKeeps, WriteFightKeeps,
     DropFightKeeps, LookAgainKeeps, CreateKeeps
<1> QED
  BY <1>1, <1>2, <1>3, <1>4, <1>5 DEF RpgNext

LEMMA RpgImplies ==
  ASSUME RpgInv
  PROVE  RewardsHold /\ RpgTypeOK
<1>1. RewardedOnce
  BY DEF RewardedOnce, RpgInv, Calm, Settled
<1>2. HuntsSpaced
  <2>1. ~together /\ rpgFaults = 0 => ~rushed
    BY DEF RpgInv, Spaced
  <2>2. rpgFaults \in Nat
    BY DEF RpgInv, RpgTyped
  <2> QED
    BY <2>1, <2>2 DEF HuntsSpaced
<1>3. RpgTypeOK
  <2>1. player \in Profiles /\ \A h \in RpgHandlers : rpg[h] \in Players /\ rpg[h].p \in Profiles
    BY DEF RpgInv, RpgTyped, Players, Docs
  <2>2. \A i \in 1 .. Len(fights) : fights[i] \in Fights
    BY DEF RpgInv, RpgTyped
  <2>3. \A i \in 1 .. Len(fights) : fights[i].foe \in Foes /\ fights[i].hp \in Nat /\ fights[i].foeHp > 0
    BY <2>2 DEF Fights
  <2>4. \A h \in RpgHandlers : rpg[h].at \in {"idle", "look", "write"} /\ (rpg[h].at = "write" <=> rpg[h].todo # <<>>)
    BY <2>1 DEF Players
  <2> QED
    BY <2>1, <2>3, <2>4 DEF RpgTypeOK, RpgInv, RpgTyped
<1> QED
  BY <1>1, <1>2, <1>3 DEF RewardsHold

-----------------------------------------------------------------------------
(* Theorems.                                                               *)

PeopleInv == FlagInv /\ ChatInv /\ MenuInv /\ RpgInv /\ StandingInv

LEMMA PeopleStarts ==
  ASSUME PeopleInit
  PROVE  PeopleInv
BY FlagStarts, ChatStarts, MenuStarts, RpgStarts, StandingStarts DEF PeopleInv

LEMMA PeopleKept ==
  ASSUME PeopleInv, [PeopleNext]_peopleVars
  PROVE  PeopleInv'
<1>1. /\ [FeaturesNext]_flagVars /\ [ChatNext]_chatVars /\ [Next]_vars /\ [RpgNext]_rpgVars
      /\ [StandingNext]_standingVars
  BY DEF PeopleNext, peopleVars
<1> QED
  BY <1>1, FlagKept, ChatKept, MenuKept, RpgKept, StandingKept DEF PeopleInv

(* The invariant of every part holds throughout, whichever part takes steps.  *)
THEOREM PeopleAlways == PeopleSpec => []PeopleInv
<1>1. PeopleInit => PeopleInv
  BY PeopleStarts
<1>2. PeopleInv /\ [PeopleNext]_<<part, chatVars, vars, rpgVars, standingVars, flagVars>> => PeopleInv'
  BY PeopleKept DEF peopleVars
<1> QED
  BY <1>1, <1>2, PTL DEF PeopleSpec

(* Every variable has its type.                                            *)
THEOREM PeopleTyped == PeopleSpec => []PeopleTypeOK
<1>1. PeopleInv => PeopleTypeOK
  BY ChatImplies, RpgImplies, StandingImplies DEF PeopleInv, PeopleTypeOK, MenuInv, FlagInv
<1> QED
  BY <1>1, PeopleAlways, PTL

(* No user is answered beyond the limit of a period that an owner did not
   raise, whatever calls fail or are cut short, unless two of them read what
   was left together.                                                      *)
THEOREM QuotaIsHeld == PeopleSpec => []QuotaHolds
<1>1. PeopleInv => QuotaHolds
  BY ChatImplies DEF PeopleInv
<1> QED
  BY <1>1, PeopleAlways, PTL

(* The turns, the persona and the switch of the chatbot are as they were said
   and stored, but for the races and the lost answers that are named.      *)
THEOREM ChatAlwaysHolds == PeopleSpec => []ChatHolds
<1>1. PeopleInv => FlagHolds
  BY DEF PeopleInv, FlagInv, CopiesAgree, FlagHolds
<1>2. PeopleInv => ChatHolds
  BY <1>1, ChatImplies DEF PeopleInv, ChatHolds
<1> QED
  BY <1>2, PeopleAlways, PTL

(* A reply that quotes a menu which is on the stack selects in that menu; one
   that quotes a menu which is off the stack selects in the newest of the chat,
   as one that quotes nothing does.  Menus without a message, and those whose
   link went astray, are left out as the property names them.              *)
THEOREM QuotesSelect == PeopleSpec => []QuoteSelectsItsMenu
<1>1. PeopleInv => QuoteSelectsItsMenu
  BY MenuImplies DEF PeopleInv
<1> QED
  BY <1>1, PeopleAlways, PTL

(* A menu that is not answered "always" sends its media, or scores its
   question, once.                                                         *)
THEOREM AnswersOnce == PeopleSpec => []AnsweredOnce
<1>1. PeopleInv => AnsweredOnce
  BY DEF PeopleInv, MenuInv
<1> QED
  BY <1>1, PeopleAlways, PTL

(* The preferences that are stored are those that users were told, unless two
   saves crossed.                                                          *)
THEOREM PrefsKept == PeopleSpec => []PrefsAsChosen
<1>1. PeopleInv => PrefsAsChosen
  BY DEF PeopleInv, MenuInv
<1> QED
  BY <1>1, PeopleAlways, PTL

(* A player is paid once for a foe and once for an event while one command runs
   at a time, wherever it is cut short, and hunts begin a cooldown apart.  *)
THEOREM RewardsOnce == PeopleSpec => []RewardsHold
<1>1. PeopleInv => RewardsHold
  BY RpgImplies DEF PeopleInv
<1> QED
  BY <1>1, PeopleAlways, PTL

(* Streaks, meters, results and statistics are what was earned, but for saves
   that met a card other than the one they had loaded.                     *)
THEOREM StandingEarned == PeopleSpec => []StandingHolds
<1>1. PeopleInv => StandingHolds
  BY StandingImplies DEF PeopleInv
<1> QED
  BY <1>1, PeopleAlways, PTL
=============================================================================

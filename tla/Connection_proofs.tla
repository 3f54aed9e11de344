-------------------------- MODULE Connection_proofs -------------------------
(***************************************************************************)
(* Theorems about Connection, for any number of sockets, close events,     *)
(* failed operations and crashes: its type invariant, that one lost socket *)
(* is replaced once, that one socket is up at a time, that the session is  *)
(* cleared between sockets, and that a saved session is found again.       *)
(***************************************************************************)
EXTENDS Connection, TLAPS

-----------------------------------------------------------------------------
(* Types. *)

LEMMA Grows ==
  ASSUME NEW d \in Nat, NEW m \in Nat \ {0}
  PROVE  d * m \in Nat /\ d <= d * m
<1>1. d * (m - 1) >= 0
  OBVIOUS
<1> QED BY <1>1

(* The delay grows, and stays below its limit.                             *)
LEMMA LongerInRange ==
  ASSUME NEW d \in InitialDelay .. MaxDelay
  PROVE  Longer(d) \in InitialDelay .. MaxDelay
<1>1. d * Multiplier \in Nat /\ d <= d * Multiplier
  BY Grows, ConnectionAssumption
<1> DEFINE e == d * Multiplier
<1> HIDE DEF e
<1>2. e \in Nat /\ d <= e /\ Longer(d) = IF e <= MaxDelay THEN e ELSE MaxDelay
  BY <1>1 DEF e, Longer
<1> QED BY <1>2, ConnectionAssumption

LEMMA TryReconnectTyped ==
  ASSUME TypeOK, NEW s \in Sockets, TryReconnect(s)
  PROVE  /\ attempt' \in Nat
         /\ currentDelay' \in InitialDelay .. MaxDelay
         /\ revived' \in [Sockets -> Nat]
  BY LongerInRange DEF TryReconnect, TypeOK, backoff

(* What is true or false stays so, whatever the step.                      *)
LEMMA FlagsTyped ==
  ASSUME FlagsOK, [Next]_vars
  PROVE  FlagsOK'
<1> USE DEF FlagsOK, process, backoff, writes, world, bounds
<1>1. CASE Boot \/ FireTimer \/ Crash
  BY <1>1 DEF Boot, FireTimer, Connect, Crash
<1>2. ASSUME NEW c \in Callers, GetAuthState(c) \/ ConnectFails(c) \/ MakeSocket(c) PROVE FlagsOK'
  BY <1>2 DEF GetAuthState, ConnectFails, MakeSocket
<1>3. ASSUME NEW s \in Sockets, Pairs(s) \/ CredsUpdate(s) \/ Opens(s) PROVE FlagsOK'
  BY <1>3 DEF Pairs, CredsUpdate, Opens
<1>4. ASSUME NEW s \in Sockets, TryReconnect(s) PROVE {isReconnecting', armed'} \subseteq BOOLEAN
  BY <1>4 DEF TryReconnect
<1>5. ASSUME NEW s \in Sockets, NEW code \in Codes, Closes(s, code) PROVE FlagsOK'
  BY <1>4, <1>5 DEF Closes
<1>6. ASSUME NEW x \in clearing, ClearLands(x) \/ ClearFails(x) PROVE FlagsOK'
  BY <1>4, <1>6 DEF ClearLands, ClearFails, TryReconnect
<1>7. ASSUME NEW w \in saving, SaveLands(w) \/ SaveFails(w) PROVE FlagsOK'
  BY <1>7 DEF SaveLands, SaveFails
<1>8. CASE UNCHANGED vars
  BY <1>8 DEF vars
<1> QED BY <1>1, <1>2, <1>3, <1>5, <1>6, <1>7, <1>8 DEF Next

LEMMA InitTyped == Init => TypeOK
<1>1. Init => FlagsOK
  BY DEF Init, FlagsOK
<1> QED BY <1>1, ConnectionAssumption
        DEF Init, TypeOK, Session, Pairings, None, NoDoc, Calls, NoCall

LEMMA NextTyped == TypeOK /\ [Next]_vars => TypeOK'
<1> SUFFICES ASSUME TypeOK, [Next]_vars PROVE TypeOK'
  OBVIOUS
<1>0. FlagsOK'
  BY FlagsTyped DEF TypeOK
<1> USE <1>0, ConnectionAssumption DEF TypeOK, process, backoff, writes, world, bounds
<1>a. NewKey \in Nat
  BY DEF NewKey
<1>b. ASSUME NEW c \in Callers, Connect(c) PROVE keyNo' \in Nat /\ call' \in [Callers -> Calls]
  BY <1>a, <1>b DEF Connect, Calls, Pairings, None
<1>1. CASE Boot
  BY <1>1, <1>b DEF Boot, Callers
<1>2. CASE FireTimer
  BY <1>2, <1>b DEF FireTimer, Callers
<1>3. CASE Crash
  BY <1>3 DEF Crash, Calls, NoCall, Pairings, None
<1>4. ASSUME NEW c \in Callers, GetAuthState(c) PROVE TypeOK'
  <2>1. Readable(c) => store.creds \in Pairings
    BY DEF Readable, Session
  <2> DEFINE found == IF Readable(c) THEN store.creds ELSE None
  <2>a. found \in Pairings
    BY <2>1 DEF Pairings
  <2>2. call' \in [Callers -> Calls]
    <3>1. call' = [call EXCEPT ![c].at = "fetching", ![c].creds = found]
      BY <1>4 DEF GetAuthState
    <3> HIDE DEF found
    <3> QED BY <3>1, <2>a DEF Calls
  <2>3. store' \in Session \cup {NoDoc}
    BY <1>4 DEF GetAuthState, Session, Calls, Pairings, None
  <2> QED BY <1>4, <2>2, <2>3 DEF GetAuthState
<1>5. ASSUME NEW c \in Callers, ConnectFails(c) PROVE TypeOK'
  <2>1. call' \in [Callers -> Calls]
    BY <1>5 DEF ConnectFails, Calls, NoCall, Pairings, None
  <2> QED BY <1>5, <2>1 DEF ConnectFails
<1>6. ASSUME NEW c \in Callers, MakeSocket(c) PROVE TypeOK'
  <2>1. sock' \in 0 .. MaxSockets
    BY <1>6 DEF MakeSocket
  <2>2. call' \in [Callers -> Calls]
    BY <1>6 DEF MakeSocket, Calls, NoCall, Pairings, None
  <2>3. sess' \in [Sockets -> Session]
    BY <1>6 DEF MakeSocket, Calls, Session
  <2>4. attempt' \in Nat /\ currentDelay' \in InitialDelay .. MaxDelay
    BY <1>6 DEF MakeSocket
  <2> QED BY <1>6, <2>1, <2>2, <2>3, <2>4 DEF MakeSocket
<1>7. ASSUME NEW s \in Sockets, Pairs(s) PROVE TypeOK'
  <2>1. sess' \in [Sockets -> Session] /\ sess'[s] \in Session
    BY <1>7 DEF Pairs, Session, Pairings
  <2> QED BY <1>7, <2>1 DEF Pairs
<1>8. ASSUME NEW s \in Sockets, CredsUpdate(s) PROVE TypeOK'
  BY <1>8 DEF CredsUpdate
<1>9. ASSUME NEW s \in Sockets, Opens(s) PROVE TypeOK'
  BY <1>9 DEF Opens
<1>10. ASSUME NEW s \in Sockets, NEW code \in Codes, Closes(s, code) PROVE TypeOK'
  <2>1. UNCHANGED <<process, saving, store, saved, late, bounds>>
    BY <1>10 DEF Closes
  <2>2. /\ closes' \in [Sockets -> 0 .. MaxCloses] /\ closes'[s] \in 1 .. MaxCloses
        /\ wire' \in [Sockets -> {"none", "dialing", "open", "closed"}]
        /\ honoured' \in SUBSET Sockets
    BY <1>10 DEF Closes, ClosesWith
  <2>3. heard' \in [Sockets -> SUBSET Codes]
    BY <1>10 DEF Closes
  <2>4. clearing' \in SUBSET Clears
    BY <1>10, <2>2 DEF Closes, Clears
  <2>5. UNCHANGED backoff \/ TryReconnect(s)
    BY <1>10 DEF Closes
  <2> QED BY <2>1, <2>2, <2>3, <2>4, <2>5, TryReconnectTyped
<1>11. ASSUME NEW x \in clearing, ClearLands(x) \/ ClearFails(x) PROVE TypeOK'
  <2>1. x.sock \in Sockets
    BY DEF Clears
  <2>2. UNCHANGED backoff \/ TryReconnect(x.sock)
    BY <1>11 DEF ClearLands, ClearFails
  <2> QED BY <1>11, <2>1, <2>2, TryReconnectTyped DEF ClearLands, ClearFails
<1>12. ASSUME NEW w \in saving, SaveLands(w) \/ SaveFails(w) PROVE TypeOK'
  <2>1. w \in Session
    OBVIOUS
  <2> QED BY <1>12, <2>1 DEF Session, SaveLands, SaveFails
<1>13. CASE UNCHANGED vars
  BY <1>13 DEF vars
<1> QED BY <1>1, <1>2, <1>3, <1>4, <1>5, <1>6, <1>7, <1>8, <1>9, <1>10, <1>11, <1>12, <1>13 DEF Next

(* What is kept about the connection and the session is well formed in every
   instance, the delay of the backoff within its limits among it.          *)
THEOREM TypeCorrect == Spec => []TypeOK
  BY InitTyped, NextTyped, PTL DEF Spec

-----------------------------------------------------------------------------
(* The guard of the reconnect.                                             *)

Idle == \A c \in Callers : call[c].at = "no"
Live(s) == wire[s] \in {"dialing", "open"}

(* A dead process does nothing, and its sockets are closed.                *)
DeadIsIdle ==
  ~up => /\ ~listening /\ ~armed /\ clearing = {} /\ Idle
         /\ \A s \in Sockets : ~Live(s)

(* isReconnecting holds from the moment the timer is armed until its connect()
   has ended, and nobody listens during a connect().                       *)
GuardHolds ==
  /\ isReconnecting <=> armed \/ call["timer"].at # "no"
  /\ armed => call["timer"].at = "no"
  /\ \A c \in Callers : call[c].at # "no" => ~listening
  /\ call["startup"].at # "no" => ~isReconnecting /\ clearing = {}

(* Nothing happens on a socket before it is made.                          *)
UnmadeIsQuiet ==
  \A s \in Sockets : s > sock => wire[s] = "none" /\ closes[s] = 0 /\ heard[s] = {} /\ revived[s] = 0

ClearsHeard ==
  \A x \in clearing : x.code \in heard[x.sock] /\ closes[x.sock] >= 1

(* Whoever has been revived is no longer heard until the reconnect is over. *)
RevivedOnce ==
  \A s \in Sockets :
    heard[s] \cap ClearCodes = {} =>
      /\ revived[s] <= 1
      /\ s = sock /\ listening /\ revived[s] = 1 => isReconnecting

GuardInv == DeadIsIdle /\ GuardHolds /\ UnmadeIsQuiet /\ ClearsHeard /\ RevivedOnce

LEMMA InitGuard == Init => GuardInv
  BY ConnectionAssumption
     DEF Init, GuardInv, DeadIsIdle, GuardHolds, UnmadeIsQuiet, ClearsHeard, RevivedOnce,
         Idle, Live, NoCall, Callers

(* TryReconnect by a socket that is heard, or that has asked to clear.     *)
LEMMA TryReconnectGuarded ==
  ASSUME TypeOK, GuardInv, NEW s \in Sockets, TryReconnect(s), UNCHANGED <<up, call, listening, sock>>,
         heard' \in [Sockets -> SUBSET Codes], heard[s] \subseteq heard'[s],
         \A t \in Sockets : t # s => heard'[t] = heard[t],
         up, call["startup"].at = "no", s <= sock,
         heard'[s] \cap ClearCodes # {} \/ (s = sock /\ listening)
  PROVE  /\ isReconnecting' <=> armed' \/ call'["timer"].at # "no"
         /\ armed' => call'["timer"].at = "no"
         /\ \A t \in Sockets : t > sock => revived'[t] = revived[t]
         /\ RevivedOnce'
<1>1. CASE isReconnecting
  BY <1>1 DEF TryReconnect, backoff, GuardInv, GuardHolds, RevivedOnce, TypeOK
<1>2. CASE ~isReconnecting
  <2>1. revived' = [revived EXCEPT ![s] = @ + 1] /\ isReconnecting' = TRUE /\ armed' = TRUE
    BY <1>2 DEF TryReconnect
  <2>2. call["timer"].at = "no" /\ ~armed
    BY <1>2 DEF GuardInv, GuardHolds
  <2>3. heard'[s] \cap ClearCodes = {} => revived[s] = 0
    BY <1>2 DEF GuardInv, RevivedOnce, TypeOK
  <2>4. RevivedOnce'
    BY <2>1, <2>3 DEF GuardInv, RevivedOnce, TypeOK
  <2>5. \A t \in Sockets : t > sock => revived'[t] = revived[t]
    BY <2>1 DEF TypeOK, Sockets
  <2> QED BY <2>1, <2>2, <2>4, <2>5
<1> QED BY <1>1, <1>2

LEMMA NextGuard == TypeOK /\ GuardInv /\ [Next]_vars => GuardInv'
<1> SUFFICES ASSUME TypeOK, GuardInv, [Next]_vars PROVE GuardInv'
  OBVIOUS
<1> USE DEF GuardInv, DeadIsIdle, GuardHolds, UnmadeIsQuiet, ClearsHeard, RevivedOnce, Idle, Live,
            TypeOK, Callers, process, backoff, writes, world, bounds
<1>1. CASE Boot
  BY <1>1 DEF Boot, Connect
<1>2. CASE FireTimer
  BY <1>2 DEF FireTimer, Connect
<1>3. CASE Crash
  BY <1>3 DEF Crash, NoCall
<1>4. ASSUME NEW c \in Callers, GetAuthState(c) PROVE GuardInv'
  BY <1>4 DEF GetAuthState
<1>5. ASSUME NEW c \in Callers, ConnectFails(c) PROVE GuardInv'
  BY <1>5 DEF ConnectFails, NoCall
<1>6. ASSUME NEW c \in Callers, MakeSocket(c) PROVE GuardInv'
  BY <1>6 DEF MakeSocket, NoCall, Sockets
<1>7. ASSUME NEW s \in Sockets, Pairs(s) \/ CredsUpdate(s) \/ Opens(s) PROVE GuardInv'
  BY <1>7 DEF Pairs, CredsUpdate, Opens
<1>8. ASSUME NEW s \in Sockets, NEW code \in Codes, Closes(s, code) PROVE GuardInv'
  <2>1. /\ UNCHANGED <<process, saving, store, saved, late, bounds>> /\ up
        /\ s <= sock
        /\ closes' = [closes EXCEPT ![s] = @ + 1] /\ wire' = [wire EXCEPT ![s] = "closed"]
    BY <1>8 DEF Closes, ClosesWith, Sockets
  <2>2. CASE ~Heard(s)
    <3>1. UNCHANGED <<heard, clearing, backoff>>
      BY <1>8, <2>2 DEF Closes
    <3> QED BY <2>1, <3>1 DEF Sockets
  <2>3. CASE Heard(s) /\ code \in ClearCodes
    <3>1. /\ heard' = [heard EXCEPT ![s] = @ \cup {code}]
          /\ clearing' = clearing \cup {[sock |-> s, nth |-> closes'[s], code |-> code]}
          /\ UNCHANGED backoff
      BY <1>8, <2>3 DEF Closes
    <3>2. ClearsHeard'
      BY <2>1, <3>1 DEF Clears
    <3>3. RevivedOnce' /\ UnmadeIsQuiet'
      BY <2>1, <2>3, <3>1 DEF Heard
    <3> QED BY <2>1, <2>3, <3>1, <3>2, <3>3 DEF Heard
  <2>4. CASE Heard(s) /\ code \notin ClearCodes
    <3>1. /\ heard' = [heard EXCEPT ![s] = @ \cup {code}]
          /\ UNCHANGED clearing /\ TryReconnect(s)
      BY <1>8, <2>4 DEF Closes
    <3>2. ClearsHeard'
      BY <2>1, <3>1 DEF Clears
    <3>3. /\ isReconnecting' <=> armed' \/ call'["timer"].at # "no"
          /\ armed' => call'["timer"].at = "no"
          /\ \A t \in Sockets : t > sock => revived'[t] = revived[t]
          /\ RevivedOnce'
      BY <2>1, <2>4, <3>1, TryReconnectGuarded DEF Heard
    <3> QED BY <2>1, <2>4, <3>1, <3>2, <3>3 DEF Heard
  <2> QED BY <2>2, <2>3, <2>4
<1>9. ASSUME NEW x \in clearing, ClearLands(x) PROVE GuardInv'
  <2>1. /\ clearing' = clearing \ {x} /\ UNCHANGED <<process, saving, saved, late, world, bounds>>
        /\ UNCHANGED backoff \/ TryReconnect(x.sock)
    BY <1>9 DEF ClearLands
  <2>2. /\ x.sock \in Sockets /\ x.sock <= sock /\ heard[x.sock] \cap ClearCodes # {}
        /\ up /\ call["startup"].at = "no"
    BY DEF Clears, Sockets
  <2>3. CASE UNCHANGED backoff
    BY <2>1, <2>3
  <2>4. CASE TryReconnect(x.sock)
    <3>1. /\ isReconnecting' <=> armed' \/ call'["timer"].at # "no"
          /\ armed' => call'["timer"].at = "no"
          /\ \A t \in Sockets : t > sock => revived'[t] = revived[t]
          /\ RevivedOnce'
      BY <2>1, <2>2, <2>4, TryReconnectGuarded
    <3> QED BY <2>1, <2>2, <3>1
  <2> QED BY <2>1, <2>3, <2>4
<1>10. ASSUME NEW x \in clearing, ClearFails(x) PROVE GuardInv'
  BY <1>10 DEF ClearFails
<1>11. ASSUME NEW w \in saving, SaveLands(w) \/ SaveFails(w) PROVE GuardInv'
  BY <1>11 DEF SaveLands, SaveFails
<1>12. CASE UNCHANGED vars
  BY <1>12 DEF vars
<1> QED BY <1>1, <1>2, <1>3, <1>4, <1>5, <1>6, <1>7, <1>8, <1>9, <1>10, <1>11, <1>12 DEF Next

LEMMA GuardInvariant == Spec => [](TypeOK /\ GuardInv)
  BY TypeCorrect, InitGuard, NextGuard, PTL DEF Spec

(* One lost socket leads to one reconnect, however often it closes, however
   many other sockets have their sessions cleared, and across crashes.     *)
THEOREM ReconnectsOnce == Spec => []OneReconnectUnlessCleared
<1>1. GuardInv => OneReconnectUnlessCleared
  BY DEF GuardInv, RevivedOnce, OneReconnectUnlessCleared
<1> QED BY <1>1, GuardInvariant, PTL

-----------------------------------------------------------------------------
(* One socket at a time.                                                   *)

(* While no socket that asked to clear has closed twice, at most one of these
   is there: a live socket, a session being cleared, an armed timer, a
   connect().                                                              *)
AloneInv ==
  ClosedOnce =>
    /\ \A s \in Sockets : Live(s) => s = sock /\ listening /\ ~armed /\ clearing = {}
    /\ \A x \in clearing : x.sock = sock /\ listening /\ ~armed /\ clearing = {x}
    /\ armed => listening /\ sock \in Sockets /\ closes[sock] >= 1

LEMMA InitAlone == Init => AloneInv
  BY DEF Init, AloneInv, Live

(* Closing is counted, so a socket that has not closed twice had not before. *)
LEMMA ClosedOnceBefore ==
  ASSUME TypeOK, [Next]_vars, ClosedOnce'
  PROVE  ClosedOnce
<1> SUFFICES \A s \in Sockets : closes[s] <= closes'[s] /\ heard[s] \subseteq heard'[s]
  <2>1. \A s \in Sockets : closes[s] \in Nat /\ closes'[s] \in Nat
    BY NextTyped DEF TypeOK
  <2> QED BY <2>1 DEF ClosedOnce
<1>1. ASSUME NEW t \in Sockets, NEW code \in Codes, Closes(t, code), NEW s \in Sockets
      PROVE  closes[s] <= closes'[s] /\ heard[s] \subseteq heard'[s]
  <2>1. closes' = [closes EXCEPT ![t] = @ + 1]
    BY <1>1 DEF Closes, ClosesWith
  <2>2. heard' = heard \/ heard' = [heard EXCEPT ![t] = @ \cup {code}]
    BY <1>1 DEF Closes
  <2> QED BY <2>1, <2>2 DEF TypeOK
<1>2. CASE UNCHANGED <<heard, closes>>
  BY <1>2 DEF TypeOK
<1> QED BY <1>1, <1>2
        DEF Next, Boot, FireTimer, Crash, GetAuthState, ConnectFails, MakeSocket, Pairs,
            CredsUpdate, Opens, ClearLands, ClearFails, SaveLands, SaveFails, vars, world

LEMMA NextAlone == TypeOK /\ GuardInv /\ AloneInv /\ [Next]_vars => AloneInv'
<1> SUFFICES ASSUME TypeOK, GuardInv, AloneInv, [Next]_vars, ClosedOnce' PROVE AloneInv'
  BY DEF AloneInv
<1>0. ClosedOnce
  BY ClosedOnceBefore
<1> USE <1>0 DEF AloneInv, GuardInv, DeadIsIdle, GuardHolds, UnmadeIsQuiet, ClearsHeard, Idle, Live,
            TypeOK, Callers, process, backoff, writes, world, bounds
<1>1. CASE Boot
  BY <1>1 DEF Boot, Connect
<1>2. CASE FireTimer
  BY <1>2 DEF FireTimer, Connect
<1>3. CASE Crash
  BY <1>3 DEF Crash
<1>4. ASSUME NEW c \in Callers, GetAuthState(c) \/ ConnectFails(c) PROVE AloneInv'
  BY <1>4 DEF GetAuthState, ConnectFails
<1>5. ASSUME NEW c \in Callers, MakeSocket(c) PROVE AloneInv'
  BY <1>5 DEF MakeSocket, Sockets
<1>6. ASSUME NEW s \in Sockets, Pairs(s) \/ CredsUpdate(s) \/ Opens(s) PROVE AloneInv'
  BY <1>6 DEF Pairs, CredsUpdate, Opens
<1>7. ASSUME NEW s \in Sockets, NEW code \in Codes, Closes(s, code) PROVE AloneInv'
  <2>1. /\ UNCHANGED <<process, saving, store, saved, late, bounds>> /\ up
        /\ closes[s] > 0 \/ Live(s)
        /\ closes' = [closes EXCEPT ![s] = @ + 1] /\ wire' = [wire EXCEPT ![s] = "closed"]
    BY <1>7 DEF Closes, ClosesWith
  <2>2. CASE ~Heard(s)
    <3>1. UNCHANGED <<heard, clearing, backoff>>
      BY <1>7, <2>2 DEF Closes
    <3> QED BY <2>1, <3>1
  <2>3. CASE Heard(s)
    <3>1. Idle /\ sock = s /\ listening
      BY <2>3 DEF Heard
    <3>2. heard' = [heard EXCEPT ![s] = @ \cup {code}]
      BY <1>7, <2>3 DEF Closes
    <3>3. clearing = {}
      \* A second close of a socket whose session is being cleared.
      <4> SUFFICES ASSUME NEW x \in clearing PROVE FALSE
        OBVIOUS
      <4>1. x.sock = s /\ closes[s] >= 1 /\ x.code \in heard[s] /\ x.code \in ClearCodes
        BY <3>1 DEF Clears
      <4> QED BY <2>1, <3>2, <4>1 DEF ClosedOnce
    <3>4. CASE code \in ClearCodes
      <4>1. ~armed
        BY <2>1, <3>1, <3>2, <3>4 DEF ClosedOnce
      <4>2. /\ clearing' = clearing \cup {[sock |-> s, nth |-> closes'[s], code |-> code]}
            /\ UNCHANGED backoff
        BY <1>7, <2>3, <3>4 DEF Closes
      <4> QED BY <2>1, <3>1, <3>3, <4>1, <4>2
    <3>5. CASE code \notin ClearCodes
      <4>1. UNCHANGED clearing /\ TryReconnect(s)
        BY <1>7, <2>3, <3>5 DEF Closes
      <4> QED BY <2>1, <3>1, <3>3, <4>1 DEF TryReconnect
    <3> QED BY <3>4, <3>5
  <2> QED BY <2>2, <2>3
<1>8. ASSUME NEW x \in clearing, ClearLands(x) \/ ClearFails(x) PROVE AloneInv'
  <2>1. clearing' = {} /\ UNCHANGED <<process, saving, saved, late, world>>
    BY <1>8 DEF ClearLands, ClearFails
  <2>2. Idle /\ listening /\ sock \in Sockets /\ closes[sock] >= 1 /\ \A s \in Sockets : ~Live(s)
    BY DEF Clears
  <2> QED BY <2>1, <2>2
<1>9. ASSUME NEW w \in saving, SaveLands(w) \/ SaveFails(w) PROVE AloneInv'
  BY <1>9 DEF SaveLands, SaveFails
<1>10. CASE UNCHANGED vars
  BY <1>10 DEF vars
<1> QED BY <1>1, <1>2, <1>3, <1>4, <1>5, <1>6, <1>7, <1>8, <1>9, <1>10 DEF Next

LEMMA AloneInvariant == Spec => [](TypeOK /\ GuardInv /\ AloneInv)
  BY GuardInvariant, InitAlone, NextAlone, PTL DEF Spec

(* One connection is alive at a time, across reconnects, restarts and failures,
   while no socket that asked to clear the session has closed twice.       *)
THEOREM SocketsAlone == Spec => []OneSocketUp
<1>1. AloneInv => OneSocketUp
  BY DEF AloneInv, OneSocketUp, Live
<1> QED BY <1>1, AloneInvariant, PTL

(* While no socket that asked to clear the session has closed twice
   (ClosedOnce), the session is deleted only between two sockets: the late
   clear of a second close is left out.                                    *)
THEOREM ClearsBetween == Spec => ClearedBetweenSessions
<1>1. TypeOK /\ GuardInv /\ AloneInv /\ [Next]_vars =>
        [ClosedOnce /\ store # NoDoc /\ store' = NoDoc =>
           /\ \A c \in Callers : call[c].at = "no"
           /\ \A s \in Sockets : wire[s] \notin {"dialing", "open"}]_vars
  <2> SUFFICES ASSUME TypeOK, GuardInv, AloneInv, Next, ClosedOnce, store # NoDoc, store' = NoDoc
               PROVE  /\ \A c \in Callers : call[c].at = "no"
                      /\ \A s \in Sockets : wire[s] \notin {"dialing", "open"}
    OBVIOUS
  <2>1. ASSUME NEW c \in Callers PROVE ~GetAuthState(c)
    BY <2>1 DEF GetAuthState, NoDoc, None
  <2>2. ASSUME NEW w \in saving PROVE ~SaveLands(w)
    BY <2>2 DEF SaveLands, TypeOK, Session, NoDoc, Pairings, None, Sockets
  <2>3. PICK x \in clearing : ClearLands(x) \/ ClearFails(x)
    BY <2>1, <2>2 DEF Next, Boot, FireTimer, Crash, ConnectFails, MakeSocket, Pairs, CredsUpdate,
                      Opens, Closes, SaveFails, writes
  <2> QED BY <2>3 DEF AloneInv, GuardInv, GuardHolds, TypeOK, Callers, Live
<1> QED BY <1>1, AloneInvariant, PTL DEF Spec, ClearedBetweenSessions

-----------------------------------------------------------------------------
(* What is known of a pairing.                                             *)

Known(p) == p # None => p \in 1 .. sock /\ sess[p].creds = p

(* A pairing that is named anywhere was made by its own socket.            *)
PairingsKnown ==
  /\ \A p \in honoured \cup saved : Known(p)
  /\ \A s \in Sockets : Known(sess[s].creds)
  /\ \A c \in Callers : Known(call[c].creds)
  /\ \A w \in saving : Known(w.creds)
  /\ store # NoDoc => Known(store.creds)

(* A session that is cleared was paired, and has been refused.             *)
ClearedRefused == \A x \in clearing : sess[x.sock].creds \notin honoured \cup {None}

KeysFixed ==
  FixedKey =>
    /\ \A s \in Sockets : sess[s].key = 0
    /\ \A c \in Callers : call[c].key = 0
    /\ \A w \in saving : w.key = 0
    /\ store # NoDoc => store.key = 0

(* The one accepted pairing that was saved is in the store, in a connect()
   that has read the store, and in the socket that listens.                *)
FoundAgain ==
  FixedKey /\ ClosedOnce /\ ~late =>
    \A p \in honoured \cap saved :
      /\ store.creds = p
      /\ \A c \in Callers : call[c].at = "fetching" => call[c].creds = p
      /\ listening => sess[sock].creds = p

PairingInv == PairingsKnown /\ ClearedRefused /\ KeysFixed /\ FoundAgain

LEMMA InitPairing == Init => PairingInv
  BY DEF Init, PairingInv, PairingsKnown, Known, ClearedRefused, KeysFixed, FoundAgain, NoCall, NoDoc, None

LEMMA NextPairing == TypeOK /\ GuardInv /\ AloneInv /\ PairingInv /\ [Next]_vars => PairingInv'
<1> SUFFICES ASSUME TypeOK, GuardInv, AloneInv, PairingInv, [Next]_vars PROVE PairingInv'
  OBVIOUS
<1>0. ClosedOnce' => ClosedOnce
  BY ClosedOnceBefore
<1>1. CASE Boot
  BY <1>0, <1>1 DEF Boot, Connect, NewKey, PairingInv, PairingsKnown, Known, ClearedRefused, KeysFixed, FoundAgain,
    TypeOK, Callers, None, writes, world
<1>2. CASE FireTimer
  BY <1>0, <1>2 DEF FireTimer, Connect, NewKey, PairingInv, PairingsKnown, Known, ClearedRefused, KeysFixed, FoundAgain,
    TypeOK, Callers, None, writes, world
<1>3. CASE Crash
  BY <1>0, <1>3 DEF Crash, NoCall, PairingInv, PairingsKnown, Known, ClearedRefused, KeysFixed, FoundAgain,
    TypeOK, Callers, None
<1>4. ASSUME NEW c \in Callers, GetAuthState(c) PROVE PairingInv'
  BY <1>0, <1>4 DEF GetAuthState, Readable, PairingInv, PairingsKnown, Known, ClearedRefused, KeysFixed, FoundAgain,
    TypeOK, Callers, None, NoDoc, world, backoff, bounds
<1>5. ASSUME NEW c \in Callers, ConnectFails(c) PROVE PairingInv'
  BY <1>0, <1>5 DEF ConnectFails, PairingInv, PairingsKnown, Known, ClearedRefused, KeysFixed, FoundAgain,
    TypeOK, Callers, None, NoCall, world, writes
<1>6. ASSUME NEW c \in Callers, MakeSocket(c) PROVE PairingInv'
  <2>0. sock' = sock + 1 /\ sock' \in Sockets
    BY <1>6, ConnectionAssumption DEF MakeSocket, Sockets, TypeOK
  <2>1. /\ sock' = sock + 1 /\ sock' \in Sockets
        /\ sess' = [sess EXCEPT ![sock'] = [creds |-> call[c].creds, key |-> call[c].key]]
        /\ call' = [call EXCEPT ![c] = NoCall]
        /\ UNCHANGED <<writes, honoured>> /\ call[c].at = "fetching"
    BY <1>6, <2>0 DEF MakeSocket
  <2>2. /\ \A s \in Sockets : s # sock' => sess'[s] = sess[s]
        /\ sess'[sock'] = [creds |-> call[c].creds, key |-> call[c].key]
    BY <2>1 DEF TypeOK
  <2>3. ASSUME NEW p, Known(p) PROVE Known(p)'
    BY <2>1, <2>2, <2>3 DEF Known, TypeOK, Sockets
  <2>4. PairingsKnown'
    BY <2>1, <2>2, <2>3 DEF PairingInv, PairingsKnown, TypeOK, NoCall, Known, writes
  <2>5. ClearedRefused'
    <3>1. \A x \in clearing : x.sock # sock'
      BY <2>1 DEF GuardInv, ClearsHeard, UnmadeIsQuiet, TypeOK, Clears, Sockets
    <3> QED BY <2>1, <2>2, <3>1 DEF PairingInv, ClearedRefused, TypeOK, Clears, writes
  <2>6. KeysFixed'
    BY <2>1, <2>2 DEF PairingInv, KeysFixed, TypeOK, NoCall, writes
  <2>7. FoundAgain'
    BY <1>0, <2>1, <2>2 DEF PairingInv, FoundAgain, TypeOK, NoCall, writes
  <2> QED BY <2>4, <2>5, <2>6, <2>7 DEF PairingInv
<1>7. ASSUME NEW s \in Sockets, Pairs(s) PROVE PairingInv'
  <2>1. /\ wire[s] = "dialing" /\ sess[s].creds = None
        /\ sess' = [sess EXCEPT ![s].creds = s] /\ honoured' = honoured \cup {s}
        /\ saving' = saving \/ saving' = saving \cup {sess'[s]}
        /\ UNCHANGED <<sock, listening, call, clearing, store, saved, late, closes, heard>>
    BY <1>7 DEF Pairs
  <2>2. /\ \A r \in Sockets : r # s => sess'[r] = sess[r]
        /\ sess'[s].creds = s /\ sess'[s].key = sess[s].key
    BY <2>1 DEF TypeOK, Session
  <2>3. s <= sock
    BY <2>1 DEF GuardInv, UnmadeIsQuiet, TypeOK, Sockets
  <2>4. ASSUME NEW p, Known(p) PROVE Known(p)' /\ p # s
    BY <2>1, <2>2, <2>4 DEF Known, TypeOK, Sockets, None
  <2>5. Known(s)'
    BY <2>1, <2>2, <2>3 DEF Known, Sockets
  <2>6. PairingsKnown'
    <3>1. (\A p \in honoured \cup saved : Known(p))'
      BY <2>1, <2>4, <2>5 DEF PairingInv, PairingsKnown, Known
    <3>2. (\A r \in Sockets : Known(sess[r].creds))'
      BY <2>1, <2>2, <2>4, <2>5 DEF PairingInv, PairingsKnown, Known
    <3>3. (/\ \A c \in Callers : Known(call[c].creds)
           /\ \A w \in saving : Known(w.creds)
           /\ store # NoDoc => Known(store.creds))'
      BY <2>1, <2>2, <2>4, <2>5 DEF PairingInv, PairingsKnown, Known
    <3> QED BY <3>1, <3>2, <3>3 DEF PairingsKnown
  <2>7. ClearedRefused'
    <3> SUFFICES ASSUME NEW x \in clearing
                 PROVE  sess'[x.sock].creds \notin honoured' \cup {None}
      BY <2>1 DEF ClearedRefused
    <3>1. x.sock \in Sockets /\ sess[x.sock].creds \notin honoured \cup {None}
      BY DEF PairingInv, ClearedRefused, TypeOK, Clears
    <3>2. x.sock # s
      BY <2>1, <3>1
    <3> QED BY <2>1, <2>2, <2>4, <3>1, <3>2 DEF PairingInv, PairingsKnown
  <2>8. KeysFixed'
    BY <2>1, <2>2 DEF PairingInv, KeysFixed
  <2>9. FoundAgain'
    <3> SUFFICES ASSUME FixedKey, ClosedOnce, ~late PROVE honoured' \cap saved' = {}
      BY <1>0, <2>1 DEF FoundAgain
    <3>1. s = sock /\ listening
      BY <2>1 DEF AloneInv, Live
    <3>2. s \notin saved
      BY <2>4 DEF PairingInv, PairingsKnown
    <3>3. ASSUME NEW p \in honoured \cap saved PROVE FALSE
      BY <2>1, <3>1 DEF PairingInv, FoundAgain, TypeOK, Sockets, None
    <3> QED BY <2>1, <3>2, <3>3
  <2> QED BY <2>6, <2>7, <2>8, <2>9 DEF PairingInv
<1>8. ASSUME NEW s \in Sockets, CredsUpdate(s) \/ Opens(s) PROVE PairingInv'
  BY <1>0, <1>8 DEF CredsUpdate, Opens, PairingInv, PairingsKnown, Known, ClearedRefused, KeysFixed, FoundAgain,
    process, backoff, world, bounds, writes
<1>9. ASSUME NEW s \in Sockets, NEW code \in Codes, Closes(s, code) PROVE PairingInv'
  BY <1>0, <1>9 DEF Closes, ClosesWith, PairingInv, PairingsKnown, Known, ClearedRefused, KeysFixed, FoundAgain,
    process
<1>10. ASSUME NEW x \in clearing, ClearLands(x) PROVE PairingInv'
  BY <1>0, <1>10 DEF ClearLands, PairingInv, PairingsKnown, Known, ClearedRefused, KeysFixed, FoundAgain,
    process, world, AloneInv, TypeOK
<1>11. ASSUME NEW x \in clearing, ClearFails(x) PROVE PairingInv'
  BY <1>0, <1>11 DEF ClearFails, PairingInv, PairingsKnown, Known, ClearedRefused, KeysFixed, FoundAgain,
    process, world, AloneInv, TypeOK
<1>12. ASSUME NEW w \in saving, SaveLands(w) PROVE PairingInv'
  <2>1. /\ saving' = saving \ {w} /\ UNCHANGED <<process, clearing, world>>
        /\ \/ UNCHANGED <<store, saved, late>>
           \/ /\ store # NoDoc /\ store' = w /\ saved' = saved \cup {w.creds}
              /\ late' = (late \/ ~listening \/ w # sess[sock])
    BY <1>12 DEF SaveLands
  <2>2. PairingsKnown' /\ ClearedRefused' /\ KeysFixed'
    BY <2>1 DEF PairingInv, PairingsKnown, Known, ClearedRefused, KeysFixed, process, world
  <2>3. CASE UNCHANGED <<store, saved, late>>
    BY <1>0, <2>1, <2>2, <2>3 DEF PairingInv, FoundAgain, process, world
  <2>4. CASE store' = w /\ saved' = saved \cup {w.creds} /\ late' = (late \/ ~listening \/ w # sess[sock])
    <3> SUFFICES ASSUME FixedKey, ClosedOnce, ~late', NEW p \in honoured \cap saved'
                 PROVE  /\ w.creds = p /\ sess[sock].creds = p
                        /\ \A c \in Callers : call[c].at # "fetching"
      BY <1>0, <2>1, <2>2, <2>4 DEF PairingInv, FoundAgain, process, world
    <3>1. ~late /\ listening /\ w = sess[sock]
      BY <2>4
    <3>2. p \in saved => sess[sock].creds = p
      BY <3>1 DEF PairingInv, FoundAgain
    <3>3. \A c \in Callers : call[c].at # "fetching"
      BY <3>1 DEF GuardInv, GuardHolds
    <3> QED BY <2>4, <3>1, <3>2, <3>3
  <2> QED BY <2>1, <2>3, <2>4
<1>13. ASSUME NEW w \in saving, SaveFails(w) PROVE PairingInv'
  BY <1>0, <1>13 DEF SaveFails, PairingInv, PairingsKnown, Known, ClearedRefused, KeysFixed, FoundAgain,
    process, world
<1>14. CASE UNCHANGED vars
  BY <1>0, <1>14 DEF vars, process, world, writes, PairingInv, PairingsKnown, Known, ClearedRefused, KeysFixed, FoundAgain
<1> QED BY <1>1, <1>2, <1>3, <1>4, <1>5, <1>6, <1>7, <1>8, <1>9, <1>10, <1>11, <1>12, <1>13, <1>14 DEF Next

(* With a fixed key, while no socket that asked to clear the session has closed
   twice (ClosedOnce) and no save has landed after the next connect() began
   (late), the saved session is found again: nobody is asked to pair while an
   accepted pairing is stored.                                             *)
THEOREM PairsOnlyWhenNeeded == Spec => []NoNeedlessPairing
<1>1. TypeOK /\ GuardInv /\ AloneInv /\ PairingInv => NoNeedlessPairing
  <2> SUFFICES ASSUME TypeOK, AloneInv, PairingInv, FixedKey, ClosedOnce, ~late,
                      NEW s \in Sockets, wire[s] = "dialing", sess[s].creds = None,
                      NEW p \in honoured \cap saved
               PROVE  FALSE
    BY DEF NoNeedlessPairing
  <2>1. s = sock /\ listening
    BY DEF AloneInv, Live
  <2> QED BY <2>1 DEF PairingInv, FoundAgain, TypeOK, None, Sockets
<1> QED BY <1>1, AloneInvariant, InitPairing, NextPairing, PTL DEF Spec
=============================================================================

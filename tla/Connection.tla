----------------------------- MODULE Connection -----------------------------
(***************************************************************************)
(* RuntimeClient's connection to WhatsApp: connect(), the handler of       *)
(* connection.update, the reconnect timer with its exponential backoff,    *)
(* and the session that MongoAuthStore keeps in MongoDB.                   *)
(*                                                                         *)
(* Between two awaits the code runs alone.  The awaits of connect() are    *)
(* its stages; clear() and saveCreds() are writes in flight until they     *)
(* land.  The WhatsApp side (a socket opens, closes, is paired) is         *)
(* external.  The auth keys are kept and deleted with the credentials and  *)
(* are not told apart from them.                                           *)
(***************************************************************************)
EXTENDS Integers, FiniteSets

CONSTANTS
  Codes,        \* why a connection closes: "lost", "badSession", "loggedOut"
  FixedKey,     \* whether APP_ENCRYPTION_KEY is set
  InitialDelay, Multiplier, MaxDelay,   \* ExponentialBackoff's configuration
  MaxSockets,   \* bound: sockets made in a behaviour
  MaxCloses,    \* bound: close events of one socket
  MaxFails,     \* bound: database operations that fail
  MaxCrashes    \* bound: crashes of the process

AllCodes   == {"lost", "badSession", "loggedOut"}
ClearCodes == {"badSession", "loggedOut"}

ASSUME ConnectionAssumption ==
  /\ Codes \subseteq AllCodes /\ FixedKey \in BOOLEAN
  /\ InitialDelay \in Nat \ {0} /\ Multiplier \in Nat \ {0} /\ MaxDelay \in Nat
  /\ InitialDelay <= MaxDelay
  /\ MaxSockets \in Nat \ {0} /\ MaxCloses \in Nat \ {0}
  /\ MaxFails \in Nat /\ MaxCrashes \in Nat

Sockets  == 1 .. MaxSockets
None     == 0                       \* credentials that are not registered
Pairings == {None} \cup Sockets     \* a pairing is named after its socket
Callers  == {"startup", "timer"}    \* who calls connect()

Session == [creds : Pairings, key : Nat]
NoDoc   == [creds |-> -1, key |-> 0]
Calls   == [at : {"no", "loading", "fetching"}, creds : Pairings, key : Nat]
NoCall  == [at |-> "no", creds |-> None, key |-> 0]
Clears  == [sock : Sockets, nth : 1 .. MaxCloses, code : ClearCodes]

VARIABLES
  up,            \* the process runs
  sock,          \* the last socket made; 0 when there was none
  listening,     \* its listeners are attached (disposeSocket removes them)
  sess,          \* sess[s]: the credentials in memory of socket s, and their key
  call,          \* call[c]: how far the connect() of caller c is
  isReconnecting,
  armed,         \* the reconnect timer is running
  attempt, currentDelay,                \* ExponentialBackoff
  clearing,      \* clear() calls in flight, each awaited by a close handler
  saving,        \* saveCreds() calls in flight
  store,         \* the stored session document
  wire,          \* wire[s]: external, the connection of socket s
  honoured,      \* external: the pairings WhatsApp accepts
  keyNo,         \* keys generated so far
  fails, crashes,
  heard,         \* heard[s]: ghost, the close codes the handler saw of s
  closes,        \* closes[s]: close events of s so far
  revived,       \* revived[s]: ghost, reconnects that closes of s started
  saved,         \* ghost: pairings that reached the store
  late           \* ghost: a save landed after the next connect() had begun

process == <<up, sock, listening, sess, call>>
backoff == <<isReconnecting, armed, attempt, currentDelay, revived>>
writes  == <<clearing, saving, store, saved, late>>
world   == <<wire, honoured, heard, closes>>
bounds  == <<keyNo, fails, crashes>>
vars    == <<process, backoff, writes, world, bounds>>

FlagsOK == {up, listening, isReconnecting, armed, late} \subseteq BOOLEAN

TypeOK ==
  /\ FlagsOK
  /\ sock \in 0 .. MaxSockets
  /\ sess \in [Sockets -> Session]
  /\ call \in [Callers -> Calls]
  /\ attempt \in Nat
  /\ currentDelay \in InitialDelay .. MaxDelay
  /\ clearing \in SUBSET Clears /\ saving \in SUBSET Session
  /\ store \in Session \cup {NoDoc}
  /\ wire \in [Sockets -> {"none", "dialing", "open", "closed"}]
  /\ honoured \in SUBSET Sockets /\ saved \in SUBSET Pairings
  /\ keyNo \in Nat /\ fails \in 0 .. MaxFails /\ crashes \in 0 .. MaxCrashes
  /\ heard \in [Sockets -> SUBSET Codes]
  /\ closes \in [Sockets -> 0 .. MaxCloses]
  /\ revived \in [Sockets -> Nat]

Init ==
  /\ up = FALSE /\ sock = 0 /\ listening = FALSE
  /\ sess = [s \in Sockets |-> [creds |-> None, key |-> 0]]
  /\ call = [c \in Callers |-> NoCall]
  /\ isReconnecting = FALSE /\ armed = FALSE
  /\ attempt = 0 /\ currentDelay = InitialDelay
  /\ clearing = {} /\ saving = {} /\ store = NoDoc
  /\ wire = [s \in Sockets |-> "none"] /\ honoured = {}
  /\ keyNo = 0 /\ fails = 0 /\ crashes = 0
  /\ heard = [s \in Sockets |-> {}] /\ closes = [s \in Sockets |-> 0]
  /\ revived = [s \in Sockets |-> 0]
  /\ saved = {} /\ late = FALSE

-----------------------------------------------------------------------------
(* Mutant: the delay grows without a limit. *)
Longer_NoLimit(d) == d * Multiplier

(* ExponentialBackoff: the delay is returned, then multiplied up to a limit. *)
Longer(d) == IF d * Multiplier <= MaxDelay THEN d * Multiplier ELSE MaxDelay

(* Mutant: whoever is reconnecting, reconnect. *)
TryReconnect_Unguarded(s) ==
  /\ isReconnecting' = TRUE /\ armed' = TRUE
  /\ attempt' = attempt + 1
  /\ currentDelay' = Longer(currentDelay)
  /\ revived' = [revived EXCEPT ![s] = @ + 1]

(* The end of the close handler: one reconnect at a time. *)
TryReconnect(s) ==
  IF isReconnecting THEN UNCHANGED backoff
  ELSE /\ isReconnecting' = TRUE /\ armed' = TRUE
       /\ attempt' = attempt + 1
       /\ currentDelay' = Longer(currentDelay)
       /\ revived' = [revived EXCEPT ![s] = @ + 1]

(* connect() up to its first await: the old socket loses its listeners but is
   not closed, and without APP_ENCRYPTION_KEY a new key is generated.      *)
NewKey == IF FixedKey THEN 0 ELSE keyNo + 1

Connect(c) ==
  /\ listening' = FALSE
  /\ keyNo' = NewKey
  /\ call' = [call EXCEPT ![c] = [at |-> "loading", creds |-> None, key |-> NewKey]]

Boot ==
  /\ ~up /\ up' = TRUE
  /\ Connect("startup")
  /\ UNCHANGED <<sock, sess, backoff, writes, world, fails, crashes>>

(* Mutant: an interval instead of a timeout. *)
FireTimer_Repeats ==
  /\ armed /\ UNCHANGED armed
  /\ Connect("timer")
  /\ UNCHANGED <<up, sock, sess, isReconnecting, attempt, currentDelay, revived,
                 writes, world, fails, crashes>>

FireTimer ==
  /\ armed /\ armed' = FALSE
  /\ Connect("timer")
  /\ UNCHANGED <<up, sock, sess, isReconnecting, attempt, currentDelay, revived,
                 writes, world, fails, crashes>>

(* loadCredsDocument inserts a document when there is none.  Credentials that
   were encrypted under another key do not decrypt: new ones are made.     *)
Readable(c) == store # NoDoc /\ store.key = call[c].key

GetAuthState(c) ==
  /\ call[c].at = "loading"
  /\ store' = IF store = NoDoc THEN [creds |-> None, key |-> call[c].key] ELSE store
  /\ call' = [call EXCEPT ![c].at = "fetching",
                          ![c].creds = IF Readable(c) THEN store.creds ELSE None]
  /\ UNCHANGED <<up, sock, listening, sess, backoff, clearing, saving, saved, late,
                 world, bounds>>

(* connect() rejects, at the document or at what it awaits after it.  The
   timer's call is over, nothing tries again; the startup stage fails and the
   process stays up.                                                       *)
ConnectFails(c) ==
  /\ call[c].at # "no" /\ fails < MaxFails
  /\ fails' = fails + 1
  /\ call' = [call EXCEPT ![c] = NoCall]
  /\ isReconnecting' = IF c = "timer" THEN FALSE ELSE isReconnecting
  /\ UNCHANGED <<up, sock, listening, sess, armed, attempt, currentDelay, revived,
                 writes, world, keyNo, crashes>>

(* Mutant: the reconnect is never marked as over. *)
MakeSocket_StillReconnecting(c) ==
  /\ call[c].at = "fetching" /\ sock < MaxSockets
  /\ sock' = sock + 1 /\ listening' = TRUE
  /\ sess' = [sess EXCEPT ![sock'] = [creds |-> call[c].creds, key |-> call[c].key]]
  /\ wire' = [wire EXCEPT ![sock'] = "dialing"]
  /\ call' = [call EXCEPT ![c] = NoCall]
  /\ UNCHANGED <<up, backoff, writes, honoured, heard, closes, bounds>>

(* The socket is made and gets its listeners.  The promise callbacks run
   before any event: the backoff is reset, the reconnect is over.          *)
MakeSocket(c) ==
  /\ call[c].at = "fetching" /\ sock < MaxSockets
  /\ sock' = sock + 1 /\ listening' = TRUE
  /\ sess' = [sess EXCEPT ![sock'] = [creds |-> call[c].creds, key |-> call[c].key]]
  /\ wire' = [wire EXCEPT ![sock'] = "dialing"]
  /\ call' = [call EXCEPT ![c] = NoCall]
  /\ IF c = "timer"
     THEN isReconnecting' = FALSE /\ attempt' = 0 /\ currentDelay' = InitialDelay
     ELSE UNCHANGED <<isReconnecting, attempt, currentDelay>>
  /\ UNCHANGED <<up, armed, revived, writes, honoured, heard, closes, bounds>>

-----------------------------------------------------------------------------
Heard(s) == listening /\ s = sock

(* The device is linked: the credentials are registered and saved. *)
Pairs(s) ==
  /\ wire[s] = "dialing" /\ sess[s].creds = None
  /\ sess' = [sess EXCEPT ![s].creds = s]
  /\ honoured' = honoured \cup {s}
  /\ saving' = IF Heard(s) THEN saving \cup {sess'[s]} ELSE saving
  /\ UNCHANGED <<up, sock, listening, call, backoff, clearing, store, saved, late,
                 wire, heard, closes, bounds>>

(* creds.update in a running session. *)
CredsUpdate(s) ==
  /\ wire[s] = "open" /\ Heard(s)
  /\ saving' = saving \cup {sess[s]}
  /\ UNCHANGED <<process, backoff, clearing, store, saved, late, world, bounds>>

Opens(s) ==
  /\ wire[s] = "dialing" /\ sess[s].creds \in honoured
  /\ wire' = [wire EXCEPT ![s] = "open"]
  /\ UNCHANGED <<process, backoff, writes, honoured, heard, closes, bounds>>

(* A close event.  Only a registered session can be refused: as logged out
   when WhatsApp no longer accepts it, and it no longer does afterwards.   *)
ClosesWith(s, code) ==
  /\ closes[s] < MaxCloses /\ (wire[s] \in {"dialing", "open"} \/ closes[s] > 0)
  /\ code \in ClearCodes => sess[s].creds # None
  /\ closes' = [closes EXCEPT ![s] = @ + 1]
  /\ wire' = [wire EXCEPT ![s] = "closed"]
  /\ honoured' = IF code \in ClearCodes THEN honoured \ {sess[s].creds} ELSE honoured

(* Mutant: the session is cleared without waiting for it. *)
Closes_NoAwait(s, code) ==
  /\ up /\ ClosesWith(s, code)
  /\ IF Heard(s)
     THEN /\ heard' = [heard EXCEPT ![s] = @ \cup {code}]
          /\ IF code \in ClearCodes
             THEN clearing' = clearing \cup {[sock |-> s, nth |-> closes'[s], code |-> "loggedOut"]}
             ELSE UNCHANGED clearing
          /\ IF code # "loggedOut" THEN TryReconnect(s) ELSE UNCHANGED backoff
     ELSE UNCHANGED <<heard, clearing, backoff>>
  /\ UNCHANGED <<process, saving, store, saved, late, bounds>>

(* Mutant: the session is cleared whatever the code. *)
Closes_ClearAlways(s, code) ==
  /\ up /\ ClosesWith(s, code)
  /\ IF Heard(s)
     THEN /\ heard' = [heard EXCEPT ![s] = @ \cup {code}]
          /\ clearing' = clearing \cup {[sock |-> s, nth |-> closes'[s], code |-> "badSession"]}
     ELSE UNCHANGED <<heard, clearing>>
  /\ UNCHANGED <<process, backoff, saving, store, saved, late, bounds>>

(* handleConnectionUpdate: an invalid session is cleared before anything else
   is decided; a logout is not followed by a reconnect.                    *)
Closes(s, code) ==
  /\ up /\ ClosesWith(s, code)
  /\ IF Heard(s)
     THEN /\ heard' = [heard EXCEPT ![s] = @ \cup {code}]
          /\ IF code \in ClearCodes
             THEN /\ clearing' = clearing \cup {[sock |-> s, nth |-> closes'[s], code |-> code]}
                  /\ UNCHANGED backoff
             ELSE TryReconnect(s) /\ UNCHANGED clearing
     ELSE UNCHANGED <<heard, clearing, backoff>>
  /\ UNCHANGED <<process, saving, store, saved, late, bounds>>

ClearLands(x) ==
  /\ x \in clearing
  /\ clearing' = clearing \ {x}
  /\ store' = NoDoc
  /\ IF x.code = "badSession" THEN TryReconnect(x.sock) ELSE UNCHANGED backoff
  /\ UNCHANGED <<process, saving, saved, late, world, bounds>>

(* The handler rejects, with the document deleted or not: nobody handles it,
   and nothing reconnects.                                                 *)
ClearFails(x) ==
  /\ x \in clearing /\ fails < MaxFails
  /\ clearing' = clearing \ {x}
  /\ store' \in {store, NoDoc}
  /\ fails' = fails + 1
  /\ UNCHANGED <<process, backoff, saving, saved, late, world, keyNo, crashes>>

(* updateOne without upsert: nothing is written when the document is gone. *)
SaveLands(w) ==
  /\ w \in saving
  /\ saving' = saving \ {w}
  /\ IF store = NoDoc THEN UNCHANGED <<store, saved, late>>
     ELSE /\ store' = w
          /\ saved' = saved \cup {w.creds}
          /\ late' = (late \/ ~listening \/ w # sess[sock])
  /\ UNCHANGED <<process, backoff, clearing, world, bounds>>

SaveFails(w) ==
  /\ w \in saving /\ fails < MaxFails
  /\ saving' = saving \ {w}
  /\ fails' = fails + 1
  /\ UNCHANGED <<process, backoff, clearing, store, saved, late, world, keyNo, crashes>>

(* The process dies with what was in flight; its sockets close. *)
Crash ==
  /\ up /\ crashes < MaxCrashes
  /\ crashes' = crashes + 1
  /\ up' = FALSE /\ listening' = FALSE
  /\ call' = [c \in Callers |-> NoCall]
  /\ isReconnecting' = FALSE /\ armed' = FALSE
  /\ attempt' = 0 /\ currentDelay' = InitialDelay
  /\ clearing' = {} /\ saving' = {}
  /\ wire' = [s \in Sockets |-> IF wire[s] = "none" THEN "none" ELSE "closed"]
  /\ UNCHANGED <<sock, sess, revived, store, saved, late, honoured, heard, closes, keyNo, fails>>

Next ==
  \/ Boot \/ FireTimer \/ Crash
  \/ \E c \in Callers : GetAuthState(c) \/ ConnectFails(c) \/ MakeSocket(c)
  \/ \E s \in Sockets :
       \/ Pairs(s) \/ CredsUpdate(s) \/ Opens(s)
       \/ \E code \in Codes : Closes(s, code)
  \/ \E x \in clearing : ClearLands(x) \/ ClearFails(x)
  \/ \E w \in saving : SaveLands(w) \/ SaveFails(w)

Spec == Init /\ [][Next]_vars

(* Node runs a due timer, and MongoDB answers. *)
Fairness ==
  /\ WF_vars(FireTimer)
  /\ \A c \in Callers : WF_vars(GetAuthState(c)) /\ WF_vars(MakeSocket(c))
  /\ WF_vars(\E x \in clearing : ClearLands(x))

-----------------------------------------------------------------------------
(***************************************************************************)
(* Properties                                                              *)
(***************************************************************************)

(* No socket whose close asked to clear the session has closed twice.  Such a
   socket may be replaced twice: its handler awaits clear() before the guard,
   and the second clear() may land when the new socket is already up.       *)
ClosedOnce == \A s \in Sockets : closes[s] <= 1 \/ heard[s] \cap ClearCodes = {}

(* At most one connection to WhatsApp is alive: a socket that lost its
   listeners to a newer one is closed already (connect never closes it), as
   long as ClosedOnce holds.                                               *)
OneSocketUp ==
  ClosedOnce =>
    \A s, t \in Sockets :
      wire[s] \in {"dialing", "open"} /\ wire[t] \in {"dialing", "open"} => s = t

(* With APP_ENCRYPTION_KEY set, a new pairing is asked for only when no
   accepted pairing ever reached the store: across reconnects, restarts and
   failed writes the saved session is found again (MongoAuth: "using stored
   key for session").  Left out are a second clear of one socket (ClosedOnce)
   and saves that landed after the next connect() had begun (late): either may
   replace the session of a newer socket.                                  *)
NoNeedlessPairing ==
  FixedKey /\ ClosedOnce =>
    \A s \in Sockets :
      wire[s] = "dialing" /\ sess[s].creds = None => late \/ honoured \cap saved = {}

(* The stored session is deleted only after its socket is gone and before
   another one is on its way, unless a socket asked to clear and closed twice
   (ClosedOnce): the second clear() may land later.                        *)
ClearedBetweenSessions ==
  [][ClosedOnce /\ store # NoDoc /\ store' = NoDoc =>
       /\ \A c \in Callers : call[c].at = "no"
       /\ \A s \in Sockets : wire[s] \notin {"dialing", "open"}]_vars

(* RuntimeClient: "Guards against multiple concurrent reconnect attempts when
   WA fires connection.update {connection: 'close'} twice in quick
   succession".  One lost socket leads to one reconnect at most, unless a
   close asked to clear: its handler awaits clear() before the guard.      *)
OneReconnectUnlessCleared ==
  \A s \in Sockets : heard[s] \cap ClearCodes = {} => revived[s] <= 1

(* The handler says "Reconnecting..." of every close but a logout: then a new
   socket is made.                                                         *)
ComesBack ==
  \A s \in 1 .. MaxSockets - 1 :
    (heard[s] # {} /\ "loggedOut" \notin heard[s]) ~> (sock > s)

=============================================================================

------------------------------ MODULE MCSession -----------------------------
(***************************************************************************)
(* What outlives a connection: the session of the connection with its      *)
(* credentials, the Signal keys beside them, and the snapshots on disk     *)
(* that every connect prunes.  Small instances, one at a time: Connection  *)
(* has the order of connects and closes, KeyStore what a clear meets.      *)
(***************************************************************************)
EXTENDS Connection, KeyStore, ViewOnce

VARIABLE part

SessionInit ==
  /\ part \in {"connection", "keys", "snapshots"}
  /\ Init /\ KeyStoreInit /\ ViewOnceInit

SessionNext ==
  \/ part = "connection" /\ Next /\ UNCHANGED <<part, keyVars, viewVars>>
  \/ part = "keys" /\ KeyStoreNext /\ UNCHANGED <<part, vars, viewVars>>
  \/ part = "snapshots" /\ ViewOnceNext /\ UNCHANGED <<part, vars, keyVars>>

SessionSpec == SessionInit /\ [][SessionNext]_<<part, vars, keyVars, viewVars>>

(* Every variable of the three has its type.                               *)
SessionTypeOK == TypeOK /\ KeyStoreTypeOK /\ ViewOnceTypeOK
=============================================================================

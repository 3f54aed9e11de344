---------------------------- MODULE MCConnection ----------------------------
(***************************************************************************)
(* A small instance of Connection for TLC, in which no operation fails and *)
(* the process does not die: nothing in the code tries a failed reconnect  *)
(* again.  MCSession has the failures and the crash.                       *)
(***************************************************************************)
EXTENDS Connection

Reconnects == {"lost", "badSession"}

SteadyNext == Next /\ UNCHANGED <<fails, crashes>>
SteadySpec == Init /\ [][SteadyNext]_vars /\ Fairness
=============================================================================

---------------------------- MODULE MCCommandGate ----------------------------
(* Small instances of CommandGate for TLC: a moderator, a user and a group. *)
EXTENDS CommandGate, TLC

CONSTANTS boss, fan, g1, h1, h2, h3

OneMode == [g \in Groups |-> "pn"]

HandlerSymmetry == Permutations(Handlers)
=============================================================================

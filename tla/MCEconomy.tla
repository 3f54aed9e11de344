----------------------------- MODULE MCEconomy ------------------------------
(***************************************************************************)
(* Small instances of Economy for TLC.  MaxSafe is far above anything the  *)
(* bounded number of commands can earn.                                    *)
(***************************************************************************)
EXTENDS Economy, TLC

All     == [kind |-> "all",   n |-> 0]
Some(k) == [kind |-> "coins", n |-> k]

MCTyped     == {All, Some(2)}
MCTypedTwo  == {Some(2)}
MCCooldown == [c \in Gated |-> 1]
MCSolo  == {"deposit", "withdraw", "coinflip", "dice", "blackjack", "roulette", "slot", "buy",
            "daily", "beg", "crime", "farm", "invest", "collect"}
MCPairs == {"pay", "deposit", "rob", "heist", "duel"}
MCDaily   == {"daily", "beg"}
MCHarvest == {"farm", "collect"}

Symmetry == Permutations(Handlers)
=============================================================================

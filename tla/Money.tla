------------------------------- MODULE Money --------------------------------
(***************************************************************************)
(* The pure money arithmetic of src/core/economy/utils.ts: clamping to the *)
(* range MongoDB may store, reading an amount the user typed, and checking *)
(* a bet.                                                                  *)
(***************************************************************************)
EXTENDS Integers

CONSTANT MaxSafe     \* Number.MAX_SAFE_INTEGER

ASSUME MaxSafeAssumption == MaxSafe \in Nat \ {0}

(* What a stored balance may be. *)
Money == 0 .. MaxSafe

(* An amount as typed: "all" (or "max"), "half", or a number of coins.  The
   shorthand k and m, and a negative number (which the parser turns into 0),
   are numbers of coins by the time anything depends on them.              *)
Amounts == [kind : {"all", "half", "coins"}, n : Nat]

(* Mutant: no lower bound. *)
ClampMoney_NoFloor(value) == IF value > MaxSafe THEN MaxSafe ELSE value

ClampMoney(value) ==
  IF value < 0 THEN 0 ELSE IF value > MaxSafe THEN MaxSafe ELSE value

(* Only "all" and "half" look at what is available: a number is taken as it
   is, however little the account holds.                                   *)
ParseAmountInput(typed, available) ==
  CASE typed.kind = "all"   -> ClampMoney(available)
    [] typed.kind = "half"  -> ClampMoney(available \div 2)
    [] typed.kind = "coins" -> ClampMoney(typed.n)

(* parseBetInput throws unless the bet is within all three limits. *)
BetAccepted(typed, minBet, maxBet, available) ==
  LET bet == ParseAmountInput(typed, available)
  IN  minBet <= bet /\ bet <= maxBet /\ bet <= available

TotalWealth(doc) == ClampMoney(ClampMoney(doc.wallet) + ClampMoney(doc.bank))

=============================================================================

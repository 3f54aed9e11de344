------------------------------- MODULE MCGames ------------------------------
(***************************************************************************)
(* What people play, side by side: the board and word games, and the ships *)
(* and reactions that make bonds.  They are commands of their own that     *)
(* share no state, so one behaviour plays one of them.                     *)
(***************************************************************************)
EXTENDS ConnectFour, Ludo, Chess, Parlour, Bonds

CONSTANTS u1, u2, u3

VARIABLE playing

ThreeEntries == <<0, 2, 3>>
UserSymmetry == Permutations({u1, u2, u3})
TwoWords     == {{"a", "b"}, {"b", "c"}}

\* Bonds: four addresses, of which the fourth is another device of the first.
AddressesOf4 == 1 .. 4
DeviceOf(a)  == IF a = 4 THEN 1 ELSE a
Devices      == [a \in AddressesOf4 |-> DeviceOf(a)]
DeltaOf      == [kiss |-> 2]
Doc(count, shippers, given) == [count |-> count, shippers |-> shippers, given |-> given, rebased |-> FALSE]
OldBonds ==
  {4, 2} :> Doc(2, {4, 2}, {<<4, "kiss">>}) @@ {1, 4} :> Doc(1, {4}, {})
    @@ {1} :> Doc(0, {2}, {}) @@ {4} :> Doc(0, {2}, {}) @@ {2} :> Doc(0, {4}, {})

MaxDeeds == 2   \* bound: ships and reactions together

Games == {"bonds", "connect4", "ludo", "chess", "parlour"}

Init ==
  /\ playing \in Games
  /\ C4Init /\ LudoInit /\ ChessInit /\ ParlourInit /\ BondsInit

Next ==
  \/ playing = "connect4" /\ C4Next /\ UNCHANGED <<playing, ludoVars, chessVars, parlourVars, bondVars>>
  \/ playing = "ludo" /\ LudoNext /\ UNCHANGED <<playing, c4Vars, chessVars, parlourVars, bondVars>>
  \/ playing = "chess" /\ ChessNext /\ UNCHANGED <<playing, c4Vars, ludoVars, parlourVars, bondVars>>
  \/ playing = "parlour" /\ ParlourNext /\ UNCHANGED <<playing, c4Vars, ludoVars, chessVars, bondVars>>
  \/ playing = "bonds" /\ BondsNext /\ ships' + reactions' <= MaxDeeds
     /\ UNCHANGED <<playing, c4Vars, ludoVars, chessVars, parlourVars>>

Spec == Init /\ [][Next]_<<playing, c4Vars, ludoVars, chessVars, parlourVars, bondVars>>

(***************************************************************************)
(* Properties of the games together.                                       *)
(***************************************************************************)

(* The variables of what is played have their types, and what a board shows
   is what the rules make of the moves: lines end a game of connect4, no two
   colors of ludo share a cell, and a life of hangman is a wrong letter.   *)
BoardsHold ==
  /\ playing = "connect4" => C4TypeOK /\ LineDecides
  /\ playing = "ludo" => LudoTypeOK /\ OneColorPerCell
  /\ playing = "chess" => ChessTypeOK
  /\ playing = "parlour" => ParlourTypeOK /\ LivesAreLetters
  /\ playing = "bonds" => BondsTypeOK

(* connect4 and ludo implement the game of turns.                          *)
AreTurnGames == C4IsATurnGame /\ LudoIsATurnGame
=============================================================================

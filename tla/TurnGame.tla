------------------------------ MODULE TurnGame ------------------------------
(***************************************************************************)
(* What a board game in a chat promises its players, whatever the board:   *)
(* they sit in an order that lasts as long as the game, only the one whose *)
(* turn it is moves, the turn stays or goes to the next seat, anyone may   *)
(* give the game up but not to themselves, and a game that is over is over *)
(* until the next challenge.                                               *)
(***************************************************************************)
EXTENDS Integers, SequencesExt

CONSTANT Nobody     \* no winner, no mover

VARIABLES
  seats,    \* the players in their order, empty before the first game
  turn,     \* the seat whose turn it is
  over,     \* the game is over
  winner,   \* who has won it
  mover     \* who sent the last command that changed the game

vars == <<seats, turn, over, winner, mover>>

Init ==
  /\ seats = <<>> /\ turn = 1 /\ over = TRUE
  /\ winner = Nobody /\ mover = Nobody

(* The challenger has the first seat and the first turn. *)
Deal ==
  /\ over /\ ~over'
  /\ Len(seats') >= 2 /\ seats'[1] = mover' /\ turn' = 1 /\ winner' = Nobody

Move ==
  /\ ~over /\ mover' = seats[turn]
  /\ turn' \in {turn, (turn % Len(seats)) + 1}
  /\ UNCHANGED <<seats, over, winner>>

Finish ==
  /\ ~over /\ over' /\ mover' = seats[turn]
  /\ winner' \in {Nobody, mover'}
  /\ UNCHANGED <<seats, turn>>

Forfeit ==
  /\ ~over /\ over'
  /\ winner' \in Range(seats) \ {mover'}
  /\ UNCHANGED <<seats, turn>>

Spec == Init /\ [][Deal \/ Move \/ Finish \/ Forfeit]_vars
=============================================================================

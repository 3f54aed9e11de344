---------------------------- MODULE ConnectFour -----------------------------
(***************************************************************************)
(* The connect4 command: one game per chat, kept in memory.  Chats share   *)
(* nothing, and a handler changes the game before its first await, so each *)
(* command is one step.  A column is the sequence of the pieces in it,     *)
(* from the bottom: dropPiece finds the lowest free row.                   *)
(***************************************************************************)
EXTENDS Integers, SequencesExt

CONSTANTS
  C4Users,   \* who writes in the chat
  Rows, Cols,
  InARow     \* pieces in a row that win: 4

NoUser == "nobody"

ASSUME C4Assumption ==
  Rows \in Nat /\ Cols \in Nat /\ InARow \in Nat \ {0} /\ NoUser \notin C4Users

Empty  == 0
Pieces == {1, 2}

VARIABLES
  c4,        \* the game, its board apart
  c4Board,   \* the pieces in each column
  c4Mover    \* ghost: who sent the last command that changed the game

c4Vars == <<c4, c4Board, c4Mover>>

NoGame   == [p1 |-> NoUser, p2 |-> NoUser, turn |-> 1, over |-> TRUE, winner |-> NoUser]
NewBoard == [c \in 1 .. Cols |-> <<>>]

C4TypeOK ==
  /\ c4 \in [p1 : C4Users \cup {NoUser}, p2 : C4Users \cup {NoUser}, turn : Pieces,
             over : BOOLEAN, winner : C4Users \cup {NoUser}]
  /\ \A c \in 1 .. Cols : c4Board[c] \in BoundedSeq(Pieces, Rows)
  /\ c4Mover \in C4Users \cup {NoUser}

C4Init == c4 = NoGame /\ c4Board = NewBoard /\ c4Mover = NoUser

-----------------------------------------------------------------------------
Cell(board, c, r) ==
  IF c \in 1 .. Cols /\ r \in 1 .. Rows /\ r <= Len(board[c]) THEN board[c][r] ELSE Empty

Directions == {<<1, 0>>, <<0, 1>>, <<1, 1>>, <<1, -1>>}

Line(board, c, r, d, player) ==
  \A i \in 0 .. InARow - 1 : Cell(board, c + i * d[1], r + i * d[2]) = player

(* Mutant: only the cells in front of the new piece are counted. *)
CheckWin_OneSided(board, c, r, player) ==
  \E d \in Directions : Line(board, c, r, d, player)

(* checkWin: some line through the new piece is long enough. *)
CheckWin(board, c, r, player) ==
  \E d \in Directions, i \in 0 .. InARow - 1 :
    Line(board, c - i * d[1], r - i * d[2], d, player)

IsFull(board) == \A c \in 1 .. Cols : Len(board[c]) = Rows

PlayerIn(turn) == IF turn = 1 THEN c4.p1 ELSE c4.p2

(* "challenge": it needs no answer, the game starts. *)
C4Challenge(sender, opponent) ==
  /\ c4.over /\ opponent # sender
  /\ c4' = [p1 |-> sender, p2 |-> opponent, turn |-> 1, over |-> FALSE, winner |-> NoUser]
  /\ c4Board' = NewBoard
  /\ c4Mover' = sender

\* dropPiece: the piece falls on those that are in the column.
DropPiece(board, c, piece) == [board EXCEPT ![c] = Append(@, piece)]

(* Mutant: whoever plays the game may drop a piece. *)
C4Drop_AnyPlayer(sender, c) ==
  /\ ~c4.over /\ Len(c4Board[c]) < Rows
  /\ sender \in {c4.p1, c4.p2}
  /\ c4Board' = DropPiece(c4Board, c, c4.turn)
  /\ c4' = [c4 EXCEPT !.turn = 3 - c4.turn]
  /\ c4Mover' = sender

(* A column number: the column has room, the sender's turn it is, and the
   piece wins, fills the board, or hands the turn over.                    *)
C4Drop(sender, c) ==
  LET board == DropPiece(c4Board, c, c4.turn)
      won   == CheckWin(board, c, Len(board[c]), c4.turn)
  IN  /\ ~c4.over /\ Len(c4Board[c]) < Rows
      /\ sender = PlayerIn(c4.turn)
      /\ c4Board' = board
      /\ c4' = IF won THEN [c4 EXCEPT !.over = TRUE, !.winner = sender]
               ELSE IF IsFull(board) THEN [c4 EXCEPT !.over = TRUE]
               ELSE [c4 EXCEPT !.turn = 3 - c4.turn]
      /\ c4Mover' = sender

(* "ff" is taken from anyone in the chat, and whoever is not the first player
   makes the first player win.                                             *)
C4Forfeit(sender) ==
  /\ ~c4.over
  /\ c4' = [c4 EXCEPT !.over = TRUE, !.winner = IF sender = c4.p1 THEN c4.p2 ELSE c4.p1]
  /\ c4Mover' = sender
  /\ UNCHANGED c4Board

C4Next ==
  \E u \in C4Users :
    \/ \E v \in C4Users : C4Challenge(u, v)
    \/ \E c \in 1 .. Cols : C4Drop(u, c)
    \/ C4Forfeit(u)

C4Spec == C4Init /\ [][C4Next]_c4Vars

-----------------------------------------------------------------------------
(***************************************************************************)
(* Properties                                                              *)
(***************************************************************************)

HasLine(player) ==
  \E c \in 1 .. Cols, r \in 1 .. Rows, d \in Directions : Line(c4Board, c, r, d, player)

(* checkWin looks only at lines through the last piece.  It misses none: a
   line anywhere on the board has ended the game for the player whose line it
   is, and a draw is a full board without one.                             *)
LineDecides ==
  /\ \A p \in Pieces : HasLine(p) => c4.over /\ c4.winner = PlayerIn(p)
  /\ c4.over /\ c4.winner = NoUser /\ c4 # NoGame
       => IsFull(c4Board) /\ \A p \in Pieces : ~HasLine(p)

(* connect4 is a game of turns: only the player whose turn it is drops a
   piece, the turn passes to the other, and a finished game stays finished. *)
C4Turns == INSTANCE TurnGame WITH
  Nobody <- NoUser,
  seats  <- IF c4 = NoGame THEN <<>> ELSE <<c4.p1, c4.p2>>,
  turn   <- c4.turn,
  over   <- c4.over,
  winner <- c4.winner,
  mover  <- c4Mover

C4IsATurnGame == C4Turns!Spec
=============================================================================

----------------------------- MODULE Games_proofs ---------------------------
(***************************************************************************)
(* Theorems about what people play, for any players, boards and bounds:    *)
(* connect4 and ludo are games of turns, a chess chat is never blocked and *)
(* a game of chess is paid once and to its winner, and boards show what    *)
(* the rules make of the moves.                                            *)
(***************************************************************************)
EXTENDS MCGames, Bonds_proofs

-----------------------------------------------------------------------------
(* ConnectFour.                                                            *)

C4Games == [p1 : C4Users \cup {NoUser}, p2 : C4Users \cup {NoUser}, turn : Pieces,
            over : BOOLEAN, winner : C4Users \cup {NoUser}]

Boards == [1 .. Cols -> Seq(Pieces)]

C4Types ==
  /\ c4 \in C4Games
  /\ c4Board \in Boards /\ \A c \in 1 .. Cols : Len(c4Board[c]) <= Rows
  /\ c4Mover \in C4Users \cup {NoUser}

\* A game has two players, and no winner while it runs.
C4Playing ==
  c4 # NoGame => /\ c4.p1 \in C4Users /\ c4.p2 \in C4Users /\ c4.p1 # c4.p2
                 /\ ~c4.over => c4.winner = NoUser

LEMMA Dropped ==
  ASSUME NEW b \in Boards, NEW c \in 1 .. Cols, NEW piece \in Pieces
  PROVE  /\ DropPiece(b, c, piece) \in Boards
         /\ Len(DropPiece(b, c, piece)[c]) = Len(b[c]) + 1
         /\ DropPiece(b, c, piece)[c][Len(b[c]) + 1] = piece
         /\ \A r \in 1 .. Len(b[c]) : DropPiece(b, c, piece)[c][r] = b[c][r]
         /\ \A d \in 1 .. Cols : d # c => DropPiece(b, c, piece)[d] = b[d]
<1>1. b[c] \in Seq(Pieces)
  BY DEF Boards
<1>2. /\ Append(b[c], piece) \in Seq(Pieces)
      /\ Len(Append(b[c], piece)) = Len(b[c]) + 1
      /\ Append(b[c], piece)[Len(b[c]) + 1] = piece
      /\ \A r \in 1 .. Len(b[c]) : Append(b[c], piece)[r] = b[c][r]
  BY <1>1
<1>3. DropPiece(b, c, piece) = [b EXCEPT ![c] = Append(b[c], piece)]
  BY DEF DropPiece
<1> QED BY <1>2, <1>3 DEF Boards

LEMMA C4Typed ==
  ASSUME C4Types, C4Playing, [C4Next]_c4Vars
  PROVE  C4Types' /\ C4Playing'
<1>1. ASSUME NEW u \in C4Users, NEW v \in C4Users, C4Challenge(u, v) PROVE C4Types' /\ C4Playing'
  <2>1. /\ u # v /\ c4' = [p1 |-> u, p2 |-> v, turn |-> 1, over |-> FALSE, winner |-> NoUser]
        /\ c4Board' = NewBoard /\ c4Mover' = u
    BY <1>1 DEF C4Challenge
  <2>2. c4' \in C4Games
    BY <2>1 DEF C4Games, Pieces
  <2>3. c4Board' \in Boards /\ \A c \in 1 .. Cols : Len(c4Board'[c]) <= Rows
    BY <2>1, C4Assumption DEF NewBoard, Boards
  <2>4. C4Types'
    BY <2>1, <2>2, <2>3 DEF C4Types
  <2>5. C4Playing'
    BY <2>1 DEF C4Playing
  <2> QED BY <2>4, <2>5
<1>2. ASSUME NEW u \in C4Users, NEW c \in 1 .. Cols, C4Drop(u, c) PROVE C4Types' /\ C4Playing'
  <2>1. /\ ~c4.over /\ Len(c4Board[c]) < Rows /\ c4Mover' = u
        /\ c4Board' = DropPiece(c4Board, c, c4.turn)
    BY <1>2 DEF C4Drop
  <2>2. \/ c4' = [c4 EXCEPT !.over = TRUE, !.winner = u]
        \/ c4' = [c4 EXCEPT !.over = TRUE]
        \/ c4' = [c4 EXCEPT !.turn = 3 - c4.turn]
    BY <1>2 DEF C4Drop
  <2>3. c4.turn \in Pieces /\ 3 - c4.turn \in Pieces
    BY DEF C4Types, C4Games, Pieces
  <2>4. /\ c4' \in C4Games /\ c4'.p1 = c4.p1 /\ c4'.p2 = c4.p2
        /\ ~c4'.over => c4'.winner = c4.winner
    BY <2>2, <2>3 DEF C4Types, C4Games
  <2>5. c4Board' \in Boards /\ \A d \in 1 .. Cols : Len(c4Board'[d]) <= Rows
    <3>1. c4Board \in Boards /\ Len(c4Board[c]) \in Nat
      BY DEF C4Types, Boards
    <3>2. c4Board' \in Boards /\ Len(c4Board'[c]) = Len(c4Board[c]) + 1
          /\ \A d \in 1 .. Cols : d # c => c4Board'[d] = c4Board[d]
      BY <2>1, <2>3, <3>1, Dropped
    <3>3. Len(c4Board'[c]) <= Rows
      BY <2>1, <3>1, <3>2, C4Assumption
    <3> QED BY <3>2, <3>3 DEF C4Types
  <2>6. c4 # NoGame
    BY <2>1 DEF NoGame
  <2>7. C4Types'
    BY <2>1, <2>4, <2>5 DEF C4Types
  <2>8. C4Playing'
    BY <2>1, <2>4, <2>6 DEF C4Playing
  <2> QED BY <2>7, <2>8
<1>3. ASSUME NEW u \in C4Users, C4Forfeit(u) PROVE C4Types' /\ C4Playing'
  <2>1. /\ ~c4.over /\ c4Mover' = u /\ UNCHANGED c4Board
        /\ c4' = [c4 EXCEPT !.over = TRUE, !.winner = IF u = c4.p1 THEN c4.p2 ELSE c4.p1]
    BY <1>3 DEF C4Forfeit
  <2>2. c4 # NoGame
    BY <2>1 DEF NoGame
  <2>3. c4' \in C4Games /\ c4'.p1 = c4.p1 /\ c4'.p2 = c4.p2 /\ c4'.over
    BY <2>1 DEF C4Types, C4Games
  <2>4. C4Types'
    BY <2>1, <2>3 DEF C4Types
  <2>5. C4Playing'
    BY <2>2, <2>3 DEF C4Playing
  <2> QED BY <2>4, <2>5
<1>4. CASE UNCHANGED c4Vars
  BY <1>4 DEF c4Vars, C4Types, C4Playing
<1> QED BY <1>1, <1>2, <1>3, <1>4 DEF C4Next

LEMMA C4Starts ==
  ASSUME C4Init
  PROVE  C4Types /\ C4Playing
<1>1. NoGame \in C4Games
  BY DEF NoGame, C4Games, Pieces
<1>2. NewBoard \in Boards /\ \A c \in 1 .. Cols : Len(NewBoard[c]) <= Rows
  BY C4Assumption DEF NewBoard, Boards
<1> QED BY <1>1, <1>2 DEF C4Init, C4Types, C4Playing

-----------------------------------------------------------------------------
(* connect4 is a game of turns.                                            *)

LEMMA C4DealsFirst ==
  ASSUME C4Init
  PROVE  C4Turns!Init
BY DEF C4Init, C4Turns!Init, NoGame

LEMMA C4StepsByTurns ==
  ASSUME C4Types, C4Playing, C4Types', C4Playing', [C4Next]_c4Vars
  PROVE  [C4Turns!Deal \/ C4Turns!Move \/ C4Turns!Finish \/ C4Turns!Forfeit]_C4Turns!vars
<1> USE DEF C4Turns!Deal, C4Turns!Move, C4Turns!Finish, C4Turns!Forfeit, C4Turns!vars
<1>1. ASSUME NEW u \in C4Users, NEW v \in C4Users, C4Challenge(u, v) PROVE C4Turns!Deal
  <2>1. /\ c4.over /\ c4' = [p1 |-> u, p2 |-> v, turn |-> 1, over |-> FALSE, winner |-> NoUser]
        /\ c4Mover' = u
    BY <1>1 DEF C4Challenge
  <2>2. c4' # NoGame
    BY <2>1 DEF NoGame
  <2> QED BY <2>1, <2>2
<1>2. ASSUME NEW u \in C4Users, NEW c \in 1 .. Cols, C4Drop(u, c) PROVE C4Turns!Move \/ C4Turns!Finish
  <2>1. ~c4.over /\ u = PlayerIn(c4.turn) /\ c4Mover' = u /\ c4.turn \in Pieces
    BY <1>2 DEF C4Drop, C4Types, C4Games
  <2>2. \/ c4' = [c4 EXCEPT !.over = TRUE, !.winner = u]
        \/ c4' = [c4 EXCEPT !.over = TRUE]
        \/ c4' = [c4 EXCEPT !.turn = 3 - c4.turn]
    BY <1>2 DEF C4Drop
  <2>3. c4 # NoGame
    BY <2>1 DEF NoGame
  <2>4. c4'.p1 = c4.p1 /\ c4'.p2 = c4.p2
    BY <2>2 DEF C4Types, C4Games
  <2>5. c4' # NoGame
    BY <2>3, <2>4, C4Assumption DEF NoGame, C4Playing
  <2>6. <<c4.p1, c4.p2>>[c4.turn] = u /\ Len(<<c4.p1, c4.p2>>) = 2
    BY <2>1 DEF PlayerIn, Pieces
  <2>7. 3 - c4.turn = (c4.turn % 2) + 1
    BY <2>1 DEF Pieces
  <2>8. c4.winner = NoUser
    BY <2>1, <2>3 DEF C4Playing
  <2>9. CASE c4' = [c4 EXCEPT !.turn = 3 - c4.turn]
    <3>1. c4'.turn = 3 - c4.turn /\ c4'.over = c4.over /\ c4'.winner = c4.winner
      BY <2>9 DEF C4Types, C4Games
    <3> QED BY <2>1, <2>3, <2>4, <2>5, <2>6, <2>7, <3>1
  <2>10. CASE c4' = [c4 EXCEPT !.over = TRUE] \/ c4' = [c4 EXCEPT !.over = TRUE, !.winner = u]
    <3>1. c4'.turn = c4.turn /\ c4'.over /\ c4'.winner \in {NoUser, u}
      BY <2>8, <2>10 DEF C4Types, C4Games
    <3> QED BY <2>1, <2>3, <2>4, <2>5, <2>6, <3>1
  <2> QED BY <2>2, <2>9, <2>10
<1>3. ASSUME NEW u \in C4Users, C4Forfeit(u) PROVE C4Turns!Forfeit
  <2>1. /\ ~c4.over /\ c4Mover' = u
        /\ c4' = [c4 EXCEPT !.over = TRUE, !.winner = IF u = c4.p1 THEN c4.p2 ELSE c4.p1]
    BY <1>3 DEF C4Forfeit
  <2>2. c4 # NoGame
    BY <2>1 DEF NoGame
  <2>3. /\ c4'.p1 = c4.p1 /\ c4'.p2 = c4.p2 /\ c4'.over /\ c4'.turn = c4.turn
        /\ c4'.winner = IF u = c4.p1 THEN c4.p2 ELSE c4.p1
    BY <2>1 DEF C4Types, C4Games
  <2>4. c4' # NoGame
    BY <2>2, <2>3, C4Assumption DEF NoGame, C4Playing
  <2>5. c4'.winner # u /\ c4'.winner \in {c4.p1, c4.p2}
    BY <2>2, <2>3 DEF C4Playing
  <2>6. c4'.winner \in C4Turns!Range(<<c4.p1, c4.p2>>)
    <3>1. {1, 2} \subseteq DOMAIN <<c4.p1, c4.p2>>
      OBVIOUS
    <3>2. <<c4.p1, c4.p2>>[1] = c4.p1 /\ <<c4.p1, c4.p2>>[2] = c4.p2
      OBVIOUS
    <3> QED BY <2>5, <3>1, <3>2 DEF C4Turns!Range
  <2> QED BY <2>1, <2>2, <2>3, <2>4, <2>5, <2>6
<1>4. CASE UNCHANGED c4Vars
  BY <1>4 DEF c4Vars
<1> QED BY <1>1, <1>2, <1>3, <1>4 DEF C4Next
-----------------------------------------------------------------------------
(* Lines.                                                                  *)

Has(b, player) ==
  \E c \in 1 .. Cols, r \in 1 .. Rows, d \in Directions : Line(b, c, r, d, player)

LEMMA Slopes ==
  ASSUME NEW d \in Directions
  PROVE  d[1] \in {0, 1} /\ d[2] \in {-1, 0, 1}
BY DEF Directions

LEMMA Shifts ==
  ASSUME NEW i \in 0 .. InARow - 1, NEW e \in {-1, 0, 1}
  PROVE  i * e \in Int
<1>1. i * 0 = 0 /\ i * 1 = i /\ i * (-1) = -i
  BY C4Assumption
<1> QED BY <1>1, C4Assumption

\* Only one cell of the board changes.
LEMMA OtherCells ==
  ASSUME NEW b \in Boards, NEW c \in 1 .. Cols, Len(b[c]) < Rows, NEW piece \in Pieces,
         NEW x \in Int, NEW y \in Int, ~(x = c /\ y = Len(b[c]) + 1)
  PROVE  Cell(DropPiece(b, c, piece), x, y) = Cell(b, x, y)
<1> DEFINE nb == DropPiece(b, c, piece)
<1>1. /\ Len(nb[c]) = Len(b[c]) + 1 /\ \A r \in 1 .. Len(b[c]) : nb[c][r] = b[c][r]
      /\ \A d \in 1 .. Cols : d # c => nb[d] = b[d]
  BY Dropped
<1>2. Len(b[c]) \in Nat
  BY DEF Boards
<1> HIDE DEF nb
<1>3. CASE x = c
  <2>1. Cell(nb, c, y) = Cell(b, c, y)
    BY <1>1, <1>2, <1>3 DEF Cell
  <2> QED BY <1>3, <2>1 DEF nb
<1>4. CASE x # c
  <2>1. Cell(nb, x, y) = Cell(b, x, y)
    BY <1>1, <1>4 DEF Cell
  <2> QED BY <2>1 DEF nb
<1> QED BY <1>3, <1>4 DEF nb

(* checkWin misses no line: one that was not there before the piece fell goes
   through it, and is of its player.                                       *)
LEMMA NewLine ==
  ASSUME NEW b \in Boards, NEW c \in 1 .. Cols, Len(b[c]) < Rows, NEW piece \in Pieces,
         NEW player \in Pieces, Has(DropPiece(b, c, piece), player), ~Has(b, player)
  PROVE  /\ player = piece
         /\ CheckWin(DropPiece(b, c, piece), c, Len(DropPiece(b, c, piece)[c]), piece)
<1> DEFINE nb == DropPiece(b, c, piece)
<1> DEFINE top == Len(b[c]) + 1
<1>1. /\ top \in Nat /\ 1 <= top /\ top <= Rows
      /\ Len(nb[c]) = top /\ nb[c][top] = piece
  <2>1. Len(b[c]) \in Nat
    BY DEF Boards
  <2>2. Len(nb[c]) = Len(b[c]) + 1 /\ nb[c][Len(b[c]) + 1] = piece
    BY Dropped
  <2> QED BY <2>1, <2>2, C4Assumption
<1>2. PICK x \in 1 .. Cols, y \in 1 .. Rows, d \in Directions : Line(nb, x, y, d, player)
  BY DEF Has
<1>3. x \in Int /\ y \in Int
  BY C4Assumption
<1>4. ASSUME NEW i \in 0 .. InARow - 1
      PROVE  i * d[1] \in Int /\ i * d[2] \in Int
  BY Slopes, Shifts
<1>5. PICK i \in 0 .. InARow - 1 : Cell(b, x + i * d[1], y + i * d[2]) # player
  BY DEF Has, Line
<1> DEFINE e == i * d[1]
<1> DEFINE f == i * d[2]
<1>6. e \in Int /\ f \in Int
  BY <1>4
<1>7. Cell(nb, x + e, y + f) = player
  BY <1>2 DEF Line
<1>8. Cell(b, x + e, y + f) # player
  BY <1>5
<1> HIDE DEF nb, top, e, f
<1>9. x + e = c /\ y + f = top
  BY <1>3, <1>6, <1>7, <1>8, OtherCells DEF nb, top
<1>10. player = piece
  BY <1>1, <1>7, <1>9, C4Assumption DEF Cell
<1>11. c - e = x /\ top - f = y
  BY <1>1, <1>3, <1>6, <1>9
<1>12. CheckWin(nb, c, top, piece)
  BY <1>2, <1>10, <1>11 DEF CheckWin, e, f
<1> QED BY <1>1, <1>10, <1>12 DEF nb

LEMMA NoLineAtFirst ==
  ASSUME NEW player \in Pieces
  PROVE  ~Has(NewBoard, player)
<1>1. ASSUME NEW c \in 1 .. Cols, NEW r \in 1 .. Rows, NEW d \in Directions
      PROVE  ~Line(NewBoard, c, r, d, player)
  <2>1. 0 \in 0 .. InARow - 1
    BY C4Assumption
  <2>2. 0 * d[1] = 0 /\ 0 * d[2] = 0 /\ c + 0 = c /\ r + 0 = r
    BY Slopes, C4Assumption
  <2>3. Cell(NewBoard, c, r) = Empty /\ Empty # player
    BY C4Assumption DEF Cell, NewBoard, Empty, Pieces
  <2> QED BY <2>1, <2>2, <2>3 DEF Line
<1> QED BY <1>1 DEF Has

LEMMA LinesKept ==
  ASSUME C4Types, C4Playing, LineDecides, [C4Next]_c4Vars
  PROVE  LineDecides'
<1> USE DEF HasLine, LineDecides
<1>0. \A p \in Pieces : HasLine(p) <=> Has(c4Board, p)
  BY DEF Has
<1>a. \A p \in Pieces : HasLine(p)' <=> Has(c4Board', p)
  BY DEF Has
<1>1. ASSUME NEW u \in C4Users, NEW v \in C4Users, C4Challenge(u, v) PROVE LineDecides'
  <2>1. c4Board' = NewBoard /\ ~c4'.over
    BY <1>1 DEF C4Challenge
  <2>2. \A p \in Pieces : ~HasLine(p)'
    BY <1>a, <2>1, NoLineAtFirst
  <2> QED BY <2>1, <2>2
<1>2. ASSUME NEW u \in C4Users, NEW c \in 1 .. Cols, C4Drop(u, c) PROVE LineDecides'
  <2> DEFINE nb == DropPiece(c4Board, c, c4.turn)
  <2> DEFINE won == CheckWin(nb, c, Len(nb[c]), c4.turn)
  <2>1. /\ ~c4.over /\ Len(c4Board[c]) < Rows /\ u = PlayerIn(c4.turn) /\ c4Board' = nb
        /\ won => c4' = [c4 EXCEPT !.over = TRUE, !.winner = u]
        /\ ~won => c4' = IF IsFull(nb) THEN [c4 EXCEPT !.over = TRUE] ELSE [c4 EXCEPT !.turn = 3 - c4.turn]
    BY <1>2 DEF C4Drop
  <2>2. c4Board \in Boards /\ c4.turn \in Pieces
    BY DEF C4Types, C4Games
  <2>3. \A p \in Pieces : ~Has(c4Board, p)
    BY <1>0, <2>1
  <2>4. \A p \in Pieces : Has(nb, p) => p = c4.turn /\ won
    BY <2>1, <2>2, <2>3, NewLine
  <2> HIDE DEF nb, won
  <2>5. CASE won
    <3>1. /\ c4'.over /\ c4'.winner = u /\ c4'.turn = c4.turn /\ c4'.p1 = c4.p1 /\ c4'.p2 = c4.p2
      BY <2>1, <2>5 DEF C4Types, C4Games
    <3>2. PlayerIn(c4.turn)' = u
      BY <2>1, <3>1 DEF PlayerIn
    <3>3. u # NoUser
      BY C4Assumption
    <3>4. \A p \in Pieces : HasLine(p)' => c4'.over /\ c4'.winner = PlayerIn(p)'
      BY <1>a, <2>1, <2>4, <3>1, <3>2 DEF PlayerIn
    <3> QED BY <3>1, <3>3, <3>4
  <2>6. CASE ~won
    <3>1. \A p \in Pieces : ~HasLine(p)'
      BY <1>a, <2>1, <2>4, <2>6
    <3>2. c4'.over => IsFull(c4Board')
      BY <2>1, <2>6 DEF C4Types, C4Games
    <3>3. c4'.over => IsFull(c4Board)'
      BY <3>2 DEF IsFull
    <3> QED BY <3>1, <3>3
  <2> QED BY <2>5, <2>6
<1>3. ASSUME NEW u \in C4Users, C4Forfeit(u) PROVE LineDecides'
  <2>1. /\ ~c4.over /\ UNCHANGED c4Board
        /\ c4' = [c4 EXCEPT !.over = TRUE, !.winner = IF u = c4.p1 THEN c4.p2 ELSE c4.p1]
    BY <1>3 DEF C4Forfeit
  <2>2. c4.p1 \in C4Users /\ c4.p2 \in C4Users
    BY <2>1 DEF C4Playing, NoGame
  <2>3. c4'.winner # NoUser
    BY <2>1, <2>2, C4Assumption DEF C4Types, C4Games
  <2>4. \A p \in Pieces : ~HasLine(p)'
    BY <1>0, <1>a, <2>1
  <2> QED BY <2>3, <2>4
<1>4. CASE UNCHANGED c4Vars
  BY <1>0, <1>a, <1>4 DEF c4Vars, PlayerIn, IsFull
<1> QED BY <1>1, <1>2, <1>3, <1>4 DEF C4Next

LEMMA LinesStart ==
  ASSUME C4Init
  PROVE  LineDecides
<1>1. \A p \in Pieces : ~HasLine(p)
  BY NoLineAtFirst DEF C4Init, HasLine, Has
<1> QED BY <1>1 DEF C4Init, LineDecides
-----------------------------------------------------------------------------
(* Ludo.                                                                   *)

Tables == [Seats -> [1 .. Tokens -> Positions]]

LudoTypes ==
  /\ players \in Seq(LudoUsers) /\ Len(players) <= MaxSeats
  /\ ludoTurn \in 1 .. MaxSeats /\ lastRoll \in 0 .. Six
  /\ tokens \in Tables
  /\ ludoWinner \in {0} \cup Seats
  /\ ludoMover \in LudoUsers \cup {NoSender}

\* A game has two players or more, and each one a seat.
LudoPlaying ==
  ~ludoOver => /\ Len(players) >= 2 /\ ludoTurn \in Seats
               /\ \A s, o \in Seats : players[s] = players[o] => s = o

LEMMA SeatsCounted ==
  ASSUME LudoTypes
  PROVE  Seats = 1 .. Len(players) /\ Len(players) \in Nat /\ Seats \subseteq 1 .. MaxSeats
BY LudoAssumption DEF LudoTypes, Seats

LEMMA MovedInRange ==
  ASSUME NEW pos \in Positions, NEW roll \in 1 .. Six, CanMove(pos, roll)
  PROVE  Moved(pos, roll) \in Positions
BY LudoAssumption DEF Positions, Parked, CanMove, Moved

LEMMA CapturedTyped ==
  ASSUME NEW all \in Tables, NEW s
  PROVE  Captured(all, s) \in Tables
BY DEF Tables, Captured, Positions

\* What a move does to the rest of the game.
LEMMA MoveTyped ==
  ASSUME LudoTypes, LudoPlaying, ~ludoOver, NEW s \in Seats, s = ludoTurn, NEW t \in 1 .. Tokens,
         NEW roll \in 1 .. Six, CanMove(tokens[s][t], roll), MoveToken(s, t, roll),
         ludoMover' = players[s]
  PROVE  LudoTypes' /\ LudoPlaying'
<1> DEFINE all == [tokens EXCEPT ![s][t] = Moved(tokens[s][t], roll)]
<1>1. /\ tokens' = Captured(all, s) /\ UNCHANGED players
      /\ lastRoll' \in {0, roll} /\ ludoTurn' \in {ludoTurn, NextSeat(s)}
      /\ ludoWinner' \in {ludoWinner, s} /\ (ludoOver' => ludoOver' = TRUE)
  BY DEF MoveToken
<1>2. all \in Tables
  <2>1. Moved(tokens[s][t], roll) \in Positions
    BY MovedInRange DEF LudoTypes, Tables
  <2> QED BY <2>1 DEF LudoTypes, Tables
<1> HIDE DEF all
<1>3. tokens' \in Tables
  BY <1>1, <1>2, CapturedTyped
<1>4. NextSeat(s) \in Seats
  <2>1. Seats = 1 .. Len(players) /\ Len(players) \in Nat /\ Len(players) >= 2
    BY SeatsCounted DEF LudoPlaying
  <2>2. s % Len(players) \in 0 .. Len(players) - 1
    BY <2>1
  <2> QED BY <2>1, <2>2 DEF NextSeat
<1>5. Seats' = Seats /\ Tables' = Tables
  BY <1>1 DEF Seats, Tables
<1>6. players[s] \in LudoUsers
  BY SeatsCounted DEF LudoTypes
<1>7. LudoTypes'
  <2>1. ludoTurn' \in Seats /\ Seats \subseteq 1 .. MaxSeats
    BY <1>1, <1>4, SeatsCounted DEF LudoPlaying
  <2>2. lastRoll' \in 0 .. Six
    BY <1>1, LudoAssumption
  <2> QED BY <1>1, <1>3, <1>5, <1>6, <2>1, <2>2 DEF LudoTypes
<1>8. LudoPlaying'
  BY <1>1, <1>4, <1>5 DEF LudoPlaying
<1> QED BY <1>7, <1>8

LEMMA OpponentsSeated ==
  ASSUME NEW u \in LudoUsers, NEW o \in Opponents, u \notin Range(o)
  PROVE  /\ <<u>> \o o \in Seq(LudoUsers)
         /\ Len(<<u>> \o o) >= 2 /\ Len(<<u>> \o o) <= MaxSeats
         /\ (<<u>> \o o)[1] = u
         /\ \A i, j \in 1 .. Len(<<u>> \o o) : (<<u>> \o o)[i] = (<<u>> \o o)[j] => i = j
<1>1. PICK n \in 1 .. MaxSeats - 1 : o \in [1 .. n -> LudoUsers] /\ IsInjective(o)
  BY DEF Opponents
<1>2. o \in Seq(LudoUsers) /\ Len(o) = n /\ n >= 1 /\ n + 1 <= MaxSeats /\ n \in Nat
  BY <1>1, LudoAssumption
<1> DEFINE ps == <<u>> \o o
<1>3. /\ ps \in Seq(LudoUsers) /\ Len(ps) = n + 1 /\ ps[1] = u
      /\ \A i \in 2 .. n + 1 : ps[i] = o[i - 1]
  BY <1>2
<1> HIDE DEF ps
<1>4. \A i, j \in 1 .. n : o[i] = o[j] => i = j
  BY <1>1 DEF IsInjective
<1>5. \A i \in 1 .. n : o[i] # u
  BY <1>1 DEF Range
<1>6. ASSUME NEW i \in 1 .. n + 1, NEW j \in 1 .. n + 1, ps[i] = ps[j] PROVE i = j
  <2>1. CASE i = 1 /\ j = 1
    BY <2>1
  <2>2. CASE i \in 2 .. n + 1 /\ j = 1
    <3>1. i - 1 \in 1 .. n
      BY <1>2, <2>2
    <3> QED BY <1>3, <1>5, <1>6, <2>2, <3>1
  <2>3. CASE i = 1 /\ j \in 2 .. n + 1
    <3>1. j - 1 \in 1 .. n
      BY <1>2, <2>3
    <3> QED BY <1>3, <1>5, <1>6, <2>3, <3>1
  <2>4. CASE i \in 2 .. n + 1 /\ j \in 2 .. n + 1
    <3>1. i - 1 \in 1 .. n /\ j - 1 \in 1 .. n
      BY <1>2, <2>4
    <3>2. i - 1 = j - 1
      BY <1>3, <1>4, <1>6, <2>4, <3>1
    <3> QED BY <2>4, <3>2
  <2> QED BY <1>2, <2>1, <2>2, <2>3, <2>4
<1> QED BY <1>2, <1>3, <1>6 DEF ps

LEMMA ChallengeTyped ==
  ASSUME NEW u \in LudoUsers, NEW o \in Opponents, LudoChallenge(u, o)
  PROVE  LudoTypes' /\ LudoPlaying'
<1>1. /\ u \notin Range(o) /\ players' = <<u>> \o o
      /\ tokens' = [s \in DOMAIN players' |-> NewTokens]
      /\ ludoTurn' = 1 /\ lastRoll' = 0 /\ ~ludoOver' /\ ludoWinner' = 0 /\ ludoMover' = u
  BY DEF LudoChallenge
<1>2. /\ players' \in Seq(LudoUsers) /\ Len(players') >= 2 /\ Len(players') <= MaxSeats
      /\ \A i, j \in 1 .. Len(players') : players'[i] = players'[j] => i = j
  BY <1>1, OpponentsSeated
<1>3. Seats' = 1 .. Len(players') /\ Len(players') \in Nat
  BY <1>2 DEF Seats
<1>4. NewTokens \in [1 .. Tokens -> Positions]
  BY DEF NewTokens, Positions
<1>5. tokens' \in Tables'
  BY <1>1, <1>4 DEF Tables, Seats
<1>6. LudoTypes'
  BY <1>1, <1>2, <1>5, LudoAssumption DEF LudoTypes
<1>7. LudoPlaying'
  BY <1>1, <1>2, <1>3 DEF LudoPlaying
<1> QED BY <1>6, <1>7

\* The first of the others.
LEMMA OtherSeat ==
  ASSUME LudoTypes, LudoPlaying, ~ludoOver, NEW s \in Seats
  PROVE  Min(Seats \ {s}) \in Seats \ {s}
<1>1. Seats = 1 .. Len(players) /\ Len(players) \in Nat /\ Len(players) >= 2
  BY SeatsCounted DEF LudoPlaying
<1> DEFINE m == IF s = 1 THEN 2 ELSE 1
<1>2. m \in Seats \ {s} /\ \A x \in Seats \ {s} : m <= x
  BY <1>1
<1>3. \E x \in Seats \ {s} : \A y \in Seats \ {s} : x <= y
  BY <1>2
<1> QED BY <1>3 DEF Min

LEMMA RollsTyped ==
  ASSUME LudoTypes, LudoPlaying, NEW s \in Seats,
         LudoForfeit(s) \/ (\E roll \in 1 .. Six : Roll(s, roll)) \/ \E t \in 1 .. Tokens : ChooseToken(s, t)
  PROVE  LudoTypes' /\ LudoPlaying'
<1>1. players[s] \in LudoUsers
  BY SeatsCounted DEF LudoTypes
<1>2. CASE LudoForfeit(s)
  <2>1. /\ ~ludoOver /\ ludoOver' /\ ludoWinner' = Min(Seats \ {s}) /\ ludoMover' = players[s]
        /\ UNCHANGED <<players, ludoTurn, lastRoll, tokens>>
    BY <1>2 DEF LudoForfeit
  <2>2. ludoWinner' \in Seats
    BY <2>1, OtherSeat
  <2> QED BY <1>1, <2>1, <2>2 DEF LudoTypes, LudoPlaying, Seats, Tables
<1>3. ASSUME NEW t \in 1 .. Tokens, ChooseToken(s, t) PROVE LudoTypes' /\ LudoPlaying'
  <2>1. lastRoll \in 1 .. Six
    BY <1>3, LudoAssumption DEF ChooseToken, LudoTypes
  <2> QED BY <1>3, <2>1, MoveTyped DEF ChooseToken
<1>4. ASSUME NEW roll \in 1 .. Six, Roll(s, roll) PROVE LudoTypes' /\ LudoPlaying'
  <2>1. ~ludoOver /\ s = ludoTurn /\ ludoMover' = players[s]
    BY <1>4 DEF Roll
  <2>2. CASE \E t \in 1 .. Tokens : Movable(s, roll) = {t} /\ MoveToken(s, t, roll)
    <3>1. PICK t \in 1 .. Tokens : Movable(s, roll) = {t} /\ MoveToken(s, t, roll)
      BY <2>2
    <3>2. CanMove(tokens[s][t], roll)
      BY <3>1 DEF Movable
    <3> QED BY <2>1, <3>1, <3>2, MoveTyped
  <2>3. CASE lastRoll' = roll /\ ludoTurn' \in {ludoTurn, NextSeat(s)}
               /\ UNCHANGED <<players, tokens, ludoOver, ludoWinner>>
    <3>1. Seats = 1 .. Len(players) /\ Len(players) \in Nat /\ Len(players) >= 2
      BY <2>1, SeatsCounted DEF LudoPlaying
    <3>2. s % Len(players) \in 0 .. Len(players) - 1
      BY <3>1
    <3>3. ludoTurn' \in Seats
      BY <2>1, <2>3, <3>1, <3>2 DEF NextSeat, LudoPlaying
    <3>4. ludoTurn' \in 1 .. MaxSeats /\ lastRoll' \in 0 .. Six
      BY <2>3, <3>3, SeatsCounted, LudoAssumption
    <3> QED BY <1>1, <2>1, <2>3, <3>3, <3>4 DEF LudoTypes, LudoPlaying, Seats, Tables
  <2> QED BY <1>4, <2>2, <2>3 DEF Roll
<1> QED BY <1>2, <1>3, <1>4

LEMMA LudoTyped ==
  ASSUME LudoTypes, LudoPlaying, [LudoNext]_ludoVars
  PROVE  LudoTypes' /\ LudoPlaying'
<1>1. CASE UNCHANGED ludoVars
  BY <1>1 DEF ludoVars, LudoTypes, LudoPlaying, Seats, Tables
<1> QED BY <1>1, ChallengeTyped, RollsTyped DEF LudoNext

LEMMA LudoStarts ==
  ASSUME LudoInit
  PROVE  LudoTypes /\ LudoPlaying
<1>1. players \in Seq(LudoUsers) /\ Len(players) = 0 /\ Seats = {}
  BY DEF LudoInit, Seats
<1>2. tokens \in Tables
  <2>1. tokens = [s \in {} |-> NewTokens]
    BY DEF LudoInit
  <2> QED BY <1>1, <2>1 DEF Tables
<1> QED BY <1>1, <1>2, LudoAssumption DEF LudoInit, LudoTypes, LudoPlaying

(* ludo is a game of turns.                                                *)

LEMMA LudoDealsFirst ==
  ASSUME LudoInit
  PROVE  LudoTurns!Init
BY DEF LudoInit, LudoTurns!Init

LEMMA LudoStepsByTurns ==
  ASSUME LudoTypes, LudoPlaying, LudoTypes', [LudoNext]_ludoVars
  PROVE  [LudoTurns!Deal \/ LudoTurns!Move \/ LudoTurns!Finish \/ LudoTurns!Forfeit]_LudoTurns!vars
<1> USE DEF LudoTurns!Deal, LudoTurns!Move, LudoTurns!Finish, LudoTurns!Forfeit, LudoTurns!vars
<1>1. ASSUME NEW u \in LudoUsers, NEW o \in Opponents, LudoChallenge(u, o) PROVE LudoTurns!Deal
  <2>1. /\ ludoOver /\ u \notin Range(o) /\ players' = <<u>> \o o
        /\ ludoTurn' = 1 /\ ~ludoOver' /\ ludoWinner' = 0 /\ ludoMover' = u
    BY <1>1 DEF LudoChallenge
  <2>2. Len(players') >= 2 /\ players'[1] = u
    BY <2>1, OpponentsSeated
  <2> QED BY <2>1, <2>2
<1>2. ASSUME NEW s \in Seats, LudoForfeit(s) PROVE LudoTurns!Forfeit
  <2>1. /\ ~ludoOver /\ ludoOver' /\ ludoWinner' = Min(Seats \ {s}) /\ ludoMover' = players[s]
        /\ UNCHANGED <<players, ludoTurn>>
    BY <1>2 DEF LudoForfeit
  <2>2. ludoWinner' \in Seats \ {s}
    BY <2>1, OtherSeat
  <2>3. ludoWinner' # 0
    BY <2>2, SeatsCounted
  <2>4. players[ludoWinner'] \in LudoTurns!Range(players)
    BY <2>2 DEF LudoTurns!Range, Seats
  <2>5. players[ludoWinner'] # players[s]
    BY <2>1, <2>2 DEF LudoPlaying
  <2> QED BY <2>1, <2>3, <2>4, <2>5
<1>3. ASSUME NEW s \in Seats, ~ludoOver, s = ludoTurn, ludoMover' = players[s], NEW t, NEW roll,
             MoveToken(s, t, roll)
      PROVE  LudoTurns!Move \/ LudoTurns!Finish
  <2>1. UNCHANGED players
    BY <1>3 DEF MoveToken
  <2>2. CASE ludoOver' = TRUE /\ ludoWinner' = s /\ UNCHANGED ludoTurn
    <3>1. s # 0
      BY SeatsCounted
    <3> QED BY <1>3, <2>1, <2>2, <3>1
  <2>3. CASE ludoTurn' \in {ludoTurn, NextSeat(s)} /\ UNCHANGED <<ludoOver, ludoWinner>>
    BY <1>3, <2>1, <2>3 DEF NextSeat
  <2> QED BY <1>3, <2>2, <2>3 DEF MoveToken
<1>4. ASSUME NEW s \in Seats, NEW t \in 1 .. Tokens, ChooseToken(s, t)
      PROVE  LudoTurns!Move \/ LudoTurns!Finish
  BY <1>3, <1>4 DEF ChooseToken
<1>5. ASSUME NEW s \in Seats, NEW roll \in 1 .. Six, Roll(s, roll)
      PROVE  LudoTurns!Move \/ LudoTurns!Finish
  <2>1. ~ludoOver /\ s = ludoTurn /\ ludoMover' = players[s]
    BY <1>5 DEF Roll
  <2>2. CASE \E t \in 1 .. Tokens : Movable(s, roll) = {t} /\ MoveToken(s, t, roll)
    BY <1>3, <2>1, <2>2
  <2>3. CASE ludoTurn' \in {ludoTurn, NextSeat(s)} /\ UNCHANGED <<players, ludoOver, ludoWinner>>
    BY <2>1, <2>3 DEF NextSeat
  <2> QED BY <1>5, <2>2, <2>3 DEF Roll
<1>6. CASE UNCHANGED ludoVars
  BY <1>6 DEF ludoVars
<1> QED BY <1>1, <1>2, <1>4, <1>5, <1>6 DEF LudoNext
(* Captures leave no shared cell to two players.                           *)

LEMMA ParkedIsOff == ~OnTrack(Parked)
  BY LudoAssumption DEF OnTrack, Parked

LEMMA CapturesSeparate ==
  ASSUME LudoTypes, OneColorPerCell, NEW s \in Seats, NEW t, NEW roll, MoveToken(s, t, roll)
  PROVE  OneColorPerCell'
<1> DEFINE all == [tokens EXCEPT ![s][t] = Moved(tokens[s][t], roll)]
<1>1. tokens' = Captured(all, s) /\ UNCHANGED players
  BY DEF MoveToken
<1>2. \A o \in Seats \ {s} : all[o] = tokens[o]
  BY DEF LudoTypes, Tables
<1> HIDE DEF all
<1>3. ASSUME NEW o \in Seats \ {s}, NEW u \in 1 .. Tokens, OnTrack(tokens'[o][u])
      PROVE  /\ tokens'[o][u] = tokens[o][u]
             /\ Global(o, tokens[o][u]) \notin Attacked(s, all[s])
  <2>1. tokens'[o][u] = IF OnTrack(all[o][u]) /\ Global(o, all[o][u]) \in Attacked(s, all[s])
                        THEN Parked ELSE all[o][u]
    BY <1>1 DEF Captured
  <2>2. tokens'[o][u] # Parked
    BY <1>3, ParkedIsOff
  <2> QED BY <1>2, <1>3, <2>1, <2>2
<1>4. \A u \in 1 .. Tokens : tokens'[s][u] = all[s][u]
  BY <1>1 DEF Captured
<1>5. ASSUME NEW o \in Seats \ {s}, NEW u \in 1 .. Tokens, NEW v \in 1 .. Tokens,
             OnTrack(tokens'[s][u]), OnTrack(tokens'[o][v]),
             Global(s, tokens'[s][u]) = Global(o, tokens'[o][v])
      PROVE  Global(s, tokens'[s][u]) \in SafeSpots
  <2>1. Global(s, all[s][u]) \notin Attacked(s, all[s])
    BY <1>3, <1>4, <1>5
  <2>2. OnTrack(all[s][u])
    BY <1>4, <1>5
  <2> QED BY <1>4, <2>1, <2>2 DEF Attacked
<1>6. ASSUME NEW a \in Seats \ {s}, NEW o \in Seats \ {s}, a # o, NEW u \in 1 .. Tokens, NEW v \in 1 .. Tokens,
             OnTrack(tokens'[a][u]), OnTrack(tokens'[o][v]),
             Global(a, tokens'[a][u]) = Global(o, tokens'[o][v])
      PROVE  Global(a, tokens'[a][u]) \in SafeSpots
  BY <1>3, <1>6 DEF OneColorPerCell
<1>7. ASSUME NEW a \in Seats, NEW o \in Seats, a # o, NEW u \in 1 .. Tokens, NEW v \in 1 .. Tokens,
             OnTrack(tokens'[a][u]), OnTrack(tokens'[o][v]),
             Global(a, tokens'[a][u]) = Global(o, tokens'[o][v])
      PROVE  Global(a, tokens'[a][u]) \in SafeSpots
  <2>1. CASE a = s
    BY <1>5, <1>7, <2>1
  <2>2. CASE o = s
    <3>1. Global(o, tokens'[o][v]) \in SafeSpots
      BY <1>5, <1>7, <2>2
    <3> QED BY <1>7, <3>1
  <2>3. CASE a # s /\ o # s
    BY <1>6, <1>7, <2>3
  <2> QED BY <2>1, <2>2, <2>3
<1>8. Seats' = Seats
  BY <1>1 DEF Seats
<1> QED BY <1>7, <1>8 DEF OneColorPerCell

LEMMA ColorsSeparate ==
  ASSUME LudoTypes, OneColorPerCell, [LudoNext]_ludoVars
  PROVE  OneColorPerCell'
<1>1. ASSUME NEW u \in LudoUsers, NEW o \in Opponents, LudoChallenge(u, o) PROVE OneColorPerCell'
  <2>1. \A s \in Seats' : \A t \in 1 .. Tokens : tokens'[s][t] = Parked
    BY <1>1 DEF LudoChallenge, NewTokens, Seats
  <2> QED BY <2>1, ParkedIsOff DEF OneColorPerCell
<1>2. CASE UNCHANGED <<players, tokens>>
  BY <1>2 DEF OneColorPerCell, Seats
<1>3. ASSUME NEW s \in Seats,
             LudoForfeit(s) \/ (\E roll \in 1 .. Six : Roll(s, roll)) \/ \E t \in 1 .. Tokens : ChooseToken(s, t)
      PROVE  UNCHANGED <<players, tokens>> \/ \E t \in 1 .. Tokens, roll \in 0 .. Six : MoveToken(s, t, roll)
  <2>1. 1 .. Six \subseteq 0 .. Six
    BY LudoAssumption
  <2>2. CASE LudoForfeit(s)
    BY <2>2 DEF LudoForfeit
  <2>3. ASSUME NEW roll \in 1 .. Six, Roll(s, roll)
        PROVE  UNCHANGED <<players, tokens>> \/ \E t \in 1 .. Tokens : MoveToken(s, t, roll)
    BY <2>3 DEF Roll
  <2>4. ASSUME NEW t \in 1 .. Tokens, ChooseToken(s, t) PROVE MoveToken(s, t, lastRoll)
    BY <2>4 DEF ChooseToken
  <2>5. lastRoll \in 0 .. Six
    BY DEF LudoTypes
  <2> QED BY <1>3, <2>1, <2>2, <2>3, <2>4, <2>5
<1> QED BY <1>1, <1>2, <1>3, CapturesSeparate DEF LudoNext, ludoVars

LEMMA ColorsStart ==
  ASSUME LudoInit
  PROVE  OneColorPerCell
BY DEF LudoInit, OneColorPerCell, Seats

-----------------------------------------------------------------------------
(* Parlour.                                                                *)

ParlourTypes ==
  /\ hangman \in [word : Words \cup {{}}, guessed : SUBSET Letters, wrong : Nat, over : BOOLEAN]
  /\ guess \in [target : Nat, max : Ranges \cup {0}, attempts : Nat, over : BOOLEAN]
  /\ guess.target <= guess.max /\ guess.attempts <= MaxAttempts

\* A running game has lives left, and the letters guessed are finitely many.
HangmanInv ==
  /\ hangman.wrong <= Lives /\ (~hangman.over => hangman.wrong < Lives)
  /\ IsFiniteSet(hangman.guessed)
  /\ LivesAreLetters

LEMMA HangmanStays ==
  ASSUME UNCHANGED hangman, HangmanInv
  PROVE  HangmanInv'
BY DEF HangmanInv, LivesAreLetters

LEMMA LettersCounted ==
  ASSUME ParlourTypes, HangmanInv, NEW l \in Letters, GuessLetter(l)
  PROVE  ParlourTypes' /\ HangmanInv'
<1> DEFINE guessed == hangman.guessed \cup {l}
<1> DEFINE wrong == hangman.wrong + (IF l \in hangman.word THEN 0 ELSE 1)
<1>1. /\ ~hangman.over /\ l \notin hangman.guessed /\ UNCHANGED guess
      /\ hangman' = [hangman EXCEPT !.guessed = guessed, !.wrong = wrong,
                       !.over = hangman.word \subseteq guessed \/ wrong >= Lives]
  BY DEF GuessLetter
<1>2. hangman # NoHangman
  BY <1>1 DEF NoHangman
<1>3. /\ hangman.wrong \in Nat /\ hangman.wrong < Lives /\ hangman.guessed \subseteq Letters
      /\ IsFiniteSet(hangman.guessed)
      /\ hangman.wrong = Cardinality(hangman.guessed \ hangman.word)
  BY <1>1, <1>2 DEF ParlourTypes, HangmanInv, LivesAreLetters
<1>4. wrong \in Nat /\ wrong <= Lives
  BY <1>3, ParlourAssumption
<1>5. guessed \subseteq Letters /\ IsFiniteSet(guessed)
  BY <1>3, FS_AddElement
<1>6. wrong = Cardinality(guessed \ hangman.word)
  <2>1. IsFiniteSet(hangman.guessed \ hangman.word)
    BY <1>3, FS_Difference
  <2>2. CASE l \in hangman.word
    <3>1. guessed \ hangman.word = hangman.guessed \ hangman.word
      BY <2>2
    <3> QED BY <1>3, <2>2, <3>1
  <2>3. CASE l \notin hangman.word
    <3>1. guessed \ hangman.word = (hangman.guessed \ hangman.word) \cup {l}
      BY <2>3
    <3>2. Cardinality((hangman.guessed \ hangman.word) \cup {l})
            = Cardinality(hangman.guessed \ hangman.word) + 1
      BY <1>1, <2>1, FS_AddElement
    <3> QED BY <1>3, <2>3, <3>1, <3>2
  <2> QED BY <2>2, <2>3
<1> HIDE DEF guessed, wrong
<1>7. /\ hangman'.word = hangman.word /\ hangman'.guessed = guessed /\ hangman'.wrong = wrong
      /\ hangman'.over <=> hangman.word \subseteq guessed \/ wrong >= Lives
      /\ hangman' \in [word : Words \cup {{}}, guessed : SUBSET Letters, wrong : Nat, over : BOOLEAN]
  <2>1. (hangman.word \subseteq guessed \/ wrong >= Lives) \in BOOLEAN
    OBVIOUS
  <2> QED BY <1>1, <1>4, <1>5, <2>1 DEF ParlourTypes
<1>8. ParlourTypes'
  BY <1>1, <1>7 DEF ParlourTypes
<1>9. HangmanInv'
  BY <1>4, <1>5, <1>6, <1>7, ParlourAssumption DEF HangmanInv, LivesAreLetters
<1> QED BY <1>8, <1>9

LEMMA ParlourTyped ==
  ASSUME ParlourTypes, HangmanInv, [ParlourNext]_parlourVars
  PROVE  ParlourTypes' /\ HangmanInv'
<1>1. CASE NewHangman
  <2>1. PICK w \in Words : hangman' = [word |-> w, guessed |-> {}, wrong |-> 0, over |-> FALSE]
    BY <1>1 DEF NewHangman
  <2>2. UNCHANGED guess
    BY <1>1 DEF NewHangman
  <2>3. hangman' \in [word : Words \cup {{}}, guessed : SUBSET Letters, wrong : Nat, over : BOOLEAN]
    BY <2>1
  <2>4. Cardinality({} \ w) = 0 /\ IsFiniteSet({})
    BY FS_EmptySet
  <2>5. ~(w \subseteq {}) /\ ~(0 >= Lives) /\ 0 < Lives /\ 0 <= Lives
    BY ParlourAssumption
  <2>6. HangmanInv'
    BY <2>1, <2>4, <2>5 DEF HangmanInv, LivesAreLetters
  <2> QED BY <2>2, <2>3, <2>6 DEF ParlourTypes
<1>2. CASE NewGuess
  <2>1. PICK max \in Ranges : \E t \in 1 .. max :
          guess' = [target |-> t, max |-> max, attempts |-> 0, over |-> FALSE]
    BY <1>2 DEF NewGuess
  <2>2. PICK t \in 1 .. max : guess' = [target |-> t, max |-> max, attempts |-> 0, over |-> FALSE]
    BY <2>1
  <2> QED BY <1>2, <2>2, HangmanStays, ParlourAssumption DEF NewGuess, ParlourTypes
<1>3. CASE ForfeitGuess
  BY <1>3, HangmanStays DEF ForfeitGuess, ParlourTypes
<1>4. ASSUME NEW n \in 1 .. guess.max, GuessNumber(n) PROVE ParlourTypes' /\ HangmanInv'
  <2>1. /\ guess.attempts < MaxAttempts /\ UNCHANGED hangman
        /\ guess' = [guess EXCEPT !.attempts = guess.attempts + 1, !.over = n = guess.target]
    BY <1>4 DEF GuessNumber
  <2>2. (n = guess.target) \in BOOLEAN
    OBVIOUS
  <2>3. guess.attempts + 1 \in Nat /\ guess.attempts + 1 <= MaxAttempts
    BY <2>1, ParlourAssumption DEF ParlourTypes
  <2>4. /\ guess' \in [target : Nat, max : Ranges \cup {0}, attempts : Nat, over : BOOLEAN]
        /\ guess'.target = guess.target /\ guess'.max = guess.max /\ guess'.attempts = guess.attempts + 1
    BY <2>1, <2>2, <2>3 DEF ParlourTypes
  <2> QED BY <2>1, <2>3, <2>4, HangmanStays DEF ParlourTypes
<1>5. CASE UNCHANGED parlourVars
  BY <1>5, HangmanStays DEF parlourVars, ParlourTypes
<1> QED BY <1>1, <1>2, <1>3, <1>4, <1>5, LettersCounted DEF ParlourNext

LEMMA ParlourStarts ==
  ASSUME ParlourInit
  PROVE  ParlourTypes /\ HangmanInv
<1>1. NoHangman \in [word : Words \cup {{}}, guessed : SUBSET Letters, wrong : Nat, over : BOOLEAN]
  BY DEF NoHangman
<1>2. NoGuess \in [target : Nat, max : Ranges \cup {0}, attempts : Nat, over : BOOLEAN]
  BY DEF NoGuess
<1>3. HangmanInv
  BY FS_EmptySet, ParlourAssumption DEF ParlourInit, HangmanInv, LivesAreLetters, NoHangman
<1> QED BY <1>1, <1>2, <1>3, ParlourAssumption DEF ParlourInit, ParlourTypes, NoGuess
-----------------------------------------------------------------------------
(* Chess.                                                                  *)

ChessFlags == {ongoing, tangled, mispaid} \subseteq BOOLEAN

ChessTypes ==
  /\ match \in Matches \cup {NoMatch} /\ challenge \in Challenges \cup {NoChallenge}
  /\ waiting \in [ChessHandlers -> {"nothing", "start", "forfeit"}]
  /\ about \in [ChessHandlers -> Challenges \cup {NoChallenge}]
  /\ board \in [ChessHandlers -> 0 .. MaxAccepts]
  /\ heir \in [ChessHandlers -> ChessUsers \cup {NoPlayer}]
  /\ sessions \in 0 .. MaxSessions /\ accepts \in 0 .. MaxAccepts /\ sendFails \in 0 .. MaxSendFails
  /\ payments \in [1 .. MaxAccepts -> Nat]

\* The games that are on the table or on their way there are different, and none has been paid.
GamesUnpaid ==
  /\ match # NoMatch => match.id \in 1 .. accepts /\ payments[match.id] = 0
  /\ \A h \in ChessHandlers : waiting[h] = "start" =>
       /\ board[h] \in 1 .. accepts /\ payments[board[h]] = 0 /\ board[h] # match.id
       /\ \A g \in ChessHandlers \ {h} : waiting[g] = "start" => board[g] # board[h]
  /\ \A i \in 1 .. MaxAccepts : payments[i] <= 1 /\ (i > accepts => payments[i] = 0)

\* Who waits has read a challenge, and a forfeit makes one of its two the winner.
ReadsChallenges ==
  /\ challenge # NoChallenge => challenge.challenger # challenge.challengee
  /\ \A h \in ChessHandlers :
       /\ waiting[h] # "nothing" => about[h] \in Challenges
       /\ waiting[h] = "forfeit" => heir[h] \in {about[h].challenger, about[h].challengee}

\* Unless a handler went on too late, a game is that of the challenge.
MatchOfChallenge ==
  ~tangled =>
    /\ ~mispaid
    /\ match # NoMatch => /\ challenge # NoChallenge
                          /\ match.white = challenge.challenger /\ match.black = challenge.challengee

ChessInv == NeverBlocked /\ GamesUnpaid /\ ReadsChallenges /\ MatchOfChallenge

LEMMA NotThere ==
  /\ NoMatch \notin Matches /\ NoMatch.id = 0 /\ NoMatch.white = NoPlayer /\ NoMatch.black = NoPlayer
  /\ NoChallenge \notin Challenges
  /\ NoChallenge.challenger = NoPlayer /\ NoChallenge.challengee = NoPlayer
  /\ \A m \in Matches : m.id \in 1 .. MaxAccepts /\ m.white \in ChessUsers /\ m.black \in ChessUsers
  /\ \A c \in Challenges : c.challenger \in ChessUsers /\ c.challengee \in ChessUsers
BY ChessAssumption DEF NoMatch, Matches, NoChallenge, Challenges

\* Ending a game clears it away and pays it at most once.
Cleared(winner, won) ==
  /\ match # NoMatch /\ challenge # NoChallenge
  /\ match' = NoMatch /\ challenge' = NoChallenge /\ ongoing' = FALSE
  /\ \/ UNCHANGED <<payments, mispaid>>
     \/ /\ payments' = [payments EXCEPT ![match.id] = @ + 1]
        /\ mispaid' = (mispaid \/ winner # won \/ winner \notin {match.white, match.black})

LEMMA EndCases ==
  ASSUME NEW winner, NEW won, End(winner, won)
  PROVE  UNCHANGED <<match, challenge, ongoing, payments, mispaid>> \/ Cleared(winner, won)
BY DEF End, CleanSlate, Cleared

LEMMA EndTyped ==
  ASSUME ChessTypes, NEW winner, NEW won, End(winner, won)
  PROVE  /\ match' \in Matches \cup {NoMatch} /\ challenge' \in Challenges \cup {NoChallenge}
         /\ payments' \in [1 .. MaxAccepts -> Nat]
<1>1. CASE UNCHANGED <<match, challenge, ongoing, payments, mispaid>>
  BY <1>1 DEF ChessTypes
<1>2. CASE Cleared(winner, won)
  BY <1>2, NotThere DEF Cleared, ChessTypes
<1> QED BY <1>1, <1>2, EndCases

LEMMA ChessFlagged ==
  ASSUME ChessFlags, [ChessNext]_chessVars
  PROVE  ChessFlags'
<1>1. ASSUME NEW winner, NEW won, End(winner, won)
      PROVE  {ongoing', mispaid'} \subseteq BOOLEAN
  BY <1>1 DEF End, CleanSlate, ChessFlags
<1>2. ASSUME NEW u \in ChessUsers, NEW v \in ChessUsers, ChessChallenge(u, v) PROVE ChessFlags'
  BY <1>2 DEF ChessChallenge, ChessFlags
<1>3. ASSUME NEW u \in ChessUsers, Reject(u) PROVE ChessFlags'
  BY <1>3 DEF Reject, CleanSlate, ChessFlags
<1>4. ASSUME NEW u \in ChessUsers, Checkmate(u) PROVE ChessFlags'
  BY <1>1, <1>4 DEF Checkmate, ChessFlags
<1>5. ASSUME NEW u \in ChessUsers, NEW h \in ChessHandlers, Accept(h, u) \/ Forfeit(h, u) PROVE ChessFlags'
  BY <1>5 DEF Accept, Forfeit, ChessFlags
<1>6. ASSUME NEW h \in ChessHandlers, StartMatch(h) \/ AnswerFails(h) PROVE ChessFlags'
  BY <1>6 DEF StartMatch, AnswerFails, ChessFlags
<1>7. ASSUME NEW h \in ChessHandlers, Forfeited(h) PROVE ChessFlags'
  BY <1>1, <1>7 DEF Forfeited, ChessFlags
<1>8. CASE Stalemate
  BY <1>1, <1>8 DEF Stalemate, ChessFlags
<1>9. CASE UNCHANGED chessVars
  BY <1>9 DEF chessVars, ChessFlags
<1> QED BY <1>2, <1>3, <1>4, <1>5, <1>6, <1>7, <1>8, <1>9 DEF ChessNext

LEMMA ChessTyped ==
  ASSUME ChessTypes, GamesUnpaid, ReadsChallenges, [ChessNext]_chessVars
  PROVE  ChessTypes'
<1> USE DEF CountsKept, HandlersKept
<1>1. ASSUME NEW u \in ChessUsers, NEW v \in ChessUsers, ChessChallenge(u, v) PROVE ChessTypes'
  <2>1. /\ sessions' = sessions + 1 /\ sessions < MaxSessions
        /\ challenge' = [n |-> sessions + 1, challenger |-> u, challengee |-> v]
        /\ UNCHANGED <<match, ongoing, accepts, sendFails, payments, waiting, about, board, heir>>
    BY <1>1 DEF ChessChallenge
  <2>2. sessions + 1 \in 1 .. MaxSessions /\ sessions' \in 0 .. MaxSessions
    BY <2>1, ChessAssumption DEF ChessTypes
  <2>3. challenge' \in Challenges
    BY <2>1, <2>2 DEF Challenges
  <2> QED BY <2>1, <2>2, <2>3 DEF ChessTypes
<1>2. ASSUME NEW u \in ChessUsers, Reject(u) PROVE ChessTypes'
  BY <1>2 DEF Reject, CleanSlate, ChessTypes
<1>3. ASSUME NEW u \in ChessUsers, Checkmate(u) PROVE ChessTypes'
  BY <1>3, EndTyped DEF Checkmate, ChessTypes
<1>4. ASSUME NEW h \in ChessHandlers, NEW for \in {"start", "forfeit"}, NEW id \in 0 .. MaxAccepts,
             NEW winner \in ChessUsers \cup {NoPlayer}, Wait(h, for, challenge, id, winner)
      PROVE  ChessTypes => /\ waiting' \in [ChessHandlers -> {"nothing", "start", "forfeit"}]
                           /\ about' \in [ChessHandlers -> Challenges \cup {NoChallenge}]
                           /\ board' \in [ChessHandlers -> 0 .. MaxAccepts]
                           /\ heir' \in [ChessHandlers -> ChessUsers \cup {NoPlayer}]
  BY <1>4 DEF Wait, ChessTypes
<1>5. ASSUME NEW h \in ChessHandlers, GoOn(h)
      PROVE  ChessTypes => /\ waiting' \in [ChessHandlers -> {"nothing", "start", "forfeit"}]
                           /\ about' \in [ChessHandlers -> Challenges \cup {NoChallenge}]
                           /\ board' \in [ChessHandlers -> 0 .. MaxAccepts]
                           /\ heir' \in [ChessHandlers -> ChessUsers \cup {NoPlayer}]
  BY <1>5, ChessAssumption DEF GoOn, ChessTypes
<1>6. ASSUME NEW u \in ChessUsers, NEW h \in ChessHandlers, Accept(h, u) PROVE ChessTypes'
  <2>1. /\ accepts < MaxAccepts /\ accepts' = accepts + 1 /\ Wait(h, "start", challenge, accepts + 1, NoPlayer)
        /\ UNCHANGED <<match, challenge, sessions, sendFails, payments>>
    BY <1>6 DEF Accept
  <2>2. accepts + 1 \in 0 .. MaxAccepts
    BY <2>1, ChessAssumption DEF ChessTypes
  <2> QED BY <1>4, <2>1, <2>2 DEF ChessTypes
<1>7. ASSUME NEW u \in ChessUsers, NEW h \in ChessHandlers, Forfeit(h, u) PROVE ChessTypes'
  <2>1. /\ Wait(h, "forfeit", challenge, 0, Other(u))
        /\ UNCHANGED <<match, challenge, sessions, accepts, sendFails, payments>>
    BY <1>7 DEF Forfeit
  <2>2. Other(u) \in ChessUsers \cup {NoPlayer} /\ 0 \in 0 .. MaxAccepts
    BY NotThere, ChessAssumption DEF Other, ChessTypes
  <2> QED BY <1>4, <2>1, <2>2 DEF ChessTypes
<1>8. ASSUME NEW h \in ChessHandlers, StartMatch(h)
      PROVE  ChessTypes'
  <2>1. /\ match' = [id |-> board[h], white |-> about[h].challenger, black |-> about[h].challengee]
        /\ GoOn(h) /\ UNCHANGED <<challenge, sessions, accepts, sendFails, payments>>
    BY <1>8 DEF StartMatch
  <2>2. about[h] \in Challenges /\ board[h] \in 1 .. MaxAccepts
    BY <1>8, ChessAssumption DEF StartMatch, ChessTypes, GamesUnpaid, ReadsChallenges
  <2>3. match' \in Matches
    BY <2>1, <2>2, NotThere DEF Matches
  <2> QED BY <1>5, <2>1, <2>3 DEF ChessTypes
<1>9. ASSUME NEW h \in ChessHandlers, Forfeited(h) PROVE ChessTypes'
  BY <1>5, <1>9, EndTyped DEF Forfeited, ChessTypes
<1>10. ASSUME NEW h \in ChessHandlers, AnswerFails(h) PROVE ChessTypes'
  BY <1>5, <1>10, ChessAssumption DEF AnswerFails, ChessTypes
<1>11. CASE Stalemate
  BY <1>11, EndTyped DEF Stalemate, ChessTypes
<1>12. CASE UNCHANGED chessVars
  BY <1>12 DEF chessVars, ChessTypes
<1> QED BY <1>1, <1>2, <1>3, <1>6, <1>7, <1>8, <1>9, <1>10, <1>11, <1>12 DEF ChessNext
\* Ends, by whoever's hand, as long as the winner is right where the game is that of the challenge.
LEMMA EndKeeps ==
  ASSUME ChessTypes, ChessInv, NEW winner, NEW won, End(winner, won),
         UNCHANGED accepts,
         \A h \in ChessHandlers : waiting'[h] = "start" => waiting[h] = "start" /\ board'[h] = board[h]
  PROVE  NeverBlocked' /\ GamesUnpaid' /\ (challenge' # NoChallenge => challenge'.challenger # challenge'.challengee)
<1>1. CASE UNCHANGED <<match, challenge, ongoing, payments, mispaid>>
  BY <1>1 DEF ChessInv, NeverBlocked, GamesUnpaid, ReadsChallenges
<1>2. CASE Cleared(winner, won)
  <2>1. match' = NoMatch /\ challenge' = NoChallenge /\ ~ongoing'
    BY <1>2 DEF Cleared
  <2>2. GamesUnpaid'
    <3>1. match.id \in 1 .. accepts /\ payments[match.id] = 0
      BY <1>2 DEF Cleared, ChessInv, GamesUnpaid
    <3>2. accepts \in 0 .. MaxAccepts /\ MaxAccepts \in Nat
      BY ChessAssumption DEF ChessTypes
    <3>3. /\ \A i \in 1 .. MaxAccepts : i # match.id => payments'[i] = payments[i]
          /\ payments'[match.id] \in {0, 1}
      BY <1>2, <3>1, <3>2 DEF Cleared, ChessTypes
    <3>4. ASSUME NEW i \in 1 .. MaxAccepts PROVE payments'[i] <= 1 /\ (i > accepts' => payments'[i] = 0)
      BY <3>1, <3>2, <3>3 DEF ChessInv, GamesUnpaid
    <3>5. ASSUME NEW h \in ChessHandlers, waiting'[h] = "start"
          PROVE  /\ board'[h] \in 1 .. accepts' /\ payments'[board'[h]] = 0 /\ board'[h] # match'.id
                 /\ \A g \in ChessHandlers \ {h} : waiting'[g] = "start" => board'[g] # board'[h]
      <4>1. board'[h] \in 1 .. accepts /\ payments[board'[h]] = 0 /\ board'[h] # match.id
        BY <3>5 DEF ChessInv, GamesUnpaid
      <4>2. board'[h] \in 1 .. MaxAccepts /\ board'[h] # 0
        BY <3>2, <4>1
      <4> QED BY <2>1, <3>3, <3>5, <4>1, <4>2, NotThere DEF ChessInv, GamesUnpaid
    <3> QED BY <2>1, <3>4, <3>5 DEF GamesUnpaid
  <2> QED BY <2>1, <2>2 DEF NeverBlocked
<1> QED BY <1>1, <1>2, EndCases

LEMMA ChessStays ==
  ASSUME ChessInv,
         UNCHANGED <<match, challenge, ongoing, accepts, payments, tangled, mispaid>>,
         UNCHANGED <<waiting, about, board, heir>> \/ \E h \in ChessHandlers : GoOn(h),
         ChessTypes
  PROVE  ChessInv'
<1>1. \A h \in ChessHandlers : waiting'[h] # "nothing" =>
         waiting'[h] = waiting[h] /\ about'[h] = about[h] /\ board'[h] = board[h] /\ heir'[h] = heir[h]
  BY DEF GoOn, ChessTypes
<1>2. GamesUnpaid'
  BY <1>1 DEF ChessInv, GamesUnpaid
<1>3. ReadsChallenges'
  BY <1>1 DEF ChessInv, ReadsChallenges
<1> QED BY <1>2, <1>3 DEF ChessInv, NeverBlocked, MatchOfChallenge

LEMMA ChallengeKeeps ==
  ASSUME ChessTypes, ChessInv, NEW u \in ChessUsers, NEW v \in ChessUsers, ChessChallenge(u, v)
  PROVE  ChessInv'
<1>1. /\ u # v /\ ~ongoing /\ challenge = NoChallenge
      /\ challenge' = [n |-> sessions', challenger |-> u, challengee |-> v]
      /\ UNCHANGED <<match, ongoing, accepts, payments, tangled, mispaid, waiting, about, board, heir>>
  BY DEF ChessChallenge, HandlersKept
<1>2. challenge'.challenger = u /\ challenge'.challengee = v
  BY <1>1
<1> QED BY <1>1, <1>2 DEF ChessInv, NeverBlocked, GamesUnpaid, ReadsChallenges, MatchOfChallenge

LEMMA AcceptKeeps ==
  ASSUME ChessTypes, ChessInv, NEW h \in ChessHandlers, NEW u \in ChessUsers, Accept(h, u)
  PROVE  ChessInv'
<1>1. /\ challenge.challengee = u /\ accepts' = accepts + 1 /\ accepts < MaxAccepts
      /\ Wait(h, "start", challenge, accepts + 1, NoPlayer)
      /\ UNCHANGED <<match, challenge, payments, tangled, mispaid>>
  BY DEF Accept
<1>2. challenge \in Challenges /\ challenge # NoChallenge
  BY <1>1, NotThere, ChessAssumption DEF ChessTypes
<1>3. /\ waiting'[h] = "start" /\ about'[h] = challenge /\ board'[h] = accepts + 1
      /\ \A g \in ChessHandlers \ {h} : waiting'[g] = waiting[g] /\ about'[g] = about[g]
                                        /\ board'[g] = board[g] /\ heir'[g] = heir[g]
  BY <1>1 DEF Wait, ChessTypes
<1>4. accepts \in Nat /\ accepts + 1 \in 1 .. MaxAccepts /\ payments[accepts + 1] = 0
  BY <1>1, ChessAssumption DEF ChessTypes, ChessInv, GamesUnpaid
<1>5. match.id # accepts + 1
  BY <1>4, NotThere DEF ChessInv, GamesUnpaid
<1>6. GamesUnpaid'
  <2>1. match' # NoMatch => match'.id \in 1 .. accepts' /\ payments'[match'.id] = 0
    BY <1>1, <1>4 DEF ChessInv, GamesUnpaid
  <2>2. ASSUME NEW g \in ChessHandlers, waiting'[g] = "start"
        PROVE  /\ board'[g] \in 1 .. accepts' /\ payments'[board'[g]] = 0 /\ board'[g] # match'.id
               /\ g # h => board'[g] # accepts + 1
    BY <1>1, <1>3, <1>4, <1>5, <2>2 DEF ChessInv, GamesUnpaid
  <2>3. ASSUME NEW g \in ChessHandlers, NEW k \in ChessHandlers \ {g}, waiting'[g] = "start", waiting'[k] = "start"
        PROVE  board'[k] # board'[g]
    <3>1. CASE g = h \/ k = h
      BY <1>3, <2>2, <2>3, <3>1
    <3>2. CASE g # h /\ k # h
      BY <1>3, <2>3, <3>2 DEF ChessInv, GamesUnpaid
    <3> QED BY <3>1, <3>2
  <2>4. \A i \in 1 .. MaxAccepts : payments'[i] <= 1 /\ (i > accepts' => payments'[i] = 0)
    BY <1>1, <1>4 DEF ChessInv, GamesUnpaid
  <2> QED BY <2>1, <2>2, <2>3, <2>4 DEF GamesUnpaid
<1>7. ReadsChallenges'
  BY <1>1, <1>2, <1>3 DEF ChessInv, ReadsChallenges
<1> QED BY <1>1, <1>2, <1>6, <1>7 DEF ChessInv, NeverBlocked, MatchOfChallenge

LEMMA ForfeitKeeps ==
  ASSUME ChessTypes, ChessInv, NEW h \in ChessHandlers, NEW u \in ChessUsers, Forfeit(h, u)
  PROVE  ChessInv'
<1>1. /\ u \in {challenge.challenger, challenge.challengee}
      /\ Wait(h, "forfeit", challenge, 0, Other(u))
      /\ UNCHANGED <<match, challenge, ongoing, accepts, payments, tangled, mispaid>>
  BY DEF Forfeit, CountsKept
<1>2. challenge \in Challenges
  BY <1>1, NotThere, ChessAssumption DEF ChessTypes
<1>3. /\ waiting'[h] = "forfeit" /\ about'[h] = challenge /\ heir'[h] = Other(u)
      /\ \A g \in ChessHandlers \ {h} : waiting'[g] = waiting[g] /\ about'[g] = about[g]
                                        /\ board'[g] = board[g] /\ heir'[g] = heir[g]
  BY <1>1 DEF Wait, ChessTypes
<1>4. GamesUnpaid'
  BY <1>1, <1>3 DEF ChessInv, GamesUnpaid
<1>5. ReadsChallenges'
  BY <1>1, <1>2, <1>3 DEF ChessInv, ReadsChallenges, Other
<1> QED BY <1>1, <1>4, <1>5 DEF ChessInv, NeverBlocked, MatchOfChallenge

LEMMA StartKeeps ==
  ASSUME ChessTypes, ChessInv, NEW h \in ChessHandlers, StartMatch(h)
  PROVE  ChessInv'
<1>1. /\ waiting[h] = "start" /\ GoOn(h)
      /\ match' = [id |-> board[h], white |-> about[h].challenger, black |-> about[h].challengee]
      /\ tangled' = (tangled \/ challenge # about[h])
      /\ UNCHANGED <<challenge, ongoing, payments, mispaid, accepts>>
  BY DEF StartMatch, CountsKept
<1>2. match'.id = board[h] /\ match'.white = about[h].challenger /\ match'.black = about[h].challengee
  BY <1>1
<1>3. /\ waiting'[h] = "nothing"
      /\ \A g \in ChessHandlers \ {h} : waiting'[g] = waiting[g] /\ about'[g] = about[g]
                                        /\ board'[g] = board[g] /\ heir'[g] = heir[g]
  BY <1>1 DEF GoOn, ChessTypes
<1>4. about[h] \in Challenges
  BY <1>1 DEF ChessInv, ReadsChallenges
<1>5. GamesUnpaid'
  BY <1>1, <1>2, <1>3 DEF ChessInv, GamesUnpaid
<1>6. ReadsChallenges'
  BY <1>1, <1>3 DEF ChessInv, ReadsChallenges
<1>7. ~tangled' => ~tangled /\ challenge = about[h]
  BY <1>1
<1>8. MatchOfChallenge'
  BY <1>1, <1>2, <1>4, <1>7, NotThere DEF ChessInv, MatchOfChallenge
<1> QED BY <1>1, <1>5, <1>6, <1>8 DEF ChessInv, NeverBlocked

LEMMA WinKeeps ==
  ASSUME ChessTypes, ChessInv, NEW u \in ChessUsers, Checkmate(u) \/ Stalemate
  PROVE  ChessInv'
<1>1. UNCHANGED <<tangled, waiting, about, board, heir, accepts>>
  BY DEF Checkmate, Stalemate, HandlersKept, CountsKept
<1>2. ASSUME NEW winner, NEW won, End(winner, won),
             MatchOfChallenge /\ ~tangled /\ match # NoMatch =>
               winner = NoPlayer \/ (winner = won /\ winner \in {match.white, match.black})
      PROVE  ChessInv'
  <2>1. NeverBlocked' /\ GamesUnpaid' /\ (challenge' # NoChallenge => challenge'.challenger # challenge'.challengee)
    BY <1>1, <1>2, EndKeeps
  <2>2. ReadsChallenges'
    BY <1>1, <2>1 DEF ChessInv, ReadsChallenges
  <2>3. MatchOfChallenge'
    <3>1. CASE UNCHANGED <<match, challenge, ongoing, payments, mispaid>>
      BY <1>1, <3>1 DEF ChessInv, MatchOfChallenge
    <3>2. CASE Cleared(winner, won)
      <4>1. match' = NoMatch /\ match # NoMatch
        BY <3>2 DEF Cleared
      <4>2. ASSUME ~tangled PROVE ~mispaid'
        <5>1. ~mispaid
          BY <4>2 DEF ChessInv, MatchOfChallenge
        <5>2. CASE winner = NoPlayer
          BY <1>2, <3>2, <5>1, <5>2 DEF End, Cleared
        <5>3. CASE winner = won /\ winner \in {match.white, match.black}
          BY <3>2, <5>1, <5>3 DEF Cleared
        <5> QED BY <1>2, <4>1, <4>2, <5>2, <5>3 DEF ChessInv
      <4> QED BY <1>1, <4>1, <4>2 DEF MatchOfChallenge
    <3> QED BY <1>2, <3>1, <3>2, EndCases
  <2> QED BY <2>1, <2>2, <2>3 DEF ChessInv
<1>3. CASE Checkmate(u)
  <2> DEFINE winner == IF u = match.white THEN challenge.challenger ELSE challenge.challengee
  <2>1. u \in {match.white, match.black} /\ End(winner, u)
    BY <1>3 DEF Checkmate
  <2>2. MatchOfChallenge /\ ~tangled /\ match # NoMatch => winner = u
    BY <2>1 DEF MatchOfChallenge
  <2> QED BY <1>2, <2>1, <2>2
<1>4. CASE Stalemate
  BY <1>2, <1>4 DEF Stalemate
<1> QED BY <1>3, <1>4

LEMMA ForfeitedKeeps ==
  ASSUME ChessTypes, ChessInv, NEW h \in ChessHandlers, Forfeited(h)
  PROVE  ChessInv'
<1> DEFINE winner == IF heir[h] \in Phones THEN heir[h] ELSE NoPlayer
<1>1. /\ waiting[h] = "forfeit" /\ End(winner, heir[h]) /\ GoOn(h) /\ UNCHANGED accepts
      /\ tangled' = (tangled \/ challenge # about[h])
  BY DEF Forfeited, CountsKept
<1>2. /\ waiting'[h] = "nothing"
      /\ \A g \in ChessHandlers \ {h} : waiting'[g] = waiting[g] /\ about'[g] = about[g]
                                        /\ board'[g] = board[g] /\ heir'[g] = heir[g]
  BY <1>1 DEF GoOn, ChessTypes
<1>3. winner = heir[h] \/ winner = NoPlayer
  OBVIOUS
<1>4. heir[h] \in {about[h].challenger, about[h].challengee}
  BY <1>1 DEF ChessInv, ReadsChallenges
<1> HIDE DEF winner
<1>5. NeverBlocked' /\ GamesUnpaid' /\ (challenge' # NoChallenge => challenge'.challenger # challenge'.challengee)
  BY <1>1, <1>2, EndKeeps
<1>6. ReadsChallenges'
  BY <1>2, <1>5 DEF ChessInv, ReadsChallenges
<1>7. ~tangled' => ~tangled /\ challenge = about[h]
  BY <1>1
<1>8. CASE UNCHANGED <<match, challenge, ongoing, payments, mispaid>>
  BY <1>5, <1>6, <1>7, <1>8 DEF ChessInv, MatchOfChallenge
<1>9. CASE Cleared(winner, heir[h])
  <2>1. match' = NoMatch /\ match # NoMatch
    BY <1>9 DEF Cleared
  <2>2. ASSUME ~tangled' PROVE ~mispaid'
    <3>1. ~mispaid /\ heir[h] \in {match.white, match.black}
      BY <1>4, <1>7, <2>1, <2>2 DEF ChessInv, MatchOfChallenge
    <3>2. CASE winner = NoPlayer
      BY <1>1, <1>9, <3>1, <3>2 DEF End, Cleared
    <3>3. CASE winner = heir[h]
      BY <1>9, <3>1, <3>3 DEF Cleared
    <3> QED BY <1>3, <3>2, <3>3
  <2>3. MatchOfChallenge'
    BY <2>1, <2>2 DEF MatchOfChallenge
  <2> QED BY <1>5, <1>6, <2>3 DEF ChessInv
<1> QED BY <1>1, <1>8, <1>9, EndCases

LEMMA ChessKept ==
  ASSUME ChessTypes, ChessInv, [ChessNext]_chessVars
  PROVE  ChessInv'
<1>1. ASSUME NEW u \in ChessUsers, Reject(u) PROVE ChessInv'
  <2>1. /\ match' = NoMatch /\ challenge' = NoChallenge /\ ongoing' = FALSE
        /\ UNCHANGED <<payments, tangled, mispaid, waiting, about, board, heir, accepts>>
    BY <1>1 DEF Reject, CleanSlate, HandlersKept, CountsKept
  <2>2. GamesUnpaid'
    <3>1. \A h \in ChessHandlers : waiting[h] = "start" => board[h] # NoMatch.id
      BY NotThere, ChessAssumption DEF ChessInv, GamesUnpaid, ChessTypes
    <3> QED BY <2>1, <3>1 DEF ChessInv, GamesUnpaid
  <2> QED BY <2>1, <2>2 DEF ChessInv, NeverBlocked, ReadsChallenges, MatchOfChallenge
<1>2. ASSUME NEW h \in ChessHandlers, AnswerFails(h) PROVE ChessInv'
  BY <1>2, ChessStays DEF AnswerFails
<1>3. CASE UNCHANGED chessVars
  BY <1>3, ChessStays DEF chessVars
<1>4. CASE Stalemate
  <2>1. CASE ChessUsers = {}
    BY <1>4, <2>1, NotThere DEF Stalemate, ChessTypes
  <2>2. CASE ChessUsers # {}
    BY <1>4, <2>2, WinKeeps
  <2> QED BY <2>1, <2>2
<1> QED BY <1>1, <1>2, <1>3, <1>4, ChallengeKeeps, AcceptKeeps, ForfeitKeeps, StartKeeps, WinKeeps,
           ForfeitedKeeps DEF ChessNext

LEMMA ChessStarts ==
  ASSUME ChessInit
  PROVE  ChessTypes /\ ChessFlags /\ ChessInv
<1>1. ChessTypes
  BY ChessAssumption DEF ChessInit, ChessTypes
<1>2. ChessFlags
  BY DEF ChessInit, ChessFlags
<1>3. ChessInv
  BY ChessAssumption DEF ChessInit, ChessInv, NeverBlocked, GamesUnpaid, ReadsChallenges, MatchOfChallenge
<1> QED BY <1>1, <1>2, <1>3

LEMMA ChessInvariant == ChessSpec => [](ChessTypes /\ ChessFlags /\ ChessInv)
<1>1. ChessTypes /\ ChessFlags /\ ChessInv /\ [ChessNext]_chessVars => (ChessTypes /\ ChessFlags /\ ChessInv)'
  BY ChessTyped, ChessFlagged, ChessKept DEF ChessInv
<1> QED BY <1>1, ChessStarts, PTL DEF ChessSpec

(* Whatever order the commands come in and whichever answers fail, a chat that
   takes no challenge has one that can still be rejected.                  *)
THEOREM ChessNeverBlocks == ChessSpec => []NeverBlocked
<1>1. ChessInv => NeverBlocked
  BY DEF ChessInv
<1> QED BY <1>1, ChessInvariant, PTL

(* A game is paid once, and to its winner unless a handler went on after the
   challenge it had read was gone.                                         *)
THEOREM ChessPaysOnce == ChessSpec => []PaidOnceToTheWinner
<1>1. ChessInv => PaidOnceToTheWinner
  BY DEF ChessInv, GamesUnpaid, MatchOfChallenge, PaidOnceToTheWinner
<1> QED BY <1>1, ChessInvariant, PTL
-----------------------------------------------------------------------------
(* The games together: each is played by its own rules.                    *)

OverFlag == {ludoOver} \subseteq BOOLEAN

LEMMA OverFlagged ==
  ASSUME OverFlag, [LudoNext]_ludoVars
  PROVE  OverFlag'
<1>1. ASSUME NEW s \in Seats, NEW t, NEW roll, MoveToken(s, t, roll) PROVE OverFlag'
  BY <1>1 DEF MoveToken, OverFlag
<1>2. ASSUME NEW u \in LudoUsers, NEW o \in Opponents, LudoChallenge(u, o) PROVE OverFlag'
  BY <1>2 DEF LudoChallenge, OverFlag
<1>3. ASSUME NEW s \in Seats, LudoForfeit(s) PROVE OverFlag'
  BY <1>3 DEF LudoForfeit, OverFlag
<1>4. ASSUME NEW s \in Seats, NEW roll \in 1 .. Six, Roll(s, roll) PROVE OverFlag'
  BY <1>1, <1>4 DEF Roll, OverFlag
<1>5. ASSUME NEW s \in Seats, NEW t \in 1 .. Tokens, ChooseToken(s, t) PROVE OverFlag'
  BY <1>1, <1>5 DEF ChooseToken
<1>6. CASE UNCHANGED ludoVars
  BY <1>6 DEF ludoVars, OverFlag
<1> QED BY <1>2, <1>3, <1>4, <1>5, <1>6 DEF LudoNext

GamesInv ==
  /\ C4Types /\ C4Playing /\ LineDecides
  /\ LudoTypes /\ LudoPlaying /\ OverFlag /\ OneColorPerCell
  /\ ChessTypes /\ ChessFlags /\ ChessInv
  /\ ParlourTypes /\ HangmanInv
  /\ BondTypes /\ BondsUnderWay

gamesVars == <<playing, c4Vars, ludoVars, chessVars, parlourVars, bondVars>>

LEMMA EachIsPlayed ==
  ASSUME [Next]_gamesVars
  PROVE  /\ [C4Next]_c4Vars /\ [LudoNext]_ludoVars /\ [ChessNext]_chessVars
         /\ [ParlourNext]_parlourVars /\ [BondsNext]_bondVars
BY DEF Next, gamesVars

LEMMA GamesGoOn ==
  ASSUME GamesInv, [Next]_gamesVars
  PROVE  GamesInv'
<1> USE DEF GamesInv
<1>1. C4Types' /\ C4Playing'
  BY EachIsPlayed, C4Typed
<1>2. LineDecides'
  BY EachIsPlayed, LinesKept
<1>3. LudoTypes' /\ LudoPlaying'
  BY EachIsPlayed, LudoTyped
<1>4. OverFlag' /\ OneColorPerCell'
  BY EachIsPlayed, OverFlagged, ColorsSeparate
<1>5. ChessTypes' /\ ChessFlags' /\ ChessInv'
  BY EachIsPlayed, ChessTyped, ChessFlagged, ChessKept DEF ChessInv
<1>6. ParlourTypes' /\ HangmanInv'
  BY EachIsPlayed, ParlourTyped
<1>7. BondTypes' /\ BondsUnderWay'
  BY EachIsPlayed, BondsTyped
<1> QED BY <1>1, <1>2, <1>3, <1>4, <1>5, <1>6, <1>7

LEMMA GamesStart ==
  ASSUME Init
  PROVE  GamesInv
<1>1. OverFlag
  BY DEF Init, LudoInit, OverFlag
<1> QED BY <1>1, C4Starts, LinesStart, LudoStarts, ColorsStart, ChessStarts, ParlourStarts, BondsStart
        DEF Init, GamesInv

LEMMA GamesInvariant == Spec => []GamesInv
<1>1. Init => GamesInv
  BY GamesStart
<1>2. GamesInv /\ [Next]_gamesVars => GamesInv'
  BY GamesGoOn
<1> QED BY <1>1, <1>2, PTL DEF Spec, gamesVars

LEMMA GamesHold ==
  ASSUME GamesInv
  PROVE  BoardsHold
<1>1. C4TypeOK
  <2>1. ASSUME NEW c \in 1 .. Cols PROVE c4Board[c] \in BoundedSeq(Pieces, Rows)
    <3>1. c4Board[c] \in Seq(Pieces) /\ Len(c4Board[c]) <= Rows
      BY DEF GamesInv, C4Types, Boards
    <3>2. Len(c4Board[c]) \in 0 .. Rows /\ c4Board[c] \in [1 .. Len(c4Board[c]) -> Pieces]
      BY <3>1, C4Assumption
    <3> QED BY <3>2 DEF BoundedSeq, SeqOf
  <2> QED BY <2>1 DEF GamesInv, C4Types, C4TypeOK, C4Games
<1>2. LudoTypeOK
  <2>1. players \in BoundedSeq(LudoUsers, MaxSeats)
    <3>1. players \in Seq(LudoUsers) /\ Len(players) <= MaxSeats
      BY DEF GamesInv, LudoTypes
    <3>2. Len(players) \in 0 .. MaxSeats /\ players \in [1 .. Len(players) -> LudoUsers]
      BY <3>1, LudoAssumption
    <3> QED BY <3>2 DEF BoundedSeq, SeqOf
  <2>2. ludoOver \in BOOLEAN
    BY DEF GamesInv, OverFlag
  <2> QED BY <2>1, <2>2 DEF GamesInv, LudoTypes, LudoTypeOK, Tables
<1>3. ChessTypeOK
  <2>1. ongoing \in BOOLEAN /\ tangled \in BOOLEAN /\ mispaid \in BOOLEAN
    BY DEF GamesInv, ChessFlags
  <2> QED BY <2>1 DEF GamesInv, ChessTypes, ChessTypeOK
<1>4. ParlourTypeOK /\ LivesAreLetters
  <2>1. ParlourTypes /\ HangmanInv
    BY DEF GamesInv
  <2>2. hangman \in [word : Words \cup {{}}, guessed : SUBSET Letters, wrong : 0 .. Lives, over : BOOLEAN]
    BY <2>1, ParlourAssumption DEF ParlourTypes, HangmanInv
  <2>3. /\ guess \in [target : Nat, max : Ranges \cup {0}, attempts : Nat, over : BOOLEAN]
        /\ guess.target <= guess.max /\ guess.attempts <= MaxAttempts
    BY <2>1 DEF ParlourTypes
  <2>4. guess.max \in Ranges \cup {0} /\ guess.over \in BOOLEAN
    BY <2>3
  <2>5. guess.max \in Nat
    <3>1. Ranges \subseteq Nat
      BY ParlourAssumption
    <3>2. CASE guess.max \in Ranges
      BY <3>1, <3>2
    <3>3. CASE guess.max \in {0}
      BY <3>3
    <3> QED BY <2>4, <3>2, <3>3
  <2>6. guess.target \in 0 .. guess.max
    BY <2>3, <2>5
  <2>7. guess.attempts \in 0 .. MaxAttempts
    BY <2>3, ParlourAssumption
  <2> QED BY <2>1, <2>2, <2>4, <2>6, <2>7 DEF ParlourTypeOK, HangmanInv
<1>5. BondsTypeOK
  BY DEF GamesInv, BondTypes, BondsUnderWay, BondsTypeOK, Shipments, Keys, Docs
<1>6. LineDecides /\ OneColorPerCell
  BY DEF GamesInv
<1> QED BY <1>1, <1>2, <1>3, <1>4, <1>5, <1>6 DEF BoardsHold

(* Whatever is played, the variables have their types and a board shows what
   the rules make of the moves: checkWin misses no line, no two colors of ludo
   share a cell but on a safe spot, and a life of hangman is a wrong letter. *)
THEOREM BoardsAlwaysHold == Spec => []BoardsHold
BY GamesInvariant, GamesHold, PTL

(* connect4 and ludo implement the game of turns: only the player whose turn
   it is moves, the turn goes round, a finished game stays finished.       *)
THEOREM GamesOfTurns == Spec => AreTurnGames
<1>1. Init => C4Turns!Init /\ LudoTurns!Init
  BY C4DealsFirst, LudoDealsFirst DEF Init
<1>2. GamesInv /\ GamesInv' /\ [Next]_gamesVars
        => [C4Turns!Deal \/ C4Turns!Move \/ C4Turns!Finish \/ C4Turns!Forfeit]_C4Turns!vars
  BY EachIsPlayed, C4StepsByTurns DEF GamesInv
<1>3. GamesInv /\ GamesInv' /\ [Next]_gamesVars
        => [LudoTurns!Deal \/ LudoTurns!Move \/ LudoTurns!Finish \/ LudoTurns!Forfeit]_LudoTurns!vars
  BY EachIsPlayed, LudoStepsByTurns DEF GamesInv
<1> QED BY <1>1, <1>2, <1>3, GamesInvariant, PTL
        DEF Spec, gamesVars, AreTurnGames, C4IsATurnGame, LudoIsATurnGame, C4Turns!Spec, LudoTurns!Spec
=============================================================================

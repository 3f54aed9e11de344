-------------------------------- MODULE Ludo --------------------------------
(***************************************************************************)
(* The ludo command: one game per chat, kept in memory.  Chats share       *)
(* nothing, and a handler changes the game before its first await, so each *)
(* command is one step.                                                    *)
(*                                                                         *)
(* A color is the number of its seat.  A token is parked, or so many cells *)
(* from the entry of its color: the first Track of them are shared by all, *)
(* the rest, up to HomeEnd, are the column that leads home.  A player who is  *)
(* mentioned twice in a challenge is left out.                             *)
(***************************************************************************)
EXTENDS Integers, SequencesExt, FiniteSetsExt

CONSTANTS
  LudoUsers,   \* who writes in the chat
  MaxSeats,    \* 4
  Tokens,      \* tokens of a player: 4
  Track,       \* shared cells: 52
  HomeEnd,        \* the last cell of the home column: 57
  Entry,       \* Entry[s]: the shared cell where the tokens of seat s enter
  SafeSpots,   \* shared cells without captures
  Six          \* the highest roll, which enters and rolls again: 6

Parked   == -1
NoSender == "nobody"

ASSUME LudoAssumption ==
  /\ NoSender \notin LudoUsers
  /\ Track \in Nat \ {0} /\ HomeEnd \in Nat /\ HomeEnd >= Track
  /\ Six \in 2 .. Track /\ Tokens \in Nat \ {0} /\ MaxSeats \in Nat \ {0}
  /\ Entry \in [1 .. MaxSeats -> 0 .. Track - 1]
  /\ SafeSpots \subseteq 0 .. Track - 1

Positions == {Parked} \cup 0 .. HomeEnd

VARIABLES
  players,    \* the senders in the order of their seats, empty before a game
  ludoTurn,   \* the seat whose turn it is
  lastRoll,   \* the last roll, 0 when the turn has passed by a move
  tokens,     \* tokens[s][t]: where token t of seat s is
  ludoOver,
  ludoWinner, \* the seat that won, 0 when none
  ludoMover   \* ghost: who sent the last command that changed the game

ludoVars == <<players, ludoTurn, lastRoll, tokens, ludoOver, ludoWinner, ludoMover>>

Seats == DOMAIN players
NewTokens == [t \in 1 .. Tokens |-> Parked]

LudoTypeOK ==
  /\ players \in BoundedSeq(LudoUsers, MaxSeats)
  /\ ludoTurn \in 1 .. MaxSeats /\ lastRoll \in 0 .. Six
  /\ tokens \in [Seats -> [1 .. Tokens -> Positions]]
  /\ ludoOver \in BOOLEAN /\ ludoWinner \in {0} \cup Seats
  /\ ludoMover \in LudoUsers \cup {NoSender}

LudoInit ==
  /\ players = <<>> /\ ludoTurn = 1 /\ lastRoll = 0 /\ tokens = <<>>
  /\ ludoOver = TRUE /\ ludoWinner = 0 /\ ludoMover = NoSender

-----------------------------------------------------------------------------
CanMove(pos, steps) == IF pos = Parked THEN steps = Six ELSE pos + steps <= HomeEnd

NextSeat(s) == (s % Len(players)) + 1

OnTrack(pos) == pos \in 0 .. Track - 1

(* localToGlobal *)
Global(s, pos) == (Entry[s] + pos) % Track

(* moveToken: a token enters with one step and goes on with the others; past
   the last cell it would bounce back.                                     *)
Moved(pos, steps) ==
  LET to == IF pos = Parked THEN steps - 1 ELSE pos + steps
  IN  IF to > HomeEnd THEN 2 * HomeEnd - to ELSE to

(* The cells on which a seat captures: those its tokens are on. *)
Attacked(s, mine) == {Global(s, mine[t]) : t \in {u \in 1 .. Tokens : OnTrack(mine[u])}} \ SafeSpots

(* afterMove: every token of the seat captures, not only the one that moved. *)
Captured(all, s) ==
  [o \in Seats |-> [t \in 1 .. Tokens |->
     IF o # s /\ OnTrack(all[o][t]) /\ Global(o, all[o][t]) \in Attacked(s, all[s])
     THEN Parked ELSE all[o][t]]]

AllHome(mine) == \A t \in 1 .. Tokens : mine[t] >= Track

(* moveToken and afterMove: a move wins, or goes again after a six (with the
   same roll standing), or passes the turn.                                *)
MoveToken(s, t, roll) ==
  LET all == [tokens EXCEPT ![s][t] = Moved(@, roll)]
  IN  /\ tokens' = Captured(all, s)
      /\ IF AllHome(all[s])
         THEN /\ ludoOver' = TRUE /\ ludoWinner' = s /\ lastRoll' = roll
              /\ UNCHANGED ludoTurn
         ELSE /\ IF roll = Six
                 THEN lastRoll' = roll /\ UNCHANGED ludoTurn
                 ELSE lastRoll' = 0 /\ ludoTurn' = NextSeat(s)
              /\ UNCHANGED <<ludoOver, ludoWinner>>
      /\ UNCHANGED players

LudoChallenge(sender, opponents) ==
  /\ ludoOver /\ opponents # <<>> /\ sender \notin Range(opponents)
  /\ players' = <<sender>> \o opponents
  /\ tokens' = [s \in DOMAIN players' |-> NewTokens]
  /\ ludoTurn' = 1 /\ lastRoll' = 0
  /\ ludoOver' = FALSE /\ ludoWinner' = 0
  /\ ludoMover' = sender

(* The first of the others wins. *)
LudoForfeit(s) ==
  /\ ~ludoOver
  /\ ludoOver' = TRUE
  /\ ludoWinner' = Min(Seats \ {s})
  /\ ludoMover' = players[s]
  /\ UNCHANGED <<players, ludoTurn, lastRoll, tokens>>

Movable(s, roll) == {t \in 1 .. Tokens : CanMove(tokens[s][t], roll)}

(* "roll" moves the only token that can move, passes the turn (but not the
   roll) when none can, and waits for "move" when several can.             *)
Roll(s, roll) ==
  /\ ~ludoOver /\ s = ludoTurn /\ ludoMover' = players[s]
  /\ \/ /\ Movable(s, roll) = {}
        /\ ludoTurn' = NextSeat(s) /\ lastRoll' = roll
        /\ UNCHANGED <<players, tokens, ludoOver, ludoWinner>>
     \/ \E t \in 1 .. Tokens : Movable(s, roll) = {t} /\ MoveToken(s, t, roll)
     \/ /\ Cardinality(Movable(s, roll)) > 1
        /\ lastRoll' = roll
        /\ UNCHANGED <<players, ludoTurn, tokens, ludoOver, ludoWinner>>

ChooseToken(s, t) ==
  /\ ~ludoOver /\ s = ludoTurn /\ ludoMover' = players[s]
  /\ lastRoll # 0 /\ CanMove(tokens[s][t], lastRoll)
  /\ MoveToken(s, t, lastRoll)

Opponents == UNION {{f \in [1 .. n -> LudoUsers] : IsInjective(f)} : n \in 1 .. MaxSeats - 1}

LudoNext ==
  \/ \E u \in LudoUsers, o \in Opponents : LudoChallenge(u, o)
  \/ \E s \in Seats :
       \/ LudoForfeit(s)
       \/ \E roll \in 1 .. Six : Roll(s, roll)
       \/ \E t \in 1 .. Tokens : ChooseToken(s, t)

LudoSpec == LudoInit /\ [][LudoNext]_ludoVars

-----------------------------------------------------------------------------
(***************************************************************************)
(* Properties                                                              *)
(***************************************************************************)

(* Captures leave no shared cell to two players: afterMove sends everyone home
   that a move has reached, and no later move brings two colors together but
   on a safe spot.                                                         *)
OneColorPerCell ==
  \A s, o \in Seats : s # o =>
    \A t, u \in 1 .. Tokens :
      OnTrack(tokens[s][t]) /\ OnTrack(tokens[o][u])
        /\ Global(s, tokens[s][t]) = Global(o, tokens[o][u])
      => Global(s, tokens[s][t]) \in SafeSpots

(* ludo is a game of turns: only the player whose turn it is rolls and moves,
   the turn stays or passes to the next seat, and a finished game stays
   finished.                                                               *)
LudoTurns == INSTANCE TurnGame WITH
  Nobody <- NoSender,
  seats  <- players,
  turn   <- ludoTurn,
  over   <- ludoOver,
  winner <- IF ludoWinner = 0 THEN NoSender ELSE players[ludoWinner],
  mover  <- ludoMover

LudoIsATurnGame == LudoTurns!Spec
=============================================================================

-------------------------------- MODULE Chess -------------------------------
(***************************************************************************)
(* The chess command in one chat: a challenge, the game it leads to, and   *)
(* the experience the winner is paid.  "accept" and "ff" answer, and wait  *)
(* for the answer to be sent, between reading the challenge and acting on  *)
(* it.  The rules of chess belong to the chess-node library: of a move all *)
(* that matters here is that it may end the game.                          *)
(***************************************************************************)
EXTENDS Integers, FiniteSets

CONSTANTS
  ChessUsers,
  Phones,         \* users who are known by number (...@s.whatsapp.net), not by @lid
  ChessHandlers,  \* handlers that may be waiting together
  MaxSessions,    \* bound: challenges in one behaviour
  MaxAccepts,     \* bound: challenges accepted
  MaxSendFails    \* bound: answers that cannot be sent

NoPlayer == "nobody"

ASSUME ChessAssumption ==
  /\ NoPlayer \notin ChessUsers /\ Phones \subseteq ChessUsers
  /\ MaxSessions \in Nat /\ MaxAccepts \in Nat /\ MaxSendFails \in Nat

NoChallenge == [n |-> 0, challenger |-> NoPlayer, challengee |-> NoPlayer]
NoMatch     == [id |-> 0, white |-> NoPlayer, black |-> NoPlayer]

VARIABLES
  match,      \* games: the running game; its id is a ghost
  challenge,  \* challenges: the pending or accepted challenge; its number is a ghost
  ongoing,    \* the chat is in ongoing
  waiting,    \* waiting[h]: what handler h waits to be sent
  about,      \* about[h]: the challenge it has read
  board,      \* board[h]: the id of the game it has made
  heir,       \* heir[h]: who wins by the forfeit it handles
  sessions, accepts, sendFails,
  payments,   \* payments[i]: ghost, how often game i was paid for
  tangled,    \* ghost: a handler went on after the challenge it had read was gone
  mispaid     \* ghost: someone was paid who had not won

chessVars == <<match, challenge, ongoing, waiting, about, board, heir,
               sessions, accepts, sendFails, payments, tangled, mispaid>>

Challenges == [n : 1 .. MaxSessions, challenger : ChessUsers, challengee : ChessUsers]
Matches    == [id : 1 .. MaxAccepts, white : ChessUsers, black : ChessUsers]

ChessTypeOK ==
  /\ match \in Matches \cup {NoMatch} /\ challenge \in Challenges \cup {NoChallenge}
  /\ ongoing \in BOOLEAN
  /\ waiting \in [ChessHandlers -> {"nothing", "start", "forfeit"}]
  /\ about \in [ChessHandlers -> Challenges \cup {NoChallenge}]
  /\ board \in [ChessHandlers -> 0 .. MaxAccepts]
  /\ heir \in [ChessHandlers -> ChessUsers \cup {NoPlayer}]
  /\ sessions \in 0 .. MaxSessions /\ accepts \in 0 .. MaxAccepts /\ sendFails \in 0 .. MaxSendFails
  /\ payments \in [1 .. MaxAccepts -> Nat] /\ tangled \in BOOLEAN /\ mispaid \in BOOLEAN

ChessInit ==
  /\ match = NoMatch /\ challenge = NoChallenge /\ ongoing = FALSE
  /\ waiting = [h \in ChessHandlers |-> "nothing"]
  /\ about = [h \in ChessHandlers |-> NoChallenge]
  /\ board = [h \in ChessHandlers |-> 0]
  /\ heir = [h \in ChessHandlers |-> NoPlayer]
  /\ sessions = 0 /\ accepts = 0 /\ sendFails = 0
  /\ payments = [i \in 1 .. MaxAccepts |-> 0] /\ tangled = FALSE /\ mispaid = FALSE

-----------------------------------------------------------------------------
Wait(h, for, ch, id, winner) ==
  /\ waiting[h] = "nothing"
  /\ waiting' = [waiting EXCEPT ![h] = for]
  /\ about' = [about EXCEPT ![h] = ch]
  /\ board' = [board EXCEPT ![h] = id]
  /\ heir' = [heir EXCEPT ![h] = winner]

GoOn(h) ==
  /\ waiting' = [waiting EXCEPT ![h] = "nothing"]
  /\ about' = [about EXCEPT ![h] = NoChallenge]
  /\ board' = [board EXCEPT ![h] = 0]
  /\ heir' = [heir EXCEPT ![h] = NoPlayer]

HandlersKept == UNCHANGED <<waiting, about, board, heir>>
CountsKept   == UNCHANGED <<sessions, accepts, sendFails>>

CleanSlate == match' = NoMatch /\ challenge' = NoChallenge /\ ongoing' = FALSE

ChessChallenge(u, v) ==
  /\ u # v /\ ~ongoing /\ challenge = NoChallenge
  /\ sessions < MaxSessions /\ sessions' = sessions + 1
  /\ challenge' = [n |-> sessions', challenger |-> u, challengee |-> v]
  /\ UNCHANGED <<match, ongoing, accepts, sendFails, payments, tangled, mispaid>> /\ HandlersKept

(* "accept" makes a game, and announces it before it is set down. *)
Accept(h, u) ==
  /\ challenge.challengee = u
  /\ accepts < MaxAccepts /\ accepts' = accepts + 1
  /\ ongoing' = TRUE
  /\ Wait(h, "start", challenge, accepts', NoPlayer)
  /\ UNCHANGED <<match, challenge, sessions, sendFails, payments, tangled, mispaid>>

StartMatch(h) ==
  /\ waiting[h] = "start"
  /\ match' = [id |-> board[h], white |-> about[h].challenger, black |-> about[h].challengee]
  /\ tangled' = (tangled \/ challenge # about[h])
  /\ GoOn(h)
  /\ UNCHANGED <<challenge, ongoing, payments, mispaid>> /\ CountsKept

(* Mutant: the chat stays in ongoing, as it once did. *)
Reject_StaysOngoing(u) ==
  /\ u \in {challenge.challenger, challenge.challengee}
  /\ match' = NoMatch /\ challenge' = NoChallenge
  /\ UNCHANGED <<ongoing, payments, tangled, mispaid>> /\ HandlersKept /\ CountsKept

(* "Wipe everything for a clean slate." *)
Reject(u) ==
  /\ u \in {challenge.challenger, challenge.challengee}
  /\ CleanSlate
  /\ UNCHANGED <<payments, tangled, mispaid>> /\ HandlersKept /\ CountsKept

(* Mutant: the game is not taken off the table. *)
End_KeepsMatch(winner, won) ==
  IF match = NoMatch \/ challenge = NoChallenge
  THEN UNCHANGED <<match, challenge, ongoing, payments, mispaid>>
  ELSE /\ challenge' = NoChallenge /\ ongoing' = FALSE
       /\ payments' = IF winner = NoPlayer THEN payments ELSE [payments EXCEPT ![match.id] = @ + 1]
       /\ UNCHANGED <<match, mispaid>>

(* end: there is nothing to end without a game and a challenge.  Everything
   is cleared before the winner is paid, and no one is in a draw.  "won" is
   who has won in truth.                                                   *)
End(winner, won) ==
  IF match = NoMatch \/ challenge = NoChallenge
  THEN UNCHANGED <<match, challenge, ongoing, payments, mispaid>>
  ELSE /\ CleanSlate
       /\ IF winner = NoPlayer
          THEN UNCHANGED <<payments, mispaid>>
          ELSE /\ payments' = [payments EXCEPT ![match.id] = @ + 1]
               /\ mispaid' = (mispaid \/ winner # won \/ winner \notin {match.white, match.black})

(* A move that wins: the winner's color is looked up in the challenge. *)
Checkmate(u) ==
  /\ u \in {match.white, match.black}
  /\ End(IF u = match.white THEN challenge.challenger ELSE challenge.challengee, u)
  /\ UNCHANGED tangled /\ HandlersKept /\ CountsKept

Stalemate ==
  /\ match # NoMatch
  /\ End(NoPlayer, NoPlayer)
  /\ UNCHANGED tangled /\ HandlersKept /\ CountsKept

Other(u) == IF u = challenge.challenger THEN challenge.challengee ELSE challenge.challenger

Forfeit(h, u) ==
  /\ u \in {challenge.challenger, challenge.challengee}
  /\ Wait(h, "forfeit", challenge, 0, Other(u))
  /\ UNCHANGED <<match, challenge, ongoing, payments, tangled, mispaid>> /\ CountsKept

(* The forfeit is known, and ends whatever game there is by now.  Only an
   address that ends in ".net" is taken for a winner.                      *)
Forfeited(h) ==
  /\ waiting[h] = "forfeit"
  /\ End(IF heir[h] \in Phones THEN heir[h] ELSE NoPlayer, heir[h])
  /\ tangled' = (tangled \/ challenge # about[h])
  /\ GoOn(h)
  /\ CountsKept

(* The answer cannot be sent: the handler ends there. *)
AnswerFails(h) ==
  /\ waiting[h] # "nothing" /\ sendFails < MaxSendFails
  /\ sendFails' = sendFails + 1
  /\ GoOn(h)
  /\ UNCHANGED <<match, challenge, ongoing, sessions, accepts, payments, tangled, mispaid>>

ChessNext ==
  \/ \E u \in ChessUsers :
       \/ \E v \in ChessUsers : ChessChallenge(u, v)
       \/ Reject(u) \/ Checkmate(u)
       \/ \E h \in ChessHandlers : Accept(h, u) \/ Forfeit(h, u)
  \/ \E h \in ChessHandlers : StartMatch(h) \/ Forfeited(h) \/ AnswerFails(h)
  \/ Stalemate

ChessSpec == ChessInit /\ [][ChessNext]_chessVars

-----------------------------------------------------------------------------
(***************************************************************************)
(* Properties                                                              *)
(***************************************************************************)

(* "Reject after accept used to leave games/ongoing set, which permanently
   blocked future !chess challenge in this chat": whatever order the commands
   come in and whichever answers fail, a chat that takes no challenge has one
   that can still be rejected.                                             *)
NeverBlocked == ongoing => challenge # NoChallenge

(* A game pays once, though both players give up or the board is won while a
   forfeit is on its way; and it pays the winner, unless a handler went on
   after the challenge it had read was gone.                               *)
PaidOnceToTheWinner ==
  /\ \A i \in 1 .. MaxAccepts : payments[i] <= 1
  /\ tangled \/ ~mispaid
=============================================================================

------------------------------- MODULE Parlour ------------------------------
(***************************************************************************)
(* The hangman and guessnumber commands: in each chat one word and one     *)
(* number to guess, kept in memory, by anyone.  A handler changes its game *)
(* before its first await, so each command is one step.  A word is the set *)
(* of its letters; guesses that are not a letter or not in the range are   *)
(* answered and change nothing.  Hints and their wording are left out.     *)
(***************************************************************************)
EXTENDS Integers, FiniteSets

CONSTANTS
  Letters,
  Words,        \* the words, as sets of letters
  Lives,        \* wrong letters that lose: 6
  Ranges,       \* the highest numbers: 20, 50, 100, 200, or as asked from 10 to 1000
  MaxAttempts   \* bound: guesses of one number

ASSUME ParlourAssumption ==
  /\ \A w \in Words : w # {} /\ w \subseteq Letters
  /\ Lives \in Nat \ {0} /\ Ranges \subseteq Nat \ {0} /\ MaxAttempts \in Nat

VARIABLES
  hangman,   \* the word, the letters guessed, the wrong ones counted
  guess      \* the number, its range, the attempts counted

parlourVars == <<hangman, guess>>

NoHangman == [word |-> {}, guessed |-> {}, wrong |-> 0, over |-> TRUE]
NoGuess   == [target |-> 0, max |-> 0, attempts |-> 0, over |-> TRUE]

ParlourTypeOK ==
  /\ hangman \in [word : Words \cup {{}}, guessed : SUBSET Letters, wrong : 0 .. Lives, over : BOOLEAN]
  /\ guess.max \in Ranges \cup {0} /\ guess.target \in 0 .. guess.max
  /\ guess.attempts \in 0 .. MaxAttempts /\ guess.over \in BOOLEAN

ParlourInit == hangman = NoHangman /\ guess = NoGuess

-----------------------------------------------------------------------------
(* "new" at any time, anything at all when no game is on, and "ff" then too:
   "ff" in a game tells the word and leaves the game as it is.             *)
NewHangman ==
  /\ \E w \in Words : hangman' = [word |-> w, guessed |-> {}, wrong |-> 0, over |-> FALSE]
  /\ UNCHANGED guess

GuessLetter(l) ==
  /\ ~hangman.over /\ l \notin hangman.guessed
  /\ LET guessed == hangman.guessed \cup {l}
         wrong   == hangman.wrong + (IF l \in hangman.word THEN 0 ELSE 1)
     IN  hangman' = [hangman EXCEPT !.guessed = guessed, !.wrong = wrong,
                       !.over = hangman.word \subseteq guessed \/ wrong >= Lives]
  /\ UNCHANGED guess

(* "new" at any time, and anything but a forfeit of a running game when none
   is on: a number then chooses the range.                                 *)
NewGuess ==
  /\ \E max \in Ranges : \E t \in 1 .. max :
       guess' = [target |-> t, max |-> max, attempts |-> 0, over |-> FALSE]
  /\ UNCHANGED hangman

ForfeitGuess ==
  /\ ~guess.over
  /\ guess' = [guess EXCEPT !.over = TRUE]
  /\ UNCHANGED hangman

GuessNumber(n) ==
  /\ ~guess.over /\ n \in 1 .. guess.max /\ guess.attempts < MaxAttempts
  /\ guess' = [guess EXCEPT !.attempts = @ + 1, !.over = n = guess.target]
  /\ UNCHANGED hangman

ParlourNext ==
  \/ NewHangman \/ NewGuess \/ ForfeitGuess
  \/ \E l \in Letters : GuessLetter(l)
  \/ \E n \in 1 .. guess.max : GuessNumber(n)

ParlourSpec == ParlourInit /\ [][ParlourNext]_parlourVars

-----------------------------------------------------------------------------
(* The lives that are counted are the letters that were wrong, so a game is
   lost by six different letters and is over exactly when it is lost or the
   word is known.                                                          *)
LivesAreLetters ==
  hangman # NoHangman =>
    /\ hangman.wrong = Cardinality(hangman.guessed \ hangman.word)
    /\ hangman.over <=> hangman.wrong >= Lives \/ hangman.word \subseteq hangman.guessed
=============================================================================

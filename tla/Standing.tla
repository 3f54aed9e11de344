------------------------------- MODULE Standing -----------------------------
(***************************************************************************)
(* What an account has beside its coins: streaks, the rare meter, the row  *)
(* of failures with the last result, and the statistics.  /beg and /work   *)
(* run runTimedReward, /fish, /mine and /hunt run performGather.  Many     *)
(* other commands (daily, crime, farm, invest, collect, rob, heist, duel,  *)
(* pay, the games of chance, buy, use) count themselves in the statistics  *)
(* with incrementStats and a save; the rest only reads the account, which  *)
(* may store a decayed meter.                                              *)
(* A save writes the fields to which it assigned a new value; the streak   *)
(* is updated after it, by itself.  One account; its coins are in Economy. *)
(*                                                                         *)
(* The stamps are not null: the gate never lets a null stamp pass.  Time   *)
(* is in ticks; job, faction, tool and buffs only move the chances.        *)
(***************************************************************************)
EXTENDS Integers, Sequences

CONSTANTS
  CooldownOf,        \* CooldownOf[d]: the cooldown of a domain
  StreakTimeout,     \* 5 min
  DayTicks,          \* 24 h
  Full, Gains, Decay,  \* the meter: 100, 3 to 7 for a win, 10 a day
  StandingHandlers,
  Asked,             \* bound: what the n-th command may be: a domain, "count" or "read"
  MaxTime, MaxStandingFaults   \* bounds

Timed   == {"beg", "work"}
Gather  == {"fish", "mine", "hunt"}
Domains == Timed \cup Gather

ASSUME StandingAssumption ==
  /\ CooldownOf \in [Domains -> Nat \ {0}] /\ {StreakTimeout, DayTicks} \subseteq Nat \ {0}
  /\ Full \in Nat /\ Gains \subseteq Nat /\ Decay \in Nat
  /\ Asked \in Seq(SUBSET (Domains \cup {"count", "read"})) /\ {MaxTime, MaxStandingFaults} \subseteq Nat

VARIABLES
  stamps,    \* stamps[d]: when the domain ran last
  card,      \* the fields that save() writes
  streak,    \* the streak: how many, of which domain, since when
  playing,   \* playing[h]: where a handler is, with the card it loaded
  moment, runs, standingFaults,
  row,       \* ghost: wins in a row, in the order they were noted
  earned,    \* ghost: what the wins since the last rare one put into the meter
  completed, \* ghost: runs, of any command that counts, whose save was made
  overwrote,     \* ghost: a save met another card than it had loaded
  blended    \* ghost: so did the last save of a run

standingVars == <<stamps, card, streak, playing, moment, runs, standingFaults, row, earned, completed,
                  overwrote, blended>>

NoStreak == [count |-> 0, domain |-> "none", at |-> 0]
NewCard  == [meter |-> 0, meterAt |-> 0, fails |-> 0, last |-> "none", stats |-> 0]
Absent0  == [at |-> "free", domain |-> "none", loaded |-> NewCard, won |-> FALSE]

StandingTypeOK ==
  /\ stamps \in [Domains -> Int] /\ card.meter \in 0 .. Full /\ card.meterAt \in 0 .. moment
  /\ card.last \in {"none", "win", "fail"} /\ streak.domain \in Domains \cup {"none"}
  /\ \A h \in StandingHandlers : playing[h].at \in {"free", "run", "noting", "first", "reading", "decayed", "decaying", "counting"}
  /\ moment \in 0 .. MaxTime /\ runs \in 0 .. Len(Asked)

StandingInit ==
  /\ stamps = [d \in Domains |-> -CooldownOf[d]] /\ card = NewCard /\ streak = NoStreak
  /\ playing = [h \in StandingHandlers |-> Absent0]
  /\ moment = 0 /\ runs = 0 /\ standingFaults = 0
  /\ row = NoStreak /\ earned = 0 /\ completed = 0 /\ overwrote = FALSE /\ blended = FALSE

-----------------------------------------------------------------------------
(* The commands.                                                           *)

Smaller(m, n) == IF m <= n THEN m ELSE n
Larger(m, n)  == IF m >= n THEN m ELSE n

Ghosts == <<row, earned, completed, overwrote, blended>>
Goes(h, to) == playing' = [playing EXCEPT ![h].at = to]

\* The gate: of two that ask at once the second finds the stamp of the first.
BeginRun(h, d) ==
  /\ playing[h].at = "free" /\ runs < Len(Asked) /\ runs' = runs + 1 /\ d \in Asked[runs']
  /\ IF stamps[d] <= moment - CooldownOf[d]
     THEN /\ stamps' = [stamps EXCEPT ![d] = moment]
          /\ playing' = [playing EXCEPT ![h] = [at |-> "run", domain |-> d, loaded |-> card, won |-> FALSE]]
     ELSE stamps' = stamps /\ Goes(h, "reading")
  /\ UNCHANGED <<card, streak, moment, standingFaults, Ghosts>>

Begs(h)   == BeginRun(h, "beg")
Works(h)  == BeginRun(h, "work")
Fishes(h) == BeginRun(h, "fish")
Mines(h)  == BeginRun(h, "mine")
Hunts(h)  == BeginRun(h, "hunt")

\* applyRareMeterDecay: for whole days since the meter was last touched.
DecayedMeter(c) == Larger(0, c.meter - Decay * ((moment - c.meterAt) \div DayTicks))

\* incrementStats: all the statistics are one string.
Tallied(c) == [c EXCEPT !.stats = @ + 1]

Failed(d, c) ==
  LET f == [Tallied(c) EXCEPT !.fails = Smaller(@ + 1, 10), !.last = "fail"]
  IN  IF d \in Timed THEN [f EXCEPT !.meter = DecayedMeter(c), !.meterAt = moment] ELSE f

Won(c, meter) == [Tallied(c) EXCEPT !.meter = meter, !.meterAt = moment, !.fails = 0, !.last = "win"]

\* rollRareEvent: a rare win of coins empties the meter; another rare one is as a win.
RareWon(c) == Won(c, 0)
FilledBy(c, g) == Smaller(DecayedMeter(c) + g, Full)

\* save(): what was assigned and differs from what was loaded.
Saved(loaded, c) == [f \in DOMAIN c |-> IF c[f] # loaded[f] THEN c[f] ELSE card[f]]

Ends(h, c, won) ==
  /\ playing[h].at = "run"
  /\ card' = Saved(playing[h].loaded, c)
  /\ playing' = [playing EXCEPT ![h].at = "noting", ![h].won = won]
  /\ completed' = completed + 1
  /\ blended' = (card # playing[h].loaded) /\ overwrote' = (overwrote \/ blended')
  /\ UNCHANGED <<stamps, streak, moment, runs, standingFaults, row>>

RunEnds(h) ==
  LET c == playing[h].loaded IN
  \/ Ends(h, Failed(playing[h].domain, c), FALSE) /\ UNCHANGED earned
  \/ Ends(h, RareWon(c), TRUE) /\ earned' = 0
  \/ \E g \in Gains : Ends(h, Won(c, FilledBy(c, g)), TRUE) /\ earned' = Smaller(earned + g, Full)

-----------------------------------------------------------------------------
(* updateStreak                                                            *)

NoteUnchanged ==
  UNCHANGED <<stamps, card, moment, runs, standingFaults, earned, completed, overwrote, blended>>

\* Mutant: a streak goes on in any domain.
Continues_AnyDomain(d) == streak.domain # "none" /\ streak.at > moment - StreakTimeout
Continues(d) == streak.domain = d /\ streak.at > moment - StreakTimeout

RowOf(d) == [count |-> IF row.domain = d THEN row.count + 1 ELSE 1, domain |-> d, at |-> 0]

NoteWin(h) ==
  LET d == playing[h].domain IN
  /\ playing[h].at = "noting" /\ playing[h].won
  /\ IF Continues(d)
     THEN /\ streak' = [streak EXCEPT !.count = @ + 1, !.at = moment] /\ row' = RowOf(d)
          /\ playing' = [playing EXCEPT ![h] = Absent0]
     ELSE Goes(h, "first") /\ UNCHANGED <<streak, row>>
  /\ NoteUnchanged

\* The second operation, after a first one that found no streak to go on with.
NoteFirst(h) ==
  LET d == playing[h].domain IN
  /\ playing[h].at = "first"
  /\ streak' = [count |-> 1, domain |-> d, at |-> moment] /\ row' = RowOf(d)
  /\ playing' = [playing EXCEPT ![h] = Absent0] /\ NoteUnchanged

NoteFailure(h) ==
  /\ playing[h].at = "noting" /\ ~playing[h].won
  /\ streak' = NoStreak /\ row' = NoStreak
  /\ playing' = [playing EXCEPT ![h] = Absent0] /\ NoteUnchanged

-----------------------------------------------------------------------------
(* getAccount                                                              *)

\* By a command that only reads, or one that was refused.
GetAccount(h) ==
  /\ \/ playing[h].at = "reading" /\ UNCHANGED runs
     \/ playing[h].at = "free" /\ runs < Len(Asked) /\ runs' = runs + 1 /\ "read" \in Asked[runs']
  /\ playing' = IF DecayedMeter(card) # card.meter
                THEN [playing EXCEPT ![h].at = "decayed", ![h].loaded = card]
                ELSE [playing EXCEPT ![h] = Absent0]
  /\ UNCHANGED <<stamps, card, streak, moment, standingFaults, Ghosts>>

\* By one that will count itself; a cooldown's gate brings the document as it is.
LoadToCount(h) ==
  /\ playing[h].at = "free" /\ runs < Len(Asked) /\ runs' = runs + 1 /\ "count" \in Asked[runs']
  /\ \E to \in {"counting"} \cup (IF DecayedMeter(card) # card.meter THEN {"decaying"} ELSE {}) :
       playing' = [playing EXCEPT ![h].at = to, ![h].loaded = card]
  /\ UNCHANGED <<stamps, card, streak, moment, standingFaults, Ghosts>>

SaveDecayed(h) ==
  LET c   == playing[h].loaded
      now == [c EXCEPT !.meter = DecayedMeter(c), !.meterAt = moment]
  IN  /\ card' = Saved(c, now)
      /\ overwrote' = (overwrote \/ card # c)
      /\ \/ playing[h].at = "decayed" /\ playing' = [playing EXCEPT ![h] = Absent0]
         \/ playing[h].at = "decaying"
            /\ playing' = [playing EXCEPT ![h].at = "counting", ![h].loaded = now]
      /\ UNCHANGED <<stamps, streak, moment, runs, standingFaults, row, earned, completed, blended>>

\* Its save, of the statistics as it loaded them and one more.
SaveCounted(h) ==
  LET c == playing[h].loaded IN
  /\ playing[h].at = "counting"
  /\ card' = Saved(c, Tallied(c)) /\ completed' = completed + 1
  /\ overwrote' = (overwrote \/ card # c)
  /\ playing' = [playing EXCEPT ![h] = Absent0]
  /\ UNCHANGED <<stamps, streak, moment, runs, standingFaults, row, earned, blended>>

-----------------------------------------------------------------------------
\* An operation fails, or the process dies before it: the rest of the command is not run.
StandingFails(h) ==
  /\ playing[h].at # "free" /\ standingFaults < MaxStandingFaults /\ standingFaults' = standingFaults + 1
  /\ playing' = [playing EXCEPT ![h] = Absent0]
  /\ UNCHANGED <<stamps, card, streak, moment, runs, Ghosts>>

StandingTick ==
  /\ moment < MaxTime /\ moment' = moment + 1
  /\ UNCHANGED <<stamps, card, streak, playing, runs, standingFaults, Ghosts>>

StandingNext ==
  \/ \E h \in StandingHandlers :
       \/ Begs(h) \/ Works(h) \/ Fishes(h) \/ Mines(h) \/ Hunts(h)
       \/ RunEnds(h) \/ NoteWin(h) \/ NoteFirst(h) \/ NoteFailure(h)
       \/ GetAccount(h) \/ LoadToCount(h) \/ SaveDecayed(h) \/ SaveCounted(h) \/ StandingFails(h)
  \/ StandingTick

StandingSpec == StandingInit /\ [][StandingNext]_standingVars

-----------------------------------------------------------------------------
(* Properties.                                                             *)

(* A streak was won: it counts wins of one domain, with no failure and no
   other domain among what was noted meanwhile, also while several commands
   are between the two operations of updateStreak.                         *)
StreakEarned ==
  streak.count > 0 => streak.domain = row.domain /\ streak.count <= row.count

(* The rare meter has what the wins since the last rare one brought, and has
   lost no more than its decay for each day, however often it was read and
   stored; unless a save met a card other than the one it loaded.          *)
MeterEarned ==
  ~overwrote => card.meter <= earned /\ card.meter >= earned - Decay * (moment \div DayTicks)

(* After a run that no other save overtook, failures are counted if and only
   if the last result was one.                                             *)
ResultsAgree == ~blended => (card.fails > 0 <=> card.last = "fail")

(* The statistics count every run that was saved, unless a save met a card
   other than the one it loaded.                                           *)
StatsComplete == ~overwrote => card.stats = completed

(* What an account has beside its coins is what its runs brought it.       *)
StandingHolds == StreakEarned /\ MeterEarned /\ ResultsAgree /\ StatsComplete
=============================================================================

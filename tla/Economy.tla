------------------------------ MODULE Economy -------------------------------
(***************************************************************************)
(* EconomyService: the commands that move coins, run by handlers that      *)
(* interleave at every await.                                              *)
(*                                                                         *)
(* Each message is handled by its own asynchronous handler and nothing     *)
(* serialises two handlers of one account.  A command loads the account    *)
(* documents it needs (getAccount), some pass an atomic cooldown gate      *)
(* (findOneAndUpdate on a time stamp), then it decides in memory, and then *)
(* it saves each document it changed.  Mongoose's save() writes only the   *)
(* fields that were assigned a new value, and checks no version, so a save *)
(* computed from a stale document silently undoes what was written since.  *)
(*                                                                         *)
(* The ghost variables at the end keep the ledger a reader of the bot's    *)
(* replies would keep.                                                     *)
(***************************************************************************)
EXTENDS Money

CONSTANTS
  Users,         \* the account holders
  Handlers,      \* message handlers that may be in flight together
  Commands,      \* the commands of this instance
  Coins,         \* the random rewards, steals and penalties that are drawn
  Typed,         \* the amounts users type
  Cooldown,      \* cooldown of each gated command, in ticks
  MinBet, MaxBet,\* betting limits of the games and of a duel
  SlotPays,      \* what a slot spin may pay per coin bet
  MinTarget,     \* least wallet (rob) or bank (heist) worth stealing from
  MinInvest,     \* least investment
  Price,         \* price of the shop item
  GrowTime,      \* ticks until a crop or an investment is due
  DayLength,     \* ticks in a calendar day
  MaxTime,       \* bound: the clock stops here
  MaxCommands,   \* bound: commands started in one behaviour
  MaxCrashes,    \* bound: crashes of the process
  SeededStamps   \* whether old accounts carry cooldown stamps already

Games         == {"coinflip", "dice", "blackjack", "roulette"}
TimedRewards  == {"beg", "work", "fish", "mine", "hunt"}
SoloGated     == TimedRewards \cup {"collect", "crime"}
TwoPartyGated == {"rob", "heist", "duel"}
Gated         == SoloGated \cup TwoPartyGated
TwoParty      == TwoPartyGated \cup {"pay"}
Ungated       == Games \cup {"deposit", "withdraw", "daily", "slot", "buy",
                             "farm", "invest", "pay"}
AllCommands   == Gated \cup Ungated

ASSUME EconomyAssumption ==
  /\ Commands \subseteq AllCommands
  /\ Coins \subseteq Money /\ Typed \subseteq Amounts /\ SlotPays \subseteq Nat
  /\ Cooldown \in [Gated -> Nat \ {0}]
  /\ MinBet \in Nat \ {0} /\ MaxBet \in Nat
  /\ MinTarget \in Nat /\ MinInvest \in Nat /\ Price \in Nat \ {0}
  /\ GrowTime \in Nat /\ DayLength \in Nat \ {0}
  /\ MaxTime \in Nat /\ MaxCommands \in Nat /\ MaxCrashes \in Nat
  /\ SeededStamps \in BOOLEAN

Never == -1               \* a null time stamp

(* A pending action of activeBuffsJson: due at a time, worth some coins. *)
Promises  == [due : Int, pay : Nat]
NoPromise == [due |-> Never, pay |-> 0]
PendingKeys == {"farm-crop", "investment"}

Docs == [wallet : Money, bank : Money, daily : Int,
         pending : [PendingKeys -> Promises]]

NewDoc == [wallet |-> 0, bank |-> 0, daily |-> Never,
           pending |-> [k \in PendingKeys |-> NoPromise]]

Idle == [op |-> "none"]

Tasks == [op : AllCommands, from : Users, to : Users, typed : Typed, net : Int]

Wealth(doc)  == doc.wallet + doc.bank
Owed(doc)    == doc.pending["farm-crop"].pay + doc.pending["investment"].pay
Day(t)       == t \div DayLength
Lesser(a, b) == IF a <= b THEN a ELSE b

VARIABLES
  account,   \* account[u]: the stored document
  stamp,     \* stamp[u][c]: the stored last<c>At, set only by the gate
  now,       \* the clock
  started,   \* commands started so far (bounds the behaviour)
  crashes,   \* crashes so far (bounds the behaviour)
  stage,     \* stage[h]: "idle", "load", "gate", "decide" or "save"
  task,      \* task[h]: the command the handler runs
  want,      \* want[h]: accounts still to load, or still to save
  read,      \* read[h][u]: the document as it was loaded
  edit,      \* edit[h][u]: the in-memory document about to be saved
  at,        \* at[h]: when the handler passed the gate
  refused,   \* refused[u][c]: the account was refused by the gate of c
  told,      \* told[h][u]: ghost, the change of wealth the reply reports
  cut,       \* cut[h]: ghost, the accounts whose edit was clamped or capped
  book,      \* book[u]: ghost, wealth according to the replies
  raced,     \* raced[u]: ghost, a save overwrote a field changed since it was read
  short,     \* short[u]: ghost, a clamped or capped edit was saved
  promised,  \* promised[u]: ghost, coins ever promised by farm and invest
  paid,      \* paid[u]: ghost, coins ever paid out by collect
  claims     \* claims[u][d]: ghost, claims of day d that were saved and answered as granted

db      == <<account, stamp>>
local   == <<stage, task, want, read, edit, at>>
gossip  == <<told, cut>>
ledger  == <<book, raced, short, promised, paid, claims>>
bounds  == <<now, started, crashes>>
vars    == <<db, local, gossip, ledger, bounds, refused>>

Days == 0 .. Day(MaxTime)

TypeOK ==
  /\ account \in [Users -> Docs]
  /\ stamp \in [Users -> [Gated -> Int]]
  /\ now \in 0 .. MaxTime /\ started \in Nat /\ crashes \in Nat
  /\ stage \in [Handlers -> {"idle", "load", "gate", "decide", "save"}]
  /\ task \in [Handlers -> Tasks \cup {Idle}]
  /\ \A h \in Handlers : stage[h] # "idle" => task[h] \in Tasks
  /\ want \in [Handlers -> SUBSET Users]
  /\ read \in [Handlers -> [Users -> Docs]]
  /\ edit \in [Handlers -> [Users -> Docs]]
  /\ at \in [Handlers -> Int]
  /\ refused \in [Users -> [Gated -> BOOLEAN]]
  /\ told \in [Handlers -> [Users -> Int]]
  /\ cut \in [Handlers -> SUBSET Users]
  /\ book \in [Users -> Int]
  /\ raced \in [Users -> BOOLEAN] /\ short \in [Users -> BOOLEAN]
  /\ promised \in [Users -> Int] /\ paid \in [Users -> Int]
  /\ claims \in [Users -> [Days -> Nat]]

NoDocs    == [u \in Users |-> NewDoc]
NoChange  == [u \in Users |-> 0]

Init ==
  /\ account \in [Users -> {[NewDoc EXCEPT !.wallet = w] : w \in Coins}]
  /\ stamp = [u \in Users |-> [c \in Gated |-> IF SeededStamps THEN 0 ELSE Never]]
  /\ now = 0 /\ started = 0 /\ crashes = 0
  /\ stage = [h \in Handlers |-> "idle"]
  /\ task = [h \in Handlers |-> Idle]
  /\ want = [h \in Handlers |-> {}]
  /\ read = [h \in Handlers |-> NoDocs]
  /\ edit = [h \in Handlers |-> NoDocs]
  /\ at = [h \in Handlers |-> Never]
  /\ refused = [u \in Users |-> [c \in Gated |-> FALSE]]
  /\ told = [h \in Handlers |-> NoChange]
  /\ cut = [h \in Handlers |-> {}]
  /\ book = [u \in Users |-> Wealth(account[u])]
  /\ raced = [u \in Users |-> FALSE] /\ short = [u \in Users |-> FALSE]
  /\ promised = NoChange /\ paid = NoChange
  /\ claims = [u \in Users |-> [d \in Days |-> 0]]

-----------------------------------------------------------------------------
(* The handler is over: its documents are garbage. *)
Finish(h) ==
  /\ stage' = [stage EXCEPT ![h] = "idle"]
  /\ task'  = [task EXCEPT ![h] = Idle]
  /\ want'  = [want EXCEPT ![h] = {}]
  /\ read'  = [read EXCEPT ![h] = NoDocs]
  /\ edit'  = [edit EXCEPT ![h] = NoDocs]
  /\ at'    = [at EXCEPT ![h] = Never]
  /\ told'  = [told EXCEPT ![h] = NoChange]
  /\ cut'   = [cut EXCEPT ![h] = {}]

(* The commands whose message carries an amount. *)
WithAmount == Games \cup {"deposit", "withdraw", "pay", "slot", "buy", "invest", "duel"}

(* What a command file checks before it calls the service.  /deposit and
   /withdraw read the balance and refuse an amount of zero; /slot reads the
   balance and checks the bet against it.                                  *)
DepositAsked(u, typed)  == ParseAmountInput(typed, account[u].wallet) > 0
WithdrawAsked(u, typed) == ParseAmountInput(typed, account[u].bank) > 0
SpinAsked(u, typed) ==
  LET bet == ParseAmountInput(typed, account[u].wallet) IN bet > 0 /\ bet <= account[u].wallet

Precheck(op, u, typed) ==
  CASE op = "deposit"  -> DepositAsked(u, typed)
    [] op = "withdraw" -> WithdrawAsked(u, typed)
    [] op = "slot"     -> SpinAsked(u, typed)
    [] OTHER           -> op \in WithAmount \/ typed = CHOOSE t \in Typed : TRUE

(* What the spin drawn by /slot adds to the wallet. *)
SpinNets(op, u, typed) ==
  LET bet == ParseAmountInput(typed, account[u].wallet)
  IN  IF op = "slot" THEN {f * bet - bet : f \in SlotPays} ELSE {0}

(* A message arrives.  A two-party command on oneself is refused; a command
   that takes a gate first does so without loading anything.               *)
Start(h, op, u, v, typed) ==
  /\ stage[h] = "idle" /\ started < MaxCommands
  /\ op \in TwoParty <=> u # v
  /\ Precheck(op, u, typed)
  /\ started' = started + 1
  /\ stage' = [stage EXCEPT ![h] = IF op \in SoloGated THEN "gate" ELSE "load"]
  /\ \E net \in SpinNets(op, u, typed) :
       task' = [task EXCEPT ![h] = [op |-> op, from |-> u, to |-> v,
                                    typed |-> typed, net |-> net]]
  /\ want' = [want EXCEPT ![h] = IF op \in SoloGated THEN {} ELSE {u, v}]
  /\ UNCHANGED <<db, read, edit, at, gossip, ledger, now, crashes, refused>>

(* getAccount: the two loads of a two-party command run in parallel. *)
Load(h, u) ==
  /\ stage[h] = "load" /\ u \in want[h]
  /\ read' = [read EXCEPT ![h][u] = account[u]]
  /\ want' = [want EXCEPT ![h] = @ \ {u}]
  /\ stage' = [stage EXCEPT ![h] =
                 IF want[h] # {u} THEN "load"
                 ELSE IF task[h].op \in Gated THEN "gate" ELSE "decide"]
  /\ UNCHANGED <<db, task, edit, at, gossip, ledger, bounds, refused>>

(* findOneAndUpdate({stamp: {$lte: now - cooldown}}, {$set: {stamp: now}}):
   one atomic step.  A null stamp never compares below a date.             *)
GateOpen(u, c) == stamp[u][c] # Never /\ stamp[u][c] <= now - Cooldown[c]

(* Mutant: the stamp is checked but not set by the same step. *)
PassGate_NoStamp(h) ==
  LET u == task[h].from
  IN  /\ stage[h] = "gate" /\ GateOpen(u, task[h].op)
      /\ at' = [at EXCEPT ![h] = now]
      /\ read' = [read EXCEPT ![h][u] = account[u]]
      /\ stage' = [stage EXCEPT ![h] = "decide"]
      /\ UNCHANGED <<db, task, want, edit, gossip, ledger, bounds, refused>>

PassGate(h) ==
  LET u == task[h].from
      c == task[h].op
  IN  /\ stage[h] = "gate" /\ GateOpen(u, c)
      /\ stamp' = [stamp EXCEPT ![u][c] = now]
      /\ at' = [at EXCEPT ![h] = now]
      /\ read' = [read EXCEPT ![h][u] = account[u]]
      /\ stage' = [stage EXCEPT ![h] = "decide"]
      /\ UNCHANGED <<account, task, want, edit, gossip, ledger, bounds, refused>>

RefusedAtGate(h) ==
  LET u == task[h].from
      c == task[h].op
  IN  /\ stage[h] = "gate" /\ ~GateOpen(u, c)
      /\ refused' = [refused EXCEPT ![u][c] = TRUE]
      /\ Finish(h)
      /\ UNCHANGED <<db, ledger, bounds>>

-----------------------------------------------------------------------------
(* Decisions: no await, computed from the loaded documents alone. *)

Deciding(h, op) == stage[h] = "decide" /\ task[h].op = op
Mine(h)   == read[h][task[h].from]
Theirs(h) == read[h][task[h].to]

(* doc with its two balances changed. *)
Moved(doc, coins, banked) ==
  [wallet |-> doc.wallet + coins, bank |-> doc.bank + banked,
   daily |-> doc.daily, pending |-> doc.pending]

Clamped(doc) ==
  [wallet |-> ClampMoney(doc.wallet), bank |-> ClampMoney(doc.bank),
   daily |-> doc.daily, pending |-> doc.pending]

InRange(doc) == doc.wallet \in Money /\ doc.bank \in Money

(* Issue the saves of the documents in new; say is what the reply reports,
   capped the accounts charged less than it reports.                       *)
Commit(h, new, say, capped) ==
  /\ edit' = [edit EXCEPT ![h] =
                [u \in Users |-> IF u \in DOMAIN new THEN Clamped(new[u]) ELSE @[u]]]
  /\ told' = [told EXCEPT ![h] =
                [u \in Users |-> IF u \in DOMAIN say THEN say[u] ELSE 0]]
  /\ cut'  = [cut EXCEPT ![h] = capped \cup {u \in DOMAIN new : ~InRange(new[u])}]
  /\ want' = [want EXCEPT ![h] = DOMAIN new]
  /\ stage' = [stage EXCEPT ![h] = "save"]
  /\ UNCHANGED <<db, task, read, at, ledger, bounds, refused>>

CommitMine(h, doc, say, capped) ==
  LET u == task[h].from
  IN  Commit(h, [x \in {u} |-> doc], [x \in {u} |-> say],
             IF capped THEN {u} ELSE {})

CommitBoth(h, mine, theirs, sayMine, sayTheirs, capped) ==
  LET both == {task[h].from, task[h].to}
      me   == task[h].from
  IN  Commit(h, [x \in both |-> IF x = me THEN mine ELSE theirs],
                [x \in both |-> IF x = me THEN sayMine ELSE sayTheirs],
             IF capped THEN {me} ELSE {})

(* The command ends without saving: a thrown check or an early return. *)
GiveUp(h) ==
  /\ Finish(h)
  /\ UNCHANGED <<db, ledger, bounds, refused>>

(* Mutant: the wallet is not debited. *)
Deposit_NoDebit(h) ==
  LET amount == ParseAmountInput(task[h].typed, Mine(h).wallet)
  IN  /\ Deciding(h, "deposit")
      /\ CommitMine(h, Moved(Mine(h), 0, amount), 0, FALSE)

Deposit(h) ==
  LET amount == ParseAmountInput(task[h].typed, Mine(h).wallet)
  IN  /\ Deciding(h, "deposit")
      /\ CommitMine(h, Moved(Mine(h), -amount, amount), 0, FALSE)

Withdraw(h) ==
  LET amount == ParseAmountInput(task[h].typed, Mine(h).bank)
  IN  /\ Deciding(h, "withdraw")
      /\ CommitMine(h, Moved(Mine(h), amount, -amount), 0, FALSE)

Pay(h) ==
  LET amount == ParseAmountInput(task[h].typed, Mine(h).wallet)
  IN  /\ Deciding(h, "pay")
      /\ CommitBoth(h, Moved(Mine(h), -amount, 0), Moved(Theirs(h), amount, 0),
                    -amount, amount, FALSE)

(* Both the stored claim and the current time are reduced to a calendar day. *)
ClaimDailyCash(h) ==
  /\ Deciding(h, "daily")
  /\ IF Mine(h).daily # Never /\ Day(Mine(h).daily) = Day(now)
     THEN GiveUp(h)
     ELSE \E reward \in Coins :
            CommitMine(h, [Moved(Mine(h), reward, 0) EXCEPT !.daily = now],
                       reward, FALSE)

(* Math.round(bet * 1.5) rounds halves up. *)
GamePayouts(op, bet) ==
  CASE op = "coinflip"  -> {bet, -bet}
    [] op = "dice"      -> {bet, 0, -bet}
    [] op = "blackjack" -> {(3 * bet + 1) \div 2, 0, -bet}
    [] op = "roulette"  -> {2 * bet, 8 * bet, 10 * bet, -bet}

PlayGame(h) ==
  LET bet == ParseAmountInput(task[h].typed, Mine(h).wallet)
  IN  /\ stage[h] = "decide" /\ task[h].op \in Games
      /\ IF BetAccepted(task[h].typed, MinBet, MaxBet, Mine(h).wallet)
         THEN \E delta \in GamePayouts(task[h].op, bet) :
                CommitMine(h, Moved(Mine(h), delta, 0), delta, FALSE)
         ELSE GiveUp(h)

(* addWallet(winnings - bet), on a document loaded after the bet was checked. *)
SettleSlot(h) ==
  /\ Deciding(h, "slot")
  /\ CommitMine(h, Moved(Mine(h), task[h].net, 0), task[h].net, FALSE)

Buy(h) ==
  LET quantity == ParseAmountInput(task[h].typed, Mine(h).wallet \div Price)
  IN  /\ Deciding(h, "buy")
      /\ CommitMine(h, Moved(Mine(h), -(Price * quantity), 0),
                    -(Price * quantity), FALSE)

(* beg, work, fish, mine, hunt: a reward, or nothing on a miss. *)
TimedReward(h) ==
  /\ stage[h] = "decide" /\ task[h].op \in TimedRewards
  /\ \E reward \in Coins \cup {0} :
       CommitMine(h, Moved(Mine(h), reward, 0), reward, FALSE)

(* makePendingAction and upsertPendingAction. *)
Planted(doc, key, coins) ==
  [doc EXCEPT !.pending = [k \in PendingKeys |->
     IF k = key THEN [due |-> now + GrowTime, pay |-> coins] ELSE @[k]]]

Farm(h) ==
  /\ Deciding(h, "farm")
  /\ IF Mine(h).pending["farm-crop"] # NoPromise
     THEN GiveUp(h)
     ELSE \E reward \in Coins :
            CommitMine(h, Planted(Mine(h), "farm-crop", reward), 0, FALSE)

(* A lost investment pays 0, another one 0.8 to 1.6 times the amount, rounded:
   the two ends of that range stand for it.                                *)
InvestPayouts(amount) ==
  {0, ClampMoney((8 * amount + 5) \div 10), ClampMoney((16 * amount + 5) \div 10)}

Invest(h) ==
  LET amount == ParseAmountInput(task[h].typed, Mine(h).wallet)
  IN  /\ Deciding(h, "invest")
      /\ IF Mine(h).pending["investment"] # NoPromise \/ amount < MinInvest
         THEN GiveUp(h)
         ELSE \E payout \in InvestPayouts(amount) :
                CommitMine(h, Planted(Moved(Mine(h), -amount, 0), "investment", payout),
                           -amount, FALSE)

(* The stamp is spent even when nothing is ready. *)
Ready(doc) == {k \in PendingKeys : doc.pending[k] # NoPromise /\ doc.pending[k].due <= now}

ReadyPay(doc) ==
  (IF "farm-crop" \in Ready(doc) THEN doc.pending["farm-crop"].pay ELSE 0)
  + (IF "investment" \in Ready(doc) THEN doc.pending["investment"].pay ELSE 0)

(* Mutant: what was paid stays pending. *)
Collect_Keep(h) ==
  LET total == ReadyPay(Mine(h))
  IN  /\ Deciding(h, "collect")
      /\ IF Ready(Mine(h)) = {}
         THEN GiveUp(h)
         ELSE CommitMine(h, Moved(Mine(h), total, 0), total, FALSE)

Collect(h) ==
  LET doc   == Mine(h)
      total == ReadyPay(doc)
  IN  /\ Deciding(h, "collect")
      /\ IF Ready(doc) = {}
         THEN GiveUp(h)
         ELSE CommitMine(h, [Moved(doc, total, 0) EXCEPT !.pending =
                               [k \in PendingKeys |->
                                 IF k \in Ready(doc) THEN NoPromise ELSE @[k]]],
                         total, FALSE)

(* The reply names the full amount, the wallet pays what it has. *)
Crime(h) ==
  /\ Deciding(h, "crime")
  /\ \E amount \in Coins :
       \/ CommitMine(h, Moved(Mine(h), amount, 0), amount, FALSE)
       \/ CommitMine(h, Moved(Mine(h), -Lesser(amount, Mine(h).wallet), 0),
                     -amount, amount > Mine(h).wallet)

(* A failed robbery charges the thief at most the wallet, and credits the
   target with the whole penalty.                                          *)
Rob(h) ==
  /\ Deciding(h, "rob")
  /\ IF Theirs(h).wallet < MinTarget
     THEN GiveUp(h)
     ELSE \E drawn \in Coins :
       \/ LET amount == Lesser(Theirs(h).wallet, drawn)
          IN  CommitBoth(h, Moved(Mine(h), amount, 0), Moved(Theirs(h), -amount, 0),
                         amount, -amount, FALSE)
       \/ CommitBoth(h, Moved(Mine(h), -Lesser(drawn, Mine(h).wallet), 0),
                        Moved(Theirs(h), drawn, 0),
                     -drawn, drawn, drawn > Mine(h).wallet)

Heist(h) ==
  /\ Deciding(h, "heist")
  /\ IF Theirs(h).bank < MinTarget
     THEN GiveUp(h)
     ELSE \E drawn \in Coins :
       \/ LET amount == Lesser(Theirs(h).bank, drawn)
          IN  CommitBoth(h, Moved(Mine(h), amount, 0), Moved(Theirs(h), 0, -amount),
                         amount, -amount, FALSE)
       \/ CommitBoth(h, Moved(Mine(h), -Lesser(drawn, Mine(h).wallet), 0),
                        Moved(Theirs(h), 0, drawn),
                     -drawn, drawn, drawn > Mine(h).wallet)

(* Mutant: the winner is paid, the loser keeps the stake. *)
Duel_LoserKeeps(h) ==
  LET available == Lesser(Mine(h).wallet, Theirs(h).wallet)
      bet       == ParseAmountInput(task[h].typed, available)
  IN  /\ Deciding(h, "duel")
      /\ IF BetAccepted(task[h].typed, MinBet, MaxBet, available)
         THEN \E delta \in {bet, 0, -bet} :
                CommitBoth(h, Moved(Mine(h), IF delta > 0 THEN delta ELSE 0, 0),
                              Moved(Theirs(h), IF delta < 0 THEN -delta ELSE 0, 0),
                           delta, -delta, FALSE)
         ELSE GiveUp(h)

Duel(h) ==
  LET available == Lesser(Mine(h).wallet, Theirs(h).wallet)
      bet       == ParseAmountInput(task[h].typed, available)
  IN  /\ Deciding(h, "duel")
      /\ IF BetAccepted(task[h].typed, MinBet, MaxBet, available)
         THEN \E delta \in {bet, 0, -bet} :
                CommitBoth(h, Moved(Mine(h), delta, 0), Moved(Theirs(h), -delta, 0),
                           delta, -delta, FALSE)
         ELSE GiveUp(h)

Decide(h) ==
  \/ Deposit(h) \/ Withdraw(h) \/ Pay(h) \/ ClaimDailyCash(h) \/ PlayGame(h)
  \/ SettleSlot(h) \/ Buy(h) \/ TimedReward(h) \/ Farm(h) \/ Invest(h)
  \/ Collect(h) \/ Crime(h) \/ Rob(h) \/ Heist(h) \/ Duel(h)

-----------------------------------------------------------------------------
(* Mongoose writes a field only when it was assigned a new value. *)
Merged(stored, before, after) == IF after # before THEN after ELSE stored

(* Mutant: the whole document is replaced. *)
SaveDoc_Whole(stored, before, after) == after

SaveDoc(stored, before, after) ==
  [wallet  |-> Merged(stored.wallet, before.wallet, after.wallet),
   bank    |-> Merged(stored.bank, before.bank, after.bank),
   daily   |-> Merged(stored.daily, before.daily, after.daily),
   pending |-> Merged(stored.pending, before.pending, after.pending)]

(* A field about to be written no longer holds what the handler read. *)
Clobbers(stored, before, after) == after # before /\ stored # before

Stale(stored, before, after) ==
  \/ Clobbers(stored.wallet, before.wallet, after.wallet)
  \/ Clobbers(stored.bank, before.bank, after.bank)
  \/ Clobbers(stored.daily, before.daily, after.daily)
  \/ Clobbers(stored.pending, before.pending, after.pending)

NextSave(h, u) ==
  IF want[h] = {u} THEN Finish(h)
  ELSE /\ want' = [want EXCEPT ![h] = @ \ {u}]
       /\ UNCHANGED <<stage, task, read, edit, at, gossip>>

Save(h, u) ==
  LET before == read[h][u]
      after  == edit[h][u]
  IN  /\ stage[h] = "save" /\ u \in want[h]
      /\ account' = [account EXCEPT ![u] = SaveDoc(@, before, after)]
      /\ book'  = [book EXCEPT ![u] = @ + told[h][u]]
      /\ raced' = [raced EXCEPT ![u] = @ \/ Stale(account[u], before, after)]
      /\ short' = [short EXCEPT ![u] = @ \/ u \in cut[h]]
      /\ promised' = [promised EXCEPT ![u] =
           IF task[h].op \in {"farm", "invest"} THEN @ + Owed(after) - Owed(before) ELSE @]
      /\ paid' = [paid EXCEPT ![u] = IF task[h].op = "collect" THEN @ + told[h][u] ELSE @]
      /\ claims' = IF task[h].op = "daily"
                   THEN [claims EXCEPT ![u][Day(after.daily)] = @ + 1] ELSE claims
      /\ NextSave(h, u)
      /\ UNCHANGED <<stamp, bounds, refused>>

(* The database refuses one save: Promise.all rejects, the other save is
   already on its way.                                                     *)
SaveFails(h, u) ==
  /\ stage[h] = "save" /\ u \in want[h]
  /\ NextSave(h, u)
  /\ UNCHANGED <<db, ledger, bounds, refused>>

(* The process dies and restarts: every handler in flight is gone. *)
Crash ==
  /\ crashes < MaxCrashes
  /\ crashes' = crashes + 1
  /\ stage' = [h \in Handlers |-> "idle"]
  /\ task'  = [h \in Handlers |-> Idle]
  /\ want'  = [h \in Handlers |-> {}]
  /\ read'  = [h \in Handlers |-> NoDocs]
  /\ edit'  = [h \in Handlers |-> NoDocs]
  /\ at'    = [h \in Handlers |-> Never]
  /\ told'  = [h \in Handlers |-> NoChange]
  /\ cut'   = [h \in Handlers |-> {}]
  /\ UNCHANGED <<db, ledger, now, started, refused>>

Tick ==
  /\ now < MaxTime
  /\ now' = now + 1
  /\ UNCHANGED <<db, local, gossip, ledger, started, crashes, refused>>

Next ==
  \/ \E h \in Handlers :
       \/ \E op \in Commands, u, v \in Users, typed \in Typed :
            Start(h, op, u, v, typed)
       \/ \E u \in Users : Load(h, u) \/ Save(h, u) \/ SaveFails(h, u)
       \/ PassGate(h) \/ RefusedAtGate(h) \/ Decide(h)
  \/ Crash
  \/ Tick

Spec == Init /\ [][Next]_vars

-----------------------------------------------------------------------------
(***************************************************************************)
(* Properties                                                              *)
(***************************************************************************)

(* What the replies say adds up: an account nobody overwrote from a stale
   document, and never charged less than the reply said, holds exactly what
   it started with plus every change it was told of, across any interleaving,
   failed save or crash (EconomyService, every command that moves coins).  *)
LedgerHolds ==
  \A u \in Users : raced[u] \/ short[u] \/ Wealth(account[u]) = book[u]

(* Coins promised by /farm and /invest are either still pending or were paid
   by /collect, once, unless a stale document was saved over the account.  *)
PromisesKept ==
  \A u \in Users : raced[u] \/ promised[u] = paid[u] + Owed(account[u])

(* Two handlers that both passed the cooldown gate of one command for one
   account passed it at least a cooldown apart, however long either takes. *)
PastGate(h) == stage[h] \in {"decide", "save"} /\ task[h].op \in Gated

GrantsSpaced ==
  \A g, h \in Handlers :
    g # h /\ PastGate(g) /\ PastGate(h)
    /\ task[g].op = task[h].op /\ task[g].from = task[h].from =>
      \/ at[g] >= at[h] + Cooldown[task[h].op]
      \/ at[h] >= at[g] + Cooldown[task[h].op]

(* schedule.ts: "ensure a user can only claim once per calendar day".  What is
   counted is the claims saved and answered as granted; the coins are those of
   the last save.                                                          *)
DailyOncePerDay == \A u \in Users, d \in Days : claims[u][d] <= 1

(* A refusal for cooldown is about a cooldown that is running: only an
   account that ran the command before is refused (the reply of /farm says
   "Come back with /collect later").                                       *)
RefusedOnlyOnCooldown ==
  \A u \in Users, c \in Gated : refused[u][c] => stamp[u][c] # Never

(* What is in the bank is out of reach of every handler that is not about
   that bank, even of one that saves a document loaded before a deposit.   *)
SavesBankOf(h, u) ==
  /\ stage[h] = "save" /\ u \in want[h]
  /\ \/ task[h].op \in {"deposit", "withdraw"} /\ task[h].from = u
     \/ task[h].op = "heist" /\ task[h].to = u

BankProtected ==
  [][\A u \in Users : account'[u].bank # account[u].bank =>
       \E h \in Handlers : SavesBankOf(h, u)]_vars
=============================================================================

--------------------------- MODULE Economy_proofs ---------------------------
(***************************************************************************)
(* For any users, handlers, prices, cooldowns and bounds: the state of     *)
(* Economy is well typed, the replies add up, what is promised is paid     *)
(* once, banks are out of reach, and the grants of one gate are a cooldown *)
(* apart.                                                                  *)
(***************************************************************************)
EXTENDS Economy, TLAPS

USE MaxSafeAssumption, EconomyAssumption

LEMMA CoinsAreNatural == Coins \subseteq Nat
  BY DEF Money

USE CoinsAreNatural

(* A document as the commands compute it, before it is clamped. *)
RawDocs == [wallet : Int, bank : Int, daily : Int,
            pending : [PendingKeys -> Promises]]

-----------------------------------------------------------------------------
(* Money arithmetic *)

LEMMA ClampInRange == \A v \in Int : ClampMoney(v) \in Money
  BY DEF ClampMoney, Money

LEMMA ClampIdentity == \A v \in Money : ClampMoney(v) = v
  BY DEF ClampMoney, Money

LEMMA ParseInRange ==
  ASSUME NEW typed \in Amounts, NEW available \in Money
  PROVE  ParseAmountInput(typed, available) \in Money
  <1>1. available \div 2 \in Int
    BY DEF Money
  <1>2. typed.kind \in {"all", "half", "coins"} /\ typed.n \in Int /\ available \in Int
    BY DEF Amounts, Money
  <1> QED BY <1>1, <1>2, ClampInRange DEF ParseAmountInput

LEMMA ClampedType == \A doc \in RawDocs : Clamped(doc) \in Docs
  BY ClampInRange DEF Clamped, RawDocs, Docs

LEMMA DocsAreRaw == Docs \subseteq RawDocs
  BY DEF Docs, RawDocs, Money

LEMMA NewDocType == NewDoc \in Docs
  BY DEF NewDoc, Docs, Money, PendingKeys, Promises, NoPromise, Never

-----------------------------------------------------------------------------
(* Every decision ends the handler or commits a set of edits, and what it
   commits is accounted for.                                               *)
CommitOK(h, new, say, capped) ==
  /\ DOMAIN new \in SUBSET Users /\ DOMAIN say = DOMAIN new
  /\ \A u \in DOMAIN new : new[u] \in RawDocs /\ say[u] \in Int
  /\ capped \in SUBSET Users
  /\ \A u \in DOMAIN new :
       u \in capped \/ new[u].wallet + new[u].bank = Wealth(read[h][u]) + say[u]

Decision(h) ==
  \/ GiveUp(h)
  \/ \E new, say, capped : Commit(h, new, say, capped) /\ CommitOK(h, new, say, capped)

LEMMA MineType ==
  ASSUME TypeOK, NEW h \in Handlers, stage[h] # "idle"
  PROVE  /\ Mine(h) \in Docs /\ Theirs(h) \in Docs
         /\ task[h].from \in Users /\ task[h].to \in Users
         /\ task[h].typed \in Amounts /\ task[h].net \in Int
  BY DEF TypeOK, Mine, Theirs, Tasks

LEMMA CommitMineDecides ==
  ASSUME TypeOK, NEW h \in Handlers, stage[h] # "idle",
         NEW doc \in RawDocs, NEW say \in Int, NEW capped \in BOOLEAN,
         capped \/ doc.wallet + doc.bank = Wealth(Mine(h)) + say,
         CommitMine(h, doc, say, capped)
  PROVE  Decision(h)
  <1> DEFINE u == task[h].from
             new == [x \in {u} |-> doc]
             told1 == [x \in {u} |-> say]
             c == IF capped THEN {u} ELSE {}
  <1>1. Commit(h, new, told1, c)
    BY DEF CommitMine
  <1>2. u \in Users
    BY MineType
  <1>3. CommitOK(h, new, told1, c)
    BY <1>2 DEF CommitOK, Mine
  <1> QED BY <1>1, <1>3 DEF Decision

LEMMA CommitBothDecides ==
  ASSUME TypeOK, NEW h \in Handlers, stage[h] # "idle",
         NEW mine \in RawDocs, NEW theirs \in RawDocs,
         NEW sm \in Int, NEW st \in Int, NEW capped \in BOOLEAN,
         capped \/ mine.wallet + mine.bank = Wealth(Mine(h)) + sm,
         theirs.wallet + theirs.bank = Wealth(Theirs(h)) + st,
         CommitBoth(h, mine, theirs, sm, st, capped)
  PROVE  Decision(h)
  <1> DEFINE me == task[h].from
             both == {task[h].from, task[h].to}
             new == [x \in both |-> IF x = me THEN mine ELSE theirs]
             say == [x \in both |-> IF x = me THEN sm ELSE st]
             c == IF capped THEN {me} ELSE {}
  <1>1. Commit(h, new, say, c)
    BY DEF CommitBoth
  <1>2. both \in SUBSET Users
    BY MineType
  <1>3. CommitOK(h, new, say, c)
    BY <1>2 DEF CommitOK, Mine, Theirs
  <1> QED BY <1>1, <1>3 DEF Decision

LEMMA BalancesAreInts ==
  ASSUME NEW doc \in Docs
  PROVE  doc.wallet \in Money /\ doc.bank \in Money /\ doc.wallet \in Int /\ doc.bank \in Int
  BY DEF Docs, Money

LEMMA MovedType ==
  ASSUME NEW doc \in Docs, NEW w \in Int, NEW b \in Int
  PROVE  /\ Moved(doc, w, b) \in RawDocs
         /\ Moved(doc, w, b).wallet + Moved(doc, w, b).bank = Wealth(doc) + w + b
  BY DEF Docs, RawDocs, Money, Moved, Wealth

LEMMA PlantedType ==
  ASSUME NEW doc \in RawDocs, now \in Int, NEW key, NEW coins \in Nat
  PROVE  /\ Planted(doc, key, coins) \in RawDocs
         /\ Planted(doc, key, coins).wallet = doc.wallet
         /\ Planted(doc, key, coins).bank = doc.bank
  BY DEF RawDocs, Promises, Planted

LEMMA MoveMineDecides ==
  ASSUME TypeOK, NEW h \in Handlers, stage[h] # "idle",
         NEW w \in Int, NEW b \in Int, NEW say \in Int, NEW capped \in BOOLEAN,
         capped \/ w + b = say,
         CommitMine(h, Moved(Mine(h), w, b), say, capped)
  PROVE  Decision(h)
  <1>1. Mine(h) \in Docs
    BY MineType
  <1>2. /\ Moved(Mine(h), w, b) \in RawDocs
        /\ Moved(Mine(h), w, b).wallet + Moved(Mine(h), w, b).bank = Wealth(Mine(h)) + w + b
    BY <1>1, MovedType
  <1>3. Wealth(Mine(h)) \in Int
    BY <1>1, BalancesAreInts DEF Wealth
  <1>4. capped \/ Wealth(Mine(h)) + w + b = Wealth(Mine(h)) + say
    BY <1>3
  <1> QED BY <1>2, <1>4, CommitMineDecides

LEMMA MoveBothDecides ==
  ASSUME TypeOK, NEW h \in Handlers, stage[h] # "idle",
         NEW w1 \in Int, NEW w2 \in Int, NEW b2 \in Int,
         NEW s1 \in Int, NEW s2 \in Int, NEW capped \in BOOLEAN,
         capped \/ w1 = s1, w2 + b2 = s2,
         CommitBoth(h, Moved(Mine(h), w1, 0), Moved(Theirs(h), w2, b2), s1, s2, capped)
  PROVE  Decision(h)
  <1>1. Mine(h) \in Docs /\ Theirs(h) \in Docs
    BY MineType
  <1>2. /\ Moved(Mine(h), w1, 0) \in RawDocs
        /\ Moved(Mine(h), w1, 0).wallet + Moved(Mine(h), w1, 0).bank = Wealth(Mine(h)) + w1 + 0
    BY <1>1, MovedType
  <1>3. /\ Moved(Theirs(h), w2, b2) \in RawDocs
        /\ Moved(Theirs(h), w2, b2).wallet + Moved(Theirs(h), w2, b2).bank
             = Wealth(Theirs(h)) + w2 + b2
    BY <1>1, MovedType
  <1>4. Wealth(Mine(h)) \in Int /\ Wealth(Theirs(h)) \in Int
    BY <1>1, BalancesAreInts DEF Wealth
  <1>5. /\ capped \/ Wealth(Mine(h)) + w1 + 0 = Wealth(Mine(h)) + s1
        /\ Wealth(Theirs(h)) + w2 + b2 = Wealth(Theirs(h)) + s2
    BY <1>4
  <1> QED BY <1>2, <1>3, <1>5, CommitBothDecides

LEMMA DepositDecides ==
  ASSUME TypeOK, NEW h \in Handlers, Deposit(h)
  PROVE  Decision(h)
  <1> DEFINE amount == ParseAmountInput(task[h].typed, Mine(h).wallet)
  <1>1. stage[h] # "idle" /\ CommitMine(h, Moved(Mine(h), -amount, amount), 0, FALSE)
    BY DEF Deposit, Deciding
  <1>2. amount \in Int
    BY <1>1, MineType, BalancesAreInts, ParseInRange DEF Money
  <1>3. /\ -amount \in Int /\ 0 \in Int /\ FALSE \in BOOLEAN
        /\ FALSE \/ -amount + amount = 0
    BY <1>2
  <1> QED BY <1>1, <1>2, <1>3, MoveMineDecides, Zenon

LEMMA WithdrawDecides ==
  ASSUME TypeOK, NEW h \in Handlers, Withdraw(h)
  PROVE  Decision(h)
  <1> DEFINE amount == ParseAmountInput(task[h].typed, Mine(h).bank)
  <1>1. stage[h] # "idle" /\ CommitMine(h, Moved(Mine(h), amount, -amount), 0, FALSE)
    BY DEF Withdraw, Deciding
  <1>2. amount \in Int
    BY <1>1, MineType, BalancesAreInts, ParseInRange DEF Money
  <1>3. /\ -amount \in Int /\ 0 \in Int /\ FALSE \in BOOLEAN
        /\ FALSE \/ amount + (-amount) = 0
    BY <1>2
  <1> QED BY <1>1, <1>2, <1>3, MoveMineDecides, Zenon

LEMMA PayDecides ==
  ASSUME TypeOK, NEW h \in Handlers, Pay(h)
  PROVE  Decision(h)
  <1> DEFINE amount == ParseAmountInput(task[h].typed, Mine(h).wallet)
  <1>1. /\ stage[h] # "idle"
        /\ CommitBoth(h, Moved(Mine(h), -amount, 0), Moved(Theirs(h), amount, 0),
                      -amount, amount, FALSE)
    BY DEF Pay, Deciding
  <1>2. amount \in Int
    BY <1>1, MineType, BalancesAreInts, ParseInRange DEF Money
  <1>3. /\ -amount \in Int /\ 0 \in Int /\ FALSE \in BOOLEAN
        /\ FALSE \/ -amount = -amount
        /\ amount + 0 = amount
    BY <1>2
  <1> QED BY <1>1, <1>2, <1>3, MoveBothDecides, Zenon

LEMMA ClaimDailyCashDecides ==
  ASSUME TypeOK, NEW h \in Handlers, ClaimDailyCash(h)
  PROVE  Decision(h)
  <1>1. stage[h] # "idle" /\ now \in Int /\ Mine(h) \in Docs
    BY MineType DEF ClaimDailyCash, Deciding, TypeOK
  <1>2. CASE GiveUp(h)
    BY <1>2 DEF Decision
  <1>3. CASE \E reward \in Coins :
               CommitMine(h, [Moved(Mine(h), reward, 0) EXCEPT !.daily = now], reward, FALSE)
    <2>1. PICK reward \in Coins :
            CommitMine(h, [Moved(Mine(h), reward, 0) EXCEPT !.daily = now], reward, FALSE)
      BY <1>3
    <2> DEFINE doc == [Moved(Mine(h), reward, 0) EXCEPT !.daily = now]
    <2>2. reward \in Int
      OBVIOUS
    <2>3. doc \in RawDocs
      BY <1>1, <2>2, MovedType DEF RawDocs
    <2>4. doc.wallet + doc.bank = Wealth(Mine(h)) + reward
      BY <1>1, <2>2, BalancesAreInts DEF Moved, Wealth
    <2> QED BY <1>1, <2>1, <2>2, <2>3, <2>4, CommitMineDecides
  <1> QED BY <1>2, <1>3 DEF ClaimDailyCash

LEMMA GamePayoutsAreInts ==
  ASSUME NEW bet \in Int, NEW op \in Games, NEW delta \in GamePayouts(op, bet)
  PROVE  delta \in Int
  BY DEF GamePayouts, Games

LEMMA PlayGameDecides ==
  ASSUME TypeOK, NEW h \in Handlers, PlayGame(h)
  PROVE  Decision(h)
  <1> DEFINE bet == ParseAmountInput(task[h].typed, Mine(h).wallet)
  <1>1. stage[h] # "idle" /\ task[h].op \in Games
    BY DEF PlayGame
  <1>2. bet \in Int
    BY <1>1, MineType, BalancesAreInts, ParseInRange DEF Money
  <1>3. CASE GiveUp(h)
    BY <1>3 DEF Decision
  <1>4. CASE \E delta \in GamePayouts(task[h].op, bet) :
               CommitMine(h, Moved(Mine(h), delta, 0), delta, FALSE)
    <2>1. PICK delta \in GamePayouts(task[h].op, bet) :
            CommitMine(h, Moved(Mine(h), delta, 0), delta, FALSE)
      BY <1>4
    <2>2. delta \in Int
      BY <1>1, <1>2, <2>1, GamePayoutsAreInts
    <2>3. 0 \in Int /\ FALSE \in BOOLEAN /\ (FALSE \/ delta + 0 = delta)
      BY <2>2
    <2> QED BY <1>1, <2>1, <2>2, <2>3, MoveMineDecides, Zenon
  <1> QED BY <1>3, <1>4 DEF PlayGame

LEMMA SettleSlotDecides ==
  ASSUME TypeOK, NEW h \in Handlers, SettleSlot(h)
  PROVE  Decision(h)
  <1>1. /\ stage[h] # "idle"
        /\ CommitMine(h, Moved(Mine(h), task[h].net, 0), task[h].net, FALSE)
    BY DEF SettleSlot, Deciding
  <1>2. task[h].net \in Int
    BY <1>1, MineType
  <1>3. 0 \in Int /\ FALSE \in BOOLEAN /\ (FALSE \/ task[h].net + 0 = task[h].net)
    BY <1>2
  <1> QED BY <1>1, <1>2, <1>3, MoveMineDecides, Zenon

LEMMA BuyDecides ==
  ASSUME TypeOK, NEW h \in Handlers, Buy(h)
  PROVE  Decision(h)
  <1> DEFINE quantity == ParseAmountInput(task[h].typed, Mine(h).wallet \div Price)
             price == -(Price * quantity)
  <1>1. stage[h] # "idle" /\ CommitMine(h, Moved(Mine(h), price, 0), price, FALSE)
    BY DEF Buy, Deciding
  <1>2. Mine(h).wallet \div Price \in Money
    BY <1>1, MineType, BalancesAreInts DEF Money
  <1>3. quantity \in Int
    BY <1>1, <1>2, MineType, ParseInRange DEF Money
  <1>4. price \in Int
    BY <1>3
  <1>5. 0 \in Int /\ FALSE \in BOOLEAN /\ (FALSE \/ price + 0 = price)
    BY <1>4
  <1> QED BY <1>1, <1>4, <1>5, MoveMineDecides, Zenon

LEMMA TimedRewardDecides ==
  ASSUME TypeOK, NEW h \in Handlers, TimedReward(h)
  PROVE  Decision(h)
  <1>1. PICK reward \in Coins \cup {0} :
          CommitMine(h, Moved(Mine(h), reward, 0), reward, FALSE)
    BY DEF TimedReward
  <1>2. stage[h] # "idle"
    BY DEF TimedReward
  <1>3. /\ reward \in Int /\ 0 \in Int /\ FALSE \in BOOLEAN
        /\ FALSE \/ reward + 0 = reward
    OBVIOUS
  <1> QED BY <1>1, <1>2, <1>3, MoveMineDecides, Zenon

LEMMA FarmDecides ==
  ASSUME TypeOK, NEW h \in Handlers, Farm(h)
  PROVE  Decision(h)
  <1>1. stage[h] # "idle" /\ now \in Int /\ Mine(h) \in Docs
    BY MineType DEF Farm, Deciding, TypeOK
  <1>2. CASE GiveUp(h)
    BY <1>2 DEF Decision
  <1>3. CASE \E reward \in Coins :
               CommitMine(h, Planted(Mine(h), "farm-crop", reward), 0, FALSE)
    <2>1. PICK reward \in Coins :
            CommitMine(h, Planted(Mine(h), "farm-crop", reward), 0, FALSE)
      BY <1>3
    <2> DEFINE doc == Planted(Mine(h), "farm-crop", reward)
    <2>2. doc \in RawDocs /\ doc.wallet = Mine(h).wallet /\ doc.bank = Mine(h).bank
      BY <1>1, DocsAreRaw, PlantedType
    <2>3. doc.wallet + doc.bank = Wealth(Mine(h)) + 0
      BY <1>1, <2>2, BalancesAreInts DEF Wealth
    <2>4. 0 \in Int /\ FALSE \in BOOLEAN
      OBVIOUS
    <2> QED BY <1>1, <2>1, <2>2, <2>3, <2>4, CommitMineDecides, Zenon
  <1> QED BY <1>2, <1>3 DEF Farm

LEMMA InvestDecides ==
  ASSUME TypeOK, NEW h \in Handlers, Invest(h)
  PROVE  Decision(h)
  <1> DEFINE amount == ParseAmountInput(task[h].typed, Mine(h).wallet)
  <1>1. stage[h] # "idle" /\ now \in Int /\ Mine(h) \in Docs
    BY MineType DEF Invest, Deciding, TypeOK
  <1>2. CASE GiveUp(h)
    BY <1>2 DEF Decision
  <1>3. CASE \E payout \in InvestPayouts(amount) :
               CommitMine(h, Planted(Moved(Mine(h), -amount, 0), "investment", payout),
                          -amount, FALSE)
    <2>1. PICK payout \in InvestPayouts(amount) :
            CommitMine(h, Planted(Moved(Mine(h), -amount, 0), "investment", payout),
                       -amount, FALSE)
      BY <1>3
    <2>2. amount \in Money /\ amount \in Int
      BY <1>1, MineType, BalancesAreInts, ParseInRange DEF Money
    <2>3. payout \in Nat
      <3>1. (8 * amount + 5) \div 10 \in Int /\ (16 * amount + 5) \div 10 \in Int
        BY <2>2
      <3> QED BY <2>1, <3>1, ClampInRange DEF InvestPayouts, Money
    <2> DEFINE moved == Moved(Mine(h), -amount, 0)
               doc == Planted(moved, "investment", payout)
    <2>4. moved \in RawDocs /\ moved.wallet + moved.bank = Wealth(Mine(h)) + (-amount) + 0
      BY <1>1, <2>2, MovedType
    <2>5. doc \in RawDocs /\ doc.wallet = moved.wallet /\ doc.bank = moved.bank
      BY <1>1, <2>3, <2>4, PlantedType
    <2>6. Wealth(Mine(h)) \in Int
      BY <1>1, BalancesAreInts DEF Wealth
    <2>7. doc.wallet + doc.bank = Wealth(Mine(h)) + (-amount)
      BY <2>2, <2>4, <2>5, <2>6
    <2>8. -amount \in Int /\ FALSE \in BOOLEAN
      BY <2>2
    <2> QED BY <1>1, <2>1, <2>5, <2>7, <2>8, CommitMineDecides, Zenon
  <1> QED BY <1>2, <1>3 DEF Invest

LEMMA CollectDecides ==
  ASSUME TypeOK, NEW h \in Handlers, Collect(h)
  PROVE  Decision(h)
  <1> DEFINE total == ReadyPay(Mine(h))
             left == [Moved(Mine(h), total, 0) EXCEPT !.pending =
                        [k \in PendingKeys |->
                           IF k \in Ready(Mine(h)) THEN NoPromise ELSE @[k]]]
  <1>1. stage[h] # "idle" /\ Mine(h) \in Docs
    BY MineType DEF Collect, Deciding
  <1>2. CASE GiveUp(h)
    BY <1>2 DEF Decision
  <1>3. CASE CommitMine(h, left, total, FALSE)
    <2>1. total \in Int
      BY <1>1 DEF ReadyPay, Docs, PendingKeys, Promises
    <2>2. Moved(Mine(h), total, 0) \in RawDocs
      BY <1>1, <2>1, MovedType
    <2>3. NoPromise \in Promises
      BY DEF NoPromise, Promises, Never
    <2>4. left \in RawDocs
      BY <2>2, <2>3 DEF RawDocs
    <2>5. left.wallet + left.bank = Wealth(Mine(h)) + total
      BY <1>1, <2>1, BalancesAreInts DEF Moved, Wealth
    <2> QED BY <1>1, <1>3, <2>1, <2>4, <2>5, CommitMineDecides
  <1> QED BY <1>2, <1>3 DEF Collect

LEMMA CrimeDecides ==
  ASSUME TypeOK, NEW h \in Handlers, Crime(h)
  PROVE  Decision(h)
  <1>1. stage[h] # "idle" /\ Mine(h).wallet \in Int
    BY MineType, BalancesAreInts DEF Crime, Deciding
  <1>2. PICK amount \in Coins :
          \/ CommitMine(h, Moved(Mine(h), amount, 0), amount, FALSE)
          \/ CommitMine(h, Moved(Mine(h), -Lesser(amount, Mine(h).wallet), 0),
                        -amount, amount > Mine(h).wallet)
    BY DEF Crime
  <1> DEFINE fine == Lesser(amount, Mine(h).wallet)
             capped == amount > Mine(h).wallet
  <1>3. /\ amount \in Int /\ -amount \in Int /\ fine \in Int /\ -fine \in Int /\ 0 \in Int
        /\ FALSE \in BOOLEAN /\ capped \in BOOLEAN
    BY <1>1 DEF Lesser
  <1>4. capped \/ -fine + 0 = -amount
    BY <1>1 DEF Lesser
  <1>5. FALSE \/ amount + 0 = amount
    BY <1>3
  <1>6. CASE CommitMine(h, Moved(Mine(h), amount, 0), amount, FALSE)
    BY <1>1, <1>3, <1>5, <1>6, MoveMineDecides, Zenon
  <1>7. CASE CommitMine(h, Moved(Mine(h), -Lesser(amount, Mine(h).wallet), 0),
                        -amount, amount > Mine(h).wallet)
    BY <1>1, <1>3, <1>4, <1>7, MoveMineDecides, Zenon
  <1> QED BY <1>2, <1>6, <1>7

LEMMA RobDecides ==
  ASSUME TypeOK, NEW h \in Handlers, Rob(h)
  PROVE  Decision(h)
  <1>1. /\ stage[h] # "idle" /\ Mine(h).wallet \in Int
        /\ Theirs(h).wallet \in Int
    BY MineType, BalancesAreInts DEF Rob, Deciding
  <1>2. CASE GiveUp(h)
    BY <1>2 DEF Decision
  <1>3. CASE ~GiveUp(h)
    <2> DEFINE taken(drawn) == Lesser(Theirs(h).wallet, drawn)
               fine(drawn) == Lesser(drawn, Mine(h).wallet)
    <2>1. PICK drawn \in Coins :
            \/ CommitBoth(h, Moved(Mine(h), taken(drawn), 0),
                             Moved(Theirs(h), -taken(drawn), 0),
                          taken(drawn), -taken(drawn), FALSE)
            \/ CommitBoth(h, Moved(Mine(h), -fine(drawn), 0),
                             Moved(Theirs(h), drawn, 0),
                          -drawn, drawn, drawn > Mine(h).wallet)
      BY <1>3 DEF Rob
    <2> DEFINE amount == taken(drawn)
               loss == fine(drawn)
               capped == drawn > Mine(h).wallet
    <2>2. /\ drawn \in Int /\ amount \in Int /\ loss \in Int /\ 0 \in Int
          /\ -drawn \in Int /\ -amount \in Int /\ -loss \in Int
          /\ FALSE \in BOOLEAN /\ capped \in BOOLEAN
      BY <1>1 DEF Lesser
    <2>3. capped \/ -loss = -drawn
      BY <1>1 DEF Lesser
    <2>4. /\ FALSE \/ amount = amount
          /\ -amount + 0 = -amount /\ 0 + (-amount) = -amount
          /\ drawn + 0 = drawn /\ 0 + drawn = drawn
      BY <2>2
    <2>5. CASE CommitBoth(h, Moved(Mine(h), taken(drawn), 0),
                             Moved(Theirs(h), -taken(drawn), 0),
                          taken(drawn), -taken(drawn), FALSE)
      BY <1>1, <2>2, <2>4, <2>5, MoveBothDecides, Zenon
    <2>6. CASE CommitBoth(h, Moved(Mine(h), -fine(drawn), 0),
                             Moved(Theirs(h), drawn, 0),
                          -drawn, drawn, drawn > Mine(h).wallet)
      <3> DEFINE w1 == -loss
                 s1 == -drawn
      <3>1. CommitBoth(h, Moved(Mine(h), w1, 0), Moved(Theirs(h), drawn, 0),
                       s1, drawn, capped)
        BY <2>6
      <3>2. w1 \in Int /\ s1 \in Int /\ (capped \/ w1 = s1)
        BY <2>2, <2>3
      <3>3. /\ drawn \in Int /\ 0 \in Int /\ capped \in BOOLEAN
            /\ drawn + 0 = drawn
        BY <2>2
      <3> HIDE DEF w1, s1, capped
      <3> QED BY <1>1, <3>1, <3>2, <3>3, MoveBothDecides
    <2> QED BY <2>1, <2>5, <2>6
  <1> QED BY <1>2, <1>3

LEMMA HeistDecides ==
  ASSUME TypeOK, NEW h \in Handlers, Heist(h)
  PROVE  Decision(h)
  <1>1. /\ stage[h] # "idle" /\ Mine(h).wallet \in Int
        /\ Theirs(h).bank \in Int
    BY MineType, BalancesAreInts DEF Heist, Deciding
  <1>2. CASE GiveUp(h)
    BY <1>2 DEF Decision
  <1>3. CASE ~GiveUp(h)
    <2> DEFINE taken(drawn) == Lesser(Theirs(h).bank, drawn)
               fine(drawn) == Lesser(drawn, Mine(h).wallet)
    <2>1. PICK drawn \in Coins :
            \/ CommitBoth(h, Moved(Mine(h), taken(drawn), 0),
                             Moved(Theirs(h), 0, -taken(drawn)),
                          taken(drawn), -taken(drawn), FALSE)
            \/ CommitBoth(h, Moved(Mine(h), -fine(drawn), 0),
                             Moved(Theirs(h), 0, drawn),
                          -drawn, drawn, drawn > Mine(h).wallet)
      BY <1>3 DEF Heist
    <2> DEFINE amount == taken(drawn)
               loss == fine(drawn)
               capped == drawn > Mine(h).wallet
    <2>2. /\ drawn \in Int /\ amount \in Int /\ loss \in Int /\ 0 \in Int
          /\ -drawn \in Int /\ -amount \in Int /\ -loss \in Int
          /\ FALSE \in BOOLEAN /\ capped \in BOOLEAN
      BY <1>1 DEF Lesser
    <2>3. capped \/ -loss = -drawn
      BY <1>1 DEF Lesser
    <2>4. /\ FALSE \/ amount = amount
          /\ -amount + 0 = -amount /\ 0 + (-amount) = -amount
          /\ drawn + 0 = drawn /\ 0 + drawn = drawn
      BY <2>2
    <2>5. CASE CommitBoth(h, Moved(Mine(h), taken(drawn), 0),
                             Moved(Theirs(h), 0, -taken(drawn)),
                          taken(drawn), -taken(drawn), FALSE)
      BY <1>1, <2>2, <2>4, <2>5, MoveBothDecides, Zenon
    <2>6. CASE CommitBoth(h, Moved(Mine(h), -fine(drawn), 0),
                             Moved(Theirs(h), 0, drawn),
                          -drawn, drawn, drawn > Mine(h).wallet)
      <3> DEFINE w1 == -loss
                 s1 == -drawn
      <3>1. CommitBoth(h, Moved(Mine(h), w1, 0), Moved(Theirs(h), 0, drawn),
                       s1, drawn, capped)
        BY <2>6
      <3>2. w1 \in Int /\ s1 \in Int /\ (capped \/ w1 = s1)
        BY <2>2, <2>3
      <3>3. /\ drawn \in Int /\ 0 \in Int /\ capped \in BOOLEAN
            /\ 0 + drawn = drawn
        BY <2>2
      <3> HIDE DEF w1, s1, capped
      <3> QED BY <1>1, <3>1, <3>2, <3>3, MoveBothDecides
    <2> QED BY <2>1, <2>5, <2>6
  <1> QED BY <1>2, <1>3

LEMMA DuelDecides ==
  ASSUME TypeOK, NEW h \in Handlers, Duel(h)
  PROVE  Decision(h)
  <1> DEFINE available == Lesser(Mine(h).wallet, Theirs(h).wallet)
             bet == ParseAmountInput(task[h].typed, available)
  <1>1. stage[h] # "idle" /\ available \in Money
    BY MineType, BalancesAreInts DEF Duel, Deciding, Lesser
  <1>2. bet \in Int
    BY <1>1, MineType, ParseInRange DEF Money
  <1>3. CASE GiveUp(h)
    BY <1>3 DEF Decision
  <1>4. CASE \E delta \in {bet, 0, -bet} :
               CommitBoth(h, Moved(Mine(h), delta, 0), Moved(Theirs(h), -delta, 0),
                          delta, -delta, FALSE)
    <2>1. PICK delta \in {bet, 0, -bet} :
               CommitBoth(h, Moved(Mine(h), delta, 0), Moved(Theirs(h), -delta, 0),
                          delta, -delta, FALSE)
      BY <1>4
    <2>2. delta \in Int
      BY <1>2, <2>1
    <2>3. /\ -delta \in Int /\ 0 \in Int /\ FALSE \in BOOLEAN
          /\ FALSE \/ delta = delta
          /\ -delta + 0 = -delta
      BY <2>2
    <2> QED BY <1>1, <2>1, <2>2, <2>3, MoveBothDecides, Zenon
  <1> QED BY <1>3, <1>4 DEF Duel

LEMMA DecideDecides ==
  ASSUME TypeOK, NEW h \in Handlers, Decide(h)
  PROVE  Decision(h)
  BY DepositDecides, WithdrawDecides, PayDecides, ClaimDailyCashDecides, PlayGameDecides,
     SettleSlotDecides, BuyDecides, TimedRewardDecides, FarmDecides, InvestDecides,
     CollectDecides, CrimeDecides, RobDecides, HeistDecides, DuelDecides
     DEF Decide

-----------------------------------------------------------------------------
(* Type correctness *)

(* The part of TypeOK that is local to the handlers. *)
LocalOK ==
  /\ stage \in [Handlers -> {"idle", "load", "gate", "decide", "save"}]
  /\ task \in [Handlers -> Tasks \cup {Idle}]
  /\ \A h \in Handlers : stage[h] # "idle" => task[h] \in Tasks
  /\ want \in [Handlers -> SUBSET Users]
  /\ read \in [Handlers -> [Users -> Docs]]
  /\ edit \in [Handlers -> [Users -> Docs]]
  /\ at \in [Handlers -> Int]
  /\ told \in [Handlers -> [Users -> Int]]
  /\ cut \in [Handlers -> SUBSET Users]

StoredOK ==
  /\ account \in [Users -> Docs]
  /\ stamp \in [Users -> [Gated -> Int]]
  /\ now \in 0 .. MaxTime /\ started \in Nat /\ crashes \in Nat
  /\ refused \in [Users -> [Gated -> BOOLEAN]]
  /\ book \in [Users -> Int]
  /\ raced \in [Users -> BOOLEAN] /\ short \in [Users -> BOOLEAN]
  /\ promised \in [Users -> Int] /\ paid \in [Users -> Int]
  /\ claims \in [Users -> [Days -> Nat]]

LEMMA TypeParts == TypeOK <=> LocalOK /\ StoredOK
  BY DEF TypeOK, LocalOK, StoredOK

LEMMA NoDocsType == NoDocs \in [Users -> Docs] /\ NoChange \in [Users -> Int]
  BY NewDocType DEF NoDocs, NoChange

LEMMA FinishType ==
  ASSUME LocalOK, NEW h \in Handlers, Finish(h)
  PROVE  LocalOK'
  BY NoDocsType DEF LocalOK, Finish, Never

LEMMA CommitType ==
  ASSUME LocalOK, NEW h \in Handlers, stage[h] # "idle", NEW new, NEW say, NEW capped,
         Commit(h, new, say, capped), CommitOK(h, new, say, capped)
  PROVE  LocalOK'
  <1>1. edit' \in [Handlers -> [Users -> Docs]]
    BY ClampedType DEF LocalOK, Commit, CommitOK
  <1>2. told' \in [Handlers -> [Users -> Int]]
    BY DEF LocalOK, Commit, CommitOK
  <1>3. cut' \in [Handlers -> SUBSET Users]
    BY DEF LocalOK, Commit, CommitOK
  <1>4. want' \in [Handlers -> SUBSET Users]
    BY DEF LocalOK, Commit, CommitOK
  <1>5. /\ stage' \in [Handlers -> {"idle", "load", "gate", "decide", "save"}]
        /\ \A g \in Handlers : stage'[g] # "idle" => task'[g] \in Tasks
    BY DEF LocalOK, Commit
  <1>6. UNCHANGED <<task, read, at>>
    BY DEF Commit
  <1> QED BY <1>1, <1>2, <1>3, <1>4, <1>5, <1>6 DEF LocalOK

LEMMA GatedFrom ==
  ASSUME TypeOK, NEW h \in Handlers, stage[h] # "idle"
  PROVE  task[h].from \in Users /\ task[h].op \in AllCommands
  BY DEF TypeOK, Tasks

LEMMA StartType ==
  ASSUME TypeOK, NEW h \in Handlers, NEW op \in Commands, NEW u \in Users, NEW v \in Users,
         NEW typed \in Typed, Start(h, op, u, v, typed)
  PROVE  TypeOK'
  <1>1. PICK net \in SpinNets(op, u, typed) :
          task' = [task EXCEPT ![h] = [op |-> op, from |-> u, to |-> v,
                                       typed |-> typed, net |-> net]]
    BY DEF Start
  <1>2. net \in Int
    <2> DEFINE bet == ParseAmountInput(typed, account[u].wallet)
    <2>1. account[u].wallet \in Money
      BY BalancesAreInts DEF TypeOK
    <2>2. bet \in Int
      BY <2>1, ParseInRange DEF Money
    <2>3. net \in (IF op = "slot" THEN {f * bet - bet : f \in SlotPays} ELSE {0})
      BY <1>1 DEF SpinNets
    <2> HIDE DEF bet
    <2>4. \A f \in SlotPays : f * bet - bet \in Int
      BY <2>2
    <2> QED BY <2>3, <2>4
  <1>3. [op |-> op, from |-> u, to |-> v, typed |-> typed, net |-> net] \in Tasks
    BY <1>2 DEF Tasks
  <1>4. LocalOK'
    BY <1>1, <1>3 DEF Start, TypeOK, LocalOK, gossip
  <1>5. StoredOK'
    BY DEF Start, TypeOK, StoredOK, db, ledger
  <1> QED BY <1>4, <1>5 DEF TypeOK, LocalOK, StoredOK

LEMMA LoadType ==
  ASSUME TypeOK, NEW h \in Handlers, NEW u \in Users, Load(h, u)
  PROVE  TypeOK'
  <1>1. read' \in [Handlers -> [Users -> Docs]]
    BY DEF Load, TypeOK
  <1>2. LocalOK'
    BY <1>1 DEF Load, TypeOK, LocalOK, gossip
  <1>3. StoredOK'
    BY DEF Load, TypeOK, StoredOK, db, ledger, bounds
  <1> QED BY <1>2, <1>3 DEF TypeOK, LocalOK, StoredOK

LEMMA PassGateType ==
  ASSUME TypeOK, NEW h \in Handlers, PassGate(h)
  PROVE  TypeOK'
  <1>1. stage[h] = "gate" /\ task[h].from \in Users
    BY GatedFrom DEF PassGate
  <1>2. read' \in [Handlers -> [Users -> Docs]]
    BY <1>1 DEF PassGate, TypeOK
  <1>3. stamp' \in [Users -> [Gated -> Int]]
    <2>1. /\ stamp' = [stamp EXCEPT ![task[h].from][task[h].op] = now]
          /\ stamp \in [Users -> [Gated -> Int]] /\ now \in Int
      BY DEF PassGate, TypeOK
    <2> QED BY <2>1, <1>1
  <1>4. LocalOK'
    BY <1>1, <1>2 DEF PassGate, TypeOK, LocalOK, gossip
  <1>5. StoredOK'
    BY <1>3 DEF PassGate, TypeOK, StoredOK, ledger, bounds
  <1> QED BY <1>4, <1>5 DEF TypeOK, LocalOK, StoredOK

LEMMA RefusedType ==
  ASSUME TypeOK, NEW h \in Handlers, RefusedAtGate(h)
  PROVE  TypeOK'
  <1>1. LocalOK'
    BY TypeParts, FinishType DEF RefusedAtGate
  <1>2. StoredOK'
    BY DEF RefusedAtGate, TypeOK, StoredOK, db, ledger, bounds
  <1> QED BY <1>1, <1>2 DEF TypeOK, LocalOK, StoredOK

LEMMA DecisionType ==
  ASSUME TypeOK, NEW h \in Handlers, stage[h] # "idle", Decision(h)
  PROVE  TypeOK'
  <1>1. CASE GiveUp(h)
    <2>1. LocalOK'
      BY <1>1, TypeParts, FinishType DEF GiveUp
    <2>2. StoredOK'
      BY <1>1 DEF GiveUp, TypeOK, StoredOK, db, ledger, bounds
    <2> QED BY <2>1, <2>2 DEF TypeOK, LocalOK, StoredOK
  <1>2. ASSUME NEW new, NEW say, NEW capped,
               Commit(h, new, say, capped), CommitOK(h, new, say, capped)
        PROVE  TypeOK'
    <2>1. LocalOK'
      BY <1>2, TypeParts, CommitType
    <2>2. StoredOK'
      BY <1>2 DEF Commit, TypeOK, StoredOK, db, ledger, bounds
    <2> QED BY <2>1, <2>2 DEF TypeOK, LocalOK, StoredOK
  <1> QED BY <1>1, <1>2 DEF Decision

LEMMA NextSaveType ==
  ASSUME LocalOK, NEW h \in Handlers, NEW u \in Users, NextSave(h, u)
  PROVE  LocalOK'
  <1>1. CASE want[h] = {u}
    BY <1>1, FinishType DEF NextSave
  <1>2. CASE want[h] # {u}
    <2>1. /\ want' = [want EXCEPT ![h] = @ \ {u}]
          /\ UNCHANGED <<stage, task, read, edit, at, told, cut>>
      BY <1>2 DEF NextSave, gossip
    <2>2. want' \in [Handlers -> SUBSET Users]
      BY <2>1 DEF LocalOK
    <2> QED BY <2>1, <2>2 DEF LocalOK
  <1> QED BY <1>1, <1>2

LEMMA SaveDocType ==
  ASSUME NEW s \in Docs, NEW b \in Docs, NEW a \in Docs
  PROVE  SaveDoc(s, b, a) \in Docs
  BY DEF SaveDoc, Merged, Docs

LEMMA SaveType ==
  ASSUME TypeOK, NEW h \in Handlers, NEW u \in Users, Save(h, u)
  PROVE  TypeOK'
  <1>1. LocalOK'
    BY TypeParts, NextSaveType DEF Save
  <1>2. read[h][u] \in Docs /\ edit[h][u] \in Docs /\ account[u] \in Docs
    BY DEF TypeOK
  <1>3. account' \in [Users -> Docs]
    BY <1>2, SaveDocType DEF Save, TypeOK
  <1>4. book' \in [Users -> Int] /\ paid' \in [Users -> Int]
    BY DEF Save, TypeOK
  <1>5. Owed(edit[h][u]) \in Int /\ Owed(read[h][u]) \in Int
    BY <1>2 DEF Owed, Docs, PendingKeys, Promises
  <1>6. promised' \in [Users -> Int]
    BY <1>5 DEF Save, TypeOK
  <1>7. raced' \in [Users -> BOOLEAN]
    BY DEF Save, TypeOK, Stale, Clobbers
  <1>8. short' \in [Users -> BOOLEAN]
    BY DEF Save, TypeOK
  <1>9. claims' \in [Users -> [Days -> Nat]]
    <2> DEFINE d == Day(edit[h][u].daily)
    <2>1. claims' = claims \/ claims' = [claims EXCEPT ![u][d] = @ + 1]
      BY DEF Save
    <2>2. claims \in [Users -> [Days -> Nat]]
      BY DEF TypeOK
    <2> HIDE DEF d
    <2> QED BY <2>1, <2>2
  <1> QED BY <1>1, <1>3, <1>4, <1>6, <1>7, <1>8, <1>9
          DEF Save, TypeOK, LocalOK, StoredOK, bounds

LEMMA SaveFailsType ==
  ASSUME TypeOK, NEW h \in Handlers, NEW u \in Users, SaveFails(h, u)
  PROVE  TypeOK'
  <1>1. LocalOK'
    BY TypeParts, NextSaveType DEF SaveFails
  <1>2. StoredOK'
    BY DEF SaveFails, TypeOK, StoredOK, db, ledger, bounds
  <1> QED BY <1>1, <1>2 DEF TypeOK, LocalOK, StoredOK

LEMMA CrashType ==
  ASSUME TypeOK, Crash
  PROVE  TypeOK'
  <1>1. LocalOK'
    BY NoDocsType DEF Crash, LocalOK, Never
  <1>2. StoredOK'
    BY DEF Crash, TypeOK, StoredOK, db, ledger
  <1> QED BY <1>1, <1>2 DEF TypeOK, LocalOK, StoredOK

LEMMA TickType ==
  ASSUME TypeOK, Tick
  PROVE  TypeOK'
  BY DEF Tick, TypeOK, db, local, gossip, ledger

LEMMA InitType == Init => TypeOK
  <1> SUFFICES ASSUME Init PROVE TypeOK
    OBVIOUS
  <1>1. account \in [Users -> Docs]
    <2>1. \A w \in Coins : w \in Money => [NewDoc EXCEPT !.wallet = w] \in Docs
      BY NewDocType DEF Docs
    <2> QED BY <2>1 DEF Init
  <1>2. \A u \in Users : Wealth(account[u]) \in Int
    BY <1>1, BalancesAreInts DEF Wealth
  <1>3. LocalOK
    BY NoDocsType DEF Init, LocalOK, Never
  <1>4. StoredOK
    BY <1>1, <1>2 DEF Init, StoredOK, Never, NoChange
  <1> QED BY <1>3, <1>4 DEF TypeOK, LocalOK, StoredOK

LEMMA DecideActive ==
  ASSUME NEW h \in Handlers, Decide(h)
  PROVE  stage[h] = "decide"
  BY DEF Decide, Deposit, Withdraw, Pay, ClaimDailyCash, PlayGame, SettleSlot, Buy,
         TimedReward, Farm, Invest, Collect, Crime, Rob, Heist, Duel, Deciding

LEMMA TypeStep == TypeOK /\ [Next]_vars => TypeOK'
  <1> SUFFICES ASSUME TypeOK, [Next]_vars
               PROVE  TypeOK'
    OBVIOUS
  <1>1. ASSUME NEW h \in Handlers, NEW op \in Commands, NEW u \in Users, NEW v \in Users,
               NEW typed \in Typed, Start(h, op, u, v, typed)
        PROVE  TypeOK'
    BY <1>1, StartType
  <1>2. ASSUME NEW h \in Handlers, NEW u \in Users, Load(h, u)
        PROVE  TypeOK'
    BY <1>2, LoadType
  <1>3. ASSUME NEW h \in Handlers, NEW u \in Users, Save(h, u)
        PROVE  TypeOK'
    BY <1>3, SaveType
  <1>4. ASSUME NEW h \in Handlers, NEW u \in Users, SaveFails(h, u)
        PROVE  TypeOK'
    BY <1>4, SaveFailsType
  <1>5. ASSUME NEW h \in Handlers, PassGate(h)
        PROVE  TypeOK'
    BY <1>5, PassGateType
  <1>6. ASSUME NEW h \in Handlers, RefusedAtGate(h)
        PROVE  TypeOK'
    BY <1>6, RefusedType
  <1>7. ASSUME NEW h \in Handlers, Decide(h)
        PROVE  TypeOK'
    BY <1>7, DecideActive, DecideDecides, DecisionType
  <1>8. CASE Crash
    BY <1>8, CrashType
  <1>9. CASE Tick
    BY <1>9, TickType
  <1>10. CASE UNCHANGED vars
    BY <1>10 DEF TypeOK, vars, db, local, gossip, ledger, bounds
  <1> QED BY <1>1, <1>2, <1>3, <1>4, <1>5, <1>6, <1>7, <1>8, <1>9, <1>10 DEF Next

(* Every variable keeps its type: above all, no sequence of commands, stale
   saves, failed saves and crashes stores a balance that is negative or above
   Number.MAX_SAFE_INTEGER (EconomyService.ts, clampMoney).                *)
THEOREM TypeCorrect == Spec => []TypeOK
  <1>1. Init => TypeOK
    BY InitType
  <1>2. TypeOK /\ [Next]_vars => TypeOK'
    BY TypeStep
  <1> QED BY <1>1, <1>2, PTL DEF Spec

-----------------------------------------------------------------------------
(* The ledger *)

(* What handler h is about to save for u changes u's wealth by what the reply
   says, unless it was clamped or capped.                                  *)
Accounted(h, u) ==
  u \in cut[h] \/ Wealth(edit[h][u]) = Wealth(read[h][u]) + told[h][u]

EditsAccounted ==
  \A h \in Handlers : stage[h] = "save" => \A u \in want[h] : Accounted(h, u)

(* Handler h has nothing to save after the step, or what it had before. *)
SavesNothingNew(h) ==
  \/ stage'[h] # "save"
  \/ /\ stage[h] = "save" /\ want'[h] \subseteq want[h]
     /\ edit'[h] = edit[h] /\ read'[h] = read[h]
     /\ told'[h] = told[h] /\ cut'[h] = cut[h] /\ task'[h] = task[h]

LEMMA NothingNewAccounted ==
  ASSUME EditsAccounted, \A h \in Handlers : SavesNothingNew(h)
  PROVE  EditsAccounted'
  BY DEF EditsAccounted, Accounted, SavesNothingNew, Wealth

LEMMA FinishNothingNew ==
  ASSUME TypeOK, NEW h \in Handlers, Finish(h)
  PROVE  \A g \in Handlers : SavesNothingNew(g)
  <1>1. stage'[h] # "save"
    BY DEF TypeOK, Finish
  <1>2. ASSUME NEW g \in Handlers, g # h
        PROVE  /\ stage'[g] = stage[g] /\ want'[g] = want[g] /\ edit'[g] = edit[g]
               /\ read'[g] = read[g] /\ told'[g] = told[g] /\ cut'[g] = cut[g]
               /\ task'[g] = task[g]
    BY <1>2 DEF TypeOK, Finish
  <1> QED BY <1>1, <1>2 DEF SavesNothingNew

LEMMA NextSaveNothingNew ==
  ASSUME TypeOK, NEW h \in Handlers, NEW u \in Users, NextSave(h, u)
  PROVE  \A g \in Handlers : SavesNothingNew(g)
  <1>1. CASE want[h] = {u}
    BY <1>1, FinishNothingNew DEF NextSave
  <1>2. CASE want[h] # {u}
    <2>1. /\ want' = [want EXCEPT ![h] = @ \ {u}]
          /\ UNCHANGED <<stage, task, read, edit, told, cut>>
      BY <1>2 DEF NextSave, gossip
    <2>2. \A g \in Handlers : want'[g] \subseteq want[g]
      BY <2>1 DEF TypeOK
    <2>3. \A g \in Handlers : stage[g] = "save" \/ stage'[g] # "save"
      BY <2>1
    <2> QED BY <2>1, <2>2, <2>3 DEF SavesNothingNew
  <1> QED BY <1>1, <1>2

LEMMA CommitAccounted ==
  ASSUME TypeOK, EditsAccounted, NEW h \in Handlers, NEW new, NEW say, NEW capped,
         Commit(h, new, say, capped), CommitOK(h, new, say, capped)
  PROVE  EditsAccounted'
  <1>1. ASSUME NEW g \in Handlers, g # h
        PROVE  SavesNothingNew(g)
    BY <1>1 DEF TypeOK, Commit, SavesNothingNew
  <1>2. ASSUME NEW u \in want'[h]
        PROVE  Accounted(h, u)'
    <2>1. u \in DOMAIN new /\ u \in Users
      BY <1>2 DEF Commit, CommitOK, TypeOK
    <2>2. /\ edit'[h][u] = Clamped(new[u])
          /\ told'[h][u] = say[u]
          /\ cut'[h] = capped \cup {v \in DOMAIN new : ~InRange(new[v])}
          /\ read' = read
      BY <2>1 DEF Commit, CommitOK, TypeOK
    <2>3. CASE u \in capped \/ ~InRange(new[u])
      BY <2>1, <2>2, <2>3 DEF Accounted
    <2>4. CASE u \notin capped /\ InRange(new[u])
      <3>1. edit'[h][u].wallet = new[u].wallet /\ edit'[h][u].bank = new[u].bank
        <4>1. /\ ClampMoney(new[u].wallet) = new[u].wallet
              /\ ClampMoney(new[u].bank) = new[u].bank
          BY <2>4, ClampIdentity DEF InRange
        <4> QED BY <2>2, <4>1 DEF Clamped
      <3>2. new[u].wallet + new[u].bank = Wealth(read[h][u]) + say[u]
        BY <2>1, <2>4 DEF CommitOK
      <3> QED BY <3>1, <3>2, <2>2 DEF Accounted, Wealth
    <2> QED BY <2>3, <2>4
  <1>3. ASSUME NEW g \in Handlers, g # h, stage'[g] = "save", NEW u \in want'[g]
        PROVE  Accounted(g, u)'
    BY <1>1, <1>3 DEF SavesNothingNew, EditsAccounted, Accounted, Wealth
  <1> QED BY <1>2, <1>3 DEF EditsAccounted

(* Saving a document that is not stale changes the stored wealth by as much
   as the handler changed the document it read.                            *)
LEMMA FreshSaveMovesWealth ==
  ASSUME NEW s \in Docs, NEW b \in Docs, NEW a \in Docs, ~Stale(s, b, a)
  PROVE  Wealth(SaveDoc(s, b, a)) = Wealth(s) + Wealth(a) - Wealth(b)
  <1>1. /\ s.wallet \in Int /\ s.bank \in Int /\ b.wallet \in Int /\ b.bank \in Int
        /\ a.wallet \in Int /\ a.bank \in Int
    BY BalancesAreInts
  <1>2. /\ a.wallet = b.wallet \/ s.wallet = b.wallet
        /\ a.bank = b.bank \/ s.bank = b.bank
    BY DEF Stale, Clobbers
  <1>3. Merged(s.wallet, b.wallet, a.wallet) = s.wallet + a.wallet - b.wallet
    BY <1>1, <1>2 DEF Merged
  <1>4. Merged(s.bank, b.bank, a.bank) = s.bank + a.bank - b.bank
    BY <1>1, <1>2 DEF Merged
  <1> QED BY <1>1, <1>3, <1>4 DEF SaveDoc, Wealth

LedgerInv == TypeOK /\ EditsAccounted /\ LedgerHolds

LEMMA LedgerUntouched ==
  ASSUME LedgerHolds, UNCHANGED <<account, ledger>>
  PROVE  LedgerHolds'
  BY DEF LedgerHolds, ledger, Wealth

LEMMA LedgerSave ==
  ASSUME LedgerInv, NEW h \in Handlers, NEW u \in Users, Save(h, u)
  PROVE  EditsAccounted' /\ LedgerHolds'
  <1> DEFINE before == read[h][u]
             after == edit[h][u]
  <1>1. EditsAccounted'
    BY NextSaveNothingNew, NothingNewAccounted DEF Save, LedgerInv
  <1>2. /\ before \in Docs /\ after \in Docs /\ account[u] \in Docs
        /\ told[h][u] \in Int /\ book[u] \in Int
    BY DEF LedgerInv, TypeOK
  <1>3. /\ account'[u] = SaveDoc(account[u], before, after)
        /\ book'[u] = book[u] + told[h][u]
        /\ raced'[u] = (raced[u] \/ Stale(account[u], before, after))
        /\ short'[u] = (short[u] \/ u \in cut[h])
    BY DEF Save, LedgerInv, TypeOK
  <1>4. ASSUME NEW v \in Users, v # u
        PROVE  /\ account'[v] = account[v] /\ book'[v] = book[v]
               /\ raced'[v] = raced[v] /\ short'[v] = short[v]
    BY <1>4 DEF Save, LedgerInv, TypeOK
  <1>5. Accounted(h, u)
    BY DEF Save, LedgerInv, EditsAccounted
  <1>6. ASSUME ~raced'[u], ~short'[u]
        PROVE  Wealth(account'[u]) = book'[u]
    <2>1. ~raced[u] /\ ~Stale(account[u], before, after) /\ ~short[u] /\ u \notin cut[h]
      BY <1>3, <1>6
    <2>2. Wealth(after) = Wealth(before) + told[h][u]
      BY <1>5, <2>1 DEF Accounted
    <2>3. Wealth(account[u]) = book[u]
      BY <2>1 DEF LedgerInv, LedgerHolds
    <2>4. Wealth(before) \in Int
      BY <1>2, BalancesAreInts DEF Wealth
    <2>5. Wealth(account'[u]) = Wealth(account[u]) + Wealth(after) - Wealth(before)
      BY <1>2, <1>3, <2>1, FreshSaveMovesWealth
    <2> HIDE DEF before, after
    <2> QED BY <1>2, <1>3, <2>2, <2>3, <2>4, <2>5
  <1>7. ASSUME NEW v \in Users
        PROVE  raced'[v] \/ short'[v] \/ Wealth(account'[v]) = book'[v]
    BY <1>4, <1>6 DEF LedgerInv, LedgerHolds
  <1>8. LedgerHolds'
    BY <1>7 DEF LedgerHolds, Wealth
  <1> QED BY <1>1, <1>8

LEMMA LedgerStep == LedgerInv /\ [Next]_vars => LedgerInv'
  <1> SUFFICES ASSUME LedgerInv, [Next]_vars
               PROVE  LedgerInv'
    OBVIOUS
  <1> USE DEF LedgerInv
  <1>0. TypeOK'
    BY TypeStep
  <1>1. ASSUME NEW h \in Handlers, NEW op \in Commands, NEW u \in Users, NEW v \in Users,
               NEW typed \in Typed, Start(h, op, u, v, typed)
        PROVE  EditsAccounted' /\ LedgerHolds'
    <2>1. \A g \in Handlers : stage'[g] = "save" =>
            stage[g] = "save" /\ want'[g] = want[g] /\ task'[g] = task[g]
      BY <1>1 DEF Start, TypeOK
    <2>2. \A g \in Handlers : SavesNothingNew(g)
      BY <1>1, <2>1 DEF Start, gossip, SavesNothingNew
    <2> QED BY <1>1, <2>2, NothingNewAccounted, LedgerUntouched DEF Start, db
  <1>2. ASSUME NEW h \in Handlers, NEW u \in Users, Load(h, u)
        PROVE  EditsAccounted' /\ LedgerHolds'
    <2>1. \A g \in Handlers : stage'[g] = "save" =>
            /\ stage[g] = "save" /\ want'[g] = want[g] /\ read'[g] = read[g]
      BY <1>2 DEF Load, TypeOK
    <2>2. \A g \in Handlers : SavesNothingNew(g)
      BY <1>2, <2>1 DEF Load, gossip, SavesNothingNew
    <2> QED BY <1>2, <2>2, NothingNewAccounted, LedgerUntouched DEF Load, db
  <1>3. ASSUME NEW h \in Handlers, NEW u \in Users, Save(h, u)
        PROVE  EditsAccounted' /\ LedgerHolds'
    BY <1>3, LedgerSave
  <1>4. ASSUME NEW h \in Handlers, NEW u \in Users, SaveFails(h, u)
        PROVE  EditsAccounted' /\ LedgerHolds'
    BY <1>4, NextSaveNothingNew, NothingNewAccounted, LedgerUntouched DEF SaveFails, db
  <1>5. ASSUME NEW h \in Handlers, PassGate(h)
        PROVE  EditsAccounted' /\ LedgerHolds'
    <2>1. \A g \in Handlers : stage'[g] = "save" => stage[g] = "save" /\ read'[g] = read[g]
      BY <1>5 DEF PassGate, TypeOK
    <2>2. \A g \in Handlers : SavesNothingNew(g)
      BY <1>5, <2>1 DEF PassGate, gossip, SavesNothingNew
    <2> QED BY <1>5, <2>2, NothingNewAccounted, LedgerUntouched DEF PassGate
  <1>6. ASSUME NEW h \in Handlers, RefusedAtGate(h)
        PROVE  EditsAccounted' /\ LedgerHolds'
    BY <1>6, FinishNothingNew, NothingNewAccounted, LedgerUntouched DEF RefusedAtGate, db
  <1>7. ASSUME NEW h \in Handlers, Decide(h)
        PROVE  EditsAccounted' /\ LedgerHolds'
    <2>1. CASE GiveUp(h)
      BY <2>1, FinishNothingNew, NothingNewAccounted, LedgerUntouched DEF GiveUp, db
    <2>2. ASSUME NEW new, NEW say, NEW capped,
                 Commit(h, new, say, capped), CommitOK(h, new, say, capped)
          PROVE  EditsAccounted' /\ LedgerHolds'
      BY <2>2, CommitAccounted, LedgerUntouched DEF Commit, db
    <2> QED BY <1>7, <2>1, <2>2, DecideDecides DEF Decision
  <1>8. CASE Crash
    <2>1. \A g \in Handlers : SavesNothingNew(g)
      BY <1>8 DEF Crash, SavesNothingNew
    <2>2. UNCHANGED <<account, ledger>>
      BY <1>8 DEF Crash, db
    <2> QED BY <1>0, <2>1, <2>2, NothingNewAccounted, LedgerUntouched
  <1>9. CASE Tick \/ UNCHANGED vars
    <2>1. UNCHANGED <<db, local, gossip, ledger>>
      BY <1>9 DEF Tick, vars
    <2>2. \A g \in Handlers : SavesNothingNew(g)
      BY <2>1 DEF local, gossip, SavesNothingNew
    <2>3. UNCHANGED <<account, ledger>>
      BY <2>1 DEF db
    <2> QED BY <1>0, <2>2, <2>3, NothingNewAccounted, LedgerUntouched
  <1>10. EditsAccounted' /\ LedgerHolds'
    BY <1>1, <1>2, <1>3, <1>4, <1>5, <1>6, <1>7, <1>8, <1>9 DEF Next
  <1> QED BY <1>0, <1>10

(* An account nobody overwrote from a stale document, and never charged less
   than the reply said, holds what the replies add up to.                  *)
THEOREM LedgerCorrect == Spec => []LedgerHolds
  <1>1. Init => LedgerInv
    <2> SUFFICES ASSUME Init PROVE LedgerInv
      OBVIOUS
    <2>1. EditsAccounted
      BY DEF Init, EditsAccounted
    <2>2. LedgerHolds
      BY DEF Init, LedgerHolds
    <2> QED BY <2>1, <2>2, InitType DEF LedgerInv
  <1>2. LedgerInv /\ [Next]_vars => LedgerInv'
    BY LedgerStep
  <1>3. LedgerInv => LedgerHolds
    BY DEF LedgerInv
  <1> QED BY <1>1, <1>2, <1>3, PTL DEF Spec

-----------------------------------------------------------------------------
(* Promises and banks: what a handler is about to save differs from what it
   read by what its command is for.                                        *)

(* /collect pays what it takes off, /farm and /invest alone promise. *)
KeepsPromises(op, before, after, say) ==
  /\ op = "collect" => say = Owed(before) - Owed(after)
  /\ op \notin {"collect", "farm", "invest"} => after.pending = before.pending

AboutBankOf(t, u) ==
  \/ t.op \in {"deposit", "withdraw"} /\ t.from = u
  \/ t.op = "heist" /\ t.to = u

EditsFaithful ==
  \A h \in Handlers : stage[h] = "save" => \A u \in want[h] :
    /\ KeepsPromises(task[h].op, read[h][u], edit[h][u], told[h][u])
    /\ edit[h][u].bank # read[h][u].bank => AboutBankOf(task[h], u)

Faithful(h, u, doc, say) ==
  /\ KeepsPromises(task[h].op, read[h][u], doc, say)
  /\ ClampMoney(doc.bank) # read[h][u].bank => AboutBankOf(task[h], u)

FaithfulDecision(h) ==
  \/ GiveUp(h)
  \/ \E new, say, capped :
       /\ Commit(h, new, say, capped)
       /\ DOMAIN new \in SUBSET Users /\ DOMAIN say = DOMAIN new
       /\ \A u \in DOMAIN new : Faithful(h, u, new[u], say[u])

LEMMA CommitMineFaithful ==
  ASSUME TypeOK, NEW h \in Handlers, stage[h] # "idle", NEW doc, NEW say, NEW capped,
         Faithful(h, task[h].from, doc, say), CommitMine(h, doc, say, capped)
  PROVE  FaithfulDecision(h)
  <1> DEFINE u == task[h].from
             new == [x \in {u} |-> doc]
             told1 == [x \in {u} |-> say]
             c == IF capped THEN {u} ELSE {}
  <1>1. Commit(h, new, told1, c)
    BY DEF CommitMine
  <1>2. u \in Users
    BY MineType
  <1> QED BY <1>1, <1>2 DEF FaithfulDecision

LEMMA MovedKeeps ==
  ASSUME NEW doc \in Docs, NEW w, NEW b
  PROVE  /\ Moved(doc, w, b).pending = doc.pending
         /\ b = 0 => ClampMoney(Moved(doc, w, b).bank) = doc.bank
  <1>1. doc.bank \in Money /\ doc.bank \in Int
    BY BalancesAreInts
  <1>2. ClampMoney(doc.bank + 0) = doc.bank
    BY <1>1, ClampIdentity
  <1> QED BY <1>2 DEF Moved

LEMMA MoveMineFaithful ==
  ASSUME TypeOK, NEW h \in Handlers, stage[h] # "idle", NEW w, NEW b, NEW say, NEW capped,
         task[h].op # "collect", b = 0 \/ task[h].op \in {"deposit", "withdraw"},
         CommitMine(h, Moved(Mine(h), w, b), say, capped)
  PROVE  FaithfulDecision(h)
  <1>1. Mine(h) \in Docs
    BY MineType
  <1>2. Faithful(h, task[h].from, Moved(Mine(h), w, b), say)
    BY <1>1, MovedKeeps DEF Faithful, KeepsPromises, AboutBankOf, Mine
  <1> QED BY <1>2, CommitMineFaithful

LEMMA MoveBothFaithful ==
  ASSUME TypeOK, NEW h \in Handlers, stage[h] # "idle",
         NEW w1, NEW w2, NEW b2, NEW s1, NEW s2, NEW capped,
         task[h].op # "collect", b2 = 0 \/ task[h].op = "heist",
         CommitBoth(h, Moved(Mine(h), w1, 0), Moved(Theirs(h), w2, b2), s1, s2, capped)
  PROVE  FaithfulDecision(h)
  <1> DEFINE me == task[h].from
             both == {task[h].from, task[h].to}
             mine == Moved(Mine(h), w1, 0)
             theirs == Moved(Theirs(h), w2, b2)
             new == [x \in both |-> IF x = me THEN mine ELSE theirs]
             say == [x \in both |-> IF x = me THEN s1 ELSE s2]
             c == IF capped THEN {me} ELSE {}
  <1>1. Commit(h, new, say, c)
    BY DEF CommitBoth
  <1>2. both \in SUBSET Users /\ Mine(h) \in Docs /\ Theirs(h) \in Docs
    BY MineType
  <1>3. Faithful(h, me, mine, s1)
    BY <1>2, MovedKeeps DEF Faithful, KeepsPromises, Mine
  <1>4. Faithful(h, task[h].to, theirs, s2)
    BY <1>2, MovedKeeps DEF Faithful, KeepsPromises, AboutBankOf, Theirs
  <1> HIDE DEF mine, theirs
  <1>5. \A u \in DOMAIN new : Faithful(h, u, new[u], say[u])
    BY <1>3, <1>4
  <1> QED BY <1>1, <1>2, <1>5 DEF FaithfulDecision

LEMMA PlainFaithful ==
  ASSUME TypeOK, NEW h \in Handlers,
         Deposit(h) \/ Withdraw(h) \/ PlayGame(h) \/ SettleSlot(h) \/ Buy(h)
           \/ TimedReward(h) \/ Crime(h)
  PROVE  FaithfulDecision(h)
  <1>1. CASE Deposit(h)
    BY <1>1, MoveMineFaithful DEF Deposit, Deciding
  <1>2. CASE Withdraw(h)
    BY <1>2, MoveMineFaithful DEF Withdraw, Deciding
  <1>3. CASE PlayGame(h)
    BY <1>3, MoveMineFaithful DEF PlayGame, Games, FaithfulDecision
  <1>4. CASE SettleSlot(h)
    BY <1>4, MoveMineFaithful DEF SettleSlot, Deciding
  <1>5. CASE Buy(h)
    BY <1>5, MoveMineFaithful DEF Buy, Deciding
  <1>6. CASE TimedReward(h)
    BY <1>6, MoveMineFaithful DEF TimedReward, TimedRewards
  <1>7. CASE Crime(h)
    BY <1>7, MoveMineFaithful DEF Crime, Deciding
  <1> QED BY <1>1, <1>2, <1>3, <1>4, <1>5, <1>6, <1>7

LEMMA BothFaithful ==
  ASSUME TypeOK, NEW h \in Handlers, Pay(h) \/ Rob(h) \/ Heist(h) \/ Duel(h)
  PROVE  FaithfulDecision(h)
  <1>1. CASE Pay(h)
    BY <1>1, MoveBothFaithful DEF Pay, Deciding
  <1>2. CASE Rob(h)
    BY <1>2, MoveBothFaithful DEF Rob, Deciding, FaithfulDecision
  <1>3. CASE Heist(h)
    BY <1>3, MoveBothFaithful DEF Heist, Deciding, FaithfulDecision
  <1>4. CASE Duel(h)
    BY <1>4, MoveBothFaithful DEF Duel, Deciding, FaithfulDecision
  <1> QED BY <1>1, <1>2, <1>3, <1>4

LEMMA DailyFaithful ==
  ASSUME TypeOK, NEW h \in Handlers, ClaimDailyCash(h)
  PROVE  FaithfulDecision(h)
  <1>1. stage[h] # "idle" /\ task[h].op = "daily" /\ Mine(h) \in Docs
    BY MineType DEF ClaimDailyCash, Deciding
  <1>2. CASE GiveUp(h)
    BY <1>2 DEF FaithfulDecision
  <1>3. ASSUME NEW reward \in Coins,
               CommitMine(h, [Moved(Mine(h), reward, 0) EXCEPT !.daily = now], reward, FALSE)
        PROVE  FaithfulDecision(h)
    <2> DEFINE doc == [Moved(Mine(h), reward, 0) EXCEPT !.daily = now]
    <2>1. doc.pending = Mine(h).pending /\ doc.bank = Moved(Mine(h), reward, 0).bank
      BY DEF Moved
    <2>2. Faithful(h, task[h].from, doc, reward)
      BY <1>1, <2>1, MovedKeeps DEF Faithful, KeepsPromises, Mine
    <2> QED BY <1>1, <1>3, <2>2, CommitMineFaithful
  <1> QED BY <1>2, <1>3 DEF ClaimDailyCash

LEMMA PlantingFaithful ==
  ASSUME TypeOK, NEW h \in Handlers, Farm(h) \/ Invest(h)
  PROVE  FaithfulDecision(h)
  <1>1. stage[h] # "idle" /\ task[h].op \in {"farm", "invest"} /\ Mine(h) \in Docs
    BY MineType DEF Farm, Invest, Deciding
  <1>2. CASE GiveUp(h)
    BY <1>2 DEF FaithfulDecision
  <1>3. ASSUME NEW reward \in Coins, CommitMine(h, Planted(Mine(h), "farm-crop", reward), 0, FALSE)
        PROVE  FaithfulDecision(h)
    <2> DEFINE doc == Planted(Mine(h), "farm-crop", reward)
    <2>1. doc.bank = Mine(h).bank
      BY <1>1 DEF Planted, Docs
    <2>2. ClampMoney(doc.bank) = Mine(h).bank
      BY <1>1, <2>1, BalancesAreInts, ClampIdentity
    <2>3. Faithful(h, task[h].from, doc, 0)
      BY <1>1, <2>2 DEF Faithful, KeepsPromises, Mine
    <2> QED BY <1>1, <1>3, <2>3, CommitMineFaithful
  <1>4. ASSUME NEW amount, NEW payout,
               CommitMine(h, Planted(Moved(Mine(h), -amount, 0), "investment", payout), -amount, FALSE)
        PROVE  FaithfulDecision(h)
    <2> DEFINE moved == Moved(Mine(h), -amount, 0)
               doc == Planted(moved, "investment", payout)
    <2>1. doc.bank = moved.bank
      BY DEF Planted, Moved
    <2>2. ClampMoney(doc.bank) = Mine(h).bank
      BY <1>1, <2>1, MovedKeeps
    <2>3. Faithful(h, task[h].from, doc, -amount)
      BY <1>1, <2>2 DEF Faithful, KeepsPromises, Mine
    <2> QED BY <1>1, <1>4, <2>3, CommitMineFaithful
  <1> QED BY <1>2, <1>3, <1>4 DEF Farm, Invest

LEMMA PendingOf ==
  ASSUME NEW doc \in Docs
  PROVE  /\ doc.pending \in [PendingKeys -> Promises]
         /\ \A k \in PendingKeys : doc.pending[k].pay \in Nat
         /\ Owed(doc) \in Int
  BY DEF Docs, PendingKeys, Promises, Owed

(* What /collect pays is what it takes off the list. *)
LEMMA CollectFaithful ==
  ASSUME TypeOK, NEW h \in Handlers, Collect(h)
  PROVE  FaithfulDecision(h)
  <1> DEFINE total == ReadyPay(Mine(h))
             rest == [k \in PendingKeys |->
                       IF k \in Ready(Mine(h)) THEN NoPromise ELSE Mine(h).pending[k]]
             left == [Moved(Mine(h), total, 0) EXCEPT !.pending =
                        [k \in PendingKeys |->
                           IF k \in Ready(Mine(h)) THEN NoPromise ELSE @[k]]]
  <1>1. stage[h] # "idle" /\ task[h].op = "collect" /\ Mine(h) \in Docs
    BY MineType DEF Collect, Deciding
  <1>2. CASE GiveUp(h)
    BY <1>2 DEF FaithfulDecision
  <1>3. CASE CommitMine(h, left, total, FALSE)
    <2>1. left.pending = rest /\ left.bank = Moved(Mine(h), total, 0).bank
      BY DEF Moved
    <2>2. \A k \in PendingKeys : Mine(h).pending[k].pay \in Nat
      BY <1>1, PendingOf
    <2>3. Owed(left) = rest["farm-crop"].pay + rest["investment"].pay
      BY <2>1 DEF Owed
    <2>4. /\ rest["farm-crop"].pay = IF "farm-crop" \in Ready(Mine(h)) THEN 0 ELSE Mine(h).pending["farm-crop"].pay
          /\ rest["investment"].pay = IF "investment" \in Ready(Mine(h)) THEN 0 ELSE Mine(h).pending["investment"].pay
      BY DEF NoPromise, PendingKeys
    <2> HIDE DEF rest
    <2>5. total = Owed(Mine(h)) - Owed(left)
      BY <2>2, <2>3, <2>4 DEF ReadyPay, Owed, PendingKeys
    <2>6. ClampMoney(left.bank) = Mine(h).bank
      BY <1>1, <2>1, MovedKeeps
    <2> HIDE DEF total, left
    <2>7. Faithful(h, task[h].from, left, total)
      BY <1>1, <2>5, <2>6 DEF Faithful, KeepsPromises, Mine
    <2> QED BY <1>1, <1>3, <2>7, CommitMineFaithful
  <1> QED BY <1>2, <1>3 DEF Collect

LEMMA DecideFaithful ==
  ASSUME TypeOK, NEW h \in Handlers, Decide(h)
  PROVE  FaithfulDecision(h)
  BY PlainFaithful, BothFaithful, DailyFaithful, PlantingFaithful, CollectFaithful DEF Decide

-----------------------------------------------------------------------------
LEMMA NothingNewFaithful ==
  ASSUME EditsFaithful, \A h \in Handlers : SavesNothingNew(h)
  PROVE  EditsFaithful'
  BY DEF EditsFaithful, SavesNothingNew, KeepsPromises, AboutBankOf, Owed

LEMMA CommitFaithful ==
  ASSUME TypeOK, EditsFaithful, NEW h \in Handlers, NEW new, NEW say, NEW capped,
         Commit(h, new, say, capped), DOMAIN new \in SUBSET Users, DOMAIN say = DOMAIN new,
         \A u \in DOMAIN new : Faithful(h, u, new[u], say[u])
  PROVE  EditsFaithful'
  <1>1. ASSUME NEW g \in Handlers, g # h
        PROVE  SavesNothingNew(g)
    BY <1>1 DEF TypeOK, Commit, SavesNothingNew, local
  <1>2. ASSUME NEW u \in want'[h]
        PROVE  /\ KeepsPromises(task[h].op, read[h][u], edit'[h][u], told'[h][u])
               /\ edit'[h][u].bank # read[h][u].bank => AboutBankOf(task[h], u)
    <2>1. u \in DOMAIN new /\ u \in Users
      BY <1>2 DEF Commit, TypeOK
    <2>2. edit'[h][u] = Clamped(new[u]) /\ told'[h][u] = say[u]
      BY <2>1 DEF Commit, TypeOK
    <2>3. edit'[h][u].bank = ClampMoney(new[u].bank) /\ edit'[h][u].pending = new[u].pending
      BY <2>2 DEF Clamped
    <2>4. Faithful(h, u, new[u], say[u])
      BY <2>1
    <2> QED BY <2>2, <2>3, <2>4 DEF Faithful, KeepsPromises, Owed
  <1>3. task' = task /\ read' = read
    BY DEF Commit
  <1>4. ASSUME NEW g \in Handlers, g # h, stage'[g] = "save", NEW u \in want'[g]
        PROVE  /\ KeepsPromises(task'[g].op, read'[g][u], edit'[g][u], told'[g][u])
               /\ edit'[g][u].bank # read'[g][u].bank => AboutBankOf(task'[g], u)
    BY <1>1, <1>4 DEF SavesNothingNew, EditsFaithful
  <1> QED BY <1>2, <1>3, <1>4 DEF EditsFaithful

(* A step saves a document, decides what to save, or does neither. *)
LEMMA StepKinds ==
  ASSUME TypeOK, [Next]_vars
  PROVE  \/ /\ \A g \in Handlers : SavesNothingNew(g)
            /\ UNCHANGED <<account, ledger>>
         \/ \E h \in Handlers : Decide(h) /\ ~GiveUp(h)
         \/ \E h \in Handlers, u \in Users : Save(h, u) /\ \A g \in Handlers : SavesNothingNew(g)
  <1> DEFINE Quiet == (\A g \in Handlers : SavesNothingNew(g)) /\ UNCHANGED <<account, ledger>>
  <1>1. ASSUME NEW h \in Handlers, NEW op \in Commands, NEW u \in Users, NEW v \in Users,
               NEW typed \in Typed, Start(h, op, u, v, typed)
        PROVE  Quiet
    <2>1. \A g \in Handlers : stage'[g] = "save" =>
            stage[g] = "save" /\ want'[g] = want[g] /\ task'[g] = task[g]
      BY <1>1 DEF Start, TypeOK
    <2> QED BY <1>1, <2>1 DEF Start, gossip, SavesNothingNew, db
  <1>2. ASSUME NEW h \in Handlers, NEW u \in Users, Load(h, u)
        PROVE  Quiet
    <2>1. \A g \in Handlers : stage'[g] = "save" =>
            /\ stage[g] = "save" /\ want'[g] = want[g] /\ read'[g] = read[g]
      BY <1>2 DEF Load, TypeOK
    <2> QED BY <1>2, <2>1 DEF Load, gossip, SavesNothingNew, db
  <1>3. ASSUME NEW h \in Handlers, NEW u \in Users, Save(h, u)
        PROVE  \A g \in Handlers : SavesNothingNew(g)
    BY <1>3, NextSaveNothingNew DEF Save
  <1>4. ASSUME NEW h \in Handlers, NEW u \in Users, SaveFails(h, u)
        PROVE  Quiet
    BY <1>4, NextSaveNothingNew DEF SaveFails, db
  <1>5. ASSUME NEW h \in Handlers, PassGate(h)
        PROVE  Quiet
    <2>1. \A g \in Handlers : stage'[g] = "save" => stage[g] = "save" /\ read'[g] = read[g]
      BY <1>5 DEF PassGate, TypeOK
    <2> QED BY <1>5, <2>1 DEF PassGate, gossip, SavesNothingNew
  <1>6. ASSUME NEW h \in Handlers, RefusedAtGate(h)
        PROVE  Quiet
    BY <1>6, FinishNothingNew DEF RefusedAtGate, db
  <1>7. ASSUME NEW h \in Handlers, GiveUp(h)
        PROVE  Quiet
    BY <1>7, FinishNothingNew DEF GiveUp, db
  <1>8. ASSUME Crash
        PROVE  Quiet
    BY <1>8 DEF Crash, SavesNothingNew, db
  <1>9. ASSUME Tick \/ UNCHANGED vars
        PROVE  Quiet
    <2>1. UNCHANGED <<db, local, gossip, ledger>>
      BY <1>9 DEF Tick, vars
    <2> QED BY <2>1 DEF local, gossip, SavesNothingNew, db
  <1> HIDE DEF Quiet
  <1>10. \/ Quiet \/ \E h \in Handlers : Decide(h) /\ ~GiveUp(h)
         \/ \E h \in Handlers, u \in Users : Save(h, u)
    <2> DEFINE Waits(h) ==
                 \/ \E op \in Commands, u, v \in Users, typed \in Typed : Start(h, op, u, v, typed)
                 \/ \E u \in Users : Load(h, u) \/ SaveFails(h, u)
                 \/ PassGate(h) \/ RefusedAtGate(h)
    <2>1. ASSUME NEW h \in Handlers, Waits(h)
          PROVE  Quiet
      BY <2>1, <1>1, <1>2, <1>4, <1>5, <1>6
    <2>2. \A h \in Handlers : Decide(h) => Quiet \/ ~GiveUp(h)
      BY <1>7
    <2>3. \/ \E h \in Handlers : Waits(h) \/ Decide(h) \/ \E u \in Users : Save(h, u)
          \/ Crash \/ Tick \/ UNCHANGED vars
      BY DEF Next
    <2> HIDE DEF Waits
    <2> QED BY <2>1, <2>2, <2>3, <1>8, <1>9
  <1> QED BY <1>3, <1>10 DEF Quiet

PromisesInv == TypeOK /\ EditsFaithful /\ PromisesKept

(* Saving a document that is not stale changes what is owed by as much as the
   handler changed it.                                                     *)
LEMMA FreshSaveMovesOwed ==
  ASSUME NEW s \in Docs, NEW b \in Docs, NEW a \in Docs, ~Stale(s, b, a)
  PROVE  Owed(SaveDoc(s, b, a)) = Owed(s) + Owed(a) - Owed(b)
  <1>1. a.pending = b.pending \/ s.pending = b.pending
    BY DEF Stale, Clobbers
  <1>2. Owed(s) \in Int /\ Owed(a) \in Int /\ Owed(b) \in Int
    BY PendingOf
  <1>3. CASE a.pending = b.pending
    <2>1. SaveDoc(s, b, a).pending = s.pending /\ Owed(a) = Owed(b)
      BY <1>3 DEF SaveDoc, Merged, Owed
    <2>2. Owed(SaveDoc(s, b, a)) = Owed(s)
      BY <2>1 DEF Owed
    <2> QED BY <1>2, <2>1, <2>2
  <1>4. CASE a.pending # b.pending
    <2>1. SaveDoc(s, b, a).pending = a.pending /\ Owed(s) = Owed(b)
      BY <1>1, <1>4 DEF SaveDoc, Merged, Owed
    <2>2. Owed(SaveDoc(s, b, a)) = Owed(a)
      BY <2>1 DEF Owed
    <2> QED BY <1>2, <2>1, <2>2
  <1> QED BY <1>3, <1>4

LEMMA PromisesSave ==
  ASSUME PromisesInv, NEW h \in Handlers, NEW u \in Users, Save(h, u)
  PROVE  PromisesKept'
  <1> DEFINE before == read[h][u]
             after == edit[h][u]
             op == task[h].op
  <1>1. /\ before \in Docs /\ after \in Docs /\ account[u] \in Docs
        /\ told[h][u] \in Int /\ promised[u] \in Int /\ paid[u] \in Int
    BY DEF PromisesInv, TypeOK
  <1>2. /\ account'[u] = SaveDoc(account[u], before, after)
        /\ raced'[u] = (raced[u] \/ Stale(account[u], before, after))
        /\ promised'[u] = IF op \in {"farm", "invest"} THEN promised[u] + Owed(after) - Owed(before)
                                                       ELSE promised[u]
        /\ paid'[u] = IF op = "collect" THEN paid[u] + told[h][u] ELSE paid[u]
    BY DEF Save, PromisesInv, TypeOK
  <1>3. ASSUME NEW v \in Users, v # u
        PROVE  /\ account'[v] = account[v] /\ raced'[v] = raced[v]
               /\ promised'[v] = promised[v] /\ paid'[v] = paid[v]
    BY <1>3 DEF Save, PromisesInv, TypeOK
  <1>4. KeepsPromises(op, before, after, told[h][u])
    BY DEF Save, PromisesInv, EditsFaithful
  <1>5. ASSUME ~raced'[u]
        PROVE  promised'[u] = paid'[u] + Owed(account'[u])
    <2>1. ~raced[u] /\ ~Stale(account[u], before, after)
      BY <1>2, <1>5
    <2>2. promised[u] = paid[u] + Owed(account[u])
      BY <2>1 DEF PromisesInv, PromisesKept
    <2>3. Owed(account'[u]) = Owed(account[u]) + Owed(after) - Owed(before)
      BY <1>1, <1>2, <2>1, FreshSaveMovesOwed
    <2>4. Owed(account[u]) \in Int /\ Owed(before) \in Int /\ Owed(after) \in Int
      BY <1>1, PendingOf
    <2>5. /\ op = "collect" => told[h][u] = Owed(before) - Owed(after)
          /\ op \notin {"collect", "farm", "invest"} => Owed(after) = Owed(before)
      BY <1>4 DEF KeepsPromises, Owed
    <2> HIDE DEF before, after, op
    <2> QED BY <1>1, <1>2, <2>2, <2>3, <2>4, <2>5
  <1>6. ASSUME NEW v \in Users, v # u, ~raced'[v]
        PROVE  promised'[v] = paid'[v] + Owed(account'[v])
    BY <1>3, <1>6 DEF PromisesInv, PromisesKept
  <1>7. \A v \in Users : raced'[v] \/ promised'[v] = paid'[v] + Owed(account'[v])
    BY <1>5, <1>6
  <1> QED BY <1>7 DEF PromisesKept, Owed

LEMMA PromisesStep == PromisesInv /\ [Next]_vars => PromisesInv'
  <1> SUFFICES ASSUME PromisesInv, [Next]_vars
               PROVE  PromisesInv'
    OBVIOUS
  <1> USE DEF PromisesInv
  <1>0. TypeOK'
    BY TypeStep
  <1>1. CASE (\A g \in Handlers : SavesNothingNew(g)) /\ UNCHANGED <<account, ledger>>
    <2>1. PromisesKept'
      BY <1>1 DEF PromisesKept, ledger, Owed
    <2> QED BY <1>0, <1>1, <2>1, NothingNewFaithful
  <1>2. ASSUME NEW h \in Handlers, Decide(h), ~GiveUp(h)
        PROVE  PromisesInv'
    <2>1. PICK new, say, capped :
            /\ Commit(h, new, say, capped)
            /\ DOMAIN new \in SUBSET Users /\ DOMAIN say = DOMAIN new
            /\ \A u \in DOMAIN new : Faithful(h, u, new[u], say[u])
      BY <1>2, DecideFaithful DEF FaithfulDecision
    <2>2. UNCHANGED <<account, ledger>>
      BY <2>1 DEF Commit, db
    <2>3. PromisesKept'
      BY <2>2 DEF PromisesKept, ledger, Owed
    <2>4. EditsFaithful'
      BY <2>1, CommitFaithful
    <2> QED BY <1>0, <2>3, <2>4
  <1>3. ASSUME NEW h \in Handlers, NEW u \in Users, Save(h, u), \A g \in Handlers : SavesNothingNew(g)
        PROVE  PromisesInv'
    BY <1>0, <1>3, PromisesSave, NothingNewFaithful
  <1> QED BY <1>1, <1>2, <1>3, StepKinds

LEMMA PromisesInvariant == Spec => []PromisesInv
  <1>1. Init => PromisesInv
    <2> SUFFICES ASSUME Init PROVE PromisesInv
      OBVIOUS
    <2>1. EditsFaithful
      BY DEF Init, EditsFaithful
    <2>2. ASSUME NEW u \in Users PROVE promised[u] = paid[u] + Owed(account[u])
      <3>1. /\ account[u].pending = NewDoc.pending
            /\ promised[u] = 0 /\ paid[u] = 0
        <4>1. PICK w \in Coins : account[u] = [NewDoc EXCEPT !.wallet = w]
          BY DEF Init
        <4>2. account[u].pending = NewDoc.pending
          BY <4>1 DEF NewDoc
        <4> QED BY <4>2 DEF Init, NoChange
      <3>2. Owed(account[u]) = 0 + 0
        BY <3>1 DEF Owed, NewDoc, NoPromise, PendingKeys
      <3> QED BY <3>1, <3>2
    <2> QED BY <2>1, <2>2, InitType DEF PromisesInv, PromisesKept
  <1> QED BY <1>1, PromisesStep, PTL DEF Spec

(* What /farm and /invest promised an account is pending or was paid by
   /collect, once, unless a stale document was saved over the account.     *)
THEOREM PromisesCorrect == Spec => []PromisesKept
  <1>1. PromisesInv => PromisesKept
    BY DEF PromisesInv
  <1> QED BY <1>1, PromisesInvariant, PTL

(* Only a save of a deposit, a withdrawal or a heist from it changes what is
   in a bank.                                                              *)
THEOREM BanksProtected == Spec => BankProtected
  <1>1. PromisesInv /\ [Next]_vars =>
          [\A u \in Users : account'[u].bank # account[u].bank =>
             \E h \in Handlers : SavesBankOf(h, u)]_vars
    <2> SUFFICES ASSUME PromisesInv, [Next]_vars, NEW u \in Users,
                        account'[u].bank # account[u].bank
                 PROVE  \E h \in Handlers : SavesBankOf(h, u)
      OBVIOUS
    <2>1. CASE UNCHANGED account
      BY <2>1
    <2>2. ASSUME NEW h \in Handlers, NEW v \in Users, Save(h, v)
          PROVE  SavesBankOf(h, u)
      <3>1. /\ stage[h] = "save" /\ v \in want[h]
            /\ account' = [account EXCEPT ![v] = SaveDoc(@, read[h][v], edit[h][v])]
        BY <2>2 DEF Save
      <3>2. u = v /\ account'[u] = SaveDoc(account[u], read[h][u], edit[h][u])
        BY <3>1 DEF PromisesInv, TypeOK
      <3>3. edit[h][u].bank # read[h][u].bank
        BY <3>2 DEF SaveDoc, Merged
      <3> QED BY <3>1, <3>2, <3>3 DEF PromisesInv, EditsFaithful, AboutBankOf, SavesBankOf
    <2>3. ASSUME NEW h \in Handlers, Decide(h), ~GiveUp(h)
          PROVE  UNCHANGED account
      BY <2>3, DecideFaithful DEF FaithfulDecision, Commit, db, PromisesInv
    <2> QED BY <2>1, <2>2, <2>3, StepKinds DEF PromisesInv
  <1> QED BY <1>1, PromisesInvariant, PTL DEF Spec, BankProtected

-----------------------------------------------------------------------------
(* The cooldown gates *)

(* A stored stamp is never older than a grant that is still being worked on. *)
StampsRecordGrants ==
  \A h \in Handlers : PastGate(h) => at[h] <= stamp[task[h].from][task[h].op]

GateInv == TypeOK /\ StampsRecordGrants /\ GrantsSpaced

(* Handler h is past no gate after the step, or past the one it was past before. *)
NoNewGrant(h) ==
  PastGate(h)' => PastGate(h) /\ task'[h] = task[h] /\ at'[h] = at[h]

LEMMA GatesUntouched ==
  ASSUME StampsRecordGrants, GrantsSpaced, UNCHANGED stamp,
         \A h \in Handlers : NoNewGrant(h)
  PROVE  StampsRecordGrants' /\ GrantsSpaced'
  <1>1. StampsRecordGrants'
    BY DEF StampsRecordGrants, NoNewGrant
  <1>2. GrantsSpaced'
    BY DEF GrantsSpaced, NoNewGrant
  <1> QED BY <1>1, <1>2

LEMMA FinishNoGrant ==
  ASSUME TypeOK, NEW h \in Handlers, Finish(h)
  PROVE  \A g \in Handlers : NoNewGrant(g)
  <1>1. stage'[h] = "idle"
    BY DEF TypeOK, Finish
  <1>2. ASSUME NEW g \in Handlers, g # h
        PROVE  stage'[g] = stage[g] /\ task'[g] = task[g] /\ at'[g] = at[g]
    BY <1>2 DEF TypeOK, Finish
  <1> QED BY <1>1, <1>2 DEF NoNewGrant, PastGate

LEMMA NextSaveNoGrant ==
  ASSUME TypeOK, NEW h \in Handlers, NEW u \in Users, NextSave(h, u)
  PROVE  \A g \in Handlers : NoNewGrant(g)
  <1>1. CASE want[h] = {u}
    BY <1>1, FinishNoGrant DEF NextSave
  <1>2. CASE want[h] # {u}
    BY <1>2 DEF NextSave, NoNewGrant, PastGate
  <1> QED BY <1>1, <1>2

(* The conditional update stamps the grant in the step that allows it, and
   allows it only a cooldown after the last stamp: whoever is past the gate
   passed it no later than that stamp.                                     *)
LEMMA PassGateSpaces ==
  ASSUME GateInv, NEW h \in Handlers, PassGate(h)
  PROVE  StampsRecordGrants' /\ GrantsSpaced'
  <1> DEFINE u == task[h].from
             c == task[h].op
  <1>1. /\ stage[h] = "gate" /\ u \in Users /\ c \in AllCommands
        /\ now \in Int
    BY GatedFrom DEF PassGate, GateInv, TypeOK
  <1>2. CASE c \in Gated
    <2>1. stamp[u][c] \in Int /\ Cooldown[c] \in Nat /\ Cooldown[c] > 0
      BY <1>1, <1>2 DEF GateInv, TypeOK
    <2>2. stamp[u][c] <= now - Cooldown[c] /\ task' = task
      BY DEF PassGate, GateOpen
    <2>3. /\ at'[h] = now /\ stamp'[u][c] = now
          /\ \A v \in Users, d \in Gated : v # u \/ d # c => stamp'[v][d] = stamp[v][d]
      BY <1>1, <1>2 DEF PassGate, GateInv, TypeOK
    <2>4. ASSUME NEW g \in Handlers, g # h
          PROVE  stage'[g] = stage[g] /\ at'[g] = at[g]
      BY <2>4 DEF PassGate, GateInv, TypeOK
    <2>5. ASSUME NEW g \in Handlers, g # h, PastGate(g)
          PROVE  /\ task[g].from \in Users /\ task[g].op \in Gated
                 /\ at[g] \in Int /\ at[g] <= stamp[task[g].from][task[g].op]
      BY <2>5, GatedFrom DEF GateInv, StampsRecordGrants, PastGate, TypeOK
    <2>6. ASSUME NEW g \in Handlers, g # h, PastGate(g), task[g].op = c, task[g].from = u
          PROVE  at'[h] >= at'[g] + Cooldown[c]
      <3>1. at'[g] \in Int /\ at'[g] <= stamp[u][c]
        BY <2>4, <2>5, <2>6
      <3> HIDE DEF u, c
      <3> QED BY <3>1, <1>1, <2>1, <2>2, <2>3
    <2>7. \A g \in Handlers : g # h => (PastGate(g)' <=> PastGate(g))
      BY <2>2, <2>4 DEF PastGate
    <2>8. StampsRecordGrants'
      <3>1. ASSUME NEW g \in Handlers, g # h, PastGate(g)
            PROVE  at'[g] <= stamp'[task[g].from][task[g].op]
        <4>1. CASE task[g].from = u /\ task[g].op = c
          <5>1. at'[g] \in Int /\ at'[g] <= stamp[u][c]
            BY <2>4, <2>5, <3>1, <4>1
          <5>2. stamp'[task[g].from][task[g].op] = now
            BY <2>3, <4>1
          <5> HIDE DEF u, c
          <5> QED BY <5>1, <5>2, <1>1, <2>1, <2>2
        <4>2. CASE ~(task[g].from = u /\ task[g].op = c)
          BY <2>3, <2>4, <2>5, <3>1, <4>2
        <4> QED BY <4>1, <4>2
      <3>2. at'[h] <= stamp'[u][c]
        BY <1>1, <2>3
      <3> QED BY <2>2, <2>7, <3>1, <3>2 DEF StampsRecordGrants
    <2>9. GrantsSpaced'
      <3> SUFFICES ASSUME NEW f \in Handlers, NEW g \in Handlers, f # g,
                          PastGate(f)', PastGate(g)',
                          task[f].op = task[g].op, task[f].from = task[g].from
                   PROVE  \/ at'[f] >= at'[g] + Cooldown[task[g].op]
                          \/ at'[g] >= at'[f] + Cooldown[task[g].op]
        BY <2>2 DEF GrantsSpaced
      <3>1. CASE f = h
        BY <3>1, <2>6, <2>7
      <3>2. CASE g = h
        BY <3>2, <2>6, <2>7
      <3>3. CASE f # h /\ g # h
        BY <3>3, <2>4, <2>7 DEF GateInv, GrantsSpaced
      <3> QED BY <3>1, <3>2, <3>3
    <2> QED BY <2>8, <2>9
  <1>3. CASE c \notin Gated
    <2>1. stamp' = [stamp EXCEPT ![u][c] = now] /\ task' = task
      BY DEF PassGate
    <2>2. stamp' = stamp
      <3>1. stamp \in [Users -> [Gated -> Int]] /\ stamp[u] \in [Gated -> Int]
        BY <1>1 DEF GateInv, TypeOK
      <3> HIDE DEF u, c
      <3>2. [stamp[u] EXCEPT ![c] = now] = stamp[u]
        BY <1>3, <3>1
      <3>3. stamp' = [stamp EXCEPT ![u] = [stamp[u] EXCEPT ![c] = now]]
        BY <2>1
      <3> QED BY <3>1, <3>2, <3>3, <1>1
    <2>3. ASSUME NEW g \in Handlers, g # h
          PROVE  stage'[g] = stage[g] /\ at'[g] = at[g]
      BY <2>3 DEF PassGate, GateInv, TypeOK
    <2>4. \A g \in Handlers : NoNewGrant(g)
      BY <1>3, <2>1, <2>3 DEF NoNewGrant, PastGate
    <2> QED BY <2>2, <2>4, GatesUntouched DEF GateInv
  <1> QED BY <1>2, <1>3

LEMMA GateStep == GateInv /\ [Next]_vars => GateInv'
  <1> SUFFICES ASSUME GateInv, [Next]_vars
               PROVE  GateInv'
    OBVIOUS
  <1> USE DEF GateInv
  <1>0. TypeOK'
    BY TypeStep
  <1>1. ASSUME NEW h \in Handlers, NEW op \in Commands, NEW u \in Users, NEW v \in Users,
               NEW typed \in Typed, Start(h, op, u, v, typed)
        PROVE  StampsRecordGrants' /\ GrantsSpaced'
    <2>1. stage'[h] \in {"gate", "load"} /\ UNCHANGED <<stamp, at>>
      BY <1>1 DEF Start, TypeOK, db
    <2>2. \A g \in Handlers : g # h => stage'[g] = stage[g] /\ task'[g] = task[g]
      BY <1>1 DEF Start, TypeOK
    <2>3. \A g \in Handlers : NoNewGrant(g)
      BY <2>1, <2>2 DEF NoNewGrant, PastGate
    <2> QED BY <2>1, <2>3, GatesUntouched
  <1>2. ASSUME NEW h \in Handlers, NEW u \in Users, Load(h, u)
        PROVE  StampsRecordGrants' /\ GrantsSpaced'
    <2>1. /\ stage'[h] \in {"load", "gate"} \/ task[h].op \notin Gated
          /\ UNCHANGED <<stamp, at, task>>
          /\ \A g \in Handlers : g # h => stage'[g] = stage[g]
      BY <1>2 DEF Load, TypeOK, db
    <2>2. \A g \in Handlers : NoNewGrant(g)
      BY <2>1 DEF NoNewGrant, PastGate
    <2> QED BY <2>1, <2>2, GatesUntouched
  <1>3. ASSUME NEW h \in Handlers, NEW u \in Users, Save(h, u) \/ SaveFails(h, u)
        PROVE  StampsRecordGrants' /\ GrantsSpaced'
    BY <1>3, NextSaveNoGrant, GatesUntouched DEF Save, SaveFails, db
  <1>4. ASSUME NEW h \in Handlers, PassGate(h)
        PROVE  StampsRecordGrants' /\ GrantsSpaced'
    BY <1>4, PassGateSpaces
  <1>5. ASSUME NEW h \in Handlers, RefusedAtGate(h)
        PROVE  StampsRecordGrants' /\ GrantsSpaced'
    BY <1>5, FinishNoGrant, GatesUntouched DEF RefusedAtGate, db
  <1>6. ASSUME NEW h \in Handlers, Decide(h)
        PROVE  StampsRecordGrants' /\ GrantsSpaced'
    <2>1. CASE GiveUp(h)
      BY <2>1, FinishNoGrant, GatesUntouched DEF GiveUp, db
    <2>2. ASSUME NEW new, NEW say, NEW capped, Commit(h, new, say, capped)
          PROVE  StampsRecordGrants' /\ GrantsSpaced'
      <3>1. UNCHANGED <<stamp, at, task>> /\ stage[h] = "decide"
        BY <1>6, <2>2, DecideActive DEF Commit, db
      <3>2. \A g \in Handlers : g # h => stage'[g] = stage[g]
        BY <2>2 DEF Commit, TypeOK
      <3>3. \A g \in Handlers : NoNewGrant(g)
        BY <3>1, <3>2 DEF NoNewGrant, PastGate
      <3> QED BY <3>1, <3>3, GatesUntouched
    <2> QED BY <1>6, <2>1, <2>2, DecideDecides DEF Decision
  <1>7. CASE Crash
    <2>1. \A g \in Handlers : NoNewGrant(g)
      BY <1>7 DEF Crash, NoNewGrant, PastGate
    <2>2. UNCHANGED stamp
      BY <1>7 DEF Crash, db
    <2> QED BY <1>0, <2>1, <2>2, GatesUntouched
  <1>8. CASE Tick \/ UNCHANGED vars
    <2>1. UNCHANGED <<db, local>>
      BY <1>8 DEF Tick, vars
    <2>2. UNCHANGED stamp /\ \A g \in Handlers : NoNewGrant(g)
      BY <2>1 DEF db, local, NoNewGrant, PastGate
    <2> QED BY <1>0, <2>2, GatesUntouched
  <1>9. StampsRecordGrants' /\ GrantsSpaced'
    BY <1>1, <1>2, <1>3, <1>4, <1>5, <1>6, <1>7, <1>8 DEF Next
  <1> QED BY <1>0, <1>9

(* Two handlers past the gate of one command for one account passed it a
   cooldown apart, whatever the interleaving (findOneAndUpdate on last<c>At). *)
THEOREM GatesCorrect == Spec => []GrantsSpaced
  <1>1. Init => GateInv
    <2> SUFFICES ASSUME Init PROVE GateInv
      OBVIOUS
    <2>1. \A h \in Handlers : ~PastGate(h)
      BY DEF Init, PastGate
    <2> QED BY <2>1, InitType DEF GateInv, StampsRecordGrants, GrantsSpaced
  <1>2. GateInv /\ [Next]_vars => GateInv'
    BY GateStep
  <1>3. GateInv => GrantsSpaced
    BY DEF GateInv
  <1> QED BY <1>1, <1>2, <1>3, PTL DEF Spec
=============================================================================

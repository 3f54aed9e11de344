-------------------------------- MODULE Bonds -------------------------------
(***************************************************************************)
(* Ships, reactions and rizz: the bonds and userrizz collections, the      *)
(* commands that write them, and the migration of documents from the time  *)
(* when addresses were stored with their device.  Numbers stand for        *)
(* addresses, in the order in which canonicalizeJids sorts them; Norm      *)
(* takes the device off an address.  A bond is keyed by the set of its     *)
(* members, and the rizz document of a user by the set of that one user:   *)
(* its shippers are the outsiders who have shipped the user.               *)
(***************************************************************************)
EXTENDS Integers, FiniteSetsExt, Functions, TLC

CONSTANTS
  Addresses, Norm,
  MaxBond,             \* members of a bond: 5
  Delta,               \* Delta[action]: REACTION_DELTAS
  PerSenderCap, OutsiderCap, PerBondCap, BondCap,   \* 3, 30, 5, 30
  BaseRizz,            \* baseRizzFor: a hash, 34 to 74
  Top,                 \* the highest score: 99
  Dotted,              \* addresses with a dot, which encodeJidKey leaves in the path
  OldDocs,             \* the documents the bot is started with
  ShipHandlers,        \* handlers of /ship that may be waiting together
  MaxShips, MaxReactions, MaxMigrations, MaxFaults   \* bounds

People  == {a \in Addresses : Norm[a] = a}
Actions == DOMAIN Delta

NormSet(S) == {Norm[a] : a \in S}
IsBond(K)  == Cardinality(K) > 1

\* The bonds and the rizz documents of a collection say that s has shipped m.
HasShipped(all, s, m) ==
  \E K \in DOMAIN all : IsBond(K) /\ m \in NormSet(K) /\ s \in NormSet(all[K].shippers)
IsOutsider(all, s, m) ==
  \E K \in DOMAIN all : ~IsBond(K) /\ NormSet(K) = {m} /\ s \in NormSet(all[K].shippers)

\* The old documents are of earlier ships, which wrote both.
ASSUME BondsAssumption ==
  /\ Addresses \subseteq Nat /\ IsFiniteSet(Addresses) /\ Norm \in [Addresses -> People]
  /\ MaxBond \in Nat \ {0, 1} /\ {PerSenderCap, OutsiderCap, PerBondCap, BondCap, BaseRizz, Top} \subseteq Nat
  /\ IsFiniteSet(Actions) /\ Delta \in [Actions -> Int] /\ Dotted \subseteq People
  /\ DOMAIN OldDocs \subseteq (SUBSET Addresses) \ {{}}
  /\ \A K \in DOMAIN OldDocs :
       OldDocs[K] \in [count : Nat, shippers : SUBSET Addresses,
                       given : SUBSET (Addresses \X Actions), rebased : BOOLEAN]
  /\ \A s, m \in People : s # m => (HasShipped(OldDocs, s, m) <=> IsOutsider(OldDocs, s, m))

NewDoc  == [count |-> 0, shippers |-> {}, given |-> {}, rebased |-> TRUE]
NoShip  == [due |-> {}, sender |-> 0, members |-> {}]
NoMove  == [stage |-> "idle", key |-> {}, found |-> FALSE, seen |-> NewDoc]

VARIABLES
  docs,       \* docs[K]: ships counted, who shipped, who gave which reaction, base up to date
  shipping,   \* shipping[h]: what a /ship has in flight; due: the documents it has still to write
  phase,      \* of the migration: "none", "bonds", "rizz"
  todo,       \* the documents of its snapshot that are left
  moving,     \* the document it is moving, and the one it has found in its way
  ships, reactions, migrations, faults,
  counted,    \* counted[K]: ghost, ships stored for the people of K
  migrated,   \* ghost: a migration has come to its end
  overrun,    \* ghost: the migration wrote less than was stored by then
  cut         \* ghost: one of the writes that belong together was lost

bondVars == <<docs, shipping, phase, todo, moving, ships, reactions, migrations, faults,
              counted, migrated, overrun, cut>>

BondKeys   == {K \in DOMAIN docs : IsBond(K)}
PeopleKeys == {K \in SUBSET People : IsBond(K)}

CountOf(all, K) == MapThenSumSet(LAMBDA D : all[D].count, {D \in DOMAIN all : NormSet(D) = K})

BondsTypeOK ==
  /\ DOMAIN docs \subseteq (SUBSET Addresses) \ {{}}
  /\ \A K \in DOMAIN docs :
       docs[K] \in [count : Nat, shippers : SUBSET Addresses,
                    given : SUBSET (Addresses \X Actions), rebased : BOOLEAN]
  /\ shipping \in [ShipHandlers -> [due : SUBSET SUBSET People,
                     sender : People \cup {0}, members : SUBSET People]]
  /\ phase \in {"none", "bonds", "rizz"} /\ DOMAIN todo \subseteq SUBSET Addresses
  /\ moving.stage \in {"idle", "found", "written"}
  /\ moving.stage # "idle" => moving.key \in DOMAIN todo

BondsInit ==
  /\ docs = OldDocs
  /\ shipping = [h \in ShipHandlers |-> NoShip]
  /\ phase = "none" /\ todo = <<>> /\ moving = NoMove
  /\ ships = 0 /\ reactions = 0 /\ migrations = 0 /\ faults = 0
  /\ counted = [K \in PeopleKeys |-> CountOf(OldDocs, K)]
  /\ migrated = FALSE /\ overrun = FALSE /\ cut = FALSE

-----------------------------------------------------------------------------
Clamp(n, lo, hi) == IF n < lo THEN lo ELSE IF n > hi THEN hi ELSE n

FirstN(S, n) == {a \in S : Cardinality({b \in S : b < a}) < n}

(* canonicalizeShip: the sender and the first of the others. *)
ShipMembers(sender, named) == {sender} \cup FirstN(NormSet(named) \ {sender}, MaxBond - 1)

(* canonicalizeReact: the first of all, whether the sender is one or not. *)
ReactMembers(sender, named) == FirstN(NormSet(named) \cup {sender}, MaxBond)

Gave(given, s) == MapThenSumSet(LAMBDA g : Delta[g[2]], {g \in given : g[1] = s})

(* computeBondGrowth: what each sender gave, clamped. *)
Growth(given) ==
  MapThenSumSet(LAMBDA s : Clamp(Gave(given, s), -PerSenderCap, PerSenderCap), {g[1] : g \in given})

(* computeRizzScore: a bond counts by what it has grown. *)
BondTerm(all, a) ==
  MapThenSumSet(LAMBDA K : Clamp(Growth(all[K].given), 0, PerBondCap),
                {K \in DOMAIN all : IsBond(K) /\ a \in K})

Outsiders(all, a) == IF {a} \in DOMAIN all THEN Cardinality(all[{a}].shippers) ELSE 0

RizzScore(all, a) ==
  Clamp(BaseRizz + Clamp(Outsiders(all, a), 0, OutsiderCap)
                 + Clamp(BondTerm(all, a), 0, BondCap), 1, Top)

(* findOneAndUpdate and bulkWrite with upsert: the document as it is or new. *)
DocAt(K) == IF K \in DOMAIN docs THEN docs[K] ELSE NewDoc
Stored(K, doc) == [D \in DOMAIN docs \cup {K} |-> IF D = K THEN doc ELSE docs[D]]
Without(all, K) == Restrict(all, DOMAIN all \ {K})

MigrationKept == UNCHANGED <<phase, todo, moving, migrations, migrated, overrun>>

(* The documents a ship writes: the bond, and the rizz of every member but the
   sender (buildRizzCreditOps).                                            *)
Writes(sender, members) == {members} \cup {{m} : m \in members \ {sender}}

(* /ship: two requests leave together, to the bond and to the rizz of the others. *)
Ship(h, sender, named) ==
  LET members == ShipMembers(sender, named)
  IN  /\ ships < MaxShips /\ ships' = ships + 1
      /\ shipping[h] = NoShip /\ IsBond(members)
      /\ shipping' = [shipping EXCEPT ![h] =
                        [due |-> Writes(sender, members), sender |-> sender, members |-> members]]
      /\ UNCHANGED <<docs, reactions, faults, counted, cut>> /\ MigrationKept

(* Writes that are done with, stored or not. *)
WriteDone(h, keys) ==
  LET rest == shipping[h].due \ keys
  IN  /\ keys # {} /\ keys \subseteq shipping[h].due
      /\ shipping' = [shipping EXCEPT ![h] =
                        IF rest = {} THEN NoShip ELSE [shipping[h] EXCEPT !.due = rest]]

ShipStored(h) ==
  LET K   == shipping[h].members
      doc == DocAt(K)
  IN  /\ WriteDone(h, {K})
      /\ docs' = Stored(K, [doc EXCEPT !.count = @ + 1, !.shippers = @ \cup {shipping[h].sender}])
      /\ counted' = [counted EXCEPT ![K] = @ + 1]
      /\ UNCHANGED <<ships, reactions, faults, cut>> /\ MigrationKept

(* Mutant: the credit goes only to documents that are there. *)
RizzStored_NoUpsert(h, m) ==
  /\ WriteDone(h, {{m}})
  /\ docs' = IF {m} \in DOMAIN docs
             THEN Stored({m}, [docs[{m}] EXCEPT !.shippers = @ \cup {shipping[h].sender}]) ELSE docs
  /\ UNCHANGED <<ships, reactions, faults, counted, cut>> /\ MigrationKept

(* The bulkWrite reaches one document after the other, in their order. *)
RizzStored(h, m) ==
  /\ WriteDone(h, {{m}}) /\ \A n \in People : {n} \in shipping[h].due => m <= n
  /\ docs' = Stored({m}, [DocAt({m}) EXCEPT !.shippers = @ \cup {shipping[h].sender}])
  /\ UNCHANGED <<ships, reactions, faults, counted, cut>> /\ MigrationKept

(* A request fails: the bond, or what the bulkWrite has left. *)
ShipWriteFails(h) ==
  /\ faults < MaxFaults /\ faults' = faults + 1
  /\ \E keys \in {{shipping[h].members}, shipping[h].due \ {shipping[h].members}} : WriteDone(h, keys)
  /\ cut' = TRUE
  /\ UNCHANGED <<docs, ships, reactions, counted>> /\ MigrationKept

(* reactBond: what a sender gave is a set, so a repeated action adds nothing.
   A sender whose address has a dot is stored where no growth is read from. *)
Reacted(doc, sender, action) ==
  [doc EXCEPT !.given = IF sender \in Dotted THEN @ ELSE @ \cup {<<sender, action>>}]

(* A reaction is stored in one write, after the answer was sent; the write may
   fail unnoticed.                                                         *)
React(sender, named, action) ==
  LET K == ReactMembers(sender, named)
  IN  /\ reactions < MaxReactions /\ reactions' = reactions + 1
      /\ IsBond(NormSet(named) \cup {sender})
      /\ docs' = Stored(K, Reacted(DocAt(K), sender, action))
      /\ UNCHANGED <<shipping, ships, faults, counted, cut>> /\ MigrationKept

(* ensureRizz: whoever is ranked has a document from then on. *)
Rank(a) ==
  /\ {a} \notin DOMAIN docs
  /\ docs' = Stored({a}, NewDoc)
  /\ UNCHANGED <<shipping, ships, reactions, faults, counted, cut>> /\ MigrationKept

-----------------------------------------------------------------------------
(***************************************************************************)
(* migrateShipData: the bonds as they were found, one after the other, then *)
(* the rizz documents.                                                     *)
(***************************************************************************)
OthersKept == UNCHANGED <<shipping, ships, reactions>>

Migrate ==
  /\ phase = "none" /\ migrations < MaxMigrations /\ migrations' = migrations + 1
  /\ phase' = "bonds" /\ todo' = Restrict(docs, BondKeys)
  /\ UNCHANGED <<docs, moving, faults, counted, migrated, overrun, cut>> /\ OthersKept

NextPhase ==
  /\ todo = <<>>
  /\ \/ /\ phase = "bonds" /\ phase' = "rizz"
        /\ todo' = Restrict(docs, DOMAIN docs \ BondKeys)
        /\ UNCHANGED migrated
     \/ /\ phase = "rizz" /\ phase' = "none"
        /\ migrated' = TRUE /\ UNCHANGED todo
  /\ UNCHANGED <<docs, moving, migrations, faults, counted, overrun, cut>> /\ OthersKept

Skipped(K) == IsBond(K) /\ ~IsBond(NormSet(K))

Outdated(K) ==
  \/ ~todo[K].rebased
  \/ ~IsBond(K) /\ Cardinality(NormSet(todo[K].shippers)) # Cardinality(todo[K].shippers)

(* A document that keeps its key: the base is brought up to date; a rizz
   document is then written as the snapshot has it.                        *)
Rebase(K) ==
  /\ moving = NoMove /\ K \in DOMAIN todo /\ NormSet(K) = K
  /\ todo' = Without(todo, K)
  /\ IF Outdated(K)
     THEN LET doc == [docs[K] EXCEPT !.rebased = TRUE,
                        !.shippers = IF IsBond(K) THEN @ ELSE NormSet(todo[K].shippers)]
          IN  /\ docs' = [docs EXCEPT ![K] = doc]
              /\ overrun' = (overrun \/ ~(NormSet(docs[K].shippers) \subseteq NormSet(doc.shippers)))
     ELSE UNCHANGED <<docs, overrun>>
  /\ UNCHANGED <<phase, moving, migrations, faults, counted, migrated, cut>> /\ OthersKept

Skip(K) ==
  /\ moving = NoMove /\ K \in DOMAIN todo /\ Skipped(K)
  /\ todo' = Without(todo, K)
  /\ UNCHANGED <<docs, phase, moving, migrations, faults, counted, migrated, overrun, cut>> /\ OthersKept

(* A document whose key changes: look for one under the new key. *)
Find(K) ==
  /\ moving = NoMove /\ K \in DOMAIN todo /\ NormSet(K) # K /\ ~Skipped(K)
  /\ moving' = [stage |-> "found", key |-> K, found |-> NormSet(K) \in DOMAIN docs,
              seen |-> DocAt(NormSet(K))]
  /\ UNCHANGED <<docs, phase, todo, migrations, faults, counted, migrated, overrun, cut>> /\ OthersKept

\* Who reacted how counts once for each key it is stored under.
MergedContribs(dst, src) == dst \cup src

(* What the move writes: shippers as they are today, reactions under the keys
   they were stored with.                                                  *)
MovedDoc(K) ==
  [count    |-> DocAt(NormSet(K)).count + todo[K].count,
   shippers |-> NormSet(moving.seen.shippers \cup todo[K].shippers),
   given    |-> MergedContribs(moving.seen.given, todo[K].given),
   rebased  |-> TRUE]

(* Merge into what was found, or create; a document that came up since makes
   the creation fail, and the migration with it.                           *)
MoveDoc ==
  LET K == moving.key
      N == NormSet(K)
  IN  /\ moving.stage = "found" /\ (moving.found \/ N \notin DOMAIN docs)
      /\ docs' = Stored(N, MovedDoc(K))
      /\ overrun' = (overrun \/ ~(/\ NormSet(DocAt(N).shippers) \subseteq docs'[N].shippers
                                 /\ DocAt(N).given \subseteq docs'[N].given))
      /\ moving' = [moving EXCEPT !.stage = "written"]
      /\ UNCHANGED <<phase, todo, migrations, faults, counted, migrated, cut>> /\ OthersKept

DeleteOld ==
  /\ moving.stage = "written"
  /\ docs' = Without(docs, moving.key)
  /\ todo' = Without(todo, moving.key) /\ moving' = NoMove
  /\ UNCHANGED <<phase, migrations, faults, counted, migrated, overrun, cut>> /\ OthersKept

Ended == phase' = "none" /\ todo' = <<>> /\ moving' = NoMove

Collides ==
  /\ moving.stage = "found" /\ ~moving.found /\ NormSet(moving.key) \in DOMAIN docs
  /\ Ended
  /\ UNCHANGED <<docs, migrations, faults, counted, migrated, overrun, cut>> /\ OthersKept

MigrationFails ==
  /\ phase # "none" /\ faults < MaxFaults /\ faults' = faults + 1
  /\ Ended /\ cut' = (cut \/ moving.stage = "written")
  /\ UNCHANGED <<docs, migrations, counted, migrated, overrun>> /\ OthersKept

BondsCrash ==
  /\ faults < MaxFaults /\ faults' = faults + 1
  /\ shipping' = [h \in ShipHandlers |-> NoShip] /\ Ended
  /\ cut' = (cut \/ moving.stage = "written"
                  \/ \E h \in ShipHandlers :
                       shipping[h].due \notin {{}, Writes(shipping[h].sender, shipping[h].members)})
  /\ UNCHANGED <<docs, ships, reactions, migrations, counted, migrated, overrun>>

BondsNext ==
  \/ \E s \in People : \E named \in SUBSET (People \ {s}) :
       \/ \E h \in ShipHandlers : Ship(h, s, named)
       \/ \E action \in Actions : React(s, named, action)
  \/ \E h \in ShipHandlers :
       ShipStored(h) \/ ShipWriteFails(h) \/ \E m \in People : RizzStored(h, m)
  \/ \E a \in People : Rank(a)
  \/ Migrate \/ NextPhase \/ MoveDoc \/ DeleteOld \/ Collides \/ MigrationFails \/ BondsCrash
  \/ \E K \in DOMAIN todo : Rebase(K) \/ Skip(K) \/ Find(K)

BondsSpec == BondsInit /\ [][BondsNext]_bondVars

-----------------------------------------------------------------------------
(***************************************************************************)
(* Properties                                                              *)
(***************************************************************************)

(* shipBond writes several documents of two collections with no transaction.
   Between ships, who is noted as an outsider of a user is who has shipped the
   user, in the middle of a migration as before and after it, unless a write
   was lost or the migration wrote over a ship.                            *)
BondsAndRizzAgree ==
  (~cut /\ ~overrun /\ \A h \in ShipHandlers : shipping[h] = NoShip) =>
    \A s, m \in People : s # m => (HasShipped(docs, s, m) <=> IsOutsider(docs, s, m))

(* A ship is counted once, whatever merges and renames the bond goes through:
   only between the write under the new key and the deletion under the old one
   (or when that one never comes) is it counted in both.                   *)
CountsAddUp ==
  ~cut => \A K \in PeopleKeys :
    (moving.stage = "written" /\ NormSet(moving.key) = K) \/ CountOf(docs, K) = counted[K]

(* A migration that comes to its end leaves no address with a device and no
   old base, and ships meanwhile bring none back; a bond of one user's two
   addresses is left as it is.                                             *)
MigrationCompletes ==
  migrated => \A K \in DOMAIN docs : Skipped(K) \/ (NormSet(K) = K /\ docs[K].rebased)

(* The migration neither loses nor doubles a ship, and leaves nothing of the
   old addresses behind.                                                   *)
MigrationHolds == CountsAddUp /\ MigrationCompletes

(* "a third party shipping you doesn't double-credit your rizz": a ship moves
   the rizz of a user by no more than the outsiders it adds, one at most.   *)
OnlyNewOutsidersCount ==
  [][(docs' # docs /\ reactions' = reactions /\ phase' = phase /\ moving' = moving /\ todo' = todo) =>
       \A a \in People :
         /\ RizzScore(docs', a) - RizzScore(docs, a) <= Outsiders(docs', a) - Outsiders(docs, a)
         /\ Outsiders(docs', a) - Outsiders(docs, a) \in {0, 1}]_bondVars

(* A bond is what was shipped: its two collections agree, its count and its
   shippers come through merges and renames, and rizz is given once.       *)
BondsHold == [](BondsAndRizzAgree /\ MigrationHolds) /\ OnlyNewOutsidersCount
=============================================================================

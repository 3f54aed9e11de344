---------------------------- MODULE Bonds_proofs ----------------------------
(***************************************************************************)
(* Theorems about Bonds, for any addresses, old documents, handlers,       *)
(* migrations and faults: the ships a bond counts are the ships that were  *)
(* stored, bonds and rizz agree, a migration that ends has migrated        *)
(* everything, and a ship moves a rizz by one at most.                     *)
(***************************************************************************)
EXTENDS Bonds, FiniteSetTheorems, WellFoundedInduction, TLAPS

-----------------------------------------------------------------------------
(* Sums over finite sets.                                                  *)

One(s) == CHOOSE x \in s : TRUE

\* f adds what g says of the elements of a set, one after the other, as MapThenSumSet does.
Sums(f, g, S) ==
  f = [s \in SUBSET S |-> IF s = {} THEN 0 ELSE g[One(s)] + f[s \ {One(s)}]]

Small(S, n) == {s \in SUBSET S : Cardinality(s) <= n}

SumsTo(f, g, S, n) ==
  /\ f \in [Small(S, n) -> Int]
  /\ \A s \in Small(S, n) : f[s] = IF s = {} THEN 0 ELSE g[One(s)] + f[s \ {One(s)}]

LEMMA SmallerLeft ==
  ASSUME NEW S, IsFiniteSet(S), NEW n \in Nat
  PROVE  /\ \A s \in Small(S, n + 1) : s # {} => One(s) \in s /\ One(s) \in S /\ s \ {One(s)} \in Small(S, n)
         /\ Small(S, n) \subseteq Small(S, n + 1)
         /\ Small(S, 0) = {{}}
<1>1. ASSUME NEW s \in SUBSET S PROVE IsFiniteSet(s) /\ Cardinality(s) \in Nat
  BY <1>1, FS_Subset, FS_CardinalityType
<1>2. ASSUME NEW s \in Small(S, n + 1), s # {}
      PROVE  One(s) \in s /\ One(s) \in S /\ s \ {One(s)} \in Small(S, n)
  <2>1. s \in SUBSET S /\ Cardinality(s) <= n + 1
    BY DEF Small
  <2>2. One(s) \in s
    BY <1>2 DEF One
  <2>3. Cardinality(s \ {One(s)}) = Cardinality(s) - 1
    BY <1>1, <2>1, <2>2, FS_RemoveElement
  <2>4. Cardinality(s \ {One(s)}) <= n
    BY <1>1, <2>1, <2>3
  <2> QED
    BY <2>1, <2>2, <2>4 DEF Small
<1>3. Small(S, n) \subseteq Small(S, n + 1)
  <2>1. ASSUME NEW s \in Small(S, n) PROVE s \in Small(S, n + 1)
    BY <1>1 DEF Small
  <2> QED BY <2>1
<1>4. Small(S, 0) = {{}}
  <2>1. ASSUME NEW s \in SUBSET S, Cardinality(s) <= 0 PROVE s = {}
    BY <1>1, <2>1, FS_EmptySet
  <2>2. {} \in SUBSET S /\ Cardinality({}) <= 0
    BY FS_EmptySet
  <2> QED
    BY <2>1, <2>2 DEF Small
<1> QED
  BY <1>2, <1>3, <1>4

\* A set of numbers has a first one, whence induction on sets of numbers.
LEMMA FirstOne ==
  ASSUME NEW S, S \subseteq Nat, S # {}
  PROVE  \E a \in S : \A b \in S : ~ (b < a)
<1>1. IsWellFoundedOn(OpToRel(<, Nat), Nat)
  BY NatLessThanWellFounded
<1>2. \E x \in S : \A y \in S : ~(<<y, x>> \in OpToRel(<, Nat))
  BY <1>1, WFMin
<1>3. \A x, y \in S : <<y, x>> \in OpToRel(<, Nat) <=> y < x
  BY DEF OpToRel
<1> QED BY <1>2, <1>3

LEMMA NoLeast ==
  ASSUME NEW P \in SUBSET Nat, 0 \in P, \A n \in P : n + 1 \in P
  PROVE  P = Nat
<1>1. SUFFICES ASSUME Nat \ P # {} PROVE FALSE
  OBVIOUS
<1>2. PICK x \in Nat \ P : \A y \in Nat \ P : ~(y < x)
  BY <1>1, FirstOne
<1>3. x - 1 \in Nat /\ x - 1 < x /\ (x - 1) + 1 = x
  BY <1>2
<1> QED
  BY <1>2, <1>3

LEMMA NextSum ==
  ASSUME NEW S, IsFiniteSet(S), NEW g \in [S -> Int], NEW n \in Nat, NEW f, SumsTo(f, g, S, n)
  PROVE  \E h : SumsTo(h, g, S, n + 1)
<1> DEFINE h == [s \in Small(S, n + 1) |-> IF s = {} THEN 0 ELSE g[One(s)] + f[s \ {One(s)}]]
<1>1. h \in [Small(S, n + 1) -> Int]
  BY SmallerLeft DEF SumsTo
<1>2. ASSUME NEW s \in Small(S, n) PROVE h[s] = f[s]
  BY <1>2, SmallerLeft DEF SumsTo
<1>3. ASSUME NEW s \in Small(S, n + 1) PROVE h[s] = IF s = {} THEN 0 ELSE g[One(s)] + h[s \ {One(s)}]
  <2>1. h[s] = IF s = {} THEN 0 ELSE g[One(s)] + f[s \ {One(s)}]
    OBVIOUS
  <2> HIDE DEF h
  <2> QED BY <1>2, <2>1, SmallerLeft
<1> HIDE DEF h
<1> QED
  BY <1>1, <1>3 DEF SumsTo

\* Whatever finite set and whatever numbers, there is a function that adds them.
LEMMA SumsExist ==
  ASSUME NEW S, IsFiniteSet(S), NEW g \in [S -> Int]
  PROVE  \E f \in [SUBSET S -> Int] : Sums(f, g, S)
<1> DEFINE P == {n \in Nat : \E f : SumsTo(f, g, S, n)}
<1>1. 0 \in P
  <2> DEFINE f == [s \in {{}} |-> 0]
  <2>1. SumsTo(f, g, S, 0)
    BY SmallerLeft DEF SumsTo
  <2> QED BY <2>1
<1>2. \A n \in P : n + 1 \in P
  BY NextSum
<1>3. P = Nat
  <2> HIDE DEF P
  <2>1. P \in SUBSET Nat
    BY DEF P
  <2> QED BY <1>1, <1>2, <2>1, NoLeast
<1>4. Cardinality(S) \in Nat
  BY FS_CardinalityType
<1>5. PICK f : SumsTo(f, g, S, Cardinality(S))
  BY <1>3, <1>4
<1>6. Small(S, Cardinality(S)) = SUBSET S
  BY FS_Subset DEF Small
<1> HIDE DEF P
<1>7. Sums(f, g, S) /\ f \in [SUBSET S -> Int]
  BY <1>5, <1>6 DEF SumsTo, Sums
<1> QED
  BY <1>7

\* Nothing but the numbers counts.
LEMMA SumsAgree ==
  ASSUME NEW S, IsFiniteSet(S), NEW f, NEW g, NEW e, NEW d, Sums(f, g, S), Sums(e, d, S),
         \A x \in S : g[x] = d[x]
  PROVE  \A s \in SUBSET S : f[s] = e[s]
<1> DEFINE P == {n \in Nat : \A s \in Small(S, n) : f[s] = e[s]}
<1>1. \A s \in SUBSET S : /\ f[s] = IF s = {} THEN 0 ELSE g[One(s)] + f[s \ {One(s)}]
                          /\ e[s] = IF s = {} THEN 0 ELSE d[One(s)] + e[s \ {One(s)}]
  BY DEF Sums
<1>2. 0 \in P
  BY <1>1, SmallerLeft
<1>3. ASSUME NEW n \in P PROVE n + 1 \in P
  <2>1. \A s \in Small(S, n + 1) : s \in SUBSET S
    BY DEF Small
  <2>2. n \in Nat /\ \A s \in Small(S, n) : f[s] = e[s]
    BY <1>3
  <2>3. ASSUME NEW s \in Small(S, n + 1) PROVE f[s] = e[s]
    <3>1. s \in SUBSET S
      BY <2>1
    <3>2. s # {} => One(s) \in S /\ s \ {One(s)} \in Small(S, n)
      BY <2>2, SmallerLeft
    <3>3. s # {} => g[One(s)] = d[One(s)] /\ f[s \ {One(s)}] = e[s \ {One(s)}]
      BY <2>2, <3>2
    <3> QED BY <1>1, <3>1, <3>3
  <2>4. n + 1 \in Nat
    BY <2>2
  <2> QED BY <2>3, <2>4
<1>4. P = Nat
  <2> HIDE DEF P
  <2>1. P \in SUBSET Nat
    BY DEF P
  <2> QED BY <1>2, <1>3, <2>1, NoLeast
<1>5. Cardinality(S) \in Nat
  BY FS_CardinalityType
<1>6. Small(S, Cardinality(S)) = SUBSET S
  BY FS_Subset DEF Small
<1> QED
  BY <1>4, <1>5, <1>6

\* One more element adds its number, whichever element is taken first.
Inserts(f, g, S) == \A s \in SUBSET S : \A x \in S \ s : f[s \cup {x}] = f[s] + g[x]

LEMMA SumsInsert ==
  ASSUME NEW S, IsFiniteSet(S), NEW g \in [S -> Int], NEW f \in [SUBSET S -> Int], Sums(f, g, S)
  PROVE  Inserts(f, g, S)
<1> DEFINE Adds(s) == \A x \in S \ s : f[s \cup {x}] = f[s] + g[x]
           P == {n \in Nat : \A s \in Small(S, n) : Adds(s)}
<1>1. \A s \in SUBSET S : /\ f[s] \in Int
                          /\ s = {} => f[s] = 0
                          /\ s # {} => One(s) \in s /\ g[One(s)] \in Int /\ f[s] = g[One(s)] + f[s \ {One(s)}]
  BY DEF Sums, One
<1>2. ASSUME NEW s \in SUBSET S, NEW x \in S \ s, One(s \cup {x}) = x PROVE f[s \cup {x}] = f[s] + g[x]
  <2>1. s \cup {x} \in SUBSET S /\ s \cup {x} # {} /\ (s \cup {x}) \ {x} = s
    BY <1>2
  <2> QED BY <1>1, <1>2, <2>1
<1>3. 0 \in P
  <2>1. ASSUME NEW x \in S PROVE f[{} \cup {x}] = f[{}] + g[x]
    <3>1. One({} \cup {x}) = x
      BY DEF One
    <3>2. {} \in SUBSET S /\ x \in S \ {}
      OBVIOUS
    <3> QED BY <1>2, <3>1, <3>2
  <2> QED BY <2>1, SmallerLeft
<1>4. ASSUME NEW n \in P PROVE n + 1 \in P
  <2>0. n \in Nat
    BY <1>4
  <2>1. \A s \in Small(S, n) : Adds(s)
    BY <1>4
  <2>2. ASSUME NEW s \in Small(S, n + 1), NEW x \in S \ s PROVE f[s \cup {x}] = f[s] + g[x]
    <3> DEFINE t == s \cup {x}
               c == One(t)
               r == s \ {c}
    <3>1. s \in SUBSET S /\ t \in SUBSET S /\ t # {}
      BY DEF Small
    <3>2. c \in t /\ g[c] \in Int /\ f[t] = g[c] + f[t \ {c}]
      <4> HIDE DEF t
      <4> QED BY <1>1, <3>1
    <3>3. CASE c = x
      BY <1>2, <2>2, <3>1, <3>3
    <3>4. CASE c # x
      <4>1. c \in s /\ t \ {c} = r \cup {x} /\ x \in S \ r /\ c \in S \ r /\ s = r \cup {c} /\ r \in SUBSET S
        <5> HIDE DEF c
        <5> QED BY <2>2, <3>1, <3>2, <3>4
      <4>2. r \in Small(S, n)
        <5>1. IsFiniteSet(s) /\ Cardinality(s) \in Nat /\ Cardinality(s) <= n + 1
          BY <3>1, FS_Subset, FS_CardinalityType DEF Small
        <5>0. c \in s
          BY <4>1
        <5>2. Cardinality(r) = Cardinality(s) - 1
          <6> HIDE DEF c
          <6> QED BY <5>0, <5>1, FS_RemoveElement
        <5> HIDE DEF r
        <5>3. r \in SUBSET S /\ Cardinality(r) <= n
          BY <2>0, <4>1, <5>1, <5>2
        <5> QED BY <5>3 DEF Small
      <4> HIDE DEF r
      <4>3. f[r \cup {x}] = f[r] + g[x] /\ f[r \cup {c}] = f[r] + g[c]
        BY <2>1, <4>1, <4>2
      <4>4. f[r] \in Int /\ g[x] \in Int
        BY <1>1, <4>1
      <4> HIDE DEF t, c
      <4>5. f[t] = g[c] + (f[r] + g[x]) /\ f[s] = f[r] + g[c]
        BY <3>2, <4>1, <4>3
      <4>6. f[t] = f[s] + g[x]
        BY <3>2, <4>4, <4>5
      <4> QED BY <4>6 DEF t
    <3> QED BY <3>3, <3>4
  <2>3. n + 1 \in Nat
    BY <2>0
  <2> QED BY <2>2, <2>3
<1>5. P = Nat
  <2> HIDE DEF P
  <2>1. P \in SUBSET Nat
    BY DEF P
  <2> QED BY <1>3, <1>4, <2>1, NoLeast
<1>6. Cardinality(S) \in Nat
  BY FS_CardinalityType
<1>7. Small(S, Cardinality(S)) = SUBSET S
  BY FS_Subset DEF Small
<1> QED
  BY <1>5, <1>6, <1>7 DEF Inserts

\* What g says of the elements of a set, added up.
Total(g, S) == (CHOOSE f : Sums(f, g, S))[S]

Numbered(g, S) == IsFiniteSet(S) /\ \A x \in S : g[x] \in Int

LEMMA SumThere ==
  ASSUME NEW S, NEW g, Numbered(g, S)
  PROVE  \E f \in [SUBSET S -> Int] : Sums(f, g, S)
<1>1. IsFiniteSet(S) /\ [x \in S |-> g[x]] \in [S -> Int]
  BY DEF Numbered
<1>2. PICK d \in [S -> Int] : \A x \in S : d[x] = g[x]
  BY <1>1
<1>3. PICK f \in [SUBSET S -> Int] : Sums(f, d, S)
  BY <1>1, SumsExist
<1>4. \A s \in SUBSET S : s # {} => d[One(s)] = g[One(s)]
  BY <1>2 DEF One
<1> QED
  BY <1>3, <1>4 DEF Sums

LEMMA TotalIs ==
  ASSUME NEW S, NEW g, Numbered(g, S)
  PROVE  /\ Total(g, S) \in Int
         /\ \A f, d : Sums(f, d, S) /\ (\A x \in S : d[x] = g[x]) => \A T \in SUBSET S : Total(g, T) = f[T]
<1>1. ASSUME NEW T \in SUBSET S
      PROVE  IsFiniteSet(T) /\ (\E f \in [SUBSET T -> Int] : Sums(f, g, T)) /\ Sums(CHOOSE e : Sums(e, g, T), g, T)
  <2>1. Numbered(g, T) /\ IsFiniteSet(T)
    BY FS_Subset DEF Numbered
  <2>2. \E f \in [SUBSET T -> Int] : Sums(f, g, T)
    BY <2>1, SumThere
  <2> QED
    BY <2>1, <2>2
<1>2. ASSUME NEW T \in SUBSET S, NEW f, NEW d, Sums(f, d, S), \A x \in S : d[x] = g[x]
      PROVE  Total(g, T) = f[T]
  <2> DEFINE h == [s \in SUBSET T |-> f[s]]
             e == CHOOSE e : Sums(e, g, T)
  <2>1. Sums(h, d, T)
    <3>1. ASSUME NEW s \in SUBSET T PROVE h[s] = IF s = {} THEN 0 ELSE d[One(s)] + h[s \ {One(s)}]
      BY <1>2 DEF Sums
    <3> QED BY <3>1 DEF Sums
  <2>2. IsFiniteSet(T) /\ Sums(e, g, T)
    BY <1>1
  <2>3. \A x \in T : d[x] = g[x]
    BY <1>2
  <2>4. h[T] = e[T]
    <3> HIDE DEF h, e
    <3> QED BY <2>1, <2>2, <2>3, SumsAgree
  <2> QED
    BY <2>4 DEF Total
<1>3. PICK f \in [SUBSET S -> Int] : Sums(f, g, S)
  BY SumThere
<1>4. S \in SUBSET S
  OBVIOUS
<1> QED
  BY <1>2, <1>3, <1>4

\* A total knows the numbers and the elements, and nothing else.
LEMMA SameTotal ==
  ASSUME NEW S, NEW g, Numbered(g, S), NEW d, \A x \in S : d[x] = g[x]
  PROVE  Total(d, S) = Total(g, S)
<1>1. PICK f \in [SUBSET S -> Int] : Sums(f, g, S)
  BY SumThere
<1>2. Numbered(d, S) /\ S \in SUBSET S
  BY DEF Numbered
<1> QED
  BY <1>1, <1>2, TotalIs

LEMMA OneMore ==
  ASSUME NEW S, NEW g, Numbered(g, S), NEW x \in S
  PROVE  Total(g, S) = Total(g, S \ {x}) + g[x] /\ Total(g, S \ {x}) \in Int
<1>1. IsFiniteSet(S) /\ [y \in S |-> g[y]] \in [S -> Int]
  BY DEF Numbered
<1>2. PICK e \in [S -> Int] : \A y \in S : e[y] = g[y]
  BY <1>1
<1>3. PICK f \in [SUBSET S -> Int] : Sums(f, e, S)
  BY <1>1, SumsExist
<1>4. S \ {x} \in SUBSET S /\ x \in S \ (S \ {x}) /\ (S \ {x}) \cup {x} = S /\ S \in SUBSET S
  OBVIOUS
<1>5. Inserts(f, e, S)
  BY <1>1, <1>3, SumsInsert
<1>6. f[S] = f[S \ {x}] + e[x]
  BY <1>4, <1>5 DEF Inserts
<1>7. Total(g, S) = f[S] /\ Total(g, S \ {x}) = f[S \ {x}]
  BY <1>2, <1>3, <1>4, TotalIs
<1> QED
  BY <1>2, <1>3, <1>4, <1>6, <1>7

LEMMA NothingYet ==
  ASSUME NEW g
  PROVE  Total(g, {}) = 0
<1>1. Numbered(g, {}) /\ IsFiniteSet({})
  BY FS_EmptySet DEF Numbered
<1> DEFINE f == [s \in SUBSET {} |-> 0]
<1>2. Sums(f, g, {})
  BY DEF Sums
<1> QED
  BY <1>1, <1>2, TotalIs
-----------------------------------------------------------------------------
(* What the sums of the model are.                                         *)

Addends(all, K) == {D \in DOMAIN all : NormSet(D) = K}
Counts(all)     == [D \in DOMAIN all |-> all[D].count]

LEMMA CountIs ==
  ASSUME NEW all, NEW K, Numbered(Counts(all), Addends(all, K))
  PROVE  CountOf(all, K) = Total(Counts(all), Addends(all, K))
<1> DEFINE C == Addends(all, K)
           g == Counts(all)
           Adds(h) == h = [s \in SUBSET C |-> IF s = {} THEN 0 ELSE LET x == CHOOSE y \in s : TRUE IN all[x].count + h[s \ {x}]]
<1>1. \A h : Adds(h) <=> Sums(h, g, C)
  <2>1. ASSUME NEW h, NEW s \in SUBSET C, s # {} PROVE g[One(s)] = all[One(s)].count
    BY <2>1 DEF One, Addends, Counts
  <2> HIDE DEF C, g
  <2> QED BY <2>1 DEF Sums, One
<1>2. \E h : Adds(h)
  <2> HIDE DEF C, g, Adds
  <2> QED BY <1>1, SumThere DEF C, g
<1>3. Adds(CHOOSE h : Adds(h))
  BY <1>2
<1>4. CountOf(all, K) = (CHOOSE h : Adds(h))[C]
  BY DEF CountOf, MapThenSumSet, MapThenFoldSet, Addends
<1> HIDE DEF Adds
<1> QED
  BY <1>1, <1>3, <1>4, TotalIs

Terms(all)       == [K \in DOMAIN all |-> Clamp(Growth(all[K].given), 0, PerBondCap)]
BondsWith(all, a) == {K \in DOMAIN all : IsBond(K) /\ a \in K}

LEMMA TermIs ==
  ASSUME NEW all, NEW a, Numbered(Terms(all), BondsWith(all, a))
  PROVE  BondTerm(all, a) = Total(Terms(all), BondsWith(all, a))
<1> DEFINE C == BondsWith(all, a)
           g == Terms(all)
           Adds(h) == h = [s \in SUBSET C |-> IF s = {} THEN 0 ELSE
                             LET x == CHOOSE y \in s : TRUE IN Clamp(Growth(all[x].given), 0, PerBondCap) + h[s \ {x}]]
<1>1. \A h : Adds(h) <=> Sums(h, g, C)
  <2>1. ASSUME NEW h, NEW s \in SUBSET C, s # {} PROVE g[One(s)] = Clamp(Growth(all[One(s)].given), 0, PerBondCap)
    BY <2>1 DEF One, BondsWith, Terms
  <2> HIDE DEF C, g
  <2> QED BY <2>1 DEF Sums, One
<1>2. \E h : Adds(h)
  <2> HIDE DEF C, g, Adds
  <2> QED BY <1>1, SumThere DEF C, g
<1>3. Adds(CHOOSE h : Adds(h))
  BY <1>2
<1>4. BondTerm(all, a) = (CHOOSE h : Adds(h))[C]
  BY DEF BondTerm, MapThenSumSet, MapThenFoldSet, BondsWith
<1> HIDE DEF Adds
<1> QED
  BY <1>1, <1>3, <1>4, TotalIs

LEMMA GaveIs ==
  ASSUME NEW given \in SUBSET (Addresses \X Actions), NEW s
  PROVE  Gave(given, s) \in Int
<1> DEFINE C == {g \in given : g[1] = s}
           d == [g \in C |-> Delta[g[2]]]
           Adds(h) == h = [t \in SUBSET C |-> IF t = {} THEN 0 ELSE LET x == CHOOSE y \in t : TRUE IN Delta[x[2]] + h[t \ {x}]]
<1>1. Numbered(d, C)
  <2>1. IsFiniteSet(Addresses \X Actions)
    BY FS_Product, BondsAssumption
  <2>2. IsFiniteSet(C)
    BY <2>1, FS_Subset
  <2>3. \A g \in C : d[g] \in Int
    BY BondsAssumption
  <2> QED BY <2>2, <2>3 DEF Numbered
<1>2. \A h : Adds(h) <=> Sums(h, d, C)
  <2>1. ASSUME NEW h, NEW t \in SUBSET C, t # {} PROVE d[One(t)] = Delta[One(t)[2]]
    BY <2>1 DEF One
  <2> HIDE DEF C, d
  <2> QED BY <2>1 DEF Sums, One
<1>3. \E h : Adds(h)
  <2> HIDE DEF C, d, Adds
  <2> QED BY <1>1, <1>2, SumThere
<1>4. Adds(CHOOSE h : Adds(h))
  BY <1>3
<1>5. Gave(given, s) = (CHOOSE h : Adds(h))[C]
  BY DEF Gave, MapThenSumSet, MapThenFoldSet
<1> HIDE DEF Adds, C, d
<1>6. C \in SUBSET C
  OBVIOUS
<1> QED
  BY <1>1, <1>2, <1>4, <1>5, <1>6, TotalIs

LEMMA GrowthIs ==
  ASSUME NEW given \in SUBSET (Addresses \X Actions)
  PROVE  Growth(given) \in Int /\ (given = {} => Growth(given) = 0)
<1> DEFINE C == {g[1] : g \in given}
           d == [s \in C |-> Clamp(Gave(given, s), -PerSenderCap, PerSenderCap)]
           Adds(h) == h = [t \in SUBSET C |-> IF t = {} THEN 0 ELSE
                             LET x == CHOOSE y \in t : TRUE IN Clamp(Gave(given, x), -PerSenderCap, PerSenderCap) + h[t \ {x}]]
<1>1. Numbered(d, C)
  <2>1. C \in SUBSET Addresses /\ IsFiniteSet(Addresses)
    BY BondsAssumption
  <2>2. IsFiniteSet(C)
    BY <2>1, FS_Subset
  <2>3. \A s \in C : d[s] \in Int
    <3>1. PerSenderCap \in Nat
      BY BondsAssumption
    <3> QED BY <3>1, GaveIs DEF Clamp
  <2> QED BY <2>2, <2>3 DEF Numbered
<1>2. \A h : Adds(h) <=> Sums(h, d, C)
  <2>1. ASSUME NEW h, NEW t \in SUBSET C, t # {} PROVE d[One(t)] = Clamp(Gave(given, One(t)), -PerSenderCap, PerSenderCap)
    BY <2>1 DEF One
  <2> HIDE DEF C, d
  <2> QED BY <2>1 DEF Sums, One
<1>3. \E h : Adds(h)
  <2> HIDE DEF C, d, Adds
  <2> QED BY <1>1, <1>2, SumThere
<1>4. Adds(CHOOSE h : Adds(h))
  BY <1>3
<1>5. Growth(given) = (CHOOSE h : Adds(h))[C]
  BY DEF Growth, MapThenSumSet, MapThenFoldSet
<1>6. given = {} => C = {}
  OBVIOUS
<1> HIDE DEF Adds, C, d
<1>7. C \in SUBSET C
  OBVIOUS
<1>8. Growth(given) = Total(d, C)
  BY <1>1, <1>2, <1>4, <1>5, <1>7, TotalIs
<1> QED
  BY <1>1, <1>6, <1>8, TotalIs, NothingYet
-----------------------------------------------------------------------------
(* Types.                                                                  *)

Docs == [count : Nat, shippers : SUBSET Addresses, given : SUBSET (Addresses \X Actions), rebased : BOOLEAN]

Keys == (SUBSET Addresses) \ {{}}

BondTypes ==
  /\ DOMAIN docs \subseteq Keys /\ \A K \in DOMAIN docs : docs[K] \in Docs
  /\ DOMAIN todo \subseteq Keys /\ \A K \in DOMAIN todo : todo[K] \in Docs
  /\ moving \in [stage : {"idle", "found", "written"}, key : SUBSET Addresses, found : BOOLEAN, seen : Docs]
  /\ phase \in {"none", "bonds", "rizz"}

\* A write that is due is that of a ship, and what is moved is of the snapshot.
Shipments == [due : SUBSET SUBSET People, sender : People \cup {0}, members : SUBSET People]

BondsUnderWay ==
  /\ shipping \in [ShipHandlers -> Shipments]
  /\ \A h \in ShipHandlers : shipping[h].due # {} =>
       /\ shipping[h].sender \in People /\ shipping[h].members # {}
       /\ shipping[h].due \subseteq Writes(shipping[h].sender, shipping[h].members)
  /\ moving.stage # "idle" => moving.key \in DOMAIN todo
  /\ phase = "none" => moving.stage = "idle" /\ DOMAIN todo = {}

LEMMA AddressesNormed ==
  /\ People \subseteq Addresses
  /\ \A S \in SUBSET Addresses : NormSet(S) \in SUBSET People /\ (S # {} => NormSet(S) # {})
<1>1. People \subseteq Addresses
  BY DEF People
<1>2. ASSUME NEW S \in SUBSET Addresses PROVE NormSet(S) \in SUBSET People /\ (S # {} => NormSet(S) # {})
  <2>1. \A a \in S : Norm[a] \in People
    BY BondsAssumption
  <2> QED BY <2>1 DEF NormSet
<1> QED BY <1>1, <1>2

LEMMA FirstMembers ==
  ASSUME NEW S \in SUBSET People, S # {}, NEW n \in Nat \ {0}
  PROVE  FirstN(S, n) \in SUBSET People /\ FirstN(S, n) # {}
<1>1. S \subseteq Nat
  BY AddressesNormed, BondsAssumption
<1>2. PICK a \in S : \A b \in S : ~(b < a)
  BY <1>1, FirstOne
<1>3. {b \in S : b < a} = {}
  BY <1>2
<1>4. Cardinality({b \in S : b < a}) = 0
  BY <1>3, FS_EmptySet
<1>5. a \in FirstN(S, n)
  BY <1>4 DEF FirstN
<1> QED BY <1>5 DEF FirstN

LEMMA StoredTyped ==
  ASSUME BondTypes, NEW K \in Keys, NEW doc \in Docs, docs' = Stored(K, doc)
  PROVE  DOMAIN docs' \subseteq Keys /\ \A D \in DOMAIN docs' : docs'[D] \in Docs
BY DEF BondTypes, Stored

LEMMA DocTyped ==
  ASSUME BondTypes, NEW K
  PROVE  DocAt(K) \in Docs
BY DEF DocAt, NewDoc, BondTypes, Docs
\* What a step that leaves the migration alone keeps of the types.
LEMMA DocsTyped ==
  ASSUME BondTypes, MigrationKept,
         DOMAIN docs' \subseteq Keys, \A D \in DOMAIN docs' : docs'[D] \in Docs
  PROVE  BondTypes'
BY DEF BondTypes, MigrationKept

LEMMA MigrationStays ==
  ASSUME BondsUnderWay, MigrationKept, UNCHANGED shipping
  PROVE  BondsUnderWay'
BY DEF BondsUnderWay, MigrationKept

LEMMA ShipTyped ==
  ASSUME BondTypes, BondsUnderWay, NEW h \in ShipHandlers, NEW s \in People, NEW named \in SUBSET People,
         Ship(h, s, named)
  PROVE  BondTypes' /\ BondsUnderWay'
<1> DEFINE members == ShipMembers(s, named)
<1>1. /\ shipping' = [shipping EXCEPT ![h] =
                        [due |-> Writes(s, members), sender |-> s, members |-> members]]
      /\ UNCHANGED docs /\ MigrationKept
  BY DEF Ship
<1>2. members \in SUBSET People /\ members # {}
  BY AddressesNormed DEF ShipMembers, FirstN
<1> HIDE DEF members
<1>3. BondTypes'
  BY <1>1, DocsTyped DEF BondTypes
<1> DEFINE all == Writes(s, members)
           new == [due |-> all, sender |-> s, members |-> members]
<1>4. all \in SUBSET SUBSET People /\ shipping' = [shipping EXCEPT ![h] = new]
  BY <1>1, <1>2 DEF Writes
<1> HIDE DEF all
<1>5. new \in Shipments /\ new.due = all /\ new.sender = s /\ new.members = members
  BY <1>2, <1>4 DEF Shipments
<1> HIDE DEF new
<1>6. BondsUnderWay'
  BY <1>1, <1>2, <1>4, <1>5 DEF BondsUnderWay, MigrationKept, all
<1> QED BY <1>3, <1>6

LEMMA WritesEnd ==
  ASSUME BondTypes, BondsUnderWay, NEW h \in ShipHandlers, NEW keys, WriteDone(h, keys), MigrationKept
  PROVE  /\ BondsUnderWay' /\ shipping[h].sender \in People
         /\ shipping[h].members \in SUBSET People /\ shipping[h].members # {}
         /\ shipping[h].due \subseteq Writes(shipping[h].sender, shipping[h].members)
<1> DEFINE old  == shipping[h]
           rest == old.due \ keys
           left == IF rest = {} THEN NoShip ELSE [old EXCEPT !.due = rest]
<1>1. /\ keys # {} /\ keys \subseteq old.due
      /\ shipping' = [shipping EXCEPT ![h] = left]
  BY DEF WriteDone
<1>2. /\ old \in Shipments
      /\ old.sender \in People /\ old.members # {} /\ old.due \subseteq Writes(old.sender, old.members)
  BY <1>1 DEF BondsUnderWay
<1> HIDE DEF old
<1>3. /\ left \in Shipments
      /\ left.due # {} => /\ left.sender \in People /\ left.members # {}
                         /\ left.due \subseteq Writes(left.sender, left.members)
  <2>1. CASE rest = {}
    BY <2>1 DEF NoShip, Shipments
  <2>2. CASE rest # {}
    <3>1. left \in Shipments /\ left.due = rest /\ left.sender = old.sender /\ left.members = old.members
      BY <1>2, <2>2 DEF Shipments
    <3> HIDE DEF left
    <3> QED BY <1>2, <3>1
  <2> QED BY <2>1, <2>2
<1> HIDE DEF left
<1>4. BondsUnderWay'
  BY <1>1, <1>3 DEF BondsUnderWay, MigrationKept
<1>5. old.members \in SUBSET People
  BY <1>2 DEF Shipments
<1> QED BY <1>2, <1>4, <1>5 DEF old

\* A bond is no rizz document.
LEMMA RizzOfAMember ==
  ASSUME NEW m, NEW s, NEW members, {m} \in Writes(s, members), members # {m}
  PROVE  m \in members /\ m # s
BY DEF Writes

\* The rizz of a member that is stored.
LEMMA RizzStoredIs ==
  ASSUME BondTypes, BondsUnderWay, NEW h \in ShipHandlers, NEW m \in People, RizzStored(h, m)
  PROVE  /\ WriteDone(h, {{m}}) /\ MigrationKept /\ {m} \in Keys
         /\ UNCHANGED <<ships, reactions, faults, counted, cut>>
         /\ shipping[h].sender \in Addresses
         /\ \E doc \in Docs :
              /\ docs' = Stored({m}, doc)
              /\ doc.shippers = DocAt({m}).shippers \cup {shipping[h].sender}
              /\ doc.count = DocAt({m}).count /\ doc.given = DocAt({m}).given
              /\ doc.rebased = DocAt({m}).rebased
<1> DEFINE s   == shipping[h].sender
           old == DocAt({m})
           doc == [old EXCEPT !.shippers = @ \cup {s}]
<1>1. /\ WriteDone(h, {{m}}) /\ MigrationKept /\ UNCHANGED <<ships, reactions, faults, counted, cut>>
      /\ docs' = Stored({m}, doc)
  BY DEF RizzStored
<1>2. {m} \in Keys /\ s \in Addresses
  BY <1>1, WritesEnd, AddressesNormed DEF Keys
<1>3. old \in Docs
  BY DocTyped
<1> HIDE DEF s, old
<1>4. /\ doc \in Docs /\ doc.shippers = old.shippers \cup {s} /\ doc.count = old.count
      /\ doc.given = old.given /\ doc.rebased = old.rebased
  BY <1>2, <1>3 DEF Docs
<1> HIDE DEF doc
<1> QED BY <1>1, <1>2, <1>4 DEF s, old

LEMMA ShipsTyped ==
  ASSUME BondTypes, BondsUnderWay, NEW h \in ShipHandlers,
         ShipStored(h) \/ ShipWriteFails(h) \/ \E m \in People : RizzStored(h, m)
  PROVE  BondTypes' /\ BondsUnderWay'
<1>1. CASE ShipStored(h)
  <2> DEFINE K   == shipping[h].members
             doc == [DocAt(K) EXCEPT !.count = @ + 1, !.shippers = @ \cup {shipping[h].sender}]
  <2>1. WriteDone(h, {K}) /\ docs' = Stored(K, doc) /\ MigrationKept
    BY <1>1 DEF ShipStored
  <2>2. K \in Keys /\ shipping[h].sender \in Addresses /\ BondsUnderWay'
    BY <2>1, WritesEnd, AddressesNormed DEF Keys
  <2>3. doc \in Docs
    <3> DEFINE old == DocAt(K)
               s   == shipping[h].sender
    <3>1. old \in Docs /\ s \in Addresses
      BY <2>2, DocTyped
    <3> HIDE DEF old, s
    <3>2. old.count + 1 \in Nat /\ old.shippers \cup {s} \in SUBSET Addresses
      BY <3>1 DEF Docs
    <3>3. [old EXCEPT !.count = @ + 1, !.shippers = @ \cup {s}] \in Docs
      BY <3>1, <3>2 DEF Docs
    <3> QED BY <3>3 DEF old, s
  <2> HIDE DEF K, doc
  <2> QED BY <2>1, <2>2, <2>3, StoredTyped, DocsTyped
<1>2. ASSUME NEW m \in People, RizzStored(h, m) PROVE BondTypes' /\ BondsUnderWay'
  <2>1. /\ WriteDone(h, {{m}}) /\ MigrationKept /\ {m} \in Keys
        /\ \E doc \in Docs : docs' = Stored({m}, doc)
    BY <1>2, RizzStoredIs
  <2> QED BY <2>1, WritesEnd, StoredTyped, DocsTyped
<1>3. CASE ShipWriteFails(h)
  <2>1. PICK keys : WriteDone(h, keys)
    BY <1>3 DEF ShipWriteFails
  <2>2. MigrationKept /\ UNCHANGED docs
    BY <1>3 DEF ShipWriteFails
  <2> QED BY <2>1, <2>2, WritesEnd, DocsTyped DEF BondTypes
<1> QED BY <1>1, <1>2, <1>3

LEMMA ReactTyped ==
  ASSUME BondTypes, BondsUnderWay, NEW s \in People, NEW named \in SUBSET People, NEW action \in Actions,
         React(s, named, action)
  PROVE  BondTypes' /\ BondsUnderWay'
<1> DEFINE K == ReactMembers(s, named)
           doc == Reacted(DocAt(K), s, action)
<1>1. docs' = Stored(K, doc) /\ MigrationKept /\ UNCHANGED shipping
  BY DEF React
<1>2. K \in SUBSET People /\ K # {}
  <2>1. NormSet(named) \cup {s} \in SUBSET People
    BY AddressesNormed
  <2> QED BY <2>1, FirstMembers, BondsAssumption DEF ReactMembers
<1>3. K \in Keys
  BY <1>2, AddressesNormed DEF Keys
<1>4. doc \in Docs
  BY DocTyped, AddressesNormed DEF Reacted, Docs
<1> HIDE DEF K, doc
<1> QED BY <1>1, <1>3, <1>4, StoredTyped, DocsTyped, MigrationStays

LEMMA RankTyped ==
  ASSUME BondTypes, BondsUnderWay, NEW a \in People, Rank(a)
  PROVE  BondTypes' /\ BondsUnderWay'
<1>1. docs' = Stored({a}, NewDoc) /\ MigrationKept /\ UNCHANGED shipping
  BY DEF Rank
<1>2. {a} \in Keys /\ NewDoc \in Docs
  BY AddressesNormed DEF Keys, NewDoc, Docs
<1> QED BY <1>1, <1>2, StoredTyped, DocsTyped, MigrationStays
LEMMA RebaseTyped ==
  ASSUME BondTypes, NEW K \in DOMAIN todo, Rebase(K)
  PROVE  DOMAIN docs' \subseteq Keys /\ \A D \in DOMAIN docs' : docs'[D] \in Docs
<1>1. CASE Outdated(K)
  <2> DEFINE doc == [docs[K] EXCEPT !.rebased = TRUE,
                       !.shippers = IF IsBond(K) THEN @ ELSE NormSet(todo[K].shippers)]
  <2>1. docs' = [docs EXCEPT ![K] = doc]
    BY <1>1 DEF Rebase
  <2>2. todo[K] \in Docs
    BY DEF BondTypes
  <2>3. NormSet(todo[K].shippers) \in SUBSET Addresses
    BY <2>2, AddressesNormed DEF Docs
  <2>4. K \in DOMAIN docs => doc \in Docs
    BY <2>3 DEF BondTypes, Docs
  <2> HIDE DEF doc
  <2> QED BY <2>1, <2>4 DEF BondTypes
<1>2. CASE ~Outdated(K)
  BY <1>2 DEF Rebase, BondTypes
<1> QED BY <1>1, <1>2

LEMMA MovedTyped ==
  ASSUME BondTypes, moving.key \in DOMAIN todo
  PROVE  MovedDoc(moving.key) \in Docs /\ NormSet(moving.key) \in Keys
<1>1. todo[moving.key] \in Docs /\ moving.seen \in Docs /\ moving.key \in Keys
  BY DEF BondTypes
<1>2. NormSet(moving.key) \in Keys
  BY <1>1, AddressesNormed DEF Keys
<1>3. NormSet(moving.seen.shippers \cup todo[moving.key].shippers) \in SUBSET Addresses
  <2>1. moving.seen.shippers \cup todo[moving.key].shippers \in SUBSET Addresses
    BY <1>1 DEF Docs
  <2> QED BY <2>1, AddressesNormed
<1>4. /\ moving.seen.given \cup todo[moving.key].given \in SUBSET (Addresses \X Actions)
      /\ DocAt(NormSet(moving.key)).count + todo[moving.key].count \in Nat
  BY <1>1, DocTyped DEF Docs
<1>5. MovedDoc(moving.key) \in Docs
  BY <1>3, <1>4 DEF MovedDoc, MergedContribs, Docs
<1> QED BY <1>2, <1>5

LEMMA MoveTypes ==
  ASSUME BondTypes, BondsUnderWay, MoveDoc
  PROVE  BondTypes' /\ BondsUnderWay'
<1>1. /\ moving.stage = "found" /\ docs' = Stored(NormSet(moving.key), MovedDoc(moving.key))
      /\ moving' = [moving EXCEPT !.stage = "written"]
      /\ UNCHANGED <<phase, todo, shipping>>
  BY DEF MoveDoc, OthersKept
<1>2. moving.key \in DOMAIN todo
  BY <1>1 DEF BondsUnderWay
<1>3. DOMAIN docs' \subseteq Keys /\ \A D \in DOMAIN docs' : docs'[D] \in Docs
  BY <1>1, <1>2, MovedTyped, StoredTyped
<1>4. BondTypes'
  BY <1>1, <1>3 DEF BondTypes
<1>5. BondsUnderWay'
  BY <1>1, <1>2 DEF BondsUnderWay, BondTypes
<1> QED BY <1>4, <1>5

\* A migration that ends, whether it came to its end or not.
LEMMA EndTypes ==
  ASSUME BondTypes, BondsUnderWay, Ended, UNCHANGED docs,
         shipping' \in {shipping, [h \in ShipHandlers |-> NoShip]}
  PROVE  BondTypes' /\ BondsUnderWay'
<1>1. /\ phase' = "none" /\ moving' = NoMove /\ DOMAIN todo' = {}
  BY DEF Ended
<1>2. BondTypes'
  <2>1. moving' \in [stage : {"idle", "found", "written"}, key : SUBSET Addresses, found : BOOLEAN, seen : Docs]
    BY <1>1 DEF NoMove, NewDoc, Docs
  <2> QED BY <1>1, <2>1 DEF BondTypes
<1>3. NoShip \in Shipments /\ NoShip.due = {} /\ NoMove.stage = "idle"
  BY DEF NoShip, NoMove, Shipments
<1>4. BondsUnderWay'
  BY <1>1, <1>3 DEF BondsUnderWay
<1> QED BY <1>2, <1>4

LEMMA MigrationTyped ==
  ASSUME BondTypes, BondsUnderWay,
         Migrate \/ NextPhase \/ MoveDoc \/ DeleteOld \/ Collides \/ MigrationFails \/ BondsCrash
           \/ \E K \in DOMAIN todo : Rebase(K) \/ Skip(K) \/ Find(K)
  PROVE  BondTypes' /\ BondsUnderWay'
<1>1. CASE Migrate
  <2>1. /\ phase = "none" /\ phase' = "bonds" /\ todo' = Restrict(docs, BondKeys)
        /\ UNCHANGED <<docs, moving, shipping>>
    BY <1>1 DEF Migrate, OthersKept
  <2>2. moving.stage = "idle"
    BY <2>1 DEF BondsUnderWay
  <2> QED BY <2>1, <2>2 DEF BondTypes, BondsUnderWay, Restrict, BondKeys
<1>2. CASE NextPhase
  <2>1. /\ DOMAIN todo = {} /\ UNCHANGED <<docs, moving, shipping>>
        /\ \/ phase' = "rizz" /\ todo' = Restrict(docs, DOMAIN docs \ BondKeys)
           \/ phase' = "none" /\ UNCHANGED todo
    BY <1>2 DEF NextPhase, OthersKept
  <2>2. moving.stage = "idle"
    BY <2>1 DEF BondsUnderWay
  <2>3. BondTypes'
    BY <2>1 DEF BondTypes, Restrict
  <2>4. BondsUnderWay'
    BY <2>1, <2>2 DEF BondsUnderWay
  <2> QED BY <2>3, <2>4
<1>3. CASE DeleteOld
  <2>1. /\ docs' = Without(docs, moving.key) /\ todo' = Without(todo, moving.key)
        /\ moving' = NoMove /\ UNCHANGED <<phase, shipping>>
    BY <1>3 DEF DeleteOld, OthersKept
  <2>2. BondTypes'
    <3>1. moving' \in [stage : {"idle", "found", "written"}, key : SUBSET Addresses, found : BOOLEAN, seen : Docs]
      BY <2>1 DEF NoMove, NewDoc, Docs
    <3> QED BY <2>1, <3>1 DEF BondTypes, Without, Restrict
  <2>3. BondsUnderWay'
    BY <1>3, <2>1 DEF BondsUnderWay, NoMove, DeleteOld
  <2> QED BY <2>2, <2>3
<1>4. CASE Collides \/ MigrationFails \/ BondsCrash
  <2>1. Ended /\ UNCHANGED docs /\ shipping' \in {shipping, [h \in ShipHandlers |-> NoShip]}
    BY <1>4 DEF Collides, MigrationFails, BondsCrash, OthersKept
  <2> QED BY <2>1, EndTypes
<1>5. ASSUME NEW K \in DOMAIN todo, Rebase(K) PROVE BondTypes' /\ BondsUnderWay'
  <2>1. /\ moving = NoMove /\ todo' = Without(todo, K)
        /\ UNCHANGED <<phase, moving, shipping>>
    BY <1>5 DEF Rebase, OthersKept
  <2>2. BondTypes'
    BY <1>5, <2>1, RebaseTyped DEF BondTypes, Without, Restrict
  <2>3. phase # "none"
    BY DEF BondsUnderWay
  <2>4. BondsUnderWay'
    BY <2>1, <2>3 DEF BondsUnderWay, NoMove
  <2> QED BY <2>2, <2>4
<1>6. ASSUME NEW K \in DOMAIN todo, Skip(K) PROVE BondTypes' /\ BondsUnderWay'
  <2>1. /\ moving = NoMove /\ todo' = Without(todo, K)
        /\ UNCHANGED <<docs, phase, moving, shipping>>
    BY <1>6 DEF Skip, OthersKept
  <2> QED BY <2>1 DEF BondTypes, BondsUnderWay, NoMove, Without, Restrict
<1>7. ASSUME NEW K \in DOMAIN todo, Find(K) PROVE BondTypes' /\ BondsUnderWay'
  <2>1. /\ moving = NoMove
        /\ moving' = [stage |-> "found", key |-> K, found |-> NormSet(K) \in DOMAIN docs,
                      seen |-> DocAt(NormSet(K))]
        /\ UNCHANGED <<docs, phase, todo, shipping>>
    BY <1>7 DEF Find, OthersKept
  <2>2. K \in SUBSET Addresses /\ DocAt(NormSet(K)) \in Docs
    BY DocTyped DEF BondTypes, Keys
  <2>3. BondTypes'
    BY <2>1, <2>2 DEF BondTypes
  <2> QED BY <2>1, <2>3 DEF BondsUnderWay
<1> QED BY <1>1, <1>2, <1>3, <1>4, <1>5, <1>6, <1>7, MoveTypes

LEMMA BondsTyped ==
  ASSUME BondTypes, BondsUnderWay, [BondsNext]_bondVars
  PROVE  BondTypes' /\ BondsUnderWay'
<1>1. CASE UNCHANGED bondVars
  BY <1>1 DEF bondVars, BondTypes, BondsUnderWay
<1>2. \A s \in People : \A named \in SUBSET (People \ {s}) : named \in SUBSET People
  OBVIOUS
<1> QED BY <1>1, <1>2, ShipTyped, ReactTyped, ShipsTyped, RankTyped, MigrationTyped DEF BondsNext

LEMMA BondsStart ==
  ASSUME BondsInit
  PROVE  BondTypes /\ BondsUnderWay
<1>1. /\ docs = OldDocs /\ DOMAIN todo = {} /\ moving = NoMove /\ phase = "none"
      /\ shipping = [h \in ShipHandlers |-> NoShip]
  BY DEF BondsInit
<1>2. moving \in [stage : {"idle", "found", "written"}, key : SUBSET Addresses, found : BOOLEAN, seen : Docs]
  BY <1>1 DEF NoMove, NewDoc, Docs
<1>3. BondTypes
  BY <1>1, <1>2, BondsAssumption DEF BondTypes, Keys, Docs
<1>4. NoShip \in Shipments /\ NoShip.due = {} /\ NoMove.stage = "idle"
  BY DEF NoShip, NoMove, Shipments
<1>5. BondsUnderWay
  BY <1>1, <1>4 DEF BondsUnderWay
<1> QED BY <1>3, <1>5
-----------------------------------------------------------------------------
(* The migration.                                                          *)

Clean(K) == Skipped(K) \/ (NormSet(K) = K /\ docs[K].rebased)

\* What is left of the snapshot is still there, and as it was where its key changes.
SnapshotThere ==
  \A K \in DOMAIN todo :
    /\ K \in DOMAIN docs
    /\ NormSet(K) # K => docs[K] = todo[K]
    /\ ~overrun => NormSet(todo[K].shippers) \subseteq NormSet(docs[K].shippers)
    /\ phase = "bonds" <=> IsBond(K)
    /\ todo[K].rebased => docs[K].rebased

\* What is not left of the snapshot is as the migration leaves it.
CleansUp ==
  /\ migrated => \A K \in DOMAIN docs : Clean(K)
  /\ phase = "bonds" => \A K \in DOMAIN docs : IsBond(K) => Clean(K) \/ K \in DOMAIN todo
  /\ phase = "rizz" => \A K \in DOMAIN docs : Clean(K) \/ (~IsBond(K) /\ K \in DOMAIN todo)

\* A document is moved to another key, and what was found there is still there.
MovesOn ==
  LET K == moving.key
      N == NormSet(K)
  IN  /\ moving.stage = "idle" => moving = NoMove
      /\ moving.stage # "idle" => N # K /\ ~Skipped(K)
      /\ moving.stage = "found" =>
           /\ moving.found => N \in DOMAIN docs /\ moving.seen.shippers \subseteq docs[N].shippers
           /\ ~moving.found => moving.seen.shippers = {}
      /\ moving.stage = "written" =>
           /\ N \in DOMAIN docs /\ docs[N].rebased
           /\ NormSet(docs[K].shippers) \subseteq NormSet(docs[N].shippers)

MigrationInv == BondTypes /\ BondsUnderWay /\ SnapshotThere /\ CleansUp /\ MovesOn

\* What those who ship, react and rank do to the documents.
OnlyGrows ==
  /\ DOMAIN docs \subseteq DOMAIN docs'
  /\ \A K \in DOMAIN docs :
       /\ NormSet(K) # K => docs'[K] = docs[K]
       /\ docs[K].rebased => docs'[K].rebased
       /\ docs[K].shippers \subseteq docs'[K].shippers
  /\ \A K \in DOMAIN docs' \ DOMAIN docs : NormSet(K) = K /\ docs'[K].rebased

LEMMA NormedOnce ==
  /\ \A S \in SUBSET People : NormSet(S) = S
  /\ \A S \in SUBSET Addresses : NormSet(NormSet(S)) = NormSet(S)
  /\ \A S, T : S \subseteq T => NormSet(S) \subseteq NormSet(T)
  /\ \A S, T : NormSet(S \cup T) = NormSet(S) \cup NormSet(T)
<1>1. ASSUME NEW S \in SUBSET People PROVE NormSet(S) = S
  BY DEF NormSet, People
<1>2. \A S \in SUBSET Addresses : NormSet(NormSet(S)) = NormSet(S)
  BY <1>1, AddressesNormed
<1>3. \A S, T : S \subseteq T => NormSet(S) \subseteq NormSet(T)
  BY DEF NormSet
<1>4. \A S, T : NormSet(S \cup T) = NormSet(S) \cup NormSet(T)
  BY DEF NormSet
<1> QED BY <1>1, <1>2, <1>3, <1>4

LEMMA StoredGrows ==
  ASSUME BondTypes, NEW K \in SUBSET People, NEW doc \in Docs, docs' = Stored(K, doc),
         DocAt(K).shippers \subseteq doc.shippers, DocAt(K).rebased => doc.rebased
  PROVE  OnlyGrows
<1>1. NormSet(K) = K
  BY NormedOnce
<1>2. /\ DOMAIN docs' = DOMAIN docs \cup {K} /\ docs'[K] = doc
      /\ \A D \in DOMAIN docs : D # K => docs'[D] = docs[D]
  BY DEF Stored
<1>3. K \in DOMAIN docs => DocAt(K) = docs[K]
  BY DEF DocAt
<1>4. K \notin DOMAIN docs => doc.rebased
  BY DEF DocAt, NewDoc
<1> QED
  BY <1>1, <1>2, <1>3, <1>4 DEF OnlyGrows

\* A write of a ship that is stored.
LEMMA ShipStoredIs ==
  ASSUME BondTypes, BondsUnderWay, NEW h \in ShipHandlers, ShipStored(h)
  PROVE  \E doc \in Docs :
           /\ docs' = Stored(shipping[h].members, doc) /\ shipping[h].members \in Keys
           /\ doc.shippers = DocAt(shipping[h].members).shippers \cup {shipping[h].sender}
           /\ doc.count = DocAt(shipping[h].members).count + 1
           /\ doc.given = DocAt(shipping[h].members).given
           /\ doc.rebased = DocAt(shipping[h].members).rebased
<1> DEFINE K == shipping[h].members
           s == shipping[h].sender
           old == DocAt(K)
           doc == [old EXCEPT !.count = @ + 1, !.shippers = @ \cup {s}]
<1>1. WriteDone(h, {K}) /\ docs' = Stored(K, doc) /\ MigrationKept
  BY DEF ShipStored
<1>2. K \in Keys /\ s \in Addresses
  BY <1>1, WritesEnd, AddressesNormed DEF Keys
<1>3. old \in Docs
  BY DocTyped
<1> HIDE DEF K, s, old
<1>4. /\ doc \in Docs /\ doc.shippers = old.shippers \cup {s} /\ doc.count = old.count + 1
      /\ doc.given = old.given /\ doc.rebased = old.rebased
  <2>1. old.count + 1 \in Nat /\ old.shippers \cup {s} \in SUBSET Addresses
    BY <1>2, <1>3 DEF Docs
  <2> QED BY <1>3, <2>1 DEF Docs
<1> HIDE DEF doc
<1> QED BY <1>1, <1>2, <1>4 DEF K, s, old

LEMMA UsersGrow ==
  ASSUME BondTypes, BondsUnderWay,
         \/ \E s \in People : \E named \in SUBSET (People \ {s}) :
              \/ \E h \in ShipHandlers : Ship(h, s, named)
              \/ \E action \in Actions : React(s, named, action)
         \/ \E h \in ShipHandlers :
              ShipStored(h) \/ ShipWriteFails(h) \/ \E m \in People : RizzStored(h, m)
         \/ \E a \in People : Rank(a)
  PROVE  OnlyGrows /\ MigrationKept
<1>1. ASSUME UNCHANGED docs PROVE OnlyGrows
  BY <1>1 DEF OnlyGrows
<1>2. ASSUME NEW s \in People, NEW named \in SUBSET (People \ {s}), NEW h \in ShipHandlers, Ship(h, s, named)
      PROVE  OnlyGrows /\ MigrationKept
  BY <1>1, <1>2 DEF Ship
<1>3. ASSUME NEW s \in People, NEW named \in SUBSET (People \ {s}), NEW action \in Actions,
             React(s, named, action)
      PROVE  OnlyGrows /\ MigrationKept
  <2> DEFINE K   == ReactMembers(s, named)
             old == DocAt(K)
             doc == Reacted(old, s, action)
  <2>1. docs' = Stored(K, doc) /\ MigrationKept
    BY <1>3 DEF React
  <2>2. K \in SUBSET People
    <3>1. NormSet(named) \cup {s} \in SUBSET People
      BY AddressesNormed
    <3> QED BY <3>1 DEF ReactMembers, FirstN
  <2>3. old \in Docs /\ s \in Addresses
    BY DocTyped, AddressesNormed
  <2> HIDE DEF old
  <2>4. doc \in Docs /\ doc.shippers = old.shippers /\ doc.rebased = old.rebased
    BY <2>3 DEF Reacted, Docs
  <2> HIDE DEF doc, K
  <2> QED BY <2>1, <2>2, <2>4, StoredGrows DEF old
<1>4. ASSUME NEW h \in ShipHandlers, ShipStored(h) PROVE OnlyGrows /\ MigrationKept
  <2>1. WriteDone(h, {shipping[h].members}) /\ MigrationKept
    BY <1>4 DEF ShipStored
  <2>2. shipping[h].members \in SUBSET People
    BY <2>1, WritesEnd
  <2>3. PICK doc \in Docs :
           /\ docs' = Stored(shipping[h].members, doc)
           /\ doc.shippers = DocAt(shipping[h].members).shippers \cup {shipping[h].sender}
           /\ doc.rebased = DocAt(shipping[h].members).rebased
    BY <1>4, ShipStoredIs
  <2> QED BY <2>1, <2>2, <2>3, StoredGrows
<1>5. ASSUME NEW h \in ShipHandlers, NEW m \in People, RizzStored(h, m) PROVE OnlyGrows /\ MigrationKept
  <2>1. /\ MigrationKept
        /\ \E doc \in Docs : /\ docs' = Stored({m}, doc)
                             /\ doc.shippers = DocAt({m}).shippers \cup {shipping[h].sender}
                             /\ doc.rebased = DocAt({m}).rebased
    BY <1>5, RizzStoredIs
  <2>2. {m} \in SUBSET People
    OBVIOUS
  <2> QED BY <2>1, <2>2, StoredGrows
<1>6. ASSUME NEW h \in ShipHandlers, ShipWriteFails(h) PROVE OnlyGrows /\ MigrationKept
  BY <1>1, <1>6 DEF ShipWriteFails
<1>7. ASSUME NEW a \in People, Rank(a) PROVE OnlyGrows /\ MigrationKept
  <2>1. docs' = Stored({a}, NewDoc) /\ MigrationKept /\ {a} \notin DOMAIN docs
    BY <1>7 DEF Rank
  <2>2. NewDoc \in Docs /\ {a} \in SUBSET People /\ DocAt({a}) = NewDoc
    BY <2>1 DEF NewDoc, Docs, DocAt
  <2> QED BY <2>1, <2>2, StoredGrows
<1> QED BY <1>2, <1>3, <1>4, <1>5, <1>6, <1>7

LEMMA GrowthMigrates ==
  ASSUME MigrationInv, OnlyGrows, MigrationKept
  PROVE  SnapshotThere' /\ CleansUp' /\ MovesOn'
<1>1. UNCHANGED <<phase, todo, moving, migrated, overrun>>
  BY DEF MigrationKept
<1>2. SnapshotThere'
  <2>1. ASSUME NEW K \in DOMAIN todo, K \in DOMAIN docs,
               NormSet(todo[K].shippers) \subseteq NormSet(docs[K].shippers)
        PROVE  NormSet(todo[K].shippers) \subseteq NormSet(docs'[K].shippers)
    BY <2>1, NormedOnce DEF OnlyGrows
  <2> QED
    BY <1>1, <2>1 DEF MigrationInv, SnapshotThere, OnlyGrows
<1>3. CleansUp'
  <2>1. ASSUME NEW K \in DOMAIN docs, Clean(K) PROVE Clean(K)'
    BY <2>1 DEF Clean, OnlyGrows
  <2>2. ASSUME NEW K \in DOMAIN docs' \ DOMAIN docs PROVE Clean(K)'
    BY <2>2 DEF Clean, OnlyGrows
  <2> QED
    BY <1>1, <2>1, <2>2 DEF MigrationInv, CleansUp
<1>4. MovesOn'
  <2> DEFINE K == moving.key
             N == NormSet(K)
  <2>1. ASSUME moving.stage = "written"
        PROVE  N \in DOMAIN docs' /\ docs'[N].rebased /\ NormSet(docs'[K].shippers) \subseteq NormSet(docs'[N].shippers)
    <3>1. K \in DOMAIN docs /\ N # K
      BY <2>1 DEF MigrationInv, BondsUnderWay, SnapshotThere, MovesOn
    <3>2. N \in DOMAIN docs /\ docs[N].rebased /\ NormSet(docs[K].shippers) \subseteq NormSet(docs[N].shippers)
      BY <2>1 DEF MigrationInv, MovesOn
    <3>3. docs'[K] = docs[K]
      BY <3>1 DEF OnlyGrows
    <3>4. docs[N].shippers \subseteq docs'[N].shippers /\ docs'[N].rebased /\ N \in DOMAIN docs'
      BY <3>2 DEF OnlyGrows
    <3>5. NormSet(docs[N].shippers) \subseteq NormSet(docs'[N].shippers)
      BY <3>4, NormedOnce
    <3> QED BY <3>2, <3>3, <3>4, <3>5
  <2>2. ASSUME moving.stage = "found", moving.found PROVE N \in DOMAIN docs' /\ moving.seen.shippers \subseteq docs'[N].shippers
    BY <2>2 DEF MigrationInv, MovesOn, OnlyGrows
  <2> QED
    BY <1>1, <2>1, <2>2 DEF MigrationInv, MovesOn
<1> QED BY <1>2, <1>3, <1>4

LEMMA SnapshotTaken ==
  ASSUME MigrationInv, Migrate \/ NextPhase
  PROVE  SnapshotThere' /\ CleansUp' /\ MovesOn'
<1>1. DOMAIN todo = {} /\ moving = NoMove /\ moving.stage = "idle"
  <2>1. DOMAIN todo = {}
    BY DEF MigrationInv, BondsUnderWay, Migrate, NextPhase
  <2> QED BY <2>1 DEF MigrationInv, BondsUnderWay, MovesOn, BondTypes
<1>2. MovesOn'
  BY <1>1 DEF Migrate, NextPhase, MovesOn, NoMove
<1>3. CASE Migrate
  <2>1. /\ phase' = "bonds" /\ todo' = Restrict(docs, BondKeys) /\ UNCHANGED <<docs, migrated, overrun>>
    BY <1>3 DEF Migrate
  <2>2. /\ DOMAIN todo' = {K \in DOMAIN docs : IsBond(K)}
        /\ \A K \in DOMAIN todo' : todo'[K] = docs[K]
    BY <2>1 DEF Restrict, BondKeys
  <2>3. SnapshotThere'
    BY <2>1, <2>2 DEF SnapshotThere
  <2>4. CleansUp'
    BY <2>1, <2>2 DEF CleansUp, MigrationInv, Clean
  <2> QED BY <1>2, <2>3, <2>4
<1>4. CASE NextPhase /\ phase = "bonds"
  <2>1. /\ phase' = "rizz" /\ todo' = Restrict(docs, DOMAIN docs \ BondKeys) /\ UNCHANGED <<docs, migrated, overrun>>
    BY <1>4 DEF NextPhase
  <2>2. /\ DOMAIN todo' = {K \in DOMAIN docs : ~IsBond(K)}
        /\ \A K \in DOMAIN todo' : todo'[K] = docs[K]
    BY <2>1 DEF Restrict, BondKeys
  <2>3. SnapshotThere'
    BY <2>1, <2>2 DEF SnapshotThere
  <2>4. CleansUp'
    BY <1>1, <1>4, <2>1, <2>2 DEF CleansUp, MigrationInv, Clean
  <2> QED BY <1>2, <2>3, <2>4
<1>5. CASE NextPhase /\ phase = "rizz"
  <2>1. phase' = "none" /\ migrated' = TRUE /\ UNCHANGED <<docs, todo, overrun>>
    BY <1>5 DEF NextPhase
  <2>2. SnapshotThere'
    BY <1>1, <2>1 DEF SnapshotThere
  <2>3. CleansUp'
    BY <1>1, <1>5, <2>1 DEF CleansUp, MigrationInv, Clean
  <2> QED BY <1>2, <2>2, <2>3
<1> QED BY <1>3, <1>4, <1>5 DEF NextPhase

LEMMA MigrationEnds ==
  ASSUME MigrationInv, Ended, UNCHANGED <<docs, migrated, overrun>>
  PROVE  SnapshotThere' /\ CleansUp' /\ MovesOn'
<1>1. phase' = "none" /\ DOMAIN todo' = {} /\ moving' = NoMove
  BY DEF Ended
<1> QED
  BY <1>1 DEF MigrationInv, SnapshotThere, CleansUp, MovesOn, NoMove, Clean

LEMMA SkipMigrates ==
  ASSUME MigrationInv, NEW K \in DOMAIN todo, Skip(K) \/ Find(K)
  PROVE  SnapshotThere' /\ CleansUp' /\ MovesOn'
<1>1. CASE Skip(K)
  <2>1. /\ moving = NoMove /\ Skipped(K) /\ todo' = Without(todo, K)
        /\ UNCHANGED <<docs, phase, moving, migrated, overrun>>
    BY <1>1 DEF Skip
  <2>2. DOMAIN todo' = DOMAIN todo \ {K} /\ \A D \in DOMAIN todo' : todo'[D] = todo[D]
    BY <2>1 DEF Without, Restrict
  <2>3. SnapshotThere'
    BY <2>1, <2>2 DEF MigrationInv, SnapshotThere
  <2>4. CleansUp'
    BY <2>1, <2>2 DEF MigrationInv, CleansUp, Clean
  <2>5. MovesOn'
    BY <2>1 DEF MigrationInv, MovesOn, NoMove
  <2> QED BY <2>3, <2>4, <2>5
<1>2. CASE Find(K)
  <2> DEFINE N == NormSet(K)
             old == DocAt(N)
  <2>1. /\ moving = NoMove /\ N # K /\ ~Skipped(K)
        /\ moving' = [stage |-> "found", key |-> K, found |-> N \in DOMAIN docs, seen |-> old]
        /\ UNCHANGED <<docs, phase, todo, migrated, overrun>>
    BY <1>2 DEF Find
  <2>2. SnapshotThere'
    BY <2>1 DEF MigrationInv, SnapshotThere
  <2>3. CleansUp'
    BY <2>1 DEF MigrationInv, CleansUp, Clean
  <2>4. N \in DOMAIN docs => old.shippers \subseteq docs[N].shippers
    BY DEF DocAt
  <2>5. N \notin DOMAIN docs => old.shippers = {}
    BY DEF DocAt, NewDoc
  <2>6. MovesOn'
    <3> HIDE DEF old
    <3>1. moving'.stage = "found" /\ moving'.key = K /\ moving'.found = (N \in DOMAIN docs) /\ moving'.seen = old
      BY <2>1
    <3> QED BY <2>1, <2>4, <2>5, <3>1 DEF MovesOn
  <2> QED BY <2>2, <2>3, <2>6
<1> QED BY <1>1, <1>2

LEMMA RebaseMigrates ==
  ASSUME MigrationInv, NEW K \in DOMAIN todo, Rebase(K)
  PROVE  SnapshotThere' /\ CleansUp' /\ MovesOn'
<1>1. /\ moving = NoMove /\ NormSet(K) = K /\ todo' = Without(todo, K)
      /\ UNCHANGED <<phase, moving, migrated>>
  BY DEF Rebase
<1>2. DOMAIN todo' = DOMAIN todo \ {K} /\ \A D \in DOMAIN todo' : todo'[D] = todo[D]
  BY <1>1 DEF Without, Restrict
<1>3. /\ DOMAIN docs' = DOMAIN docs /\ \A D \in DOMAIN docs \ {K} : docs'[D] = docs[D]
      /\ docs'[K].rebased /\ (overrun => overrun')
  <2> DEFINE doc == [docs[K] EXCEPT !.rebased = TRUE,
                       !.shippers = IF IsBond(K) THEN @ ELSE NormSet(todo[K].shippers)]
  <2>1. K \in DOMAIN docs /\ docs[K] \in Docs /\ (todo[K].rebased => docs[K].rebased)
    BY DEF MigrationInv, SnapshotThere, BondTypes
  <2>2. CASE Outdated(K)
    <3>1. docs' = [docs EXCEPT ![K] = doc]
      BY <2>2 DEF Rebase
    <3>2. overrun => overrun'
      BY <2>2 DEF Rebase
    <3>3. doc.rebased
      BY <2>1 DEF Docs
    <3> HIDE DEF doc
    <3> QED BY <2>1, <3>1, <3>2, <3>3
  <2>3. CASE ~Outdated(K)
    <3>1. UNCHANGED <<docs, overrun>> /\ todo[K].rebased
      BY <2>3 DEF Rebase, Outdated
    <3> QED BY <2>1, <3>1
  <2> QED BY <2>2, <2>3
<1>4. SnapshotThere'
  BY <1>1, <1>2, <1>3 DEF MigrationInv, SnapshotThere
<1>5. CleansUp'
  <2>1. Clean(K)' /\ \A D \in DOMAIN docs \ {K} : Clean(D)' <=> Clean(D)
    BY <1>1, <1>3 DEF Clean
  <2> QED BY <1>1, <1>2, <1>3, <2>1 DEF MigrationInv, CleansUp
<1>6. MovesOn'
  BY <1>1 DEF MigrationInv, MovesOn, NoMove
<1> QED BY <1>4, <1>5, <1>6

\* What the move leaves under the new key.
LEMMA MovedIs ==
  ASSUME MigrationInv, MoveDoc
  PROVE  LET K == moving.key
             N == NormSet(K)
         IN  /\ K \in DOMAIN todo /\ K \in DOMAIN docs /\ K \in Keys /\ N \in Keys /\ N \in SUBSET People
             /\ N # K /\ ~Skipped(K) /\ NormSet(N) = N /\ docs[K] = todo[K]
             /\ DOMAIN docs' = DOMAIN docs \cup {N} /\ \A D \in DOMAIN docs \ {N} : docs'[D] = docs[D]
             /\ docs'[N] \in Docs /\ docs'[N].rebased /\ NormSet(docs'[N].shippers) = docs'[N].shippers
             /\ docs'[N].shippers = NormSet(moving.seen.shippers) \cup NormSet(docs[K].shippers)
             /\ docs'[N].count = DocAt(N).count + docs[K].count
             /\ (overrun => overrun')
             /\ (~overrun' => NormSet(DocAt(N).shippers) \subseteq docs'[N].shippers)
             /\ moving.stage = "found" /\ (moving.found \/ N \notin DOMAIN docs)
             /\ moving' = [moving EXCEPT !.stage = "written"] /\ UNCHANGED <<phase, todo, counted, migrated, cut, shipping>>
<1> DEFINE K == moving.key
           N == NormSet(K)
           doc == MovedDoc(K)
           kept == /\ NormSet(DocAt(N).shippers) \subseteq docs'[N].shippers
                   /\ DocAt(N).given \subseteq docs'[N].given
<1>1. /\ moving.stage = "found" /\ (moving.found \/ N \notin DOMAIN docs)
      /\ docs' = Stored(N, doc) /\ overrun' = (overrun \/ ~kept)
      /\ moving' = [moving EXCEPT !.stage = "written"]
      /\ UNCHANGED <<phase, todo, counted, migrated, cut, shipping>>
  BY DEF MoveDoc, OthersKept
<1>2. K \in DOMAIN todo /\ K \in DOMAIN docs /\ K \in Keys /\ docs[K] = todo[K] /\ N # K /\ ~Skipped(K)
  BY <1>1 DEF MigrationInv, BondTypes, BondsUnderWay, SnapshotThere, MovesOn
<1>3. N \in Keys /\ N \in SUBSET People /\ NormSet(N) = N
  BY <1>2, AddressesNormed, NormedOnce DEF Keys
<1>4. doc \in Docs
  BY <1>2, MovedTyped DEF MigrationInv
<1>5. /\ doc.rebased /\ doc.shippers = NormSet(moving.seen.shippers \cup todo[K].shippers)
      /\ doc.count = DocAt(N).count + todo[K].count
  BY DEF MovedDoc
<1>6. doc.shippers = NormSet(moving.seen.shippers) \cup NormSet(docs[K].shippers)
  BY <1>2, <1>5, NormedOnce
<1>7. NormSet(doc.shippers) = doc.shippers
  <2>1. moving.seen.shippers \cup todo[K].shippers \in SUBSET Addresses
    <3>1. moving.seen \in Docs /\ todo[K] \in Docs
      BY <1>2 DEF MigrationInv, BondTypes
    <3> QED BY <3>1 DEF Docs
  <2> QED BY <1>5, <2>1, NormedOnce
<1> HIDE DEF doc, N, K, kept
<1>8. /\ DOMAIN docs' = DOMAIN docs \cup {N} /\ \A D \in DOMAIN docs \ {N} : docs'[D] = docs[D]
      /\ docs'[N] = doc
  BY <1>1 DEF Stored
<1>9. overrun => overrun'
  BY <1>1
<1>10. ~overrun' => kept
  BY <1>1
<1>11. ~overrun' => NormSet(DocAt(N).shippers) \subseteq docs'[N].shippers
  BY <1>10 DEF kept
<1>12. doc.count = DocAt(N).count + docs[K].count
  BY <1>2, <1>5
<1> QED
  BY <1>1, <1>2, <1>3, <1>4, <1>5, <1>6, <1>7, <1>8, <1>9, <1>11, <1>12 DEF N, K

LEMMA MoveMigrates ==
  ASSUME MigrationInv, MoveDoc
  PROVE  SnapshotThere' /\ CleansUp' /\ MovesOn'
<1> DEFINE K == moving.key
           N == NormSet(K)
<1>1. /\ K \in DOMAIN todo /\ K \in DOMAIN docs
      /\ N # K /\ ~Skipped(K) /\ NormSet(N) = N
      /\ DOMAIN docs' = DOMAIN docs \cup {N} /\ \A D \in DOMAIN docs \ {N} : docs'[D] = docs[D]
      /\ docs'[N].rebased /\ NormSet(docs'[N].shippers) = docs'[N].shippers
      /\ docs'[N].shippers = NormSet(moving.seen.shippers) \cup NormSet(docs[K].shippers)
      /\ (overrun => overrun')
      /\ (~overrun' => NormSet(DocAt(N).shippers) \subseteq docs'[N].shippers)
      /\ moving' = [moving EXCEPT !.stage = "written"] /\ UNCHANGED <<phase, todo, migrated>>
  BY MovedIs
<1>2. moving'.stage = "written" /\ moving'.key = K
  BY <1>1 DEF MigrationInv, BondTypes
<1>3. N \in DOMAIN docs => DocAt(N) = docs[N]
  BY DEF DocAt
<1> HIDE DEF N, K
<1>4. SnapshotThere'
  <2>1. ASSUME NEW D \in DOMAIN todo, D # N
        PROVE  /\ D \in DOMAIN docs'
               /\ NormSet(D) # D => docs'[D] = todo[D]
               /\ ~overrun' => NormSet(todo[D].shippers) \subseteq NormSet(docs'[D].shippers)
               /\ phase = "bonds" <=> IsBond(D)
               /\ todo[D].rebased => docs'[D].rebased
    BY <1>1, <2>1 DEF MigrationInv, SnapshotThere
  <2>2. ASSUME N \in DOMAIN todo
        PROVE  ~overrun' => NormSet(todo[N].shippers) \subseteq NormSet(docs'[N].shippers)
    BY <1>1, <1>3, <2>2 DEF MigrationInv, SnapshotThere
  <2>3. N \in DOMAIN todo => (phase = "bonds" <=> IsBond(N))
    BY DEF MigrationInv, SnapshotThere
  <2> QED BY <1>1, <2>1, <2>2, <2>3 DEF SnapshotThere
<1>5. CleansUp'
  <2>1. \A D \in DOMAIN docs : Clean(D) => Clean(D)'
    BY <1>1 DEF Clean
  <2>2. \A D : D = N => Clean(D)'
    BY <1>1 DEF Clean
  <2> QED BY <1>1, <2>1, <2>2 DEF MigrationInv, CleansUp
<1>6. MovesOn'
  <2>1. NormSet(docs'[K].shippers) \subseteq NormSet(docs'[N].shippers)
    BY <1>1
  <2>2. moving'.stage = "written" /\ N \in DOMAIN docs'
    BY <1>1, <1>2
  <2> QED BY <1>1, <1>2, <2>1, <2>2 DEF MovesOn, N
<1> QED BY <1>4, <1>5, <1>6

LEMMA DeleteMigrates ==
  ASSUME MigrationInv, DeleteOld
  PROVE  SnapshotThere' /\ CleansUp' /\ MovesOn'
<1> DEFINE K == moving.key
<1>1. /\ docs' = Without(docs, K) /\ todo' = Without(todo, K)
      /\ moving' = NoMove /\ UNCHANGED <<phase, migrated, overrun>>
  BY DEF DeleteOld
<1>2. /\ DOMAIN docs' = DOMAIN docs \ {K} /\ \A D \in DOMAIN docs' : docs'[D] = docs[D]
      /\ DOMAIN todo' = DOMAIN todo \ {K} /\ \A D \in DOMAIN todo' : todo'[D] = todo[D]
  BY <1>1 DEF Without, Restrict
<1> HIDE DEF K
<1>3. SnapshotThere'
  BY <1>1, <1>2 DEF MigrationInv, SnapshotThere
<1>4. CleansUp'
  BY <1>1, <1>2 DEF MigrationInv, CleansUp, Clean
<1>5. MovesOn'
  BY <1>1 DEF MovesOn, NoMove
<1> QED BY <1>3, <1>4, <1>5

LEMMA MigrationHeld ==
  ASSUME MigrationInv, [BondsNext]_bondVars
  PROVE  MigrationInv'
<1>1. BondTypes' /\ BondsUnderWay'
  BY BondsTyped DEF MigrationInv
<1>2. CASE UNCHANGED bondVars
  <2>1. UNCHANGED <<docs, phase, todo, moving, migrated, overrun>>
    BY <1>2 DEF bondVars
  <2> QED BY <1>1, <2>1 DEF MigrationInv, SnapshotThere, CleansUp, MovesOn, Clean
<1>3. CASE Collides \/ MigrationFails \/ BondsCrash
  <2>1. Ended /\ UNCHANGED <<docs, migrated, overrun>>
    BY <1>3 DEF Collides, MigrationFails, BondsCrash
  <2> QED BY <1>1, <2>1, MigrationEnds DEF MigrationInv
<1>4. ASSUME OnlyGrows, MigrationKept PROVE MigrationInv'
  BY <1>1, <1>4, GrowthMigrates DEF MigrationInv
<1>5. CASE \/ \E s \in People : \E named \in SUBSET (People \ {s}) :
                \/ \E h \in ShipHandlers : Ship(h, s, named)
                \/ \E action \in Actions : React(s, named, action)
           \/ \E h \in ShipHandlers :
                ShipStored(h) \/ ShipWriteFails(h) \/ \E m \in People : RizzStored(h, m)
           \/ \E a \in People : Rank(a)
  BY <1>4, <1>5, UsersGrow DEF MigrationInv
<1>6. CASE Migrate \/ NextPhase
  BY <1>1, <1>6, SnapshotTaken DEF MigrationInv
<1>7. CASE MoveDoc
  BY <1>1, <1>7, MoveMigrates DEF MigrationInv
<1>8. CASE DeleteOld
  BY <1>1, <1>8, DeleteMigrates DEF MigrationInv
<1>9. ASSUME NEW K \in DOMAIN todo, Rebase(K) \/ Skip(K) \/ Find(K) PROVE MigrationInv'
  BY <1>1, <1>9, RebaseMigrates, SkipMigrates DEF MigrationInv
<1> QED BY <1>2, <1>3, <1>5, <1>6, <1>7, <1>8, <1>9 DEF BondsNext

LEMMA MigrationStarts ==
  ASSUME BondsInit
  PROVE  MigrationInv
<1>1. DOMAIN todo = {} /\ moving = NoMove /\ phase = "none" /\ migrated = FALSE
  BY DEF BondsInit
<1> QED BY <1>1, BondsStart DEF MigrationInv, SnapshotThere, CleansUp, MovesOn, NoMove
-----------------------------------------------------------------------------
(* What the bonds count.                                                   *)

Documents(all) == DOMAIN all \subseteq Keys /\ \A K \in DOMAIN all : all[K] \in Docs

\* What the document under D adds to the count of K.
Adds(all, D, K) == IF D \in DOMAIN all /\ NormSet(D) = K THEN all[D].count ELSE 0

LEMMA AddendsCounted ==
  ASSUME NEW all, Documents(all), NEW K
  PROVE  /\ Numbered(Counts(all), Addends(all, K)) /\ CountOf(all, K) \in Int
         /\ \A D : Numbered(Counts(all), Addends(all, K) \ {D})
<1>1. IsFiniteSet(SUBSET Addresses)
  BY BondsAssumption, FS_SUBSET
<1>2. Addends(all, K) \subseteq SUBSET Addresses
  BY DEF Addends, Documents, Keys
<1>3. IsFiniteSet(Addends(all, K))
  BY <1>1, <1>2, FS_Subset
<1>4. \A D \in Addends(all, K) : Counts(all)[D] \in Int
  BY DEF Addends, Counts, Documents, Docs
<1>5. ASSUME NEW S \in SUBSET Addends(all, K) PROVE Numbered(Counts(all), S)
  BY <1>3, <1>4, FS_Subset DEF Numbered
<1> QED
  BY <1>5, CountIs, TotalIs

\* One document aside, a count is the sum over the others and what that one adds.
LEMMA CountAround ==
  ASSUME NEW all, Documents(all), NEW K, NEW D
  PROVE  /\ CountOf(all, K) = Total(Counts(all), Addends(all, K) \ {D}) + Adds(all, D, K)
         /\ Total(Counts(all), Addends(all, K) \ {D}) \in Int
<1>1. /\ Numbered(Counts(all), Addends(all, K)) /\ CountOf(all, K) = Total(Counts(all), Addends(all, K))
      /\ CountOf(all, K) \in Int
  BY AddendsCounted, CountIs
<1>2. CASE D \in Addends(all, K)
  <2>1. Counts(all)[D] = all[D].count /\ Adds(all, D, K) = all[D].count
    BY <1>2 DEF Counts, Addends, Adds
  <2> QED BY <1>1, <1>2, <2>1, OneMore
<1>3. CASE D \notin Addends(all, K)
  <2> DEFINE r == Addends(all, K) \ {D}
             c == CountOf(all, K)
  <2>1. r = Addends(all, K) /\ Adds(all, D, K) = 0
    BY <1>3 DEF Addends, Adds
  <2> HIDE DEF r, c
  <2>2. c = Total(Counts(all), r) /\ c \in Int
    BY <1>1, <2>1 DEF c
  <2>3. c = Total(Counts(all), r) + Adds(all, D, K)
    BY <2>1, <2>2
  <2> QED BY <2>2, <2>3 DEF c, r
<1> QED BY <1>2, <1>3

\* When one document changes, comes or goes, a count changes by what that one adds.
LEMMA CountMoves ==
  ASSUME NEW all, NEW new, Documents(all), Documents(new), NEW D, NEW K,
         DOMAIN new \ {D} = DOMAIN all \ {D},
         \A E \in DOMAIN all \ {D} : new[E].count = all[E].count
  PROVE  /\ CountOf(new, K) = CountOf(all, K) + (Adds(new, D, K) - Adds(all, D, K))
         /\ CountOf(all, K) \in Int /\ CountOf(new, K) \in Int
<1> DEFINE R == Addends(all, K) \ {D}
           c == CountOf(all, K)
           n == CountOf(new, K)
<1>1. Addends(new, K) \ {D} = R
  BY DEF Addends
<1>2. Numbered(Counts(all), R)
  BY AddendsCounted
<1>3. \A x \in R : Counts(new)[x] = Counts(all)[x]
  BY DEF Addends, Counts
<1>4. Total(Counts(new), R) = Total(Counts(all), R)
  <2> HIDE DEF R
  <2> QED BY <1>2, <1>3, SameTotal
<1>5. c = Total(Counts(all), R) + Adds(all, D, K) /\ Total(Counts(all), R) \in Int
  BY CountAround
<1>6. n = Total(Counts(all), R) + Adds(new, D, K)
  BY <1>1, <1>4, CountAround
<1>7. Adds(all, D, K) \in Int /\ Adds(new, D, K) \in Int
  BY DEF Adds, Documents, Docs
<1> HIDE DEF R, c, n
<1>8. n = c + (Adds(new, D, K) - Adds(all, D, K)) /\ c \in Int /\ n \in Int
  BY <1>5, <1>6, <1>7
<1> QED BY <1>8 DEF c, n

\* What is counted under two keys between the two writes of a move.
BeingMoved(K) == IF moving.stage = "written" /\ NormSet(moving.key) = K THEN docs[moving.key].count ELSE 0

CountsHold ==
  /\ counted \in [PeopleKeys -> Int]
  /\ ~cut => \A K \in PeopleKeys : CountOf(docs, K) = counted[K] + BeingMoved(K)

LEMMA MovedCounts ==
  ASSUME MigrationInv
  PROVE  /\ Documents(docs)
         /\ moving.stage = "written" => moving.key \in DOMAIN docs /\ NormSet(moving.key) # moving.key
         /\ \A K : BeingMoved(K) \in Int
<1>1. Documents(docs)
  BY DEF MigrationInv, BondTypes, Documents
<1>2. moving.stage = "written" => moving.key \in DOMAIN docs /\ NormSet(moving.key) # moving.key
  BY DEF MigrationInv, BondsUnderWay, SnapshotThere, MovesOn
<1>3. \A K : BeingMoved(K) \in Int
  BY <1>1, <1>2 DEF BeingMoved, Documents, Docs
<1> QED BY <1>1, <1>2, <1>3

\* A step that adds nothing to any bond, the migration aside.
LEMMA NothingCounted ==
  ASSUME MigrationInv, MigrationInv', CountsHold, UNCHANGED <<moving, counted, cut>>,
         moving.stage = "written" => docs'[moving.key].count = docs[moving.key].count,
         \A K \in PeopleKeys : CountOf(docs', K) = CountOf(docs, K)
  PROVE  CountsHold'
<1>1. \A K : BeingMoved(K)' = BeingMoved(K)
  BY DEF BeingMoved
<1> QED BY <1>1 DEF CountsHold

\* A document that changes or comes without adding a ship.
LEMMA SameCounts ==
  ASSUME MigrationInv, MigrationInv', CountsHold, UNCHANGED <<moving, counted, cut>>,
         NEW D, DOMAIN docs' = DOMAIN docs \cup {D}, \A E \in DOMAIN docs \ {D} : docs'[E] = docs[E],
         docs'[D].count = DocAt(D).count
  PROVE  CountsHold'
<1>1. Documents(docs) /\ Documents(docs')
  BY MovedCounts DEF MigrationInv, BondTypes, Documents
<1>2. D \in DOMAIN docs => docs'[D].count = docs[D].count
  BY DEF DocAt
<1>3. D \notin DOMAIN docs => docs'[D].count = 0
  BY DEF DocAt, NewDoc
<1>4. ASSUME NEW K PROVE Adds(docs', D, K) = Adds(docs, D, K) /\ Adds(docs, D, K) \in Int
  BY <1>1, <1>2, <1>3 DEF Adds, Documents, Docs
<1>5. DOMAIN docs' \ {D} = DOMAIN docs \ {D} /\ \A E \in DOMAIN docs \ {D} : docs'[E].count = docs[E].count
  OBVIOUS
<1>6. ASSUME NEW K PROVE CountOf(docs', K) = CountOf(docs, K)
  <2> DEFINE c == CountOf(docs, K)
             n == CountOf(docs', K)
             a == Adds(docs, D, K)
             b == Adds(docs', D, K)
  <2>1. n = c + (b - a) /\ c \in Int
    BY <1>1, <1>5, CountMoves
  <2>2. b = a /\ a \in Int
    BY <1>4
  <2> HIDE DEF c, n, a, b
  <2>3. n = c
    BY <2>1, <2>2
  <2> QED BY <2>3 DEF c, n
<1>7. moving.stage = "written" => docs'[moving.key].count = docs[moving.key].count
  BY <1>2, MovedCounts
<1> QED BY <1>6, <1>7, NothingCounted

LEMMA NoBondOfOne ==
  \A m : ~IsBond({m}) /\ IsFiniteSet({m}) /\ Cardinality({m}) = 1
<1>1. ASSUME NEW m PROVE IsFiniteSet({m}) /\ Cardinality({m}) = 1
  BY FS_Singleton
<1>2. \A m : Cardinality({m}) = 1 => ~IsBond({m})
  BY DEF IsBond
<1> QED BY <1>1, <1>2

LEMMA ShipCounts ==
  ASSUME MigrationInv, MigrationInv', CountsHold, NEW h \in ShipHandlers, ShipStored(h)
  PROVE  CountsHold'
<1> DEFINE D == shipping[h].members
<1>1. /\ counted' = [counted EXCEPT ![D] = @ + 1] /\ UNCHANGED <<moving, cut>> /\ WriteDone(h, {D}) /\ MigrationKept
  BY DEF ShipStored, MigrationKept
<1>2. PICK doc \in Docs : docs' = Stored(D, doc) /\ doc.count = DocAt(D).count + 1
  BY ShipStoredIs DEF MigrationInv
<1>3. D \in SUBSET People /\ NormSet(D) = D
  BY <1>1, WritesEnd, NormedOnce DEF MigrationInv
<1>4. /\ DOMAIN docs' = DOMAIN docs \cup {D} /\ docs'[D] = doc
      /\ \A E \in DOMAIN docs \ {D} : docs'[E] = docs[E]
  BY <1>2 DEF Stored
<1>5. Documents(docs) /\ Documents(docs')
  BY MovedCounts DEF MigrationInv, BondTypes, Documents
<1>6. /\ D \in DOMAIN docs => DocAt(D) = docs[D]
      /\ D \notin DOMAIN docs => DocAt(D).count = 0
  BY DEF DocAt, NewDoc
<1> HIDE DEF D
<1>7. ASSUME NEW K \in PeopleKeys
      PROVE  Adds(docs', D, K) = Adds(docs, D, K) + (IF K = D THEN 1 ELSE 0) /\ Adds(docs, D, K) \in Int
  <2>1. D \in DOMAIN docs => docs[D].count \in Int
    BY <1>5 DEF Documents, Docs
  <2> QED BY <1>2, <1>3, <1>4, <1>6, <2>1 DEF Adds
<1>8. ASSUME NEW K PROVE BeingMoved(K)' = BeingMoved(K) /\ BeingMoved(K) \in Int
  <2>1. moving.stage = "written" => docs'[moving.key] = docs[moving.key]
    BY <1>3, <1>4, MovedCounts
  <2> QED BY <1>1, <2>1, MovedCounts DEF BeingMoved
<1>9. ASSUME ~cut', NEW K \in PeopleKeys PROVE CountOf(docs', K) = counted'[K] + BeingMoved(K)'
  <2> DEFINE c == CountOf(docs, K)
             n == CountOf(docs', K)
             a == Adds(docs, D, K)
             b == Adds(docs', D, K)
             one == IF K = D THEN 1 ELSE 0
             m == BeingMoved(K)
             k == counted[K]
  <2>1. n = c + (b - a) /\ c \in Int
    BY <1>4, <1>5, CountMoves
  <2>2. b = a + one /\ a \in Int
    BY <1>7
  <2>3. c = k + m /\ k \in Int /\ m \in Int
    BY <1>1, <1>8, <1>9 DEF CountsHold
  <2>4. counted'[K] = k + one
    BY <1>1, <2>3 DEF CountsHold
  <2>5. one \in Int
    OBVIOUS
  <2> HIDE DEF c, n, a, b, one, m, k
  <2>6. n = (k + one) + m
    BY <2>1, <2>2, <2>3, <2>5
  <2> QED BY <1>8, <2>4, <2>6 DEF n, m
<1>10. counted' \in [PeopleKeys -> Int]
  <2>1. counted \in [PeopleKeys -> Int]
    BY DEF CountsHold
  <2>2. D \in PeopleKeys => counted[D] + 1 \in Int
    BY <2>1
  <2> QED BY <1>1, <2>1, <2>2
<1> QED BY <1>9, <1>10 DEF CountsHold

LEMMA UsersCount ==
  ASSUME MigrationInv, MigrationInv', CountsHold,
         \/ \E s \in People : \E named \in SUBSET (People \ {s}) :
              \/ \E h \in ShipHandlers : Ship(h, s, named)
              \/ \E action \in Actions : React(s, named, action)
         \/ \E h \in ShipHandlers : ShipWriteFails(h) \/ \E m \in People : RizzStored(h, m)
         \/ \E a \in People : Rank(a)
  PROVE  CountsHold'
<1>1. ASSUME NEW s \in People, NEW named \in SUBSET (People \ {s}), NEW h \in ShipHandlers, Ship(h, s, named)
      PROVE  CountsHold'
  BY <1>1, NothingCounted DEF Ship, MigrationKept
<1>2. ASSUME NEW s \in People, NEW named \in SUBSET (People \ {s}), NEW action \in Actions,
             React(s, named, action)
      PROVE  CountsHold'
  <2> DEFINE D   == ReactMembers(s, named)
             old == DocAt(D)
             doc == Reacted(old, s, action)
  <2>1. docs' = Stored(D, doc) /\ UNCHANGED <<moving, counted, cut>>
    BY <1>2 DEF React, MigrationKept
  <2>2. old \in Docs
    BY DocTyped DEF MigrationInv
  <2> HIDE DEF old
  <2>3. doc.count = old.count
    BY <2>2 DEF Reacted, Docs
  <2> HIDE DEF doc, D
  <2>4. /\ DOMAIN docs' = DOMAIN docs \cup {D} /\ \A E \in DOMAIN docs \ {D} : docs'[E] = docs[E]
        /\ docs'[D].count = DocAt(D).count
    BY <2>1, <2>3 DEF Stored, old
  <2> QED BY <2>1, <2>4, SameCounts
<1>3. ASSUME NEW h \in ShipHandlers, NEW m \in People, RizzStored(h, m) PROVE CountsHold'
  <2>1. PICK doc \in Docs : docs' = Stored({m}, doc) /\ doc.count = DocAt({m}).count
    BY <1>3, RizzStoredIs DEF MigrationInv
  <2>2. UNCHANGED <<moving, counted, cut>>
    BY <1>3 DEF RizzStored, MigrationKept
  <2>3. /\ DOMAIN docs' = DOMAIN docs \cup {{m}} /\ \A E \in DOMAIN docs \ {{m}} : docs'[E] = docs[E]
        /\ docs'[{m}].count = DocAt({m}).count
    BY <2>1 DEF Stored
  <2> QED BY <2>2, <2>3, SameCounts
<1>4. ASSUME NEW h \in ShipHandlers, ShipWriteFails(h) PROVE CountsHold'
  BY <1>4 DEF ShipWriteFails, CountsHold
<1>5. ASSUME NEW a \in People, Rank(a) PROVE CountsHold'
  <2>1. docs' = Stored({a}, NewDoc) /\ {a} \notin DOMAIN docs /\ UNCHANGED <<moving, counted, cut>>
    BY <1>5 DEF Rank, MigrationKept
  <2>2. /\ DOMAIN docs' = DOMAIN docs \cup {{a}} /\ \A E \in DOMAIN docs \ {{a}} : docs'[E] = docs[E]
        /\ docs'[{a}].count = DocAt({a}).count
    BY <2>1 DEF Stored, DocAt
  <2> QED BY <2>1, <2>2, SameCounts
<1> QED BY <1>1, <1>2, <1>3, <1>4, <1>5

LEMMA MoveCounts ==
  ASSUME MigrationInv, MigrationInv', CountsHold, MoveDoc
  PROVE  CountsHold'
<1> DEFINE D == moving.key
           N == NormSet(D)
<1>1. /\ D \in DOMAIN docs /\ N # D /\ NormSet(N) = N
      /\ DOMAIN docs' = DOMAIN docs \cup {N} /\ \A E \in DOMAIN docs \ {N} : docs'[E] = docs[E]
      /\ docs'[N].count = DocAt(N).count + docs[D].count
      /\ moving.stage = "found" /\ moving' = [moving EXCEPT !.stage = "written"]
      /\ UNCHANGED <<counted, cut>>
  BY MovedIs
<1>2. moving'.stage = "written" /\ moving'.key = D
  BY <1>1 DEF MigrationInv, BondTypes
<1>3. Documents(docs) /\ Documents(docs')
  BY MovedCounts DEF MigrationInv, BondTypes, Documents
<1>4. /\ N \in DOMAIN docs => DocAt(N) = docs[N]
      /\ N \notin DOMAIN docs => DocAt(N).count = 0
  BY DEF DocAt, NewDoc
<1>5. ASSUME NEW K PROVE BeingMoved(K) = 0 /\ BeingMoved(K)' = (IF N = K THEN docs[D].count ELSE 0)
  BY <1>1, <1>2 DEF BeingMoved
<1> HIDE DEF N, D
<1>6. ASSUME NEW K
      PROVE  Adds(docs', N, K) = Adds(docs, N, K) + (IF N = K THEN docs[D].count ELSE 0) /\ Adds(docs, N, K) \in Int
  <2>1. docs[D].count \in Int /\ (N \in DOMAIN docs => docs[N].count \in Int)
    BY <1>1, <1>3 DEF Documents, Docs
  <2> QED BY <1>1, <1>4, <2>1 DEF Adds
<1>7. ASSUME ~cut', NEW K \in PeopleKeys PROVE CountOf(docs', K) = counted'[K] + BeingMoved(K)'
  <2> DEFINE c == CountOf(docs, K)
             n == CountOf(docs', K)
             a == Adds(docs, N, K)
             b == Adds(docs', N, K)
             m == IF N = K THEN docs[D].count ELSE 0
             k == counted[K]
  <2>1. n = c + (b - a) /\ c \in Int
    <3>1. DOMAIN docs' \ {N} = DOMAIN docs \ {N} /\ \A E \in DOMAIN docs \ {N} : docs'[E].count = docs[E].count
      BY <1>1
    <3> QED BY <1>3, <3>1, CountMoves
  <2>2. b = a + m /\ a \in Int
    BY <1>6
  <2>3. c = k + 0 /\ k \in Int
    BY <1>1, <1>5, <1>7 DEF CountsHold
  <2>4. m \in Int
    BY <1>1, <1>3 DEF Documents, Docs
  <2>5. counted'[K] = k /\ BeingMoved(K)' = m
    BY <1>1, <1>5
  <2> HIDE DEF c, n, a, b, m, k
  <2>6. n = k + m
    BY <2>1, <2>2, <2>3, <2>4
  <2> QED BY <2>5, <2>6 DEF n
<1> QED BY <1>1, <1>7 DEF CountsHold

LEMMA DeleteCounts ==
  ASSUME MigrationInv, MigrationInv', CountsHold, DeleteOld
  PROVE  CountsHold'
<1> DEFINE D == moving.key
<1>1. /\ moving.stage = "written" /\ docs' = Without(docs, D) /\ moving' = NoMove /\ UNCHANGED <<counted, cut>>
  BY DEF DeleteOld
<1>2. DOMAIN docs' = DOMAIN docs \ {D} /\ \A E \in DOMAIN docs' : docs'[E] = docs[E]
  BY <1>1 DEF Without, Restrict
<1>3. Documents(docs) /\ Documents(docs') /\ D \in DOMAIN docs
  BY <1>1, MovedCounts DEF MigrationInv, BondTypes, Documents
<1>4. ASSUME NEW K
      PROVE  BeingMoved(K)' = 0 /\ Adds(docs, D, K) = BeingMoved(K) /\ Adds(docs', D, K) = 0 /\ BeingMoved(K) \in Int
  BY <1>1, <1>2, <1>3, MovedCounts DEF BeingMoved, Adds, NoMove
<1> HIDE DEF D
<1>5. ASSUME ~cut', NEW K \in PeopleKeys PROVE CountOf(docs', K) = counted'[K] + BeingMoved(K)'
  <2> DEFINE c == CountOf(docs, K)
             n == CountOf(docs', K)
             a == Adds(docs, D, K)
             b == Adds(docs', D, K)
             m == BeingMoved(K)
             k == counted[K]
  <2>1. n = c + (b - a) /\ c \in Int
    BY <1>2, <1>3, CountMoves
  <2>2. b = 0 /\ a = m /\ m \in Int
    BY <1>4
  <2>3. c = k + m /\ k \in Int
    BY <1>1, <1>5 DEF CountsHold
  <2>4. counted'[K] = k /\ BeingMoved(K)' = 0
    BY <1>1, <1>4
  <2> HIDE DEF c, n, a, b, m, k
  <2>5. n = k + 0
    BY <2>1, <2>2, <2>3
  <2> QED BY <2>4, <2>5 DEF n
<1> QED BY <1>1, <1>5 DEF CountsHold

LEMMA RebaseCounts ==
  ASSUME MigrationInv, MigrationInv', CountsHold, NEW K \in DOMAIN todo, Rebase(K)
  PROVE  CountsHold'
<1>1. K \in DOMAIN docs /\ docs[K] \in Docs /\ DocAt(K) = docs[K]
  BY DEF MigrationInv, SnapshotThere, BondTypes, DocAt
<1>2. UNCHANGED <<moving, counted, cut>>
  BY DEF Rebase
<1>3. DOMAIN docs' = DOMAIN docs /\ (\A E \in DOMAIN docs \ {K} : docs'[E] = docs[E]) /\ docs'[K].count = docs[K].count
  <2> DEFINE doc == [docs[K] EXCEPT !.rebased = TRUE,
                       !.shippers = IF IsBond(K) THEN @ ELSE NormSet(todo[K].shippers)]
  <2>1. CASE Outdated(K)
    <3>1. docs' = [docs EXCEPT ![K] = doc]
      BY <2>1 DEF Rebase
    <3>2. doc.count = docs[K].count
      BY <1>1 DEF Docs
    <3> HIDE DEF doc
    <3> QED BY <1>1, <3>1, <3>2
  <2>2. CASE ~Outdated(K)
    BY <2>2 DEF Rebase
  <2> QED BY <2>1, <2>2
<1> QED BY <1>1, <1>2, <1>3, SameCounts

LEMMA CountsHeld ==
  ASSUME MigrationInv, CountsHold, [BondsNext]_bondVars
  PROVE  CountsHold'
<1>0. MigrationInv'
  BY MigrationHeld
<1>1. CASE UNCHANGED bondVars
  BY <1>1 DEF bondVars, CountsHold, BeingMoved
<1>2. ASSUME UNCHANGED <<docs, counted, cut>>, moving.stage # "written", moving'.stage # "written" PROVE CountsHold'
  BY <1>2 DEF CountsHold, BeingMoved
<1>3. ASSUME UNCHANGED counted, cut' PROVE CountsHold'
  BY <1>3 DEF CountsHold
<1>4. CASE Migrate \/ NextPhase \/ Collides
  <2>1. moving.stage # "written"
    <3>1. CASE Collides
      BY <3>1 DEF Collides
    <3>2. CASE Migrate \/ NextPhase
      BY <3>2 DEF Migrate, NextPhase, MigrationInv, BondsUnderWay
    <3> QED BY <1>4, <3>1, <3>2
  <2>2. moving'.stage # "written" /\ UNCHANGED <<docs, counted, cut>>
    BY <1>4, <2>1 DEF Migrate, NextPhase, Collides, Ended, NoMove
  <2> QED BY <1>2, <2>1, <2>2
<1>5. CASE MigrationFails \/ BondsCrash
  <2>1. Ended /\ UNCHANGED <<docs, counted>> /\ (cut \/ moving.stage = "written" => cut') /\ (~cut' => ~cut)
    BY <1>5 DEF MigrationFails, BondsCrash
  <2>2. moving'.stage # "written"
    BY <2>1 DEF Ended, NoMove
  <2>3. CASE cut'
    BY <1>3, <2>1, <2>3
  <2>4. CASE ~cut'
    BY <2>1, <2>2, <2>4 DEF CountsHold, BeingMoved
  <2> QED BY <2>3, <2>4
<1>6. ASSUME NEW K \in DOMAIN todo, Skip(K) \/ Find(K) PROVE CountsHold'
  <2>1. moving = NoMove /\ moving'.stage # "written" /\ UNCHANGED <<docs, counted, cut>>
    BY <1>6 DEF Skip, Find, NoMove
  <2> QED BY <1>2, <2>1 DEF NoMove
<1> QED
  BY <1>0, <1>1, <1>4, <1>5, <1>6, UsersCount, ShipCounts, MoveCounts, DeleteCounts, RebaseCounts DEF BondsNext

LEMMA CountsStart ==
  ASSUME BondsInit
  PROVE  CountsHold
<1>1. /\ docs = OldDocs /\ counted = [K \in PeopleKeys |-> CountOf(OldDocs, K)] /\ moving = NoMove
  BY DEF BondsInit
<1>2. Documents(OldDocs)
  BY BondsAssumption DEF Documents, Keys, Docs
<1>3. \A K : CountOf(OldDocs, K) \in Int /\ BeingMoved(K) = 0
  BY <1>1, <1>2, AddendsCounted DEF BeingMoved, NoMove
<1>4. ASSUME NEW K \in PeopleKeys PROVE CountOf(docs, K) = counted[K] + BeingMoved(K)
  <2> DEFINE c == CountOf(OldDocs, K)
  <2>1. c \in Int /\ counted[K] = c /\ BeingMoved(K) = 0 /\ CountOf(docs, K) = c
    BY <1>1, <1>3
  <2> HIDE DEF c
  <2> QED BY <2>1
<1> QED BY <1>1, <1>3, <1>4 DEF CountsHold

\* Between the two writes of a move a bond is counted in both places, and otherwise once.
LEMMA CountsAreRight ==
  ASSUME MigrationInv, CountsHold
  PROVE  MigrationHolds
<1>1. CountsAddUp
  <2>1. ASSUME ~cut, NEW K \in PeopleKeys, ~(moving.stage = "written" /\ NormSet(moving.key) = K)
        PROVE  CountOf(docs, K) = counted[K]
    <3> DEFINE c == CountOf(docs, K)
    <3>1. c = counted[K] + 0 /\ counted[K] \in Int
      BY <2>1 DEF CountsHold, BeingMoved
    <3> HIDE DEF c
    <3>2. c = counted[K]
      BY <3>1
    <3> QED BY <3>2 DEF c
  <2> QED BY <2>1 DEF CountsAddUp
<1>2. MigrationCompletes
  BY DEF MigrationInv, CleansUp, Clean, MigrationCompletes
<1> QED BY <1>1, <1>2 DEF MigrationHolds
-----------------------------------------------------------------------------
(* Bonds and rizz.                                                         *)

\* Of the bond and the rizz of m, which a ship by s writes, only that one is left.
Waiting(h, write, s, m) ==
  /\ shipping[h].sender = s /\ m \in shipping[h].members
  /\ \/ write = "bond" /\ shipping[h].members \in shipping[h].due /\ {m} \notin shipping[h].due
     \/ write = "rizz" /\ {m} \in shipping[h].due /\ shipping[h].members \notin shipping[h].due

ShipsBonds ==
  \A h \in ShipHandlers :
    shipping[h].due # {} => IsBond(shipping[h].members) /\ shipping[h].sender \in shipping[h].members

\* Where the two collections differ, a write is under way.
SharedNews(s, m) ==
  /\ HasShipped(docs, s, m) => IsOutsider(docs, s, m) \/ \E h \in ShipHandlers : Waiting(h, "rizz", s, m)
  /\ IsOutsider(docs, s, m) => HasShipped(docs, s, m) \/ \E h \in ShipHandlers : Waiting(h, "bond", s, m)
  /\ \A h \in ShipHandlers : Waiting(h, "bond", s, m) => IsOutsider(docs, s, m)
  /\ \A h \in ShipHandlers : Waiting(h, "rizz", s, m) => HasShipped(docs, s, m)

Agreed == ~cut /\ ~overrun => \A s, m \in People : s # m => SharedNews(s, m)

\* Whatever ships one collection says there were, the other says so too.
Covers(all, new) ==
  \A K \in DOMAIN all : \A x \in NormSet(all[K].shippers) :
    \E D \in DOMAIN new : (IsBond(D) <=> IsBond(K)) /\ NormSet(D) = NormSet(K) /\ x \in NormSet(new[D].shippers)

LEMMA CoversShips ==
  ASSUME NEW all, NEW new, Covers(all, new), NEW s, NEW m
  PROVE  /\ HasShipped(all, s, m) => HasShipped(new, s, m)
         /\ IsOutsider(all, s, m) => IsOutsider(new, s, m)
BY DEF Covers, HasShipped, IsOutsider

LEMMA NoNewsIsAgreed ==
  ASSUME Agreed, UNCHANGED shipping, ~cut' => ~cut, ~overrun' => ~overrun,
         ~cut' /\ ~overrun' => Covers(docs, docs') /\ Covers(docs', docs)
  PROVE  Agreed'
<1>1. ASSUME ~cut', ~overrun', NEW s \in People, NEW m \in People, s # m
      PROVE  SharedNews(s, m)'
  <2>1. SharedNews(s, m)
    BY <1>1 DEF Agreed
  <2>2. /\ HasShipped(docs', s, m) <=> HasShipped(docs, s, m)
        /\ IsOutsider(docs', s, m) <=> IsOutsider(docs, s, m)
    BY <1>1, CoversShips
  <2>3. \A h \in ShipHandlers : \A w : Waiting(h, w, s, m)' <=> Waiting(h, w, s, m)
    BY DEF Waiting
  <2> QED BY <2>1, <2>2, <2>3 DEF SharedNews
<1> QED BY <1>1 DEF Agreed

LEMMA SameCovers ==
  ASSUME NEW all
  PROVE  Covers(all, all)
BY DEF Covers

\* A document written with the shippers it had.
LEMMA StoredCovers ==
  ASSUME NEW D, DOMAIN docs' = DOMAIN docs \cup {D}, \A E \in DOMAIN docs \ {D} : docs'[E] = docs[E],
         NormSet(docs'[D].shippers) = NormSet(DocAt(D).shippers)
  PROVE  Covers(docs, docs') /\ Covers(docs', docs)
<1>1. D \in DOMAIN docs => DocAt(D) = docs[D]
  BY DEF DocAt
<1>2. D \notin DOMAIN docs => NormSet(docs'[D].shippers) = {}
  <2>1. D \notin DOMAIN docs => NormSet(DocAt(D).shippers) = NormSet({})
    BY DEF DocAt, NewDoc
  <2>2. NormSet({}) = {}
    BY DEF NormSet
  <2> QED BY <2>1, <2>2
<1>3. \A E \in DOMAIN docs : E \in DOMAIN docs' /\ NormSet(docs'[E].shippers) = NormSet(docs[E].shippers)
  BY <1>1
<1>4. \A E \in DOMAIN docs' : E \in DOMAIN docs \/ NormSet(docs'[E].shippers) = {}
  BY <1>2
<1> QED BY <1>3, <1>4 DEF Covers

LEMMA SameBondness ==
  ASSUME NEW K \in Keys, ~Skipped(K)
  PROVE  IsBond(NormSet(K)) <=> IsBond(K)
<1>1. CASE IsBond(K)
  BY <1>1 DEF Skipped
<1>2. CASE ~IsBond(K)
  <2>1. IsFiniteSet(K) /\ Cardinality(K) \in Nat /\ Cardinality(K) # 0
    BY BondsAssumption, FS_Subset, FS_EmptySet, FS_CardinalityType DEF Keys
  <2>2. Cardinality(K) = 1
    BY <1>2, <2>1 DEF IsBond
  <2>3. PICK x : K = {x}
    BY <2>1, <2>2, FS_Singleton
  <2>4. NormSet(K) = {Norm[x]}
    BY <2>3 DEF NormSet
  <2> QED BY <1>2, <2>4, NoBondOfOne
<1> QED BY <1>1, <1>2

LEMMA MoveCovers ==
  ASSUME MigrationInv, MoveDoc, ~overrun'
  PROVE  Covers(docs, docs') /\ Covers(docs', docs)
<1> DEFINE K == moving.key
           N == NormSet(K)
<1>1. /\ K \in DOMAIN docs /\ K \in Keys /\ N # K /\ ~Skipped(K) /\ NormSet(N) = N
      /\ DOMAIN docs' = DOMAIN docs \cup {N} /\ \A D \in DOMAIN docs \ {N} : docs'[D] = docs[D]
      /\ NormSet(docs'[N].shippers) = docs'[N].shippers
      /\ docs'[N].shippers = NormSet(moving.seen.shippers) \cup NormSet(docs[K].shippers)
      /\ NormSet(DocAt(N).shippers) \subseteq docs'[N].shippers
      /\ moving.stage = "found" /\ (moving.found \/ N \notin DOMAIN docs)
  BY MovedIs
<1>2. IsBond(N) <=> IsBond(K)
  BY <1>1, SameBondness
<1>3. N \in DOMAIN docs => DocAt(N) = docs[N]
  BY DEF DocAt
<1>4. /\ moving.found => N \in DOMAIN docs /\ NormSet(moving.seen.shippers) \subseteq NormSet(docs[N].shippers)
      /\ ~moving.found => NormSet(moving.seen.shippers) = {}
  <2>1. /\ moving.found => N \in DOMAIN docs /\ moving.seen.shippers \subseteq docs[N].shippers
        /\ ~moving.found => moving.seen.shippers = {}
    BY <1>1 DEF MigrationInv, MovesOn
  <2>2. NormSet({}) = {}
    BY DEF NormSet
  <2> QED BY <2>1, <2>2, NormedOnce
<1> HIDE DEF N, K
<1>5. Covers(docs, docs')
  BY <1>1, <1>3 DEF Covers
<1>6. Covers(docs', docs)
  <2>1. ASSUME NEW x \in NormSet(docs'[N].shippers)
        PROVE  \E D \in DOMAIN docs : (IsBond(D) <=> IsBond(N)) /\ NormSet(D) = NormSet(N) /\ x \in NormSet(docs[D].shippers)
    <3>1. CASE x \in NormSet(docs[K].shippers)
      BY <1>1, <1>2, <3>1 DEF N
    <3>2. CASE x \in NormSet(moving.seen.shippers)
      BY <1>1, <1>4, <3>2
    <3> QED BY <1>1, <2>1, <3>1, <3>2
  <2>2. ASSUME NEW E \in DOMAIN docs', E # N, NEW x \in NormSet(docs'[E].shippers)
        PROVE  E \in DOMAIN docs /\ x \in NormSet(docs[E].shippers)
    BY <1>1, <2>2
  <2> QED BY <2>1, <2>2 DEF Covers
<1> QED BY <1>5, <1>6

LEMMA DeleteCovers ==
  ASSUME MigrationInv, DeleteOld
  PROVE  Covers(docs, docs') /\ Covers(docs', docs)
<1> DEFINE K == moving.key
           N == NormSet(K)
<1>1. moving.stage = "written" /\ docs' = Without(docs, K)
  BY DEF DeleteOld
<1>2. DOMAIN docs' = DOMAIN docs \ {K} /\ \A E \in DOMAIN docs' : docs'[E] = docs[E]
  BY <1>1 DEF Without, Restrict
<1>3. /\ K \in Keys /\ N # K /\ ~Skipped(K)
      /\ N \in DOMAIN docs /\ NormSet(docs[K].shippers) \subseteq NormSet(docs[N].shippers)
  BY <1>1 DEF MigrationInv, BondTypes, BondsUnderWay, MovesOn
<1>4. (IsBond(N) <=> IsBond(K)) /\ NormSet(N) = NormSet(K)
  BY <1>3, SameBondness, NormedOnce DEF Keys
<1> HIDE DEF N, K
<1>5. Covers(docs, docs')
  BY <1>2, <1>3, <1>4 DEF Covers
<1>6. Covers(docs', docs)
  BY <1>2 DEF Covers
<1> QED BY <1>5, <1>6

LEMMA RebaseCovers ==
  ASSUME MigrationInv, NEW K \in DOMAIN todo, Rebase(K), ~overrun'
  PROVE  Covers(docs, docs') /\ Covers(docs', docs)
<1>1. CASE ~Outdated(K)
  BY <1>1, SameCovers DEF Rebase
<1>2. CASE Outdated(K)
  <2> DEFINE doc == [docs[K] EXCEPT !.rebased = TRUE,
                       !.shippers = IF IsBond(K) THEN @ ELSE NormSet(todo[K].shippers)]
  <2>1. /\ docs' = [docs EXCEPT ![K] = doc]
        /\ overrun' = (overrun \/ ~(NormSet(docs[K].shippers) \subseteq NormSet(doc.shippers)))
    BY <1>2 DEF Rebase
  <2>2. K \in DOMAIN docs /\ docs[K] \in Docs /\ todo[K] \in Docs /\ DocAt(K) = docs[K]
    BY DEF MigrationInv, SnapshotThere, BondTypes, DocAt
  <2>3. doc.shippers = IF IsBond(K) THEN docs[K].shippers ELSE NormSet(todo[K].shippers)
    BY <2>2 DEF Docs
  <2> HIDE DEF doc
  <2>4. ~overrun /\ NormSet(docs[K].shippers) \subseteq NormSet(doc.shippers)
    BY <2>1
  <2>5. NormSet(todo[K].shippers) \subseteq NormSet(docs[K].shippers)
    BY <2>4 DEF MigrationInv, SnapshotThere
  <2>6. NormSet(NormSet(todo[K].shippers)) = NormSet(todo[K].shippers)
    BY <2>2, NormedOnce DEF Docs
  <2>7. NormSet(doc.shippers) = NormSet(docs[K].shippers)
    BY <2>3, <2>4, <2>5, <2>6
  <2>8. DOMAIN docs' = DOMAIN docs /\ (\A E \in DOMAIN docs \ {K} : docs'[E] = docs[E]) /\ docs'[K] = doc
    BY <2>1, <2>2
  <2> QED BY <2>2, <2>7, <2>8, StoredCovers
<1> QED BY <1>1, <1>2

\* As long as nothing of a ship is stored, its bond and its rizz are both due.
LEMMA AllDue ==
  ASSUME NEW s, NEW m, NEW members, s # m, m \in members
  PROVE  members \in Writes(s, members) /\ {m} \in Writes(s, members)
BY DEF Writes

LEMMA BondStays ==
  ASSUME BondsUnderWay, ShipsBonds, NEW h \in ShipHandlers, NEW keys, WriteDone(h, keys)
  PROVE  /\ ShipsBonds' /\ IsBond(shipping[h].members) /\ shipping[h].sender \in shipping[h].members
         /\ keys \subseteq shipping[h].due
         /\ \A g \in ShipHandlers \ {h} : shipping'[g] = shipping[g]
         /\ shipping'[h].due = shipping[h].due \ keys
         /\ shipping'[h].due # {} => /\ shipping'[h].sender = shipping[h].sender
                                     /\ shipping'[h].members = shipping[h].members
<1> DEFINE old  == shipping[h]
           rest == old.due \ keys
           left == IF rest = {} THEN NoShip ELSE [old EXCEPT !.due = rest]
<1>1. /\ keys # {} /\ keys \subseteq old.due /\ shipping' = [shipping EXCEPT ![h] = left]
      /\ shipping \in [ShipHandlers -> Shipments]
  BY DEF WriteDone, BondsUnderWay
<1>2. IsBond(old.members) /\ old.sender \in old.members
  BY <1>1 DEF ShipsBonds
<1>3. /\ left.due = rest
      /\ rest # {} => left.sender = old.sender /\ left.members = old.members
  <2>1. old \in Shipments
    BY <1>1
  <2> HIDE DEF old
  <2> QED BY <2>1 DEF NoShip, Shipments
<1> HIDE DEF left
<1>4. shipping'[h] = left /\ \A g \in ShipHandlers \ {h} : shipping'[g] = shipping[g]
  BY <1>1
<1>5. ShipsBonds'
  BY <1>2, <1>3, <1>4 DEF ShipsBonds
<1> QED BY <1>1, <1>2, <1>3, <1>4, <1>5

\* The bond of a ship is stored.
LEMMA ShipNews ==
  ASSUME MigrationInv, ShipsBonds, Agreed, NEW h \in ShipHandlers, ShipStored(h)
  PROVE  Agreed' /\ ShipsBonds'
<1> DEFINE K   == shipping[h].members
           by  == shipping[h].sender
           old == shipping[h].due
<1>1. WriteDone(h, {K}) /\ MigrationKept /\ UNCHANGED cut
  BY DEF ShipStored
<1>2. /\ ShipsBonds' /\ IsBond(K) /\ by \in K /\ K \in old
      /\ \A g \in ShipHandlers \ {h} : shipping'[g] = shipping[g]
      /\ shipping'[h].due = old \ {K}
      /\ shipping'[h].due # {} => shipping'[h].sender = by /\ shipping'[h].members = K
  BY <1>1, BondStays DEF MigrationInv
<1>3. K \in SUBSET People /\ by \in People
  BY <1>1, WritesEnd DEF MigrationInv
<1>4. PICK doc \in Docs : docs' = Stored(K, doc) /\ doc.shippers = DocAt(K).shippers \cup {by}
  BY ShipStoredIs DEF MigrationInv
<1> HIDE DEF K, by, old
<1>5. NormSet(K) = K /\ NormSet(doc.shippers) = NormSet(DocAt(K).shippers) \cup {by}
  <2>1. NormSet({by}) = {by}
    BY <1>3, NormedOnce
  <2> QED BY <1>3, <1>4, <2>1, NormedOnce
<1>6. /\ DOMAIN docs' = DOMAIN docs \cup {K} /\ docs'[K] = doc
      /\ \A D \in DOMAIN docs \ {K} : docs'[D] = docs[D]
  BY <1>4 DEF Stored
<1>7. ASSUME NEW s, NEW m
      PROVE  /\ HasShipped(docs', s, m) <=> HasShipped(docs, s, m) \/ (s = by /\ m \in K)
             /\ IsOutsider(docs', s, m) <=> IsOutsider(docs, s, m)
  <2>1. K \in DOMAIN docs => DocAt(K) = docs[K]
    BY DEF DocAt
  <2>2. K \notin DOMAIN docs => NormSet(doc.shippers) = {by}
    <3>1. K \notin DOMAIN docs => NormSet(DocAt(K).shippers) = NormSet({})
      BY DEF DocAt, NewDoc
    <3>2. NormSet({}) = {}
      BY DEF NormSet
    <3> QED BY <1>5, <3>1, <3>2
  <2>3. K \in DOMAIN docs => NormSet(doc.shippers) = NormSet(docs[K].shippers) \cup {by}
    BY <1>5, <2>1
  <2>4. IsOutsider(docs', s, m) <=> IsOutsider(docs, s, m)
    BY <1>2, <1>6 DEF IsOutsider
  <2>5. HasShipped(docs, s, m) => HasShipped(docs', s, m)
    BY <1>6, <2>3 DEF HasShipped
  <2>6. s = by /\ m \in K => HasShipped(docs', s, m)
    BY <1>2, <1>5, <1>6 DEF HasShipped
  <2>7. HasShipped(docs', s, m) => HasShipped(docs, s, m) \/ (s = by /\ m \in K)
    BY <1>2, <1>5, <1>6, <2>2, <2>3 DEF HasShipped
  <2> QED BY <2>4, <2>5, <2>6, <2>7
<1>8. ASSUME ~cut', ~overrun', NEW s \in People, NEW m \in People, s # m
      PROVE  SharedNews(s, m)'
  <2>1. SharedNews(s, m)
    BY <1>1, <1>8 DEF Agreed, MigrationKept
  <2>2. ASSUME NEW g \in ShipHandlers \ {h}, NEW w PROVE Waiting(g, w, s, m)' <=> Waiting(g, w, s, m)
    BY <1>2 DEF Waiting
  <2>3. K # {m}
    BY <1>2, NoBondOfOne
  <2>4. Waiting(h, "bond", s, m) => s = by /\ m \in K /\ {m} \notin old
    BY DEF Waiting, old, by, K
  <2>5. s = by /\ m \in K /\ {m} \notin old => Waiting(h, "bond", s, m)
    BY <1>2 DEF Waiting, old, by, K
  <2>11. ~Waiting(h, "bond", s, m)' /\ ~Waiting(h, "rizz", s, m)
    BY <1>2 DEF Waiting, old, by, K
  <2>12. ASSUME Waiting(h, "rizz", s, m)' PROVE s = by /\ m \in K /\ {m} \in old
    <3>1. {m} \in shipping'[h].due /\ shipping'[h].sender = s /\ m \in shipping'[h].members
      BY <2>12 DEF Waiting
    <3> QED BY <1>2, <3>1
  <2>13. ASSUME s = by, m \in K, {m} \in old PROVE Waiting(h, "rizz", s, m)'
    <3>1. {m} \in shipping'[h].due /\ K \notin shipping'[h].due
      BY <1>2, <2>3, <2>13
    <3>2. shipping'[h].sender = by /\ shipping'[h].members = K
      BY <1>2, <3>1
    <3> QED BY <2>13, <3>1, <3>2 DEF Waiting
  <2>6. ASSUME s = by, m \in K
        PROVE  HasShipped(docs', s, m) /\ (IsOutsider(docs', s, m) \/ Waiting(h, "rizz", s, m)')
    BY <1>7, <2>1, <2>5, <2>6, <2>13 DEF SharedNews
  <2>7. ASSUME HasShipped(docs', s, m)
        PROVE  IsOutsider(docs', s, m) \/ \E g \in ShipHandlers : Waiting(g, "rizz", s, m)'
    <3>1. CASE s = by /\ m \in K
      BY <2>6, <3>1
    <3>2. CASE HasShipped(docs, s, m)
      BY <1>7, <2>1, <2>2, <2>11, <3>2 DEF SharedNews
    <3> QED BY <1>7, <2>7, <3>1, <3>2
  <2>8. ASSUME IsOutsider(docs', s, m)
        PROVE  HasShipped(docs', s, m) \/ \E g \in ShipHandlers : Waiting(g, "bond", s, m)'
    <3>1. HasShipped(docs, s, m) \/ \E g \in ShipHandlers : Waiting(g, "bond", s, m)
      BY <1>7, <2>1, <2>8 DEF SharedNews
    <3> QED BY <1>7, <2>2, <2>4, <3>1
  <2>9. ASSUME NEW g \in ShipHandlers, Waiting(g, "bond", s, m)' PROVE IsOutsider(docs', s, m)
    BY <1>7, <2>1, <2>2, <2>11, <2>9 DEF SharedNews
  <2>10. ASSUME NEW g \in ShipHandlers, Waiting(g, "rizz", s, m)' PROVE HasShipped(docs', s, m)
    BY <1>7, <2>1, <2>2, <2>12, <2>10 DEF SharedNews
  <2> QED BY <2>7, <2>8, <2>9, <2>10 DEF SharedNews
<1> QED BY <1>2, <1>8 DEF Agreed

\* The rizz of a ship is stored.
LEMMA RizzNews ==
  ASSUME MigrationInv, ShipsBonds, Agreed, NEW h \in ShipHandlers, NEW n \in People, RizzStored(h, n)
  PROVE  Agreed' /\ ShipsBonds'
<1> DEFINE K   == shipping[h].members
           by  == shipping[h].sender
           old == shipping[h].due
<1>1. WriteDone(h, {{n}}) /\ MigrationKept /\ UNCHANGED cut
  BY RizzStoredIs DEF MigrationInv
<1>2. /\ ShipsBonds' /\ IsBond(K) /\ by \in K /\ {n} \in old
      /\ \A g \in ShipHandlers \ {h} : shipping'[g] = shipping[g]
      /\ shipping'[h].due = old \ {{n}}
      /\ shipping'[h].due # {} => shipping'[h].sender = by /\ shipping'[h].members = K
  BY <1>1, BondStays DEF MigrationInv
<1>3. K \in SUBSET People /\ by \in People /\ old \subseteq Writes(by, K)
  BY <1>1, WritesEnd DEF MigrationInv
<1>4. PICK doc \in Docs : docs' = Stored({n}, doc) /\ doc.shippers = DocAt({n}).shippers \cup {by}
  BY RizzStoredIs DEF MigrationInv
<1> HIDE DEF K, by, old
<1>5. n \in K /\ n # by /\ ~IsBond({n}) /\ K # {n}
  <2>1. ~IsBond({n}) /\ K # {n}
    BY <1>2, NoBondOfOne
  <2>2. {n} \in Writes(by, K)
    BY <1>2, <1>3
  <2> QED BY <2>1, <2>2, RizzOfAMember
<1>6. NormSet({n}) = {n} /\ NormSet(doc.shippers) = NormSet(DocAt({n}).shippers) \cup {by}
  <2>1. NormSet({by}) = {by} /\ NormSet({n}) = {n}
    BY <1>3, NormedOnce
  <2> DEFINE was == DocAt({n}).shippers
  <2>2. NormSet(was \cup {by}) = NormSet(was) \cup NormSet({by})
    BY DEF NormSet
  <2> HIDE DEF was
  <2>3. doc.shippers = was \cup {by}
    BY <1>4 DEF was
  <2> QED BY <2>1, <2>2, <2>3 DEF was
<1>7. /\ DOMAIN docs' = DOMAIN docs \cup {{n}} /\ docs'[{n}] = doc
      /\ \A D \in DOMAIN docs \ {{n}} : docs'[D] = docs[D]
  BY <1>4 DEF Stored
<1>8. ASSUME NEW s, NEW m
      PROVE  /\ HasShipped(docs', s, m) <=> HasShipped(docs, s, m)
             /\ IsOutsider(docs', s, m) <=> IsOutsider(docs, s, m) \/ (s = by /\ m = n)
  <2>1. {n} \in DOMAIN docs => NormSet(doc.shippers) = NormSet(docs[{n}].shippers) \cup {by}
    BY <1>6 DEF DocAt
  <2>2. {n} \notin DOMAIN docs => NormSet(doc.shippers) = {by}
    <3>1. {n} \notin DOMAIN docs => NormSet(DocAt({n}).shippers) = NormSet({})
      BY DEF DocAt, NewDoc
    <3>2. NormSet({}) = {}
      BY DEF NormSet
    <3> QED BY <1>6, <3>1, <3>2
  <2>3. HasShipped(docs', s, m) <=> HasShipped(docs, s, m)
    BY <1>5, <1>7 DEF HasShipped
  <2>4. IsOutsider(docs, s, m) => IsOutsider(docs', s, m)
    BY <1>7, <2>1 DEF IsOutsider
  <2>5. s = by /\ m = n => IsOutsider(docs', s, m)
    BY <1>5, <1>6, <1>7 DEF IsOutsider
  <2>6. ASSUME NEW D \in DOMAIN docs', ~IsBond(D), NormSet(D) = {m}, s \in NormSet(docs'[D].shippers)
        PROVE  IsOutsider(docs, s, m) \/ (s = by /\ m = n)
    <3>1. CASE D = {n}
      <4>1. m = n /\ s \in NormSet(doc.shippers)
        BY <1>6, <1>7, <2>6, <3>1
      <4>2. CASE {n} \in DOMAIN docs
        BY <2>1, <2>6, <3>1, <4>1, <4>2 DEF IsOutsider
      <4>3. CASE {n} \notin DOMAIN docs
        BY <2>2, <4>1, <4>3
      <4> QED BY <4>2, <4>3
    <3>2. CASE D # {n}
      BY <1>7, <2>6, <3>2 DEF IsOutsider
    <3> QED BY <3>1, <3>2
  <2>7. IsOutsider(docs', s, m) => IsOutsider(docs, s, m) \/ (s = by /\ m = n)
    BY <2>6 DEF IsOutsider
  <2> QED BY <2>3, <2>4, <2>5, <2>7
<1>9. ASSUME ~cut', ~overrun', NEW s \in People, NEW m \in People, s # m
      PROVE  SharedNews(s, m)'
  <2>1. SharedNews(s, m)
    BY <1>1, <1>9 DEF Agreed, MigrationKept
  <2>2. ASSUME NEW g \in ShipHandlers \ {h}, NEW w PROVE Waiting(g, w, s, m)' <=> Waiting(g, w, s, m)
    BY <1>2 DEF Waiting
  <2>3. CASE m # n
    <3>1. {m} # {n}
      BY <2>3
    <3>2. /\ {m} \in shipping'[h].due <=> {m} \in old
          /\ K \in shipping'[h].due <=> K \in old
      BY <1>2, <1>5, <3>1
    <3>3. \A w : Waiting(h, w, s, m)' <=> Waiting(h, w, s, m)
      <4>1. CASE shipping'[h].due # {}
        BY <1>2, <3>2, <4>1 DEF Waiting, old, by, K
      <4>2. CASE shipping'[h].due = {}
        BY <3>2, <4>2 DEF Waiting, old, by, K
      <4> QED BY <4>1, <4>2
    <3>4. \A g \in ShipHandlers : \A w : Waiting(g, w, s, m)' <=> Waiting(g, w, s, m)
      BY <2>2, <3>3
    <3>5. /\ HasShipped(docs', s, m) <=> HasShipped(docs, s, m)
          /\ IsOutsider(docs', s, m) <=> IsOutsider(docs, s, m)
      BY <1>8, <2>3
    <3> QED BY <2>1, <3>4, <3>5 DEF SharedNews
  <2>4. CASE m = n
    <3>1. Waiting(h, "rizz", s, m) => s = by /\ K \notin old
      BY DEF Waiting, old, by, K
    <3>2. s = by /\ K \notin old => Waiting(h, "rizz", s, m)
      BY <1>2, <1>5, <2>4 DEF Waiting, old, by, K
    <3>3. ~Waiting(h, "rizz", s, m)' /\ ~Waiting(h, "bond", s, m)
      BY <1>2, <2>4 DEF Waiting, old, by, K
    <3>4. ASSUME Waiting(h, "bond", s, m)' PROVE s = by /\ K \in old
      <4>1. shipping'[h].members \in shipping'[h].due /\ shipping'[h].sender = s
        BY <3>4 DEF Waiting
      <4> QED BY <1>2, <4>1
    <3>5. ASSUME s = by, K \in old PROVE Waiting(h, "bond", s, m)'
      <4>1. K \in shipping'[h].due /\ {m} \notin shipping'[h].due
        BY <1>2, <1>5, <2>4, <3>5
      <4>2. shipping'[h].sender = by /\ shipping'[h].members = K
        BY <1>2, <4>1
      <4> QED BY <1>5, <2>4, <3>5, <4>1, <4>2 DEF Waiting
    <3>6. ASSUME s = by
          PROVE  IsOutsider(docs', s, m) /\ (HasShipped(docs', s, m) \/ Waiting(h, "bond", s, m)')
      BY <1>8, <2>1, <2>4, <3>2, <3>5, <3>6 DEF SharedNews
    <3>7. ASSUME IsOutsider(docs', s, m)
          PROVE  HasShipped(docs', s, m) \/ \E g \in ShipHandlers : Waiting(g, "bond", s, m)'
      <4>1. CASE s = by
        BY <3>6, <4>1
      <4>2. CASE IsOutsider(docs, s, m)
        BY <1>8, <2>1, <2>2, <3>3, <4>2 DEF SharedNews
      <4> QED BY <1>8, <3>7, <4>1, <4>2
    <3>8. ASSUME HasShipped(docs', s, m)
          PROVE  IsOutsider(docs', s, m) \/ \E g \in ShipHandlers : Waiting(g, "rizz", s, m)'
      <4>1. IsOutsider(docs, s, m) \/ \E g \in ShipHandlers : Waiting(g, "rizz", s, m)
        BY <1>8, <2>1, <3>8 DEF SharedNews
      <4> QED BY <1>8, <2>2, <2>4, <3>1, <4>1
    <3>9. ASSUME NEW g \in ShipHandlers, Waiting(g, "rizz", s, m)' PROVE HasShipped(docs', s, m)
      BY <1>8, <2>1, <2>2, <3>3, <3>9 DEF SharedNews
    <3>10. ASSUME NEW g \in ShipHandlers, Waiting(g, "bond", s, m)' PROVE IsOutsider(docs', s, m)
      <4>1. CASE g = h
        BY <1>8, <2>4, <3>4, <3>10, <4>1
      <4>2. CASE g # h
        BY <1>8, <2>1, <2>2, <3>10, <4>2 DEF SharedNews
      <4> QED BY <4>1, <4>2
    <3> QED BY <3>7, <3>8, <3>9, <3>10 DEF SharedNews
  <2> QED BY <2>3, <2>4
<1> QED BY <1>2, <1>9 DEF Agreed

\* A step that leaves the writes of ships alone.
LEMMA OthersAgree ==
  ASSUME MigrationInv, ShipsBonds, Agreed,
         \/ \E s \in People : \E named \in SUBSET (People \ {s}) : \E action \in Actions : React(s, named, action)
         \/ \E a \in People : Rank(a)
         \/ Migrate \/ NextPhase \/ MoveDoc \/ DeleteOld \/ Collides \/ MigrationFails
         \/ \E K \in DOMAIN todo : Rebase(K) \/ Skip(K) \/ Find(K)
  PROVE  Agreed' /\ ShipsBonds'
<1>1. ASSUME UNCHANGED shipping PROVE ShipsBonds'
  BY <1>1 DEF ShipsBonds
<1>2. ASSUME UNCHANGED <<docs, shipping, overrun>>, cut => cut' PROVE Agreed' /\ ShipsBonds'
  BY <1>1, <1>2, SameCovers, NoNewsIsAgreed
<1>3. ASSUME NEW s \in People, NEW named \in SUBSET (People \ {s}), NEW action \in Actions,
             React(s, named, action)
      PROVE  Agreed' /\ ShipsBonds'
  <2> DEFINE D   == ReactMembers(s, named)
             old == DocAt(D)
             doc == Reacted(old, s, action)
  <2>1. docs' = Stored(D, doc) /\ UNCHANGED <<shipping, cut, overrun>>
    BY <1>3 DEF React, MigrationKept
  <2>2. old \in Docs
    BY DocTyped DEF MigrationInv
  <2> HIDE DEF old
  <2>3. doc.shippers = old.shippers
    BY <2>2 DEF Reacted, Docs
  <2> HIDE DEF doc, D
  <2>4. /\ DOMAIN docs' = DOMAIN docs \cup {D} /\ \A E \in DOMAIN docs \ {D} : docs'[E] = docs[E]
        /\ NormSet(docs'[D].shippers) = NormSet(DocAt(D).shippers)
    BY <2>1, <2>3 DEF Stored, old
  <2>5. Covers(docs, docs') /\ Covers(docs', docs)
    BY <2>4, StoredCovers
  <2> QED BY <1>1, <2>1, <2>5, NoNewsIsAgreed
<1>4. ASSUME NEW a \in People, Rank(a) PROVE Agreed' /\ ShipsBonds'
  <2>1. docs' = Stored({a}, NewDoc) /\ {a} \notin DOMAIN docs /\ UNCHANGED <<shipping, cut, overrun>>
    BY <1>4 DEF Rank, MigrationKept
  <2>2. /\ DOMAIN docs' = DOMAIN docs \cup {{a}} /\ \A E \in DOMAIN docs \ {{a}} : docs'[E] = docs[E]
        /\ NormSet(docs'[{a}].shippers) = NormSet(DocAt({a}).shippers)
    BY <2>1 DEF Stored, DocAt
  <2>3. Covers(docs, docs') /\ Covers(docs', docs)
    BY <2>2, StoredCovers
  <2> QED BY <1>1, <2>1, <2>3, NoNewsIsAgreed
<1>5. CASE Migrate \/ NextPhase \/ Collides \/ MigrationFails
  BY <1>2, <1>5 DEF Migrate, NextPhase, Collides, MigrationFails, OthersKept
<1>6. ASSUME NEW K \in DOMAIN todo, Skip(K) \/ Find(K) PROVE Agreed' /\ ShipsBonds'
  BY <1>2, <1>6 DEF Skip, Find, OthersKept
<1>7. CASE MoveDoc
  <2>1. UNCHANGED <<shipping, cut>> /\ (overrun => overrun')
    BY <1>7, MovedIs
  <2> QED BY <1>1, <1>7, <2>1, MoveCovers, NoNewsIsAgreed
<1>8. CASE DeleteOld
  <2>1. UNCHANGED <<shipping, cut, overrun>>
    BY <1>8 DEF DeleteOld, OthersKept
  <2> QED BY <1>1, <1>8, <2>1, DeleteCovers, NoNewsIsAgreed
<1>9. ASSUME NEW K \in DOMAIN todo, Rebase(K) PROVE Agreed' /\ ShipsBonds'
  <2>1. UNCHANGED <<shipping, cut>> /\ (overrun => overrun')
    BY <1>9 DEF Rebase, OthersKept
  <2> QED BY <1>1, <1>9, <2>1, RebaseCovers, NoNewsIsAgreed
<1> QED BY <1>3, <1>4, <1>5, <1>6, <1>7, <1>8, <1>9

LEMMA AgreedStays ==
  ASSUME MigrationInv, ShipsBonds, Agreed, [BondsNext]_bondVars
  PROVE  Agreed' /\ ShipsBonds'
<1>1. CASE UNCHANGED bondVars
  <2>1. UNCHANGED <<docs, shipping, cut, overrun>>
    BY <1>1 DEF bondVars
  <2>2. \A h \in ShipHandlers : \A w, s, m : Waiting(h, w, s, m)' <=> Waiting(h, w, s, m)
    BY <2>1 DEF Waiting
  <2> QED BY <2>1, <2>2 DEF Agreed, ShipsBonds, SharedNews
<1>2. ASSUME NEW s \in People, NEW named \in SUBSET (People \ {s}), NEW h \in ShipHandlers, Ship(h, s, named)
      PROVE  Agreed' /\ ShipsBonds'
  <2> DEFINE members == ShipMembers(s, named)
             new == [due |-> Writes(s, members), sender |-> s, members |-> members]
  <2>1. /\ shipping[h] = NoShip /\ IsBond(members) /\ shipping' = [shipping EXCEPT ![h] = new]
        /\ UNCHANGED <<docs, cut, overrun>>
    BY <1>2 DEF Ship, MigrationKept
  <2>2. s \in members
    BY DEF ShipMembers
  <2>3. new.due = Writes(s, members) /\ new.sender = s /\ new.members = members
    OBVIOUS
  <2> HIDE DEF members, new
  <2>4. shipping'[h] = new /\ \A g \in ShipHandlers \ {h} : shipping'[g] = shipping[g]
    BY <2>1 DEF MigrationInv, BondsUnderWay
  <2>5. ShipsBonds'
    BY <2>1, <2>2, <2>3, <2>4 DEF ShipsBonds
  <2>6. ASSUME NEW w, NEW t, NEW m, t # m PROVE ~Waiting(h, w, t, m) /\ ~Waiting(h, w, t, m)'
    <3>1. ~Waiting(h, w, t, m)
      BY <2>1 DEF Waiting, NoShip
    <3>2. ~Waiting(h, w, t, m)'
      BY <2>3, <2>4, <2>6, AllDue DEF Waiting
    <3> QED BY <3>1, <3>2
  <2>7. \A g \in ShipHandlers : \A w, t, m : t # m => (Waiting(g, w, t, m)' <=> Waiting(g, w, t, m))
    <3>1. \A g \in ShipHandlers \ {h} : \A w, t, m : Waiting(g, w, t, m)' <=> Waiting(g, w, t, m)
      BY <2>4 DEF Waiting
    <3> QED BY <2>6, <3>1
  <2>8. Agreed'
    BY <2>1, <2>7 DEF Agreed, SharedNews
  <2> QED BY <2>5, <2>8
<1>3. ASSUME NEW h \in ShipHandlers, ShipWriteFails(h) PROVE Agreed' /\ ShipsBonds'
  <2>1. PICK keys : WriteDone(h, keys)
    BY <1>3 DEF ShipWriteFails
  <2>2. cut'
    BY <1>3 DEF ShipWriteFails
  <2> QED BY <2>1, <2>2, BondStays DEF Agreed, MigrationInv
<1>4. CASE BondsCrash
  <2>1. /\ shipping' = [h \in ShipHandlers |-> NoShip] /\ UNCHANGED <<docs, overrun>>
        /\ cut' = (cut \/ moving.stage = "written"
                        \/ \E h \in ShipHandlers :
                             shipping[h].due \notin {{}, Writes(shipping[h].sender, shipping[h].members)})
    BY <1>4 DEF BondsCrash
  <2>2. ASSUME NEW h \in ShipHandlers PROVE shipping'[h].due = {}
    BY <2>1 DEF NoShip
  <2>3. ShipsBonds'
    BY <2>2 DEF ShipsBonds
  <2>4. \A h \in ShipHandlers : \A w, s, m : ~Waiting(h, w, s, m)'
    BY <2>2 DEF Waiting
  <2>5. ASSUME ~cut', NEW h \in ShipHandlers, NEW w, NEW s, NEW m, s # m PROVE ~Waiting(h, w, s, m)
    <3>1. CASE shipping[h].due = {}
      BY <3>1 DEF Waiting
    <3>2. CASE shipping[h].due = Writes(shipping[h].sender, shipping[h].members)
      BY <2>5, <3>2, AllDue DEF Waiting
    <3> QED BY <2>1, <2>5, <3>1, <3>2
  <2>6. ~cut' => ~cut
    BY <2>1
  <2>7. Agreed'
    BY <2>1, <2>4, <2>5, <2>6 DEF Agreed, SharedNews
  <2> QED BY <2>3, <2>7
<1> QED
  BY <1>1, <1>2, <1>3, <1>4, ShipNews, RizzNews, OthersAgree DEF BondsNext

LEMMA AgreedAtFirst ==
  ASSUME BondsInit
  PROVE  Agreed /\ ShipsBonds
<1>1. docs = OldDocs /\ shipping = [h \in ShipHandlers |-> NoShip]
  BY DEF BondsInit
<1>2. \A h \in ShipHandlers : shipping[h].due = {}
  BY <1>1 DEF NoShip
<1>3. \A h \in ShipHandlers : \A w, s, m : ~Waiting(h, w, s, m)
  BY <1>2 DEF Waiting
<1> QED BY <1>1, <1>2, <1>3, BondsAssumption DEF Agreed, ShipsBonds, SharedNews

LEMMA AgreementHolds ==
  ASSUME Agreed
  PROVE  BondsAndRizzAgree
<1>1. ASSUME \A h \in ShipHandlers : shipping[h] = NoShip
      PROVE  \A h \in ShipHandlers : \A w, s, m : ~Waiting(h, w, s, m)
  BY <1>1 DEF Waiting, NoShip
<1> QED BY <1>1 DEF Agreed, SharedNews, BondsAndRizzAgree
-----------------------------------------------------------------------------
(* What a ship does to a rizz.                                             *)

LEMMA TermsThere ==
  ASSUME NEW all, Documents(all), NEW a
  PROVE  /\ Numbered(Terms(all), BondsWith(all, a))
         /\ BondTerm(all, a) = Total(Terms(all), BondsWith(all, a)) /\ BondTerm(all, a) \in Int
<1>1. IsFiniteSet(SUBSET Addresses)
  BY BondsAssumption, FS_SUBSET
<1>2. BondsWith(all, a) \subseteq SUBSET Addresses
  BY DEF BondsWith, Documents, Keys
<1>3. IsFiniteSet(BondsWith(all, a))
  BY <1>1, <1>2, FS_Subset
<1>4. ASSUME NEW K \in BondsWith(all, a) PROVE Terms(all)[K] \in Int
  <2>1. K \in DOMAIN all /\ all[K].given \in SUBSET (Addresses \X Actions)
    BY DEF BondsWith, Documents, Docs
  <2>2. Growth(all[K].given) \in Int /\ PerBondCap \in Int
    BY <2>1, GrowthIs, BondsAssumption
  <2> DEFINE g == Growth(all[K].given)
  <2>3. Terms(all)[K] = Clamp(g, 0, PerBondCap)
    BY <2>1 DEF Terms
  <2> HIDE DEF g
  <2> QED BY <2>2, <2>3 DEF Clamp, g
<1>5. Numbered(Terms(all), BondsWith(all, a))
  BY <1>3, <1>4 DEF Numbered
<1> QED BY <1>5, TermIs, TotalIs

\* The bonds of a are as they were, but for one more that nobody has reacted in.
SameBonds(all, new, a, D) ==
  /\ \A E \in BondsWith(all, a) : E \in DOMAIN new /\ new[E].given = all[E].given
  /\ \A E \in BondsWith(new, a) : E \in DOMAIN all \/ (E = D /\ new[E].given = {})

LEMMA TermStays ==
  ASSUME NEW all, NEW new, Documents(all), Documents(new), NEW a, NEW D, SameBonds(all, new, a, D)
  PROVE  BondTerm(new, a) = BondTerm(all, a) /\ BondTerm(all, a) \in Int
<1> DEFINE S == BondsWith(all, a)
           T == BondsWith(new, a)
           f == Terms(all)
           g == Terms(new)
           b == BondTerm(all, a)
           c == BondTerm(new, a)
<1>1. b = Total(f, S) /\ c = Total(g, T) /\ b \in Int /\ c \in Int /\ Numbered(f, S) /\ Numbered(g, T)
  BY TermsThere
<1>2. S \subseteq T
  BY DEF BondsWith, SameBonds
<1>3. T \ S \subseteq {D}
  BY DEF BondsWith, SameBonds
<1>4. \A E \in S : g[E] = f[E]
  BY DEF BondsWith, Terms, SameBonds
<1>5. D \in T \ S => g[D] = 0
  <2>1. ASSUME D \in T \ S PROVE g[D] = 0
    <3>1. D \in DOMAIN new /\ new[D].given = {}
      BY <2>1 DEF BondsWith, SameBonds
    <3>2. {} \in SUBSET (Addresses \X Actions)
      OBVIOUS
    <3>3. Growth({}) = 0
      BY <3>2, GrowthIs
    <3>4. g[D] = Clamp(Growth({}), 0, PerBondCap)
      BY <3>1 DEF Terms
    <3>5. g[D] = Clamp(0, 0, PerBondCap) /\ PerBondCap \in Nat
      BY <3>3, <3>4, BondsAssumption
    <3> QED BY <3>5 DEF Clamp
  <2> QED BY <2>1
<1> HIDE DEF S, T, f, g, b, c
<1>6. Total(g, S) = Total(f, S)
  BY <1>1, <1>4, SameTotal
<1>7. CASE D \in T \ S
  <2>1. T \ {D} = S
    BY <1>2, <1>3, <1>7
  <2>2. c = Total(g, S) + g[D]
    BY <1>1, <1>7, <2>1, OneMore
  <2>3. c = b
    BY <1>1, <1>5, <1>6, <1>7, <2>2
  <2> QED BY <1>1, <2>3 DEF b, c
<1>8. CASE D \notin T \ S
  <2>1. T = S
    BY <1>2, <1>3, <1>8
  <2>2. c = b
    BY <1>1, <1>6, <2>1
  <2> QED BY <1>1, <2>2 DEF b, c
<1> QED BY <1>7, <1>8

\* One outsider more is one point more at most, the bonds being as they are.
LEMMA OnePointMore ==
  ASSUME NEW all, NEW new, NEW a, Outsiders(all, a) \in Nat, Outsiders(new, a) - Outsiders(all, a) \in {0, 1},
         Outsiders(new, a) \in Nat, BondTerm(new, a) = BondTerm(all, a), BondTerm(all, a) \in Int
  PROVE  RizzScore(new, a) - RizzScore(all, a) <= Outsiders(new, a) - Outsiders(all, a)
<1> DEFINE o == Outsiders(all, a)
           p == Outsiders(new, a)
           t == Clamp(BondTerm(all, a), 0, BondCap)
           x == BaseRizz + Clamp(o, 0, OutsiderCap) + t
           y == BaseRizz + Clamp(p, 0, OutsiderCap) + t
<1>1. RizzScore(all, a) = Clamp(x, 1, Top) /\ RizzScore(new, a) = Clamp(y, 1, Top)
  BY DEF RizzScore
<1>2. BaseRizz \in Nat /\ OutsiderCap \in Nat /\ BondCap \in Nat /\ Top \in Nat
  BY BondsAssumption
<1>3. t \in Int
  BY <1>2 DEF Clamp
<1>4. o \in Nat /\ p \in Nat /\ p - o \in {0, 1}
  OBVIOUS
<1> DEFINE u == Clamp(o, 0, OutsiderCap)
           v == Clamp(p, 0, OutsiderCap)
<1> HIDE DEF o, p
<1>5. u \in Int /\ v \in Int /\ v - u >= 0 /\ v - u <= p - o
  BY <1>2, <1>4 DEF Clamp
<1> HIDE DEF u, v, t
<1>6. x \in Int /\ y \in Int /\ y - x >= 0 /\ y - x <= p - o
  BY <1>2, <1>3, <1>4, <1>5 DEF u, v
<1> HIDE DEF x, y
<1>7. Clamp(y, 1, Top) - Clamp(x, 1, Top) <= p - o
  BY <1>2, <1>4, <1>6 DEF Clamp
<1> QED BY <1>1, <1>7 DEF o, p

LEMMA OutsidersCounted ==
  ASSUME NEW all, Documents(all), NEW a
  PROVE  Outsiders(all, a) \in Nat
<1>1. \A K \in DOMAIN all : IsFiniteSet(all[K].shippers)
  BY BondsAssumption, FS_Subset DEF Documents, Docs
<1> QED BY <1>1, FS_CardinalityType DEF Outsiders

\* Any documents that come to know one outsider of a more at most, and the same bonds.
LEMMA ScoreFollows ==
  ASSUME MigrationInv, MigrationInv', NEW a \in People, NEW D, SameBonds(docs, docs', a, D),
         Outsiders(docs', a) - Outsiders(docs, a) \in {0, 1}
  PROVE  RizzScore(docs', a) - RizzScore(docs, a) <= Outsiders(docs', a) - Outsiders(docs, a)
<1>1. Documents(docs) /\ Documents(docs')
  BY MovedCounts DEF MigrationInv, BondTypes, Documents
<1>2. BondTerm(docs', a) = BondTerm(docs, a) /\ BondTerm(docs, a) \in Int
  BY <1>1, TermStays
<1>3. Outsiders(docs, a) \in Nat /\ Outsiders(docs', a) \in Nat
  BY <1>1, OutsidersCounted
<1> QED BY <1>2, <1>3, OnePointMore

LEMMA ShipScores ==
  ASSUME MigrationInv, MigrationInv', ShipsBonds, NEW h \in ShipHandlers, ShipStored(h), NEW a \in People
  PROVE  /\ RizzScore(docs', a) - RizzScore(docs, a) <= Outsiders(docs', a) - Outsiders(docs, a)
         /\ Outsiders(docs', a) - Outsiders(docs, a) \in {0, 1}
<1> DEFINE D == shipping[h].members
<1>1. PICK doc \in Docs : docs' = Stored(D, doc) /\ doc.given = DocAt(D).given
  BY ShipStoredIs DEF MigrationInv
<1>2. IsBond(D)
  BY BondStays DEF MigrationInv, ShipStored
<1> HIDE DEF D
<1>3. /\ DOMAIN docs' = DOMAIN docs \cup {D} /\ docs'[D] = doc
      /\ \A E \in DOMAIN docs \ {D} : docs'[E] = docs[E]
  BY <1>1 DEF Stored
<1>4. /\ D \in DOMAIN docs => DocAt(D) = docs[D]
      /\ D \notin DOMAIN docs => DocAt(D).given = {}
  BY DEF DocAt, NewDoc
<1>5. Outsiders(docs', a) = Outsiders(docs, a)
  <2>1. {a} # D
    BY <1>2, NoBondOfOne
  <2> QED BY <1>3, <2>1 DEF Outsiders
<1>6. Outsiders(docs', a) - Outsiders(docs, a) \in {0, 1}
  <2>1. Outsiders(docs, a) \in Nat
    BY OutsidersCounted, MovedCounts
  <2> QED BY <1>5, <2>1
<1>7. \A E \in BondsWith(docs, a) : E \in DOMAIN docs' /\ docs'[E].given = docs[E].given
  BY <1>1, <1>3, <1>4 DEF BondsWith
<1>8. \A E \in BondsWith(docs', a) : E \in DOMAIN docs \/ (E = D /\ docs'[E].given = {})
  BY <1>1, <1>3, <1>4 DEF BondsWith
<1>9. SameBonds(docs, docs', a, D)
  BY <1>7, <1>8 DEF SameBonds
<1> QED BY <1>6, <1>9, ScoreFollows

LEMMA RizzScores ==
  ASSUME MigrationInv, MigrationInv', NEW h \in ShipHandlers, NEW m \in People, RizzStored(h, m), NEW a \in People
  PROVE  /\ RizzScore(docs', a) - RizzScore(docs, a) <= Outsiders(docs', a) - Outsiders(docs, a)
         /\ Outsiders(docs', a) - Outsiders(docs, a) \in {0, 1}
<1> DEFINE by == shipping[h].sender
<1>1. PICK doc \in Docs : docs' = Stored({m}, doc) /\ doc.shippers = DocAt({m}).shippers \cup {by}
  BY RizzStoredIs DEF MigrationInv
<1>2. ~IsBond({m})
  BY NoBondOfOne
<1> HIDE DEF by
<1>3. /\ DOMAIN docs' = DOMAIN docs \cup {{m}} /\ docs'[{m}] = doc
      /\ \A D \in DOMAIN docs \ {{m}} : docs'[D] = docs[D]
  BY <1>1 DEF Stored
<1>4. Documents(docs) /\ Documents(docs')
  BY MovedCounts DEF MigrationInv, BondTypes, Documents
<1>5. Outsiders(docs, a) \in Nat
  BY <1>4, OutsidersCounted
<1>6. Outsiders(docs', a) - Outsiders(docs, a) \in {0, 1}
  <2>1. CASE a = m
    <3> DEFINE old == DocAt({a})
    <3>1. old \in Docs
      BY DocTyped DEF MigrationInv
    <3>2. doc.shippers = old.shippers \cup {by}
      BY <1>1, <2>1
    <3>3. Outsiders(docs, a) = Cardinality(old.shippers)
      <4>1. CASE {a} \in DOMAIN docs
        BY <4>1 DEF Outsiders, DocAt
      <4>2. CASE {a} \notin DOMAIN docs
        <5>1. old.shippers = {}
          BY <4>2 DEF DocAt, NewDoc
        <5> QED BY <4>2, <5>1, FS_EmptySet DEF Outsiders
      <4> QED BY <4>1, <4>2
    <3> HIDE DEF old
    <3>4. Outsiders(docs', a) = Cardinality(old.shippers \cup {by})
      BY <1>3, <2>1, <3>2 DEF Outsiders
    <3>5. IsFiniteSet(old.shippers)
      <4>1. old.shippers \subseteq Addresses
        BY <3>1 DEF Docs
      <4> QED BY <4>1, BondsAssumption, FS_Subset
    <3>6. \/ Cardinality(old.shippers \cup {by}) = Cardinality(old.shippers)
          \/ Cardinality(old.shippers \cup {by}) = Cardinality(old.shippers) + 1
      BY <3>5, FS_AddElement
    <3> QED BY <1>5, <3>3, <3>4, <3>6
  <2>2. CASE a # m
    <3>1. {a} # {m}
      BY <2>2
    <3>2. Outsiders(docs', a) = Outsiders(docs, a)
      BY <1>3, <3>1 DEF Outsiders
    <3> QED BY <1>5, <3>2
  <2> QED BY <2>1, <2>2
<1>7. \A E \in BondsWith(docs, a) : E \in DOMAIN docs' /\ docs'[E].given = docs[E].given
  BY <1>2, <1>3 DEF BondsWith
<1>8. \A E \in BondsWith(docs', a) : E \in DOMAIN docs
  BY <1>2, <1>3 DEF BondsWith
<1>9. SameBonds(docs, docs', a, {})
  BY <1>7, <1>8 DEF SameBonds
<1> QED BY <1>6, <1>9, ScoreFollows

LEMMA RankScores ==
  ASSUME MigrationInv, MigrationInv', NEW b \in People, Rank(b), NEW a \in People
  PROVE  /\ RizzScore(docs', a) - RizzScore(docs, a) <= Outsiders(docs', a) - Outsiders(docs, a)
         /\ Outsiders(docs', a) - Outsiders(docs, a) \in {0, 1}
<1>1. {b} \notin DOMAIN docs /\ docs' = Stored({b}, NewDoc)
  BY DEF Rank
<1>2. /\ DOMAIN docs' = DOMAIN docs \cup {{b}} /\ docs'[{b}] = NewDoc
      /\ \A D \in DOMAIN docs : docs'[D] = docs[D]
  BY <1>1 DEF Stored
<1>3. Outsiders(docs', a) = Outsiders(docs, a)
  <2>1. Cardinality(NewDoc.shippers) = 0
    BY FS_EmptySet DEF NewDoc
  <2>2. CASE {a} = {b}
    BY <1>1, <1>2, <2>1, <2>2 DEF Outsiders
  <2>3. CASE {a} # {b}
    BY <1>2, <2>3 DEF Outsiders
  <2> QED BY <2>2, <2>3
<1>4. Outsiders(docs', a) - Outsiders(docs, a) \in {0, 1}
  <2>1. Outsiders(docs, a) \in Nat
    BY OutsidersCounted, MovedCounts
  <2> QED BY <1>3, <2>1
<1>5. \A E \in BondsWith(docs, a) : E \in DOMAIN docs' /\ docs'[E].given = docs[E].given
  BY <1>2 DEF BondsWith
<1>6. \A E \in BondsWith(docs', a) : E \in DOMAIN docs
  BY <1>2, NoBondOfOne DEF BondsWith
<1>7. SameBonds(docs, docs', a, {})
  BY <1>5, <1>6 DEF SameBonds
<1> QED BY <1>4, <1>7, ScoreFollows

\* What nobody has reacted to and no migration has moved, a ship or a rank has stored.
LEMMA StoredByUsers ==
  ASSUME MigrationInv, reactions \in Nat, BondsNext,
         docs' # docs, reactions' = reactions, moving' = moving, todo' = todo
  PROVE  (\E h \in ShipHandlers : ShipStored(h) \/ \E m \in People : RizzStored(h, m)) \/ \E a \in People : Rank(a)
<1>1. ~ \E s \in People : \E named \in SUBSET (People \ {s}) :
          \/ \E h \in ShipHandlers : Ship(h, s, named)
          \/ \E action \in Actions : React(s, named, action)
  <2>1. ASSUME NEW s \in People, NEW named \in SUBSET (People \ {s}), NEW h \in ShipHandlers
        PROVE  ~Ship(h, s, named)
    BY DEF Ship
  <2>2. ASSUME NEW s \in People, NEW named \in SUBSET (People \ {s}), NEW action \in Actions
        PROVE  ~React(s, named, action)
    <3>1. React(s, named, action) => reactions' = reactions + 1
      BY DEF React
    <3> QED BY <3>1
  <2> QED BY <2>1, <2>2
<1>2. ~(Migrate \/ NextPhase \/ Collides \/ MigrationFails \/ BondsCrash)
  BY DEF Migrate, NextPhase, Collides, MigrationFails, BondsCrash
<1>3. ~ \E h \in ShipHandlers : ShipWriteFails(h)
  BY DEF ShipWriteFails
<1>4. ~MoveDoc
  <2>1. MoveDoc => moving.stage = "found" /\ moving'.stage = "written"
    BY DEF MoveDoc, MigrationInv, BondTypes
  <2> QED BY <2>1
<1>5. ~DeleteOld
  <2>1. DeleteOld => moving.stage = "written" /\ moving'.stage = "idle"
    BY DEF DeleteOld, NoMove
  <2> QED BY <2>1
<1>6. ASSUME NEW K \in DOMAIN todo PROVE ~(Rebase(K) \/ Skip(K) \/ Find(K))
  <2>1. Rebase(K) => K \notin DOMAIN todo'
    BY DEF Rebase, Without, Restrict
  <2>2. ~Skip(K) /\ ~Find(K)
    BY DEF Skip, Find
  <2> QED BY <2>1, <2>2
<1> QED BY <1>1, <1>2, <1>3, <1>4, <1>5, <1>6 DEF BondsNext

LEMMA ReactionsCounted ==
  ASSUME reactions \in Nat, [BondsNext]_bondVars
  PROVE  reactions' \in Nat
<1>1. CASE UNCHANGED bondVars
  BY <1>1 DEF bondVars
<1>2. ASSUME NEW s, NEW named, NEW action, React(s, named, action) PROVE reactions' \in Nat
  BY <1>2 DEF React
<1>3. CASE UNCHANGED reactions
  BY <1>3
<1>4. BondsNext => UNCHANGED reactions \/ \E s, named, action : React(s, named, action)
  BY DEF BondsNext, Ship, ShipStored, RizzStored, ShipWriteFails, Rank, Migrate, NextPhase, MoveDoc, DeleteOld,
         Collides, MigrationFails, BondsCrash, Rebase, Skip, Find, OthersKept
<1> QED BY <1>1, <1>2, <1>3, <1>4

-----------------------------------------------------------------------------
BondsInv == MigrationInv /\ CountsHold /\ Agreed /\ ShipsBonds /\ reactions \in Nat

\* What a ship does to the rizz of a user, in any state of the system.
OutsidersCount ==
  (docs' # docs /\ reactions' = reactions /\ phase' = phase /\ moving' = moving /\ todo' = todo) =>
    \A a \in People :
      /\ RizzScore(docs', a) - RizzScore(docs, a) <= Outsiders(docs', a) - Outsiders(docs, a)
      /\ Outsiders(docs', a) - Outsiders(docs, a) \in {0, 1}

(* computeRizzScore: a ship gives a user a point for an outsider it adds and
   none otherwise, whatever the bonds, the deltas and the caps.            *)
LEMMA OutsidersGivePoints ==
  ASSUME BondsInv, [BondsNext]_bondVars
  PROVE  [OutsidersCount]_bondVars
<1>1. MigrationInv'
  BY MigrationHeld DEF BondsInv
<1>2. ASSUME BondsNext, docs' # docs, reactions' = reactions, moving' = moving, todo' = todo, NEW a \in People
      PROVE  /\ RizzScore(docs', a) - RizzScore(docs, a) <= Outsiders(docs', a) - Outsiders(docs, a)
             /\ Outsiders(docs', a) - Outsiders(docs, a) \in {0, 1}
  <2>1. (\E h \in ShipHandlers : ShipStored(h) \/ \E m \in People : RizzStored(h, m)) \/ \E b \in People : Rank(b)
    BY <1>2, StoredByUsers DEF BondsInv
  <2> QED BY <1>1, <2>1, ShipScores, RizzScores, RankScores DEF BondsInv
<1> QED BY <1>2 DEF OutsidersCount

(* The two collections of a ship agree between ships, unless a write was lost
   or the migration wrote over a ship; a ship is counted once through merges
   and renames, unless a write was lost; a migration that comes to its end
   leaves nothing of the old addresses; and a ship gives one point at most. *)
THEOREM BondsAlwaysHold == BondsSpec => BondsHold
<1>1. BondsInit => BondsInv
  <2>1. BondsInit => reactions \in Nat
    BY DEF BondsInit
  <2> QED BY <2>1, MigrationStarts, CountsStart, AgreedAtFirst DEF BondsInv
<1>2. BondsInv /\ [BondsNext]_bondVars => BondsInv'
  BY MigrationHeld, CountsHeld, AgreedStays, ReactionsCounted DEF BondsInv
<1>3. BondsInv => BondsAndRizzAgree /\ MigrationHolds
  BY CountsAreRight, AgreementHolds DEF BondsInv
<1>4. BondsInv /\ [BondsNext]_bondVars => [OutsidersCount]_bondVars
  BY OutsidersGivePoints
<1>5. BondsSpec => []BondsInv
  BY <1>1, <1>2, PTL DEF BondsSpec
<1>6. BondsSpec => [](BondsAndRizzAgree /\ MigrationHolds)
  BY <1>3, <1>5, PTL
<1>7. BondsSpec => [][OutsidersCount]_bondVars
  BY <1>4, <1>5, PTL DEF BondsSpec
<1>8. BondsSpec => OnlyNewOutsidersCount
  BY <1>7 DEF OnlyNewOutsidersCount, OutsidersCount
<1> QED BY <1>6, <1>8 DEF BondsHold
=============================================================================

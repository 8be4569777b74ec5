------------------------- MODULE RouterTurns_proofs -------------------------
(***************************************************************************)
(* Round robin for any pool of servers: the order in which next() returns  *)
(* the available servers is the order of the eligible list, whatever was   *)
(* drained, resumed or posted in between.                                  *)
(***************************************************************************)
EXTENDS RouterTurns, FiniteSetTheorems, TLAPS

\* How many servers of the list have their turn before p has its own.
Before(p) ==
  IF Rank(Eligible, p) >= currentIndex
  THEN Rank(Eligible, p) - currentIndex
  ELSE Rank(Eligible, p) + Size - currentIndex

\* The index is one of the list, or 0 when the list is empty.
IndexInv == currentIndex = 0 \/ currentIndex < Size

\* Whatever was returned since p was comes after p in the turn.
PassedInv ==
  \A p \in Positions : \A q \in passed[p] :
    /\ p \in Eligible /\ q \in Eligible
    /\ Before(p) < Before(q)

TInv == TTypeOK /\ IndexInv /\ PassedInv

-----------------------------------------------------------------------------
(* The rank of a position in a set of positions *)

LEMMA PositionsFinite ==
  /\ IsFiniteSet(Positions)
  /\ \A S \in SUBSET Positions : IsFiniteSet(S) /\ Cardinality(S) \in Nat
<1>1. IsFiniteSet(Positions)
  BY RouterAssumption, FS_Interval DEF Positions
<1>2. ASSUME NEW S \in SUBSET Positions
      PROVE  IsFiniteSet(S) /\ Cardinality(S) \in Nat
  <2>1. IsFiniteSet(S)
    BY <1>1, FS_Subset
  <2>2. QED
    BY <2>1, FS_CardinalityType
<1>3. QED
  BY <1>1, <1>2

\* Each member's rank is an index of the list, and a later member has a higher one.
LEMMA RankFacts ==
  ASSUME NEW S \in SUBSET Positions, NEW p \in S
  PROVE  /\ Rank(S, p) \in 0..(Cardinality(S) - 1)
         /\ \A q \in S : p < q => Rank(S, p) < Rank(S, q)
<1> DEFINE B(x) == {y \in S : y < x}
<1>0. \A x \in S : x \in Int
  BY RouterAssumption DEF Positions
<1>1. /\ IsFiniteSet(S) /\ Cardinality(S) \in Nat
      /\ \A x \in S : /\ IsFiniteSet(B(x)) /\ Cardinality(B(x)) \in Nat
                      /\ B(x) \subseteq S
  <2>1. \A x \in S : B(x) \in SUBSET Positions /\ B(x) \subseteq S
    OBVIOUS
  <2>2. QED
    BY <2>1, PositionsFinite
<1>2. p \notin B(p)
  BY <1>0
<1>3. /\ IsFiniteSet(B(p) \union {p})
      /\ Cardinality(B(p) \union {p}) = Cardinality(B(p)) + 1
  BY <1>1, <1>2, FS_AddElement
<1>4. Cardinality(B(p) \union {p}) <= Cardinality(S)
  BY <1>1, FS_Subset
<1>5. ASSUME NEW q \in S, p < q
      PROVE  Cardinality(B(p)) < Cardinality(B(q))
  <2>1. B(p) \union {p} \in SUBSET B(q)
    BY <1>0, <1>5
  <2>2. Cardinality(B(p) \union {p}) <= Cardinality(B(q))
    BY <1>1, <2>1, FS_Subset
  <2>3. QED
    BY <1>1, <1>3, <2>2
<1>6. Rank(S, p) = Cardinality(B(p)) /\ \A q \in S : Rank(S, q) = Cardinality(B(q))
  BY DEF Rank
<1> HIDE DEF B
<1>7. Rank(S, p) \in 0..(Cardinality(S) - 1)
  BY <1>1, <1>3, <1>4, <1>6
<1>8. QED
  BY <1>5, <1>6, <1>7

LEMMA RankInjective ==
  ASSUME NEW S \in SUBSET Positions, NEW p \in S, NEW q \in S, Rank(S, p) = Rank(S, q)
  PROVE  p = q
<1>1. p \in Int /\ q \in Int
  BY RouterAssumption DEF Positions
<1>2. Rank(S, p) \in Int
  BY RankFacts
<1>3. ~(p < q) /\ ~(q < p)
  BY <1>2, RankFacts
<1>4. QED
  BY <1>1, <1>3

\* Every index of the list is some member's rank.
LEMMA RankOnto ==
  ASSUME NEW S \in SUBSET Positions, NEW i \in 0..(Cardinality(S) - 1)
  PROVE  \E p \in S : Rank(S, p) = i
<1> DEFINE T == 0..(Cardinality(S) - 1)
           f == [p \in S |-> Rank(S, p)]
<1>1. Cardinality(S) \in Nat
  BY PositionsFinite
<1>2. IsFiniteSet(T) /\ Cardinality(T) = Cardinality(S)
  <2>1. Cardinality(S) - 1 \in Int /\ 0 \in Int
    BY <1>1
  <2>2. /\ IsFiniteSet(T)
        /\ Cardinality(T) = IF 0 > Cardinality(S) - 1 THEN 0 ELSE Cardinality(S) - 1 - 0 + 1
    BY <2>1, FS_Interval, Zenon
  <2>3. QED
    BY <1>1, <2>2
<1>3. f \in [S -> T]
  BY RankFacts
<1>4. \A a, b \in S : f[a] = f[b] => a = b
  BY RankInjective
<1>5. f \in Injection(S, T)
  BY <1>3, <1>4 DEF Injection, IsInjective
<1>6. f \in Surjection(S, T)
  BY <1>2, <1>5, FS_Injection
<1>7. QED
  BY <1>6 DEF Surjection

\* The index moves by less than two turns of the list: wrapping it is at most one
\* subtraction.
LEMMA WrapFacts ==
  ASSUME NEW n \in Nat, n > 0, NEW i \in 0..(2 * n - 1)
  PROVE  i % n = IF i < n THEN i ELSE i - n
<1>1. i % n \in 0..(n - 1)
  OBVIOUS
<1>2. i = n * (i \div n) + (i % n)
  OBVIOUS
<1>3. i \div n \in {0, 1}
  OBVIOUS
<1>4. QED
  BY <1>1, <1>2, <1>3

-----------------------------------------------------------------------------
(* The turn of each server *)

LEMMA EligibleFacts ==
  /\ Eligible \in SUBSET Positions
  /\ Size \in Nat
  /\ \A p \in Eligible : /\ Size > 0
                          /\ Rank(Eligible, p) \in 0..(Size - 1)
                          /\ At(Rank(Eligible, p)) = p
  /\ \A i \in 0..(Size - 1) : At(i) \in Eligible /\ Rank(Eligible, At(i)) = i
<1>1. Eligible \in SUBSET Positions
  BY DEF Eligible, EligibleFor, OfType
<1>2. Size \in Nat
  BY <1>1, PositionsFinite DEF Size
<1>3. \A i \in 0..(Size - 1) : At(i) \in Eligible /\ Rank(Eligible, At(i)) = i
  BY <1>1, RankOnto DEF At, Size
<1>4. \A p \in Eligible : Rank(Eligible, p) \in 0..(Size - 1)
  BY <1>1, RankFacts DEF Size
<1>5. \A p \in Eligible : Size > 0
  BY <1>2, <1>4
<1>6. \A p \in Eligible : At(Rank(Eligible, p)) = p
  BY <1>1, <1>3, <1>4, RankInjective
<1>7. QED
  BY <1>1, <1>2, <1>3, <1>4, <1>5, <1>6

\* The loop of next() looks at every server of the list once, in its turn.
LEMMA TurnFacts ==
  ASSUME TTypeOK, IndexInv
  PROVE  /\ \A p \in Eligible : Before(p) \in 0..(Size - 1) /\ Turn(Before(p)) = p
         /\ \A i \in 0..(Size - 1) : Turn(i) \in Eligible /\ Before(Turn(i)) = i
<1>1. currentIndex \in Nat /\ Size \in Nat
  BY EligibleFacts DEF TTypeOK, TypeOK
<1>2. ASSUME NEW p \in Eligible
      PROVE  Before(p) \in 0..(Size - 1) /\ Turn(Before(p)) = p
  <2> DEFINE r == Rank(Eligible, p)
  <2>1. r \in 0..(Size - 1) /\ Size > 0 /\ currentIndex < Size
    BY <1>1, EligibleFacts DEF IndexInv
  <2>2. Before(p) = IF r >= currentIndex THEN r - currentIndex ELSE r + Size - currentIndex
    BY DEF Before
  <2> HIDE DEF r
  <2>3. Before(p) \in 0..(Size - 1) /\ currentIndex + Before(p) \in 0..(2 * Size - 1)
    BY <1>1, <2>1, <2>2
  <2>4. Wrap(currentIndex + Before(p)) =
          IF currentIndex + Before(p) < Size THEN currentIndex + Before(p)
          ELSE currentIndex + Before(p) - Size
    BY <1>1, <2>1, <2>3, WrapFacts DEF Wrap
  <2>5. Wrap(currentIndex + Before(p)) = r
    BY <1>1, <2>1, <2>2, <2>4
  <2>6. QED
    BY <2>3, <2>5, EligibleFacts DEF Turn, r
<1>3. ASSUME NEW i \in 0..(Size - 1)
      PROVE  Turn(i) \in Eligible /\ Before(Turn(i)) = i
  <2> DEFINE w == Wrap(currentIndex + i)
  <2>1. Size > 0 /\ currentIndex < Size /\ i \in Int
    BY <1>1 DEF IndexInv
  <2>2. currentIndex + i \in 0..(2 * Size - 1)
    BY <1>1, <2>1
  <2>3. w = IF currentIndex + i < Size THEN currentIndex + i ELSE currentIndex + i - Size
    BY <1>1, <2>1, <2>2, WrapFacts DEF Wrap
  <2>4. Turn(i) = At(w)
    BY DEF Turn
  <2> HIDE DEF w
  <2>5. w \in 0..(Size - 1)
    BY <1>1, <2>1, <2>3
  <2>6. Turn(i) \in Eligible /\ Rank(Eligible, Turn(i)) = w
    BY <2>4, <2>5, EligibleFacts
  <2>7. Before(Turn(i)) = i
    BY <1>1, <2>1, <2>3, <2>6 DEF Before
  <2>8. QED
    BY <2>6, <2>7
<1>4. QED
  BY <1>2, <1>3

\* What one call of next() that finds a server does: the server it returns is the
\* available one whose turn is first, and the servers up to it go to the end.
LEMMA ChooseFacts ==
  ASSUME TTypeOK, IndexInv, Choose
  PROVE  /\ target' \in Available
         /\ \A p \in Available : p # target' => Before(target') < Before(p)
         /\ Eligible' = Eligible /\ Size' = Size
         /\ currentIndex' \in 0..(Size - 1)
         /\ \A p \in Eligible : p = target' => Before(p)' = Size - 1
         /\ \A p \in Eligible : Before(p) > Before(target') =>
              Before(p)' = Before(p) - Before(target') - 1
<1>1. PICK i \in 0..(Size - 1) :
        /\ Turn(i) \notin drained
        /\ \A j \in 0..(i - 1) : Turn(j) \in drained
        /\ target' = Turn(i)
        /\ currentIndex' = Wrap(currentIndex + i + 1)
        /\ UNCHANGED <<activeType, activeCount, drained>>
  BY DEF Choose
<1>2. currentIndex \in Nat /\ Size \in Nat /\ Size > 0 /\ currentIndex < Size /\ i \in Nat
  BY <1>1, EligibleFacts DEF TTypeOK, TypeOK, IndexInv
<1>3. target' \in Eligible /\ Before(target') = i /\ target' \notin drained
  BY <1>1, TurnFacts
<1>4. ASSUME NEW p \in Available, p # target'
      PROVE  i < Before(p)
  <2>1. p \in Eligible /\ p \notin drained
    BY DEF Available
  <2>2. Before(p) \in 0..(Size - 1) /\ Turn(Before(p)) = p
    BY <2>1, TurnFacts
  <2>3. Before(p) \notin 0..(i - 1) /\ Before(p) # i
    BY <1>1, <1>4, <2>1, <2>2
  <2>4. QED
    BY <1>2, <2>2, <2>3
<1>5. Eligible' = Eligible
  BY <1>1 DEF Eligible
<1>6. Size' = Size
  BY <1>5 DEF Size
<1>7. currentIndex' = IF currentIndex + i + 1 < Size THEN currentIndex + i + 1
                      ELSE currentIndex + i + 1 - Size
  <2>1. currentIndex + i + 1 \in 0..(2 * Size - 1)
    BY <1>1, <1>2
  <2>2. QED
    BY <1>1, <1>2, <2>1, WrapFacts DEF Wrap
<1>8. \A p \in Eligible : Before(p)' = IF Rank(Eligible, p) >= currentIndex'
                                      THEN Rank(Eligible, p) - currentIndex'
                                      ELSE Rank(Eligible, p) + Size - currentIndex'
  BY <1>5, <1>6 DEF Before, Rank
<1>9. \A p \in Eligible : /\ Rank(Eligible, p) \in 0..(Size - 1)
                          /\ Before(p) = IF Rank(Eligible, p) >= currentIndex
                                         THEN Rank(Eligible, p) - currentIndex
                                         ELSE Rank(Eligible, p) + Size - currentIndex
  BY EligibleFacts DEF Before
<1>10. currentIndex' \in 0..(Size - 1)
  BY <1>1, <1>2, <1>7
<1>11. \A p \in Eligible : Before(p) > i => Before(p)' = Before(p) - i - 1
  <2> TAKE p \in Eligible
  <2> DEFINE r == Rank(Eligible, p)
  <2>1. /\ r \in 0..(Size - 1)
        /\ Before(p) = IF r >= currentIndex THEN r - currentIndex ELSE r + Size - currentIndex
        /\ Before(p)' = IF r >= currentIndex' THEN r - currentIndex' ELSE r + Size - currentIndex'
    BY <1>8, <1>9
  <2> HIDE DEF r
  <2>2. QED
    BY <1>1, <1>2, <1>7, <1>10, <2>1
<1>12. \A p \in Eligible : p = target' => Before(p)' = Size - 1
  <2> SUFFICES ASSUME NEW p \in Eligible, p = target' PROVE Before(p)' = Size - 1
    OBVIOUS
  <2> DEFINE r == Rank(Eligible, p)
  <2>1. /\ r \in 0..(Size - 1)
        /\ Before(p) = IF r >= currentIndex THEN r - currentIndex ELSE r + Size - currentIndex
        /\ Before(p)' = IF r >= currentIndex' THEN r - currentIndex' ELSE r + Size - currentIndex'
    BY <1>8, <1>9
  <2> HIDE DEF r
  <2>2. Before(p) = i
    BY <1>3
  <2>3. QED
    BY <1>1, <1>2, <1>7, <1>10, <2>1, <2>2
<1>13. QED
  BY <1>3, <1>4, <1>5, <1>6, <1>10, <1>11, <1>12 DEF Available

-----------------------------------------------------------------------------
(* The invariant *)

LEMMA InitTInv == TInit => TInv
<1> SUFFICES ASSUME TInit PROVE TInv
  OBVIOUS
<1>1. activeCount \in [Types -> Nat]
  <2>1. \A type \in Types : OfType(type) \in SUBSET Positions
    BY DEF OfType
  <2>2. \A type \in Types : Cardinality(OfType(type)) \in Nat
    BY <2>1, PositionsFinite
  <2>3. QED
    BY <2>2 DEF TInit, Init
<1>2. TTypeOK
  BY <1>1 DEF TInit, Init, TTypeOK, TypeOK
<1>3. IndexInv /\ PassedInv
  BY DEF TInit, Init, IndexInv, PassedInv
<1>4. QED
  BY <1>2, <1>3 DEF TInv

LEMMA TChooseTInv ==
  ASSUME TInv, TChoose
  PROVE  TInv'
<1>1. /\ TTypeOK /\ IndexInv /\ Choose
      /\ Size \in Nat /\ Eligible \in SUBSET Positions
  BY EligibleFacts DEF TInv, TChoose
<1>2. TTypeOK'
  <2>1. target' \in Positions /\ currentIndex' \in Nat
    BY <1>1, ChooseFacts DEF Available
  <2>2. UNCHANGED <<activeType, activeCount, drained>>
    BY <1>1 DEF Choose
  <2>3. TypeOK'
    BY <1>1, <2>1, <2>2 DEF TTypeOK, TypeOK
  <2>4. passed' \in [Positions -> SUBSET Positions]
    BY <1>1, <2>1 DEF TTypeOK, TChoose
  <2>5. QED
    BY <2>3, <2>4 DEF TTypeOK
<1>3. IndexInv'
  BY <1>1, ChooseFacts DEF IndexInv
<1>4. ASSUME NEW p \in Positions, NEW q \in passed'[p]
      PROVE  p \in Eligible' /\ q \in Eligible' /\ Before(p)' < Before(q)'
  <2>1. p \in Available /\ p # target' /\ q \in passed[p] \union {target'}
    BY <1>4 DEF TChoose
  <2>2. /\ p \in Eligible /\ p \in Eligible' /\ Before(target') < Before(p)
        /\ target' \in Eligible /\ Eligible' = Eligible
    BY <1>1, <2>1, ChooseFacts DEF Available
  <2>3. Before(p) \in 0..(Size - 1) /\ Before(target') \in 0..(Size - 1)
    BY <1>1, <2>2, TurnFacts
  <2>4. Before(p)' = Before(p) - Before(target') - 1
    BY <1>1, <2>2, ChooseFacts
  <2>5. CASE q = target'
    <3>1. Before(q)' = Size - 1
      BY <1>1, <2>2, <2>5, ChooseFacts
    <3>2. QED
      BY <1>1, <2>2, <2>3, <2>4, <2>5, <3>1
  <2>6. CASE q \in passed[p]
    <3>1. q \in Eligible /\ Before(p) < Before(q)
      BY <2>6 DEF TInv, PassedInv
    <3>2. Before(q) \in 0..(Size - 1)
      BY <1>1, <3>1, TurnFacts
    <3>3. Before(q) > Before(target')
      BY <1>1, <2>2, <2>3, <3>1, <3>2
    <3>4. Before(q)' = Before(q) - Before(target') - 1
      BY <1>1, <3>1, <3>3, ChooseFacts
    <3>5. QED
      BY <1>1, <2>2, <2>3, <2>4, <3>1, <3>2, <3>4
  <2>7. QED
    BY <2>1, <2>5, <2>6
<1>5. PassedInv'
  BY <1>4 DEF PassedInv
<1>6. QED
  BY <1>2, <1>3, <1>5 DEF TInv

\* A whole turn that found nothing leaves the index where it was.
LEMMA ChooseNoneFacts ==
  ASSUME TTypeOK, IndexInv, ChooseNone
  PROVE  /\ currentIndex' = currentIndex
         /\ \A p \in Eligible : p \in drained
<1>1. currentIndex \in Nat /\ Size \in Nat
  BY EligibleFacts DEF TTypeOK, TypeOK
<1>2. currentIndex' = currentIndex
  <2>1. CASE Size = 0
    BY <2>1 DEF ChooseNone
  <2>2. CASE Size > 0
    <3>1. currentIndex < Size
      BY <1>1, <2>2 DEF IndexInv
    <3>2. currentIndex \in 0..(2 * Size - 1)
      BY <1>1, <3>1
    <3>3. QED
      BY <1>1, <2>2, <3>1, <3>2, WrapFacts DEF ChooseNone, Wrap
  <2>3. QED
    BY <1>1, <2>1, <2>2
<1>3. \A p \in Eligible : p \in drained
  BY TurnFacts DEF ChooseNone
<1>4. QED
  BY <1>2, <1>3

LEMMA TChooseNoneTInv ==
  ASSUME TInv, TChooseNone
  PROVE  TInv'
<1>1. UNCHANGED <<activeType, activeCount, drained, passed>> /\ target' = NoServer
  BY DEF TChooseNone, ChooseNone
<1>2. currentIndex' = currentIndex
  BY ChooseNoneFacts DEF TInv, TChooseNone
<1>3. TTypeOK'
  BY <1>1, <1>2 DEF TInv, TTypeOK, TypeOK
<1>4. Eligible' = Eligible
  BY <1>1 DEF Eligible
<1>5. \A p \in Positions : Before(p)' = Before(p)
  BY <1>2, <1>4 DEF Before, Rank, Size
<1>6. IndexInv'
  BY <1>2, <1>4 DEF TInv, IndexInv, Size
<1>7. PassedInv'
  BY <1>1, <1>4, <1>5, EligibleFacts DEF TInv, PassedInv
<1>8. QED
  BY <1>3, <1>6, <1>7 DEF TInv

LEMMA TSetActiveTInv ==
  ASSUME TInv, NEW type \in Types, NEW count \in 0..N, TSetActive(type, count)
  PROVE  TInv'
<1>1. count \in Nat
  BY RouterAssumption
<1>2. TTypeOK'
  BY <1>1 DEF TInv, TTypeOK, TypeOK, TSetActive, SetActive
<1>3. IndexInv' /\ PassedInv'
  BY DEF TSetActive, SetActive, IndexInv, PassedInv
<1>4. QED
  BY <1>2, <1>3 DEF TInv

LEMMA TSetDrainedTInv ==
  ASSUME TInv, NEW S \in SUBSET Positions, TSetDrained(S)
  PROVE  TInv'
<1>1. UNCHANGED <<activeType, activeCount, currentIndex>>
  BY DEF TSetDrained, SetDrained
<1>2. TTypeOK'
  BY DEF TInv, TTypeOK, TypeOK, TSetDrained, SetDrained
<1>3. Eligible' = Eligible
  BY <1>1 DEF Eligible
<1>4. \A p \in Positions : Before(p)' = Before(p)
  BY <1>1, <1>3 DEF Before, Rank, Size
<1>5. IndexInv'
  BY <1>1, <1>3 DEF TInv, IndexInv, Size
<1>6. \A p \in Positions : passed'[p] \subseteq passed[p]
  BY DEF TSetDrained
<1>7. PassedInv'
  BY <1>3, <1>4, <1>6, EligibleFacts DEF TInv, PassedInv
<1>8. QED
  BY <1>2, <1>5, <1>7 DEF TInv

LEMMA TNextTInv ==
  ASSUME TInv, [TNext]_tvars
  PROVE  TInv'
<1>1. CASE UNCHANGED tvars
  <2>1. Eligible' = Eligible
    BY <1>1 DEF tvars, Eligible
  <2>2. \A p \in Positions : Before(p)' = Before(p)
    BY <1>1, <2>1 DEF tvars, Before, Rank, Size
  <2>3. TTypeOK' /\ IndexInv'
    BY <1>1, <2>1 DEF tvars, TInv, TTypeOK, TypeOK, IndexInv, Size
  <2>4. PassedInv'
    BY <1>1, <2>1, <2>2, EligibleFacts DEF tvars, TInv, PassedInv
  <2>5. QED
    BY <2>3, <2>4 DEF TInv
<1>2. QED
  BY <1>1, TChooseTInv, TChooseNoneTInv, TSetActiveTInv, TSetDrainedTInv DEF TNext

-----------------------------------------------------------------------------
(* The theorems *)

LEMMA ChooseKeepsTurns ==
  ASSUME TInv, TChoose
  PROVE  /\ target' \in Available
         /\ \A p \in Available : p = target' \/ target' \notin passed[p]
<1>1. TTypeOK /\ IndexInv /\ Choose
  BY DEF TInv, TChoose
<1>2. ASSUME NEW p \in Available, p # target', target' \in passed[p]
      PROVE  FALSE
  <2>1. p \in Eligible /\ target' \in Eligible /\ Before(target') < Before(p)
    BY <1>1, <1>2, ChooseFacts DEF Available
  <2>2. Before(p) < Before(target')
    BY <1>2, <2>1, EligibleFacts DEF TInv, PassedInv
  <2>3. Before(p) \in Int /\ Before(target') \in Int
    BY <1>1, <2>1, TurnFacts
  <2>4. QED
    BY <2>1, <2>2, <2>3
<1>3. QED
  BY <1>1, <1>2, ChooseFacts

LEMMA NoneIsNone ==
  ASSUME TInv, TChooseNone
  PROVE  Available = {}
BY ChooseNoneFacts DEF TInv, TChooseNone, Available

\* The admin's count is the length of the list: slice(0, count) of the servers of
\* a type that has as many.
LEMMA EligibleCount ==
  ASSUME NEW type \in Types, NEW count \in [Types -> Nat],
         count[type] <= Cardinality(OfType(type))
  PROVE  Cardinality(EligibleFor(type, count)) = count[type]
<1> DEFINE S == OfType(type)
           E == EligibleFor(type, count)
           T == 0..(count[type] - 1)
           f == [p \in E |-> Rank(S, p)]
<1>1. S \in SUBSET Positions /\ Cardinality(S) \in Nat /\ count[type] \in Nat
  BY PositionsFinite DEF OfType
<1>2. E = {p \in S : Rank(S, p) < count[type]}
  BY RouterAssumption DEF EligibleFor
<1>3. IsFiniteSet(T) /\ Cardinality(T) = count[type]
  <2>1. count[type] - 1 \in Int /\ 0 \in Int
    BY <1>1
  <2>2. /\ IsFiniteSet(T)
        /\ Cardinality(T) = IF 0 > count[type] - 1 THEN 0 ELSE count[type] - 1 - 0 + 1
    BY <2>1, FS_Interval, Zenon
  <2>3. QED
    BY <1>1, <2>2
<1>4. \A p \in S : Rank(S, p) \in 0..(Cardinality(S) - 1)
  BY <1>1, RankFacts
<1> HIDE DEF S, E
<1>5. \A p \in E : p \in S /\ Rank(S, p) \in T
  BY <1>1, <1>2, <1>4
<1>6. \A a, b \in E : f[a] = f[b] => a = b
  BY <1>1, <1>5, RankInjective
<1>7. f \in Injection(E, T)
  BY <1>5, <1>6 DEF Injection, IsInjective
<1>8. \A i \in T : \E p \in E : f[p] = i
  <2> TAKE i \in T
  <2>1. i \in 0..(Cardinality(S) - 1) /\ i < count[type]
    BY <1>1 DEF S
  <2>2. PICK p \in S : Rank(S, p) = i
    BY <1>1, <2>1, RankOnto
  <2>3. p \in E
    BY <1>2, <2>1, <2>2
  <2>4. QED
    BY <2>2, <2>3
<1>9. f \in Surjection(E, T)
  BY <1>7, <1>8 DEF Injection, Surjection
<1>10. Cardinality(E) = Cardinality(T)
  BY <1>3, <1>7, <1>9, FS_Injection
<1>11. QED
  BY <1>3, <1>10 DEF E

\* For any list of servers, types, drains and admin calls: while a server is
\* available, no other is returned twice before it is returned once.
THEOREM RoundRobin == TSpec => NoOvertaking
<1>1. TInv /\ [TNext]_tvars =>
        [TChoose => \A p \in Available : p = target' \/ target' \notin passed[p]]_tvars
  BY ChooseKeepsTurns
<1>2. QED
  BY <1>1, InitTInv, TNextTInv, PTL DEF TSpec, NoOvertaking

\* For any list: next() returns an available server whenever there is one.
THEOREM NextFindsAvailable == TSpec => NextSound
<1>1. TInv /\ [TNext]_tvars =>
        [/\ TChoose => target' \in Available
         /\ TChooseNone => Available = {}]_tvars
  BY ChooseKeepsTurns, NoneIsNone
<1>2. QED
  BY <1>1, InitTInv, TNextTInv, PTL DEF TSpec, NextSound

\* POST /admin/servers makes the posted number of servers eligible, for every
\* list and every type in it.
THEOREM PostedCount ==
  TSpec => [][\A type \in Types, count \in 0..N :
                TSetActive(type, count) => Size' = count]_tvars
<1>1. ASSUME TInv, NEW type \in Types, NEW count \in 0..N, TSetActive(type, count)
      PROVE  Size' = count
  <2>1. /\ activeType' = type /\ activeCount' \in [Types -> Nat]
        /\ activeCount'[type] = count /\ count <= Cardinality(OfType(type))
    BY <1>1, TSetActiveTInv DEF TInv, TTypeOK, TypeOK, TSetActive, SetActive
  <2>2. Cardinality(EligibleFor(type, activeCount')) = count
    BY <2>1, EligibleCount
  <2>3. QED
    BY <2>1, <2>2 DEF Size, Eligible
<1>2. TInv /\ [TNext]_tvars =>
        [\A type \in Types, count \in 0..N : TSetActive(type, count) => Size' = count]_tvars
  BY <1>1
<1>3. QED
  BY <1>2, InitTInv, TNextTInv, PTL DEF TSpec
=============================================================================

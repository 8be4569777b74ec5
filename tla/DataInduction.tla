---------------------------- MODULE DataInduction ----------------------------
(***************************************************************************)
(* Induction without predicates: a set that holds the first number (the    *)
(* empty sequence) and with each number (sequence) the next one holds them *)
(* all.  It rests on the well-foundedness of < alone, and serves for what  *)
(* the models compute by folds over sequences, sets and functions.         *)
(***************************************************************************)
EXTENDS Integers, Sequences, FiniteSetTheorems, SequenceTheorems, WellFoundedInduction,
        TLAPS

\* A non-empty set of natural numbers has a least one.
LEMMA LeastNat ==
  ASSUME NEW T \in SUBSET Nat, T # {}
  PROVE \E x \in T : \A y \in T : x <= y
<1> DEFINE R == {ss \in Nat \X Nat : ss[1] < ss[2]}
<1>1. IsWellFoundedOn(R, Nat)
  BY NatLessThanWellFounded DEF OpToRel
<1> HIDE DEF R
<1>2. PICK x \in T : \A y \in T : ~ (<<y, x>> \in R)
  BY <1>1, WFMin
<1>3. \A y \in T : ~(y < x)
  BY <1>2 DEF R
<1>4. QED
  BY <1>3

\* Induction: a set that holds 0 and all successors of its members is Nat.
LEMMA Induction ==
  ASSUME NEW S \in SUBSET Nat, 0 \in S, \A n \in S : n + 1 \in S
  PROVE S = Nat
<1> SUFFICES ASSUME Nat \ S # {} PROVE FALSE
  OBVIOUS
<1>1. PICK x \in Nat \ S : \A y \in Nat \ S : x <= y
  BY LeastNat
<1>2. x # 0 /\ x - 1 \in Nat 
  BY <1>1
<1>3. x - 1 \in S
  BY <1>1, <1>2
<1>4. (x - 1) + 1 = x
  BY <1>1
<1>5. QED
  BY <1>3, <1>4, <1>1

\* Induction over sequences.
LEMMA SequencesInduction ==
  ASSUME NEW S, NEW T \in SUBSET Seq(S), <<>> \in T,
         \A s \in T, x \in S : Append(s, x) \in T
  PROVE  T = Seq(S)
<1> DEFINE L == {n \in Nat : \A s \in Seq(S) : Len(s) = n => s \in T}
<1>1. 0 \in L
  BY EmptySeq
<1>2. ASSUME NEW n \in L PROVE n + 1 \in L
  <2>1. ASSUME NEW s \in Seq(S), Len(s) = n + 1 PROVE s \in T
    <3>1. s # <<>>
      BY <2>1, EmptySeq
    <3>2. PICK t \in Seq(S), x \in S : s = Append(t, x)
      BY <3>1, SequenceEmptyOrAppend
    <3>3. Len(t) \in Nat /\ Len(s) = Len(t) + 1
      BY <3>2, AppendProperties, LenProperties
    <3>4. Len(t) = n
      BY <2>1, <3>3
    <3>5. t \in T
      BY <3>4
    <3>6. QED
      BY <3>2, <3>5
  <2>2. QED
    BY <2>1
<1> HIDE DEF L
<1>3. L = Nat
  <2>1. L \in SUBSET Nat
    BY DEF L
  <2>2. QED
    BY <1>1, <1>2, <2>1, Induction
<1>4. \A s \in Seq(S) : s \in T
  <2>1. \A s \in Seq(S) : Len(s) \in L
    BY <1>3, LenProperties
  <2>2. QED
    BY <2>1 DEF L
<1>5. QED
  BY <1>4

\* What is appended to the second of two sequences is appended to both.
LEMMA ConcatAppend ==
  ASSUME NEW S, NEW s \in Seq(S), NEW t \in Seq(S), NEW x \in S
  PROVE  s \o Append(t, x) = Append(s \o t, x)
OBVIOUS
-----------------------------------------------------------------------------
(* Sums *)

\* One step of the fold behind SumFunctionOnSet: g is what it makes of smaller sets.
SumBody(f, g, s) ==
  IF s = {} THEN 0
  ELSE f[CHOOSE x \in s : TRUE] + g[s \ {CHOOSE x \in s : TRUE}]

\* The subsets of S of at most n elements.
Small(S, n) == {s \in SUBSET S : Cardinality(s) <= n}

LEMMA SmallFacts ==
  ASSUME NEW S, IsFiniteSet(S)
  PROVE  /\ \A s \in SUBSET S : IsFiniteSet(s) /\ Cardinality(s) \in Nat
         /\ \A s \in SUBSET S : \A x \in s : /\ s \ {x} \in SUBSET S
                                             /\ Cardinality(s \ {x}) = Cardinality(s) - 1
         /\ Small(S, Cardinality(S)) = SUBSET S
         /\ Small(S, 0) = {{}}
         /\ \A n \in Nat : Small(S, n) \subseteq Small(S, n + 1)
         /\ \A n \in Nat : \A s \in Small(S, n + 1) : \A x \in s : s \ {x} \in Small(S, n)
<1>1. \A s \in SUBSET S : IsFiniteSet(s) /\ Cardinality(s) \in Nat /\ Cardinality(s) <= Cardinality(S)
  BY FS_Subset, FS_CardinalityType
<1>2. \A s \in SUBSET S : \A x \in s : /\ s \ {x} \in SUBSET S
                                       /\ Cardinality(s \ {x}) = Cardinality(s) - 1
  BY <1>1, FS_RemoveElement
<1>3. Small(S, Cardinality(S)) = SUBSET S
  BY <1>1 DEF Small
<1>4. Small(S, 0) = {{}}
  <2>1. ASSUME NEW s \in SUBSET S, Cardinality(s) <= 0 PROVE s = {}
    <3>1. Cardinality(s) = 0
      BY <1>1, <2>1
    <3>2. QED
      BY <1>1, <3>1, FS_EmptySet
  <2>2. Cardinality({}) <= 0
    BY FS_EmptySet
  <2>3. QED
    BY <2>1, <2>2 DEF Small
<1>5. \A n \in Nat : Small(S, n) \subseteq Small(S, n + 1)
  BY <1>1 DEF Small
<1>6. ASSUME NEW n \in Nat, NEW s \in Small(S, n + 1), NEW x \in s
      PROVE  s \ {x} \in Small(S, n)
  <2>1. s \in SUBSET S /\ Cardinality(s) <= n + 1
    BY DEF Small
  <2>2. s \ {x} \in SUBSET S /\ Cardinality(s \ {x}) = Cardinality(s) - 1 /\ Cardinality(s) \in Nat
    BY <1>1, <1>2, <2>1
  <2>3. Cardinality(s \ {x}) <= n
    BY <2>1, <2>2
  <2>4. QED
    BY <2>2, <2>3 DEF Small
<1>7. QED
  BY <1>1, <1>2, <1>3, <1>4, <1>5, <1>6

\* The fold is defined.
LEMMA SumIterExists ==
  ASSUME NEW f, NEW S, IsFiniteSet(S)
  PROVE  \E g : g = [s \in SUBSET S |-> SumBody(f, g, s)]
<1> DEFINE P(n) == \E g : g = [s \in Small(S, n) |-> SumBody(f, g, s)]
           T == {n \in Nat : P(n)}
<1>1. P(0)
  <2> DEFINE g == [s \in {{}} |-> 0]
  <2>1. \A s \in {{}} : SumBody(f, g, s) = 0
    BY DEF SumBody
  <2>2. g = [s \in {{}} |-> SumBody(f, g, s)]
    <3>1. g = [s \in {{}} |-> g[s]] /\ \A s \in {{}} : g[s] = 0
      OBVIOUS
    <3> HIDE DEF g
    <3>2. QED
      BY <2>1, <3>1
  <2> HIDE DEF g
  <2>3. QED
    BY <2>2, SmallFacts
<1>2. ASSUME NEW n \in Nat, P(n) PROVE P(n + 1)
  <2>1. PICK g : g = [s \in Small(S, n) |-> SumBody(f, g, s)]
    BY <1>2
  <2> DEFINE h == [s \in Small(S, n + 1) |-> SumBody(f, g, s)]
  <2>2. \A s \in Small(S, n) : g[s] = SumBody(f, g, s)
    BY <2>1
  <2>3. \A s \in Small(S, n) : s \in Small(S, n + 1)
    BY SmallFacts
  <2>4. \A s \in Small(S, n + 1) : h[s] = SumBody(f, g, s)
    OBVIOUS
  <2>5. \A s \in Small(S, n) : h[s] = g[s]
    BY <2>2, <2>3, <2>4
  <2>6. h = [s \in Small(S, n + 1) |-> h[s]]
    OBVIOUS
  <2> HIDE DEF h
  <2>7. ASSUME NEW s \in Small(S, n + 1) PROVE h[s] = SumBody(f, h, s)
    <3>1. CASE s = {}
      BY <2>4, <3>1 DEF SumBody
    <3>2. CASE s # {}
      <4> DEFINE x == CHOOSE x \in s : TRUE
      <4>1. x \in s
        BY <3>2
      <4>2. h[s \ {x}] = g[s \ {x}]
        BY <4>1, <2>5, SmallFacts
      <4>3. h[s] = f[x] + g[s \ {x}] /\ SumBody(f, h, s) = f[x] + h[s \ {x}]
        BY <2>4, <3>2 DEF SumBody
      <4>4. QED
        BY <4>2, <4>3
    <3>3. QED
      BY <3>1, <3>2
  <2>8. h = [s \in Small(S, n + 1) |-> SumBody(f, h, s)]
    BY <2>6, <2>7
  <2>9. QED
    BY <2>8
<1> HIDE DEF P
<1>3. T = Nat
  <2>1. 0 \in T
    BY <1>1
  <2>2. \A n \in T : n + 1 \in T
    BY <1>2
  <2>3. QED
    BY <2>1, <2>2, Induction
<1>4. Cardinality(S) \in T
  BY <1>3, FS_CardinalityType
<1>5. P(Cardinality(S))
  BY <1>4
<1>6. QED
  BY <1>5, SmallFacts DEF P

\* g sums f up over all subsets of S, whichever of its elements is taken first.
Sums(f, S, g) ==
  /\ g[{}] = 0
  /\ \A s \in SUBSET S : g[s] \in Nat
  /\ \A s \in SUBSET S : \A x \in s : g[s] = f[x] + g[s \ {x}]

LEMMA SumsExist ==
  ASSUME NEW S, IsFiniteSet(S), NEW f, \A x \in S : f[x] \in Nat
  PROVE  \E g : Sums(f, S, g) /\ SumFunctionOnSet(f, S) = g[S]
<1> DEFINE Q(g) == g = [s \in SUBSET S |-> SumBody(f, g, s)]
<1>1. Q(CHOOSE g : Q(g))
  BY SumIterExists
<1>2. SumFunctionOnSet(f, S) = (CHOOSE g : Q(g))[S]
  BY DEF SumFunctionOnSet, FoldFunctionOnSet, MapThenFoldSet, SumBody
<1>3. PICK g : Q(g) /\ SumFunctionOnSet(f, S) = g[S]
  BY <1>1, <1>2
<1>4. \A s \in SUBSET S : g[s] = SumBody(f, g, s)
  BY <1>3
<1>5. g[{}] = 0
  BY <1>4 DEF SumBody
<1> DEFINE P(n) == \A s \in Small(S, n) : /\ g[s] \in Nat
                                          /\ \A x \in s : g[s] = f[x] + g[s \ {x}]
           T == {n \in Nat : P(n)}
<1>6. P(0)
  <2>1. \A s \in Small(S, 0) : s = {}
    BY SmallFacts
  <2>2. g[{}] \in Nat
    BY <1>5
  <2>3. QED
    BY <2>1, <2>2
<1>7. ASSUME NEW n \in Nat, P(n) PROVE P(n + 1)
  <2> SUFFICES ASSUME NEW s \in Small(S, n + 1)
               PROVE  g[s] \in Nat /\ \A x \in s : g[s] = f[x] + g[s \ {x}]
    OBVIOUS
  <2>1. CASE s = {}
    BY <1>5, <2>1
  <2>2. CASE s # {}
    <3> DEFINE y == CHOOSE y \in s : TRUE
    <3>1. y \in s
      BY <2>2
    <3>2. g[s] = f[y] + g[s \ {y}]
      BY <1>4, <2>2 DEF SumBody, Small
    <3> HIDE DEF y
    <3>3. \A x \in s : /\ f[x] \in Nat
                       /\ s \ {x} \in Small(S, n) /\ g[s \ {x}] \in Nat
                       /\ \A z \in s \ {x} : /\ g[s \ {x}] = f[z] + g[(s \ {x}) \ {z}]
                                             /\ (s \ {x}) \ {z} \in Small(S, n)
      <4>1. \A x \in s : s \ {x} \in Small(S, n) /\ x \in S
        BY SmallFacts DEF Small
      <4>2. \A x \in s : \A z \in s \ {x} : (s \ {x}) \ {z} \in Small(S, n)
        <5> TAKE x \in s
        <5> TAKE z \in s \ {x}
        <5>1. s \ {x} \in Small(S, n + 1)
          BY <4>1, SmallFacts
        <5>2. QED
          BY <5>1, SmallFacts
      <4>3. QED
        BY <1>7, <4>1, <4>2
    <3>4. ASSUME NEW x \in s PROVE g[s] = f[x] + g[s \ {x}]
      <4>1. CASE x = y
        BY <3>2, <4>1
      <4>2. CASE x # y
        <5> DEFINE r == (s \ {x}) \ {y}
        <5>1. r = (s \ {y}) \ {x} /\ x \in s \ {y} /\ y \in s \ {x}
          BY <3>1, <4>2
        <5>2. g[s \ {y}] = f[x] + g[r]
          BY <3>1, <3>3, <5>1
        <5>3. g[s \ {x}] = f[y] + g[r] /\ r \in Small(S, n)
          BY <3>3, <5>1
        <5>4. g[r] \in Nat /\ f[x] \in Nat /\ f[y] \in Nat
          BY <1>7, <3>1, <3>3, <5>3
        <5> HIDE DEF r
        <5>5. g[s] = f[y] + (f[x] + g[r])
          BY <3>2, <5>2
        <5>6. f[y] + (f[x] + g[r]) = f[x] + (f[y] + g[r])
          BY <5>4
        <5>7. QED
          BY <5>3, <5>5, <5>6
      <4>3. QED
        BY <4>1, <4>2
    <3>5. g[s] \in Nat
      <4>1. f[y] \in Nat /\ g[s \ {y}] \in Nat
        BY <3>1, <3>3
      <4>2. QED
        BY <3>2, <4>1
    <3>6. QED
      BY <3>4, <3>5
  <2>3. QED
    BY <2>1, <2>2
<1> HIDE DEF P
<1>8. T = Nat
  <2>1. 0 \in T
    BY <1>6
  <2>2. \A n \in T : n + 1 \in T
    BY <1>7
  <2>3. QED
    BY <2>1, <2>2, Induction
<1>9. P(Cardinality(S))
  BY <1>8, FS_CardinalityType
<1>10. Sums(f, S, g)
  BY <1>5, <1>9, SmallFacts DEF P, Sums
<1>11. QED
  BY <1>3, <1>10

\* There is one sum: of functions that agree on the set.
LEMMA SumsAgree ==
  ASSUME NEW S, IsFiniteSet(S), NEW f, NEW e, \A x \in S : f[x] = e[x],
         NEW g, NEW h, Sums(f, S, g), Sums(e, S, h)
  PROVE  \A s \in SUBSET S : g[s] = h[s]
<1> DEFINE T == {n \in Nat : \A s \in Small(S, n) : g[s] = h[s]}
<1>1. 0 \in T
  <2>1. g[{}] = 0 /\ h[{}] = 0
    BY DEF Sums
  <2>2. \A s \in Small(S, 0) : s = {}
    BY SmallFacts
  <2>3. QED
    BY <2>1, <2>2
<1>2. ASSUME NEW n \in T, NEW s \in Small(S, n + 1) PROVE g[s] = h[s]
  <2>1. CASE s = {}
    BY <2>1 DEF Sums
  <2>2. CASE s # {}
    <3>1. PICK x \in s : TRUE
      BY <2>2
    <3>2. s \in SUBSET S /\ x \in S
      BY DEF Small
    <3>3. g[s \ {x}] = h[s \ {x}]
      BY SmallFacts
    <3>4. g[s] = f[x] + g[s \ {x}] /\ h[s] = e[x] + h[s \ {x}]
      BY <3>2 DEF Sums
    <3>5. QED
      BY <3>2, <3>3, <3>4
  <2>3. QED
    BY <2>1, <2>2
<1> HIDE DEF T
<1>3. T = Nat
  <2>1. T \in SUBSET Nat
    BY DEF T
  <2>2. \A n \in T : n + 1 \in T
    BY <1>2, <2>1 DEF T
  <2>3. QED
    BY <1>1, <2>1, <2>2, Induction
<1>4. \A s \in Small(S, Cardinality(S)) : g[s] = h[s]
  BY <1>3, FS_CardinalityType DEF T
<1>5. QED
  BY <1>4, SmallFacts

\* The sum over no element, over one more, and of a function that agrees.
LEMMA SumOfNone == \A f : SumFunctionOnSet(f, {}) = 0
<1> TAKE f
<1>1. PICK g : Sums(f, {}, g) /\ SumFunctionOnSet(f, {}) = g[{}]
  BY FS_EmptySet, SumsExist
<1>2. QED
  BY <1>1 DEF Sums

LEMMA SumSplit ==
  ASSUME NEW S, IsFiniteSet(S), NEW f, \A x \in S : f[x] \in Nat, NEW x \in S
  PROVE  /\ SumFunctionOnSet(f, S) \in Nat
         /\ SumFunctionOnSet(f, S \ {x}) \in Nat
         /\ SumFunctionOnSet(f, S) = f[x] + SumFunctionOnSet(f, S \ {x})
<1> DEFINE R == S \ {x}
<1>1. PICK g : Sums(f, S, g) /\ SumFunctionOnSet(f, S) = g[S]
  BY SumsExist
<1>2. IsFiniteSet(R) /\ R \in SUBSET S
  BY FS_RemoveElement
<1>3. PICK h : Sums(f, R, h) /\ SumFunctionOnSet(f, R) = h[R]
  BY <1>2, SumsExist
<1>4. Sums(f, R, g)
  BY <1>1, <1>2 DEF Sums
<1>5. g[R] = h[R]
  BY <1>2, <1>3, <1>4, SumsAgree
<1>6. g[S] = f[x] + g[R] /\ g[S] \in Nat /\ g[R] \in Nat
  BY <1>1, <1>2 DEF Sums
<1>7. QED
  BY <1>1, <1>3, <1>5, <1>6

LEMMA SumAgrees ==
  ASSUME NEW S, IsFiniteSet(S), NEW f, NEW e, \A x \in S : f[x] \in Nat /\ f[x] = e[x]
  PROVE  SumFunctionOnSet(f, S) = SumFunctionOnSet(e, S)
<1>1. PICK g : Sums(f, S, g) /\ SumFunctionOnSet(f, S) = g[S]
  BY SumsExist
<1>2. PICK h : Sums(e, S, h) /\ SumFunctionOnSet(e, S) = h[S]
  BY SumsExist
<1>3. QED
  BY <1>1, <1>2, SumsAgree
LEMMA SumUpdated ==
  ASSUME NEW S, IsFiniteSet(S), NEW f, \A x \in S : f[x] \in Nat,
         NEW i \in S, NEW e, e[i] \in Nat, \A x \in S : x # i => e[x] = f[x]
  PROVE  SumFunctionOnSet(e, S) + f[i] = SumFunctionOnSet(f, S) + e[i]
<1> DEFINE R == S \ {i}
<1>1. IsFiniteSet(R) /\ \A x \in R : f[x] \in Nat /\ f[x] = e[x]
  BY FS_RemoveElement
<1>2. SumFunctionOnSet(f, R) = SumFunctionOnSet(e, R)
  BY <1>1, SumAgrees
<1>3. \A x \in S : e[x] \in Nat
  OBVIOUS
<1>4. /\ SumFunctionOnSet(f, R) \in Nat
      /\ SumFunctionOnSet(f, S) = f[i] + SumFunctionOnSet(f, R)
  BY SumSplit
<1>5. SumFunctionOnSet(e, S) = e[i] + SumFunctionOnSet(e, R)
  BY <1>3, SumSplit
<1>6. f[i] \in Nat
  OBVIOUS
<1> HIDE DEF R
<1>7. QED
  BY <1>2, <1>4, <1>5, <1>6

\* Sums over 1..n, by their last term and by the sums of two functions.
LEMMA PrefixSum ==
  ASSUME NEW n \in Nat, NEW f, \A i \in 1..(n + 1) : f[i] \in Nat
  PROVE  /\ SumFunctionOnSet(f, 1..(n + 1)) = SumFunctionOnSet(f, 1..n) + f[n + 1]
         /\ SumFunctionOnSet(f, 1..n) \in Nat
<1> DEFINE S == 1..(n + 1)
           R == 1..n
<1>1. IsFiniteSet(S) /\ n + 1 \in S /\ S \ {n + 1} = R /\ \A i \in S : f[i] \in Nat
  BY FS_Interval
<1> HIDE DEF S, R
<1>2. /\ SumFunctionOnSet(f, R) \in Nat
      /\ SumFunctionOnSet(f, S) = f[n + 1] + SumFunctionOnSet(f, R)
  BY <1>1, SumSplit
<1>3. f[n + 1] \in Nat
  BY <1>1
<1>4. QED
  BY <1>2, <1>3 DEF S, R

LEMMA SumOfSums ==
  ASSUME NEW n \in Nat, NEW f, NEW e, NEW h,
         \A i \in 1..n : f[i] \in Nat /\ e[i] \in Nat /\ h[i] = f[i] + e[i]
  PROVE  /\ SumFunctionOnSet(h, 1..n) = SumFunctionOnSet(f, 1..n) + SumFunctionOnSet(e, 1..n)
         /\ SumFunctionOnSet(f, 1..n) \in Nat
         /\ SumFunctionOnSet(e, 1..n) \in Nat
<1> DEFINE F(k) == SumFunctionOnSet(f, 1..k)
           E(k) == SumFunctionOnSet(e, 1..k)
           H(k) == SumFunctionOnSet(h, 1..k)
           Add(k) == H(k) = F(k) + E(k) /\ F(k) \in Nat /\ E(k) \in Nat
           T == {k \in Nat : k <= n => Add(k)}
<1>1. 0 \in T
  <2>1. 1..0 = {}
    OBVIOUS
  <2>2. F(0) = 0 /\ E(0) = 0 /\ H(0) = 0
    BY <2>1, SumOfNone
  <2> HIDE DEF F, E, H
  <2>3. QED
    BY <2>2
<1>2. ASSUME NEW k \in T PROVE k + 1 \in T
  <2> SUFFICES ASSUME k + 1 <= n PROVE Add(k + 1)
    OBVIOUS
  <2>1. k \in Nat /\ Add(k)
    OBVIOUS
  <2>2. \A i \in 1..(k + 1) : f[i] \in Nat /\ e[i] \in Nat /\ h[i] \in Nat
    BY <2>1
  <2>3. F(k + 1) = F(k) + f[k + 1] /\ E(k + 1) = E(k) + e[k + 1] /\ H(k + 1) = H(k) + h[k + 1]
    BY <2>1, <2>2, PrefixSum
  <2>4. h[k + 1] = f[k + 1] + e[k + 1] /\ f[k + 1] \in Nat /\ e[k + 1] \in Nat
    BY <2>1
  <2> HIDE DEF F, E, H, T
  <2>5. QED
    BY <2>1, <2>3, <2>4
<1> HIDE DEF Add
<1>3. T = Nat
  BY <1>1, <1>2, Induction
<1>4. Add(n)
  BY <1>3
<1>5. QED
  BY <1>4 DEF Add

\* A finite set of natural numbers that is not empty has a greatest one.
LEMMA GreatestNat ==
  ASSUME NEW S \in SUBSET Nat, IsFiniteSet(S), S # {}
  PROVE  \E x \in S : \A y \in S : y <= x
<1> DEFINE HasGreatest(s) == s # {} => \E x \in s : \A y \in s : y <= x
           T == {n \in Nat : \A s \in Small(S, n) : HasGreatest(s)}
<1>1. 0 \in T
  BY SmallFacts
<1>2. ASSUME NEW n \in T, NEW s \in Small(S, n + 1), s # {}
      PROVE  \E x \in s : \A y \in s : y <= x
  <2>1. PICK z \in s : TRUE
    BY <1>2
  <2>2. s \in SUBSET Nat /\ HasGreatest(s \ {z})
    <3>1. s \in SUBSET S
      BY DEF Small
    <3>2. s \ {z} \in Small(S, n)
      BY <2>1, SmallFacts
    <3> HIDE DEF HasGreatest
    <3>3. QED
      BY <3>1, <3>2
  <2>3. CASE s \ {z} = {}
    BY <2>1, <2>2, <2>3
  <2>4. CASE s \ {z} # {}
    <3>1. PICK x \in s \ {z} : \A y \in s \ {z} : y <= x
      BY <2>2, <2>4
    <3>2. CASE z <= x
      BY <3>1, <3>2
    <3>3. CASE ~(z <= x)
      BY <2>2, <3>1, <3>3
    <3>4. QED
      BY <3>2, <3>3
  <2>5. QED
    BY <2>3, <2>4
<1> HIDE DEF HasGreatest
<1>3. T = Nat
  <2>1. \A n \in T : n + 1 \in T
    BY <1>2 DEF HasGreatest
  <2>2. QED
    BY <1>1, <2>1, Induction
<1>4. HasGreatest(S)
  BY <1>3, SmallFacts, FS_CardinalityType
<1>5. QED
  BY <1>4 DEF HasGreatest
=============================================================================

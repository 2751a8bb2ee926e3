----------------------------- MODULE NumberLemmas -----------------------------
(***************************************************************************)
(* Natural numbers and sets of them.  Induction is said of sets of numbers *)
(* rather than of predicates: no lemma takes an operator as a parameter.   *)
(* What holds of every value of a recursive function is proved with it.    *)
(***************************************************************************)
EXTENDS Naturals, FiniteSetTheorems, WellFoundedInduction, TLAPS

\* A set of numbers has a least one.
LEMMA LeastNumber ==
  ASSUME NEW S \in SUBSET Nat, S # {}
  PROVE  \E n \in S : \A m \in S : n <= m
<1> DEFINE Smaller == {p \in Nat \X Nat : p[1] < p[2]}
<1>1. IsWellFoundedOn(Smaller, Nat)
  BY NatLessThanWellFounded DEF OpToRel
<1>2. PICK n \in S : \A m \in S : ~ (<<m, n>> \in Smaller)
  BY <1>1, WFMin
<1>3. \A m \in S : ~ (m < n)
  <2> TAKE m \in S
  <2>1. <<m, n>> \notin Smaller
    BY <1>2
  <2>2. <<m, n>> \in Nat \X Nat
    OBVIOUS
  <2> QED
    BY <2>1, <2>2
<1> QED
  BY <1>3

\* A set that holds 0 and with every number its successor holds all up to N.
LEMMA Induction ==
  ASSUME NEW N \in Nat, NEW S, 0 \in S, \A n \in 0..(N - 1) : n \in S => n + 1 \in S
  PROVE  \A n \in 0..N : n \in S
<1> DEFINE Rest == {n \in 0..N : n \notin S}
<1> SUFFICES ASSUME Rest # {}
             PROVE  FALSE
  OBVIOUS
<1>1. Rest \in SUBSET Nat
  OBVIOUS
<1>2. PICK least \in Rest : \A n \in Rest : least <= n
  <2> HIDE DEF Rest
  <2> QED
    BY <1>1, LeastNumber
<1>3. least - 1 \in 0..(N - 1) /\ least - 1 \in S
  BY <1>2
<1> QED
  BY <1>3

\* How many of a set of numbers are below one of them.
Below(S, p) == {q \in S : q < p}

\* Of n numbers, each has between 0 and n - 1 below it, and no two as many.
LEMMA Ranks ==
  ASSUME NEW S \in SUBSET Nat, IsFiniteSet(S)
  PROVE  /\ Cardinality(S) \in Nat
         /\ \A p \in S : Cardinality(Below(S, p)) \in 0..(Cardinality(S) - 1)
         /\ \A p, q \in S : p < q => Cardinality(Below(S, p)) < Cardinality(Below(S, q))
<1>1. Cardinality(S) \in Nat
  BY FS_CardinalityType
<1>2. \A p \in S : IsFiniteSet(Below(S, p)) /\ Cardinality(Below(S, p)) \in Nat
  BY FS_Subset, FS_CardinalityType DEF Below
<1>3. ASSUME NEW T \in SUBSET S, NEW U \in SUBSET S, T \subseteq U, T # U
      PROVE  Cardinality(T) < Cardinality(U)
  <2>1. IsFiniteSet(U)
    BY FS_Subset
  <2>2. /\ IsFiniteSet(T) /\ Cardinality(T) <= Cardinality(U)
        /\ Cardinality(U) = Cardinality(T) => U = T
    BY <1>3, <2>1, FS_Subset
  <2>3. Cardinality(U) \in Nat /\ Cardinality(T) \in Nat
    BY <2>1, <2>2, FS_CardinalityType
  <2> QED
    BY <1>3, <2>2, <2>3
<1>4. ASSUME NEW p \in S
      PROVE  Cardinality(Below(S, p)) < Cardinality(S)
  <2>1. Below(S, p) \in SUBSET S /\ Below(S, p) # S
    BY DEF Below
  <2> QED
    BY <2>1, <1>3
<1>5. ASSUME NEW p \in S, NEW q \in S, p < q
      PROVE  Cardinality(Below(S, p)) < Cardinality(Below(S, q))
  <2>1. Below(S, p) \in SUBSET S /\ Below(S, q) \in SUBSET S
    BY DEF Below
  <2>2. Below(S, p) \subseteq Below(S, q)
    <3> SUFFICES ASSUME NEW n \in S, n < p
                 PROVE  n < q
      BY DEF Below
    <3>1. n \in Nat /\ p \in Nat /\ q \in Nat
      OBVIOUS
    <3> QED
      BY <1>5, <3>1
  <2>3. p \in Below(S, q) /\ p \notin Below(S, p)
    BY <1>5 DEF Below
  <2> QED
    BY <2>1, <2>2, <2>3, <1>3
<1> QED
  BY <1>1, <1>2, <1>4, <1>5

\* So each of 0 .. n - 1 is the number of those below one of them.
LEMMA RanksTaken ==
  ASSUME NEW S \in SUBSET Nat, IsFiniteSet(S), NEW n \in 0..(Cardinality(S) - 1)
  PROVE  \E p \in S : Cardinality(Below(S, p)) = n
<1> DEFINE c == Cardinality(S)
           f == [p \in S |-> Cardinality(Below(S, p))]
<1>1. c \in Nat /\ f \in [S -> 0..(c - 1)]
  BY Ranks
<1>2. \A p, q \in S : f[p] = f[q] => p = q
  <2> TAKE p, q \in S
  <2>1. p \in Nat /\ q \in Nat
    OBVIOUS
  <2>2. p < q => Cardinality(Below(S, p)) < Cardinality(Below(S, q))
    BY Ranks
  <2>3. q < p => Cardinality(Below(S, q)) < Cardinality(Below(S, p))
    BY Ranks
  <2>4. Cardinality(Below(S, p)) \in Nat /\ Cardinality(Below(S, q)) \in Nat
    BY Ranks
  <2> QED
    BY <2>1, <2>2, <2>3, <2>4
<1>3. f \in Injection(S, 0..(c - 1))
  BY <1>1, <1>2 DEF Injection, IsInjective
<1>4. IsFiniteSet(0..(c - 1)) /\ Cardinality(0..(c - 1)) = c
  BY <1>1, FS_Interval
<1>5. f \in Surjection(S, 0..(c - 1))
  BY <1>3, <1>4, FS_Injection
<1> QED
  BY <1>5 DEF Surjection

===============================================================================

---------------------------- MODULE DispatchProofs ----------------------------
(***************************************************************************)
(* Proofs about PullerDispatch, for any desks, lines, pullers and          *)
(* reporters.                                                              *)
(*                                                                         *)
(* The selection of the lines and their dispatch are recursive functions.  *)
(* What holds of every stage of one is proved by induction: the stages of  *)
(* which it holds are a set of numbers, and the least number that is not   *)
(* in it would be neither the first nor a next one.                        *)
(***************************************************************************)
EXTENDS PullerDispatch, NumberLemmas, FiniteSetTheorems, TLAPS

-----------------------------------------------------------------------------
(* Counting.                                                               *)

\* The least of a set of numbers.
LEMMA MinIsLeast ==
  ASSUME NEW S \in SUBSET Nat, S # {}
  PROVE  Min(S) \in S /\ \A n \in S : Min(S) <= n
BY LeastNumber DEF Min

\* The k-th of a set has k - 1 below it.
LEMMA NthRanks ==
  ASSUME NEW S \in SUBSET Nat, IsFiniteSet(S), NEW k \in 1..Cardinality(S)
  PROVE  Nth(S, k) \in S /\ Cardinality(Below(S, Nth(S, k))) = k - 1
<1>1. Cardinality(S) \in Nat
  BY FS_CardinalityType
<1>2. k - 1 \in 0..(Cardinality(S) - 1)
  BY <1>1
<1>3. \E p \in S : Cardinality({q \in S : q < p}) = k - 1
  BY <1>2, RanksTaken DEF Below
<1> QED
  BY <1>3 DEF Nth, Below

\* Different places hold different members.
LEMMA NthDiffer ==
  ASSUME NEW S \in SUBSET Nat, IsFiniteSet(S),
         NEW j \in 1..Cardinality(S), NEW k \in 1..Cardinality(S), Nth(S, j) = Nth(S, k)
  PROVE  j = k
BY NthRanks, FS_CardinalityType

-----------------------------------------------------------------------------
(* The recursive functions.                                                *)

\* One visit of the walk over the desks.
Stride(before, limit) ==
  IF Len(before.picks) = limit THEN before
  ELSE [picks |-> Visit(before.index + 1, before.picks),
        index |-> (before.index + 1) % DeskCount]

LEMMA WalkDef ==
  ASSUME NEW limit \in Nat
  PROVE  /\ Walk(limit)[0] = [picks |-> <<>>, index |-> rr]
         /\ \A n \in 1..(DeskCount * limit) :
              Walk(limit)[n] = Stride(Walk(limit)[n - 1], limit)
<1> DEFINE N == DeskCount * limit
           Start == [picks |-> <<>>, index |-> rr]
           Upto(n, w) == w = [k \in 0..n |-> IF k = 0 THEN Start ELSE Stride(w[k - 1], limit)]
           S == {n \in 0..N : \E w : Upto(n, w)}
<1>0. N \in Nat
  BY SizeAssumption
<1> HIDE DEF Start, N
<1>1. 0 \in S
  <2> DEFINE w == [k \in 0..0 |-> Start]
  <2>1. Upto(0, w)
    OBVIOUS
  <2> HIDE DEF w
  <2> QED
    BY <1>0, <2>1
<1>2. ASSUME NEW n \in 0..(N - 1), n \in S
      PROVE  n + 1 \in S
  <2>1. PICK w : Upto(n, w)
    BY <1>2
  <2> DEFINE v == [k \in 0..(n + 1) |-> IF k <= n THEN w[k] ELSE Stride(w[n], limit)]
  <2>2. \A k \in 0..n : v[k] = w[k]
    OBVIOUS
  <2>3. \A k \in 0..(n + 1) : v[k] = IF k = 0 THEN Start ELSE Stride(v[k - 1], limit)
    <3> TAKE k \in 0..(n + 1)
    <3>1. CASE k = 0
      BY <3>1, <2>1, <2>2
    <3>2. CASE k \in 1..n
      <4>1. w[k] = Stride(w[k - 1], limit)
        BY <2>1, <3>2
      <4> QED
        BY <3>2, <2>2, <4>1
    <3>3. CASE k = n + 1
      BY <2>2, <3>3
    <3> QED
      BY <3>1, <3>2, <3>3
  <2>4. Upto(n + 1, v)
    BY <2>3
  <2> HIDE DEF v, Upto
  <2> QED
    BY <1>0, <2>4
<1>3. PICK w : Upto(N, w)
  <2>1. \A n \in 0..N : n \in S
    <3> HIDE DEF S
    <3> QED
      BY <1>0, <1>1, <1>2, Induction
  <2> QED
    BY <1>0, <2>1
<1>4. \E u : Upto(N, u)
  BY <1>3
<1>5. Walk(limit) = CHOOSE u : Upto(N, u)
  BY DEF Walk, Stride, Start, N
<1>6. Upto(N, Walk(limit))
  <2> HIDE DEF Upto
  <2> QED
    BY <1>4, <1>5
<1> QED
  BY <1>0, <1>6 DEF Start, N

\* One line after pick n, given the rows before it.
Spawn(line, p) == [line EXCEPT !.worker = "spawned", !.puller = p]
Begun(line, p, who) == [Spawn(line, p) EXCEPT !.status = "running", !.reporter = who]

Gives(rows, x, n, idle, lost) ==
  IF Taken(x) THEN rows
  ELSE [rows EXCEPT ![x[1]][x[2]] =
         IF n \in lost THEN Spawn(rows[x[1]][x[2]], Nth(idle, n))
         ELSE Begun(rows[x[1]][x[2]], Nth(idle, n), Reporter(x[1], rows[x[1]]))]

LEMMA RowsDef ==
  ASSUME NEW picks, Len(picks) \in Nat, NEW idle, NEW lost
  PROVE  /\ Rows(picks, idle, lost)[0] = lines
         /\ \A n \in 1..Len(picks) :
              Rows(picks, idle, lost)[n] =
                Gives(Rows(picks, idle, lost)[n - 1], picks[n], n, idle, lost)
<1> DEFINE N == Len(picks)
           Upto(n, w) == w = [k \in 0..n |-> IF k = 0 THEN lines
                                             ELSE Gives(w[k - 1], picks[k], k, idle, lost)]
           S == {n \in 0..N : \E w : Upto(n, w)}
<1>0. N \in Nat
  OBVIOUS
<1> HIDE DEF N
<1>1. 0 \in S
  <2> DEFINE w == [k \in 0..0 |-> lines]
  <2>1. Upto(0, w)
    OBVIOUS
  <2> HIDE DEF w
  <2> QED
    BY <1>0, <2>1
<1>2. ASSUME NEW n \in 0..(N - 1), n \in S
      PROVE  n + 1 \in S
  <2>1. PICK w : Upto(n, w)
    BY <1>2
  <2> DEFINE v == [k \in 0..(n + 1) |->
                     IF k <= n THEN w[k] ELSE Gives(w[n], picks[n + 1], n + 1, idle, lost)]
  <2>2. \A k \in 0..n : v[k] = w[k]
    OBVIOUS
  <2>3. \A k \in 0..(n + 1) :
          v[k] = IF k = 0 THEN lines ELSE Gives(v[k - 1], picks[k], k, idle, lost)
    <3> TAKE k \in 0..(n + 1)
    <3>1. CASE k = 0
      BY <3>1, <2>1, <2>2
    <3>2. CASE k \in 1..n
      <4>1. w[k] = Gives(w[k - 1], picks[k], k, idle, lost)
        BY <2>1, <3>2
      <4> QED
        BY <3>2, <2>2, <4>1
    <3>3. CASE k = n + 1
      BY <2>2, <3>3
    <3> QED
      BY <3>1, <3>2, <3>3
  <2>4. Upto(n + 1, v)
    BY <2>3
  <2> HIDE DEF v, Upto
  <2> QED
    BY <1>0, <2>4
<1>3. \E w : Upto(N, w)
  <2>1. \A n \in 0..N : n \in S
    <3> HIDE DEF S
    <3> QED
      BY <1>0, <1>1, <1>2, Induction
  <2> HIDE DEF Upto
  <2> QED
    BY <1>0, <2>1
<1>4. Rows(picks, idle, lost) = CHOOSE u : Upto(N, u)
  BY DEF Rows, Gives, Spawn, Begun, N
<1>5. Upto(N, Rows(picks, idle, lost))
  <2> HIDE DEF Upto
  <2> QED
    BY <1>3, <1>4
<1> QED
  BY <1>0, <1>5 DEF N

-----------------------------------------------------------------------------
(* What is selected.                                                       *)

LEMMA Next1 ==
  ASSUME NEW D \in Nat \ {0}, NEW i \in 0..(D - 1)
  PROVE  (i + 1) % D = IF i + 1 = D THEN 0 ELSE i + 1
OBVIOUS

\* The lines of desk d that a visit chooses from.
Open(d, picks) == {i \in Pending(d) : \A k \in DOMAIN picks : picks[k] # <<d, i>>}

LEMMA Visits ==
  ASSUME NEW d \in Desks, NEW picks \in Seq(Places)
  PROVE  LET i == Min(Open(d, picks)) IN
         \/ /\ Visit(d, picks) = picks
            /\ Open(d, picks) # {} => ~MayRun(lines[d][i])
         \/ /\ Visit(d, picks) = Append(picks, <<d, i>>)
            /\ Open(d, picks) # {} /\ MayRun(lines[d][i])
            /\ i \in Open(d, picks) /\ \A j \in Open(d, picks) : i <= j
<1> DEFINE i == Min(Open(d, picks))
<1>1. Open(d, picks) \in SUBSET Nat
  BY DEF Open, Pending
<1>2. Open(d, picks) # {} => i \in Open(d, picks) /\ \A j \in Open(d, picks) : i <= j
  <2> HIDE DEF i
  <2> QED
    BY <1>1, MinIsLeast DEF i
<1>3. Visit(d, picks) = IF Open(d, picks) # {} /\ MayRun(lines[d][i])
                        THEN Append(picks, <<d, i>>) ELSE picks
  BY DEF Visit, Open
<1> HIDE DEF i
<1> QED
  BY <1>2, <1>3 DEF i

\* Every stage of the walk: no line is picked twice, and all of them wait.
Sound(w, limit) ==
  /\ w.picks \in Seq(Places) /\ Len(w.picks) <= limit
  /\ w.index \in 0..(DeskCount - 1)
  /\ \A k \in 1..Len(w.picks) :
       w.picks[k][2] \in Pending(w.picks[k][1]) /\ MayRun(lines[w.picks[k][1]][w.picks[k][2]])
  /\ \A j, k \in 1..Len(w.picks) : w.picks[j] = w.picks[k] => j = k

LEMMA StrideSound ==
  ASSUME NEW limit \in Nat, NEW w, Sound(w, limit)
  PROVE  Sound(Stride(w, limit), limit)
<1> DEFINE d == w.index + 1
           picks == w.picks
           i == Min(Open(d, picks))
<1>1. CASE Len(picks) = limit
  BY <1>1 DEF Stride
<1>2. CASE Len(picks) # limit
  <2>1. Stride(w, limit) = [picks |-> Visit(d, picks), index |-> d % DeskCount]
    BY <1>2 DEF Stride
  <2>2. DeskCount \in Nat \ {0} /\ w.index \in 0..(DeskCount - 1)
    BY SizeAssumption DEF Sound
  <2>3. d \in Desks /\ d % DeskCount \in 0..(DeskCount - 1)
    BY <2>2, Next1 DEF Desks
  <2>4. picks \in Seq(Places) /\ Len(picks) \in Nat /\ Len(picks) + 1 <= limit
    BY <1>2 DEF Sound
  <2>5. CASE Visit(d, picks) = picks
    BY <2>1, <2>3, <2>5 DEF Sound
  <2>6. CASE /\ Visit(d, picks) = Append(picks, <<d, i>>)
             /\ MayRun(lines[d][i]) /\ i \in Open(d, picks)
    <3> DEFINE new == Append(picks, <<d, i>>)
    <3>1. <<d, i>> \in Places
      BY <2>3, <2>6 DEF Open, Pending, Places
    <3>2. new \in Seq(Places) /\ Len(new) = Len(picks) + 1
      BY <2>4, <3>1
    <3>3. /\ \A k \in 1..Len(picks) : new[k] = picks[k]
          /\ new[Len(picks) + 1] = <<d, i>>
      BY <2>4, <3>1
    <3>4. i \in Pending(d) /\ \A k \in 1..Len(picks) : picks[k] # <<d, i>>
      <4>1. DOMAIN picks = 1..Len(picks)
        BY <2>4
      <4> HIDE DEF i, picks, d
      <4> QED
        BY <2>6, <4>1 DEF Open
    <3>5. /\ \A k \in 1..Len(picks) :
               picks[k][2] \in Pending(picks[k][1]) /\ MayRun(lines[picks[k][1]][picks[k][2]])
          /\ \A j, k \in 1..Len(picks) : picks[j] = picks[k] => j = k
      BY DEF Sound
    <3> DEFINE s == Stride(w, limit)
    <3>6. s.picks = new /\ s.index = d % DeskCount
      BY <2>1, <2>6
    <3>7. <<d, i>>[1] = d /\ <<d, i>>[2] = i
      OBVIOUS
    <3> HIDE DEF new, s, i, d, picks
    <3>8. \A k \in 1..Len(new) :
            new[k][2] \in Pending(new[k][1]) /\ MayRun(lines[new[k][1]][new[k][2]])
      <4> TAKE k \in 1..Len(new)
      <4>1. CASE k \in 1..Len(picks)
        BY <4>1, <3>3, <3>5
      <4>2. CASE k = Len(picks) + 1
        BY <4>2, <3>3, <3>4, <3>7, <2>6
      <4> QED
        BY <4>1, <4>2, <3>2, <2>4
    <3>9. \A j, k \in 1..Len(new) : new[j] = new[k] => j = k
      <4> TAKE j, k \in 1..Len(new)
      <4>1. j \in 1..Len(picks) \/ j = Len(picks) + 1
        BY <3>2, <2>4
      <4>2. k \in 1..Len(picks) \/ k = Len(picks) + 1
        BY <3>2, <2>4
      <4> QED
        BY <4>1, <4>2, <3>3, <3>4, <3>5
    <3> QED
      BY <2>3, <2>4, <3>2, <3>6, <3>8, <3>9 DEF Sound, s
  <2> QED
    BY <2>3, <2>4, <2>5, <2>6, Visits
<1> QED
  BY <1>1, <1>2

LEMMA WalkSound ==
  ASSUME rr \in 0..(DeskCount - 1), NEW limit \in Nat
  PROVE  \A n \in 0..(DeskCount * limit) : Sound(Walk(limit)[n], limit)
<1> DEFINE N == DeskCount * limit
           S == {n \in 0..N : Sound(Walk(limit)[n], limit)}
<1>0. N \in Nat
  BY SizeAssumption
<1>1. 0 \in S
  <2>1. Walk(limit)[0].picks = <<>> /\ Walk(limit)[0].index = rr
    BY WalkDef
  <2>2. Sound(Walk(limit)[0], limit)
    BY <2>1 DEF Sound
  <2> QED
    BY <1>0, <2>2
<1>2. ASSUME NEW n \in 0..(N - 1), n \in S
      PROVE  n + 1 \in S
  <2>1. n + 1 \in 1..N /\ (n + 1) - 1 = n
    BY <1>0
  <2>2. Walk(limit)[n + 1] = Stride(Walk(limit)[n], limit)
    BY <2>1, WalkDef
  <2>3. Sound(Walk(limit)[n], limit)
    BY <1>2
  <2> QED
    BY <2>1, <2>2, <2>3, StrideSound
<1> HIDE DEF N, S
<1>3. \A n \in 0..N : n \in S
  BY <1>0, <1>1, <1>2, Induction
<1> QED
  BY <1>3 DEF N, S

LEMMA SelectionSound ==
  ASSUME rr \in 0..(DeskCount - 1), NEW limit \in Nat
  PROVE  Sound(Selection(limit), limit)
<1>1. DeskCount * limit \in Nat
  BY SizeAssumption
<1>2. DeskCount * limit \in 0..(DeskCount * limit)
  BY <1>1
<1> QED
  BY <1>2, WalkSound DEF Selection

-----------------------------------------------------------------------------
(* What is dispatched.                                                     *)

LEMMA Numbers ==
  ASSUME NEW N \in Nat, NEW S \in SUBSET (1..N)
  PROVE  /\ S \in SUBSET Nat /\ IsFiniteSet(S) /\ Cardinality(S) \in Nat
         /\ S # {} => Cardinality(S) # 0
<1>1. IsFiniteSet(1..N)
  BY FS_Interval
<1>2. IsFiniteSet(S)
  BY <1>1, FS_Subset
<1> QED
  BY <1>2, FS_CardinalityType, FS_EmptySet

LEMMA Counts ==
  /\ PullerCount \in Nat /\ ReporterCount \in Nat /\ LineCount \in Nat
  /\ MaxRequests \in Nat /\ MaxEdits \in Nat /\ MaxFaults \in Nat
  /\ DeskCount \in Nat /\ 0 \in 0..(DeskCount - 1)
BY SizeAssumption

LEMMA PoolRanks ==
  ASSUME personas \subseteq Reporters, NEW n \in 0..(Cardinality(personas) - 1)
  PROVE  PoolMember(n) \in personas /\ Cardinality(Below(personas, PoolMember(n))) = n
<1>1. personas \in SUBSET Nat /\ IsFiniteSet(personas)
  BY Counts, Numbers DEF Reporters
<1>2. \E r \in personas : Cardinality({q \in personas : q < r}) = n
  BY <1>1, RanksTaken DEF Below
<1> QED
  BY <1>2 DEF PoolMember, Below

LEMMA PoolSize ==
  ASSUME personas \subseteq Reporters
  PROVE  /\ IsFiniteSet(personas) /\ Cardinality(personas) \in Nat
         /\ personas # {} => Cardinality(personas) # 0
BY Counts, Numbers DEF Reporters

LEMMA UsedCount ==
  ASSUME NEW rows \in [1..LineCount -> Line]
  PROVE  IsFiniteSet(Used(rows)) /\ Cardinality(Used(rows)) \in Nat
<1>1. Used(rows) \in SUBSET (1..LineCount)
  BY DEF Used
<1> QED
  BY <1>1, Counts, Numbers

LEMMA ReporterTyped ==
  ASSUME personas \subseteq Reporters, NEW d \in Desks, NEW rows \in [1..LineCount -> Line]
  PROVE  /\ Reporter(d, rows) \in personas \cup {Nobody}
         /\ personas # {} => Reporter(d, rows) \in personas
<1>1. CASE personas = {}
  BY <1>1 DEF Reporter
<1>2. CASE personas # {}
  <2>1. Cardinality(personas) \in Nat \ {0}
    BY <1>2, PoolSize
  <2>2. Cardinality(Used(rows)) % Cardinality(personas) \in 0..(Cardinality(personas) - 1)
    BY <2>1, UsedCount
  <2>3. 0 \in 0..(Cardinality(personas) - 1)
    BY <2>1
  <2> QED
    BY <1>2, <2>2, <2>3, PoolRanks DEF Reporter
<1> QED
  BY <1>1, <1>2

Board == [Desks -> [1..LineCount -> Line]]

\* The line that pick k has been given.
GivenLine(picks, idle, lost, k) ==
  LET x == picks[k] IN
  IF k \in lost THEN Spawn(lines[x[1]][x[2]], Nth(idle, k))
  ELSE Begun(lines[x[1]][x[2]], Nth(idle, k),
             Reporter(x[1], Rows(picks, idle, lost)[k - 1][x[1]]))

\* After n picks, the lines that were picked are given and the others untouched.
Dealt(picks, idle, lost, n) ==
  LET rows == Rows(picks, idle, lost)[n] IN
  /\ rows \in Board
  /\ \A x \in Places : (\A k \in 1..n : picks[k] # x) => rows[x[1]][x[2]] = lines[x[1]][x[2]]
  /\ \A k \in 1..n : LET x == picks[k] IN
       rows[x[1]][x[2]] = IF Taken(x) THEN lines[x[1]][x[2]]
                          ELSE GivenLine(picks, idle, lost, k)

LEMMA RowsDealt ==
  ASSUME TypeOK, NEW limit, NEW w, Sound(w, limit), NEW idle \in SUBSET Pullers,
         limit = Cardinality(idle), NEW lost
  PROVE  \A n \in 0..Len(w.picks) : Dealt(w.picks, idle, lost, n)
<1> DEFINE picks == w.picks
           N == Len(picks)
           R == Rows(picks, idle, lost)
           S == {n \in 0..N : Dealt(picks, idle, lost, n)}
<1>0. /\ N \in Nat /\ picks \in Seq(Places) /\ DOMAIN picks = 1..N
      /\ lines \in Board /\ personas \subseteq Reporters
  BY DEF Sound, TypeOK, Board
<1>1. \A j, k \in 1..N : picks[j] = picks[k] => j = k
  BY DEF Sound
<1>2. \A k \in 1..N : picks[k] \in Places /\ Nth(idle, k) \in Pullers
  <2> TAKE k \in 1..N
  <2>1. idle \in SUBSET Nat /\ IsFiniteSet(idle) /\ Cardinality(idle) \in Nat
    BY Counts, Numbers DEF Pullers
  <2>2. k \in 1..Cardinality(idle)
    BY <1>0, <2>1 DEF Sound
  <2>3. Nth(idle, k) \in idle
    BY <2>1, <2>2, NthRanks
  <2> QED
    BY <1>0, <2>3
<1>3. /\ R[0] = lines
      /\ \A n \in 1..N : R[n] = Gives(R[n - 1], picks[n], n, idle, lost)
  BY <1>0, RowsDef
<1> HIDE DEF picks, N, R
<1>4. 0 \in S
  BY <1>0, <1>3 DEF Dealt, R
<1>5. ASSUME NEW n \in 0..(N - 1), n \in S
      PROVE  n + 1 \in S
  <2> DEFINE x == picks[n + 1]
             d == x[1]
             i == x[2]
             rows == R[n]
             new == R[n + 1]
  <2>1. n \in 0..N /\ n + 1 \in 1..N /\ (n + 1) - 1 = n /\ n \in Nat
    BY <1>0
  <2>2. new = Gives(rows, x, n + 1, idle, lost)
    BY <1>3, <2>1
  <2>3. /\ rows \in Board
        /\ \A y \in Places :
             (\A k \in 1..n : picks[k] # y) => rows[y[1]][y[2]] = lines[y[1]][y[2]]
        /\ \A k \in 1..n : LET y == picks[k] IN
             rows[y[1]][y[2]] = IF Taken(y) THEN lines[y[1]][y[2]]
                                ELSE GivenLine(picks, idle, lost, k)
    BY <1>5 DEF Dealt, R
  <2>4. x \in Places /\ x = <<d, i>> /\ d \in Desks /\ i \in 1..LineCount
    BY <1>2, <2>1 DEF Places
  <2>5. \A k \in 1..n : k \in 1..N /\ picks[k] # x
    BY <1>0, <1>1, <2>1
  <2>6. rows[d][i] = lines[d][i]
    BY <2>3, <2>4, <2>5
  <2>7. CASE Taken(x)
    <3>1. new = rows
      BY <2>2, <2>7 DEF Gives
    <3>2. Dealt(picks, idle, lost, n + 1)
      BY <2>1, <2>3, <2>6, <2>7, <3>1 DEF Dealt, R
    <3> QED
      BY <2>1, <3>2
  <2>8. CASE ~Taken(x)
    <3> DEFINE line == GivenLine(picks, idle, lost, n + 1)
               who == Reporter(d, rows[d])
    <3>0. who \in Reporters \cup {Nobody} /\ Nth(idle, n + 1) \in Pullers
      BY <1>0, <1>2, <2>1, <2>3, <2>4, ReporterTyped DEF Board
    <3>1. line = IF n + 1 \in lost THEN Spawn(lines[d][i], Nth(idle, n + 1))
                 ELSE Begun(lines[d][i], Nth(idle, n + 1), who)
      BY <2>1 DEF GivenLine, R
    <3>2. line \in Line
      <4>1. lines[d][i] \in Line
        BY <1>0, <2>4 DEF Board
      <4> HIDE DEF line, who, d, i
      <4> QED
        BY <3>0, <3>1, <4>1 DEF Line, Spawn, Begun
    <3>3. new = [rows EXCEPT ![d][i] = line]
      <4> HIDE DEF line, who, rows, new
      <4>1. new = [rows EXCEPT ![d][i] =
               IF n + 1 \in lost THEN Spawn(rows[d][i], Nth(idle, n + 1))
               ELSE Begun(rows[d][i], Nth(idle, n + 1), who)]
        BY <2>2, <2>8 DEF Gives, who
      <4> QED
        BY <4>1, <2>6, <3>1
    <3> HIDE DEF line
    <3>4. /\ new \in Board /\ new[d][i] = line
          /\ \A y \in Places : y # x => new[y[1]][y[2]] = rows[y[1]][y[2]]
      <4> HIDE DEF d, i, x, rows, new
      <4>1. new \in Board /\ new[d][i] = line
        BY <2>3, <2>4, <3>2, <3>3 DEF Board
      <4>2. ASSUME NEW y \in Places, y # x
            PROVE  new[y[1]][y[2]] = rows[y[1]][y[2]]
        <5>1. y = <<y[1], y[2]>> /\ y[1] \in Desks /\ y[2] \in 1..LineCount
          BY DEF Places
        <5>2. y[1] # d \/ y[2] # i
          BY <4>2, <5>1, <2>4
        <5> QED
          BY <5>1, <5>2, <2>3, <2>4, <3>3 DEF Board
      <4> QED
        BY <4>1, <4>2
    <3>5. \A k \in 1..(n + 1) : k \in 1..n \/ k = n + 1
      BY <2>1
    <3> HIDE DEF new, rows, x, d, i
    <3>6. Dealt(picks, idle, lost, n + 1)
      <4>1. ASSUME NEW y \in Places, \A k \in 1..(n + 1) : picks[k] # y
            PROVE  new[y[1]][y[2]] = lines[y[1]][y[2]]
        <5>1. y # x /\ \A k \in 1..n : picks[k] # y
          BY <2>1, <4>1 DEF x
        <5> QED
          BY <2>3, <3>4, <5>1
      <4>2. ASSUME NEW k \in 1..(n + 1)
            PROVE  LET y == picks[k] IN
                   new[y[1]][y[2]] = IF Taken(y) THEN lines[y[1]][y[2]]
                                     ELSE GivenLine(picks, idle, lost, k)
        <5>1. CASE k \in 1..n
          <6>1. picks[k] # x /\ picks[k] \in Places
            BY <5>1, <2>5, <1>2
          <6> QED
            BY <5>1, <6>1, <2>3, <3>4
        <5>2. CASE k = n + 1
          BY <5>2, <2>8, <3>4 DEF x, d, i, line
        <5> QED
          BY <5>1, <5>2, <3>5
      <4> QED
        BY <3>4, <4>1, <4>2 DEF Dealt, new, R
    <3> QED
      BY <2>1, <3>6
  <2> QED
    BY <2>7, <2>8
<1> HIDE DEF S
<1>6. \A n \in 0..N : n \in S
  BY <1>0, <1>4, <1>5, Induction
<1> QED
  BY <1>6 DEF S, N, picks

\* What one tick hands out: the first n of what is selected for the idle pullers.
Hands(idle, n, lost, failed) ==
  LET picks == Selection(Cardinality(idle)).picks IN
  /\ n \in 0..Len(picks)
  /\ Hand(idle, picks, n, lost, failed)
  /\ lost # {} => personas = {}
  /\ ~failed /\ (\A d \in Desks : Mode[d] = "round_robin") => n = Len(picks) /\ lost = {}

LEMMA SelectionDealt ==
  ASSUME TypeOK, NEW idle \in SUBSET Pullers, NEW lost
  PROVE  LET picks == Selection(Cardinality(idle)).picks IN
         /\ Sound(Selection(Cardinality(idle)), Cardinality(idle))
         /\ picks \in Seq(Places) /\ Len(picks) \in Nat /\ DOMAIN picks = 1..Len(picks)
         /\ Cardinality(idle) \in Nat /\ Len(picks) <= Cardinality(idle)
         /\ \A n \in 0..Len(picks) : Dealt(picks, idle, lost, n)
<1>1. Cardinality(idle) \in Nat
  BY Counts, Numbers DEF Pullers
<1>2. Sound(Selection(Cardinality(idle)), Cardinality(idle))
  BY <1>1, SelectionSound DEF TypeOK
<1>3. \A n \in 0..Len(Selection(Cardinality(idle)).picks) :
        Dealt(Selection(Cardinality(idle)).picks, idle, lost, n)
  BY <1>1, <1>2, RowsDealt
<1>4. LET picks == Selection(Cardinality(idle)).picks IN
      /\ picks \in Seq(Places) /\ Len(picks) \in Nat /\ DOMAIN picks = 1..Len(picks)
      /\ Len(picks) <= Cardinality(idle)
  BY <1>2 DEF Sound
<1> QED
  BY <1>1, <1>2, <1>3, <1>4

LEMMA DispatchHands ==
  ASSUME TypeOK, Dispatch
  PROVE  /\ tick.at = "listing"
         /\ \E idle \in Idle, n \in Nat : Hands(idle, n, {}, FALSE)
<1>1. PICK idle \in Idle :
        LET picks == Selection(Cardinality(idle)).picks
            raising == RaisingPicks(picks, Rows(picks, idle, {}))
            n == IF raising = {} THEN Len(picks) ELSE Min(raising) - 1
        IN  Hand(idle, picks, n, {}, FALSE)
  BY DEF Dispatch
<1> DEFINE picks == Selection(Cardinality(idle)).picks
           raising == RaisingPicks(picks, Rows(picks, idle, {}))
           n == IF raising = {} THEN Len(picks) ELSE Min(raising) - 1
<1>2. idle \in SUBSET Pullers
  BY DEF Idle
<1>3. Len(picks) \in Nat /\ picks \in Seq(Places)
  BY <1>2, SelectionDealt
<1>4. raising \subseteq 1..Len(picks)
  BY DEF RaisingPicks, Given
<1>5. n \in 0..Len(picks)
  <2>1. CASE raising = {}
    BY <1>3, <2>1
  <2>2. CASE raising # {}
    <3>1. Min(raising) \in raising
      BY <1>3, <1>4, <2>2, MinIsLeast
    <3>2. Min(raising) \in 1..Len(picks) /\ n = Min(raising) - 1
      BY <1>4, <2>2, <3>1
    <3> HIDE DEF picks, raising, n
    <3> QED
      BY <1>3, <3>2
  <2> QED
    BY <2>1, <2>2
<1>6. ASSUME \A d \in Desks : Mode[d] = "round_robin"
      PROVE  raising = {}
  <2>1. \A k \in 1..Len(picks) : picks[k][1] \in Desks
    <3> HIDE DEF picks
    <3> QED
      BY <1>3 DEF Places
  <2> QED
    BY <1>6, <2>1 DEF RaisingPicks, Raises, Given
<1>7. Hands(idle, n, {}, FALSE)
  BY <1>1, <1>5, <1>6 DEF Hands
<1>8. n \in Nat
  BY <1>3, <1>5
<1> HIDE DEF n, raising, picks
<1> QED
  BY <1>7, <1>8 DEF Dispatch

LEMMA LockedHands ==
  ASSUME TypeOK, DispatchLocked
  PROVE  /\ tick.at = "listing"
         /\ \E idle \in Idle, n \in Nat, lost \in SUBSET Nat : Hands(idle, n, lost, TRUE)
<1>1. PICK idle \in Idle :
        LET picks == Selection(Cardinality(idle)).picks
            rows == Rows(picks, idle, {})
        IN  \E k \in Given(picks, Len(picks)) :
              IF rows[k][picks[k][1]][picks[k][2]].reporter = Nobody
              THEN Hand(idle, picks, Len(picks), {k}, TRUE)
              ELSE Hand(idle, picks, k - 1, {}, TRUE)
  BY DEF DispatchLocked
<1> DEFINE picks == Selection(Cardinality(idle)).picks
           rows == Rows(picks, idle, {})
<1>2. PICK k \in Given(picks, Len(picks)) :
        IF rows[k][picks[k][1]][picks[k][2]].reporter = Nobody
        THEN Hand(idle, picks, Len(picks), {k}, TRUE)
        ELSE Hand(idle, picks, k - 1, {}, TRUE)
  BY <1>1
<1>3. idle \in SUBSET Pullers
  BY DEF Idle
<1>4. /\ Len(picks) \in Nat /\ picks \in Seq(Places)
      /\ \A n \in 0..Len(picks) : Dealt(picks, idle, {}, n)
  BY <1>3, SelectionDealt
<1>5. k \in 1..Len(picks) /\ ~Taken(picks[k])
  BY DEF Given
<1>6. CASE rows[k][picks[k][1]][picks[k][2]].reporter # Nobody
  <2>1. Hands(idle, k - 1, {}, TRUE)
    <3>1. k - 1 \in 0..Len(picks)
      BY <1>4, <1>5
    <3>2. Hand(idle, picks, k - 1, {}, TRUE)
      <4> HIDE DEF picks, rows
      <4> QED
        BY <1>2, <1>6
    <3> QED
      BY <3>1, <3>2 DEF Hands
  <2>2. k - 1 \in Nat /\ {} \in SUBSET Nat
    BY <1>4, <1>5
  <2> QED
    BY <2>1, <2>2 DEF DispatchLocked
<1>7. CASE rows[k][picks[k][1]][picks[k][2]].reporter = Nobody
  <2>1. /\ rows[k][picks[k][1]][picks[k][2]] = GivenLine(picks, idle, {}, k)
        /\ rows[k - 1] \in Board /\ picks[k] \in Places
    <3>1. Dealt(picks, idle, {}, k) /\ Dealt(picks, idle, {}, k - 1)
      BY <1>4, <1>5
    <3>2. picks[k] \in Places /\ k \in 1..k
      BY <1>4, <1>5
    <3> HIDE DEF picks
    <3> QED
      BY <1>5, <3>1, <3>2 DEF Dealt
  <2>2. Reporter(picks[k][1], rows[k - 1][picks[k][1]]) = Nobody
    <3> DEFINE line == lines[picks[k][1]][picks[k][2]]
               who == Reporter(picks[k][1], rows[k - 1][picks[k][1]])
    <3>1. line \in Line
      BY <2>1 DEF TypeOK, Places
    <3>2. GivenLine(picks, idle, {}, k) = Begun(line, Nth(idle, k), who)
      BY DEF GivenLine
    <3> HIDE DEF line, who
    <3>3. GivenLine(picks, idle, {}, k).reporter = who
      BY <3>1, <3>2 DEF Begun, Spawn, Line
    <3> QED
      BY <1>7, <2>1, <3>3 DEF who
  <2>3. personas = {}
    <3>1. picks[k][1] \in Desks /\ rows[k - 1][picks[k][1]] \in [1..LineCount -> Line]
      BY <2>1 DEF Places, Board
    <3>2. personas \subseteq Reporters
      BY DEF TypeOK
    <3> HIDE DEF picks, rows
    <3>3. personas # {} => Reporter(picks[k][1], rows[k - 1][picks[k][1]]) \in personas
      BY <3>1, <3>2, ReporterTyped
    <3> QED
      BY <2>2, <3>2, <3>3 DEF Reporters, Nobody
  <2>4. Hands(idle, Len(picks), {k}, TRUE)
    <3>1. Len(picks) \in 0..Len(picks)
      BY <1>4
    <3>2. Hand(idle, picks, Len(picks), {k}, TRUE)
      <4> HIDE DEF picks, rows
      <4> QED
        BY <1>2, <1>7
    <3> QED
      BY <2>3, <3>1, <3>2 DEF Hands
  <2>5. {k} \in SUBSET Nat
    BY <1>5
  <2> QED
    BY <1>4, <2>4, <2>5 DEF DispatchLocked
<1> QED
  BY <1>6, <1>7

-----------------------------------------------------------------------------
(* Types.                                                                  *)

\* The picks of desk d that name a reporter.
Named(picks, n, d) ==
  {k \in Given(picks, n) : picks[k][1] = d /\ lines'[d][picks[k][2]].reporter # Nobody}

LEMMA NamedNumbers ==
  ASSUME NEW picks, NEW n \in Nat, NEW d
  PROVE  /\ Named(picks, n, d) \in SUBSET (1..n) /\ Given(picks, n) \in SUBSET (1..n)
         /\ Named(picks, n, d) \in SUBSET Nat /\ IsFiniteSet(Named(picks, n, d))
         /\ Cardinality(Named(picks, n, d)) \in Nat
<1>1. Named(picks, n, d) \in SUBSET (1..n) /\ Given(picks, n) \in SUBSET (1..n)
  BY DEF Named, Given
<1> QED
  BY <1>1, Numbers

LEMMA OvertakenNat ==
  ASSUME NEW picks, NEW n \in Nat, NEW d, NEW e
  PROVE  Overtaken(picks, n, d, e) \in Nat
<1> DEFINE S == {k \in Given(picks, n) : picks[k][1] = e /\
                   \A j \in {i \in Given(picks, n) : picks[i][1] = d} : j < k}
<1>1. S \in SUBSET (1..n)
  BY DEF Given
<1>2. Cardinality(S) \in Nat
  <2> HIDE DEF S
  <2> QED
    BY <1>1, Numbers
<1> QED
  BY <1>2 DEF Overtaken

\* What a tick writes of its reporters.
NewTurns(picks, n, d) ==
  [k \in 1..Cardinality(Named(picks, n, d)) |->
     lines'[d][picks[Nth(Named(picks, n, d), k)][2]].reporter]

LEMMA NewTurnsTyped ==
  ASSUME lines' \in Board, NEW picks \in Seq(Places), NEW n \in 0..Len(picks), NEW d \in Desks
  PROVE  NewTurns(picks, n, d) \in Seq(Reporters)
<1> DEFINE N == Named(picks, n, d)
<1>1. /\ N \in SUBSET (1..n) /\ N \in SUBSET Nat /\ IsFiniteSet(N) /\ Cardinality(N) \in Nat
      /\ n \in Nat /\ Len(picks) \in Nat
  <2>1. n \in Nat /\ Len(picks) \in Nat
    OBVIOUS
  <2> QED
    BY <2>1, NamedNumbers
<1>2. ASSUME NEW k \in 1..Cardinality(N)
      PROVE  lines'[d][picks[Nth(N, k)][2]].reporter \in Reporters
  <2> DEFINE j == Nth(N, k)
  <2>1. j \in N
    BY <1>1, NthRanks
  <2>2. j \in 1..Len(picks)
    BY <1>1, <2>1
  <2>3. picks[j] \in Places
    BY <2>2
  <2>4. lines'[d][picks[j][2]] \in Line
    BY <2>3 DEF Places, Board
  <2>5. lines'[d][picks[j][2]].reporter # Nobody
    BY <2>1 DEF Named
  <2> QED
    BY <2>4, <2>5 DEF Line
<1> QED
  BY <1>1, <1>2 DEF NewTurns

LEMMA RecordTyped ==
  ASSUME TypeOK, lines' \in Board, NEW picks \in Seq(Places), NEW n \in 0..Len(picks),
         NEW failed, Record(picks, n, failed)
  PROVE  /\ turns' = [d \in Desks |-> turns[d] \o NewTurns(picks, n, d)]
         /\ turns' \in [Desks -> Seq(Reporters)]
         /\ passed' \in [Desks -> [Desks -> Nat]]
<1>1. n \in Nat
  OBVIOUS
<1>2. turns' = [d \in Desks |-> turns[d] \o NewTurns(picks, n, d)]
  BY DEF Record, NewTurns, Named
<1>3. turns' \in [Desks -> Seq(Reporters)]
  <2>1. ASSUME NEW d \in Desks
        PROVE  turns[d] \o NewTurns(picks, n, d) \in Seq(Reporters)
    <3>1. turns[d] \in Seq(Reporters) /\ NewTurns(picks, n, d) \in Seq(Reporters)
      BY NewTurnsTyped DEF TypeOK
    <3> QED
      BY <3>1
  <2> QED
    BY <1>2, <2>1
<1>4. passed' \in [Desks -> [Desks -> Nat]]
  <2>1. CASE failed
    BY <2>1 DEF Record, NeverPassed
  <2>2. CASE ~failed
    <3> DEFINE count(d, e) ==
                 IF ~Waiting(d) \/ ~Waiting(d)' \/ d = e THEN 0
                 ELSE IF \E k \in Given(picks, n) : picks[k][1] = d
                      THEN Overtaken(picks, n, d, e)
                      ELSE passed[d][e] + Overtaken(picks, n, d, e)
    <3>1. passed' = [d \in Desks |-> [e \in Desks |-> count(d, e)]]
      BY <2>2 DEF Record
    <3>2. ASSUME NEW d \in Desks, NEW e \in Desks
          PROVE  count(d, e) \in Nat
      <4>1. passed[d][e] \in Nat /\ Overtaken(picks, n, d, e) \in Nat
        BY <1>1, OvertakenNat DEF TypeOK
      <4> QED
        BY <4>1
    <3> HIDE DEF count
    <3> QED
      BY <3>1, <3>2
  <2> QED
    BY <2>1, <2>2
<1> QED
  BY <1>2, <1>3, <1>4

\* A tick that hands out keeps the types.
LEMMA HandsTyped ==
  ASSUME TypeOK, NEW idle \in Idle, NEW n \in Nat, NEW lost, NEW failed,
         Hands(idle, n, lost, failed)
  PROVE  /\ lines' \in Board /\ rr' \in 0..(DeskCount - 1) /\ tick' = Resting
         /\ turns' \in [Desks -> Seq(Reporters)] /\ passed' \in [Desks -> [Desks -> Nat]]
<1> DEFINE picks == Selection(Cardinality(idle)).picks
<1>1. idle \in SUBSET Pullers
  BY DEF Idle
<1>2. /\ Sound(Selection(Cardinality(idle)), Cardinality(idle)) /\ picks \in Seq(Places)
      /\ \A m \in 0..Len(picks) : Dealt(picks, idle, lost, m)
  BY <1>1, SelectionDealt
<1>3. n \in 0..Len(picks) /\ Hand(idle, picks, n, lost, failed)
  BY DEF Hands
<1>4. lines' \in Board
  BY <1>2, <1>3 DEF Hand, Dealt
<1>5. rr' \in 0..(DeskCount - 1)
  BY <1>2, <1>3 DEF Hand, Advance, Sound
<1> QED
  BY <1>2, <1>3, <1>4, <1>5, RecordTyped DEF Hand

LEMMA LineAt ==
  ASSUME TypeOK, NEW x \in Places
  PROVE  x[1] \in Desks /\ x[2] \in 1..LineCount /\ lines[x[1]][x[2]] \in Line
<1>1. x[1] \in Desks /\ x[2] \in 1..LineCount
  BY DEF Places
<1>2. lines \in [Desks -> [1..LineCount -> Line]]
  BY DEF TypeOK
<1> QED
  BY <1>1, <1>2

LEMMA NobodyIsNone == Nobody \notin Reporters /\ Nobody \notin Pullers
BY Counts DEF Reporters, Pullers, Nobody

\* A worker has a puller.
Employed == \A x \in Places : lines[x[1]][x[2]].worker # "none" => lines[x[1]][x[2]].puller # Nobody

TypeInv == TypeOK /\ Employed

\* What a tick hands out, line by line.
LEMMA HandsLines ==
  ASSUME TypeOK, NEW idle \in Idle, NEW n \in Nat, NEW lost, NEW failed,
         Hands(idle, n, lost, failed), NEW x \in Places
  PROVE  LET old == lines[x[1]][x[2]]
             new == lines'[x[1]][x[2]]
             picks == Selection(Cardinality(idle)).picks
         IN \/ /\ new = old
               /\ \A k \in Given(picks, n) : picks[k] # x
            \/ \E k \in Given(picks, n) :
                 /\ picks[k] = x /\ old.worker = "none" /\ k \in 1..Cardinality(idle)
                 /\ new = GivenLine(picks, idle, lost, k)
                 /\ new.worker = "spawned" /\ new.puller = Nth(idle, k)
                 /\ new.orphans = old.orphans
<1> DEFINE picks == Selection(Cardinality(idle)).picks
           old == lines[x[1]][x[2]]
           new == lines'[x[1]][x[2]]
<1>1. idle \in SUBSET Pullers
  BY DEF Idle
<1>2. /\ Len(picks) \in Nat /\ Cardinality(idle) \in Nat /\ Len(picks) <= Cardinality(idle)
      /\ \A m \in 0..Len(picks) : Dealt(picks, idle, lost, m)
  BY <1>1, SelectionDealt
<1>3. n \in 0..Len(picks) /\ lines' = Rows(picks, idle, lost)[n]
  BY DEF Hands, Hand
<1>4. Dealt(picks, idle, lost, n)
  BY <1>2, <1>3
<1>5. old \in Line
  BY LineAt
<1> HIDE DEF picks
<1>6. CASE \E k \in 1..n : picks[k] = x
  <2>1. PICK k \in 1..n : picks[k] = x
    BY <1>6
  <2>2. new = IF Taken(x) THEN old ELSE GivenLine(picks, idle, lost, k)
    BY <1>3, <1>4, <2>1 DEF Dealt
  <2>3. CASE Taken(x)
    BY <2>2, <2>3 DEF Given, picks
  <2>4. CASE ~Taken(x)
    <3>1. k \in Given(picks, n) /\ k \in 1..Cardinality(idle) /\ old.worker = "none"
      BY <1>2, <1>3, <2>1, <2>4 DEF Given, Taken
    <3>2. \/ new = Spawn(old, Nth(idle, k))
          \/ \E who : new = Begun(old, Nth(idle, k), who)
      BY <2>1, <2>2, <2>4 DEF GivenLine
    <3> HIDE DEF old, new
    <3>3. /\ new.worker = "spawned" /\ new.puller = Nth(idle, k)
          /\ new.orphans = old.orphans
      BY <1>5, <3>2 DEF Spawn, Begun, Line
    <3> QED
      BY <2>1, <2>2, <2>4, <3>1, <3>3 DEF old, new, picks
  <2> QED
    BY <2>3, <2>4
<1>7. CASE \A k \in 1..n : picks[k] # x
  BY <1>3, <1>4, <1>7 DEF Dealt, Given, picks
<1> QED
  BY <1>6, <1>7

LEMMA HandsEmployed ==
  ASSUME TypeInv, NEW idle \in Idle, NEW n \in Nat, NEW lost, NEW failed,
         Hands(idle, n, lost, failed)
  PROVE  Employed'
<1> SUFFICES ASSUME NEW x \in Places, lines'[x[1]][x[2]].worker # "none"
             PROVE  lines'[x[1]][x[2]].puller # Nobody
  BY DEF Employed
<1>1. idle \in SUBSET (1..PullerCount)
  BY DEF Idle, Pullers
<1>3. idle \in SUBSET Nat /\ IsFiniteSet(idle) /\ Nobody \notin idle
  BY <1>1, Counts, Numbers, NobodyIsNone DEF Pullers
<1>2. \A k \in 1..Cardinality(idle) : Nth(idle, k) # Nobody
  BY <1>3, NthRanks
<1> QED
  BY <1>2, HandsLines DEF TypeInv, Employed

LEMMA TypeInit == ASSUME Init PROVE TypeInv
<1>1. /\ 0 \in 0..(DeskCount - 1)
      /\ 0 \in 0..MaxRequests /\ 0 \in 0..MaxEdits /\ 0 \in 0..MaxFaults
  BY Counts
<1>2. lines \in Board
  BY DEF Init, Board, Line, Nobody
<1>3. turns \in [Desks -> Seq(Reporters)] /\ passed \in [Desks -> [Desks -> Nat]]
  BY DEF Init, NoTurns, NeverPassed
<1>4. Employed
  <2> SUFFICES ASSUME NEW x \in Places
               PROVE  lines[x[1]][x[2]].worker = "none"
    BY DEF Employed
  <2>1. x[1] \in Desks /\ x[2] \in 1..LineCount
    BY DEF Places
  <2>2. PICK b \in BOOLEAN :
          lines[x[1]][x[2]] = [status |-> "pending", suggested |-> b, reporter |-> Nobody,
                               worker |-> "none", puller |-> Nobody, orphans |-> {}]
    BY <2>1 DEF Init
  <2> QED
    BY <2>2
<1> QED
  BY <1>1, <1>2, <1>3, <1>4 DEF Init, TypeInv, TypeOK, Board, Resting

LEMMA InUseTyped == ASSUME TypeInv PROVE InUse \subseteq Pullers
<1>1. \A d \in Desks, i \in 1..LineCount : lines[d][i] \in Line
  BY DEF TypeInv, TypeOK
<1>2. ASSUME NEW x \in With("running")
      PROVE  lines[x[1]][x[2]].puller \in Pullers
  <2>1. x \in Places /\ lines[x[1]][x[2]].worker = "running"
    BY <1>2 DEF With, Places
  <2>2. lines[x[1]][x[2]] \in Line
    BY <1>1, <2>1 DEF Places
  <2> QED
    BY <2>1, <2>2 DEF TypeInv, Employed, Line
<1>3. \A d \in Desks, i \in 1..LineCount : lines[d][i].orphans \subseteq Pullers
  BY <1>1 DEF Line
<1>4. tests \subseteq Pullers
  BY DEF TypeInv, TypeOK
<1>5. UNION {lines[x[1]][x[2]].orphans : x \in Places} \subseteq Pullers
  <2> SUFFICES ASSUME NEW x \in Places
               PROVE  lines[x[1]][x[2]].orphans \subseteq Pullers
    OBVIOUS
  <2>1. x[1] \in Desks /\ x[2] \in 1..LineCount
    BY DEF Places
  <2> QED
    BY <1>3, <2>1
<1>6. {lines[x[1]][x[2]].puller : x \in With("running")} \subseteq Pullers
  BY <1>2
<1> DEFINE running == {lines[x[1]][x[2]].puller : x \in With("running")}
           orphans == UNION {lines[x[1]][x[2]].orphans : x \in Places}
<1>7. InUse = tests \cup orphans \cup running
  BY DEF InUse
<1> HIDE DEF running, orphans
<1> QED
  BY <1>4, <1>5, <1>6, <1>7 DEF running, orphans

\* What happens to one line keeps the types.
LEMMA OneLineTyped ==
  ASSUME TypeInv, NEW d \in Desks, NEW i \in 1..LineCount, NEW line \in Line,
         line.worker # "none" => line.puller # Nobody,
         lines' = [lines EXCEPT ![d][i] = line]
  PROVE  lines' \in Board /\ Employed'
<1>1. lines \in Board
  BY DEF TypeInv, TypeOK, Board
<1>2. lines' \in Board
  BY <1>1 DEF Board
<1>3. ASSUME NEW x \in Places
      PROVE  lines'[x[1]][x[2]] = line \/ lines'[x[1]][x[2]] = lines[x[1]][x[2]]
  <2>1. x[1] \in Desks /\ x[2] \in 1..LineCount
    BY DEF Places
  <2> QED
    BY <1>1, <2>1 DEF Board
<1>4. Employed'
  BY <1>3 DEF TypeInv, Employed
<1> QED
  BY <1>2, <1>4

\* The steps of one line.
LineSteps(d, i) == Worker(d, i) \/ StopRun(d, i)

LEMMA WorkerTyped ==
  ASSUME TypeInv, NEW d \in Desks, NEW i \in 1..LineCount, LineSteps(d, i)
  PROVE  lines' \in Board /\ Employed'
<1> DEFINE old == lines[d][i]
           new == lines'[d][i]
<1>1. old \in Line /\ lines \in Board
  BY DEF TypeInv, TypeOK, Board
<1>2. old.worker # "none" => old.puller # Nobody
  <2>1. <<d, i>> \in Places
    BY DEF Places
  <2> QED
    BY <2>1 DEF TypeInv, Employed
<1>3. CASE Begin(d, i)
  <2>1. lines' = [lines EXCEPT ![d][i] = [old EXCEPT !.worker = "running"]]
    BY <1>1, <1>3 DEF Begin, Board
  <2>2. [old EXCEPT !.worker = "running"] \in Line
    BY <1>1 DEF Line
  <2>3. [old EXCEPT !.worker = "running"].puller = old.puller
    BY <1>1 DEF Line
  <2>4. old.worker = "spawned"
    BY <1>3 DEF Begin
  <2> HIDE DEF old
  <2> QED
    BY <1>2, <2>1, <2>2, <2>3, <2>4, OneLineTyped
<1>4. CASE BeginFails(d, i)
  <2> DEFINE line == [old EXCEPT !.worker = "none", !.puller = Nobody]
  <2>1. lines' = [lines EXCEPT ![d][i] = line]
    BY <1>1, <1>4 DEF BeginFails, Board
  <2>2. line \in Line /\ line.worker = "none"
    BY <1>1 DEF Line
  <2> HIDE DEF line
  <2> QED
    BY <2>1, <2>2, OneLineTyped
<1>5. CASE EndRun(d, i)
  <2>1. PICK status \in {"ended", old.status} :
          lines' = [lines EXCEPT ![d][i] =
            [old EXCEPT !.worker = "none", !.puller = Nobody, !.status = status]]
    BY <1>1, <1>5 DEF EndRun, Board
  <2> DEFINE line == [old EXCEPT !.worker = "none", !.puller = Nobody, !.status = status]
  <2>2. line \in Line /\ line.worker = "none"
    BY <1>1 DEF Line
  <2> HIDE DEF line
  <2> QED
    BY <2>1, <2>2, OneLineTyped DEF line
<1>7. CASE StopRun(d, i)
  <2>1. lines' = [lines EXCEPT ![d][i] = [old EXCEPT !.worker = "stopped"]]
    BY <1>1, <1>7 DEF StopRun, Board
  <2>2. [old EXCEPT !.worker = "stopped"] \in Line
    BY <1>1 DEF Line
  <2>3. [old EXCEPT !.worker = "stopped"].puller = old.puller
    BY <1>1 DEF Line
  <2>4. old.worker = "running"
    BY <1>7 DEF StopRun
  <2> HIDE DEF old
  <2> QED
    BY <1>2, <2>1, <2>2, <2>3, <2>4, OneLineTyped
<1>6. CASE EndOrphan(d, i)
  <2>1. PICK p \in old.orphans, status \in {"ended", old.status} :
          lines' = [lines EXCEPT ![d][i] =
            [old EXCEPT !.orphans = old.orphans \ {p}, !.status = status]]
    BY <1>1, <1>6 DEF EndOrphan, Board
  <2> DEFINE line == [old EXCEPT !.orphans = old.orphans \ {p}, !.status = status]
  <2>2. line \in Line /\ line.worker = old.worker /\ line.puller = old.puller
    BY <1>1 DEF Line
  <2> HIDE DEF line, old
  <2> QED
    BY <1>2, <2>1, <2>2, OneLineTyped DEF line
<1> QED
  BY <1>3, <1>4, <1>5, <1>6, <1>7 DEF LineSteps, Worker

LEMMA RestartTyped ==
  ASSUME TypeInv, Restart
  PROVE  /\ lines' \in Board /\ Employed'
         /\ \A x \in Places : LET old == lines[x[1]][x[2]]
                                  new == lines'[x[1]][x[2]]
                              IN /\ new.worker = "none"
                                 /\ new.status = old.status /\ new.reporter = old.reporter
                                 /\ new.orphans = IF old.worker = "running"
                                                  THEN old.orphans \cup {old.puller}
                                                  ELSE old.orphans
<1> DEFINE line(d, i) ==
             [lines[d][i] EXCEPT
                !.orphans = IF lines[d][i].worker = "running"
                            THEN lines[d][i].orphans \cup {lines[d][i].puller}
                            ELSE lines[d][i].orphans,
                !.worker = "none", !.puller = Nobody]
<1>1. lines' = [d \in Desks |-> [i \in 1..LineCount |-> line(d, i)]]
  BY DEF Restart
<1>2. ASSUME NEW d \in Desks, NEW i \in 1..LineCount
      PROVE  /\ line(d, i) \in Line /\ line(d, i).worker = "none"
             /\ line(d, i).status = lines[d][i].status
             /\ line(d, i).reporter = lines[d][i].reporter
             /\ line(d, i).orphans = IF lines[d][i].worker = "running"
                                     THEN lines[d][i].orphans \cup {lines[d][i].puller}
                                     ELSE lines[d][i].orphans
  <2> DEFINE old == lines[d][i]
  <2>1. old \in Line
    BY DEF TypeInv, TypeOK
  <2>2. old.worker = "running" => old.puller \in Pullers
    <3>1. <<d, i>> \in Places
      BY DEF Places
    <3> QED
      BY <2>1, <3>1 DEF TypeInv, Employed, Line
  <2> HIDE DEF old
  <2> QED
    BY <2>1, <2>2 DEF Line, Nobody, old
<1> HIDE DEF line
<1>3. lines' \in Board
  BY <1>1, <1>2 DEF Board
<1>4. ASSUME NEW x \in Places
      PROVE  lines'[x[1]][x[2]] = line(x[1], x[2]) /\ x[1] \in Desks /\ x[2] \in 1..LineCount
  BY <1>1 DEF Places
<1>5. ASSUME NEW x \in Places
      PROVE  LET old == lines[x[1]][x[2]]
                 new == lines'[x[1]][x[2]]
             IN /\ new.worker = "none"
                /\ new.status = old.status /\ new.reporter = old.reporter
                /\ new.orphans = IF old.worker = "running" THEN old.orphans \cup {old.puller}
                                 ELSE old.orphans
  <2>1. x[1] \in Desks /\ x[2] \in 1..LineCount /\ lines'[x[1]][x[2]] = line(x[1], x[2])
    BY <1>4
  <2>2. /\ line(x[1], x[2]).worker = "none"
        /\ line(x[1], x[2]).status = lines[x[1]][x[2]].status
        /\ line(x[1], x[2]).reporter = lines[x[1]][x[2]].reporter
        /\ line(x[1], x[2]).orphans = IF lines[x[1]][x[2]].worker = "running"
                                      THEN lines[x[1]][x[2]].orphans \cup {lines[x[1]][x[2]].puller}
                                      ELSE lines[x[1]][x[2]].orphans
    BY <1>2, <2>1
  <2> QED
    BY <2>1, <2>2
<1>6. Employed'
  BY <1>5 DEF Employed
<1> QED
  BY <1>3, <1>5, <1>6

LEMMA TypeStep ==
  ASSUME TypeInv, [Next]_vars
  PROVE  TypeInv'
<1> USE DEF Board, history
<1>0. TypeOK /\ Employed
  BY DEF TypeInv
<1>1. CASE TickBegins \/ NobodyIdle \/ Approve
  <2>1. UNCHANGED <<lines, personas, tests, rr, requests, edits, faults, history>>
    BY <1>1 DEF TickBegins, NobodyIdle, Approve
  <2>2. tick' \in [at : {"idle", "checking", "listing"}, inUse : SUBSET Pullers]
    <3>1. CASE TickBegins
      BY <1>0, <3>1 DEF TickBegins, TypeOK
    <3>2. CASE NobodyIdle
      BY <3>2 DEF NobodyIdle, Resting
    <3>3. CASE Approve
      BY <1>0, <3>3 DEF Approve, TypeOK
    <3> QED
      BY <1>1, <3>1, <3>2, <3>3
  <2>3. approved' \in BOOLEAN
    BY <1>0, <1>1 DEF TickBegins, NobodyIdle, Approve, TypeOK
  <2> QED
    BY <1>0, <2>1, <2>2, <2>3 DEF TypeOK, TypeInv, Employed
<1>2. CASE Scan
  <2>1. InUse \subseteq Pullers
    BY InUseTyped
  <2> HIDE DEF InUse
  <2> QED
    BY <1>0, <1>2, <2>1 DEF Scan, TypeOK, TypeInv, Employed
<1>3. CASE Dispatch
  <2>1. PICK idle \in Idle, n \in Nat : Hands(idle, n, {}, FALSE)
    BY <1>0, <1>3, DispatchHands
  <2>2. /\ lines' \in Board /\ rr' \in 0..(DeskCount - 1) /\ tick' = Resting
        /\ turns' \in [Desks -> Seq(Reporters)] /\ passed' \in [Desks -> [Desks -> Nat]]
    BY <1>0, <2>1, HandsTyped
  <2>3. Employed'
    BY <2>1, HandsEmployed
  <2>4. UNCHANGED <<approved, personas, tests, requests, edits, faults>>
    BY <1>3, <2>1 DEF Hands, Hand, Dispatch
  <2>5. refused' \subseteq Desks
    <3>1. PICK idle2 \in Idle :
            LET picks == Selection(Cardinality(idle2)).picks
                raising == RaisingPicks(picks, Rows(picks, idle2, {}))
                m == IF raising = {} THEN Len(picks) ELSE Min(raising) - 1
            IN  refused' = IF raising = {} THEN refused ELSE refused \cup {picks[m + 1][1]}
      BY <1>3 DEF Dispatch
    <3> DEFINE picks == Selection(Cardinality(idle2)).picks
               raising == RaisingPicks(picks, Rows(picks, idle2, {}))
    <3>2. Len(picks) \in Nat /\ picks \in Seq(Places)
      BY <1>0, SelectionDealt DEF Idle
    <3>3. raising \subseteq 1..Len(picks)
      BY DEF RaisingPicks, Given
    <3>4. CASE raising # {}
      <4>1. Min(raising) \in 1..Len(picks)
        <5> HIDE DEF raising
        <5>1. raising \in SUBSET Nat
          BY <3>2, <3>3
        <5>2. Min(raising) \in raising
          BY <3>4, <5>1, MinIsLeast
        <5> QED
          BY <3>3, <5>2
      <4>2. refused' = refused \cup {picks[(Min(raising) - 1) + 1][1]}
        BY <3>1, <3>4
      <4> HIDE DEF picks, raising
      <4>3. (Min(raising) - 1) + 1 = Min(raising) /\ picks[Min(raising)] \in Places
        BY <3>2, <4>1
      <4> QED
        BY <1>0, <4>2, <4>3 DEF TypeOK, Places
    <3>5. CASE raising = {}
      BY <1>0, <3>1, <3>5 DEF TypeOK
    <3> QED
      BY <3>4, <3>5
  <2> QED
    BY <1>0, <2>2, <2>3, <2>4, <2>5 DEF TypeInv, TypeOK, Resting
<1>4. CASE DispatchLocked
  <2>1. PICK idle \in Idle, n \in Nat, lost \in SUBSET Nat : Hands(idle, n, lost, TRUE)
    BY <1>0, <1>4, LockedHands
  <2>2. /\ lines' \in Board /\ rr' \in 0..(DeskCount - 1) /\ tick' = Resting
        /\ turns' \in [Desks -> Seq(Reporters)] /\ passed' \in [Desks -> [Desks -> Nat]]
    BY <1>0, <2>1, HandsTyped
  <2>3. Employed'
    BY <2>1, HandsEmployed
  <2>4. /\ UNCHANGED <<approved, personas, tests, requests, edits, refused>>
        /\ faults' = faults + 1 /\ faults < MaxFaults
    BY <1>4, <2>1 DEF Hands, Hand, DispatchLocked
  <2>5. faults' \in 0..MaxFaults
    BY <1>0, <2>4, Counts DEF TypeOK
  <2> QED
    BY <1>0, <2>2, <2>3, <2>4, <2>5 DEF TypeInv, TypeOK, Resting
<1>5. ASSUME NEW d \in Desks, NEW i \in 1..LineCount, LineSteps(d, i)
      PROVE  TypeInv'
  <2>1. lines' \in Board /\ Employed'
    BY <1>5, WorkerTyped
  <2>2. UNCHANGED <<approved, personas, tests, rr, tick, edits, faults, history>>
    BY <1>5 DEF LineSteps, Worker, Begin, BeginFails, EndRun, EndOrphan, StopRun
  <2>3. requests' \in 0..MaxRequests
    <3>1. \/ requests' = requests
          \/ requests < MaxRequests /\ requests' = requests + 1
      BY <1>5 DEF LineSteps, Worker, Begin, BeginFails, EndRun, EndOrphan, StopRun
    <3> QED
      BY <1>0, <3>1, Counts DEF TypeOK
  <2> QED
    BY <1>0, <2>1, <2>2, <2>3 DEF TypeInv, TypeOK
<1>6. CASE Restart
  <2>1. lines' \in Board /\ Employed'
    BY <1>6, RestartTyped
  <2>2. faults' \in 0..MaxFaults
    <3>1. faults' = faults + 1 /\ faults < MaxFaults /\ faults \in 0..MaxFaults
      BY <1>0, <1>6 DEF Restart, TypeOK
    <3> QED
      BY <3>1, Counts
  <2>3. rr' \in 0..(DeskCount - 1)
    <3>1. rr' = 0
      BY <1>6 DEF Restart
    <3> QED
      BY <3>1, Counts
  <2> QED
    BY <1>0, <1>6, <2>1, <2>2, <2>3 DEF Restart, TypeInv, TypeOK, Resting, NeverPassed
<1>7. CASE TestRun \/ TestEnds
  <2>1. requests' \in 0..MaxRequests
    BY <1>0, <1>7, Counts DEF TypeOK, TestRun, TestEnds
  <2> QED
    BY <1>0, <1>7, <2>1 DEF TestRun, TestEnds, TypeInv, TypeOK, Employed
<1>8. CASE CreatePersona \/ UpdatePersona \/ DeletePersona
  <2>1. PICK rows \in SUBSET Reporters : EditPersonas(rows)
    BY <1>0, <1>8 DEF CreatePersona, UpdatePersona, DeletePersona, TypeOK
  <2>2. edits' \in 0..MaxEdits
    BY <1>0, <2>1, Counts DEF TypeOK, EditPersonas
  <2> QED
    BY <1>0, <2>1, <2>2 DEF EditPersonas, NoTurns, TypeInv, TypeOK, Employed
<1>9. CASE UNCHANGED vars
  BY <1>0, <1>9 DEF vars, TypeInv, TypeOK, Employed
<1> QED
  BY <1>1, <1>2, <1>3, <1>4, <1>5, <1>6, <1>7, <1>8, <1>9 DEF Next, LineSteps

LEMMA TypeAlways == Spec => []TypeInv
<1>1. Init => TypeInv
  BY TypeInit
<1>2. TypeInv /\ [Next]_vars => TypeInv'
  BY TypeStep
<1> QED
  BY <1>1, <1>2, PTL DEF Spec

\* Every desk, line, puller and reporter the dispatch writes is one there is,
\* whatever the numbers of them, also when ticks fail half way.
THEOREM TypeCorrect == Spec => []TypeOK
<1>1. TypeInv => TypeOK
  BY DEF TypeInv
<1> QED
  BY <1>1, TypeAlways, PTL

-----------------------------------------------------------------------------
(* No puller for two lines.                                                *)

\* The pullers of a line, of whatever process; not of a run that was stopped.
Work(x) == Working(x[1], x[2])

Apart == \A x, y \in Places : x # y => Work(x) \cap Work(y) = {}

\* Between the scan and the dispatch no line gets a puller that the scan has
\* not read as in use: nothing is spawned then, so that nothing begins.
Counted == tick.at = "listing" => \A x \in Places : Work(x) \subseteq tick.inUse

PullerInv == TypeInv /\ Apart /\ Counted

\* Workers that begin or end, and restarts, give no line another puller.
LEMMA WorkerKeeps ==
  ASSUME TypeInv, NEW d \in Desks, NEW i \in 1..LineCount, LineSteps(d, i), NEW x \in Places
  PROVE  Work(x)' \subseteq Work(x)
<1> DEFINE old == lines[d][i]
<1>1. lines \in Board /\ old \in Line /\ x[1] \in Desks /\ x[2] \in 1..LineCount
  BY LineAt DEF TypeInv, TypeOK, Board
<1>2. x[1] # d \/ x[2] # i => lines'[x[1]][x[2]] = lines[x[1]][x[2]]
  <2>1. \E line : lines' = [lines EXCEPT ![d] = [lines[d] EXCEPT ![i] = line]]
    <3>1. CASE Begin(d, i)
      BY <1>1, <3>1 DEF Begin, Board
    <3>2. CASE BeginFails(d, i)
      BY <1>1, <3>2 DEF BeginFails, Board
    <3>3. CASE EndRun(d, i)
      BY <1>1, <3>3 DEF EndRun, Board
    <3>4. CASE EndOrphan(d, i)
      BY <1>1, <3>4 DEF EndOrphan, Board
    <3>5. CASE StopRun(d, i)
      BY <1>1, <3>5 DEF StopRun, Board
    <3> QED
      BY <3>1, <3>2, <3>3, <3>4, <3>5 DEF LineSteps, Worker
  <2> QED
    BY <1>1, <2>1 DEF Board
<1>3. /\ lines'[d][i].orphans \subseteq old.orphans
      /\ \/ lines'[d][i].worker \in {"none", "stopped"}
         \/ lines'[d][i].puller = old.puller /\ old.worker = "spawned"
         \/ lines'[d][i].puller = old.puller /\ lines'[d][i].worker = old.worker
  <2>1. CASE Begin(d, i)
    BY <1>1, <2>1 DEF Begin, Board, Line
  <2>2. CASE BeginFails(d, i)
    BY <1>1, <2>2 DEF BeginFails, Board, Line
  <2>3. CASE EndRun(d, i)
    BY <1>1, <2>3 DEF EndRun, Board, Line
  <2>4. CASE EndOrphan(d, i)
    BY <1>1, <2>4 DEF EndOrphan, Board, Line
  <2>5. CASE StopRun(d, i)
    BY <1>1, <2>5 DEF StopRun, Board, Line
  <2> QED
    BY <2>1, <2>2, <2>3, <2>4, <2>5 DEF LineSteps, Worker
<1> QED
  BY <1>2, <1>3 DEF Work, Working

LEMMA RestartKeeps ==
  ASSUME TypeInv, Restart, NEW x \in Places
  PROVE  Work(x)' \subseteq Work(x)
<1>1. LET old == lines[x[1]][x[2]]
          new == lines'[x[1]][x[2]]
      IN /\ new.worker = "none"
         /\ new.orphans = IF old.worker = "running" THEN old.orphans \cup {old.puller}
                          ELSE old.orphans
  BY RestartTyped
<1> QED
  BY <1>1 DEF Work, Working

\* A tick gives a line that nobody works on one puller that is idle.
LEMMA HandsWork ==
  ASSUME TypeInv, NEW idle \in Idle, NEW n \in Nat, NEW lost, NEW failed,
         Hands(idle, n, lost, failed), NEW x \in Places
  PROVE  \/ Work(x)' = Work(x)
         \/ \E k \in 1..Cardinality(idle) :
              /\ Selection(Cardinality(idle)).picks[k] = x
              /\ Work(x)' = Work(x) \cup {Nth(idle, k)}
<1> DEFINE old == lines[x[1]][x[2]]
           new == lines'[x[1]][x[2]]
<1>1. \/ new = old
      \/ \E k \in 1..Cardinality(idle) :
           /\ Selection(Cardinality(idle)).picks[k] = x
           /\ old.worker = "none" /\ new.worker = "spawned" /\ new.puller = Nth(idle, k)
           /\ new.orphans = old.orphans
  BY HandsLines DEF TypeInv
<1>2. CASE new = old
  BY <1>2 DEF Work, Working
<1>3. CASE new # old
  <2>1. PICK k \in 1..Cardinality(idle) :
           /\ Selection(Cardinality(idle)).picks[k] = x
           /\ old.worker = "none" /\ new.worker = "spawned" /\ new.puller = Nth(idle, k)
           /\ new.orphans = old.orphans
    BY <1>1, <1>3
  <2>2. Work(x)' = Work(x) \cup {Nth(idle, k)}
    BY <2>1 DEF Work, Working
  <2> QED
    BY <2>1, <2>2
<1> QED
  BY <1>2, <1>3

LEMMA HandsApart ==
  ASSUME PullerInv, tick.at = "listing", NEW idle \in Idle, NEW n \in Nat, NEW lost, NEW failed,
         Hands(idle, n, lost, failed)
  PROVE  Apart' /\ Counted'
<1> DEFINE picks == Selection(Cardinality(idle)).picks
<1>1. TypeInv /\ Apart /\ \A x \in Places : Work(x) \subseteq tick.inUse
  BY DEF PullerInv, Counted
<1>2. idle \in SUBSET Pullers /\ idle \cap tick.inUse = {}
  BY DEF Idle
<1>3. \A j, k \in 1..Cardinality(idle) : Nth(idle, j) = Nth(idle, k) => j = k
  BY <1>2, Counts, Numbers, NthDiffer DEF Pullers
<1>4. \A k \in 1..Cardinality(idle) : Nth(idle, k) \in idle
  BY <1>2, Counts, Numbers, NthRanks DEF Pullers
<1>5. \A x \in Places : \/ Work(x)' = Work(x)
                        \/ \E k \in 1..Cardinality(idle) :
                             picks[k] = x /\ Work(x)' = Work(x) \cup {Nth(idle, k)}
  BY <1>1, HandsWork
<1>6. ASSUME NEW x \in Places, NEW y \in Places, x # y, NEW p \in Work(x)', p \in Work(y)'
      PROVE  FALSE
  <2>1. p \in Work(x) \/ \E k \in 1..Cardinality(idle) : picks[k] = x /\ p = Nth(idle, k)
    BY <1>5, <1>6
  <2>2. p \in Work(y) \/ \E k \in 1..Cardinality(idle) : picks[k] = y /\ p = Nth(idle, k)
    BY <1>5, <1>6
  <2>3. p \in Work(x) => p \notin Work(y)
    BY <1>1, <1>6 DEF Apart
  <2>4. p \in Work(x) \/ p \in Work(y) => p \notin idle
    BY <1>1, <1>2
  <2> QED
    BY <1>3, <1>4, <1>6, <2>1, <2>2, <2>3, <2>4
<1>7. Apart'
  BY <1>6 DEF Apart
<1>8. Counted'
  BY HandsTyped DEF Counted, PullerInv, TypeInv, Resting
<1> QED
  BY <1>7, <1>8

LEMMA PullerStep ==
  ASSUME AutoScheduler, PullerInv, [Next]_vars
  PROVE  PullerInv'
<1>0. TypeInv /\ TypeInv' /\ Apart /\ Counted /\ TypeOK
  BY TypeStep DEF PullerInv, TypeInv
<1>1. ASSUME \A x \in Places : Work(x)' \subseteq Work(x),
             tick' = tick \/ tick'.at # "listing"
      PROVE  Apart' /\ Counted'
  <2>1. Apart'
    BY <1>0, <1>1 DEF Apart
  <2>2. Counted'
    BY <1>0, <1>1 DEF Counted
  <2> QED
    BY <2>1, <2>2
<1>2. ASSUME UNCHANGED lines, tick' = tick \/ tick'.at # "listing"
      PROVE  Apart' /\ Counted'
  <2>1. \A x \in Places : Work(x)' \subseteq Work(x)
    BY <1>2 DEF Work, Working
  <2> QED
    BY <1>1, <1>2, <2>1
<1>3. CASE Scan
  <2>1. tick' = [at |-> "listing", inUse |-> InUse] /\ UNCHANGED lines /\ With("spawned") = {}
    BY <1>3 DEF Scan, Spawned
  <2>2. \A x \in Places : Work(x)' = Work(x)
    BY <2>1 DEF Work, Working
  <2>3. ASSUME NEW x \in Places
        PROVE  Work(x) \subseteq InUse
    <3>1. lines[x[1]][x[2]] \in Line /\ lines[x[1]][x[2]].worker # "spawned"
      BY <1>0, <2>1, LineAt DEF With
    <3>2. lines[x[1]][x[2]].worker \in {"none", "running", "stopped"}
      BY <3>1 DEF Line
    <3>3. lines[x[1]][x[2]].orphans \subseteq InUse
      BY DEF InUse
    <3>4. lines[x[1]][x[2]].worker = "running" => lines[x[1]][x[2]].puller \in InUse
      BY DEF InUse, With
    <3> QED
      BY <3>2, <3>3, <3>4 DEF Work, Working
  <2>4. Apart'
    BY <1>0, <2>2 DEF Apart
  <2>5. Counted'
    BY <2>1, <2>2, <2>3 DEF Counted
  <2> QED
    BY <1>0, <2>4, <2>5 DEF PullerInv
<1>4. CASE Dispatch
  <2>1. tick.at = "listing" /\ \E idle \in Idle, n \in Nat : Hands(idle, n, {}, FALSE)
    BY <1>0, <1>4, DispatchHands
  <2> QED
    BY <1>0, <2>1, HandsApart DEF PullerInv
<1>5. CASE DispatchLocked
  <2>1. /\ tick.at = "listing"
        /\ \E idle \in Idle, n \in Nat, lost \in SUBSET Nat : Hands(idle, n, lost, TRUE)
    BY <1>0, <1>5, LockedHands
  <2> QED
    BY <1>0, <2>1, HandsApart DEF PullerInv
<1>6. ASSUME NEW d \in Desks, NEW i \in 1..LineCount, LineSteps(d, i)
      PROVE  PullerInv'
  <2>1. \A x \in Places : Work(x)' \subseteq Work(x)
    BY <1>0, <1>6, WorkerKeeps
  <2>2. tick' = tick
    BY <1>6 DEF LineSteps, Worker, Begin, BeginFails, EndRun, EndOrphan, StopRun
  <2> QED
    BY <1>0, <1>1, <2>1, <2>2 DEF PullerInv
<1>7. CASE Restart
  <2>1. \A x \in Places : Work(x)' \subseteq Work(x)
    BY <1>0, <1>7, RestartKeeps
  <2>2. tick'.at # "listing"
    BY <1>7 DEF Restart, Resting
  <2> QED
    BY <1>0, <1>1, <2>1, <2>2 DEF PullerInv
<1>8. CASE TickBegins \/ NobodyIdle \/ Approve \/ TestRun \/ TestEnds
  <2>1. UNCHANGED lines /\ (tick' = tick \/ tick'.at # "listing")
    BY <1>0, <1>8 DEF TickBegins, NobodyIdle, Approve, TestRun, TestEnds, Resting, TypeOK
  <2> QED
    BY <1>0, <1>2, <2>1 DEF PullerInv
<1>9. CASE CreatePersona \/ UpdatePersona \/ DeletePersona
  <2>1. UNCHANGED <<lines, tick>>
    BY <1>9 DEF CreatePersona, UpdatePersona, DeletePersona, EditPersonas
  <2> QED
    BY <1>0, <1>2, <2>1 DEF PullerInv
<1>10. CASE UNCHANGED vars
  <2>1. UNCHANGED <<lines, tick>>
    BY <1>10 DEF vars
  <2> QED
    BY <1>0, <1>2, <2>1 DEF PullerInv
<1> QED
  BY <1>3, <1>4, <1>5, <1>6, <1>7, <1>8, <1>9, <1>10 DEF Next, LineSteps

\* idle_pullers_for_model: with the scheduler on, no puller is given to a line
\* while it works for another one's run, unless that one was stopped, however
\* many ticks, workers, stops, restarts and failed commits there are.
THEOREM OnePullerAlways == AutoScheduler /\ Spec => []OnePullerPerLine
<1> SUFFICES ASSUME AutoScheduler
             PROVE  Spec => []OnePullerPerLine
  OBVIOUS
<1>1. Init => PullerInv
  <2> SUFFICES ASSUME Init
               PROVE  PullerInv
    OBVIOUS
  <2>1. TypeInv /\ tick.at # "listing"
    BY TypeInit DEF Init, Resting
  <2>2. \A x \in Places : Work(x) = {}
    <3> TAKE x \in Places
    <3>1. x[1] \in Desks /\ x[2] \in 1..LineCount
      BY DEF Places
    <3>2. PICK b \in BOOLEAN :
            lines[x[1]][x[2]] = [status |-> "pending", suggested |-> b, reporter |-> Nobody,
                                 worker |-> "none", puller |-> Nobody, orphans |-> {}]
      BY <3>1 DEF Init
    <3> QED
      BY <3>2 DEF Work, Working
  <2> QED
    BY <2>1, <2>2 DEF PullerInv, Apart, Counted
<1>2. PullerInv /\ [Next]_vars => PullerInv'
  BY PullerStep
<1>3. PullerInv => OnePullerPerLine
  <2> SUFFICES ASSUME Apart, NEW d \in Desks, NEW e \in Desks,
                      NEW i \in 1..LineCount, NEW j \in 1..LineCount, <<d, i>> # <<e, j>>
               PROVE  Working(d, i) \cap Working(e, j) = {}
    BY DEF PullerInv, OnePullerPerLine
  <2>1. <<d, i>> \in Places /\ <<e, j>> \in Places
    BY DEF Places
  <2>2. Work(<<d, i>>) = Working(d, i) /\ Work(<<e, j>>) = Working(e, j)
    BY DEF Work
  <2> QED
    BY <2>1, <2>2 DEF Apart
<1> QED
  BY <1>1, <1>2, <1>3, PTL DEF Spec

-----------------------------------------------------------------------------
(* The desks take turns.                                                   *)

\* How many desks are visited before x when the next visit is at index i.
Off(i, x) == IF x - 1 >= i THEN x - 1 - i ELSE x - 1 - i + DeskCount

LEMMA OffSteps ==
  ASSUME NEW i \in 0..(DeskCount - 1), NEW x \in Desks, NEW y \in Desks
  PROVE  /\ Off(i, x) \in 0..(DeskCount - 1)
         /\ Off(i, x) = 0 <=> x = i + 1
         /\ x = i + 1 => Off((i + 1) % DeskCount, x) = DeskCount - 1
         /\ x # i + 1 => Off((i + 1) % DeskCount, x) = Off(i, x) - 1
         /\ Off(i, x) = Off(i, y) => x = y
<1>1. DeskCount \in Nat \ {0}
  BY SizeAssumption
<1>2. (i + 1) % DeskCount = IF i + 1 = DeskCount THEN 0 ELSE i + 1
  BY <1>1, Next1
<1> QED
  BY <1>1, <1>2 DEF Off, Desks

\* The picks that overtake the waiting desk d for e, and whether d was served.
Overtakers(picks, n, d, e) ==
  {k \in Given(picks, n) : picks[k][1] = e /\
     \A j \in {i \in Given(picks, n) : picks[i][1] = d} : j < k}

Served(picks, n, d) == \E k \in Given(picks, n) : picks[k][1] = d

\* What e was given since d was, in this tick and in those before: at most one
\* line, and if one, then the walk comes to d before it comes to e again.
Behind(w, d, e) ==
  LET over == Overtakers(w.picks, Len(w.picks), d, e)
      before == IF Served(w.picks, Len(w.picks), d) THEN 0 ELSE passed[d][e]
  IN  \/ over = {} /\ before = 0
      \/ /\ (over = {} /\ before = 1) \/ (before = 0 /\ \E k : over = {k})
         /\ Off(w.index, d) < Off(w.index, e)

LEMMA GivenAppend ==
  ASSUME NEW picks \in Seq(Places), NEW x \in Places
  PROVE  LET new == Append(picks, x)
             m == Len(picks)
         IN /\ Len(new) = m + 1 /\ m \in Nat
            /\ \A k \in 1..m : new[k] = picks[k]
            /\ new[m + 1] = x
            /\ Given(new, m + 1) = Given(picks, m) \cup (IF Taken(x) THEN {} ELSE {m + 1})
            /\ \A k \in Given(picks, m) : k \in 1..m
<1> DEFINE new == Append(picks, x)
           m == Len(picks)
<1>1. Len(new) = m + 1 /\ m \in Nat /\ new[m + 1] = x /\ \A k \in 1..m : new[k] = picks[k]
  OBVIOUS
<1> HIDE DEF new, m
<1>2. Given(new, m + 1) = Given(picks, m) \cup (IF Taken(x) THEN {} ELSE {m + 1})
  <2>1. \A k \in 1..(m + 1) : k \in 1..m \/ k = m + 1
    BY <1>1
  <2>2. 1..m \subseteq 1..(m + 1) /\ m + 1 \in 1..(m + 1)
    BY <1>1
  <2> QED
    BY <1>1, <2>1, <2>2 DEF Given
<1> QED
  BY <1>1, <1>2 DEF Given, new, m

\* A line given to d ends the overtaking of it.
LEMMA ServedStarts ==
  ASSUME NEW picks \in Seq(Places), NEW x \in Places, ~Taken(x), NEW e, e # x[1]
  PROVE  LET new == Append(picks, x) IN
         Overtakers(new, Len(new), x[1], e) = {} /\ Served(new, Len(new), x[1])
<1> DEFINE new == Append(picks, x)
           m == Len(picks)
<1>1. /\ Len(new) = m + 1 /\ m \in Nat /\ new[m + 1] = x
      /\ Given(new, m + 1) = Given(picks, m) \cup {m + 1}
      /\ \A k \in Given(picks, m) : k \in 1..m
  BY GivenAppend
<1> HIDE DEF new, m
<1>2. \A k \in Given(new, m + 1) : m + 1 < k => FALSE
  BY <1>1
<1> QED
  BY <1>1, <1>2 DEF Overtakers, Served, new

\* A line given to e overtakes d once more; one given to another desk does not.
LEMMA OthersPass ==
  ASSUME NEW picks \in Seq(Places), NEW x \in Places, NEW d, NEW e, x[1] # d
  PROVE  LET new == Append(picks, x)
             m == Len(picks)
         IN /\ Served(new, Len(new), d) <=> Served(picks, m, d)
            /\ x[1] # e => Overtakers(new, Len(new), d, e) = Overtakers(picks, m, d, e)
            /\ Overtakers(new, Len(new), d, e) \subseteq Overtakers(picks, m, d, e) \cup {m + 1}
<1> DEFINE new == Append(picks, x)
           m == Len(picks)
<1>1. /\ Len(new) = m + 1 /\ m \in Nat /\ new[m + 1] = x
      /\ Given(new, m + 1) = Given(picks, m) \cup (IF Taken(x) THEN {} ELSE {m + 1})
      /\ \A k \in Given(picks, m) : k \in 1..m /\ new[k] = picks[k]
  BY GivenAppend
<1> HIDE DEF new, m
<1>2. {i \in Given(new, m + 1) : new[i][1] = d} = {i \in Given(picks, m) : picks[i][1] = d}
  BY <1>1
<1> QED
  BY <1>1, <1>2 DEF Overtakers, Served, new, m

\* Every visit of d gives it a line.
Ready(w, d) ==
  \E i \in 1..LineCount :
    Visit(d, w.picks) = Append(w.picks, <<d, i>>) /\ ~Taken(<<d, i>>)

LEMMA StrideBehind ==
  ASSUME NEW limit \in Nat, NEW w, Sound(w, limit), NEW d \in Desks, NEW e \in Desks, d # e,
         passed[d][e] \in Nat, Behind(w, d, e),
         w.index + 1 = d /\ Len(w.picks) # limit => Ready(w, d)
  PROVE  Behind(Stride(w, limit), d, e)
<1> DEFINE s == Stride(w, limit)
           v == w.index + 1
           picks == w.picks
           m == Len(picks)
<1>1. CASE m = limit
  BY <1>1 DEF Stride
<1>2. CASE m # limit
  <2>1. /\ s.picks = Visit(v, picks) /\ s.index = v % DeskCount
        /\ w.index \in 0..(DeskCount - 1) /\ picks \in Seq(Places)
    BY <1>2 DEF Stride, Sound
  <2>2. v \in Desks /\ DeskCount \in Nat \ {0}
    BY <2>1, SizeAssumption DEF Desks
  <2>3. /\ Off(w.index, d) \in 0..(DeskCount - 1) /\ Off(w.index, e) \in 0..(DeskCount - 1)
        /\ Off(s.index, d) \in 0..(DeskCount - 1)
        /\ d # v => Off(w.index, d) # 0 /\ Off(s.index, d) = Off(w.index, d) - 1
        /\ e # v => Off(s.index, e) = Off(w.index, e) - 1
        /\ e = v => Off(w.index, e) = 0 /\ Off(s.index, e) = DeskCount - 1
    <3>1. v % DeskCount \in 0..(DeskCount - 1)
      BY <2>1, <2>2, Next1
    <3> QED
      BY <2>1, <3>1, OffSteps
  <2> HIDE DEF s, v
  <2>4. CASE v = d
    <3>1. PICK i \in 1..LineCount : s.picks = Append(picks, <<d, i>>) /\ ~Taken(<<d, i>>)
      BY <1>2, <2>1, <2>4 DEF Ready, v
    <3>2. <<d, i>> \in Places /\ <<d, i>>[1] = d
      BY DEF Places
    <3>3. Overtakers(s.picks, Len(s.picks), d, e) = {} /\ Served(s.picks, Len(s.picks), d)
      BY <2>1, <3>1, <3>2, ServedStarts
    <3> QED
      BY <3>3 DEF Behind, s
  <2>5. CASE v # d
    <3> DEFINE over == Overtakers(picks, m, d, e)
               more == Overtakers(s.picks, Len(s.picks), d, e)
    <3>1. /\ Served(s.picks, Len(s.picks), d) <=> Served(picks, m, d)
          /\ v # e => more = over
          /\ more \subseteq over \cup {m + 1}
      <4>1. CASE s.picks = picks
        BY <4>1
      <4>2. CASE \E i \in 1..LineCount : s.picks = Append(picks, <<v, i>>)
        <5>1. PICK i \in 1..LineCount : s.picks = Append(picks, <<v, i>>)
          BY <4>2
        <5>2. <<v, i>> \in Places /\ <<v, i>>[1] = v
          BY <2>2 DEF Places
        <5> DEFINE new == Append(picks, <<v, i>>)
        <5> HIDE DEF picks
        <5>3. /\ Served(new, Len(new), d) <=> Served(picks, Len(picks), d)
              /\ v # e => Overtakers(new, Len(new), d, e) = Overtakers(picks, Len(picks), d, e)
              /\ Overtakers(new, Len(new), d, e)
                   \subseteq Overtakers(picks, Len(picks), d, e) \cup {Len(picks) + 1}
          BY <2>1, <2>5, <5>2, OthersPass
        <5> HIDE DEF new
        <5> QED
          BY <5>1, <5>3 DEF new
      <4> QED
        <5>1. Visit(v, picks) = picks \/
              \E i \in Open(v, picks) : Visit(v, picks) = Append(picks, <<v, i>>)
          BY <2>1, <2>2, Visits
        <5>2. Open(v, picks) \subseteq 1..LineCount
          BY DEF Open, Pending
        <5> QED
          BY <2>1, <4>1, <4>2, <5>1, <5>2
    <3> DEFINE before == IF Served(picks, m, d) THEN 0 ELSE passed[d][e]
    <3>2. \/ over = {} /\ before = 0
          \/ /\ (over = {} /\ before = 1) \/ (before = 0 /\ \E k : over = {k})
             /\ Off(w.index, d) < Off(w.index, e)
      BY DEF Behind
    <3>3. before = IF Served(s.picks, Len(s.picks), d) THEN 0 ELSE passed[d][e]
      BY <3>1
    <3> HIDE DEF over, more, before
    <3>4. CASE v = e
      <4>1. over = {} /\ before = 0
        BY <2>3, <2>5, <3>2, <3>4
      <4>2. more = {} \/ more = {m + 1}
        BY <3>1, <4>1
      <4>3. Off(s.index, d) < Off(s.index, e)
        BY <2>2, <2>3, <2>5, <3>4
      <4> QED
        BY <3>3, <4>1, <4>2, <4>3 DEF Behind, more, s
    <3>5. CASE v # e
      <4>1. Off(w.index, d) < Off(w.index, e) => Off(s.index, d) < Off(s.index, e)
        BY <2>2, <2>3, <2>5, <3>5
      <4>2. more = over
        BY <3>1, <3>5
      <4> QED
        BY <3>2, <3>3, <4>1, <4>2 DEF Behind, more, s
    <3> QED
      BY <3>4, <3>5
  <2> QED
    BY <2>4, <2>5
<1> QED
  BY <1>1, <1>2

\* The picks of a stage stay in those of the next ones.
Grown(p, q) == Len(p) <= Len(q) /\ \A k \in 1..Len(p) : q[k] = p[k]

LEMMA StrideGrows ==
  ASSUME NEW limit \in Nat, NEW w, Sound(w, limit)
  PROVE  Grown(w.picks, Stride(w, limit).picks)
<1> DEFINE d == w.index + 1
           picks == w.picks
<1>1. picks \in Seq(Places) /\ Len(picks) \in Nat
  BY DEF Sound
<1>2. d \in Desks
  BY SizeAssumption DEF Sound, Desks
<1>3. \/ Stride(w, limit).picks = picks
      \/ \E i \in 1..LineCount : Stride(w, limit).picks = Append(picks, <<d, i>>)
  <2>1. Stride(w, limit).picks \in {picks, Visit(d, picks)}
    BY DEF Stride
  <2>2. Open(d, picks) \subseteq 1..LineCount
    BY DEF Open, Pending
  <2> QED
    BY <1>1, <1>2, <2>1, <2>2, Visits
<1>4. ASSUME NEW i \in 1..LineCount
      PROVE  Grown(picks, Append(picks, <<d, i>>))
  <2>1. <<d, i>> \in Places
    BY <1>2 DEF Places
  <2> HIDE DEF picks
  <2> QED
    BY <1>1, <2>1 DEF Grown
<1>5. Grown(picks, picks)
  BY <1>1 DEF Grown
<1> QED
  BY <1>3, <1>4, <1>5

LEMMA WalkGrows ==
  ASSUME rr \in 0..(DeskCount - 1), NEW limit \in Nat
  PROVE  \A n \in 0..(DeskCount * limit) : Grown(Walk(limit)[n].picks, Selection(limit).picks)
<1> DEFINE N == DeskCount * limit
           P(n) == Walk(limit)[n].picks
           S == {t \in 0..N : \A n \in 0..t : Grown(P(n), P(t))}
<1>0. N \in Nat
  BY SizeAssumption
<1>1. \A n \in 0..N : P(n) \in Seq(Places) /\ Len(P(n)) \in Nat
  BY WalkSound DEF Sound
<1>2. \A n \in 0..N : Grown(P(n), P(n))
  BY <1>1 DEF Grown
<1>3. 0 \in S
  BY <1>0, <1>2
<1>4. ASSUME NEW t \in 0..(N - 1), t \in S
      PROVE  t + 1 \in S
  <2>1. t + 1 \in 1..N /\ t + 1 \in 0..N /\ (t + 1) - 1 = t /\ t \in 0..N /\ t \in Nat
    BY <1>0
  <2>2. Grown(P(t), P(t + 1))
    <3>1. Walk(limit)[t + 1] = Stride(Walk(limit)[t], limit)
      BY <2>1, WalkDef
    <3>2. Sound(Walk(limit)[t], limit)
      BY <2>1, WalkSound
    <3> QED
      BY <3>1, <3>2, StrideGrows
  <2>3. ASSUME NEW n \in 0..(t + 1)
        PROVE  Grown(P(n), P(t + 1))
    <3>1. CASE n = t + 1
      BY <1>2, <2>1, <3>1
    <3>2. CASE n \in 0..t
      <4>1. Grown(P(n), P(t))
        BY <1>4, <3>2
      <4>2. Len(P(n)) \in Nat /\ Len(P(t)) \in Nat /\ Len(P(t + 1)) \in Nat
        BY <1>1, <2>1, <3>2
      <4> HIDE DEF P
      <4> QED
        BY <2>2, <4>1, <4>2 DEF Grown
    <3> QED
      BY <2>1, <3>1, <3>2
  <2> HIDE DEF P
  <2> QED
    BY <2>1, <2>3
<1> HIDE DEF S, P
<1>5. \A n \in 0..N : n \in S
  <2> HIDE DEF N
  <2> QED
    BY <1>0, <1>3, <1>4, Induction
<1>6. N \in S
  <2> HIDE DEF N
  <2> QED
    BY <1>0, <1>5
<1> QED
  BY <1>6 DEF S, P, Selection

\* While a desk waits before and after a tick, its visits all give it a line:
\* the head it still has was never picked, and those before it were.
LEMMA WaitingReady ==
  ASSUME TypeOK, NEW idle \in Idle, NEW n \in Nat, NEW lost, NEW failed,
         Hands(idle, n, lost, failed), n = Len(Selection(Cardinality(idle)).picks),
         NEW d \in Desks, Waiting(d), Waiting(d)',
         NEW w, Sound(w, Cardinality(idle)), w.index + 1 = d, Len(w.picks) # Cardinality(idle),
         Grown(Stride(w, Cardinality(idle)).picks, Selection(Cardinality(idle)).picks)
  PROVE  Ready(w, d)
<1> DEFINE limit == Cardinality(idle)
           picks == Selection(limit).picks
           Still == {j \in 1..LineCount : lines'[d][j].status = "pending"}
           h == Min(Still)
           i == Min(Open(d, w.picks))
<1>1. idle \in SUBSET Pullers
  BY DEF Idle
<1>2. /\ Sound(Selection(limit), limit) /\ Len(picks) \in Nat /\ limit \in Nat
      /\ w.picks \in Seq(Places) /\ Len(w.picks) \in Nat
  <2>1. Sound(Selection(limit), limit) /\ Len(picks) \in Nat /\ limit \in Nat
    BY <1>1, SelectionDealt
  <2>2. w.picks \in Seq(Places) /\ Len(w.picks) \in Nat
    BY DEF Sound
  <2> QED
    BY <2>1, <2>2
<1>3. /\ h \in 1..LineCount /\ lines'[d][h].status = "pending" /\ lines'[d][h].worker = "none"
      /\ approved' \/ ~lines'[d][h].suggested
      /\ \A j \in 1..LineCount : lines'[d][j].status = "pending" => h <= j
  <2>1. /\ Still # {} /\ lines'[d][h].worker = "none"
        /\ approved' \/ ~lines'[d][h].suggested
    BY DEF Waiting, Pending, MayRun
  <2>2. Still \in SUBSET Nat
    OBVIOUS
  <2> HIDE DEF Still
  <2>3. h \in Still /\ \A j \in Still : h <= j
    BY <2>1, <2>2, MinIsLeast
  <2> HIDE DEF h
  <2> QED
    BY <2>1, <2>3 DEF Still
<1> HIDE DEF h, i
<1>4. /\ lines'[d][h] = lines[d][h]
      /\ \A k \in 1..n : picks[k] # <<d, h>>
  <2>1. PICK x \in Places : x = <<d, h>> /\ x[1] = d /\ x[2] = h
    <3> DEFINE y == <<d, h>>
    <3>1. y \in Places /\ y = <<d, h>> /\ y[1] = d /\ y[2] = h
      BY <1>3 DEF Places
    <3> HIDE DEF y
    <3> QED
      BY <3>1
  <2>2. /\ lines'[d][h] = lines[d][h]
        /\ \A k \in Given(picks, n) : picks[k] # <<d, h>>
    <3>1. \/ /\ lines'[x[1]][x[2]] = lines[x[1]][x[2]]
             /\ \A k \in Given(picks, n) : picks[k] # x
          \/ lines'[x[1]][x[2]].worker = "spawned"
      BY HandsLines
    <3> QED
      BY <1>3, <2>1, <3>1
  <2>3. ~Taken(<<d, h>>)
    BY <1>3, <2>2 DEF Taken
  <2> HIDE DEF picks
  <2> QED
    BY <2>2, <2>3 DEF Given
<1>5. h \in Pending(d) /\ MayRun(lines[d][h])
  <2>1. approved' = approved
    BY DEF Hands, Hand
  <2> QED
    BY <1>3, <1>4, <2>1 DEF Pending, MayRun
<1>6. Grown(w.picks, Stride(w, limit).picks) /\ w.picks \in Seq(Places)
  BY <1>2, StrideGrows DEF Sound
<1>7. \A k \in 1..Len(Stride(w, limit).picks) : Stride(w, limit).picks[k] # <<d, h>>
  <2>1. Grown(Stride(w, limit).picks, picks) /\ n = Len(picks) /\ n \in Nat
    OBVIOUS
  <2>2. Sound(Stride(w, limit), limit)
    BY <1>2, StrideSound
  <2>3. Len(Stride(w, limit).picks) \in Nat
    BY <2>2 DEF Sound
  <2> HIDE DEF picks
  <2> QED
    BY <1>4, <2>1, <2>3 DEF Grown
<1>8. h \in Open(d, w.picks)
  <2>1. DOMAIN w.picks = 1..Len(w.picks)
    BY <1>6
  <2>2. Len(w.picks) <= Len(Stride(w, limit).picks) /\ Len(Stride(w, limit).picks) \in Nat
    <3>1. Sound(Stride(w, limit), limit)
      BY <1>2, StrideSound
    <3> QED
      BY <1>6, <3>1 DEF Grown, Sound
  <2>3. \A k \in 1..Len(w.picks) : w.picks[k] # <<d, h>>
    BY <1>2, <1>6, <1>7, <2>2 DEF Grown
  <2> QED
    BY <1>5, <2>1, <2>3 DEF Open
<1>9. /\ \/ Visit(d, w.picks) = w.picks /\ ~MayRun(lines[d][i])
         \/ Visit(d, w.picks) = Append(w.picks, <<d, i>>)
      /\ i \in Open(d, w.picks) /\ i <= h
  <2>1. \/ Visit(d, w.picks) = w.picks /\ ~MayRun(lines[d][i])
        \/ Visit(d, w.picks) = Append(w.picks, <<d, i>>)
    BY <1>6, <1>8, Visits DEF i
  <2>2. Open(d, w.picks) \in SUBSET Nat
    BY DEF Open, Pending
  <2>3. i \in Open(d, w.picks) /\ i <= h
    <3> DEFINE S == Open(d, w.picks)
    <3>1. S \in SUBSET Nat /\ S # {} /\ h \in S
      BY <1>8, <2>2
    <3> HIDE DEF S
    <3>2. Min(S) \in S /\ Min(S) <= h
      BY <3>1, MinIsLeast
    <3> QED
      BY <3>2 DEF S, i
  <2> QED
    BY <2>1, <2>3
<1>10. i \in Pending(d) /\ i \in 1..LineCount /\ lines[d][i].status = "pending"
  BY <1>9 DEF Open, Pending
<1>11. i # h
  <2> SUFFICES ASSUME i = h
               PROVE  FALSE
    OBVIOUS
  <2>1. Visit(d, w.picks) = Append(w.picks, <<d, h>>)
    BY <1>5, <1>9
  <2>2. Stride(w, limit).picks = Append(w.picks, <<d, h>>)
    BY <2>1 DEF Stride
  <2>3. <<d, h>> \in Places
    BY <1>3 DEF Places
  <2>4. /\ Len(Append(w.picks, <<d, h>>)) = Len(w.picks) + 1
        /\ Append(w.picks, <<d, h>>)[Len(w.picks) + 1] = <<d, h>>
    BY <1>6, <2>3
  <2>5. Len(w.picks) + 1 \in 1..(Len(w.picks) + 1)
    BY <1>2
  <2> QED
    BY <1>7, <2>2, <2>4, <2>5
<1>12. \E k \in Given(picks, n) : picks[k] = <<d, i>>
  <2>1. lines'[d][i].status # "pending"
    BY <1>3, <1>9, <1>10, <1>11
  <2>2. PICK x \in Places : x = <<d, i>> /\ x[1] = d /\ x[2] = i
    <3> DEFINE y == <<d, i>>
    <3>1. y \in Places /\ y = <<d, i>> /\ y[1] = d /\ y[2] = i
      BY <1>10 DEF Places
    <3> HIDE DEF y
    <3> QED
      BY <3>1
  <2>3. \/ lines'[x[1]][x[2]] = lines[x[1]][x[2]]
        \/ \E k \in Given(picks, n) : picks[k] = x
    BY HandsLines
  <2> QED
    BY <1>10, <2>1, <2>2, <2>3
<1>13. ~Taken(<<d, i>>) /\ MayRun(lines[d][i])
  <2>1. PICK k \in Given(picks, n) : picks[k] = <<d, i>>
    BY <1>12
  <2>2. k \in 1..Len(picks) /\ ~Taken(picks[k])
    BY <2>1 DEF Given
  <2>3. MayRun(lines[picks[k][1]][picks[k][2]])
    <3>1. \A m \in 1..Len(picks) : MayRun(lines[picks[m][1]][picks[m][2]])
      BY <1>2 DEF Sound
    <3> QED
      BY <2>2, <3>1
  <2> HIDE DEF picks
  <2> QED
    BY <2>1, <2>2, <2>3
<1> QED
  BY <1>9, <1>10, <1>13 DEF Ready

\* A desk that waits was passed at most once by each other desk, and if it was,
\* the next tick comes to it before it comes to that one.
Fair == \A d, e \in Desks :
          passed[d][e] = 0 \/ (passed[d][e] = 1 /\ Off(rr, d) < Off(rr, e))

LEMMA WalkBehind ==
  ASSUME TypeOK, Fair, NEW idle \in Idle, NEW n \in Nat, NEW lost, NEW failed,
         Hands(idle, n, lost, failed), n = Len(Selection(Cardinality(idle)).picks),
         NEW d \in Desks, NEW e \in Desks, d # e, Waiting(d), Waiting(d)'
  PROVE  Behind(Selection(Cardinality(idle)), d, e)
<1> DEFINE limit == Cardinality(idle)
           N == DeskCount * limit
           S == {t \in 0..N : Behind(Walk(limit)[t], d, e)}
<1>0. limit \in Nat /\ N \in Nat /\ rr \in 0..(DeskCount - 1) /\ passed[d][e] \in Nat
  <2>1. idle \in SUBSET Pullers
    BY DEF Idle
  <2>2. limit \in Nat
    BY <2>1, SelectionDealt
  <2> QED
    BY <2>2, SizeAssumption DEF TypeOK
<1>1. 0 \in S
  <2>1. Walk(limit)[0].picks = <<>> /\ Walk(limit)[0].index = rr
    BY <1>0, WalkDef
  <2> DEFINE start == Walk(limit)[0]
  <2>2. Len(start.picks) = 0 /\ Given(start.picks, 0) = {} /\ start.index = rr
    BY <2>1 DEF Given
  <2> HIDE DEF start
  <2>3. Overtakers(start.picks, 0, d, e) = {} /\ ~Served(start.picks, 0, d)
    BY <2>2 DEF Overtakers, Served
  <2>4. passed[d][e] = 0 \/ (passed[d][e] = 1 /\ Off(rr, d) < Off(rr, e))
    BY DEF Fair
  <2>5. Behind(start, d, e)
    BY <2>2, <2>3, <2>4 DEF Behind
  <2> QED
    BY <1>0, <2>5 DEF start
<1>2. ASSUME NEW t \in 0..(N - 1), t \in S
      PROVE  t + 1 \in S
  <2> DEFINE w == Walk(limit)[t]
  <2>1. t + 1 \in 1..N /\ t + 1 \in 0..N /\ (t + 1) - 1 = t /\ t \in 0..N
    BY <1>0
  <2>2. Walk(limit)[t + 1] = Stride(w, limit) /\ Sound(w, limit)
    BY <1>0, <2>1, WalkDef, WalkSound
  <2>3. Grown(Stride(w, limit).picks, Selection(limit).picks)
    BY <1>0, <2>1, <2>2, WalkGrows
  <2>4. Behind(w, d, e)
    BY <1>2
  <2> HIDE DEF w
  <2>5. w.index + 1 = d /\ Len(w.picks) # limit => Ready(w, d)
    BY <2>2, <2>3, WaitingReady
  <2>6. Behind(Stride(w, limit), d, e)
    BY <1>0, <2>2, <2>4, <2>5, StrideBehind
  <2> QED
    BY <2>1, <2>2, <2>6
<1> HIDE DEF S
<1>3. \A t \in 0..N : t \in S
  <2> HIDE DEF N
  <2> QED
    BY <1>0, <1>1, <1>2, Induction
<1>4. N \in S
  <2> HIDE DEF N
  <2> QED
    BY <1>0, <1>3
<1> QED
  BY <1>4 DEF S, Selection

LEMMA HandsFair ==
  ASSUME TypeOK, Fair, \A d \in Desks : Mode[d] = "round_robin",
         NEW idle \in Idle, NEW n \in Nat, NEW lost, NEW failed, failed \in BOOLEAN,
         Hands(idle, n, lost, failed)
  PROVE  Fair'
<1> DEFINE picks == Selection(Cardinality(idle)).picks
<1>1. /\ Record(picks, n, failed) /\ rr' = Selection(Cardinality(idle)).index
      /\ ~failed => n = Len(picks)
  BY DEF Hands, Hand, Advance
<1>2. ASSUME NEW d \in Desks, NEW e \in Desks
      PROVE  passed'[d][e] = 0 \/ (passed'[d][e] = 1 /\ Off(rr', d) < Off(rr', e))
  <2> DEFINE over == Overtakers(picks, n, d, e)
             before == IF Served(picks, n, d) THEN 0 ELSE passed[d][e]
  <2>1. CASE failed
    BY <1>1, <2>1 DEF Record, NeverPassed
  <2>2. CASE ~failed /\ (~Waiting(d) \/ ~Waiting(d)' \/ d = e)
    BY <1>1, <2>2 DEF Record
  <2>3. CASE ~failed /\ Waiting(d) /\ Waiting(d)' /\ d # e
    <3>1. \/ over = {} /\ before = 0
          \/ /\ (over = {} /\ before = 1) \/ (before = 0 /\ \E k : over = {k})
             /\ Off(rr', d) < Off(rr', e)
      <4>1. Behind(Selection(Cardinality(idle)), d, e)
        BY <1>1, <2>3, WalkBehind
      <4> QED
        BY <1>1, <2>3, <4>1 DEF Behind
    <3>2. passed'[d][e] = before + Cardinality(over)
      <4>1. passed'[d][e] = IF \E k \in Given(picks, n) : picks[k][1] = d
                            THEN Overtaken(picks, n, d, e)
                            ELSE passed[d][e] + Overtaken(picks, n, d, e)
        BY <1>1, <2>3 DEF Record
      <4>2. Overtaken(picks, n, d, e) = Cardinality(over)
        BY DEF Overtaken, Overtakers
      <4>3. Overtaken(picks, n, d, e) \in Nat
        BY OvertakenNat
      <4> HIDE DEF over
      <4> QED
        BY <4>1, <4>2, <4>3 DEF Served
    <3> HIDE DEF over, before
    <3>3. CASE over = {}
      <4>1. Cardinality(over) = 0
        BY <3>3, FS_EmptySet
      <4> QED
        BY <3>1, <3>2, <3>3, <4>1
    <3>4. CASE \E k : over = {k}
      <4>1. Cardinality(over) = 1
        BY <3>4, FS_Singleton
      <4>2. over # {}
        BY <3>4
      <4> QED
        BY <3>1, <3>2, <4>1, <4>2
    <3> QED
      BY <3>1, <3>3, <3>4
  <2> QED
    BY <2>1, <2>2, <2>3
<1> QED
  BY <1>2 DEF Fair, Off

LEMMA FairStep ==
  ASSUME TypeInv, Fair, \A d \in Desks : Mode[d] = "round_robin", [Next]_vars
  PROVE  Fair'
<1>0. TypeOK
  BY DEF TypeInv
<1>1. CASE Dispatch
  <2>1. PICK idle \in Idle, n \in Nat : Hands(idle, n, {}, FALSE)
    BY <1>0, <1>1, DispatchHands
  <2> QED
    BY <1>0, <2>1, HandsFair
<1>2. CASE DispatchLocked
  <2>1. PICK idle \in Idle, n \in Nat, lost \in SUBSET Nat : Hands(idle, n, lost, TRUE)
    BY <1>0, <1>2, LockedHands
  <2> QED
    BY <1>0, <2>1, HandsFair
<1>3. CASE Restart
  BY <1>3 DEF Restart, Fair, NeverPassed
<1>4. ASSUME UNCHANGED <<passed, rr>>
      PROVE  Fair'
  BY <1>4 DEF Fair, Off
<1>5. CASE \E d \in Desks, i \in 1..LineCount : Worker(d, i) \/ StopRun(d, i)
  BY <1>4, <1>5 DEF Worker, Begin, BeginFails, EndRun, EndOrphan, StopRun, history
<1>6. CASE TickBegins \/ Scan \/ NobodyIdle \/ Approve \/ TestRun \/ TestEnds
  BY <1>4, <1>6 DEF TickBegins, Scan, NobodyIdle, Approve, TestRun, TestEnds, history
<1>7. CASE CreatePersona \/ UpdatePersona \/ DeletePersona
  BY <1>4, <1>7 DEF CreatePersona, UpdatePersona, DeletePersona, EditPersonas
<1>8. CASE UNCHANGED vars
  BY <1>4, <1>8 DEF vars
<1> QED
  BY <1>1, <1>2, <1>3, <1>5, <1>6, <1>7, <1>8 DEF Next

\* "round-robin across desk slots", for any number of desks, lines and pullers:
\* no desk is given two lines while the head of another one waits.  A desk that
\* chooses by use is excluded: that choice raises and ends the tick.
THEOREM RoundRobinAlwaysFair ==
  (\A d \in Desks : Mode[d] = "round_robin") /\ Spec => []RoundRobinIsFair
<1> SUFFICES ASSUME \A d \in Desks : Mode[d] = "round_robin"
             PROVE  Spec => []RoundRobinIsFair
  OBVIOUS
<1>1. Init => Fair
  BY DEF Init, Fair, NeverPassed
<1>2. TypeInv /\ Fair /\ [Next]_vars => Fair'
  BY FairStep
<1>3. Fair => RoundRobinIsFair
  BY DEF Fair, RoundRobinIsFair
<1> QED
  BY <1>1, <1>2, <1>3, TypeAlways, PTL DEF Spec

-----------------------------------------------------------------------------
(* The reporters take turns.                                               *)

LEMMA DivisionRest ==
  ASSUME NEW P \in Nat \ {0}, NEW a \in Nat
  PROVE  a % P = a - P * (a \div P)
OBVIOUS

\* Numbers less than P apart leave different rests.
LEMMA RestsDiffer ==
  ASSUME NEW P \in Nat \ {0}, NEW a \in Nat, NEW b \in Nat, a < b, b - a < P
  PROVE  a % P # b % P
<1> SUFFICES ASSUME a % P = b % P
             PROVE  FALSE
  OBVIOUS
<1> DEFINE x == a \div P
           y == b \div P
<1>1. x \in Int /\ y \in Int
  OBVIOUS
<1>2. a - P * x = b - P * y
  BY DivisionRest
<1> HIDE DEF x, y
<1>3. P * y - P * x = P * (y - x)
  BY <1>1
<1>4. P * x \in Int /\ P * y \in Int /\ P * (y - x) \in Int
  BY <1>1
<1>5. b - a = P * (y - x)
  <2> DEFINE X == P * x
             Y == P * y
             Z == P * (y - x)
  <2>1. a - X = b - Y /\ Y - X = Z /\ X \in Int /\ Y \in Int /\ Z \in Int
    BY <1>2, <1>3, <1>4
  <2> HIDE DEF X, Y, Z
  <2>2. b - a = Z
    BY <2>1
  <2> QED
    BY <2>2 DEF Z
<1>6. y - x <= 0 \/ y - x >= 1
  BY <1>1
<1>7. CASE y - x <= 0
  <2>1. P * (y - x) <= 0
    BY <1>1, <1>7
  <2> QED
    BY <1>5, <2>1
<1>8. CASE y - x >= 1
  <2>1. P * (y - x) >= P
    BY <1>1, <1>8
  <2> QED
    BY <1>4, <1>5, <2>1
<1> QED
  BY <1>6, <1>7, <1>8

\* The member of a pool with n others below it.
Member(pool, n) == CHOOSE r \in pool : Cardinality({q \in pool : q < r}) = n

LEMMA PoolIsMember == \A n : PoolMember(n) = Member(personas, n)
BY DEF PoolMember, Member

\* No line that waits has a reporter.
Fresh == \A x \in Places : lines[x[1]][x[2]].status = "pending" => lines[x[1]][x[2]].reporter = Nobody

\* The last turns t of a desk with these rows are successive members of the
\* pool, and the next turn goes to the one after them.
InTurn(rows, pool, t) ==
  LET m == Len(t)
      u == Cardinality(Used(rows))
  IN  /\ m <= u
      /\ \A i \in 1..m : /\ pool # {}
                         /\ t[i] = Member(pool, ((u - m) + (i - 1)) % Cardinality(pool))

TurnInv ==
  /\ TypeInv /\ Fresh
  /\ \A d \in Desks : Mode[d] = "round_robin" => InTurn(lines[d], personas, turns[d])

\* The picks that give a line to desk d.
GivenTo(picks, n, d) == {k \in Given(picks, n) : picks[k][1] = d}

LEMMA GivenToNext ==
  ASSUME NEW picks, NEW n \in Nat, NEW d
  PROVE  /\ n + 1 \notin GivenTo(picks, n, d) /\ IsFiniteSet(GivenTo(picks, n, d))
         /\ GivenTo(picks, n + 1, d) =
              IF Taken(picks[n + 1]) \/ picks[n + 1][1] # d THEN GivenTo(picks, n, d)
              ELSE GivenTo(picks, n, d) \cup {n + 1}
<1>1. GivenTo(picks, n, d) \in SUBSET (1..n)
  BY DEF GivenTo, Given
<1>2. IsFiniteSet(GivenTo(picks, n, d))
  BY <1>1, Numbers
<1>3. \A k : k \in 1..(n + 1) <=> k \in 1..n \/ k = n + 1
  OBVIOUS
<1>4. GivenTo(picks, n + 1, d) = {k \in 1..(n + 1) : ~Taken(picks[k]) /\ picks[k][1] = d}
  BY DEF GivenTo, Given
<1>5. GivenTo(picks, n, d) = {k \in 1..n : ~Taken(picks[k]) /\ picks[k][1] = d}
  BY DEF GivenTo, Given
<1>6. GivenTo(picks, n + 1, d) =
        IF Taken(picks[n + 1]) \/ picks[n + 1][1] # d THEN GivenTo(picks, n, d)
        ELSE GivenTo(picks, n, d) \cup {n + 1}
  <2> HIDE DEF Taken
  <2> QED
    BY <1>3, <1>4, <1>5
<1> QED
  BY <1>1, <1>2, <1>6

\* Every line given to a desk of a pool that is not empty is used by a reporter.
LEMMA UsedDealt ==
  ASSUME TypeOK, Fresh, personas # {}, NEW idle \in SUBSET Pullers, NEW d \in Desks
  PROVE  LET picks == Selection(Cardinality(idle)).picks
             R == Rows(picks, idle, {})
         IN \A n \in 0..Len(picks) :
              /\ Cardinality(Used(R[n][d])) =
                   Cardinality(Used(lines[d])) + Cardinality(GivenTo(picks, n, d))
              /\ R[n] \in Board
<1> DEFINE picks == Selection(Cardinality(idle)).picks
           N == Len(picks)
           R == Rows(picks, idle, {})
           Sums(n) == Cardinality(Used(R[n][d])) =
                           Cardinality(Used(lines[d])) + Cardinality(GivenTo(picks, n, d))
           S == {n \in 0..N : Sums(n)}
<1>0. /\ N \in Nat /\ picks \in Seq(Places) /\ \A n \in 0..N : Dealt(picks, idle, {}, n)
      /\ Sound(Selection(Cardinality(idle)), Cardinality(idle))
  BY SelectionDealt
<1>1. /\ R[0] = lines
      /\ \A n \in 1..N : R[n] = Gives(R[n - 1], picks[n], n, idle, {})
  BY <1>0, RowsDef
<1>2. \A n \in 0..N : R[n] \in Board
  BY <1>0 DEF Dealt
<1>3. \A k \in 1..N : /\ picks[k] \in Places /\ picks[k][1] \in Desks
                      /\ picks[k][2] \in Pending(picks[k][1])
  <2>1. \A k \in 1..N : picks[k] \in Places
    BY <1>0
  <2> QED
    BY <1>0, <2>1 DEF Sound, Places
<1>4. \A j, k \in 1..N : picks[j] = picks[k] => j = k
  BY <1>0 DEF Sound
<1>5. 0 \in S
  <2>1. GivenTo(picks, 0, d) = {}
    BY DEF GivenTo, Given
  <2>2. Cardinality(GivenTo(picks, 0, d)) = 0
    BY <2>1, FS_EmptySet
  <2>3. lines[d] \in [1..LineCount -> Line]
    BY DEF TypeOK
  <2>4. Cardinality(Used(lines[d])) \in Nat
    BY <2>3, UsedCount
  <2> HIDE DEF picks, R, N
  <2> QED
    BY <1>0, <1>1, <2>2, <2>4
<1>6. ASSUME NEW n \in 0..(N - 1), n \in S
      PROVE  n + 1 \in S
  <2> DEFINE x == picks[n + 1]
             rows == R[n][d]
             new == R[n + 1][d]
             to == GivenTo(picks, n, d)
             next == GivenTo(picks, n + 1, d)
  <2>1. n + 1 \in 1..N /\ n + 1 \in 0..N /\ (n + 1) - 1 = n /\ n \in 0..N /\ n \in Nat
    BY <1>0
  <2>2. R[n + 1] = Gives(R[n], x, n + 1, idle, {})
    BY <1>1, <2>1
  <2>3. /\ n + 1 \notin to /\ IsFiniteSet(to)
        /\ next = IF Taken(x) \/ x[1] # d THEN to ELSE to \cup {n + 1}
    <3> HIDE DEF picks
    <3> QED
      BY <2>1, GivenToNext
  <2>4. Cardinality(Used(rows)) = Cardinality(Used(lines[d])) + Cardinality(to)
    BY <1>6
  <2>5. /\ rows \in [1..LineCount -> Line] /\ R[n] \in Board
        /\ lines[d] \in [1..LineCount -> Line]
    BY <1>2, <2>1 DEF Board, TypeOK
  <2>6. CASE Taken(x) \/ x[1] # d
    <3>1. new = rows
      BY <2>2, <2>5, <2>6 DEF Gives, Board
    <3> HIDE DEF new, rows, to, next
    <3>2. Cardinality(Used(new)) = Cardinality(Used(lines[d])) + Cardinality(next)
      BY <2>3, <2>4, <2>6, <3>1
    <3> QED
      BY <2>1, <3>2 DEF new, next
  <2>7. CASE ~Taken(x) /\ x[1] = d
    <3> DEFINE i == x[2]
               who == Reporter(d, rows)
    <3>1. i \in 1..LineCount /\ lines[d][i].status = "pending" /\ <<d, i>> = x
      BY <1>3, <2>1, <2>7 DEF Pending, Places
    <3>2. rows[i] = lines[d][i]
      <4>1. \A k \in 1..n : k \in 1..N /\ picks[k] # x
        BY <1>0, <1>4, <2>1
      <4>2. Dealt(picks, idle, {}, n) /\ x \in Places
        BY <1>0, <1>3, <2>1
      <4> HIDE DEF picks
      <4> QED
        BY <2>7, <4>1, <4>2 DEF Dealt
    <3>3. who # Nobody /\ who \in Reporters
      <4>1. personas \subseteq Reporters
        BY DEF TypeOK
      <4> HIDE DEF rows
      <4>2. who \in personas
        BY <2>5, <4>1, ReporterTyped
      <4> QED
        BY <4>1, <4>2, NobodyIsNone
    <3>4. new = [rows EXCEPT ![i] = Begun(rows[i], Nth(idle, n + 1), who)]
      BY <2>2, <2>5, <2>7 DEF Gives, Board
    <3> HIDE DEF i, who, rows, new, x
    <3>5. Used(new) = Used(rows) \cup {i} /\ i \notin Used(rows)
      <4>1. rows[i] \in Line
        BY <2>5, <3>1
      <4>2. /\ new[i].status = "running" /\ new[i].reporter = who
            /\ \A j \in 1..LineCount : j # i => new[j] = rows[j]
            /\ DOMAIN new = 1..LineCount /\ DOMAIN rows = 1..LineCount
        BY <2>5, <3>1, <3>4, <4>1 DEF Begun, Spawn, Line
      <4> QED
        BY <3>1, <3>2, <3>3, <4>2 DEF Used
    <3>6. Cardinality(Used(new)) = Cardinality(Used(rows)) + 1 /\ Cardinality(Used(rows)) \in Nat
      BY <2>5, <3>5, UsedCount, FS_AddElement
    <3>7. Cardinality(next) = Cardinality(to) + 1 /\ Cardinality(to) \in Nat
      <4> HIDE DEF to, next
      <4> QED
        BY <2>3, <2>7, FS_AddElement, FS_CardinalityType
    <3>8. Cardinality(Used(lines[d])) \in Nat
      BY <2>5, UsedCount
    <3> HIDE DEF to, next
    <3>9. Cardinality(Used(new)) = Cardinality(Used(lines[d])) + Cardinality(next)
      BY <2>4, <3>6, <3>7, <3>8
    <3> QED
      BY <2>1, <3>9 DEF new, next
  <2> QED
    BY <2>6, <2>7
<1> HIDE DEF S
<1>7. \A n \in 0..N : n \in S
  <2> HIDE DEF N
  <2> QED
    BY <1>0, <1>5, <1>6, Induction
<1> QED
  BY <1>2, <1>7 DEF S

\* What a tick writes of the reporters of a desk goes on with their turns.
LEMMA NewTurnsFollow ==
  ASSUME TypeOK, Fresh, personas # {}, NEW idle \in Idle, NEW n \in Nat, NEW lost, NEW failed,
         Hands(idle, n, lost, failed), NEW d \in Desks, Mode[d] = "round_robin"
  PROVE  LET new == NewTurns(Selection(Cardinality(idle)).picks, n, d)
             u == Cardinality(Used(lines[d]))
         IN /\ u \in Nat /\ new \in Seq(Reporters)
            /\ Cardinality(Used(lines'[d])) = u + Len(new)
            /\ \A l \in 1..Len(new) :
                 new[l] = Member(personas, (u + (l - 1)) % Cardinality(personas))
<1> DEFINE picks == Selection(Cardinality(idle)).picks
           N == Len(picks)
           R == Rows(picks, idle, {})
           u == Cardinality(Used(lines[d]))
           P == Cardinality(personas)
           to == GivenTo(picks, n, d)
<1>0. idle \in SUBSET Pullers /\ lines' \in Board
  BY HandsTyped DEF Idle
<1>1. /\ N \in Nat /\ picks \in Seq(Places) /\ \A k \in 0..N : Dealt(picks, idle, {}, k)
  BY <1>0, SelectionDealt
<1>2. n \in 0..N /\ lost = {} /\ lines' = R[n]
  BY DEF Hands, Hand
<1>3. \A k \in 0..N : /\ Cardinality(Used(R[k][d])) = u + Cardinality(GivenTo(picks, k, d))
                      /\ R[k] \in Board
  BY <1>0, UsedDealt
<1>4. u \in Nat
  <2>1. lines[d] \in [1..LineCount -> Line]
    BY DEF TypeOK
  <2> QED
    BY <2>1, UsedCount
<1> HIDE DEF picks, N, u, R, P
\* A line given to d names the reporter whose turn it is.
<1>5. ASSUME NEW k \in to
      PROVE  LET who == lines'[d][picks[k][2]].reporter IN
             /\ who # Nobody
             /\ who = Member(personas, Cardinality(Used(R[k - 1][d])) % P)
  <2> DEFINE x == picks[k]
             who == Reporter(d, R[k - 1][d])
             line == lines[x[1]][x[2]]
  <2>1. k \in 1..n /\ k \in 1..N /\ ~Taken(x) /\ x[1] = d /\ k - 1 \in 0..N
    BY <1>1, <1>2 DEF GivenTo, Given
  <2>2. x \in Places
    BY <1>1, <2>1 DEF N
  <2>3. lines'[d][x[2]] = GivenLine(picks, idle, {}, k)
    <3>1. Dealt(picks, idle, {}, n)
      BY <1>1, <1>2
    <3> HIDE DEF x
    <3> QED
      BY <1>2, <2>1, <3>1 DEF Dealt, R, x
  <2>4. GivenLine(picks, idle, {}, k) = Begun(line, Nth(idle, k), who)
    BY <2>1 DEF GivenLine, R
  <2>5. line \in Line
    BY <2>2, LineAt
  <2>6. lines'[d][x[2]].reporter = who
    <3> HIDE DEF line, who, x
    <3> QED
      BY <2>3, <2>4, <2>5 DEF Begun, Spawn, Line
  <2>7. personas \subseteq Reporters /\ R[k - 1][d] \in [1..LineCount -> Line]
    BY <1>3, <2>1 DEF TypeOK, Board
  <2>8. who \in personas
    BY <2>7, ReporterTyped
  <2>9. who # Nobody
    BY <2>7, <2>8, NobodyIsNone
  <2>10. who = Member(personas, Cardinality(Used(R[k - 1][d])) % P)
    BY PoolIsMember DEF Reporter, P
  <2> HIDE DEF who
  <2> QED
    BY <2>6, <2>9, <2>10
<1>6. Named(picks, n, d) = to
  BY <1>5 DEF Named, GivenTo
<1>7. /\ to \in SUBSET Nat /\ IsFiniteSet(to) /\ Cardinality(to) \in Nat /\ to \in SUBSET (1..n)
  <2>1. to \in SUBSET (1..n)
    BY DEF GivenTo, Given
  <2> HIDE DEF to
  <2> QED
    BY <2>1, Numbers
<1> DEFINE new == NewTurns(picks, n, d)
<1>8. new = [l \in 1..Cardinality(to) |-> lines'[d][picks[Nth(to, l)][2]].reporter]
  BY <1>6 DEF NewTurns
<1>9. new \in Seq(Reporters)
  BY <1>0, <1>1, <1>2, NewTurnsTyped DEF N
<1>10. Len(new) = Cardinality(to)
  <2> HIDE DEF new, to
  <2> QED
    BY <1>7, <1>8
<1>11. ASSUME NEW l \in 1..Cardinality(to)
       PROVE  new[l] = Member(personas, (u + (l - 1)) % P)
  <2> DEFINE k == Nth(to, l)
  <2>1. k \in to /\ Cardinality(Below(to, k)) = l - 1
    <3> HIDE DEF to
    <3> QED
      BY <1>7, NthRanks
  <2>2. k \in 1..n /\ k - 1 \in 0..N /\ n \in Nat /\ k \in Nat
    BY <1>1, <1>2, <1>7, <2>1
  <2>3. GivenTo(picks, k - 1, d) = Below(to, k)
    <3>1. \A j : j \in 1..(k - 1) <=> j \in 1..n /\ j < k
      BY <2>2
    <3> HIDE DEF k
    <3> QED
      BY <3>1 DEF GivenTo, Given, Below
  <2>4. Cardinality(Used(R[k - 1][d])) = u + (l - 1)
    BY <1>3, <2>1, <2>2, <2>3
  <2>5. new[l] = lines'[d][picks[k][2]].reporter
    BY <1>8
  <2> HIDE DEF k, new, to
  <2> QED
    BY <1>5, <2>1, <2>4, <2>5
<1>12. Cardinality(Used(lines'[d])) = u + Cardinality(to)
  BY <1>2, <1>3
<1> HIDE DEF new, to
<1> QED
  BY <1>4, <1>9, <1>10, <1>11, <1>12 DEF new, u, P, picks

\* Without a pool nobody is named.
LEMMA NobodyNamed ==
  ASSUME TypeOK, Fresh, personas = {}, NEW idle \in Idle, NEW n \in Nat, NEW lost, NEW failed,
         Hands(idle, n, lost, failed), NEW d \in Desks
  PROVE  NewTurns(Selection(Cardinality(idle)).picks, n, d) = <<>>
<1> DEFINE picks == Selection(Cardinality(idle)).picks
<1>1. idle \in SUBSET Pullers
  BY DEF Idle
<1>2. /\ Len(picks) \in Nat /\ picks \in Seq(Places) /\ \A k \in 0..Len(picks) : Dealt(picks, idle, lost, k)
      /\ Sound(Selection(Cardinality(idle)), Cardinality(idle))
  BY <1>1, SelectionDealt
<1>3. n \in 0..Len(picks) /\ lines' = Rows(picks, idle, lost)[n]
  BY DEF Hands, Hand
<1>4. ASSUME NEW k \in Given(picks, n), picks[k][1] = d
      PROVE  lines'[d][picks[k][2]].reporter = Nobody
  <2> DEFINE x == picks[k]
             old == lines[x[1]][x[2]]
             new == lines'[x[1]][x[2]]
  <2>1. k \in 1..n /\ k \in 1..Len(picks) /\ ~Taken(x)
    BY <1>2, <1>3 DEF Given
  <2>2. x \in Places
    BY <1>2, <2>1
  <2>3. new = GivenLine(picks, idle, lost, k)
    BY <1>2, <1>3, <2>1 DEF Dealt
  <2>4. \/ new = Spawn(old, Nth(idle, k))
        \/ new = Begun(old, Nth(idle, k), Nobody)
    BY <2>3 DEF GivenLine, Reporter
  <2>5. old \in Line
    BY <2>2, LineAt
  <2>6. old.status = "pending"
    <3>1. x[2] \in Pending(x[1])
      BY <1>2, <2>1 DEF Sound
    <3> QED
      BY <3>1 DEF Pending
  <2>7. old.reporter = Nobody
    BY <2>2, <2>6 DEF Fresh
  <2> HIDE DEF old, new, x
  <2>8. new.reporter = Nobody
    BY <2>4, <2>5, <2>7 DEF Spawn, Begun, Line
  <2> QED
    BY <1>4, <2>8 DEF new, x
<1>5. Named(picks, n, d) = {}
  BY <1>4 DEF Named
<1>6. Cardinality(Named(picks, n, d)) = 0
  BY <1>5, FS_EmptySet
<1> QED
  BY <1>6 DEF NewTurns

LEMMA HandsFresh ==
  ASSUME TypeOK, Fresh, NEW idle \in Idle, NEW n \in Nat, NEW lost, NEW failed,
         Hands(idle, n, lost, failed)
  PROVE  Fresh'
<1> SUFFICES ASSUME NEW x \in Places, lines'[x[1]][x[2]].status = "pending"
             PROVE  lines'[x[1]][x[2]].reporter = Nobody
  BY DEF Fresh
<1> DEFINE old == lines[x[1]][x[2]]
           new == lines'[x[1]][x[2]]
<1>1. old \in Line /\ (old.status = "pending" => old.reporter = Nobody)
  BY LineAt DEF Fresh
<1>2. \/ new = old
      \/ \E k, p : new = Spawn(old, p)
      \/ \E p, who : new = Begun(old, p, who)
  <2>1. CASE new = old
    BY <2>1
  <2>2. CASE new # old
    <3> DEFINE picks == Selection(Cardinality(idle)).picks
    <3>1. PICK k \in Given(picks, n) : picks[k] = x /\ new = GivenLine(picks, idle, lost, k)
      BY <2>2, HandsLines
    <3> HIDE DEF picks
    <3> QED
      BY <3>1 DEF GivenLine
  <2> QED
    BY <2>1, <2>2
<1> HIDE DEF old, new
<1>3. new.status = "pending" => new.reporter = Nobody
  BY <1>1, <1>2 DEF Spawn, Begun, Line
<1> QED
  BY <1>3 DEF new

LEMMA HandsInTurn ==
  ASSUME TurnInv, NEW idle \in Idle, NEW n \in Nat, NEW lost, NEW failed,
         Hands(idle, n, lost, failed), NEW d \in Desks, Mode[d] = "round_robin"
  PROVE  InTurn(lines'[d], personas', turns'[d])
<1> DEFINE picks == Selection(Cardinality(idle)).picks
           new == NewTurns(picks, n, d)
           old == turns[d]
           u == Cardinality(Used(lines[d]))
           v == Cardinality(Used(lines'[d]))
           m == Len(old)
           P == Cardinality(personas)
<1>0. TypeOK /\ Fresh /\ InTurn(lines[d], personas, old)
  BY DEF TurnInv, TypeInv
<1>1. idle \in SUBSET Pullers /\ lines' \in Board
  BY <1>0, HandsTyped DEF Idle
<1>2. picks \in Seq(Places) /\ n \in 0..Len(picks) /\ Record(picks, n, failed) /\ personas' = personas
  BY <1>0, <1>1, SelectionDealt DEF Hands, Hand
<1>3. turns' = [e \in Desks |-> turns[e] \o NewTurns(picks, n, e)]
  BY <1>0, <1>1, <1>2, RecordTyped
<1>4. turns'[d] = old \o new
  BY <1>3
<1>5. old \in Seq(Reporters) /\ m \in Nat
  BY <1>0 DEF TypeOK
<1>6. u \in Nat /\ v \in Nat
  <2>1. lines[d] \in [1..LineCount -> Line] /\ lines'[d] \in [1..LineCount -> Line]
    BY <1>0, <1>1 DEF TypeOK, Board
  <2> QED
    BY <2>1, UsedCount
<1>7. m <= u /\ \A i \in 1..m : /\ personas # {}
                                /\ old[i] = Member(personas, ((u - m) + (i - 1)) % P)
  BY <1>0 DEF InTurn
<1>8. CASE personas = {}
  <2>1. new = <<>>
    BY <1>0, <1>8, NobodyNamed
  <2>2. m = 0
    BY <1>5, <1>7, <1>8
  <2> HIDE DEF new, old, u, v, m, P
  <2>3. turns'[d] = <<>> /\ Len(turns'[d]) = 0
    BY <1>4, <1>5, <2>1, <2>2 DEF m
  <2> QED
    BY <1>6, <2>3 DEF InTurn, v
<1>9. CASE personas # {}
  <2>1. /\ new \in Seq(Reporters) /\ v = u + Len(new)
        /\ \A l \in 1..Len(new) : new[l] = Member(personas, (u + (l - 1)) % P)
    BY <1>0, <1>9, NewTurnsFollow
  <2> HIDE DEF new, old, u, v, P, picks
  <2> DEFINE t == old \o new
             g == Len(new)
  <2>2. g \in Nat /\ Len(t) = m + g
    BY <1>5, <2>1
  <2>3. /\ \A i \in 1..m : t[i] = old[i]
        /\ \A i \in (m + 1)..(m + g) : t[i] = new[i - m] /\ i - m \in 1..g
    BY <1>5, <2>1
  <2> HIDE DEF t, g, m
  <2>4. v - (m + g) = u - m /\ m + g <= v
    BY <1>5, <1>6, <1>7, <2>1, <2>2 DEF g
  <2>5. ASSUME NEW i \in 1..(m + g)
        PROVE  t[i] = Member(personas, ((v - (m + g)) + (i - 1)) % P)
    <3>1. CASE i \in 1..m
      BY <1>7, <2>3, <2>4, <3>1
    <3>2. CASE i \in (m + 1)..(m + g)
      <4>1. t[i] = Member(personas, (u + ((i - m) - 1)) % P)
        BY <2>1, <2>3, <3>2 DEF g
      <4>2. u + ((i - m) - 1) = (v - (m + g)) + (i - 1)
        BY <1>5, <1>6, <2>2, <2>4
      <4> QED
        BY <4>1, <4>2
    <3> QED
      BY <1>5, <2>2, <3>1, <3>2
  <2>6. InTurn(lines'[d], personas, t)
    BY <1>9, <2>2, <2>4, <2>5 DEF InTurn, v, P
  <2> QED
    BY <1>2, <1>4, <2>6 DEF t
<1> QED
  BY <1>8, <1>9

\* Nothing but a tick touches the reporters of lines.
LEMMA ReportersKept ==
  ASSUME TypeInv, Fresh,
         \A x \in Places : LET old == lines[x[1]][x[2]]
                               new == lines'[x[1]][x[2]]
                           IN new.reporter = old.reporter /\ new.status \in {old.status, "ended"},
         lines' \in Board
  PROVE  Fresh' /\ \A d \in Desks : Used(lines'[d]) = Used(lines[d])
<1>1. Fresh'
  BY DEF Fresh
<1>2. ASSUME NEW d \in Desks
      PROVE  Used(lines'[d]) = Used(lines[d])
  <2>1. DOMAIN lines[d] = 1..LineCount /\ DOMAIN lines'[d] = 1..LineCount
    BY DEF TypeInv, TypeOK, Board
  <2>2. ASSUME NEW i \in 1..LineCount
        PROVE  i \in Used(lines'[d]) <=> i \in Used(lines[d])
    <3>1. PICK x \in Places : x[1] = d /\ x[2] = i
      <4> DEFINE y == <<d, i>>
      <4>1. y \in Places /\ y[1] = d /\ y[2] = i
        BY DEF Places
      <4> HIDE DEF y
      <4> QED
        BY <4>1
    <3>2. lines[d][i] \in Line /\ lines'[d][i] \in Line
      BY DEF TypeInv, TypeOK, Board
    <3>3. /\ lines'[d][i].reporter = lines[d][i].reporter
          /\ lines'[d][i].status \in {lines[d][i].status, "ended"}
          /\ lines[d][i].status = "pending" => lines[d][i].reporter = Nobody
      BY <3>1 DEF Fresh
    <3>4. lines[d][i].status \in {"pending", "running", "ended"}
      BY <3>2 DEF Line
    <3> QED
      BY <2>1, <3>3, <3>4 DEF Used
  <2> QED
    BY <2>1, <2>2 DEF Used
<1> QED
  BY <1>1, <1>2

LEMMA WorkerReporters ==
  ASSUME TypeInv, NEW d \in Desks, NEW i \in 1..LineCount, LineSteps(d, i), NEW x \in Places
  PROVE  LET old == lines[x[1]][x[2]]
             new == lines'[x[1]][x[2]]
         IN new.reporter = old.reporter /\ new.status \in {old.status, "ended"}
<1>1. lines \in Board /\ lines[d][i] \in Line /\ x[1] \in Desks /\ x[2] \in 1..LineCount
  BY LineAt DEF TypeInv, TypeOK, Board
<1>2. PICK line : /\ lines' = [lines EXCEPT ![d] = [lines[d] EXCEPT ![i] = line]]
                  /\ line.reporter = lines[d][i].reporter
                  /\ line.status \in {lines[d][i].status, "ended"}
  <2> DEFINE old == lines[d][i]
  <2>1. CASE Begin(d, i)
    <3> DEFINE line == [old EXCEPT !.worker = "running"]
    <3>1. lines' = [lines EXCEPT ![d] = [lines[d] EXCEPT ![i] = line]]
      BY <1>1, <2>1 DEF Begin, Board
    <3>2. line.reporter = old.reporter /\ line.status = old.status
      BY <1>1 DEF Line
    <3> HIDE DEF line
    <3> QED
      BY <3>1, <3>2
  <2>2. CASE BeginFails(d, i)
    <3> DEFINE line == [old EXCEPT !.worker = "none", !.puller = Nobody]
    <3>1. lines' = [lines EXCEPT ![d] = [lines[d] EXCEPT ![i] = line]]
      BY <1>1, <2>2 DEF BeginFails, Board
    <3>2. line.reporter = old.reporter /\ line.status = old.status
      BY <1>1 DEF Line
    <3> HIDE DEF line
    <3> QED
      BY <3>1, <3>2
  <2>3. CASE EndRun(d, i)
    <3>1. PICK status \in {"ended", old.status} :
            lines' = [lines EXCEPT ![d] = [lines[d] EXCEPT ![i] =
              [old EXCEPT !.worker = "none", !.puller = Nobody, !.status = status]]]
      BY <1>1, <2>3 DEF EndRun, Board
    <3> DEFINE line == [old EXCEPT !.worker = "none", !.puller = Nobody, !.status = status]
    <3>2. line.reporter = old.reporter /\ line.status = status
      BY <1>1 DEF Line
    <3>3. lines' = [lines EXCEPT ![d] = [lines[d] EXCEPT ![i] = line]]
      BY <3>1
    <3> HIDE DEF line
    <3> QED
      BY <3>2, <3>3
  <2>4. CASE EndOrphan(d, i)
    <3>1. PICK p \in old.orphans, status \in {"ended", old.status} :
            lines' = [lines EXCEPT ![d] = [lines[d] EXCEPT ![i] =
              [old EXCEPT !.orphans = old.orphans \ {p}, !.status = status]]]
      BY <1>1, <2>4 DEF EndOrphan, Board
    <3> DEFINE line == [old EXCEPT !.orphans = old.orphans \ {p}, !.status = status]
    <3>2. line.reporter = old.reporter /\ line.status = status
      BY <1>1 DEF Line
    <3>3. lines' = [lines EXCEPT ![d] = [lines[d] EXCEPT ![i] = line]]
      BY <3>1
    <3> HIDE DEF line
    <3> QED
      BY <3>2, <3>3
  <2>5. CASE StopRun(d, i)
    <3> DEFINE line == [old EXCEPT !.worker = "stopped"]
    <3>1. lines' = [lines EXCEPT ![d] = [lines[d] EXCEPT ![i] = line]]
      BY <1>1, <2>5 DEF StopRun, Board
    <3>2. line.reporter = old.reporter /\ line.status = old.status
      BY <1>1 DEF Line
    <3> HIDE DEF line
    <3> QED
      BY <3>1, <3>2
  <2> QED
    BY <2>1, <2>2, <2>3, <2>4, <2>5 DEF LineSteps, Worker
<1>3. CASE x[1] = d /\ x[2] = i
  BY <1>1, <1>2, <1>3 DEF Board
<1>4. CASE x[1] # d \/ x[2] # i
  BY <1>1, <1>2, <1>4 DEF Board
<1> QED
  BY <1>3, <1>4

LEMMA TurnStep ==
  ASSUME TurnInv, [Next]_vars
  PROVE  TurnInv'
<1>0. TypeInv /\ TypeInv' /\ Fresh /\ TypeOK /\ lines' \in Board
  BY TypeStep DEF TurnInv, TypeInv, TypeOK, Board
<1>1. ASSUME UNCHANGED <<personas, turns>>,
             \A x \in Places : LET old == lines[x[1]][x[2]]
                                   new == lines'[x[1]][x[2]]
                               IN new.reporter = old.reporter /\ new.status \in {old.status, "ended"}
      PROVE  TurnInv'
  <2>1. Fresh' /\ \A d \in Desks : Used(lines'[d]) = Used(lines[d])
    BY <1>0, <1>1, ReportersKept
  <2>2. ASSUME NEW d \in Desks, Mode[d] = "round_robin"
        PROVE  InTurn(lines'[d], personas', turns'[d])
    <3>1. InTurn(lines[d], personas, turns[d])
      BY <2>2 DEF TurnInv
    <3>2. Used(lines'[d]) = Used(lines[d])
      BY <2>1
    <3> QED
      BY <1>1, <3>1, <3>2 DEF InTurn
  <2> QED
    BY <1>0, <2>1, <2>2 DEF TurnInv
<1>2. ASSUME UNCHANGED <<lines, personas, turns>>
      PROVE  TurnInv'
  BY <1>1, <1>2
<1>3. ASSUME NEW idle \in Idle, NEW n \in Nat, NEW lost, NEW failed, Hands(idle, n, lost, failed)
      PROVE  TurnInv'
  <2>1. Fresh'
    BY <1>0, <1>3, HandsFresh
  <2>2. \A d \in Desks : Mode[d] = "round_robin" => InTurn(lines'[d], personas', turns'[d])
    BY <1>3, HandsInTurn DEF TurnInv
  <2> QED
    BY <1>0, <2>1, <2>2 DEF TurnInv
<1>4. CASE Dispatch
  <2>1. \E idle \in Idle, n \in Nat : Hands(idle, n, {}, FALSE)
    BY <1>0, <1>4, DispatchHands
  <2> QED
    BY <1>3, <2>1
<1>5. CASE DispatchLocked
  <2>1. \E idle \in Idle, n \in Nat, lost \in SUBSET Nat : Hands(idle, n, lost, TRUE)
    BY <1>0, <1>5, LockedHands
  <2> QED
    BY <1>3, <2>1
<1>6. ASSUME NEW d \in Desks, NEW i \in 1..LineCount, LineSteps(d, i)
      PROVE  TurnInv'
  <2>1. UNCHANGED <<personas, turns>>
    BY <1>6 DEF LineSteps, Worker, Begin, BeginFails, EndRun, EndOrphan, StopRun, history
  <2>2. \A x \in Places : LET old == lines[x[1]][x[2]]
                              new == lines'[x[1]][x[2]]
                          IN new.reporter = old.reporter /\ new.status \in {old.status, "ended"}
    BY <1>0, <1>6, WorkerReporters
  <2> QED
    BY <1>1, <2>1, <2>2
<1>7. CASE Restart
  <2>1. UNCHANGED <<personas, turns>>
    BY <1>7 DEF Restart
  <2>2. \A x \in Places : LET old == lines[x[1]][x[2]]
                              new == lines'[x[1]][x[2]]
                          IN new.reporter = old.reporter /\ new.status \in {old.status, "ended"}
    BY <1>0, <1>7, RestartTyped
  <2> QED
    BY <1>1, <2>1, <2>2
<1>8. CASE CreatePersona \/ UpdatePersona \/ DeletePersona
  <2>1. UNCHANGED lines /\ turns' = NoTurns
    BY <1>8 DEF CreatePersona, UpdatePersona, DeletePersona, EditPersonas
  <2>2. ASSUME NEW d \in Desks
        PROVE  InTurn(lines'[d], personas', turns'[d])
    <3>1. lines'[d] \in [1..LineCount -> Line] /\ Len(turns'[d]) = 0
      BY <1>0, <2>1 DEF NoTurns, Board
    <3>2. Cardinality(Used(lines'[d])) \in Nat
      BY <3>1, UsedCount
    <3> QED
      BY <3>1, <3>2 DEF InTurn
  <2> QED
    BY <1>0, <2>1, <2>2 DEF TurnInv, Fresh
<1>9. CASE TickBegins \/ Scan \/ NobodyIdle \/ Approve \/ TestRun \/ TestEnds
  BY <1>2, <1>9 DEF TickBegins, Scan, NobodyIdle, Approve, TestRun, TestEnds, history
<1>10. CASE UNCHANGED vars
  BY <1>2, <1>10 DEF vars
<1> QED
  BY <1>4, <1>5, <1>6, <1>7, <1>8, <1>9, <1>10 DEF Next, LineSteps

\* A desk that takes turns has each reporter of its pool write before one of
\* them writes twice, for any pool and any number of lines, also when several
\* lines are given in one tick, when commits fail, and after restarts.
THEOREM ReportersAlwaysTakeTurns == Spec => []ReportersTakeTurns
<1>1. Init => TurnInv
  <2> SUFFICES ASSUME Init
               PROVE  TurnInv
    OBVIOUS
  <2>1. TypeInv
    BY TypeInit
  <2>2. Fresh
    <3> SUFFICES ASSUME NEW x \in Places
                 PROVE  lines[x[1]][x[2]].reporter = Nobody
      BY DEF Fresh
    <3>1. x[1] \in Desks /\ x[2] \in 1..LineCount
      BY DEF Places
    <3>2. PICK b \in BOOLEAN :
            lines[x[1]][x[2]] = [status |-> "pending", suggested |-> b, reporter |-> Nobody,
                                 worker |-> "none", puller |-> Nobody, orphans |-> {}]
      BY <3>1 DEF Init
    <3> QED
      BY <3>2
  <2>3. ASSUME NEW d \in Desks
        PROVE  InTurn(lines[d], personas, turns[d])
    <3>1. lines[d] \in [1..LineCount -> Line] /\ Len(turns[d]) = 0
      BY <2>1 DEF Init, NoTurns, TypeInv, TypeOK
    <3>2. Cardinality(Used(lines[d])) \in Nat
      BY <3>1, UsedCount
    <3> QED
      BY <3>1, <3>2 DEF InTurn
  <2> QED
    BY <2>1, <2>2, <2>3 DEF TurnInv
<1>2. TurnInv /\ [Next]_vars => TurnInv'
  BY TurnStep
<1>3. TurnInv => ReportersTakeTurns
  <2> SUFFICES ASSUME TurnInv, NEW d \in Desks, Mode[d] = "round_robin",
                      NEW i \in DOMAIN turns[d], NEW j \in DOMAIN turns[d],
                      i < j, j - i < Cardinality(personas)
               PROVE  turns[d][i] # turns[d][j]
    BY DEF ReportersTakeTurns
  <2> DEFINE m == Len(turns[d])
             u == Cardinality(Used(lines[d]))
             P == Cardinality(personas)
             a == (u - m) + (i - 1)
             b == (u - m) + (j - 1)
  <2>1. /\ lines[d] \in [1..LineCount -> Line] /\ turns[d] \in Seq(Reporters)
        /\ personas \subseteq Reporters
    BY DEF TurnInv, TypeInv, TypeOK
  <2>2. u \in Nat /\ m \in Nat /\ i \in 1..m /\ j \in 1..m
    BY <2>1, UsedCount
  <2>3. /\ m <= u /\ personas # {}
        /\ turns[d][i] = PoolMember(a % P) /\ turns[d][j] = PoolMember(b % P)
    BY <2>2, PoolIsMember DEF TurnInv, InTurn
  <2>4. P \in Nat \ {0}
    BY <2>1, <2>3, PoolSize
  <2> HIDE DEF m, u
  <2>5. a \in Nat /\ b \in Nat /\ a < b /\ b - a < P
    BY <2>2, <2>3, <2>4
  <2> HIDE DEF a, b, P
  <2>6. a % P # b % P /\ a % P \in 0..(P - 1) /\ b % P \in 0..(P - 1)
    <3>1. a % P # b % P
      BY <2>4, <2>5, RestsDiffer
    <3>2. a % P \in 0..(P - 1) /\ b % P \in 0..(P - 1)
      BY <2>4, <2>5
    <3> QED
      BY <3>1, <3>2
  <2>7. /\ Cardinality(Below(personas, PoolMember(a % P))) = a % P
        /\ Cardinality(Below(personas, PoolMember(b % P))) = b % P
    BY <2>1, <2>6, PoolRanks DEF P
  <2> QED
    BY <2>3, <2>6, <2>7
<1> QED
  BY <1>1, <1>2, <1>3, PTL DEF Spec

=============================================================================

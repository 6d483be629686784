--------------------------- MODULE EventReplayProofs ---------------------------
(* Proofs about the event log as the reader sees it (EventReplay), for any    *)
(* devices, clocks and findings and any number of decisions: a log is replayed *)
(* to what is on the screen, its order survives files, batches and reloads,   *)
(* so a reload shows the same, what was removed stays removed and what is     *)
(* decided takes effect.                                                      *)
EXTENDS EventReplay, TLAPS, FiniteSetTheorems, WellFoundedInduction

-------------------------------------------------------------------------------
(* Finite counts.                                                            *)

\* A set of naturals that is not empty has a least.
LEMMA LeastOf ==
  ASSUME NEW T, \A x \in T : x \in Nat, T # {}
  PROVE  \E x \in T : \A y \in T : x <= y
<1>1. PICK x \in T : \A y \in T : <<y, x>> \notin OpToRel(<, Nat)
  <2>1. IsWellFoundedOn(OpToRel(<, Nat), Nat)
    BY NatLessThanWellFounded
  <2>2. T \subseteq Nat
    OBVIOUS
  <2> QED BY <2>1, <2>2, WFMin
<1>2. ASSUME NEW y \in T PROVE x <= y
  <2>1. x \in Nat /\ y \in Nat
    OBVIOUS
  <2>2. ~(y < x)
    BY <1>1, <2>1 DEF OpToRel
  <2> QED BY <2>1, <2>2
<1> QED BY <1>2

\* What holds of zero, and of each number up to N after the one before it, holds
\* of all of them.
LEMMA Upto ==
  ASSUME NEW N \in Nat, NEW S, 0 \in S, \A n \in 1 .. N : n - 1 \in S => n \in S
  PROVE  \A n \in 0 .. N : n \in S
<1>1. SUFFICES ASSUME (0 .. N) \ S # {} PROVE FALSE
  OBVIOUS
<1>2. PICK x \in (0 .. N) \ S : \A y \in (0 .. N) \ S : x <= y
  <2> DEFINE T == (0 .. N) \ S
  <2>1. \A x \in T : x \in Nat
    OBVIOUS
  <2> HIDE DEF T
  <2>2. T # {} => \E x \in T : \A y \in T : x <= y
    BY <2>1, LeastOf, Zenon
  <2> QED BY <1>1, <2>2 DEF T
<1>3. x \in 1 .. N /\ x - 1 \in 0 .. N /\ ~(x <= x - 1)
  BY <1>2
<1> QED BY <1>2, <1>3

-------------------------------------------------------------------------------
\* The collection after each event of a log.
Runs(log) ==
  CHOOSE run : run = [n \in 0 .. Len(log) |-> IF n = 0 THEN <<>> ELSE Run(run[n - 1], log[n])]

\* A replay is the last of its runs.
LEMMA ReplayRuns ==
  ASSUME NEW log
  PROVE  Replay(log) = Runs(log)[Len(log)]
BY DEF Replay, Runs

\* The runs satisfy the recursion they are defined by.
LEMMA RunsIs ==
  ASSUME NEW log, Len(log) \in Nat
  PROVE  Runs(log) = [n \in 0 .. Len(log) |->
                        IF n = 0 THEN <<>> ELSE Run(Runs(log)[n - 1], log[n])]
<1> DEFINE Good(run, n) ==
      run = [m \in 0 .. n |-> IF m = 0 THEN <<>> ELSE Run(run[m - 1], log[m])]
           S == {n \in 0 .. Len(log) : \E run : Good(run, n)}
<1>1. 0 \in S
  <2>1. Good([m \in 0 .. 0 |-> <<>>], 0)
    OBVIOUS
  <2>2. \E run : Good(run, 0)
    BY <2>1, Zenon
  <2> QED BY <2>2
<1>2. ASSUME NEW n \in 1 .. Len(log), n - 1 \in S PROVE n \in S
  <2>1. PICK run : Good(run, n - 1)
    BY <1>2
  <2> DEFINE next == [m \in 0 .. n |-> IF m < n THEN run[m] ELSE Run(run[n - 1], log[n])]
  <2>2. ASSUME NEW m \in 0 .. n
        PROVE  next[m] = IF m = 0 THEN <<>> ELSE Run(next[m - 1], log[m])
    <3>1. CASE m = n
      <4>1. next[m] = Run(run[n - 1], log[n]) /\ m # 0
        BY <3>1
      <4>2. next[m - 1] = run[n - 1]
        BY <3>1
      <4> QED BY <3>1, <4>1, <4>2
    <3>2. CASE m # n
      <4>1. m \in 0 .. n - 1 /\ next[m] = run[m]
        BY <3>2
      <4>2. run[m] = IF m = 0 THEN <<>> ELSE Run(run[m - 1], log[m])
        BY <2>1, <4>1
      <4>3. m # 0 => next[m - 1] = run[m - 1]
        BY <4>1
      <4> QED BY <4>1, <4>2, <4>3
    <3> QED BY <3>1, <3>2
  <2>3. Good(next, n)
    <3> DEFINE all == [m \in 0 .. n |-> IF m = 0 THEN <<>> ELSE Run(next[m - 1], log[m])]
    <3>1. next = [m \in 0 .. n |-> next[m]]
      OBVIOUS
    <3> HIDE DEF next
    <3>2. [m \in 0 .. n |-> next[m]] = all
      BY <2>2
    <3> QED BY <3>1, <3>2
  <2> HIDE DEF next
  <2>4. \E run_1 : Good(run_1, n)
    BY <2>3, Zenon
  <2>5. n \in 0 .. Len(log)
    OBVIOUS
  <2> HIDE DEF Good
  <2> QED BY <2>4, <2>5, Zenon
<1> HIDE DEF S
<1>3. Len(log) \in S
  <2>1. \A n \in 0 .. Len(log) : n \in S
    BY <1>1, <1>2, Upto, Zenon
  <2> QED BY <2>1
<1>4. \E run : Good(run, Len(log))
  BY <1>3 DEF S
<1> QED BY <1>4 DEF Runs

\* Each run is the run before it and one event more.
LEMMA RunsAt ==
  ASSUME NEW log, Len(log) \in Nat
  PROVE  /\ Runs(log)[0] = <<>>
         /\ \A n \in 1 .. Len(log) : Runs(log)[n] = Run(Runs(log)[n - 1], log[n])
<1> DEFINE R == Runs(log)
<1>1. R = [n \in 0 .. Len(log) |-> IF n = 0 THEN <<>> ELSE Run(R[n - 1], log[n])]
  BY RunsIs
<1> HIDE DEF R
<1>2. R[0] = <<>> /\ \A n \in 1 .. Len(log) : R[n] = Run(R[n - 1], log[n])
  BY <1>1
<1> QED BY <1>2 DEF R

\* Replaying one event more is running it on what was replayed.
LEMMA ReplayAppend ==
  ASSUME NEW T, NEW log \in Seq(T), NEW e \in T
  PROVE  Replay(Append(log, e)) = Run(Replay(log), e)
<1> DEFINE more == Append(log, e)
           A == Runs(log)
           B == Runs(more)
           S == {n \in 0 .. Len(log) : B[n] = A[n]}
<1>1. Len(log) \in Nat /\ Len(more) = Len(log) + 1 /\ more[Len(log) + 1] = e
      /\ \A n \in 1 .. Len(log) : more[n] = log[n]
  OBVIOUS
<1> HIDE DEF more
<1>2. A[0] = <<>> /\ \A n \in 1 .. Len(log) : A[n] = Run(A[n - 1], log[n])
  BY <1>1, RunsAt
<1>3. B[0] = <<>> /\ \A n \in 1 .. Len(log) + 1 : B[n] = Run(B[n - 1], more[n])
  BY <1>1, RunsAt
<1> HIDE DEF A, B
<1>4. 0 \in S
  BY <1>1, <1>2, <1>3
<1>5. ASSUME NEW n \in 1 .. Len(log), n - 1 \in S PROVE n \in S
  BY <1>1, <1>2, <1>3, <1>5
<1>6. Len(log) \in S
  <2> HIDE DEF S
  <2>1. \A n \in 0 .. Len(log) : n \in S
    BY <1>1, <1>4, <1>5, Upto, Zenon
  <2> QED BY <1>1, <2>1
<1>7. B[Len(log) + 1] = Run(A[Len(log)], e)
  <2>1. Len(log) + 1 \in 1 .. Len(log) + 1 /\ (Len(log) + 1) - 1 = Len(log)
    BY <1>1
  <2>2. B[Len(log) + 1] = Run(B[Len(log)], more[Len(log) + 1])
    BY <1>3, <2>1
  <2> QED BY <1>1, <1>6, <2>2
<1> QED BY <1>1, <1>7, ReplayRuns DEF A, B, more
-------------------------------------------------------------------------------
(* Sorting: below[x] is what comes before x of a finite set T, and the place of *)
(* x is how many those are.                                                  *)

Orders(T, below) ==
  /\ \A x \in T : below[x] \subseteq T /\ x \notin below[x]
  /\ \A x, y \in T : x = y \/ x \in below[y] \/ y \in below[x]
  /\ \A x, y \in T : x \in below[y] => below[x] \subseteq below[y]

PlaceOf(T, below, k) == CHOOSE x \in T : Cardinality(below[x]) = k - 1

\* What comes before has fewer before it, and none has as many as there are.
LEMMA RanksGrow ==
  ASSUME NEW T, IsFiniteSet(T), NEW below, Orders(T, below)
  PROVE  /\ Cardinality(T) \in Nat
         /\ \A x \in T : Cardinality(below[x]) \in 0 .. Cardinality(T) - 1
         /\ \A x, y \in T : x \in below[y] => Cardinality(below[x]) < Cardinality(below[y])
         /\ \A x, y \in T : Cardinality(below[x]) = Cardinality(below[y]) => x = y
<1>1. Cardinality(T) \in Nat
  BY FS_CardinalityType
<1>2. ASSUME NEW S, IsFiniteSet(S), NEW U, U \subseteq S, U # S
      PROVE  IsFiniteSet(U) /\ Cardinality(U) \in Nat /\ Cardinality(S) \in Nat
             /\ Cardinality(U) < Cardinality(S)
  <2>1. U \in SUBSET S
    BY <1>2
  <2>2. IsFiniteSet(U) /\ Cardinality(U) <= Cardinality(S)
        /\ (Cardinality(S) = Cardinality(U) => S = U)
    BY <1>2, <2>1, FS_Subset
  <2>3. Cardinality(U) \in Nat /\ Cardinality(S) \in Nat
    BY <1>2, <2>2, FS_CardinalityType
  <2> QED BY <1>2, <2>2, <2>3
<1>3. ASSUME NEW x \in T
      PROVE  IsFiniteSet(below[x]) /\ Cardinality(below[x]) \in 0 .. Cardinality(T) - 1
  <2>1. below[x] \subseteq T /\ below[x] # T
    BY DEF Orders
  <2>2. IsFiniteSet(below[x]) /\ Cardinality(below[x]) \in Nat
        /\ Cardinality(below[x]) < Cardinality(T)
    BY <1>2, <2>1
  <2> QED BY <1>1, <2>2
<1>4. ASSUME NEW x \in T, NEW y \in T, x \in below[y]
      PROVE  Cardinality(below[x]) < Cardinality(below[y])
  <2>1. below[x] \subseteq below[y] /\ below[x] # below[y]
    BY <1>4 DEF Orders
  <2>2. IsFiniteSet(below[y])
    BY <1>3
  <2> QED BY <1>2, <2>1, <2>2
<1>5. ASSUME NEW x \in T, NEW y \in T, Cardinality(below[x]) = Cardinality(below[y])
      PROVE  x = y
  <2>1. Cardinality(below[x]) \in Nat
    BY <1>3
  <2>2. x \notin below[y] /\ y \notin below[x]
    BY <1>4, <1>5, <2>1
  <2> QED BY <2>2 DEF Orders
<1> QED BY <1>1, <1>3, <1>4, <1>5

\* Every place is taken by one member, and every member has one.
LEMMA RanksAreAll ==
  ASSUME NEW T, IsFiniteSet(T), NEW below, Orders(T, below)
  PROVE  /\ \A k \in 1 .. Cardinality(T) :
              /\ PlaceOf(T, below, k) \in T
              /\ Cardinality(below[PlaceOf(T, below, k)]) = k - 1
         /\ \A x \in T : \E k \in 1 .. Cardinality(T) : PlaceOf(T, below, k) = x
         /\ \A i, j \in 1 .. Cardinality(T) :
              i < j => PlaceOf(T, below, i) \in below[PlaceOf(T, below, j)]
<1> DEFINE n == Cardinality(T)
           rank == [x \in T |-> Cardinality(below[x])]
<1>1. n \in Nat /\ (\A x \in T : rank[x] \in 0 .. n - 1)
      /\ (\A x, y \in T : x \in below[y] => rank[x] < rank[y])
      /\ (\A x, y \in T : rank[x] = rank[y] => x = y)
  BY RanksGrow
<1>2. IsFiniteSet(0 .. n - 1) /\ Cardinality(0 .. n - 1) = n
  <2>1. IsFiniteSet(0 .. n - 1)
        /\ Cardinality(0 .. n - 1) = IF 0 > n - 1 THEN 0 ELSE (n - 1) - 0 + 1
    <3>1. 0 \in Int /\ n - 1 \in Int
      BY <1>1
    <3> HIDE DEF n
    <3> QED BY <3>1, FS_Interval
  <2> QED BY <1>1, <2>1
<1>3. rank \in Injection(T, 0 .. n - 1)
  BY <1>1 DEF Injection, IsInjective
<1>4. rank \in Surjection(T, 0 .. n - 1)
  <2> HIDE DEF rank
  <2> QED BY <1>2, <1>3, FS_Injection
<1>5. ASSUME NEW k \in 1 .. n
      PROVE  PlaceOf(T, below, k) \in T /\ Cardinality(below[PlaceOf(T, below, k)]) = k - 1
  <2>1. k - 1 \in 0 .. n - 1
    BY <1>1
  <2>2. PICK x \in T : rank[x] = k - 1
    BY <1>4, <2>1 DEF Surjection
  <2>3. \E x_1 \in T : Cardinality(below[x_1]) = k - 1
    BY <2>2
  <2> QED BY <2>3 DEF PlaceOf
<1>6. ASSUME NEW x \in T PROVE \E k \in 1 .. n : PlaceOf(T, below, k) = x
  <2>1. rank[x] + 1 \in 1 .. n /\ (rank[x] + 1) - 1 = rank[x]
    BY <1>1
  <2>2. PlaceOf(T, below, rank[x] + 1) \in T
        /\ rank[PlaceOf(T, below, rank[x] + 1)] = rank[x]
    BY <1>5, <2>1
  <2> QED BY <1>1, <2>1, <2>2
<1>7. ASSUME NEW i \in 1 .. n, NEW j \in 1 .. n, i < j
      PROVE  PlaceOf(T, below, i) \in below[PlaceOf(T, below, j)]
  <2> DEFINE x == PlaceOf(T, below, i)
             y == PlaceOf(T, below, j)
  <2>1. x \in T /\ y \in T /\ rank[x] = i - 1 /\ rank[y] = j - 1
    BY <1>5
  <2> HIDE DEF x, y
  <2>2. ~(y \in below[x]) /\ x # y
    BY <1>1, <1>7, <2>1
  <2>3. x \in below[y]
    BY <2>1, <2>2 DEF Orders
  <2> QED BY <2>3 DEF x, y
<1> QED BY <1>5, <1>6, <1>7

\* A list of T in which each comes before the later ones is the list of places.
LEMMA RanksAreOne ==
  ASSUME NEW T, IsFiniteSet(T), NEW below, Orders(T, below), NEW n \in Nat, NEW list,
         \A k \in 1 .. n : list[k] \in T,
         \A x \in T : \E k \in 1 .. n : list[k] = x,
         \A i, j \in 1 .. n : i < j => list[i] \in below[list[j]]
  PROVE  Cardinality(T) = n /\ \A k \in 1 .. n : PlaceOf(T, below, k) = list[k]
<1>1. ASSUME NEW i \in 1 .. n, NEW j \in 1 .. n, list[i] = list[j] PROVE i = j
  BY <1>1 DEF Orders
<1>2. ASSUME NEW m \in 0 .. n, NEW U, \A k \in 1 .. m : list[k] \in U,
             \A x \in U : \E k \in 1 .. m : list[k] = x
      PROVE  Cardinality(U) = m
  <2> DEFINE f == [k \in 1 .. m |-> list[k]]
  <2>1. f \in Surjection(1 .. m, U)
    BY <1>2 DEF Surjection
  <2>2. f \in Injection(1 .. m, U)
    BY <1>1, <1>2 DEF Injection, IsInjective
  <2>3. IsFiniteSet(1 .. m) /\ Cardinality(1 .. m) = m
    <3>1. 1 \in Int /\ m \in Int
      OBVIOUS
    <3>2. IsFiniteSet(1 .. m) /\ Cardinality(1 .. m) = IF 1 > m THEN 0 ELSE m - 1 + 1
      BY <3>1, FS_Interval
    <3> QED BY <3>2
  <2> HIDE DEF f
  <2> QED BY <2>1, <2>2, <2>3, FS_Surjection
<1>3. Cardinality(T) = n
  BY <1>2
<1>4. ASSUME NEW k \in 1 .. n PROVE Cardinality(below[list[k]]) = k - 1
  <2>1. k - 1 \in 0 .. n
    OBVIOUS
  <2>2. \A j \in 1 .. k - 1 : list[j] \in below[list[k]]
    OBVIOUS
  <2>3. ASSUME NEW x \in below[list[k]] PROVE \E j \in 1 .. k - 1 : list[j] = x
    <3>1. x \in T
      BY <2>3 DEF Orders
    <3>2. PICK j \in 1 .. n : list[j] = x
      BY <3>1
    <3>3. ~(j > k)
      BY <2>3, <3>2 DEF Orders
    <3>4. j # k
      BY <2>3, <3>2 DEF Orders
    <3> QED BY <3>2, <3>3, <3>4
  <2> QED BY <1>2, <2>1, <2>2, <2>3
<1>5. ASSUME NEW k \in 1 .. n PROVE PlaceOf(T, below, k) = list[k]
  <2>1. \E x \in T : Cardinality(below[x]) = k - 1
    BY <1>4
  <2>2. PlaceOf(T, below, k) \in T /\ Cardinality(below[PlaceOf(T, below, k)]) = k - 1
    BY <2>1 DEF PlaceOf
  <2>3. list[k] \in T /\ Cardinality(below[list[k]]) = k - 1
    BY <1>4
  <2> QED BY <2>2, <2>3, RanksGrow
<1> QED BY <1>3, <1>5

\* Whatever is picked by the number that come before it is what has that place.
LEMMA RanksPick ==
  ASSUME NEW T, IsFiniteSet(T), NEW below, Orders(T, below), NEW list,
         \A k \in 1 .. Cardinality(T) :
           (\E x \in T : Cardinality(below[x]) = k - 1)
             => list[k] \in T /\ Cardinality(below[list[k]]) = k - 1
  PROVE  \A k \in 1 .. Cardinality(T) : list[k] = PlaceOf(T, below, k)
<1>1. ASSUME NEW k \in 1 .. Cardinality(T) PROVE list[k] = PlaceOf(T, below, k)
  <2>1. PlaceOf(T, below, k) \in T /\ Cardinality(below[PlaceOf(T, below, k)]) = k - 1
    BY RanksAreAll
  <2>2. list[k] \in T /\ Cardinality(below[list[k]]) = k - 1
    BY <2>1
  <2> QED BY <2>1, <2>2, RanksGrow
<1> QED BY <1>1

\* No two of S have one key.
Singly(S) == \A e, f \in S : Key(e) = Key(f) => e = f

KeysBelow(S) == [e \in S |-> {f \in S : KeyBefore(f, e)}]

TimesBelow(log, I) ==
  [i \in I |-> {j \in I : \/ log[j].time < log[i].time
                          \/ log[j].time = log[i].time /\ j < i}]

\* What an event is made of.
LEMMA EventTypes ==
  ASSUME NEW e \in Event
  PROVE  e.time \in Nat /\ e.time >= 1 /\ e.time <= MaxTime /\ e.finding \in Nat
         /\ e.finding \in Finding /\ e.action \in Action /\ e.by \in Device
<1>1. e.time \in 1 .. MaxTime /\ e.finding \in Finding /\ e.action \in Action /\ e.by \in Device
  BY DEF Event
<1>2. Finding \subseteq Nat /\ MaxTime \in Nat
  BY FindingAssumption, BoundAssumption
<1>3. \A t \in 1 .. MaxTime : t \in Nat /\ t >= 1 /\ t <= MaxTime
  BY <1>2
<1> QED BY <1>1, <1>2, <1>3

\* Each action has a letter of its own.
LEMMA AlphabeticalTypes ==
  /\ \A a \in Action : Alphabetical[a] \in Nat
  /\ \A a, b \in Action : Alphabetical[a] = Alphabetical[b] => a = b
BY DEF Action, Alphabetical

\* Events of which no two have one key are put in order by their keys.
LEMMA KeysOrder ==
  ASSUME NEW S, S \subseteq Event, Singly(S)
  PROVE  Orders(S, KeysBelow(S))
<1>1. \A e \in S : e.time \in Nat /\ e.finding \in Nat /\ Alphabetical[e.action] \in Nat
  BY EventTypes, AlphabeticalTypes
<1>2. ASSUME NEW e \in S, NEW f \in S
      PROVE  e = f \/ KeyBefore(e, f) \/ KeyBefore(f, e)
  <2>1. CASE e.time = f.time /\ e.finding = f.finding
             /\ Alphabetical[e.action] = Alphabetical[f.action]
    <3>1. e.action = f.action
      BY <2>1, EventTypes, AlphabeticalTypes
    <3> QED BY <2>1, <3>1 DEF Singly, Key
  <2>2. CASE ~(e.time = f.time /\ e.finding = f.finding
               /\ Alphabetical[e.action] = Alphabetical[f.action])
    BY <1>1, <2>2 DEF KeyBefore
  <2> QED BY <2>1, <2>2
<1>3. ASSUME NEW e \in S, NEW f \in S, NEW g \in S, KeyBefore(e, f), KeyBefore(f, g)
      PROVE  KeyBefore(e, g)
  BY <1>1, <1>3 DEF KeyBefore
<1>4. ASSUME NEW e \in S PROVE ~KeyBefore(e, e)
  BY <1>1 DEF KeyBefore
<1> QED BY <1>2, <1>3, <1>4 DEF Orders, KeysBelow

\* The places of a log are put in order by time, and by place where times agree.
LEMMA TimesOrder ==
  ASSUME NEW log, NEW I, I \subseteq Nat, \A i \in I : log[i].time \in Nat
  PROVE  Orders(I, TimesBelow(log, I))
<1> DEFINE below == TimesBelow(log, I)
<1>1. \A i \in I : i \in Nat /\ log[i].time \in Nat
  OBVIOUS
<1>2. \A i \in I : below[i] = {j \in I : \/ log[j].time < log[i].time
                                         \/ log[j].time = log[i].time /\ j < i}
  BY DEF TimesBelow
<1> HIDE DEF below
<1>3. \A i \in I : below[i] \subseteq I /\ i \notin below[i]
  BY <1>1, <1>2
<1>4. \A i, j \in I : i = j \/ i \in below[j] \/ j \in below[i]
  BY <1>1, <1>2
<1>5. ASSUME NEW i \in I, NEW j \in I, i \in below[j], NEW m \in below[i] PROVE m \in below[j]
  <2>1. m \in I /\ (log[m].time < log[i].time \/ (log[m].time = log[i].time /\ m < i))
    BY <1>2
  <2>2. log[i].time < log[j].time \/ (log[i].time = log[j].time /\ i < j)
    BY <1>2, <1>5
  <2>3. log[m].time < log[j].time \/ (log[m].time = log[j].time /\ m < j)
    BY <1>1, <2>1, <2>2
  <2> QED BY <1>2, <2>1, <2>3
<1>6. Orders(I, below)
  BY <1>3, <1>4, <1>5 DEF Orders
<1> QED BY <1>6 DEF below

\* The order the database answers in.
LEMMA KeyOrderIs ==
  ASSUME NEW S, IsFiniteSet(S), S \subseteq Event, Singly(S)
  PROVE  /\ InKeyOrder(S) = [k \in 1 .. Cardinality(S) |-> InKeyOrder(S)[k]]
         /\ \A k \in 1 .. Cardinality(S) : InKeyOrder(S)[k] = PlaceOf(S, KeysBelow(S), k)
<1>1. InKeyOrder(S) = [k \in 1 .. Cardinality(S) |->
                         CHOOSE e \in S : Cardinality({f \in S : KeyBefore(f, e)}) = k - 1]
  BY DEF InKeyOrder, Ranked
<1>2. ASSUME NEW k \in 1 .. Cardinality(S),
             \E x \in S : Cardinality(KeysBelow(S)[x]) = k - 1
      PROVE  InKeyOrder(S)[k] \in S
             /\ Cardinality(KeysBelow(S)[InKeyOrder(S)[k]]) = k - 1
  <2>1. \E e \in S : Cardinality({f \in S : KeyBefore(f, e)}) = k - 1
    BY <1>2 DEF KeysBelow
  <2> DEFINE x == CHOOSE e \in S : Cardinality({f \in S : KeyBefore(f, e)}) = k - 1
  <2>2. x \in S /\ Cardinality({f \in S : KeyBefore(f, x)}) = k - 1
    BY <2>1
  <2>3. InKeyOrder(S)[k] = x
    BY <1>1
  <2> HIDE DEF x
  <2> QED BY <2>2, <2>3 DEF KeysBelow
<1> DEFINE list == InKeyOrder(S)
<1>3. list = [k \in 1 .. Cardinality(S) |-> list[k]]
  BY <1>1
<1> HIDE DEF list
<1>4. \A k \in 1 .. Cardinality(S) : list[k] = PlaceOf(S, KeysBelow(S), k)
  <2>1. Orders(S, KeysBelow(S))
    BY KeysOrder
  <2> QED BY <1>2, <2>1, RanksPick DEF list
<1> QED BY <1>3, <1>4 DEF list

\* The order the stable sort puts some places of a log in.
LEMMA OldestIs ==
  ASSUME NEW log, NEW I, IsFiniteSet(I), I \subseteq Nat, \A i \in I : log[i].time \in Nat
  PROVE  /\ Oldest(log, I) = [k \in 1 .. Cardinality(I) |-> Oldest(log, I)[k]]
         /\ \A k \in 1 .. Cardinality(I) :
              Oldest(log, I)[k] = log[PlaceOf(I, TimesBelow(log, I), k)]
<1> DEFINE pick(k) == CHOOSE i \in I :
      Cardinality({j \in I : \/ log[j].time < log[i].time
                             \/ log[j].time = log[i].time /\ j < i}) = k - 1
           place == [k \in 1 .. Cardinality(I) |-> pick(k)]
<1>1. Oldest(log, I) = [k \in DOMAIN place |-> log[place[k]]]
  BY DEF Oldest, Ranked
<1>2. ASSUME NEW k \in 1 .. Cardinality(I),
             \E x \in I : Cardinality(TimesBelow(log, I)[x]) = k - 1
      PROVE  place[k] \in I /\ Cardinality(TimesBelow(log, I)[place[k]]) = k - 1
  <2>1. \E i \in I : Cardinality({j \in I : \/ log[j].time < log[i].time
                                            \/ log[j].time = log[i].time /\ j < i}) = k - 1
    BY <1>2 DEF TimesBelow
  <2> DEFINE x == pick(k)
  <2>2. x \in I
        /\ Cardinality({j \in I : \/ log[j].time < log[x].time
                                  \/ log[j].time = log[x].time /\ j < x}) = k - 1
    BY <2>1
  <2>3. place[k] = x
    OBVIOUS
  <2> HIDE DEF x
  <2> QED BY <2>2, <2>3 DEF TimesBelow
<1>3. DOMAIN place = 1 .. Cardinality(I)
  OBVIOUS
<1> HIDE DEF place
<1>4. \A k \in 1 .. Cardinality(I) : place[k] = PlaceOf(I, TimesBelow(log, I), k)
  <2>1. Orders(I, TimesBelow(log, I))
    BY TimesOrder
  <2> QED BY <1>2, <2>1, RanksPick
<1> DEFINE got == Oldest(log, I)
<1>5. got = [k \in 1 .. Cardinality(I) |-> log[place[k]]]
  BY <1>1, <1>3
<1> HIDE DEF got
<1>6. /\ got = [k \in 1 .. Cardinality(I) |-> got[k]]
      /\ \A k \in 1 .. Cardinality(I) : got[k] = log[place[k]]
  BY <1>5
<1> QED BY <1>4, <1>6 DEF got

-------------------------------------------------------------------------------
(* What sorting does to a log.                                               *)

\* No two events of a log have one key.
Apart(log) == \A i, j \in DOMAIN log : Key(log[i]) = Key(log[j]) => i = j

\* None is older than one before it; each is younger than those before it.
InTime(log) == \A i, j \in DOMAIN log : i < j => log[i].time <= log[j].time

\* Each key comes before those after it.
Sorted(log) == \A i, j \in DOMAIN log : i < j => KeyBefore(log[i], log[j])

\* What a log is made of, and what it holds.
LEMMA LogTypes ==
  ASSUME NEW log \in Seq(Event)
  PROVE  /\ Len(log) \in Nat /\ DOMAIN log = 1 .. Len(log)
         /\ log = [i \in 1 .. Len(log) |-> log[i]]
         /\ \A i \in 1 .. Len(log) : log[i] \in Event /\ log[i].time \in Nat
         /\ IsFiniteSet(ToSet(log)) /\ ToSet(log) \subseteq Event
         /\ \A I : I \subseteq DOMAIN log => IsFiniteSet(I) /\ Cardinality(I) \in Nat
<1>1. Len(log) \in Nat /\ DOMAIN log = 1 .. Len(log)
      /\ log = [i \in 1 .. Len(log) |-> log[i]] /\ log \in [1 .. Len(log) -> Event]
  OBVIOUS
<1>2. \A i \in 1 .. Len(log) : log[i] \in Event
  BY <1>1
<1>3. \A i \in 1 .. Len(log) : log[i].time \in Nat
  BY <1>2, EventTypes
<1>4. IsFiniteSet(1 .. Len(log))
  <2>1. 1 \in Int /\ Len(log) \in Int
    BY <1>1
  <2> QED BY <2>1, FS_Interval
<1>5. IsFiniteSet(ToSet(log))
  <2> DEFINE S == 1 .. Len(log)
             T == ToSet(log)
  <2>1. log \in [S -> T] /\ \A x \in T : \E i \in S : log[i] = x
    BY <1>1 DEF ToSet
  <2>2. log \in Surjection(S, T)
    BY <2>1 DEF Surjection
  <2>3. IsFiniteSet(S)
    BY <1>4
  <2> HIDE DEF S, T
  <2>4. IsFiniteSet(T)
    BY <2>2, <2>3, FS_Surjection
  <2> QED BY <2>4 DEF T
<1>6. ToSet(log) \subseteq Event
  BY <1>1, <1>2 DEF ToSet
<1>7. ASSUME NEW I, I \subseteq DOMAIN log PROVE IsFiniteSet(I) /\ Cardinality(I) \in Nat
  <2>1. I \in SUBSET (1 .. Len(log))
    BY <1>1, <1>7
  <2>2. IsFiniteSet(I)
    BY <1>4, <2>1, FS_Subset
  <2> QED BY <2>2, FS_CardinalityType
<1> QED BY <1>1, <1>2, <1>3, <1>5, <1>6, <1>7

\* In key order the events are the same, each once.
LEMMA KeyOrdered ==
  ASSUME NEW S, IsFiniteSet(S), S \subseteq Event, Singly(S)
  PROVE  /\ InKeyOrder(S) \in Seq(Event) /\ Len(InKeyOrder(S)) = Cardinality(S)
         /\ ToSet(InKeyOrder(S)) = S
         /\ Apart(InKeyOrder(S)) /\ Sorted(InKeyOrder(S))
<1> DEFINE o == InKeyOrder(S)
           n == Cardinality(S)
<1>1. n \in Nat
  BY FS_CardinalityType
<1>2. o = [k \in 1 .. n |-> o[k]] /\ \A k \in 1 .. n : o[k] = PlaceOf(S, KeysBelow(S), k)
  BY KeyOrderIs
<1>3. Orders(S, KeysBelow(S))
  BY KeysOrder
<1>4. /\ \A k \in 1 .. n : PlaceOf(S, KeysBelow(S), k) \in S
      /\ \A x \in S : \E k \in 1 .. n : PlaceOf(S, KeysBelow(S), k) = x
      /\ \A i, j \in 1 .. n :
           i < j => PlaceOf(S, KeysBelow(S), i) \in KeysBelow(S)[PlaceOf(S, KeysBelow(S), j)]
  BY <1>3, RanksAreAll
<1>9. \A i, j \in 1 .. n : i < j => KeyBefore(o[i], o[j])
  <2>1. \A e, f \in S : f \in KeysBelow(S)[e] => KeyBefore(f, e)
    BY DEF KeysBelow
  <2> HIDE DEF o, n
  <2> QED BY <1>2, <1>4, <2>1
<1> HIDE DEF o, n
<1>5. /\ \A k \in 1 .. n : o[k] \in S
      /\ \A x \in S : \E k \in 1 .. n : o[k] = x
      /\ \A i, j \in 1 .. n : i < j => o[i] # o[j]
  <2>1. \A e \in S : e \notin KeysBelow(S)[e]
    BY <1>3 DEF Orders
  <2> QED BY <1>2, <1>4, <2>1
<1>6. o \in Seq(Event) /\ Len(o) = n /\ DOMAIN o = 1 .. n
  <2>1. \A k \in 1 .. n : o[k] \in Event
    BY <1>5
  <2> QED BY <1>1, <1>2, <2>1
<1>7. ToSet(o) = S
  BY <1>5, <1>6 DEF ToSet
<1>8. Apart(o)
  <2>1. ASSUME NEW i \in 1 .. n, NEW j \in 1 .. n, Key(o[i]) = Key(o[j]) PROVE i = j
    <3>1. o[i] = o[j]
      BY <1>5, <2>1 DEF Singly
    <3> QED BY <1>1, <1>5, <3>1
  <2> QED BY <1>6, <2>1 DEF Apart
<1>10. Sorted(o)
  BY <1>6, <1>9 DEF Sorted
<1> QED BY <1>6, <1>7, <1>8, <1>10 DEF o, n

\* Sorted by time, some places of a log give their events, none older than one before.
LEMMA OldestOrdered ==
  ASSUME NEW log \in Seq(Event), NEW I, I \subseteq DOMAIN log
  PROVE  /\ Oldest(log, I) \in Seq(Event) /\ Len(Oldest(log, I)) = Cardinality(I)
         /\ ToSet(Oldest(log, I)) = {log[i] : i \in I}
         /\ InTime(Oldest(log, I))
         /\ Apart(log) => Apart(Oldest(log, I))
<1> DEFINE o == Oldest(log, I)
           n == Cardinality(I)
           below == TimesBelow(log, I)
           place(k) == PlaceOf(I, below, k)
<1>1. IsFiniteSet(I) /\ n \in Nat /\ I \subseteq Nat
      /\ \A i \in I : i \in DOMAIN log /\ log[i] \in Event /\ log[i].time \in Nat
  BY LogTypes
<1>2. o = [k \in 1 .. n |-> o[k]] /\ \A k \in 1 .. n : o[k] = log[place(k)]
  BY <1>1, OldestIs
<1>3. Orders(I, below)
  BY <1>1, TimesOrder
<1>4. /\ \A k \in 1 .. n : place(k) \in I
      /\ \A x \in I : \E k \in 1 .. n : place(k) = x
      /\ \A i, j \in 1 .. n : i < j => place(i) \in below[place(j)]
  BY <1>1, <1>3, RanksAreAll
<1>5. \A i, j \in I : i \in below[j] =>
        log[i].time < log[j].time \/ (log[i].time = log[j].time /\ i < j)
  BY DEF TimesBelow
<1> HIDE DEF o, n, below, place
<1>6. o \in Seq(Event) /\ Len(o) = n
  <2>1. \A k \in 1 .. n : log[place(k)] \in Event
    BY <1>1, <1>4
  <2>2. o \in [1 .. n -> Event] /\ n \in Nat
    BY <1>1, <1>2, <2>1
  <2> QED BY <2>2
<1>7. ToSet(o) = {log[i] : i \in I}
  BY <1>2, <1>4 DEF ToSet
<1>8. InTime(o)
  <2>1. ASSUME NEW i \in 1 .. n, NEW j \in 1 .. n, i < j PROVE o[i].time <= o[j].time
    <3>1. place(i) \in I /\ place(j) \in I /\ place(i) \in below[place(j)]
      BY <1>4, <2>1
    <3>2. log[place(i)].time <= log[place(j)].time
      BY <1>1, <1>5, <3>1
    <3> QED BY <1>2, <3>2
  <2> QED BY <1>2, <2>1 DEF InTime
<1>9. ASSUME Apart(log) PROVE Apart(o)
  <2>1. ASSUME NEW i \in 1 .. n, NEW j \in 1 .. n, i < j PROVE Key(o[i]) # Key(o[j])
    <3>1. place(i) \in I /\ place(j) \in I /\ place(i) # place(j)
      BY <1>3, <1>4, <2>1 DEF Orders
    <3>2. Key(log[place(i)]) # Key(log[place(j)])
      BY <1>1, <1>9, <3>1 DEF Apart
    <3> QED BY <1>2, <3>2
  <2>2. \A i, j \in 1 .. n : Key(o[i]) = Key(o[j]) => i = j
    BY <1>1, <2>1
  <2> QED BY <1>2, <2>2 DEF Apart
<1> QED BY <1>6, <1>7, <1>8, <1>9 DEF o, n

\* What is in key order is in order of time already.
LEMMA ByTimeSorted ==
  ASSUME NEW log \in Seq(Event), Sorted(log)
  PROVE  ByTime(log) = log
<1> DEFINE n == Len(log)
<1>1. n \in Nat /\ DOMAIN log = 1 .. n /\ log = [i \in 1 .. n |-> log[i]]
      /\ (\A i \in 1 .. n : log[i] \in Event /\ log[i].time \in Nat)
  BY LogTypes
<1>2. \A i, j \in 1 .. n : i < j => log[i].time < log[j].time \/ log[i].time = log[j].time
  BY <1>1 DEF Sorted, KeyBefore
<1> HIDE DEF n
<1> DEFINE I == 1 .. n
<1>8. IsFiniteSet(I) /\ I \subseteq Nat /\ \A i \in I : log[i].time \in Nat
  <2>1. I \subseteq DOMAIN log
    BY <1>1
  <2> QED BY <1>1, <2>1, LogTypes
<1>9. Cardinality(I) = n /\ \A k \in 1 .. n : PlaceOf(I, TimesBelow(log, I), k) = k
  <2> DEFINE list == [k \in 1 .. n |-> k]
  <2>1. /\ \A k \in 1 .. n : list[k] \in I
        /\ \A x \in I : \E k \in 1 .. n : list[k] = x
    OBVIOUS
  <2>2. \A i, j \in 1 .. n : i < j => list[i] \in TimesBelow(log, I)[list[j]]
    BY <1>2 DEF TimesBelow
  <2>3. Orders(I, TimesBelow(log, I))
    BY <1>8, TimesOrder
  <2>4. \A k \in 1 .. n : list[k] = k
    OBVIOUS
  <2> DEFINE below == TimesBelow(log, I)
  <2> HIDE DEF list, below, I
  <2>8. n \in Nat /\ IsFiniteSet(I) /\ Orders(I, below)
    BY <1>1, <1>8, <2>3 DEF below
  <2>9. /\ \A k \in 1 .. n : list[k] \in I
        /\ \A x \in I : \E k \in 1 .. n : list[k] = x
        /\ \A i, j \in 1 .. n : i < j => list[i] \in below[list[j]]
    BY <2>1, <2>2 DEF below
  <2>10. Cardinality(I) = n /\ \A k \in 1 .. n : PlaceOf(I, below, k) = list[k]
    <3> HIDE DEF n
    <3> QED BY ONLY <2>8, <2>9, RanksAreOne
  <2>5. Cardinality(I) = n /\ \A k \in 1 .. n : PlaceOf(I, TimesBelow(log, I), k) = list[k]
    BY <2>10 DEF below
  <2>6. Cardinality(I) = n
    BY <2>5, Zenon
  <2>7. ASSUME NEW k \in 1 .. n PROVE PlaceOf(I, TimesBelow(log, I), k) = k
    BY <2>4, <2>5, Zenon
  <2> QED BY <2>6, <2>7, Zenon
<1>10. Oldest(log, I) = [k \in 1 .. n |-> log[k]]
  <2> HIDE DEF I
  <2>1. /\ Oldest(log, I) = [k \in 1 .. Cardinality(I) |-> Oldest(log, I)[k]]
        /\ \A k \in 1 .. Cardinality(I) :
             Oldest(log, I)[k] = log[PlaceOf(I, TimesBelow(log, I), k)]
    BY <1>8, OldestIs
  <2> DEFINE place(k) == PlaceOf(I, TimesBelow(log, I), k)
             got == Oldest(log, I)
  <2>2. Cardinality(I) = n /\ \A k \in 1 .. n : place(k) = k
    BY <1>9, Zenon
  <2>3. got = [k \in 1 .. n |-> got[k]] /\ \A k \in 1 .. n : got[k] = log[place(k)]
    BY <2>1, <2>2, Zenon
  <2> HIDE DEF place, n, got
  <2>4. got = [k \in 1 .. n |-> log[k]]
    BY <2>2, <2>3
  <2> QED BY <2>4 DEF got
<1> QED BY <1>1, <1>10 DEF ByTime

\* What a reload rebuilds is the same events, each once, in key order.
LEMMA RestoredOrdered ==
  ASSUME NEW log \in Seq(Event), Apart(log)
  PROVE  /\ Restored(log) \in Seq(Event)
         /\ ToSet(Restored(log)) = ToSet(log)
         /\ Apart(Restored(log)) /\ InTime(Restored(log)) /\ Sorted(Restored(log))
<1> DEFINE S == ToSet(log)
           o == InKeyOrder(S)
<1>1. IsFiniteSet(S) /\ S \subseteq Event
  BY LogTypes
<1>2. Singly(S)
  BY LogTypes DEF Apart, Singly, ToSet
<1>3. o \in Seq(Event) /\ ToSet(o) = S /\ Apart(o) /\ Sorted(o)
  <2> HIDE DEF S
  <2> QED BY <1>1, <1>2, KeyOrdered
<1>4. Restored(log) = ByTime(o)
  BY DEF Restored
<1> HIDE DEF S, o
<1>5. ByTime(o) = o
  BY <1>3, ByTimeSorted
<1>6. \A i \in DOMAIN o : o[i].time \in Nat
  BY <1>3, LogTypes
<1>7. InTime(o)
  BY <1>3, <1>6 DEF Sorted, KeyBefore, InTime
<1> QED BY <1>3, <1>4, <1>5, <1>7 DEF S

\* A log in key order is rebuilt as it is.
LEMMA RestoredSorted ==
  ASSUME NEW log \in Seq(Event), Sorted(log)
  PROVE  Restored(log) = log
<1> DEFINE n == Len(log)
           S == ToSet(log)
           o == InKeyOrder(S)
<1>1. n \in Nat /\ DOMAIN log = 1 .. n /\ log = [i \in 1 .. n |-> log[i]]
      /\ (\A i \in 1 .. n : log[i] \in Event /\ log[i].time \in Nat)
      /\ IsFiniteSet(S) /\ S \subseteq Event
  BY LogTypes
<1>2. \A i, j \in 1 .. n : i < j => KeyBefore(log[i], log[j])
  BY <1>1 DEF Sorted
<1>3. /\ \A k \in 1 .. n : log[k] \in S
      /\ \A x \in S : \E k \in 1 .. n : log[k] = x
  BY <1>1 DEF ToSet
<1> HIDE DEF n, S
<1>4. Singly(S)
  <2>1. ASSUME NEW i \in 1 .. n, NEW j \in 1 .. n, Key(log[i]) = Key(log[j]) PROVE i = j
    <3>1. /\ log[i].time = log[j].time /\ log[i].finding = log[j].finding
          /\ log[i].action = log[j].action
      BY <2>1 DEF Key
    <3>2. /\ log[i].time \in Nat /\ log[i].finding \in Nat
          /\ Alphabetical[log[i].action] \in Nat
      BY <1>1, EventTypes, AlphabeticalTypes
    <3>3. ~KeyBefore(log[i], log[j]) /\ ~KeyBefore(log[j], log[i])
      BY <3>1, <3>2 DEF KeyBefore
    <3>4. ~(i < j) /\ ~(j < i)
      BY <1>2, <3>3
    <3> QED BY <1>1, <3>4
  <2> QED BY <1>3, <2>1 DEF Singly
<1>5. \A i, j \in 1 .. n : i < j => log[i] \in KeysBelow(S)[log[j]]
  BY <1>2, <1>3 DEF KeysBelow
<1>6. Cardinality(S) = n /\ \A k \in 1 .. n : PlaceOf(S, KeysBelow(S), k) = log[k]
  BY <1>1, <1>3, <1>4, <1>5, KeysOrder, RanksAreOne
<1>7. o = log
  <2>1. o = [k \in 1 .. n |-> o[k]] /\ \A k \in 1 .. n : o[k] = log[k]
    BY <1>1, <1>4, <1>6, KeyOrderIs
  <2> HIDE DEF o
  <2> QED BY <1>1, <2>1
<1>8. ByTime(log) = log
  BY ByTimeSorted
<1> QED BY <1>7, <1>8 DEF Restored, S

-------------------------------------------------------------------------------
(* What one event does to the collection.                                    *)

\* First answers the least place of an id, or zero when it has none.
LEMMA FirstIs ==
  ASSUME NEW list \in Seq(Item), NEW id
  PROVE  /\ First(list, id) \in 0 .. Len(list)
         /\ First(list, id) = 0 => \A i \in DOMAIN list : list[i].id # id
         /\ First(list, id) # 0 =>
              /\ list[First(list, id)].id = id
              /\ \A i \in DOMAIN list : list[i].id = id => First(list, id) <= i
<1> DEFINE I == {i \in 1 .. Len(list) : list[i].id = id}
<1>1. First(list, id) = IF I # {} THEN Min(I) ELSE 0
  BY DEF First, SelectInSeq
<1>2. Len(list) \in Nat /\ DOMAIN list = 1 .. Len(list)
  OBVIOUS
<1>3. ASSUME I # {} PROVE Min(I) \in I /\ \A i \in I : Min(I) <= i
  <2>1. \A i \in I : i \in Nat
    OBVIOUS
  <2> HIDE DEF I
  <2>2. \E x \in I : \A y \in I : x <= y
    BY <1>3, <2>1, LeastOf
  <2> QED BY <2>2 DEF Min
<1>4. CASE I # {}
  BY <1>1, <1>2, <1>3, <1>4
<1>5. CASE I = {}
  BY <1>1, <1>2, <1>5
<1> QED BY <1>4, <1>5

\* An item that is made is the agent's, and nothing has been said of it.
LEMMA MadeIs ==
  ASSUME NEW id \in Finding
  PROVE  Made(id) \in Item /\ Made(id).id = id /\ Made(id).mine = FALSE
         /\ Made(id).deleted = FALSE /\ Made(id).included = FALSE
BY DEF Made, Item

\* The collection an event is written on has the event's finding, and differs in no other.
LEMMA AtIs ==
  ASSUME NEW list \in Seq(Item), NEW id \in Finding
  PROVE  /\ At(list, id) \in Seq(Item)
         /\ First(At(list, id), id) \in 1 .. Len(At(list, id))
         /\ \/ At(list, id) = list
            \/ /\ At(list, id) = Append(list, Made(id))
               /\ \A i \in DOMAIN list : list[i].id # id
<1>1. CASE First(list, id) = 0
  <2> DEFINE all == Append(list, Made(id))
  <2>1. At(list, id) = all /\ \A i \in DOMAIN list : list[i].id # id
    BY <1>1, FirstIs DEF At
  <2>2. all \in Seq(Item) /\ Len(all) = Len(list) + 1 /\ all[Len(list) + 1] = Made(id)
        /\ Len(list) \in Nat /\ DOMAIN all = 1 .. Len(list) + 1
    <3> DEFINE item == Made(id)
    <3>1. item \in Item
      BY MadeIs
    <3> HIDE DEF item
    <3>2. Append(list, item) \in Seq(Item) /\ Len(Append(list, item)) = Len(list) + 1
          /\ Append(list, item)[Len(list) + 1] = item /\ Len(list) \in Nat
          /\ DOMAIN Append(list, item) = 1 .. Len(list) + 1
      BY <3>1
    <3> QED BY <3>2 DEF item
  <2> HIDE DEF all
  <2>3. all[Len(list) + 1].id = id /\ Len(list) + 1 \in DOMAIN all
    <3>1. Made(id).id = id
      BY MadeIs
    <3> QED BY <2>2, <3>1
  <2>4. First(all, id) # 0 /\ First(all, id) \in 0 .. Len(all)
    BY <2>2, <2>3, FirstIs
  <2> QED BY <2>1, <2>2, <2>4 DEF all
<1>2. CASE First(list, id) # 0
  BY <1>2, FirstIs DEF At
<1> QED BY <1>1, <1>2

\* A create appends an item of the reader's own.
LEMMA RunCreate ==
  ASSUME NEW list \in Seq(Item), NEW e \in Event, e.action = "create"
  PROVE  \E item \in Item :
           /\ Run(list, e) = Append(list, item)
           /\ item.id = e.finding /\ item.mine = TRUE /\ item.deleted = FALSE
<1> DEFINE item == [Made(e.finding) EXCEPT !.mine = TRUE]
<1>1. item \in Item /\ item.id = e.finding /\ item.mine = TRUE /\ item.deleted = FALSE
  BY EventTypes DEF Made, Item
<1>2. Run(list, e) = Append(list, item)
  BY DEF Run, CREATE
<1> HIDE DEF item
<1> QED BY <1>1, <1>2

\* Anything else is written on the first item with its id, made if there is none.
LEMMA RunOther ==
  ASSUME NEW list \in Seq(Item), NEW e \in Event, e.action # "create"
  PROVE  LET all == At(list, e.finding)
             p == First(all, e.finding)
             out == Run(list, e)
         IN  /\ out \in Seq(Item) /\ Len(out) = Len(all) /\ DOMAIN out = 1 .. Len(all)
             /\ \A j \in 1 .. Len(all) : j # p => out[j] = all[j]
             /\ out[p].id = all[p].id /\ out[p].mine = all[p].mine
             /\ e.action = "delete" => out[p].deleted = TRUE
             /\ e.action # "delete" => /\ out[p].deleted = all[p].deleted
                                       /\ out[p].included = (e.action = "include")
<1> DEFINE all == At(list, e.finding)
           p == First(all, e.finding)
           out == Run(list, e)
<1>1. e.finding \in Finding
  BY EventTypes
<1>2. all \in Seq(Item) /\ p \in 1 .. Len(all)
  BY <1>1, AtIs
<1>3. CASE e.action = "delete"
  <2>1. out = [all EXCEPT ![p].deleted = TRUE]
    BY <1>3 DEF Run, DELETE
  <2> HIDE DEF out, p, all
  <2>2. all[p] \in Item /\ Len(all) \in Nat /\ all \in [1 .. Len(all) -> Item]
    BY <1>2
  <2> DEFINE item == [all[p] EXCEPT !.deleted = TRUE]
  <2>3. item \in Item /\ item.deleted = TRUE /\ item.id = all[p].id /\ item.mine = all[p].mine
    BY <2>2 DEF Item
  <2>4. out = [all EXCEPT ![p] = item]
    BY <2>1
  <2> HIDE DEF item
  <2>5. out \in [1 .. Len(all) -> Item] /\ out[p] = item
        /\ \A j \in 1 .. Len(all) : j # p => out[j] = all[j]
    BY <1>2, <2>2, <2>3, <2>4
  <2>6. out \in Seq(Item) /\ Len(out) = Len(all) /\ DOMAIN out = 1 .. Len(all)
    BY <2>2, <2>5
  <2> QED BY <1>3, <2>3, <2>5, <2>6 DEF out, p, all
<1>4. CASE e.action # "delete"
  <2>1. out = [all EXCEPT ![p].included = (e.action = "include")]
    BY <1>4 DEF Run, Moment
  <2> HIDE DEF out, p, all
  <2>2. all[p] \in Item /\ Len(all) \in Nat /\ all \in [1 .. Len(all) -> Item]
    BY <1>2
  <2> DEFINE item == [all[p] EXCEPT !.included = (e.action = "include")]
  <2>3. item \in Item /\ item.included = (e.action = "include") /\ item.id = all[p].id
        /\ item.mine = all[p].mine /\ item.deleted = all[p].deleted
    BY <2>2 DEF Item
  <2>4. out = [all EXCEPT ![p] = item]
    BY <2>1
  <2> HIDE DEF item
  <2>5. out \in [1 .. Len(all) -> Item] /\ out[p] = item
        /\ \A j \in 1 .. Len(all) : j # p => out[j] = all[j]
    BY <1>2, <2>2, <2>3, <2>4
  <2>6. out \in Seq(Item) /\ Len(out) = Len(all) /\ DOMAIN out = 1 .. Len(all)
    BY <2>2, <2>5
  <2> QED BY <1>4, <2>3, <2>5, <2>6 DEF out, p, all
<1> QED BY <1>3, <1>4

-------------------------------------------------------------------------------
(* What a replay makes of a log.                                             *)

\* Among the first n events of a log: one about id; one that does a to it.
Named(log, n, id) == \E k \in 1 .. n : log[k].finding = id
Done(log, n, id, a) == \E k \in 1 .. n : log[k].finding = id /\ log[k].action = a

\* Nothing is said of id before it is created.
Led(log, id) ==
  \A k \in DOMAIN log : log[k].finding = id /\ log[k].action = "create" =>
    \A j \in DOMAIN log : j < k => log[j].finding # id

\* Every item is of an event and every event has its item; what is mine was
\* created, what is deleted was thrown away.
Mirrors(list, log, n) ==
  /\ list \in Seq(Item)
  /\ \A i \in DOMAIN list : /\ Named(log, n, list[i].id)
                            /\ list[i].mine => Done(log, n, list[i].id, "create")
                            /\ list[i].deleted => Done(log, n, list[i].id, "delete")
  /\ \A k \in 1 .. n : \E i \in DOMAIN list : list[i].id = log[k].finding

\* Of what was created first there is one item, and it stays deleted.
Single(list, log, n) ==
  \A id \in Finding : Led(log, id) =>
    /\ \A i, j \in DOMAIN list : list[i].id = id /\ list[j].id = id => i = j
    /\ Done(log, n, id, "delete") =>
         \A i \in DOMAIN list : list[i].id = id => list[i].deleted

\* A collection that mirrors a log mirrors one event more when it is run.
LEMMA MirrorsStep ==
  ASSUME NEW log \in Seq(Event), NEW n \in 1 .. Len(log), NEW list,
         Mirrors(list, log, n - 1), Single(list, log, n - 1)
  PROVE  Mirrors(Run(list, log[n]), log, n) /\ Single(Run(list, log[n]), log, n)
<1> DEFINE e == log[n]
           id == e.finding
           out == Run(list, e)
<1>1. Len(log) \in Nat /\ DOMAIN log = 1 .. Len(log) /\ e \in Event
      /\ n - 1 \in Nat /\ n \in Nat /\ (\A k : k \in 1 .. n <=> k \in 1 .. n - 1 \/ k = n)
  BY LogTypes
<1>2. list \in Seq(Item) /\ Len(list) \in Nat /\ DOMAIN list = 1 .. Len(list) /\ id \in Finding
      /\ \A i \in 1 .. Len(list) : list[i] \in Item
  BY <1>1, EventTypes DEF Mirrors
<1>3. /\ \A x : Named(log, n - 1, x) => Named(log, n, x)
      /\ \A x, a : Done(log, n - 1, x, a) => Done(log, n, x, a)
      /\ Named(log, n, id) /\ Done(log, n, id, e.action)
      /\ \A x, a : Done(log, n, x, a) => Done(log, n - 1, x, a) \/ (x = id /\ a = e.action)
  BY <1>1 DEF Named, Done
<1>4. \A i \in 1 .. Len(list) : /\ Named(log, n - 1, list[i].id)
                                /\ list[i].mine => Done(log, n - 1, list[i].id, "create")
                                /\ list[i].deleted => Done(log, n - 1, list[i].id, "delete")
  BY <1>2 DEF Mirrors
<1>5. \A k \in 1 .. n - 1 : \E i \in 1 .. Len(list) : list[i].id = log[k].finding
  BY <1>2 DEF Mirrors
<1>6. ASSUME NEW x \in Finding, Led(log, x)
      PROVE  /\ \A i, j \in 1 .. Len(list) : list[i].id = x /\ list[j].id = x => i = j
             /\ Done(log, n - 1, x, "delete") =>
                  \A i \in 1 .. Len(list) : list[i].id = x => list[i].deleted
  BY <1>2, <1>6 DEF Single
<1>7. CASE e.action = "create"
  <2>1. PICK item \in Item : /\ out = Append(list, item) /\ item.id = id
                             /\ item.mine = TRUE /\ item.deleted = FALSE
    BY <1>1, <1>2, <1>7, RunCreate
  <2>2. out \in Seq(Item) /\ DOMAIN out = 1 .. Len(list) + 1 /\ out[Len(list) + 1] = item
        /\ \A i \in 1 .. Len(list) : out[i] = list[i]
    BY <1>2, <2>1
  <2> HIDE DEF out
  <2>3. \A i : i \in DOMAIN out <=> i \in 1 .. Len(list) \/ i = Len(list) + 1
    BY <1>2, <2>2
  <2>4. Mirrors(out, log, n)
    <3>1. ASSUME NEW i \in DOMAIN out
          PROVE  /\ Named(log, n, out[i].id)
                 /\ out[i].mine => Done(log, n, out[i].id, "create")
                 /\ out[i].deleted => Done(log, n, out[i].id, "delete")
      <4>1. CASE i \in 1 .. Len(list)
        BY <1>3, <1>4, <2>2, <4>1
      <4>2. CASE i = Len(list) + 1
        BY <1>3, <1>7, <2>1, <2>2, <4>2
      <4> QED BY <2>3, <4>1, <4>2
    <3>2. ASSUME NEW k \in 1 .. n PROVE \E i \in DOMAIN out : out[i].id = log[k].finding
      <4>1. CASE k = n
        <5>1. Len(list) + 1 \in DOMAIN out /\ out[Len(list) + 1].id = log[k].finding
          BY <2>1, <2>2, <2>3, <4>1
        <5> QED BY <5>1
      <4>2. CASE k \in 1 .. n - 1
        <5>1. PICK i \in 1 .. Len(list) : list[i].id = log[k].finding
          BY <1>5, <4>2
        <5>2. i \in DOMAIN out /\ out[i].id = log[k].finding
          BY <2>2, <2>3, <5>1
        <5> QED BY <5>2
      <4> QED BY <1>1, <4>1, <4>2
    <3> QED BY <2>2, <3>1, <3>2 DEF Mirrors
  <2>5. Single(out, log, n)
    <3>1. ASSUME NEW x \in Finding, Led(log, x)
          PROVE  /\ \A i, j \in DOMAIN out : out[i].id = x /\ out[j].id = x => i = j
                 /\ Done(log, n, x, "delete") =>
                      \A i \in DOMAIN out : out[i].id = x => out[i].deleted
      <4>1. CASE x = id
        <5>1. ~Named(log, n - 1, x)
          BY <1>1, <1>7, <3>1, <4>1 DEF Led, Named
        <5>2. \A i \in 1 .. Len(list) : list[i].id # x
          BY <1>4, <5>1
        <5>3. ~Done(log, n, x, "delete")
          BY <1>3, <1>7, <5>1 DEF Named, Done
        <5> QED BY <2>2, <2>3, <5>2, <5>3
      <4>2. CASE x # id
        <5>1. Done(log, n, x, "delete") => Done(log, n - 1, x, "delete")
          BY <1>3, <4>2
        <5>2. \A i \in DOMAIN out : out[i].id = x => i \in 1 .. Len(list) /\ out[i] = list[i]
          BY <2>1, <2>2, <2>3, <4>2
        <5> QED BY <1>6, <3>1, <5>1, <5>2
      <4> QED BY <4>1, <4>2
    <3> QED BY <3>1 DEF Single
  <2> QED BY <2>4, <2>5 DEF out
<1>8. CASE e.action # "create"
  <2> DEFINE all == At(list, id)
             p == First(all, id)
  <2>1. /\ out \in Seq(Item) /\ Len(out) = Len(all) /\ DOMAIN out = 1 .. Len(all)
        /\ \A j \in 1 .. Len(all) : j # p => out[j] = all[j]
        /\ out[p].id = all[p].id /\ out[p].mine = all[p].mine
        /\ e.action = "delete" => out[p].deleted = TRUE
        /\ e.action # "delete" => out[p].deleted = all[p].deleted
    BY <1>1, <1>2, <1>8, RunOther
  <2>2. all \in Seq(Item) /\ Len(all) \in Nat /\ p \in 1 .. Len(all)
    BY <1>2, AtIs
  <2>3. all[p].id = id
    <3> HIDE DEF all
    <3> QED BY <2>2, FirstIs
  <2>4. \/ all = list
        \/ all = Append(list, Made(id)) /\ \A i \in 1 .. Len(list) : list[i].id # id
    BY <1>2, AtIs
  <2>5. Made(id).id = id /\ Made(id).mine = FALSE /\ Made(id).deleted = FALSE
    BY <1>2, MadeIs
  <2> HIDE DEF all, p, out
  <2>6. ASSUME NEW i \in 1 .. Len(all)
        PROVE  \/ i \in 1 .. Len(list) /\ all[i] = list[i]
               \/ /\ i = Len(list) + 1 /\ all[i] = Made(id)
                  /\ \A j \in 1 .. Len(list) : list[j].id # id
    BY <1>2, <2>4
  <2>7. \A i \in 1 .. Len(list) : i \in 1 .. Len(all) /\ all[i] = list[i]
    BY <1>2, <2>4
  <2>8. \A i \in 1 .. Len(all) : out[i].id = all[i].id /\ out[i].mine = all[i].mine
    BY <2>1
  <2>9. \A i \in 1 .. Len(all) : out[i].deleted =>
          all[i].deleted \/ (i = p /\ e.action = "delete")
    BY <2>1
  <2>10. Mirrors(out, log, n)
    <3>1. ASSUME NEW i \in 1 .. Len(all)
          PROVE  /\ Named(log, n, out[i].id)
                 /\ out[i].mine => Done(log, n, out[i].id, "create")
                 /\ out[i].deleted => Done(log, n, out[i].id, "delete")
      <4>1. /\ Named(log, n, all[i].id)
            /\ all[i].mine => Done(log, n, all[i].id, "create")
            /\ all[i].deleted => Done(log, n, all[i].id, "delete")
        BY <1>3, <1>4, <2>5, <2>6
      <4> QED BY <1>3, <2>3, <2>8, <2>9, <4>1
    <3>2. ASSUME NEW k \in 1 .. n PROVE \E i \in 1 .. Len(all) : out[i].id = log[k].finding
      <4>1. CASE k = n
        <5>1. out[p].id = log[k].finding
          BY <2>2, <2>3, <2>8, <4>1
        <5> QED BY <2>2, <5>1
      <4>2. CASE k \in 1 .. n - 1
        <5>1. PICK i \in 1 .. Len(list) : list[i].id = log[k].finding
          BY <1>5, <4>2
        <5>2. i \in 1 .. Len(all) /\ out[i].id = log[k].finding
          BY <2>7, <2>8, <5>1
        <5> QED BY <5>2
      <4> QED BY <1>1, <4>1, <4>2
    <3> QED BY <2>1, <3>1, <3>2 DEF Mirrors
  <2>11. Single(out, log, n)
    <3>1. ASSUME NEW x \in Finding, Led(log, x)
          PROVE  /\ \A i, j \in 1 .. Len(all) : out[i].id = x /\ out[j].id = x => i = j
                 /\ Done(log, n, x, "delete") =>
                      \A i \in 1 .. Len(all) : out[i].id = x => out[i].deleted
      <4>1. \A i, j \in 1 .. Len(all) : all[i].id = x /\ all[j].id = x => i = j
        BY <1>6, <2>5, <2>6, <3>1
      <4>2. CASE Done(log, n - 1, x, "delete")
        <5>1. Named(log, n - 1, x)
          BY <4>2 DEF Named, Done
        <5>2. PICK m \in 1 .. Len(list) : list[m].id = x
          BY <1>5, <5>1 DEF Named
        <5>3. ASSUME NEW i \in 1 .. Len(all), all[i].id = x PROVE all[i].deleted
          <6>1. i \in 1 .. Len(list) /\ all[i] = list[i]
            BY <2>5, <2>6, <5>2, <5>3
          <6> QED BY <1>6, <3>1, <4>2, <5>3, <6>1
        <5>4. \A i \in 1 .. Len(all) : all[i].deleted => out[i].deleted
          BY <2>1
        <5> QED BY <2>8, <4>1, <5>3, <5>4
      <4>3. CASE x = id /\ e.action = "delete"
        BY <2>1, <2>2, <2>3, <2>8, <4>1, <4>3
      <4> QED BY <1>3, <2>8, <4>1, <4>2, <4>3
    <3> QED BY <2>1, <3>1 DEF Single
  <2> QED BY <2>10, <2>11 DEF out
<1> QED BY <1>7, <1>8

\* A replay mirrors its log.
LEMMA Mirrored ==
  ASSUME NEW log \in Seq(Event)
  PROVE  Mirrors(Replay(log), log, Len(log)) /\ Single(Replay(log), log, Len(log))
<1> DEFINE R == Runs(log)
           S == {n \in 0 .. Len(log) : Mirrors(R[n], log, n) /\ Single(R[n], log, n)}
<1>1. Len(log) \in Nat
  BY LogTypes
<1>2. R[0] = <<>> /\ \A n \in 1 .. Len(log) : R[n] = Run(R[n - 1], log[n])
  BY <1>1, RunsAt
<1> HIDE DEF R
<1>3. Mirrors(<<>>, log, 0) /\ Single(<<>>, log, 0)
  BY DEF Mirrors, Single, Done
<1>4. 0 \in S
  BY <1>1, <1>2, <1>3
<1>5. ASSUME NEW n \in 1 .. Len(log), n - 1 \in S PROVE n \in S
  <2>1. Mirrors(Run(R[n - 1], log[n]), log, n) /\ Single(Run(R[n - 1], log[n]), log, n)
    BY <1>5, MirrorsStep
  <2>2. n \in 0 .. Len(log)
    OBVIOUS
  <2> QED BY <1>2, <2>1, <2>2
<1>6. Len(log) \in S
  <2> HIDE DEF S
  <2>1. \A n \in 0 .. Len(log) : n \in S
    BY <1>1, <1>4, <1>5, Upto, Zenon
  <2> QED BY <1>1, <2>1
<1> QED BY <1>6, ReplayRuns DEF R

-------------------------------------------------------------------------------
(* The inductive invariant.                                                  *)

All(evs) == UNION {ToSet(evs[d]) : d \in Device}

Created(S, id) == \E c \in S : c.finding = id /\ c.action = "create"

\* Each event of id has its creation at or before it: in a log; in what follows one.
Begun(log, id) ==
  \A k \in DOMAIN log : log[k].finding = id =>
    \E j \in 1 .. k : log[j].finding = id /\ log[j].action = "create"
Following(log, q, id) ==
  \A k \in DOMAIN q : q[k].finding = id =>
    \/ Created(ToSet(log), id)
    \/ \E j \in 1 .. k : q[j].finding = id /\ q[j].action = "create"

\* A set of decisions with one about id has its creation.
Opened(S, id) == (\E e \in S : e.finding = id) => Created(S, id)

\* The clocks put every decision about id after its creation.
After(S, id) ==
  \A c, e \in S : c.finding = id /\ e.finding = id /\ c.action = "create" /\ e # c
                    => c.time < e.time

TypeInv ==
  /\ last \in [Device -> 0 .. MaxTime]
  /\ events \in [Device -> Seq(Event)] /\ items \in [Device -> Seq(Item)]
  /\ queue \in [Device -> Seq(Event)] /\ file \in [Device -> Seq(Event)]
  /\ late \in [Device -> BOOLEAN]

\* The collection is a replay of the log.
Replayed(log, list) == list = Replay(log)

\* A log names nothing twice, and is in key order while nothing came late.
Stamped(log, behind) == Apart(log) /\ (~behind => Sorted(log))

\* Every decision is in the log of its device; only what is the reader's own is
\* created or thrown away.
Kept(evs) == \A e \in All(evs) : e \in ToSet(evs[e.by])
Kinds(S) == \A e \in S : e.action \in {"create", "delete"} => e.finding \in Own

\* What travels came from a log.
Sent(evs, files, queues) ==
  \A d \in Device : /\ ToSet(files[d]) \subseteq ToSet(evs[d])
                    /\ ToSet(queues[d]) \subseteq All(evs)

\* A creation the clocks put first comes first in every log, batch and file.
Led1(evs, files, queues, id) ==
  \A d \in Device : /\ Begun(evs[d], id) /\ Following(evs[d], queues[d], id)
                    /\ Opened(ToSet(files[d]), id)
CreatedFirst(evs, files, queues) ==
  \A id \in Own : After(All(evs), id) => Led1(evs, files, queues, id)

ReplayInv ==
  /\ TypeInv
  /\ \A d \in Device : Replayed(events[d], items[d])
  /\ \A d \in Device : Stamped(events[d], late[d])
  /\ Kept(events) /\ Kinds(All(events)) /\ Sent(events, file, queue)
  /\ CreatedFirst(events, file, queue)

-------------------------------------------------------------------------------
(* A log and one event more.                                                 *)

\* What appending an event gives.
LEMMA AppendIs ==
  ASSUME NEW log \in Seq(Event), NEW e \in Event
  PROVE  /\ Append(log, e) \in Seq(Event)
         /\ DOMAIN log = 1 .. Len(log) /\ Len(log) \in Nat
         /\ DOMAIN Append(log, e) = 1 .. Len(log) + 1
         /\ Len(Append(log, e)) = Len(log) + 1
         /\ Append(log, e)[Len(log) + 1] = e
         /\ \A k \in 1 .. Len(log) : Append(log, e)[k] = log[k]
         /\ \A k \in DOMAIN Append(log, e) : k \in 1 .. Len(log) \/ k = Len(log) + 1
         /\ ToSet(Append(log, e)) = ToSet(log) \cup {e}
<1> DEFINE more == Append(log, e)
<1>1. /\ more \in Seq(Event)
      /\ DOMAIN log = 1 .. Len(log) /\ Len(log) \in Nat
      /\ DOMAIN more = 1 .. Len(log) + 1 /\ Len(more) = Len(log) + 1
      /\ more[Len(log) + 1] = e
      /\ \A k \in 1 .. Len(log) : more[k] = log[k]
  OBVIOUS
<1> HIDE DEF more
<1>2. \A k : k \in DOMAIN more <=> k \in 1 .. Len(log) \/ k = Len(log) + 1
  BY <1>1
<1>3. ToSet(more) = ToSet(log) \cup {e}
  BY <1>1, <1>2 DEF ToSet
<1> QED BY <1>1, <1>2, <1>3 DEF more

\* A log stays without repeats when what is appended is not known.
LEMMA AppendApart ==
  ASSUME NEW log \in Seq(Event), NEW e \in Event, Apart(log), ~Knows(log, e)
  PROVE  Apart(Append(log, e))
<1>1. \A k \in 1 .. Len(log) : Key(log[k]) # Key(e)
  BY AppendIs DEF Knows
<1>2. \A i, j \in 1 .. Len(log) : Key(log[i]) = Key(log[j]) => i = j
  BY AppendIs DEF Apart
<1> QED BY <1>1, <1>2, AppendIs DEF Apart

\* A log stays in key order when what is appended comes after all of it.
LEMMA AppendSorted ==
  ASSUME NEW log \in Seq(Event), NEW e \in Event, Sorted(log),
         \A f \in ToSet(log) : KeyBefore(f, e)
  PROVE  Sorted(Append(log, e))
<1>1. \A k \in 1 .. Len(log) : KeyBefore(log[k], e)
  BY AppendIs DEF ToSet
<1>2. \A i, j \in 1 .. Len(log) : i < j => KeyBefore(log[i], log[j])
  BY AppendIs DEF Sorted
<1>3. Len(log) \in Nat
  BY AppendIs
<1> QED BY <1>1, <1>2, <1>3, AppendIs DEF Sorted

\* A log goes on beginning with a creation when what is appended is one or comes after one.
LEMMA AppendBegun ==
  ASSUME NEW log \in Seq(Event), NEW e \in Event, NEW id, Begun(log, id),
         e.finding = id => e.action = "create" \/ Created(ToSet(log), id)
  PROVE  Begun(Append(log, e), id)
<1> DEFINE more == Append(log, e)
<1>1. Len(log) \in Nat /\ DOMAIN log = 1 .. Len(log)
      /\ more[Len(log) + 1] = e /\ (\A k \in 1 .. Len(log) : more[k] = log[k])
      /\ (\A k \in DOMAIN more : k \in 1 .. Len(log) \/ k = Len(log) + 1)
  BY AppendIs
<1> HIDE DEF more
<1>2. ASSUME NEW k \in DOMAIN more, more[k].finding = id
      PROVE  \E j \in 1 .. k : more[j].finding = id /\ more[j].action = "create"
  <2>1. CASE k \in 1 .. Len(log)
    <3>1. PICK j \in 1 .. k : log[j].finding = id /\ log[j].action = "create"
      BY <1>1, <1>2, <2>1 DEF Begun
    <3>2. more[j] = log[j]
      BY <1>1, <2>1
    <3> QED BY <3>1, <3>2
  <2>2. CASE k = Len(log) + 1
    <3>1. CASE e.action = "create"
      <4>1. k \in 1 .. k /\ more[k] = e
        BY <1>1, <2>2
      <4> QED BY <1>2, <3>1, <4>1
    <3>2. CASE Created(ToSet(log), id)
      <4>1. PICK j \in 1 .. Len(log) : log[j].finding = id /\ log[j].action = "create"
        BY <1>1, <3>2 DEF Created, ToSet
      <4>2. more[j] = log[j] /\ j \in 1 .. k
        BY <1>1, <2>2
      <4> QED BY <4>1, <4>2
    <3> QED BY <1>1, <1>2, <2>2, <3>1, <3>2
  <2> QED BY <1>1, <2>1, <2>2
<1> QED BY <1>2 DEF Begun, more

\* A log whose creations come at or before their events leads with them.
LEMMA BegunLeads ==
  ASSUME NEW log \in Seq(Event), Apart(log), NEW S, ToSet(log) \subseteq S, NEW id,
         After(S, id), Begun(log, id)
  PROVE  Led(log, id)
<1>1. DOMAIN log = 1 .. Len(log) /\ Len(log) \in Nat
      /\ \A k \in 1 .. Len(log) : log[k] \in S /\ log[k].time \in Nat
  BY LogTypes DEF ToSet
<1>2. ASSUME NEW k \in DOMAIN log, log[k].finding = id, log[k].action = "create",
             NEW j \in DOMAIN log, j < k, log[j].finding = id
      PROVE  FALSE
  <2>1. PICK i \in 1 .. j : log[i].finding = id /\ log[i].action = "create"
    BY <1>2 DEF Begun
  <2>2. i \in 1 .. Len(log) /\ k \in 1 .. Len(log) /\ i # k
    BY <1>1, <1>2
  <2>3. log[i] # log[k]
    BY <1>1, <2>2 DEF Apart
  <2>4. log[i].time < log[k].time /\ log[k].time < log[i].time
    BY <1>1, <1>2, <2>1, <2>2, <2>3 DEF After
  <2> QED BY <1>1, <2>2, <2>4
<1> QED BY <1>2 DEF Led

\* Sorted by time, a log that has the creation of id has it before the others.
LEMMA InTimeBegun ==
  ASSUME NEW log \in Seq(Event), InTime(log), NEW S, ToSet(log) \subseteq S, NEW id,
         After(S, id), Opened(ToSet(log), id)
  PROVE  Begun(log, id)
<1>1. DOMAIN log = 1 .. Len(log) /\ Len(log) \in Nat
      /\ \A k \in 1 .. Len(log) : log[k] \in S /\ log[k].time \in Nat
  BY LogTypes DEF ToSet
<1>2. ASSUME NEW k \in DOMAIN log, log[k].finding = id
      PROVE  \E j \in 1 .. k : log[j].finding = id /\ log[j].action = "create"
  <2>1. log[k] \in ToSet(log)
    BY DEF ToSet
  <2>2. PICK c \in ToSet(log) : c.finding = id /\ c.action = "create"
    BY <1>2, <2>1 DEF Opened, Created
  <2>3. PICK j \in 1 .. Len(log) : log[j] = c
    BY <1>1, <2>2 DEF ToSet
  <2>4. CASE j <= k
    BY <2>2, <2>3, <2>4
  <2>5. CASE k < j
    <3>1. log[k].time <= log[j].time
      BY <1>1, <2>5 DEF InTime
    <3>2. log[k] = log[j]
      BY <1>1, <1>2, <2>2, <2>3, <3>1 DEF After
    <3>3. k \in 1 .. k
      BY <1>1
    <3> QED BY <1>2, <2>2, <2>3, <3>2, <3>3
  <2> QED BY <1>1, <2>4, <2>5
<1> QED BY <1>2 DEF Begun

\* A log that has every event after its creation has them so when it is rebuilt.
LEMMA RestoredBegun ==
  ASSUME NEW log \in Seq(Event), Apart(log), NEW S, ToSet(log) \subseteq S, NEW id,
         After(S, id), Begun(log, id)
  PROVE  Begun(Restored(log), id)
<1>1. /\ Restored(log) \in Seq(Event) /\ ToSet(Restored(log)) = ToSet(log)
      /\ InTime(Restored(log))
  BY RestoredOrdered
<1>2. DOMAIN log = 1 .. Len(log) /\ Len(log) \in Nat
  BY LogTypes
<1>3. ASSUME NEW e \in ToSet(log), e.finding = id PROVE Created(ToSet(log), id)
  <2>1. PICK k \in DOMAIN log : log[k] = e
    BY DEF ToSet
  <2>2. PICK j \in 1 .. k : log[j].finding = id /\ log[j].action = "create"
    BY <1>3, <2>1 DEF Begun
  <2>3. j \in DOMAIN log
    BY <1>2
  <2> QED BY <2>2, <2>3 DEF Created, ToSet
<1>4. Opened(ToSet(Restored(log)), id)
  BY <1>1, <1>3 DEF Opened
<1> QED BY <1>1, <1>4, InTimeBegun

-------------------------------------------------------------------------------
(* A step changes what one device holds.                                     *)

\* Fewer decisions are stamped after their creation too.
LEMMA AfterShrinks ==
  ASSUME NEW S, NEW U, S \subseteq U, NEW id, After(U, id)
  PROVE  After(S, id)
BY DEF After

\* When one log grows, all logs together grow by it.
LEMMA LogGrows ==
  ASSUME NEW evs \in [Device -> Seq(Event)], NEW d \in Device, NEW log \in Seq(Event),
         ToSet(evs[d]) \subseteq ToSet(log),
         NEW evs2, evs2 = [evs EXCEPT ![d] = log]
  PROVE  /\ All(evs2) = All(evs) \cup ToSet(log)
         /\ \A q \in Device : ToSet(evs[q]) \subseteq ToSet(evs2[q])
<1>1. \A q \in Device : ToSet(evs2[q]) = IF q = d THEN ToSet(log) ELSE ToSet(evs[q])
  OBVIOUS
<1>2. \A e : e \in All(evs) <=> \E q \in Device : e \in ToSet(evs[q])
  BY DEF All
<1>3. \A e : e \in All(evs2) <=> \E q \in Device : e \in ToSet(evs2[q])
  BY DEF All
<1>4. All(evs2) = All(evs) \cup ToSet(log)
  BY <1>1, <1>2, <1>3
<1> QED BY <1>1, <1>4

\* Where creations came first in a log and what follows it, they do in the next.
StillFirst(S, log, q, log2, q2) ==
  \A id \in Own : After(S, id) /\ Begun(log, id) /\ Following(log, q, id)
                   => Begun(log2, id) /\ Following(log2, q2, id)

\* A step that changes what one device holds keeps the invariant, when the log only
\* grows, by own events or events of some log.
LEMMA ChangeKeeps ==
  ASSUME ReplayInv, NEW d \in Device,
         NEW log \in Seq(Event), ToSet(events[d]) \subseteq ToSet(log),
         \A e \in ToSet(log) : e.by = d \/ e \in All(events), Kinds(ToSet(log)),
         NEW mine \in 0 .. MaxTime, NEW behind \in BOOLEAN,
         NEW q \in Seq(Event), ToSet(q) \subseteq All(events),
         events' = [events EXCEPT ![d] = log], items' = [items EXCEPT ![d] = Replay(log)],
         last' = [last EXCEPT ![d] = mine],
         late' = [late EXCEPT ![d] = behind], queue' = [queue EXCEPT ![d] = q],
         file' = file,
         Stamped(log, behind),
         StillFirst(All(events) \cup ToSet(log), events[d], queue[d], log, q)
  PROVE  ReplayInv'
<1>1. TypeInv
  BY DEF ReplayInv
<1>2. Replay(log) \in Seq(Item)
  BY Mirrored DEF Mirrors
<1>3. TypeInv'
  BY <1>1, <1>2 DEF TypeInv
<1>4. /\ All(events') = All(events) \cup ToSet(log)
      /\ \A p \in Device : ToSet(events[p]) \subseteq ToSet(events'[p])
  <2>1. events \in [Device -> Seq(Event)]
    BY <1>1 DEF TypeInv
  <2>2. events' = [events EXCEPT ![d] = log] /\ ToSet(events[d]) \subseteq ToSet(log)
    OBVIOUS
  <2>3. /\ All(events') = All(events) \cup ToSet(log)
        /\ \A p \in Device : ToSet(events[p]) \subseteq ToSet(events'[p])
    BY <2>1, <2>2, LogGrows
  <2> QED BY <2>3
<1>5. \A p \in Device \ {d} : /\ events'[p] = events[p] /\ items'[p] = items[p]
                              /\ last'[p] = last[p]
                              /\ late'[p] = late[p] /\ queue'[p] = queue[p]
  BY <1>1 DEF TypeInv
<1>6. /\ events'[d] = log /\ items'[d] = Replay(log)
      /\ last'[d] = mine /\ late'[d] = behind /\ queue'[d] = q
  BY <1>1 DEF TypeInv
<1>7. \A p \in Device : Replayed(events'[p], items'[p])
  BY <1>5, <1>6 DEF ReplayInv, Replayed
<1>8. \A p \in Device : Stamped(events'[p], late'[p])
  BY <1>5, <1>6 DEF ReplayInv
<1>9. Kept(events')
  <2>1. ASSUME NEW e \in All(events') PROVE e \in ToSet(events'[e.by])
    <3>1. CASE e \in All(events)
      <4>1. e \in ToSet(events[e.by])
        BY <3>1 DEF ReplayInv, Kept
      <4>2. e.by \in Device
        <5>1. PICK p \in Device : e \in ToSet(events[p])
          BY <3>1 DEF All
        <5>2. e \in Event
          BY <1>1, <5>1, LogTypes DEF TypeInv
        <5> QED BY <5>2, EventTypes
      <4> QED BY <1>4, <4>1, <4>2
    <3>2. CASE e \in ToSet(log) /\ e.by = d
      BY <1>6, <3>2
    <3> QED BY <1>4, <2>1, <3>1, <3>2
  <2> QED BY <2>1 DEF Kept
<1>10. Kinds(All(events'))
  BY <1>4 DEF ReplayInv, Kinds
<1>11. Sent(events', file', queue')
  <2>1. Sent(events, file, queue)
    BY DEF ReplayInv
  <2>2. ASSUME NEW p \in Device
        PROVE  ToSet(file'[p]) \subseteq ToSet(events'[p]) /\ ToSet(queue'[p]) \subseteq All(events')
    <3>1. ToSet(file[p]) \subseteq ToSet(events'[p])
      BY <1>4, <2>1 DEF Sent
    <3>2. ToSet(queue'[p]) \subseteq All(events)
      BY <1>5, <1>6, <2>1 DEF Sent
    <3> QED BY <1>4, <3>1, <3>2
  <2> QED BY <2>2 DEF Sent
<1>12. CreatedFirst(events', file', queue')
  <2>1. ASSUME NEW id \in Own, After(All(events'), id) PROVE Led1(events', file', queue', id)
    <3>1. After(All(events), id)
      BY <1>4, <2>1, AfterShrinks
    <3>2. Led1(events, file, queue, id)
      BY <3>1 DEF ReplayInv, CreatedFirst
    <3>3. Begun(log, id) /\ Following(log, q, id)
      BY <1>4, <2>1, <3>2 DEF Led1, StillFirst
    <3> QED BY <1>5, <1>6, <3>2, <3>3 DEF Led1
  <2> QED BY <2>1 DEF CreatedFirst
<1> QED BY <1>3, <1>7, <1>8, <1>9, <1>10, <1>11, <1>12 DEF ReplayInv

-------------------------------------------------------------------------------
(* Applying an event.                                                        *)

Taken(log, e) == IF Knows(log, e) THEN log ELSE Append(log, e)

\* A key that is known is of the same finding and action.
LEMMA KnowsSame ==
  ASSUME NEW log \in Seq(Event), NEW e, Knows(log, e)
  PROVE  \E f \in ToSet(log) : f.finding = e.finding /\ f.action = e.action
<1>1. PICK i \in DOMAIN log : Key(log[i]) = Key(e)
  BY DEF Knows
<1>2. log[i].finding = e.finding /\ log[i].action = e.action
  BY <1>1 DEF Key
<1> QED BY <1>2 DEF ToSet

\* What taking an event in gives.
LEMMA TakenIs ==
  ASSUME NEW log \in Seq(Event), NEW e \in Event
  PROVE  /\ Taken(log, e) \in Seq(Event)
         /\ ToSet(log) \subseteq ToSet(Taken(log, e))
         /\ \A f \in ToSet(Taken(log, e)) : f \in ToSet(log) \/ f = e
         /\ Knows(log, e) \/ e \in ToSet(Taken(log, e))
         /\ Apart(log) => Apart(Taken(log, e))
         /\ Sorted(log) /\ (Knows(log, e) \/ \A f \in ToSet(log) : KeyBefore(f, e))
              => Sorted(Taken(log, e))
<1>1. CASE Knows(log, e)
  BY <1>1 DEF Taken
<1>2. CASE ~Knows(log, e)
  <2>1. Taken(log, e) = Append(log, e)
    BY <1>2 DEF Taken
  <2>2. Append(log, e) \in Seq(Event) /\ ToSet(Append(log, e)) = ToSet(log) \cup {e}
    BY AppendIs
  <2>3. Apart(log) => Apart(Append(log, e))
    BY <1>2, AppendApart
  <2>4. Sorted(log) /\ (\A f \in ToSet(log) : KeyBefore(f, e)) => Sorted(Append(log, e))
    BY AppendSorted
  <2> QED BY <1>2, <2>1, <2>2, <2>3, <2>4
<1> QED BY <1>1, <1>2

\* A log goes on beginning with a creation when what is taken is one or comes after one.
LEMMA TakenBegun ==
  ASSUME NEW log \in Seq(Event), NEW e \in Event, NEW id, Begun(log, id),
         e.finding = id => e.action = "create" \/ Created(ToSet(log), id)
  PROVE  Begun(Taken(log, e), id)
BY AppendBegun DEF Taken

\* What follows a log follows one that holds more.
LEMMA MoreFollows ==
  ASSUME NEW log, NEW more, ToSet(log) \subseteq ToSet(more), NEW q, NEW id,
         Following(log, q, id)
  PROVE  Following(more, q, id)
BY DEF Following, Created

\* The head and the tail of a batch.
LEMMA TailIs ==
  ASSUME NEW T, NEW q \in Seq(T), q # <<>>
  PROVE  /\ q[1] \in T /\ q[1] \in ToSet(q) /\ Tail(q) \in Seq(T)
         /\ ToSet(Tail(q)) \subseteq ToSet(q)
         /\ \A k \in DOMAIN Tail(q) : k \in Nat /\ k >= 1 /\ k + 1 \in DOMAIN q /\ Tail(q)[k] = q[k + 1]
<1> DEFINE r == Tail(q)
<1>1. Len(q) \in Nat /\ Len(q) >= 1 /\ DOMAIN q = 1 .. Len(q) /\ \A k \in 1 .. Len(q) : q[k] \in T
  OBVIOUS
<1>2. r \in Seq(T) /\ Len(r) = Len(q) - 1 /\ DOMAIN r = 1 .. Len(q) - 1
      /\ \A k \in 1 .. Len(q) - 1 : r[k] = q[k + 1]
  OBVIOUS
<1> HIDE DEF r
<1>3. \A k \in DOMAIN r : k \in Nat /\ k >= 1 /\ k + 1 \in DOMAIN q /\ r[k] = q[k + 1]
  BY <1>1, <1>2
<1>4. ToSet(r) \subseteq ToSet(q)
  BY <1>3 DEF ToSet
<1>5. q[1] \in T /\ q[1] \in ToSet(q)
  BY <1>1 DEF ToSet
<1> QED BY <1>2, <1>3, <1>4, <1>5 DEF r

\* When a batch's head is taken, its tail follows the log.
LEMMA TailFollows ==
  ASSUME NEW log \in Seq(Event), NEW q \in Seq(Event), q # <<>>, NEW id, Following(log, q, id)
  PROVE  /\ Following(Taken(log, q[1]), Tail(q), id)
         /\ Begun(log, id) => Begun(Taken(log, q[1]), id)
<1> DEFINE e == q[1]
           r == Tail(q)
           more == Taken(log, e)
<1>1. /\ e \in Event /\ r \in Seq(Event) /\ 1 \in DOMAIN q
      /\ \A k \in DOMAIN r : k \in Nat /\ k >= 1 /\ k + 1 \in DOMAIN q /\ r[k] = q[k + 1]
  BY TailIs
<1>2. ToSet(log) \subseteq ToSet(more) /\ (Knows(log, e) \/ e \in ToSet(more))
  BY <1>1, TakenIs
<1>3. e.finding = id => e.action = "create" \/ Created(ToSet(log), id)
  BY <1>1 DEF Following
<1>4. e.finding = id /\ e.action = "create" => Created(ToSet(more), id)
  BY <1>1, <1>2, KnowsSame DEF Created
<1>5. Created(ToSet(log), id) => Created(ToSet(more), id)
  BY <1>2 DEF Created
<1>6. Begun(log, id) => Begun(more, id)
  BY <1>1, <1>3, TakenBegun
<1> HIDE DEF more, r
<1>7. ASSUME NEW k \in DOMAIN r, r[k].finding = id
      PROVE  \/ Created(ToSet(more), id)
             \/ \E j \in 1 .. k : r[j].finding = id /\ r[j].action = "create"
  <2>1. k \in Nat /\ k >= 1 /\ k + 1 \in DOMAIN q /\ q[k + 1].finding = id
    BY <1>1, <1>7
  <2>2. \/ Created(ToSet(log), id)
        \/ \E j \in 1 .. k + 1 : q[j].finding = id /\ q[j].action = "create"
    BY <2>1 DEF Following
  <2>3. ASSUME NEW j \in 1 .. k + 1, q[j].finding = id, q[j].action = "create", j # 1
        PROVE  \E i \in 1 .. k : r[i].finding = id /\ r[i].action = "create"
    <3>1. j - 1 \in 1 .. k /\ (j - 1) + 1 = j
      BY <2>1, <2>3
    <3>2. j - 1 \in DOMAIN r
      <4>1. DOMAIN r = 1 .. Len(r) /\ Len(r) \in Nat
        BY <1>1
      <4> QED BY <2>1, <3>1, <4>1
    <3>3. r[j - 1] = q[j]
      BY <1>1, <3>1, <3>2
    <3> QED BY <2>3, <3>1, <3>3
  <2> QED BY <1>4, <1>5, <2>2, <2>3
<1> QED BY <1>6, <1>7 DEF Following, more, r

\* What is applied is replayed, and comes late unless the log stays in key order.
LEMMA Applied ==
  ASSUME TypeInv, NEW d \in Device, Replayed(events[d], items[d]),
         Stamped(events[d], late[d]), NEW e \in Event, Apply(d, e)
  PROVE  /\ events' = [events EXCEPT ![d] = Taken(events[d], e)]
         /\ items' = [items EXCEPT ![d] = Replay(Taken(events[d], e))]
         /\ \E behind \in BOOLEAN : /\ late' = [late EXCEPT ![d] = behind]
                                   /\ Stamped(Taken(events[d], e), behind)
<1>1. events[d] \in Seq(Event) /\ events \in [Device -> Seq(Event)] /\ items \in [Device -> Seq(Item)]
      /\ late \in [Device -> BOOLEAN]
  BY DEF TypeInv
<1>2. items[d] = Replay(events[d])
  BY DEF Replayed
<1>3. CASE Knows(events[d], e)
  <2>1. events' = events /\ items' = items /\ late' = late /\ Taken(events[d], e) = events[d]
    BY <1>3 DEF Apply, Taken
  <2>2. late[d] \in BOOLEAN /\ late' = [late EXCEPT ![d] = late[d]]
    BY <1>1, <2>1
  <2> QED BY <1>1, <1>2, <2>1, <2>2
<1>4. CASE ~Knows(events[d], e)
  <2>1. Taken(events[d], e) = Append(events[d], e)
    BY <1>4 DEF Taken
  <2>2. Replay(Append(events[d], e)) = Run(items[d], e)
    BY <1>1, <1>2, ReplayAppend
  <2>3. events' = [events EXCEPT ![d] = Append(events[d], e)]
        /\ items' = [items EXCEPT ![d] = Run(items[d], e)]
    BY <1>4 DEF Apply
  <2>4. PICK behind \in BOOLEAN : behind = (late[d] \/ Behind(d, e))
    OBVIOUS
  <2>5. late' = [late EXCEPT ![d] = behind]
    BY <1>4, <2>4 DEF Apply
  <2>6. Apart(Append(events[d], e))
    BY <1>1, <1>4, AppendApart DEF Stamped
  <2>7. ASSUME ~behind PROVE Sorted(Append(events[d], e))
    <3>1. Sorted(events[d]) /\ \A f \in ToSet(events[d]) : KeyBefore(f, e)
      BY <2>4, <2>7 DEF Stamped, Behind
    <3> QED BY <1>1, <3>1, AppendSorted
  <2> QED BY <2>1, <2>2, <2>3, <2>5, <2>6, <2>7 DEF Stamped
<1> QED BY <1>3, <1>4

-------------------------------------------------------------------------------
(* Each action keeps the invariant.                                          *)

\* It holds at first.
LEMMA InitKeeps ==
  ASSUME Init
  PROVE  ReplayInv
<1>1. <<>> \in Seq(Event) /\ <<>> \in Seq(Item) /\ ToSet(<<>>) = {} /\ Len(<<>>) = 0
      /\ DOMAIN <<>> = 1 .. 0
  BY DEF ToSet
<1>2. TypeInv
  BY <1>1, BoundAssumption DEF Init, TypeInv
<1>3. Replay(<<>>) = <<>>
  <2>1. Runs(<<>>)[0] = <<>>
    BY <1>1, RunsAt
  <2> QED BY <1>1, <2>1, ReplayRuns
<1>4. \A d \in Device : /\ events[d] = <<>> /\ items[d] = <<>> /\ queue[d] = <<>> /\ file[d] = <<>>
  BY DEF Init
<1>5. All(events) = {}
  BY <1>1, <1>4 DEF All
<1>6. \A d \in Device : Replayed(events[d], items[d])
  BY <1>3, <1>4 DEF Replayed
<1>7. \A d \in Device : Stamped(events[d], late[d])
  BY <1>1, <1>4 DEF Stamped, Apart, Sorted
<1>8. Kept(events) /\ Kinds(All(events))
  BY <1>5 DEF Kept, Kinds
<1>9. Sent(events, file, queue)
  BY <1>1, <1>4 DEF Sent
<1>10. CreatedFirst(events, file, queue)
  BY <1>1, <1>4 DEF CreatedFirst, Led1, Begun, Following, Opened
<1> QED BY <1>2, <1>6, <1>7, <1>8, <1>9, <1>10 DEF ReplayInv

\* An own event comes after every own event since the device was opened.
LEMMA OwnTimes ==
  ASSUME ReplayInv, NEW d \in Device, NEW now \in 1 .. MaxTime
  PROVE  /\ NextLocalTime(d, now) \in Nat /\ NextLocalTime(d, now) >= 1
         /\ NextLocalTime(d, now) > last[d] /\ last[d] \in Nat
         /\ events[d] \in Seq(Event) /\ queue[d] \in Seq(Event) /\ late[d] \in BOOLEAN
         /\ Stamped(events[d], late[d])
<1>1. last[d] \in 0 .. MaxTime /\ MaxTime \in Nat
      /\ events[d] \in Seq(Event) /\ queue[d] \in Seq(Event) /\ late[d] \in BOOLEAN
  BY BoundAssumption DEF ReplayInv, TypeInv
<1>2. NextLocalTime(d, now) = IF now >= last[d] + 1 THEN now ELSE last[d] + 1
  BY DEF NextLocalTime, MaxNat
<1>3. Stamped(events[d], late[d])
  BY DEF ReplayInv
<1> QED BY <1>1, <1>2, <1>3

\* A decision taken here keeps the invariant.
LEMMA LocalKeeps ==
  ASSUME ReplayInv, NEW d \in Device, NEW log \in Seq(Event),
         NEW mine \in 0 .. MaxTime, NEW behind \in BOOLEAN,
         ToSet(events[d]) \subseteq ToSet(log), Kinds(ToSet(log)),
         \A e \in ToSet(log) : e \in ToSet(events[d]) \/ e.by = d,
         events' = [events EXCEPT ![d] = log], items' = [items EXCEPT ![d] = Replay(log)],
         last' = [last EXCEPT ![d] = mine],
         late' = [late EXCEPT ![d] = behind], UNCHANGED <<queue, file>>,
         Stamped(log, behind),
         \A id \in Own : Begun(events[d], id) => Begun(log, id)
  PROVE  ReplayInv'
<1>0. PICK q \in Seq(Event) : q = queue[d]
  BY DEF ReplayInv, TypeInv
<1>1. queue' = [queue EXCEPT ![d] = q] /\ file' = file
  BY <1>0 DEF ReplayInv, TypeInv
<1>2. ToSet(q) \subseteq All(events)
  BY <1>0 DEF ReplayInv, Sent
<1>5. \A id \in Own : Following(events[d], queue[d], id) => Following(log, q, id)
  BY <1>0, MoreFollows
<1>6. \A e \in ToSet(log) : e.by = d \/ e \in All(events)
  BY DEF All
<1>7. StillFirst(All(events) \cup ToSet(log), events[d], queue[d], log, q)
  BY <1>5 DEF StillFirst
<1> QED
  <2>1. /\ ReplayInv /\ d \in Device /\ log \in Seq(Event)
        /\ ToSet(events[d]) \subseteq ToSet(log)
    OBVIOUS
  <2>2. Kinds(ToSet(log)) /\ \A e \in ToSet(log) : e.by = d \/ e \in All(events)
    BY <1>6
  <2>3. mine \in 0 .. MaxTime /\ behind \in BOOLEAN /\ q \in Seq(Event)
    BY <1>0
  <2>4. /\ ToSet(q) \subseteq All(events)
        /\ events' = [events EXCEPT ![d] = log] /\ items' = [items EXCEPT ![d] = Replay(log)]
    BY <1>2
  <2>5. /\ last' = [last EXCEPT ![d] = mine]
        /\ late' = [late EXCEPT ![d] = behind] /\ queue' = [queue EXCEPT ![d] = q]
        /\ file' = file
    BY <1>1
  <2>6. /\ Stamped(log, behind)
        /\ StillFirst(All(events) \cup ToSet(log), events[d], queue[d], log, q)
    BY <1>7
  <2> QED BY ONLY <2>1, <2>2, <2>3, <2>4, <2>5, <2>6, ChangeKeeps

\* A comment that is shown was created.
LEMMA ShownCreated ==
  ASSUME ReplayInv, NEW d \in Device, NEW id, NEW i \in Comments(items[d], id)
  PROVE  Created(ToSet(events[d]), id)
<1>1. events[d] \in Seq(Event) /\ items[d] = Replay(events[d])
  BY DEF ReplayInv, TypeInv, Replayed
<1>2. Mirrors(items[d], events[d], Len(events[d]))
  BY <1>1, Mirrored
<1>3. i \in DOMAIN items[d] /\ items[d][i].id = id /\ items[d][i].mine
  BY DEF Comments, Live
<1>4. Done(events[d], Len(events[d]), id, "create")
  BY <1>2, <1>3 DEF Mirrors
<1>5. PICK k \in 1 .. Len(events[d]) : /\ events[d][k].finding = id
                                       /\ events[d][k].action = "create"
  BY <1>4 DEF Done
<1>6. events[d][k] \in ToSet(events[d])
  BY <1>1, LogTypes DEF ToSet
<1> QED BY <1>5, <1>6 DEF Created

\* What is offered is not a creation; of the agent's findings, nothing is thrown away.
LEMMA OfferedIs ==
  ASSUME ReplayInv, NEW d \in Device, NEW id \in Finding, NEW action, Offered(d, id, action)
  PROVE  /\ action # "create"
         /\ action = "delete" => id \in Own
         /\ id \in Own => Created(ToSet(events[d]), id)
         /\ id \in Agents => action \in {"include", "exclude"}
<1>1. CASE id \in Agents
  <2>1. action \in {"include", "exclude"} /\ id \notin Own
    BY <1>1, FindingAssumption DEF Offered
  <2> QED BY <2>1
<1>2. CASE id \notin Agents
  <2>1. id \in Own
    BY <1>2 DEF Finding
  <2>2. PICK i \in Comments(items[d], id) : action \in {"delete", "include", "exclude"}
    BY <1>2 DEF Offered
  <2>3. Created(ToSet(events[d]), id)
    BY ShownCreated
  <2> QED BY <1>2, <2>1, <2>2, <2>3
<1> QED BY <1>1, <1>2

\* What a stamped event says.
LEMMA StampIs ==
  ASSUME NEW d \in Device, NEW id \in Finding, NEW action \in Action, NEW now,
         NextLocalTime(d, now) \in 1 .. MaxTime
  PROVE  /\ Stamp(d, id, action, now) \in Event
         /\ Stamp(d, id, action, now).time = NextLocalTime(d, now)
         /\ Stamp(d, id, action, now).finding = id /\ Stamp(d, id, action, now).action = action
         /\ Stamp(d, id, action, now).by = d
BY DEF Stamp, Event

\* A decision on what is shown keeps it.
LEMMA TrackKeeps ==
  ASSUME ReplayInv, NEW d \in Device, NEW id \in Finding, NEW now \in 1 .. MaxTime,
         NEW action \in Action, Track(d, id, action, now)
  PROVE  ReplayInv'
<1>1. TypeInv /\ Replayed(events[d], items[d]) /\ MaxTime \in Nat
  BY BoundAssumption DEF ReplayInv
<1>2. PICK t \in Nat : t = NextLocalTime(d, now)
  BY OwnTimes
<1>3. t >= 1 /\ t <= MaxTime
  BY <1>2, OwnTimes DEF Track, Stamp
<1>4. PICK e \in Event : /\ e = Stamp(d, id, action, now) /\ e.time = t /\ e.finding = id
                         /\ e.action = action /\ e.by = d
  BY <1>1, <1>2, <1>3, StampIs
<1>5. PICK log \in Seq(Event) : log = Taken(events[d], e)
  BY OwnTimes, TakenIs
<1>6. PICK behind \in BOOLEAN :
        /\ events' = [events EXCEPT ![d] = log] /\ items' = [items EXCEPT ![d] = Replay(log)]
        /\ late' = [late EXCEPT ![d] = behind] /\ Stamped(log, behind)
  <2>1. Apply(d, e)
    BY <1>4 DEF Track
  <2> QED BY <1>1, <1>5, <2>1, OwnTimes, Applied
<1>8. last' = [last EXCEPT ![d] = t] /\ UNCHANGED <<queue, file>>
  BY <1>4 DEF Track
<1>9. Kinds(ToSet(events[d]))
  BY DEF ReplayInv, Kinds, All
<1>10. /\ ToSet(events[d]) \subseteq ToSet(log)
       /\ \A f \in ToSet(log) : f \in ToSet(events[d]) \/ f = e
  BY <1>5, OwnTimes, TakenIs
<1>12. /\ e.action # "create" /\ (e.action = "delete" => e.finding \in Own)
       /\ e.finding \in Own => Created(ToSet(events[d]), e.finding)
  BY <1>4, OfferedIs DEF Track
<1>13. Kinds(ToSet(log))
  BY <1>9, <1>10, <1>12 DEF Kinds
<1>14. \A x \in Own : Begun(events[d], x) => Begun(log, x)
  BY <1>5, <1>12, OwnTimes, TakenBegun
<1>15. t \in 0 .. MaxTime /\ \A f \in ToSet(log) : f \in ToSet(events[d]) \/ f.by = d
  BY <1>1, <1>3, <1>4, <1>10
<1> QED BY <1>6, <1>8, <1>10, <1>13, <1>14, <1>15, LocalKeeps

\* A comment of the reader's own keeps it.
LEMMA AddFindingKeeps ==
  ASSUME ReplayInv, NEW d \in Device, NEW id \in Finding, NEW now \in 1 .. MaxTime,
         AddFinding(d, id, now)
  PROVE  ReplayInv'
<1>1. TypeInv /\ Replayed(events[d], items[d]) /\ MaxTime \in Nat /\ id \in Own
  BY BoundAssumption DEF ReplayInv, AddFinding
<1>2. PICK t \in Nat : t = NextLocalTime(d, now)
  BY OwnTimes
<1>3. t >= 1 /\ t + 1 <= MaxTime
  BY <1>2, OwnTimes DEF AddFinding, Stamp
<1>4. PICK made \in Event : /\ made = Stamp(d, id, "create", now) /\ made.time = t
                            /\ made.finding = id /\ made.action = "create" /\ made.by = d
  <2>1. t \in 1 .. MaxTime /\ "create" \in Action
    BY <1>1, <1>3 DEF Action
  <2> QED BY <1>2, <2>1, StampIs
<1>5. PICK into \in Event : /\ into = [Stamp(d, id, "include", now) EXCEPT !.time = @ + 1]
                            /\ into.time = t + 1 /\ into.finding = id
                            /\ into.action = "include" /\ into.by = d
  <2>1. t + 1 \in 1 .. MaxTime /\ "include" \in Action
    BY <1>1, <1>3 DEF Action
  <2>2. PICK e \in Event : /\ e = Stamp(d, id, "include", now) /\ e.time = t
                           /\ e.finding = id /\ e.action = "include" /\ e.by = d
    <3>1. t \in 1 .. MaxTime
      BY <1>1, <1>3
    <3> QED BY <1>2, <2>1, <3>1, StampIs
  <2> DEFINE rec == [e EXCEPT !.time = t + 1]
  <2>3. rec \in Event /\ rec.time = t + 1 /\ rec.finding = id /\ rec.action = "include" /\ rec.by = d
    BY <2>1, <2>2 DEF Event
  <2>4. rec = [Stamp(d, id, "include", now) EXCEPT !.time = @ + 1]
    BY <2>2
  <2> HIDE DEF rec
  <2> QED BY <2>3, <2>4
<1>6. PICK old \in Seq(Event) : old = events[d]
  BY OwnTimes
<1>7. PICK some \in Seq(Event) : some = Append(old, made)
  BY AppendIs
<1>8. PICK log \in Seq(Event) : log = Append(some, into)
  BY AppendIs
<1>9. events' = [events EXCEPT ![d] = log] /\ items' = [items EXCEPT ![d] = Replay(log)]
  <2>1. items[d] = Replay(old)
    BY <1>1, <1>6 DEF Replayed
  <2>2. Replay(log) = Run(Run(items[d], made), into)
    BY <1>7, <1>8, <2>1, ReplayAppend
  <2>3. events' = [events EXCEPT ![d] = Append(Append(@, made), into)]
        /\ items' = [items EXCEPT ![d] = Run(Run(@, made), into)]
    BY <1>4, <1>5 DEF AddFinding
  <2> QED BY <1>6, <1>7, <1>8, <2>2, <2>3
<1>10. PICK behind \in BOOLEAN : behind = (late[d] \/ Behind(d, made))
  OBVIOUS
<1>11. PICK mine \in Nat : mine = t + 1
  OBVIOUS
<1>12. /\ last' = [last EXCEPT ![d] = mine]
       /\ late' = [late EXCEPT ![d] = behind] /\ UNCHANGED <<queue, file>>
  BY <1>4, <1>5, <1>10, <1>11 DEF AddFinding
<1>13. Apart(old) /\ (~late[d] => Sorted(old)) /\ Kinds(ToSet(old))
  BY <1>6 DEF ReplayInv, Stamped, Kinds, All
<1>14. ToSet(some) = ToSet(old) \cup {made} /\ ToSet(log) = ToSet(some) \cup {into}
  BY <1>7, <1>8, AppendIs
<1>15. \A f \in ToSet(old) : f.finding # id
  BY <1>6 DEF AddFinding, Everything
<1>16. Apart(log)
  <2>1. ~Knows(old, made)
    BY <1>4, <1>15, KnowsSame
  <2>2. ~Knows(some, into)
    <3>1. \A f \in ToSet(some) : ~(f.finding = into.finding /\ f.action = into.action)
      BY <1>4, <1>5, <1>14, <1>15
    <3> QED BY <3>1, KnowsSame
  <2> QED BY <1>7, <1>8, <1>13, <2>1, <2>2, AppendApart
<1>17. ASSUME ~behind PROVE Sorted(log)
  <2>1. \A f \in ToSet(old) : KeyBefore(f, made)
    BY <1>6, <1>10, <1>17 DEF Behind
  <2>2. Sorted(some)
    BY <1>7, <1>10, <1>13, <1>17, <2>1, AppendSorted
  <2>3. ASSUME NEW f \in ToSet(some) PROVE KeyBefore(f, into)
    <3>1. CASE f = made
      BY <1>4, <1>5, <3>1 DEF KeyBefore
    <3>2. CASE f \in ToSet(old)
      <4>1. f.time \in Nat /\ KeyBefore(f, made)
        BY <2>1, <3>2, EventTypes, LogTypes
      <4>2. f.time < into.time
        BY <1>4, <1>5, <4>1 DEF KeyBefore
      <4> QED BY <4>2 DEF KeyBefore
    <3> QED BY <1>14, <3>1, <3>2
  <2> QED BY <1>8, <2>2, <2>3, AppendSorted
<1>18. Kinds(ToSet(log))
  BY <1>1, <1>4, <1>5, <1>13, <1>14 DEF Kinds
<1>19. ASSUME NEW x \in Own, Begun(old, x) PROVE Begun(log, x)
  <2>1. Begun(some, x)
    BY <1>4, <1>7, <1>19, AppendBegun
  <2>2. into.finding = x => Created(ToSet(some), x)
    BY <1>4, <1>5, <1>14 DEF Created
  <2> QED BY <1>8, <2>1, <2>2, AppendBegun
<1>20. /\ mine \in 0 .. MaxTime /\ Stamped(log, behind)
       /\ ToSet(events[d]) \subseteq ToSet(log)
       /\ \A f \in ToSet(log) : f \in ToSet(events[d]) \/ f.by = d
  <2>1. mine \in 0 .. MaxTime
    BY <1>1, <1>3, <1>11
  <2>2. Stamped(log, behind)
    BY <1>16, <1>17 DEF Stamped
  <2>3. ToSet(events[d]) \subseteq ToSet(log)
        /\ \A f \in ToSet(log) : f \in ToSet(events[d]) \/ f = made \/ f = into
    BY <1>6, <1>14
  <2> QED BY <1>4, <1>5, <2>1, <2>2, <2>3
<1>21. \A x \in Own : Begun(events[d], x) => Begun(log, x)
  BY <1>6, <1>19
<1> QED BY <1>9, <1>12, <1>18, <1>20, <1>21, LocalKeeps

\* A push keeps it.
LEMMA PushKeeps ==
  ASSUME ReplayInv, NEW d \in Device, Push(d)
  PROVE  ReplayInv'
<1>1. TypeInv /\ events[d] \in Seq(Event)
  BY DEF ReplayInv, TypeInv
<1>2. PICK log \in Seq(Event) : log = ByTime(events[d]) /\ ToSet(log) = ToSet(events[d])
  <2>1. DOMAIN events[d] \subseteq DOMAIN events[d]
    OBVIOUS
  <2>2. ByTime(events[d]) \in Seq(Event)
        /\ ToSet(ByTime(events[d])) = {events[d][i] : i \in DOMAIN events[d]}
    BY <1>1, <2>1, OldestOrdered DEF ByTime
  <2> QED BY <2>2 DEF ToSet
<1>3. /\ file' = [file EXCEPT ![d] = log]
      /\ UNCHANGED <<last, events, items, queue, late>>
  BY <1>2 DEF Push
<1>4. \A q \in Device : file'[q] = IF q = d THEN log ELSE file[q]
  BY <1>1, <1>3 DEF TypeInv
<1>5. TypeInv'
  BY <1>1, <1>3 DEF TypeInv
<1>6. Sent(events, file', queue)
  BY <1>2, <1>4 DEF ReplayInv, Sent
<1>7. CreatedFirst(events, file', queue)
  <2>1. ASSUME NEW id \in Own, After(All(events), id) PROVE Led1(events, file', queue, id)
    <3>1. Led1(events, file, queue, id)
      BY <2>1 DEF ReplayInv, CreatedFirst
    <3>2. Opened(ToSet(log), id)
      <4>1. Begun(events[d], id) /\ DOMAIN events[d] = 1 .. Len(events[d])
        BY <1>1, <3>1, LogTypes DEF Led1
      <4>2. ASSUME NEW e \in ToSet(log), e.finding = id PROVE Created(ToSet(log), id)
        <5>1. PICK k \in DOMAIN events[d] : events[d][k] = e
          BY <1>2 DEF ToSet
        <5>2. PICK j \in 1 .. k : events[d][j].finding = id /\ events[d][j].action = "create"
          BY <4>1, <4>2, <5>1 DEF Begun
        <5>3. j \in DOMAIN events[d]
          BY <4>1
        <5> QED BY <1>2, <5>2, <5>3 DEF Created, ToSet
      <4> QED BY <4>2 DEF Opened
    <3> QED BY <1>4, <3>1, <3>2 DEF Led1
  <2> QED BY <2>1 DEF CreatedFirst
<1>8. /\ \A q \in Device : Replayed(events[q], items[q])
      /\ \A q \in Device : Stamped(events[q], late[q])
      /\ Kept(events) /\ Kinds(All(events))
  BY DEF ReplayInv
<1> QED BY <1>3, <1>5, <1>6, <1>7, <1>8 DEF ReplayInv

\* The first of a batch is applied, the rest waits.
LEMMA BatchKeeps ==
  ASSUME ReplayInv, NEW d \in Device, NEW b \in Seq(Event), b # <<>>, ToSet(b) \subseteq All(events),
         \A id \in Own : After(All(events), id) => Following(events[d], b, id),
         Apply(d, b[1]), queue' = [queue EXCEPT ![d] = Tail(b)],
         UNCHANGED <<last, file>>
  PROVE  ReplayInv'
<1>1. TypeInv /\ Replayed(events[d], items[d]) /\ Stamped(events[d], late[d])
  BY DEF ReplayInv
<1>2. PICK old \in Seq(Event) : old = events[d]
  BY <1>1 DEF TypeInv
<1>3. PICK e \in Event : e = b[1] /\ e \in All(events)
  BY TailIs
<1>4. PICK q \in Seq(Event) : q = Tail(b) /\ ToSet(q) \subseteq All(events)
  BY TailIs
<1>5. PICK log \in Seq(Event) : log = Taken(old, e)
  BY TakenIs
<1>7. PICK mine \in 0 .. MaxTime : mine = last[d]
  BY <1>1 DEF TypeInv
<1>8. PICK behind \in BOOLEAN :
        /\ events' = [events EXCEPT ![d] = log] /\ items' = [items EXCEPT ![d] = Replay(log)]
        /\ late' = [late EXCEPT ![d] = behind] /\ Stamped(log, behind)
  <2>1. Apply(d, e)
    BY <1>3
  <2> QED BY <1>1, <1>2, <1>5, <2>1, Applied
<1>9. /\ last' = [last EXCEPT ![d] = mine]
      /\ queue' = [queue EXCEPT ![d] = q] /\ file' = file
  BY <1>1, <1>4, <1>7 DEF TypeInv
<1>10. /\ ToSet(old) \subseteq ToSet(log)
       /\ \A f \in ToSet(log) : f \in ToSet(old) \/ f = e
  BY <1>5, TakenIs
<1>11. ToSet(old) \subseteq All(events)
  BY <1>2 DEF All
<1>12. \A f \in ToSet(log) : f \in All(events)
  BY <1>3, <1>10, <1>11
<1>13. Kinds(ToSet(log))
  BY <1>12 DEF ReplayInv, Kinds
<1>16. ASSUME NEW id \in Own, After(All(events) \cup ToSet(log), id), Begun(old, id)
       PROVE  Begun(log, id) /\ Following(log, q, id)
  <2>1. After(All(events), id)
    BY <1>16, AfterShrinks
  <2>2. Following(old, b, id)
    BY <1>2, <2>1
  <2> QED BY <1>3, <1>4, <1>5, <1>16, <2>2, TailFollows
<1>17. StillFirst(All(events) \cup ToSet(log), events[d], queue[d], log, q)
  BY <1>2, <1>16 DEF StillFirst
<1> QED
  <2>1. /\ ReplayInv /\ d \in Device /\ log \in Seq(Event)
        /\ ToSet(events[d]) \subseteq ToSet(log)
    BY <1>2, <1>10
  <2>2. Kinds(ToSet(log)) /\ \A f \in ToSet(log) : f.by = d \/ f \in All(events)
    BY <1>12, <1>13
  <2>3. mine \in 0 .. MaxTime /\ behind \in BOOLEAN /\ q \in Seq(Event)
    OBVIOUS
  <2>4. /\ ToSet(q) \subseteq All(events)
        /\ events' = [events EXCEPT ![d] = log] /\ items' = [items EXCEPT ![d] = Replay(log)]
    BY <1>4, <1>8
  <2>5. /\ last' = [last EXCEPT ![d] = mine]
        /\ late' = [late EXCEPT ![d] = behind] /\ queue' = [queue EXCEPT ![d] = q]
        /\ file' = file
    BY <1>8, <1>9
  <2>6. /\ Stamped(log, behind)
        /\ StillFirst(All(events) \cup ToSet(log), events[d], queue[d], log, q)
    BY <1>8, <1>17
  <2> QED BY ONLY <2>1, <2>2, <2>3, <2>4, <2>5, <2>6, ChangeKeeps

\* The rest of a batch keeps it.
LEMMA AbsorbNextKeeps ==
  ASSUME ReplayInv, NEW d \in Device, AbsorbNext(d)
  PROVE  ReplayInv'
<1>1. TypeInv
  BY DEF ReplayInv
<1>2. PICK b \in Seq(Event) : b = queue[d]
  BY <1>1 DEF TypeInv
<1>3. b # <<>> /\ Apply(d, b[1]) /\ UNCHANGED <<last, file>>
  BY <1>2 DEF AbsorbNext
<1>4. queue' = [queue EXCEPT ![d] = Tail(b)]
  BY <1>2 DEF AbsorbNext
<1>7. ToSet(b) \subseteq All(events)
  BY <1>2 DEF ReplayInv, Sent
<1>8. \A id \in Own : After(All(events), id) => Following(events[d], b, id)
  BY <1>2 DEF ReplayInv, CreatedFirst, Led1
<1> QED BY <1>3, <1>4, <1>7, <1>8, BatchKeeps

\* Reading another device's file keeps it: what is new is oldest first, creations too.
LEMMA AbsorbKeeps ==
  ASSUME ReplayInv, NEW d \in Device, NEW p \in Device, Absorb(d, p)
  PROVE  ReplayInv'
<1>1. TypeInv
  BY DEF ReplayInv
<1>2. PICK old \in Seq(Event) : old = events[d]
  BY <1>1 DEF TypeInv
<1>3. PICK src \in Seq(Event) : src = file[p]
  BY <1>1 DEF TypeInv
<1>4. PICK I \in SUBSET DOMAIN src : I = {i \in DOMAIN src : ~Knows(old, src[i])}
  OBVIOUS
<1>5. I = Unknown(d, p)
  BY <1>2, <1>3, <1>4 DEF Unknown
<1>6. PICK b \in Seq(Event) : /\ b = Oldest(src, I) /\ ToSet(b) = {src[i] : i \in I}
                              /\ InTime(b)
  BY OldestOrdered
<1>7. b # <<>> /\ Apply(d, b[1]) /\ UNCHANGED <<last, file>>
      /\ queue' = [queue EXCEPT ![d] = Tail(b)]
  BY <1>3, <1>5, <1>6 DEF Absorb
<1>10. ToSet(b) \subseteq ToSet(src)
  BY <1>4, <1>6 DEF ToSet
<1>11. ToSet(src) \subseteq All(events)
  BY <1>3 DEF ReplayInv, Sent, All
<1>12. ASSUME NEW id \in Own, After(All(events), id) PROVE Following(old, b, id)
  <2>1. Opened(ToSet(src), id)
    BY <1>3, <1>12 DEF ReplayInv, CreatedFirst, Led1
  <2>2. ASSUME NEW k \in DOMAIN b, b[k].finding = id, ~Created(ToSet(old), id)
        PROVE  \E j \in 1 .. k : b[j].finding = id /\ b[j].action = "create"
    <3>1. b[k] \in ToSet(b)
      BY DEF ToSet
    <3>2. PICK c \in ToSet(src) : c.finding = id /\ c.action = "create"
      BY <1>10, <2>1, <2>2, <3>1 DEF Opened, Created
    <3>3. PICK i \in DOMAIN src : src[i] = c
      BY <3>2 DEF ToSet
    <3>4. ~Knows(old, c)
      BY <2>2, <3>2, KnowsSame DEF Created
    <3>5. c \in ToSet(b)
      BY <1>4, <1>6, <3>3, <3>4
    <3>6. Opened(ToSet(b), id)
      BY <3>2, <3>5 DEF Opened, Created
    <3>7. Begun(b, id)
      <4>1. ToSet(b) \subseteq All(events)
        BY <1>10, <1>11
      <4> QED BY <1>6, <1>12, <3>6, <4>1, InTimeBegun
    <3> QED BY <2>2, <3>7 DEF Begun
  <2> QED BY <2>2 DEF Following
<1>14. ToSet(b) \subseteq All(events)
  BY <1>10, <1>11
<1>15. \A id \in Own : After(All(events), id) => Following(events[d], b, id)
  BY <1>2, <1>12
<1> QED BY <1>7, <1>14, <1>15, BatchKeeps

\* A reload keeps it.
LEMMA ReloadKeeps ==
  ASSUME ReplayInv, NEW d \in Device, Reload(d)
  PROVE  ReplayInv'
<1>1. TypeInv /\ MaxTime \in Nat
      /\ Apart(events[d])
  BY BoundAssumption DEF ReplayInv, Stamped
<1>2. PICK old \in Seq(Event) : old = events[d]
  BY <1>1 DEF TypeInv
<1>3. PICK log \in Seq(Event) : /\ log = Restored(old) /\ ToSet(log) = ToSet(old)
                                /\ Apart(log) /\ InTime(log) /\ Sorted(log)
  BY <1>1, <1>2, RestoredOrdered
<1>7. PICK behind \in BOOLEAN : behind = FALSE
  OBVIOUS
<1>8. events' = [events EXCEPT ![d] = log]
  BY <1>2, <1>3 DEF Reload
<1>9. items' = [items EXCEPT ![d] = Replay(log)]
  BY <1>1, <1>8 DEF Reload, TypeInv
<1>10. PICK none \in Seq(Event) : none = <<>> /\ ToSet(none) = {} /\ DOMAIN none = {}
  <2>1. <<>> \in Seq(Event) /\ DOMAIN <<>> = {}
    OBVIOUS
  <2>2. ToSet(<<>>) = {}
    BY <2>1 DEF ToSet
  <2> QED BY <2>1, <2>2
<1>11. PICK mine \in 0 .. MaxTime : mine = 0
  BY <1>1
<1>12. /\ last' = [last EXCEPT ![d] = mine]
       /\ late' = [late EXCEPT ![d] = behind] /\ queue' = [queue EXCEPT ![d] = none]
       /\ file' = file
  BY <1>1, <1>7, <1>10, <1>11 DEF Reload, TypeInv
<1>13. ToSet(old) \subseteq All(events)
  BY <1>2 DEF All
<1>14. Kinds(ToSet(log))
  BY <1>3, <1>13 DEF ReplayInv, Kinds
<1>15. Stamped(log, behind)
  BY <1>3 DEF Stamped
<1>16. ASSUME NEW id \in Own, After(All(events) \cup ToSet(log), id), Begun(old, id)
       PROVE  Begun(log, id) /\ Following(log, none, id)
  <2>1. ToSet(old) \subseteq All(events) \cup ToSet(log)
    BY <1>3
  <2>2. Apart(old)
    BY <1>1, <1>2
  <2>3. Begun(log, id)
    BY <1>3, <1>16, <2>1, <2>2, RestoredBegun
  <2> QED BY <1>10, <2>3 DEF Following
<1>17. StillFirst(All(events) \cup ToSet(log), events[d], queue[d], log, none)
  BY <1>2, <1>16 DEF StillFirst
<1> QED
  <2>1. /\ ReplayInv /\ d \in Device /\ log \in Seq(Event)
        /\ ToSet(events[d]) \subseteq ToSet(log)
    BY <1>2, <1>3
  <2>2. Kinds(ToSet(log)) /\ \A f \in ToSet(log) : f.by = d \/ f \in All(events)
    BY <1>3, <1>13, <1>14
  <2>3. mine \in 0 .. MaxTime /\ behind \in BOOLEAN
        /\ none \in Seq(Event)
    OBVIOUS
  <2>4. /\ ToSet(none) \subseteq All(events)
        /\ events' = [events EXCEPT ![d] = log] /\ items' = [items EXCEPT ![d] = Replay(log)]
    BY <1>8, <1>9, <1>10
  <2>5. /\ last' = [last EXCEPT ![d] = mine]
        /\ late' = [late EXCEPT ![d] = behind] /\ queue' = [queue EXCEPT ![d] = none]
        /\ file' = file
    BY <1>12
  <2>6. /\ Stamped(log, behind)
        /\ StillFirst(All(events) \cup ToSet(log), events[d], queue[d], log, none)
    BY <1>15, <1>17
  <2> QED BY ONLY <2>1, <2>2, <2>3, <2>4, <2>5, <2>6, ChangeKeeps

-------------------------------------------------------------------------------
(* The invariant holds of every state.                                       *)

\* Every step keeps it.
LEMMA NextKeeps ==
  ASSUME ReplayInv, [Next]_vars
  PROVE  ReplayInv'
<1>1. ASSUME NEW d \in Device, NEW id \in Finding, NEW now \in 1 .. MaxTime,
             NEW action \in Action, Track(d, id, action, now)
      PROVE  ReplayInv'
  BY <1>1, TrackKeeps
<1>2. ASSUME NEW d \in Device, NEW id \in Finding, NEW now \in 1 .. MaxTime,
             AddFinding(d, id, now)
      PROVE  ReplayInv'
  BY <1>2, AddFindingKeeps
<1>3. ASSUME NEW d \in Device, Push(d) PROVE ReplayInv'
  BY <1>3, PushKeeps
<1>4. ASSUME NEW d \in Device, NEW q \in Device, Absorb(d, q) PROVE ReplayInv'
  BY <1>4, AbsorbKeeps
<1>5. ASSUME NEW d \in Device, AbsorbNext(d) PROVE ReplayInv'
  BY <1>5, AbsorbNextKeeps
<1>6. ASSUME NEW d \in Device, Reload(d) PROVE ReplayInv'
  BY <1>6, ReloadKeeps
<1>7. CASE UNCHANGED vars
  BY <1>7 DEF vars, ReplayInv, TypeInv
<1>8. CASE Next
  BY <1>1, <1>2, <1>3, <1>4, <1>5, <1>6, <1>8 DEF Next
<1> QED BY <1>7, <1>8

\* Every device's collection is a replay of its log, and no log loses the order
\* of its creations: the invariant that all of the theorems below rest on.
THEOREM ReplayAlways == Spec => []ReplayInv
<1>1. Init => ReplayInv
  BY InitKeeps
<1>2. ReplayInv /\ [Next]_vars => ReplayInv'
  BY NextKeeps
<1> QED BY <1>1, <1>2, PTL DEF Spec

\* Every variable stays in its type: no stamp goes past the bound, and replaying,
\* sorting and absorbing make nothing but events and items of the source.
THEOREM TypesAlways == Spec => []TypeOK
<1>1. ReplayInv => TypeOK
  <2> SUFFICES ASSUME ReplayInv PROVE TypeOK
    OBVIOUS
  <2>1. TypeInv
    BY DEF ReplayInv
  <2>2. ASSUME NEW d \in Device
        PROVE  /\ ToSet(events[d]) \cup ToSet(queue[d]) \cup ToSet(file[d]) \subseteq Event
               /\ ToSet(items[d]) \subseteq Item
    <3>1. events[d] \in Seq(Event) /\ queue[d] \in Seq(Event) /\ file[d] \in Seq(Event)
          /\ items[d] \in Seq(Item)
      BY <2>1 DEF TypeInv
    <3>2. ToSet(events[d]) \subseteq Event /\ ToSet(queue[d]) \subseteq Event
          /\ ToSet(file[d]) \subseteq Event
      BY <3>1, LogTypes
    <3>3. ToSet(items[d]) \subseteq Item
      BY <3>1 DEF ToSet
    <3> QED BY <3>2, <3>3
  <2> QED BY <2>1, <2>2 DEF TypeInv, TypeOK
<1> QED BY <1>1, ReplayAlways, PTL

-------------------------------------------------------------------------------
(* What the reader is shown.                                                 *)

\* A reload rebuilds the screen the reader left (event-store.js restore against
\* track and absorb), for any number of devices, clocks and decisions, unless
\* since the last reload an event was applied whose key does not follow the others.
THEOREM ReloadsShowTheSame == Spec => []ReloadShowsTheSame
<1>1. ReplayInv => ReloadShowsTheSame
  <2> SUFFICES ASSUME ReplayInv, NEW d \in Device, ~late[d]
               PROVE  Seen(items[d]) = Seen(Replay(Restored(events[d])))
    BY DEF ReloadShowsTheSame
  <2>1. events[d] \in Seq(Event) /\ Sorted(events[d]) /\ items[d] = Replay(events[d])
    BY DEF ReplayInv, TypeInv, Stamped, Replayed
  <2>2. Restored(events[d]) = events[d]
    BY <2>1, RestoredSorted
  <2> QED BY <2>1, <2>2
<1> QED BY <1>1, ReplayAlways, PTL

\* A replay of a log that throws away what it created first shows no comment of it.
LEMMA ThrownAway ==
  ASSUME NEW log \in Seq(Event), Apart(log), NEW S, ToSet(log) \subseteq S,
         NEW id \in Finding, After(S, id), Begun(log, id),
         \E e \in ToSet(log) : e.finding = id /\ e.action = "delete"
  PROVE  Comments(Replay(log), id) = {}
<1>1. Led(log, id)
  BY BegunLeads
<1>2. Single(Replay(log), log, Len(log))
  BY Mirrored
<1>3. Done(log, Len(log), id, "delete")
  <2>1. PICK e \in ToSet(log) : e.finding = id /\ e.action = "delete"
    OBVIOUS
  <2>2. PICK k \in DOMAIN log : log[k] = e
    BY DEF ToSet
  <2>3. DOMAIN log = 1 .. Len(log)
    BY LogTypes
  <2> QED BY <2>1, <2>2, <2>3 DEF Done
<1>4. \A i \in DOMAIN Replay(log) : Replay(log)[i].id = id => Replay(log)[i].deleted
  BY <1>1, <1>2, <1>3 DEF Single
<1> QED BY <1>4 DEF Comments, Live

\* A comment the reader removed stays removed on every device that knows of it,
\* before a reload and after (event-store.js DELETE), whatever was pushed,
\* absorbed or reloaded on the way, if the clocks put its removal after its
\* creation.
THEOREM RemovedForGood == Spec => []RemovedStaysRemoved
<1>1. ReplayInv => RemovedStaysRemoved
  <2> SUFFICES ASSUME ReplayInv, NEW d \in Device, NEW id \in Own, StampedAfterCreation(id),
                      \E e \in ToSet(events[d]) : e.finding = id /\ e.action = "delete"
               PROVE  /\ Comments(items[d], id) = {}
                      /\ Comments(Replay(Restored(events[d])), id) = {}
    BY DEF RemovedStaysRemoved
  <2>1. PICK log \in Seq(Event) : log = events[d] /\ Apart(log) /\ items[d] = Replay(log)
    BY DEF ReplayInv, TypeInv, Stamped, Replayed
  <2>2. After(All(events), id)
    BY DEF StampedAfterCreation, Everything, After, All
  <2>3. Begun(log, id) /\ id \in Finding
    BY <2>1, <2>2 DEF ReplayInv, CreatedFirst, Led1, Finding
  <2>4. ToSet(log) \subseteq All(events)
    BY <2>1 DEF All
  <2>5. Comments(Replay(log), id) = {}
    BY <2>1, <2>2, <2>3, <2>4, ThrownAway
  <2>6. PICK again \in Seq(Event) : /\ again = Restored(log) /\ ToSet(again) = ToSet(log)
                                    /\ Apart(again) /\ Begun(again, id)
    BY <2>1, <2>2, <2>3, <2>4, RestoredOrdered, RestoredBegun
  <2>7. Comments(Replay(again), id) = {}
    BY <2>1, <2>2, <2>3, <2>4, <2>6, ThrownAway
  <2> QED BY <2>1, <2>5, <2>6, <2>7
<1> QED BY <1>1, ReplayAlways, PTL

-------------------------------------------------------------------------------
(* What the reader decides.                                                  *)

\* Where no item of a finding is deleted, the first of them shows the decision.
LEMMA DecidedShown ==
  ASSUME NEW list \in Seq(Item), NEW e \in Event, e.action # "create", e.action # "delete",
         \A i \in DOMAIN list : list[i].id = e.finding => ~list[i].deleted
  PROVE  Included(Run(list, e), e.finding) = (e.action = "include")
<1> DEFINE id == e.finding
<1>0. id \in Finding
  BY EventTypes
<1>1. PICK all \in Seq(Item) : all = At(list, id)
  BY <1>0, AtIs
<1>2. PICK p \in 1 .. Len(all) : p = First(all, id)
  BY <1>0, <1>1, AtIs
<1>3. Len(all) \in Nat /\ DOMAIN all = 1 .. Len(all)
  OBVIOUS
<1>4. all[p].id = id /\ \A i \in 1 .. Len(all) : all[i].id = id => p <= i
  BY <1>2, <1>3, FirstIs
<1>5. \A i \in 1 .. Len(all) : all[i].id = id => ~all[i].deleted
  <2>1. CASE all = list
    BY <1>3, <2>1
  <2>2. CASE all = Append(list, Made(id))
    <3>1. PICK item \in Item : item = Made(id) /\ item.deleted = FALSE
      BY <1>0, MadeIs
    <3>2. all = Append(list, item)
      BY <2>2, <3>1
    <3>3. Len(list) \in Nat /\ DOMAIN list = 1 .. Len(list) /\ Len(all) = Len(list) + 1
          /\ all[Len(list) + 1] = item /\ \A i \in 1 .. Len(list) : all[i] = list[i]
      BY <3>2
    <3>4. \A i \in 1 .. Len(all) : i \in 1 .. Len(list) \/ i = Len(list) + 1
      BY <3>3
    <3> QED BY <3>1, <3>3, <3>4
  <2> QED BY <1>0, <1>1, <2>1, <2>2, AtIs
<1>6. PICK out : out = Run(list, e)
  OBVIOUS
<1>7. /\ DOMAIN out = 1 .. Len(all)
      /\ \A j \in 1 .. Len(all) : j # p => out[j] = all[j]
      /\ out[p].id = all[p].id /\ out[p].deleted = all[p].deleted
      /\ out[p].included = (e.action = "include")
  <2>1. LET more == At(list, e.finding)
            k == First(more, e.finding)
            rest == Run(list, e)
        IN  /\ Len(rest) = Len(more) /\ DOMAIN rest = 1 .. Len(more)
            /\ \A j \in 1 .. Len(more) : j # k => rest[j] = more[j]
            /\ rest[k].id = more[k].id /\ rest[k].mine = more[k].mine
            /\ e.action # "delete" => /\ rest[k].deleted = more[k].deleted
                                      /\ rest[k].included = (e.action = "include")
    BY RunOther, Zenon
  <2> QED BY <1>1, <1>2, <1>6, <2>1
<1>8. p \in Live(out, id)
  BY <1>4, <1>5, <1>7 DEF Live
<1>9. \A j \in Live(out, id) : j \in Nat /\ p <= j
  BY <1>3, <1>4, <1>7 DEF Live
<1>10. Included(out, id) <=> out[p].included
  BY <1>3, <1>8, <1>9 DEF Included
<1>11. Included(out, id) \in BOOLEAN
  BY DEF Included
<1> QED BY <1>6, <1>7, <1>10, <1>11

\* The agent's findings are never thrown away.
LEMMA AgentsStay ==
  ASSUME ReplayInv, NEW d \in Device, NEW id \in Agents, NEW i \in DOMAIN items[d],
         items[d][i].id = id
  PROVE  ~items[d][i].deleted
<1>1. events[d] \in Seq(Event) /\ items[d] = Replay(events[d])
  BY DEF ReplayInv, TypeInv, Replayed
<1>2. Mirrors(items[d], events[d], Len(events[d]))
  BY <1>1, Mirrored
<1>3. ASSUME items[d][i].deleted PROVE FALSE
  <2>1. Done(events[d], Len(events[d]), id, "delete")
    BY <1>2, <1>3 DEF Mirrors
  <2>2. PICK k \in 1 .. Len(events[d]) : /\ events[d][k].finding = id
                                         /\ events[d][k].action = "delete"
    BY <2>1 DEF Done
  <2>3. events[d][k] \in All(events)
    BY <1>1, <2>2, LogTypes DEF ToSet, All
  <2>4. id \in Own
    BY <2>2, <2>3 DEF ReplayInv, Kinds
  <2> QED BY <2>4, FindingAssumption
<1> QED BY <1>3

\* A decision is at the end of the log, and the screen shows it.
Decided(before, after, list) ==
  LET e == after[Len(after)] IN
  /\ Len(after) > Len(before)
  /\ e.finding \in Agents => Included(list, e.finding) = (e.action = "include")

\* A decision on what is shown is at the end of the log, and shown.
LEMMA TrackDecides ==
  ASSUME ReplayInv, NEW d \in Device, NEW id \in Finding, NEW now \in 1 .. MaxTime,
         NEW action \in Action, Track(d, id, action, now),
         \A f \in ToSet(events[d]) : f.time # NextLocalTime(d, now)
  PROVE  Decided(events[d], events'[d], items'[d])
<1>1. TypeInv /\ MaxTime \in Nat
  BY BoundAssumption DEF ReplayInv
<1>2. PICK t \in Nat : t = NextLocalTime(d, now)
  BY OwnTimes
<1>3. t >= 1 /\ t <= MaxTime
  BY <1>2, OwnTimes DEF Track, Stamp
<1>4. PICK e \in Event : /\ e = Stamp(d, id, action, now) /\ e.time = t /\ e.finding = id
                         /\ e.action = action /\ e.by = d
  BY <1>1, <1>2, <1>3, StampIs
<1>5. PICK old \in Seq(Event) : old = events[d]
  BY OwnTimes
<1>7. \A f \in ToSet(old) : f.time # t
  BY <1>2, <1>5
<1>8. ~Knows(old, e)
  <2>1. \A i \in DOMAIN old : old[i].time # e.time
    BY <1>4, <1>7, LogTypes DEF ToSet
  <2> QED BY <2>1 DEF Knows, Key
<1>9. events'[d] = Append(old, e) /\ items'[d] = Run(items[d], e)
  BY <1>1, <1>4, <1>5, <1>8 DEF Track, Apply, TypeInv
<1>10. Len(events'[d]) > Len(events[d]) /\ events'[d][Len(events'[d])] = e
  BY <1>5, <1>9, AppendIs
<1>11. ASSUME id \in Agents PROVE Included(items'[d], id) = (action = "include")
  <2>1. PICK list \in Seq(Item) : list = items[d]
    BY <1>1 DEF TypeInv
  <2>2. e.action # "create" /\ e.action # "delete"
    BY <1>4, <1>11, OfferedIs DEF Track
  <2>3. \A i \in DOMAIN list : list[i].id = e.finding => ~list[i].deleted
    BY <1>4, <1>11, <2>1, AgentsStay
  <2>4. Included(Run(list, e), e.finding) = (e.action = "include")
    BY <2>2, <2>3, DecidedShown
  <2> QED BY <1>4, <1>9, <2>1, <2>4
<1> QED BY <1>4, <1>10, <1>11 DEF Decided

\* A comment of the reader's own is at the end of the log.
LEMMA AddDecides ==
  ASSUME ReplayInv, NEW d \in Device, NEW id \in Finding, NEW now \in 1 .. MaxTime,
         AddFinding(d, id, now)
  PROVE  Decided(events[d], events'[d], items'[d])
<1>1. TypeInv /\ MaxTime \in Nat /\ id \in Own
  BY BoundAssumption DEF ReplayInv, AddFinding
<1>2. PICK old \in Seq(Event) : old = events[d]
  BY OwnTimes
<1>3. DEFINE made == Stamp(d, id, "create", now)
             into == [Stamp(d, id, "include", now) EXCEPT !.time = @ + 1]
<1>4. into.finding = id /\ id \notin Agents
  BY <1>1, FindingAssumption DEF Stamp
<1>5. events'[d] = Append(Append(old, made), into)
  BY <1>1, <1>2 DEF AddFinding, TypeInv
<1> HIDE DEF made, into
<1>6. Len(events'[d]) = Len(old) + 2 /\ events'[d][Len(events'[d])] = into /\ Len(old) \in Nat
  <2> DEFINE T == Event \cup {made, into}
  <2>1. old \in Seq(T) /\ made \in T /\ into \in T
    <3>1. Event \subseteq T
      OBVIOUS
    <3>2. old \in Seq(T)
      BY <3>1
    <3> QED BY <3>2
  <2> HIDE DEF T
  <2>2. PICK some \in Seq(T) : some = Append(old, made) /\ Len(some) = Len(old) + 1
    <3>1. Append(old, made) \in Seq(T)
      BY <2>1
    <3>2. Len(Append(old, made)) = Len(old) + 1
      OBVIOUS
    <3> QED BY <3>1, <3>2
  <2>3. events'[d] = Append(some, into) /\ Len(some) \in Nat /\ Len(old) \in Nat
    BY <1>5, <2>1, <2>2
  <2>4. Len(Append(some, into)) = Len(some) + 1 /\ Append(some, into)[Len(some) + 1] = into
    BY <2>1, <2>2
  <2> QED BY <2>2, <2>3, <2>4
<1> QED BY <1>2, <1>4, <1>6 DEF Decided

\* What the reader decides takes effect (event-store.js track and _apply): the
\* step that stamps a decision puts it at the end of the log and on the screen,
\* whatever clock it is stamped with, unless an event of the log has that very moment.
THEOREM DecisionsTakeEffect == Spec => DecisionTakesEffect
<1>1. ReplayInv /\ [Next]_vars =>
        \A d \in Device : last'[d] > last[d] /\ (\A f \in ToSet(events[d]) : f.time # last'[d]) =>
          Decided(events[d], events'[d], items'[d])
  <2> SUFFICES ASSUME ReplayInv, [Next]_vars, NEW d \in Device, last'[d] > last[d],
                      \A f \in ToSet(events[d]) : f.time # last'[d]
               PROVE  Decided(events[d], events'[d], items'[d])
    OBVIOUS
  <2>1. TypeInv
    BY DEF ReplayInv
  <2>2. last[d] \in Nat
    BY <2>1 DEF TypeInv
  <2>3. ~UNCHANGED last
    BY <2>2
  <2>4. PICK p \in Device :
          \/ \E id \in Finding, now \in 1 .. MaxTime :
               \/ \E action \in Action : Track(p, id, action, now)
               \/ AddFinding(p, id, now)
          \/ Reload(p)
    BY <2>3 DEF Next, vars, Push, Absorb, AbsorbNext
  <2>5. CASE Reload(p)
    <3>1. last'[d] = IF d = p THEN 0 ELSE last[d]
      BY <2>1, <2>5 DEF Reload, TypeInv
    <3> QED BY <2>2, <3>1
  <2>6. ASSUME NEW id \in Finding, NEW now \in 1 .. MaxTime,
               NEW action \in Action, Track(p, id, action, now)
        PROVE  Decided(events[d], events'[d], items'[d])
    <3>1. last' = [last EXCEPT ![p] = Stamp(p, id, action, now).time]
      BY <2>6 DEF Track
    <3>2. d = p
      BY <2>1, <2>2, <3>1 DEF TypeInv
    <3>3. last'[d] = NextLocalTime(d, now)
      BY <2>1, <3>1, <3>2 DEF TypeInv, Stamp
    <3> QED BY <2>6, <3>2, <3>3, TrackDecides
  <2>7. ASSUME NEW id \in Finding, NEW now \in 1 .. MaxTime, AddFinding(p, id, now)
        PROVE  Decided(events[d], events'[d], items'[d])
    <3>1. PICK mine : last' = [last EXCEPT ![p] = mine]
      BY <2>7 DEF AddFinding
    <3>2. d = p
      BY <2>1, <2>2, <3>1 DEF TypeInv
    <3> QED BY <2>7, <3>2, AddDecides
  <2> QED BY <2>4, <2>5, <2>6, <2>7
<1>2. ReplayInv /\ [Next]_vars =>
        [\A d \in Device : last'[d] > last[d] /\ (\A f \in ToSet(events[d]) : f.time # last'[d]) =>
           LET e == events'[d][Len(events'[d])] IN
           /\ Len(events'[d]) > Len(events[d])
           /\ e.finding \in Agents =>
                Included(items'[d], e.finding) = (e.action = "include")]_vars
  BY <1>1 DEF Decided
<1> QED BY <1>2, ReplayAlways, PTL DEF Spec, DecisionTakesEffect
===============================================================================

--------------------------- MODULE HashJoinProofs ---------------------------
(***************************************************************************)
(* The loops over a join keep what JoinValues promises, for all joins, key *)
(* parts, depths and iterators: each joint key part once, the slices of    *)
(* all operands with it, whichever order the operands are sorted into; the *)
(* loops end and observe the deadline.                                     *)
(***************************************************************************)
EXTENDS HashJoin, KeyTheorems

-----------------------------------------------------------------------------
(* The deadline.                                                           *)

DeadlineInv ==
    /\ counter \in 0 .. MaxCounter + 2
    /\ counter = MaxCounter + 2 => \A i \in Iterators : pc[i] = "thrown"
    /\ (\E i \in Iterators : pc[i] = "thrown") => \A i \in Iterators : pc[i] = "thrown"
    /\ late \in BOOLEAN
    /\ overrun \in 0 .. MaxCounter + 1
    /\ overrun <= counter
    /\ ~late => overrun = 0
    /\ pc \in [Iterators -> {"none", "probing", "ready", "body", "ended", "thrown"}]

LEMMA DeadlineInit == Init => DeadlineInv
<1> SUFFICES ASSUME Init PROVE DeadlineInv
  OBVIOUS
<1>1. /\ pc = [i \in Iterators |-> "none"]
      /\ counter = 0 /\ late = FALSE /\ overrun = 0
  BY DEF Init
<1>2. /\ counter \in 0 .. MaxCounter + 2 /\ counter # MaxCounter + 2
      /\ overrun \in 0 .. MaxCounter + 1 /\ overrun <= counter
  BY <1>1, JoinAssumption
<1>3. /\ pc \in [Iterators -> {"none", "probing", "ready", "body", "ended", "thrown"}]
      /\ \A i \in Iterators : pc[i] # "thrown"
  BY <1>1
<1> QED
  BY <1>1, <1>2, <1>3 DEF DeadlineInv

LEMMA DeadlineStep == DeadlineInv /\ [JoinNext]_vars => DeadlineInv'
<1> SUFFICES ASSUME DeadlineInv, [JoinNext]_vars PROVE DeadlineInv'
  OBVIOUS
<1>0. MaxCounter \in Nat
  BY JoinAssumption
<1> USE DEF DeadlineInv, deadline
<1>1. ASSUME NEW i \in Iterators, Begin(i) PROVE DeadlineInv'
  BY <1>1 DEF Begin
<1>2. ASSUME NEW i \in Iterators, Search(i) PROVE DeadlineInv'
  BY <1>2 DEF Search, Hit, Miss, Exhausted
<1>3. ASSUME NEW i \in Iterators, Body(i) PROVE DeadlineInv'
  BY <1>0, <1>3 DEF Body, TimedOut
<1>4. ASSUME NEW i \in Iterators, Throw(i) PROVE DeadlineInv'
  BY <1>0, <1>4 DEF Throw, TimedOut
<1>5. ASSUME NEW i \in Iterators, Next(i) PROVE DeadlineInv'
  BY <1>5 DEF Next
<1>6. ASSUME NEW i \in Iterators, Leave(i) PROVE DeadlineInv'
  BY <1>6 DEF Leave
<1>7. ASSUME NEW i \in Iterators, NEW j \in Iterators, Copy(i, j) PROVE DeadlineInv'
  BY <1>7 DEF Copy
<1>8. CASE ClockPasses
  BY <1>0, <1>8 DEF ClockPasses
<1>9. CASE NewContext
  <2>1. /\ pc' = [i \in Iterators |-> "none"]
        /\ counter' = 0 /\ late' = FALSE /\ overrun' = 0
    BY <1>9 DEF NewContext
  <2>2. /\ counter' \in 0 .. MaxCounter + 2 /\ counter' # MaxCounter + 2
        /\ overrun' \in 0 .. MaxCounter + 1 /\ overrun' <= counter'
    BY <1>0, <2>1
  <2>3. /\ pc' \in [Iterators -> {"none", "probing", "ready", "body", "ended", "thrown"}]
        /\ \A i \in Iterators : pc'[i] # "thrown"
    BY <2>1
  <2> QED
    BY <2>1, <2>2, <2>3
<1>10. CASE UNCHANGED vars
  BY <1>10 DEF vars
<1> QED
  BY <1>1, <1>2, <1>3, <1>4, <1>5, <1>6, <1>7, <1>8, <1>9, <1>10 DEF JoinNext, Loop

\* No loop runs past the deadline for longer than check_time_out counts.
THEOREM LoopsObserveDeadline == Spec => []DeadlineObserved
<1>1. DeadlineInv => DeadlineObserved
  BY JoinAssumption DEF DeadlineInv, DeadlineObserved
<1> QED
  BY <1>1, DeadlineInit, DeadlineStep, PTL DEF Spec

-----------------------------------------------------------------------------
(* sort_permutation.                                                       *)

\* What holds of 0, and of each number if it holds of the one before.
LEMMA NumberInduction ==
    ASSUME NEW T, 0 \in T, \A n \in Nat : n \in T => n + 1 \in T
    PROVE  Nat \subseteq T
<1> DEFINE C == {n \in Nat : n \notin T}
<1> SUFFICES ASSUME C # {} PROVE FALSE
  OBVIOUS
<1>1. PICK n \in C : \A m \in C : n <= m
  <2>1. C \in SUBSET Nat
    OBVIOUS
  <2> HIDE DEF C
  <2> QED
    BY <2>1, LeastNumber
<1>2. n # 0 /\ n - 1 \in Nat /\ ~(n <= n - 1) /\ (n - 1) + 1 = n
  OBVIOUS
<1>3. n - 1 \in T
  BY <1>1, <1>2
<1> QED
  BY <1>2, <1>3

\* A loop with N rounds has a sequence of states.
IsRun(S, start, round, n, run) ==
    run \in [0 .. n -> S] /\ run[0] = start /\ \A m \in 1 .. n : run[m] = round[run[m - 1]]

LEMMA LoopRuns ==
    ASSUME NEW S, NEW start \in S, NEW round \in [S -> S], NEW N \in Nat
    PROVE  \E run : IsRun(S, start, round, N, run)
<1> DEFINE T == {n \in Nat : \E run : IsRun(S, start, round, n, run)}
<1>1. 0 \in T
  <2> DEFINE run == [m \in 0 .. 0 |-> start]
  <2>1. IsRun(S, start, round, 0, run)
    BY DEF IsRun
  <2> QED
    BY <2>1
<1>2. ASSUME NEW n \in Nat, n \in T PROVE n + 1 \in T
  <2>1. PICK run : IsRun(S, start, round, n, run)
    BY <1>2
  <2> DEFINE more == [m \in 0 .. (n + 1) |-> IF m = n + 1 THEN round[run[n]] ELSE run[m]]
  <2>2. more \in [0 .. (n + 1) -> S]
    BY <2>1 DEF IsRun
  <2>3. ASSUME NEW m \in 1 .. (n + 1) PROVE more[m] = round[more[m - 1]]
    <3>1. m - 1 \in 0 .. (n + 1) /\ m - 1 # n + 1 /\ more[m - 1] = run[m - 1]
      OBVIOUS
    <3>2. CASE m = n + 1
      BY <3>1, <3>2
    <3>3. CASE m # n + 1
      <4>1. m \in 1 .. n /\ more[m] = run[m]
        BY <3>3
      <4> QED
        BY <2>1, <3>1, <4>1 DEF IsRun
    <3> QED
      BY <3>2, <3>3
  <2>4. more[0] = start
    BY <2>1 DEF IsRun
  <2>5. n + 1 \in Nat
    OBVIOUS
  <2> HIDE DEF more
  <2>6. IsRun(S, start, round, n + 1, more)
    BY <2>2, <2>3, <2>4 DEF IsRun
  <2> QED
    BY <2>5, <2>6
<1>3. N \in T
  <2> HIDE DEF T
  <2> QED
    BY <1>1, <1>2, NumberInduction
<1> QED
  BY <1>3

\* The states of apply for a permutation of n elements.
ApplyStates(n) == [vec : [1 .. n -> 1 .. n], done : SUBSET (1 .. n), i : 1 .. (n + 1), prev : 0 .. n]

\* What is done is in place, but for the last one of the cycle of i, which
\* holds what i had; the cycles that are followed are followed in order.
ApplyInv(p, n, s) ==
    /\ s \in ApplyStates(n)
    /\ s.prev # 0 => s.prev \in s.done /\ s.i \in s.done /\ s.i <= n /\ s.vec[s.prev] = s.i
    /\ \A k \in s.done : k # s.prev => p[k] \in s.done /\ s.vec[k] = p[k]
    /\ \A k \in s.done : k # s.i \/ s.prev = 0 => \E q \in s.done : q # s.prev /\ p[q] = k
    /\ \A k \in 1 .. n : k \notin s.done => s.vec[k] = k
    /\ \A k \in 1 .. n : k < s.i => k \in s.done

\* The rounds that are behind.
ApplyDone(s) == Cardinality(s.done) + s.i - 1

LEMMA ApplyRoundKeeps ==
    ASSUME NEW n \in Nat, NEW p \in [1 .. n -> 1 .. n],
           \A x, y \in 1 .. n : p[x] = p[y] => x = y,
           NEW s, ApplyInv(p, n, s)
    PROVE  /\ ApplyInv(p, n, ApplyRound(p, s))
           /\ s.i <= n => ApplyDone(ApplyRound(p, s)) = ApplyDone(s) + 1
           /\ s.i > n => ApplyRound(p, s) = s
<1> DEFINE t == ApplyRound(p, s)
           j == p[s.prev]
<1>0. Len(p) = n
  OBVIOUS
<1>1. /\ s \in ApplyStates(n)
      /\ s = [vec |-> s.vec, done |-> s.done, i |-> s.i, prev |-> s.prev]
      /\ s.vec \in [1 .. n -> 1 .. n] /\ s.done \in SUBSET (1 .. n)
      /\ s.i \in 1 .. (n + 1) /\ s.prev \in 0 .. n
  BY DEF ApplyInv, ApplyStates
<1>2. ASSUME NEW k, k \in 1 .. n, k \notin s.done
      PROVE  /\ Cardinality(s.done \cup {k}) = Cardinality(s.done) + 1
             /\ Cardinality(s.done) \in Nat
  <2>1. IsFiniteSet(s.done) /\ Cardinality(s.done) \in Nat
    BY <1>1, PositionsFinite
  <2> QED
    BY <1>2, <2>1, FS_AddElement
<1>3. CASE s.i > n
  <2>1. t = s
    BY <1>0, <1>3 DEF ApplyRound
  <2> QED
    BY <1>1, <1>3, <2>1
<1>4. CASE s.i <= n /\ s.prev = 0 /\ s.i \notin s.done
  <2>0. t = [s EXCEPT !.done = @ \cup {s.i}, !.prev = s.i] /\ ~(s.i > n)
    BY <1>0, <1>1, <1>4 DEF ApplyRound
  <2>1. t = [vec |-> s.vec, done |-> s.done \cup {s.i}, i |-> s.i, prev |-> s.i]
    BY <1>1, <2>0
  <2>2. s.i \in 1 .. n
    BY <1>1, <1>4
  <2> HIDE DEF t
  <2>3. ApplyInv(p, n, t)
    <3>1. t \in ApplyStates(n)
      <4>1. s.done \cup {s.i} \in SUBSET (1 .. n) /\ s.i \in 0 .. n
        BY <1>1, <2>2
      <4> QED
        BY <1>1, <2>1, <4>1 DEF ApplyStates
    <3>2. t.vec = s.vec /\ t.done = s.done \cup {s.i} /\ t.i = s.i /\ t.prev = s.i
      BY <2>1
    <3>3. /\ \A k \in s.done : p[k] \in s.done /\ s.vec[k] = p[k]
          /\ \A k \in s.done : \E q \in s.done : p[q] = k
          /\ \A k \in 1 .. n : k \notin s.done => s.vec[k] = k
          /\ \A k \in 1 .. n : k < s.i => k \in s.done
      <4>1. \A k \in s.done : k # s.prev
        BY <1>1, <1>4
      <4> QED
        BY <1>4, <4>1 DEF ApplyInv
    <3>4. \A k \in t.done : k # t.prev => p[k] \in t.done /\ t.vec[k] = p[k]
      BY <3>2, <3>3
    <3>5. \A k \in t.done : k # t.i \/ t.prev = 0 => \E q \in t.done : q # t.prev /\ p[q] = k
      BY <1>4, <2>2, <3>2, <3>3
    <3>6. t.prev # 0 => t.prev \in t.done /\ t.i \in t.done /\ t.i <= n /\ t.vec[t.prev] = t.i
      BY <1>4, <2>2, <3>2, <3>3
    <3>7. /\ \A k \in 1 .. n : k \notin t.done => t.vec[k] = k
          /\ \A k \in 1 .. n : k < t.i => k \in t.done
      BY <3>2, <3>3
    <3> QED
      BY <3>1, <3>4, <3>5, <3>6, <3>7 DEF ApplyInv
  <2>4. ApplyDone(t) = ApplyDone(s) + 1
    BY <1>1, <1>2, <1>4, <2>1, <2>2 DEF ApplyDone
  <2> QED
    BY <1>4, <2>0, <2>3, <2>4 DEF t
<1>5. CASE s.i <= n /\ s.prev = 0 /\ s.i \in s.done
  <2>0. t = [s EXCEPT !.i = @ + 1, !.prev = 0] /\ ~(s.i > n)
    BY <1>0, <1>1, <1>5 DEF ApplyRound
  <2>1. t = [vec |-> s.vec, done |-> s.done, i |-> s.i + 1, prev |-> 0]
    BY <1>1, <2>0
  <2> HIDE DEF t
  <2>3. ApplyInv(p, n, t)
    <3>1. t \in ApplyStates(n)
      <4>1. s.i + 1 \in 1 .. (n + 1) /\ 0 \in 0 .. n
        BY <1>1, <1>5
      <4> QED
        BY <1>1, <2>1, <4>1 DEF ApplyStates
    <3>2. \A k \in 1 .. n : k < s.i + 1 => k < s.i \/ k = s.i
      BY <1>1
    <3> QED
      BY <1>1, <1>5, <2>1, <3>1, <3>2 DEF ApplyInv
  <2>4. ApplyDone(t) = ApplyDone(s) + 1
    <3>1. Cardinality(s.done) \in Nat
      BY <1>1, PositionsFinite
    <3> QED
      BY <1>1, <2>1, <3>1 DEF ApplyDone
  <2> QED
    BY <1>5, <2>0, <2>3, <2>4 DEF t
<1>6. CASE s.i <= n /\ s.prev # 0 /\ j = s.i
  <2>0. t = [s EXCEPT !.i = @ + 1, !.prev = 0] /\ ~(s.i > n)
    BY <1>0, <1>1, <1>6 DEF ApplyRound
  <2>1. t = [vec |-> s.vec, done |-> s.done, i |-> s.i + 1, prev |-> 0]
    BY <1>1, <2>0
  <2> HIDE DEF t
  <2>3. ApplyInv(p, n, t)
    <3>1. t \in ApplyStates(n)
      <4>1. s.i + 1 \in 1 .. (n + 1) /\ 0 \in 0 .. n
        BY <1>1, <1>6
      <4> QED
        BY <1>1, <2>1, <4>1 DEF ApplyStates
    <3>2. \A k \in 1 .. n : k < s.i + 1 => k < s.i \/ k = s.i
      BY <1>1
    <3> QED
      BY <1>1, <1>6, <2>1, <3>1, <3>2 DEF ApplyInv
  <2>4. ApplyDone(t) = ApplyDone(s) + 1
    <3>1. Cardinality(s.done) \in Nat
      BY <1>1, PositionsFinite
    <3> QED
      BY <1>1, <2>1, <3>1 DEF ApplyDone
  <2> QED
    BY <1>6, <2>0, <2>3, <2>4 DEF t
<1>7. CASE s.i <= n /\ s.prev # 0 /\ j # s.i
  <2>0. t = [s EXCEPT !.vec = Swapped(@, s.prev, j), !.done = @ \cup {j}, !.prev = j] /\ ~(s.i > n)
    BY <1>0, <1>1, <1>7 DEF ApplyRound
  <2>1. t = [vec |-> Swapped(s.vec, s.prev, j), done |-> s.done \cup {j}, i |-> s.i, prev |-> j]
    BY <1>1, <2>0
  <2>2. s.prev \in 1 .. n /\ j \in 1 .. n
    BY <1>1, <1>7
  <2>3. j \notin s.done
    <3>1. SUFFICES ASSUME j \in s.done PROVE FALSE
      OBVIOUS
    <3>2. PICK q \in s.done : q # s.prev /\ p[q] = j
      BY <1>7, <3>1 DEF ApplyInv
    <3> QED
      BY <1>1, <2>2, <3>2
  <2>4. Swapped(s.vec, s.prev, j) =
          [k \in 1 .. n |-> IF k = s.prev THEN j ELSE IF k = j THEN s.i ELSE s.vec[k]]
    <3>1. s.vec[s.prev] = s.i /\ s.vec[j] = j /\ s.prev \in s.done
      BY <1>7, <2>2, <2>3 DEF ApplyInv
    <3> QED
      BY <1>1, <2>2, <2>3, <3>1 DEF Swapped
  <2> HIDE DEF t
  <2>5. ApplyInv(p, n, t)
    <3>1. t \in ApplyStates(n)
      <4>1. s.i \in 1 .. n /\ j \in 0 .. n /\ s.done \cup {j} \in SUBSET (1 .. n)
        BY <1>1, <1>7, <2>2
      <4>2. Swapped(s.vec, s.prev, j) \in [1 .. n -> 1 .. n]
        BY <1>1, <2>2, <2>4, <4>1
      <4> QED
        BY <1>1, <2>1, <4>1, <4>2 DEF ApplyStates
    <3>2. \A k \in t.done : k # t.i \/ t.prev = 0 => \E q \in t.done : q # t.prev /\ p[q] = k
      BY <1>1, <1>7, <2>1, <2>2, <2>3 DEF ApplyInv
    <3>3. \A k \in t.done : k # t.prev => p[k] \in t.done /\ t.vec[k] = p[k]
      BY <1>1, <1>7, <2>1, <2>2, <2>3, <2>4 DEF ApplyInv
    <3>4. t.prev \in t.done /\ t.i \in t.done /\ t.i <= n /\ t.vec[t.prev] = t.i
      BY <1>1, <1>7, <2>1, <2>2, <2>3, <2>4 DEF ApplyInv
    <3>5. \A k \in 1 .. n : k \notin t.done => t.vec[k] = k
      BY <1>1, <1>7, <2>1, <2>2, <2>3, <2>4 DEF ApplyInv
    <3>6. \A k \in 1 .. n : k < t.i => k \in t.done
      BY <1>1, <1>7, <2>1 DEF ApplyInv
    <3> QED
      BY <3>1, <3>2, <3>3, <3>4, <3>5, <3>6 DEF ApplyInv
  <2>6. ApplyDone(t) = ApplyDone(s) + 1
    BY <1>1, <1>2, <2>1, <2>2, <2>3 DEF ApplyDone
  <2> QED
    BY <1>7, <2>0, <2>5, <2>6 DEF t
<1> QED
  BY <1>1, <1>3, <1>4, <1>5, <1>6, <1>7

\* apply puts element p[k] at place k, whatever the cycles of p are.
LEMMA ApplyIs ==
    ASSUME NEW n \in Nat, NEW p \in [1 .. n -> 1 .. n], IsPermutation(p)
    PROVE  apply(p) = p
<1> DEFINE S == {s \in ApplyStates(n) : ApplyInv(p, n, s)}
           N == 2 * n
           Body0(f) == [m \in 0 .. N |-> IF m = 0 THEN ApplyStart(p) ELSE ApplyRound(p, f[m - 1])]
           R == CHOOSE f : f = Body0(f)
<1>0. Len(p) = n /\ DOMAIN p = 1 .. n /\ N \in Nat
  OBVIOUS
<1>1. \A x, y \in 1 .. n : p[x] = p[y] => x = y
  <2>1. p \in Surjection(1 .. n, 1 .. n)
    BY DEF IsPermutation, Surjection
  <2>2. IsFiniteSet(1 .. n)
    <3>1. 1 \in Int /\ n \in Int
      OBVIOUS
    <3> QED
      BY <3>1, FS_Interval
  <2>3. p \in Injection(1 .. n, 1 .. n)
    BY <2>1, <2>2, FS_SurjSameCardinalityImpliesInj
  <2> QED
    BY <2>3 DEF Injection, IsInjective
<1>2. ApplyStart(p) \in S /\ ApplyDone(ApplyStart(p)) = 0
  <2>1. ApplyStart(p) = [vec |-> [k \in 1 .. n |-> k], done |-> {}, i |-> 1, prev |-> 0]
    BY <1>0 DEF ApplyStart
  <2>2. ApplyStart(p) \in ApplyStates(n)
    <3>1. [k \in 1 .. n |-> k] \in [1 .. n -> 1 .. n] /\ 1 \in 1 .. (n + 1) /\ 0 \in 0 .. n
      OBVIOUS
    <3> QED
      BY <2>1, <3>1 DEF ApplyStates
  <2>3. ApplyInv(p, n, ApplyStart(p))
    BY <2>1, <2>2 DEF ApplyInv
  <2>4. ApplyDone(ApplyStart(p)) = 0
    BY <2>1, FS_EmptySet DEF ApplyDone
  <2> QED
    BY <2>2, <2>3, <2>4
<1>3. \A s \in S : ApplyRound(p, s) \in S
  <2>1. \A s : ApplyInv(p, n, s) => ApplyInv(p, n, ApplyRound(p, s))
    BY <1>1, ApplyRoundKeeps
  <2> QED
    BY <2>1 DEF ApplyInv
<1> DEFINE round == [s \in S |-> ApplyRound(p, s)]
<1>4. \E run \in [0 .. N -> S] : run = Body0(run)
  <2> HIDE DEF S, N
  <2>1. round \in [S -> S] /\ ApplyStart(p) \in S
    BY <1>2, <1>3
  <2> DEFINE start == ApplyStart(p)
  <2> HIDE DEF round, start
  <2>2. PICK run : IsRun(S, start, round, N, run)
    <3>1. start \in S
      BY <2>1 DEF start
    <3> QED
      BY <1>0, <2>1, <3>1, LoopRuns
  <2>4. run \in [0 .. N -> S] /\ run[0] = start /\ \A m \in 1 .. N : run[m] = round[run[m - 1]]
    BY <2>2 DEF IsRun
  <2>3. \A m \in 0 .. N : m # 0 => round[run[m - 1]] = ApplyRound(p, run[m - 1])
    <3>1. \A m \in 0 .. N : m # 0 => m - 1 \in 0 .. N
      BY <1>0
    <3>2. \A m \in 0 .. N : m # 0 => run[m - 1] \in S
      BY <2>4, <3>1
    <3> QED
      BY <3>2 DEF round
  <2>5. run = Body0(run)
    <3>1. \A m \in 0 .. N : m # 0 => m \in 1 .. N
      BY <1>0
    <3>2. \A m \in 0 .. N : run[m] = IF m = 0 THEN ApplyStart(p) ELSE ApplyRound(p, run[m - 1])
      BY <2>3, <2>4, <3>1 DEF start
    <3>3. run = [m \in 0 .. N |-> run[m]]
      BY <2>4
    <3> QED
      BY <3>2, <3>3
  <2> QED
    BY <2>4, <2>5
<1>5. R = Body0(R) /\ apply(p) = R[N].vec
  <2>1. R = Body0(R)
    <3> HIDE DEF Body0
    <3> QED
      BY <1>4
  <2>2. apply(p) = R[N].vec
    BY <1>0 DEF apply
  <2> QED
    BY <2>1, <2>2
<1> HIDE DEF R
<1>6. ASSUME NEW s, ApplyInv(p, n, s), s.i > n
      PROVE  ApplyDone(s) = N /\ s.vec = p
  <2>1. /\ s.vec \in [1 .. n -> 1 .. n] /\ s.done \in SUBSET (1 .. n)
        /\ s.i = n + 1 /\ s.prev \in 0 .. n
    <3>1. s \in ApplyStates(n)
      BY <1>6 DEF ApplyInv
    <3>2. s.i \in 1 .. (n + 1) /\ s.prev \in 0 .. n
      BY <3>1 DEF ApplyStates
    <3>3. s.i = n + 1
      BY <1>6, <3>2
    <3> QED
      BY <3>1, <3>3 DEF ApplyStates
  <2>2. s.prev = 0 /\ s.done = 1 .. n
    <3>1. ~(s.i <= n) /\ \A k \in 1 .. n : k < s.i
      BY <2>1
    <3> QED
      BY <1>6, <2>1, <3>1 DEF ApplyInv
  <2>3. Cardinality(s.done) = n
    <3>1. 1 \in Int /\ n \in Int /\ (IF 1 > n THEN 0 ELSE n - 1 + 1) = n
      OBVIOUS
    <3> QED
      BY <2>2, <3>1, FS_Interval
  <2>4. \A k \in 1 .. n : s.vec[k] = p[k]
    <3>1. \A k \in s.done : k # s.prev => s.vec[k] = p[k]
      BY <1>6 DEF ApplyInv
    <3>2. \A k \in 1 .. n : k \in s.done /\ k # s.prev
      BY <2>2
    <3> QED
      BY <3>1, <3>2
  <2> QED
    BY <2>1, <2>3, <2>4 DEF ApplyDone
<1> DEFINE T == {m \in Nat : m <= N => R[m] \in S /\ ApplyDone(R[m]) = m}
<1>7. 0 \in T
  <2>1. R[0] = ApplyStart(p)
    BY <1>5
  <2> HIDE DEF S
  <2> QED
    BY <1>2, <2>1
<1>8. ASSUME NEW m \in Nat, m \in T PROVE m + 1 \in T
  <2> SUFFICES ASSUME m + 1 <= N PROVE R[m + 1] \in S /\ ApplyDone(R[m + 1]) = m + 1
    OBVIOUS
  <2>1. R[m] \in S /\ ApplyDone(R[m]) = m /\ m < N
    BY <1>8
  <2>2. R[m + 1] = ApplyRound(p, R[m])
    BY <1>5
  <2>3. R[m].i \in 1 .. (n + 1) /\ R[m].i <= n
    <3>1. ApplyInv(p, n, R[m]) /\ R[m] \in ApplyStates(n)
      BY <2>1
    <3>2. ~(R[m].i > n)
      BY <1>6, <2>1, <3>1
    <3>3. R[m].i \in 1 .. (n + 1)
      BY <3>1 DEF ApplyStates
    <3> QED
      BY <3>2, <3>3
  <2>4. ApplyDone(ApplyRound(p, R[m])) = ApplyDone(R[m]) + 1
    <3>1. ApplyInv(p, n, R[m])
      BY <2>1
    <3> QED
      BY <1>1, <2>3, <3>1, ApplyRoundKeeps
  <2> QED
    BY <1>3, <2>1, <2>2, <2>4
<1>9. R[N] \in S /\ ApplyDone(R[N]) = N
  <2>1. N \in T
    <3> HIDE DEF T, N
    <3> QED
      BY <1>0, <1>7, <1>8, NumberInduction
  <2> QED
    BY <2>1
<1>10. R[N].i > n
  <2>1. Cardinality(R[N].done) <= n /\ Cardinality(R[N].done) \in Nat
    <3>1. 1 \in Int /\ n \in Int /\ (IF 1 > n THEN 0 ELSE n - 1 + 1) = n
      OBVIOUS
    <3>2. IsFiniteSet(1 .. n) /\ Cardinality(1 .. n) = n
      BY <3>1, FS_Interval
    <3>3. R[N].done \in SUBSET (1 .. n)
      BY <1>9 DEF ApplyStates
    <3> QED
      BY <3>2, <3>3, FS_Subset, FS_CardinalityType
  <2>2. R[N].i \in 1 .. (n + 1)
    BY <1>9 DEF ApplyStates
  <2>3. CASE n = 0
    BY <2>2, <2>3
  <2>4. CASE n > 0 /\ R[N].i <= n
    <3>1. Cardinality(R[N].done) + R[N].i - 1 = 2 * n
      BY <1>9 DEF ApplyDone
    <3> QED
      BY <2>1, <2>2, <2>4, <3>1
  <2> QED
    BY <2>2, <2>3, <2>4
<1> QED
  BY <1>5, <1>6, <1>9, <1>10

-----------------------------------------------------------------------------
(* Slices of diagonals.                                                    *)

LEMMA FirstPosition ==
    ASSUME NEW d \in Nat, NEW poss \in SUBSET (1 .. d), poss # {}
    PROVE  first_pos(poss) \in poss /\ \A q \in poss : first_pos(poss) <= q
<1>1. \E pos \in poss : \A q \in poss : pos <= q
  <2>1. poss \in SUBSET Nat
    OBVIOUS
  <2> QED
    BY <2>1, LeastNumber
<1> QED
  BY <1>1 DEF first_pos

\* The position that is resolved first is one of the diagonal.
LEMMA MinCardPosition ==
    ASSUME NEW d \in Depths, NEW es \in SUBSET Keys(d), NEW poss \in SUBSET (1 .. d), poss # {}
    PROVE  min_card_pos(es, poss) \in poss
<1> DEFINE card(pos) == Cardinality(PartsAt(es, pos))
           least == {pos \in poss : \A q \in poss : card(pos) <= card(q)}
           C == {card(pos) : pos \in poss}
<1>1. \A pos \in poss : card(pos) \in Nat
  BY PartsAtType, KeyPartsFinite, FS_Subset, FS_CardinalityType
<1>2. PICK n \in C : \A m \in C : n <= m
  <2>1. C \in SUBSET Nat /\ C # {}
    BY <1>1
  <2> HIDE DEF C
  <2> QED
    BY <2>1, LeastNumber
<1>3. least # {} /\ least \in SUBSET (1 .. d) /\ least \in SUBSET poss
  <2>1. PICK pos \in poss : n = card(pos)
    OBVIOUS
  <2>2. \A q \in poss : card(pos) <= card(q)
    BY <1>2, <2>1
  <2>3. pos \in least
    BY <2>2
  <2> QED
    BY <2>3
<1>4. d \in Nat
  BY DEF Depths
<1>5. min_card_pos(es, poss) = first_pos(least)
  BY DEF min_card_pos
<1> HIDE DEF least
<1>6. first_pos(least) \in least
  BY <1>3, <1>4, FirstPosition
<1> QED
  BY <1>3, <1>5, <1>6

\* What is left of a diagonal below one of its positions.
LEMMA DiagonalBelow ==
    ASSUME NEW d \in Depths, NEW es \in SUBSET Keys(d), NEW poss \in SUBSET (1 .. d),
           NEW pos \in poss, NEW kp \in KeyParts
    PROVE  LET sub == sub_raw_key_positions(poss, pos)
           IN  /\ sub \in SUBSET (1 .. (d - 1))
               /\ Cardinality(sub) = Cardinality(poss) - 1 /\ Cardinality(poss) \in Nat
               /\ IsFiniteSet(poss) /\ IsFiniteSet(sub)
               /\ SliceOf(SubEntries(es, pos, kp), Diagonal(sub, kp)) = SliceOf(es, Diagonal(poss, kp))
<1> DEFINE fixed == Diagonal(poss, kp)
           sub == sub_raw_key_positions(poss, pos)
<1>1. fixed \in [poss -> KeyParts] /\ fixed[pos] = kp /\ DOMAIN fixed = poss
  BY DEF Diagonal
<1>2. sub = DOMAIN Shift(fixed, pos)
  BY DEF sub_raw_key_positions, Shift, Diagonal
<1>3. /\ Shift(fixed, pos) \in SliceKeys(d - 1)
      /\ Cardinality(DOMAIN Shift(fixed, pos)) = Cardinality(poss) - 1 /\ IsFiniteSet(poss)
  BY <1>1, ShiftFacts
<1>4. sub \in SUBSET (1 .. (d - 1))
  BY <1>2, <1>3 DEF SliceKeys
<1>5. Shift(fixed, pos) = Diagonal(sub, kp)
  <2> DEFINE D == {IF q > pos THEN q - 1 ELSE q : q \in poss \ {pos}}
  <2>1. DOMAIN Shift(fixed, pos) = D
        /\ Shift(fixed, pos) = [p \in D |-> IF p >= pos THEN fixed[p + 1] ELSE fixed[p]]
    BY <1>1 DEF Shift
  <2>2. \A p \in D : (IF p >= pos THEN fixed[p + 1] ELSE fixed[p]) = kp
    <3> SUFFICES ASSUME NEW q \in poss \ {pos}
                 PROVE  LET p == IF q > pos THEN q - 1 ELSE q
                        IN  (IF p >= pos THEN fixed[p + 1] ELSE fixed[p]) = kp
      OBVIOUS
    <3>1. q \in 1 .. d /\ pos \in 1 .. d /\ q # pos
      OBVIOUS
    <3>2. CASE q > pos
      <4>1. q - 1 >= pos /\ (q - 1) + 1 = q
        BY <3>1, <3>2
      <4> QED
        BY <3>2, <4>1 DEF Diagonal
    <3>3. CASE ~(q > pos)
      <4>1. ~(q >= pos)
        BY <3>1, <3>3
      <4> QED
        BY <3>3, <4>1 DEF Diagonal
    <3> QED
      BY <3>2, <3>3
  <2> HIDE DEF D
  <2> QED
    BY <1>2, <2>1, <2>2 DEF Diagonal
<1>6. SliceOf(SubEntries(es, pos, fixed[pos]), Shift(fixed, pos)) = SliceOf(es, fixed)
  BY <1>1, SliceBelow
<1>7. IsFiniteSet(sub) /\ Cardinality(poss) \in Nat
  <2>1. d - 1 \in Int
    BY DEF Depths
  <2> HIDE DEF sub
  <2> QED
    BY <1>3, <1>4, <2>1, PositionsFinite, FS_CardinalityType
<1> QED
  BY <1>1, <1>2, <1>3, <1>4, <1>5, <1>6, <1>7

\* A slice result that holds the entries es at depth rd.  A node of the
\* storage is referred to, a single entry written to the address; one that
\* is kept in place does not use the address.
GoodSlice(v, es, rd, address) ==
    IF es = {} THEN v = EmptySlice
    ELSE IF rd = 0 THEN v = SliceResult("scalar", NoAddress, es)
    ELSE \/ v = SliceResult("node", NoAddress, es)
         \/ /\ v = SliceResult("cache", v.address, es)
            /\ v.address = address \/ (Taggable /\ rd = 1)

\* The parts of a slice result.
LEMMA SliceResultFacts ==
    ASSUME NEW at, NEW address, NEW es
    PROVE  /\ SliceResult(at, address, es).at = at
           /\ SliceResult(at, address, es).address = address
           /\ SliceResult(at, address, es).es = es
BY DEF SliceResult

LEMMA CachedSlice ==
    ASSUME NEW es, es # {}, NEW rd, rd # 0, NEW address, NEW own,
           own = address \/ (Taggable /\ rd = 1)
    PROVE  GoodSlice(SliceResult("cache", own, es), es, rd, address)
<1> DEFINE v == SliceResult("cache", own, es)
<1>1. v.address = own
  BY SliceResultFacts
<1>2. v = SliceResult("cache", v.address, es)
  BY <1>1
<1>3. v.address = address \/ (Taggable /\ rd = 1)
  BY <1>1
<1> HIDE DEF v
<1>4. GoodSlice(v, es, rd, address)
  BY <1>2, <1>3 DEF GoodSlice
<1> QED
  BY <1>4 DEF v

\* diagonal_slice_rek at depth d, with below for the depth below.
RekBody(below, d, kp, address) ==
    [es \in SUBSET Keys(d) |-> [poss \in SUBSET (1 .. d) |->
        LET pos == min_card_pos(es, poss)
            child == SubEntries(es, pos, kp)
        IN  IF Cardinality(es) = 1
            THEN SingleEntrySlice(d - Cardinality(poss), address, SliceOf(es, Diagonal(poss, kp)))
            ELSE IF child = {} THEN EmptySlice
            ELSE IF Cardinality(poss) = 1 THEN SliceResult("node", NoAddress, child)
            ELSE below[child][sub_raw_key_positions(poss, pos)]]]

LEMMA RekEquation ==
    ASSUME NEW kp \in KeyParts, NEW address
    PROVE  \A d \in 0 .. MaxDepth :
              diagonal_slice_rek(kp, address)[d] =
                RekBody(diagonal_slice_rek(kp, address)[d - 1], d, kp, address)
<1> DEFINE Body0(below, d) == RekBody(below, d, kp, address)
           T == {n \in 0 .. MaxDepth : \E f : f = [d \in 0 .. n |-> Body0(f[d - 1], d)]}
<1>1. \A x, y : Body0(x, 0) = Body0(y, 0)
  <2>1. \A es \in SUBSET Keys(0) : Cardinality(es) # 1 => es = {}
    <3>1. Keys(0) = {<<>>}
      BY KeysAtZero
    <3>2. Cardinality({<<>>}) = 1
      BY FS_Singleton
    <3>3. \A es \in SUBSET Keys(0) : es = {} \/ es = {<<>>}
      BY <3>1
    <3> QED
      BY <3>2, <3>3
  <2>2. \A pos : SubEntries({}, pos, kp) = {}
    BY DEF SubEntries
  <2>3. \A es \in SUBSET Keys(0) : \A pos : Cardinality(es) # 1 => SubEntries(es, pos, kp) = {}
    BY <2>1, <2>2
  <2> QED
    BY <2>3 DEF RekBody
<1> HIDE DEF Body0
<1>2. 0 \in T
  <2> DEFINE f == [d \in 0 .. 0 |-> Body0({}, 0)]
  <2>1. f = [d \in 0 .. 0 |-> Body0(f[d - 1], d)]
    BY <1>1
  <2> QED
    BY <2>1, MaxDepthAssumption
<1>3. ASSUME NEW d \in Depths, d - 1 \in T PROVE d \in T
  <2>1. PICK f : f = [e \in 0 .. (d - 1) |-> Body0(f[e - 1], e)]
    BY <1>3
  <2> DEFINE g == [e \in 0 .. d |-> IF e = d THEN Body0(f[d - 1], d) ELSE f[e]]
  <2>2. d \in Nat \ {0} /\ d \in 0 .. MaxDepth
    BY MaxDepthAssumption DEF Depths
  <2>3. ASSUME NEW e \in 0 .. d PROVE g[e] = Body0(g[e - 1], e)
    <3>1. CASE e = 0
      <4>1. g[e] = Body0(f[e - 1], e)
        BY <2>1, <2>2, <3>1
      <4> QED
        BY <1>1, <3>1, <4>1
    <3>2. CASE e # 0 /\ e # d
      <4>1. e - 1 \in 0 .. d /\ e - 1 # d /\ e \in 0 .. (d - 1)
        BY <2>2, <3>2
      <4>2. g[e] = f[e] /\ g[e - 1] = f[e - 1]
        BY <3>2, <4>1
      <4>3. f[e] = Body0(f[e - 1], e)
        BY <2>1, <4>1
      <4> QED
        BY <4>2, <4>3
    <3>3. CASE e = d
      <4>1. d - 1 \in 0 .. d /\ d - 1 # d
        BY <2>2
      <4>2. g[e] = Body0(f[d - 1], d) /\ g[e - 1] = f[d - 1]
        BY <3>3, <4>1
      <4> QED
        BY <3>3, <4>2
    <3> QED
      BY <3>1, <3>2, <3>3
  <2>4. g = [e \in 0 .. d |-> g[e]]
    OBVIOUS
  <2> HIDE DEF g
  <2>5. g = [e \in 0 .. d |-> Body0(g[e - 1], e)]
    BY <2>3, <2>4
  <2> QED
    BY <2>2, <2>5
<1>4. MaxDepth \in T
  <2>1. Inductive(T)
    BY <1>2, <1>3 DEF Inductive
  <2> HIDE DEF T
  <2> QED
    BY <2>1, DepthInduction, MaxDepthAssumption
<1>5. \E f : f = [d \in 0 .. MaxDepth |-> RekBody(f[d - 1], d, kp, address)]
  BY <1>4 DEF Body0
<1> DEFINE rek == diagonal_slice_rek(kp, address)
<1>6. rek = [d \in 0 .. MaxDepth |-> RekBody(rek[d - 1], d, kp, address)]
  BY <1>5 DEF diagonal_slice_rek, RekBody
<1> HIDE DEF rek
<1>7. \A d \in 0 .. MaxDepth : rek[d] = RekBody(rek[d - 1], d, kp, address)
  BY <1>6
<1> QED
  BY <1>7 DEF rek

LEMMA RekExact ==
    ASSUME NEW kp \in KeyParts, NEW address
    PROVE  \A d \in 0 .. MaxDepth : \A es \in SUBSET Keys(d) : \A poss \in SUBSET (1 .. d) :
              es # {} /\ poss # {} /\ Cardinality(poss) < d =>
              GoodSlice(diagonal_slice_rek(kp, address)[d][es][poss],
                        SliceOf(es, Diagonal(poss, kp)), d - Cardinality(poss), address)
<1> DEFINE rek == diagonal_slice_rek(kp, address)
           T == {d \in 0 .. MaxDepth : \A es \in SUBSET Keys(d) : \A poss \in SUBSET (1 .. d) :
                    es # {} /\ poss # {} /\ Cardinality(poss) < d =>
                    GoodSlice(rek[d][es][poss], SliceOf(es, Diagonal(poss, kp)),
                              d - Cardinality(poss), address)}
<1>1. 0 \in T
  <2>1. \A poss \in SUBSET (1 .. 0) : poss = {}
    OBVIOUS
  <2>2. 0 \in 0 .. MaxDepth
    BY MaxDepthAssumption
  <2> HIDE DEF rek
  <2> QED
    BY <2>1, <2>2
<1>2. ASSUME NEW d \in Depths, d - 1 \in T PROVE d \in T
  <2>0. d \in Nat \ {0} /\ d \in 0 .. MaxDepth /\ d - 1 \in 0 .. MaxDepth
    BY MaxDepthAssumption DEF Depths
  <2>1. SUFFICES ASSUME NEW es \in SUBSET Keys(d), NEW poss \in SUBSET (1 .. d),
                        es # {}, poss # {}, Cardinality(poss) < d
                 PROVE  GoodSlice(rek[d][es][poss], SliceOf(es, Diagonal(poss, kp)),
                                  d - Cardinality(poss), address)
    BY <2>0
  <2> DEFINE pos == min_card_pos(es, poss)
             child == SubEntries(es, pos, kp)
             sub == sub_raw_key_positions(poss, pos)
             slice == SliceOf(es, Diagonal(poss, kp))
             rd == d - Cardinality(poss)
             result == rek[d][es][poss]
  <2>2. result = IF Cardinality(es) = 1 THEN SingleEntrySlice(rd, address, slice)
                 ELSE IF child = {} THEN EmptySlice
                 ELSE IF Cardinality(poss) = 1 THEN SliceResult("node", NoAddress, child)
                 ELSE rek[d - 1][child][sub]
    <3>1. rek[d] = RekBody(rek[d - 1], d, kp, address)
      BY <2>0, RekEquation
    <3> HIDE DEF rek
    <3> QED
      BY <3>1 DEF RekBody
  <2>3. pos \in poss
    BY <2>1, MinCardPosition
  <2>4. /\ sub \in SUBSET (1 .. (d - 1))
        /\ Cardinality(sub) = Cardinality(poss) - 1 /\ Cardinality(poss) \in Nat
        /\ IsFiniteSet(poss) /\ IsFiniteSet(sub)
        /\ SliceOf(child, Diagonal(sub, kp)) = slice
    <3> HIDE DEF pos
    <3> QED
      BY <2>3, DiagonalBelow
  <2>5. child \in SUBSET Keys(d - 1)
    BY <2>3, SubEntriesType
  <2>6. rd \in Nat \ {0} /\ Cardinality(poss) # 0
    BY <2>0, <2>1, <2>4, FS_EmptySet
  <2> HIDE DEF rek, pos, child, sub, slice, rd, result
  <2>7. CASE Cardinality(es) = 1
    <3>1. result = SingleEntrySlice(rd, address, slice)
      BY <2>2, <2>7
    <3>2. GoodSlice(result, slice, rd, address)
      <4>2. CASE slice = {}
        BY <3>1, <4>2 DEF SingleEntrySlice, GoodSlice
      <4>3. CASE slice # {} /\ Taggable /\ rd = 1
        <5>1. result = SliceResult("cache", NoAddress, slice)
          BY <3>1, <4>3 DEF SingleEntrySlice
        <5> QED
          BY <2>6, <4>3, <5>1, CachedSlice
      <4>4. CASE slice # {} /\ ~(Taggable /\ rd = 1)
        <5>1. result = SliceResult("cache", address, slice)
          BY <3>1, <4>4 DEF SingleEntrySlice
        <5> QED
          BY <2>6, <4>4, <5>1, CachedSlice
      <4> QED
        BY <4>2, <4>3, <4>4
    <3> QED
      BY <3>2 DEF result, slice, rd
  <2>8. CASE Cardinality(es) # 1 /\ child = {}
    <3>1. result = EmptySlice
      BY <2>2, <2>8
    <3>2. slice = {}
      BY <2>4, <2>8 DEF SliceOf
    <3>3. GoodSlice(result, slice, rd, address)
      BY <3>1, <3>2 DEF GoodSlice
    <3> QED
      BY <3>3 DEF result, slice, rd
  <2>9. CASE Cardinality(es) # 1 /\ child # {} /\ Cardinality(poss) = 1
    <3>1. result = SliceResult("node", NoAddress, child)
      BY <2>2, <2>9
    <3>2. sub = {}
      <4>1. Cardinality(sub) = 0
        BY <2>4, <2>9
      <4> QED
        BY <2>4, <4>1, FS_EmptySet
    <3>3. slice = child
      <4>1. DOMAIN Diagonal(sub, kp) = {} /\ d - 1 \in Nat
        BY <2>0, <3>2 DEF Diagonal
      <4> QED
        BY <2>4, <2>5, <4>1, SliceNothing
    <3>4. GoodSlice(result, slice, rd, address)
      BY <2>6, <2>9, <3>1, <3>3 DEF GoodSlice
    <3> QED
      BY <3>4 DEF result, slice, rd
  <2>10. CASE Cardinality(es) # 1 /\ child # {} /\ Cardinality(poss) # 1
    <3>1. result = rek[d - 1][child][sub]
      BY <2>2, <2>10
    <3>2. Cardinality(sub) < d - 1 /\ sub # {} /\ rd = (d - 1) - Cardinality(sub)
      <4>1. Cardinality(sub) # 0 /\ Cardinality(sub) < d - 1 /\ rd = (d - 1) - Cardinality(sub)
        BY <2>0, <2>1, <2>4, <2>6, <2>10 DEF rd
      <4> QED
        BY <4>1, FS_EmptySet
    <3>3. GoodSlice(rek[d - 1][child][sub], SliceOf(child, Diagonal(sub, kp)),
                    (d - 1) - Cardinality(sub), address)
      BY <1>2, <2>4, <2>5, <2>10, <3>2
    <3>4. GoodSlice(result, slice, rd, address)
      BY <2>4, <3>1, <3>2, <3>3
    <3> QED
      BY <3>4 DEF result, slice, rd
  <2> QED
    BY <2>7, <2>8, <2>9, <2>10
<1>3. Inductive(T)
  BY <1>1, <1>2 DEF Inductive
<1>4. \A d \in 0 .. MaxDepth : d \in T
  <2> HIDE DEF T
  <2> QED
    BY <1>3, DepthInduction
<1> QED
  BY <1>4

\* When every position is fixed, nothing is left of a key.
LEMMA NothingFree ==
    ASSUME NEW d \in Depths, NEW k \in Keys(d), NEW poss \in SUBSET (1 .. d), Cardinality(poss) = d,
           NEW kp
    PROVE  Project(k, Diagonal(poss, kp)) = <<>>
<1> DEFINE free == Free(d, Diagonal(poss, kp))
<1>0. d \in Nat /\ d \in Int /\ 1 \in Int
  BY DEF Depths
<1>1. poss = 1 .. d
  <2>1. (IF 1 > d THEN 0 ELSE d - 1 + 1) = d
    BY <1>0
  <2>2. IsFiniteSet(1 .. d) /\ Cardinality(1 .. d) = d
    BY <1>0, <2>1, FS_Interval
  <2> QED
    BY <2>2, FS_Subset
<1>2. Len(k) = d /\ free = {}
  BY <1>0, <1>1 DEF Free, Diagonal, Keys
<1>3. Cardinality(free) = 0
  BY <1>2, FS_EmptySet
<1>4. Project(k, Diagonal(poss, kp)) = [j \in 1 .. Cardinality(free) |-> k[AtRank(free, j)]]
  BY <1>0, <1>2, ProjectIs
<1>5. Project(k, Diagonal(poss, kp)) \in [1 .. 0 -> KeyParts]
  <2> HIDE DEF free
  <2>1. \A j \in 1 .. 0 : FALSE
    OBVIOUS
  <2> QED
    BY <1>3, <1>4, <2>1
<1> QED
  BY <1>5, KeysAtZero DEF Keys

\* diagonal_slice returns the slice.
LEMMA DiagonalSliceExact ==
    ASSUME NEW d \in Depths, NEW es \in SUBSET Keys(d), NEW poss \in SUBSET (1 .. d), poss # {},
           NEW kp \in KeyParts, NEW address
    PROVE  GoodSlice(diagonal_slice(d, es, poss, kp, address), SliceOf(es, Diagonal(poss, kp)),
                     d - Cardinality(poss), address)
<1> DEFINE slice == SliceOf(es, Diagonal(poss, kp))
           result == diagonal_slice(d, es, poss, kp, address)
           rd == d - Cardinality(poss)
<1>0. d \in Nat \ {0} /\ d \in 0 .. MaxDepth /\ d \in Int /\ 1 \in Int
  BY MaxDepthAssumption DEF Depths
<1>1. /\ IsFiniteSet(1 .. d) /\ Cardinality(1 .. d) = d
      /\ Cardinality(poss) \in Nat /\ Cardinality(poss) <= d
      /\ Cardinality(poss) = d => poss = 1 .. d
  <2>1. (IF 1 > d THEN 0 ELSE d - 1 + 1) = d
    BY <1>0
  <2>2. IsFiniteSet(1 .. d) /\ Cardinality(1 .. d) = d
    BY <1>0, <2>1, FS_Interval
  <2> QED
    BY <2>2, FS_Subset, FS_CardinalityType
<1>2. CASE Cardinality(poss) = d
  <2> DEFINE diag == [i \in 1 .. d |-> kp]
  <2>1. result = IF diag \in es THEN SliceResult("scalar", NoAddress, {<<>>}) ELSE EmptySlice
    BY <1>2 DEF diagonal_slice
  <2>2. ASSUME NEW k \in es PROVE Matches(k, Diagonal(poss, kp)) <=> k = diag
    BY <1>1, <1>2 DEF Matches, Diagonal, Keys
  <2>3. ASSUME NEW k \in es PROVE Project(k, Diagonal(poss, kp)) = <<>>
    BY <1>2, NothingFree
  <2>4. slice = IF diag \in es THEN {<<>>} ELSE {}
    BY <2>2, <2>3 DEF SliceOf
  <2>5. rd = 0
    BY <1>0, <1>2
  <2> HIDE DEF diag, rd, slice, result
  <2>6. GoodSlice(result, slice, rd, address)
    BY <2>1, <2>4, <2>5 DEF GoodSlice
  <2> QED
    BY <2>6 DEF rd, slice, result
<1>3. CASE Cardinality(poss) # d /\ es = {}
  <2>1. result = EmptySlice
    BY <1>3 DEF diagonal_slice
  <2>2. slice = {}
    BY <1>3 DEF SliceOf
  <2> QED
    BY <2>1, <2>2 DEF GoodSlice
<1>4. CASE Cardinality(poss) # d /\ es # {}
  <2>1. result = diagonal_slice_rek(kp, address)[d][es][poss]
    BY <1>4 DEF diagonal_slice
  <2>2. Cardinality(poss) < d
    BY <1>0, <1>1, <1>4
  <2> QED
    BY <1>0, <1>4, <2>1, <2>2, RekExact
<1> QED
  BY <1>2, <1>3, <1>4

\* A slice is empty for a key part that is missing at one of the positions.
LEMMA SliceParts ==
    ASSUME NEW es, NEW poss, NEW kp, NEW pos \in poss, SliceOf(es, Diagonal(poss, kp)) # {}
    PROVE  kp \in PartsAt(es, pos)
BY DEF SliceOf, Diagonal, Matches, PartsAt

-----------------------------------------------------------------------------
(* Diagonals.                                                              *)

\* A labelled operand and the positions of the label.
GoodOperand(o, poss) ==
    /\ o.depth \in Depths /\ o.es \in SUBSET Keys(o.depth) /\ o.es # {}
    /\ poss \in SUBSET (1 .. o.depth) /\ poss # {}

\* The slice of a diagonal for a key part.
SliceAt(g, kp) == SliceOf(g.op.es, Diagonal(g.poss, kp))

LEMMA RetrieveExact ==
    ASSUME NEW g, GoodOperand(g.op, g.poss), NEW address,
           NEW kp \in PartsAt(g.op.es, min_card_pos(g.op.es, g.poss))
    PROVE  GoodSlice(retrieve_value(g, kp, address), SliceAt(g, kp), result_depth(g), address)
<1> DEFINE d == g.op.depth
           es == g.op.es
           poss == g.poss
           pos == min_card_pos(es, poss)
           child == SubEntries(es, pos, kp)
           sub == sub_raw_key_positions(poss, pos)
           slice == SliceOf(es, Diagonal(poss, kp))
           result == retrieve_value(g, kp, address)
           rd == d - Cardinality(poss)
<1>0. /\ d \in Depths /\ es \in SUBSET Keys(d) /\ es # {} /\ poss \in SUBSET (1 .. d) /\ poss # {}
      /\ d \in Nat \ {0} /\ rd = result_depth(g) /\ slice = SliceAt(g, kp)
  BY DEF GoodOperand, Depths, result_depth, SliceAt
<1>1. pos \in poss /\ kp \in KeyParts
  <2> HIDE DEF d, es, poss
  <2>1. min_card_pos(es, poss) \in poss
    BY <1>0, MinCardPosition
  <2>2. kp \in PartsAt(es, pos)
    BY DEF es, poss
  <2> QED
    BY <1>0, <2>1, <2>2, PartsAtType
<1>2. child # {}
  BY DEF PartsAt, SubEntries
<1>3. result = IF Cardinality(poss) > 1 THEN diagonal_slice(d - 1, child, sub, kp, address)
               ELSE IF rd = 0 THEN SliceResult("scalar", NoAddress, {<<>>})
               ELSE SliceResult("node", NoAddress, child)
  BY DEF retrieve_value, result_depth
<1> HIDE DEF d, es, poss, result
<1>4. /\ sub \in SUBSET (1 .. (d - 1))
      /\ Cardinality(sub) = Cardinality(poss) - 1 /\ Cardinality(poss) \in Nat
      /\ IsFiniteSet(poss) /\ IsFiniteSet(sub)
      /\ SliceOf(child, Diagonal(sub, kp)) = slice
  <2> HIDE DEF pos
  <2> QED
    BY <1>0, <1>1, DiagonalBelow
<1>5. child \in SUBSET Keys(d - 1)
  BY <1>0, <1>1, SubEntriesType
<1>6. Cardinality(poss) \in Nat \ {0}
  BY <1>0, <1>4, FS_EmptySet
<1> HIDE DEF pos, child, sub, slice
<1>7. CASE Cardinality(poss) > 1
  <2>1. sub # {}
    <3>1. Cardinality(sub) # 0
      BY <1>4, <1>7
    <3> QED
      BY <3>1, FS_EmptySet
  <2>2. d - 1 \in Depths
    <3>1. Cardinality(poss) <= d
      <4>1. (IF 1 > d THEN 0 ELSE d - 1 + 1) = d /\ 1 \in Int /\ d \in Int
        BY <1>0
      <4>2. IsFiniteSet(1 .. d) /\ Cardinality(1 .. d) = d
        BY <4>1, FS_Interval
      <4> QED
        BY <1>0, <4>2, FS_Subset
    <3> QED
      BY <1>0, <1>6, <1>7, <3>1, MaxDepthAssumption DEF Depths
  <2>3. GoodSlice(diagonal_slice(d - 1, child, sub, kp, address), slice,
                  (d - 1) - Cardinality(sub), address)
    BY <1>1, <1>4, <1>5, <2>1, <2>2, DiagonalSliceExact
  <2>4. (d - 1) - Cardinality(sub) = rd
    BY <1>0, <1>4
  <2>5. result = diagonal_slice(d - 1, child, sub, kp, address)
    BY <1>3, <1>7
  <2>6. GoodSlice(result, slice, rd, address)
    BY <2>3, <2>4, <2>5
  <2> QED
    BY <1>0, <2>6 DEF result
<1>8. CASE ~(Cardinality(poss) > 1)
  <2>1. Cardinality(poss) = 1 /\ rd = d - 1
    BY <1>6, <1>8
  <2>2. sub = {}
    BY <1>4, <2>1, FS_EmptySet
  <2>3. slice = child
    <3>1. DOMAIN Diagonal(sub, kp) = {} /\ d - 1 \in Nat
      BY <1>0, <2>2 DEF Diagonal
    <3> QED
      BY <1>4, <1>5, <3>1, SliceNothing
  <2>4. rd = 0 => child = {<<>>}
    <3>1. rd = 0 => child \in SUBSET {<<>>}
      BY <1>5, <2>1, KeysAtZero
    <3> QED
      BY <1>2, <3>1
  <2>5. GoodSlice(result, slice, rd, address)
    BY <1>2, <1>3, <1>8, <2>3, <2>4 DEF GoodSlice
  <2> QED
    BY <1>0, <2>5 DEF result
<1> QED
  BY <1>7, <1>8

\* The key part of a single entry variant.
SinglePart(g) == (CHOOSE k \in g.op.es : TRUE)[first_pos(g.poss)]

\* A diagonal at an address: its value is in its own cache, unless it is a
\* node of the storage or kept in place.
GoodDiagonal(g, address) ==
    /\ g = [op |-> g.op, poss |-> g.poss, rest |-> g.rest, kp |-> g.kp, value |-> g.value,
            cache |-> g.cache]
    /\ GoodOperand(g.op, g.poss)
    /\ IF is_full(g.op) THEN g.rest \in SUBSET PartsAt(g.op.es, min_card_pos(g.op.es, g.poss))
                        ELSE g.rest = {}
    /\ g.kp \in KeyParts \cup {NoPart}
    /\ GoodSlice(g.value, g.value.es, result_depth(g), address)
    /\ g.value.at = "cache" /\ ~(Taggable /\ result_depth(g) = 1) => g.cache = g.value.es
    /\ ~is_full(g.op) => GoodSlice(g.value, SliceAt(g, SinglePart(g)), result_depth(g), address)

\* Two states of one diagonal.
SameDiagonal(g, h) == h.op = g.op /\ h.poss = g.poss

LEMMA SameFacts ==
    ASSUME NEW g, NEW h, SameDiagonal(g, h)
    PROVE  /\ \A kp : SliceAt(h, kp) = SliceAt(g, kp)
           /\ SinglePart(h) = SinglePart(g) /\ result_depth(h) = result_depth(g)
           /\ is_diagonal(h) = is_diagonal(g) /\ diagonal_size(h) = diagonal_size(g)
BY DEF SameDiagonal, SliceAt, SinglePart, result_depth, is_diagonal, diagonal_size

\* What a slice result tells.
LEMMA GoodSliceFacts ==
    ASSUME NEW v, NEW es, NEW rd, NEW address, GoodSlice(v, es, rd, address)
    PROVE  /\ v.es = es
           /\ is_empty(v) <=> es = {}
           /\ v.at = "cache" /\ ~(Taggable /\ rd = 1) => v.address = address
           /\ v.at = "scalar" => rd = 0
           /\ v = [at |-> v.at, address |-> v.address, es |-> v.es]
           /\ GoodSlice(v, v.es, rd, address)
BY DEF GoodSlice, SliceResult, EmptySlice, is_empty

\* The single entry of a diagonal that is not full.
LEMMA SingleEntry ==
    ASSUME NEW o, NEW poss, GoodOperand(o, poss)
    PROVE  /\ IsFiniteSet(o.es) /\ Cardinality(o.es) \in Nat \ {0}
           /\ (CHOOSE k \in o.es : TRUE) \in o.es
           /\ ~is_full(o) => o.es = {CHOOSE k \in o.es : TRUE}
<1>1. IsFiniteSet(o.es) /\ Cardinality(o.es) \in Nat
  <2>1. o.depth \in 0 .. MaxDepth /\ o.es \in SUBSET Keys(o.depth)
    BY MaxDepthAssumption DEF GoodOperand, Depths
  <2> QED
    BY <2>1, EntriesFinite
<1>2. Cardinality(o.es) # 0 /\ o.es # {}
  BY <1>1, FS_EmptySet DEF GoodOperand
<1>3. ~is_full(o) => Cardinality(o.es) = 1
  BY <1>1, <1>2 DEF is_full
<1>4. ~is_full(o) => \E k : o.es = {k}
  BY <1>1, <1>3, FS_Singleton
<1>5. (CHOOSE k \in o.es : TRUE) \in o.es
  BY <1>2
<1> QED
  BY <1>1, <1>2, <1>4, <1>5

\* A diagonal has a slice only for the key parts of its operand at every
\* position, and a single entry only for one key part.
LEMMA SliceKeyParts ==
    ASSUME NEW g, GoodOperand(g.op, g.poss)
    PROVE  /\ min_card_pos(g.op.es, g.poss) \in g.poss
           /\ PartsAt(g.op.es, min_card_pos(g.op.es, g.poss)) \in SUBSET KeyParts
           /\ \A kp : SliceAt(g, kp) # {} => kp \in PartsAt(g.op.es, min_card_pos(g.op.es, g.poss))
           /\ ~is_full(g.op) => /\ SinglePart(g) \in KeyParts
                                /\ \A kp : SliceAt(g, kp) # {} => kp = SinglePart(g)
                                /\ is_diagonal(g) <=> SliceAt(g, SinglePart(g)) # {}
<1> DEFINE es == g.op.es
           poss == g.poss
           d == g.op.depth
<1>0. d \in Depths /\ d \in Nat /\ es \in SUBSET Keys(d) /\ es # {} /\ poss \in SUBSET (1 .. d) /\ poss # {}
  BY DEF GoodOperand, Depths
<1> HIDE DEF es, poss, d
<1>1. min_card_pos(es, poss) \in poss
  BY <1>0, MinCardPosition
<1>2. PartsAt(es, min_card_pos(es, poss)) \in SUBSET KeyParts
  BY <1>0, <1>1, PartsAtType
<1>3. ASSUME NEW kp, SliceOf(es, Diagonal(poss, kp)) # {}
      PROVE  \A pos \in poss : kp \in PartsAt(es, pos)
  BY <1>3, SliceParts
<1>4. first_pos(poss) \in poss
  BY <1>0, FirstPosition
<1> DEFINE k == CHOOSE x \in es : TRUE
<1>5. ASSUME ~is_full(g.op)
      PROVE  es = {k} /\ PartsAt(es, first_pos(poss)) = {k[first_pos(poss)]}
  <2>1. es = {k}
    BY <1>5, SingleEntry DEF es
  <2> HIDE DEF k
  <2> QED
    BY <2>1 DEF PartsAt
<1>6. is_diagonal(g) <=> SliceAt(g, SinglePart(g)) # {}
  BY DEF is_diagonal, SliceAt, SinglePart
<1>7. SinglePart(g) = k[first_pos(poss)]
  BY DEF SinglePart, es, poss
<1>8. PartsAt(es, first_pos(poss)) \in SUBSET KeyParts
  BY <1>0, <1>4, PartsAtType
<1> HIDE DEF k
<1>9. ASSUME NEW kp, SliceAt(g, kp) # {}
      PROVE  \A pos \in poss : kp \in PartsAt(es, pos)
  BY <1>3, <1>9 DEF SliceAt, es, poss
<1> QED
  BY <1>1, <1>2, <1>4, <1>5, <1>6, <1>7, <1>8, <1>9 DEF es, poss

LEMMA NewDiagonalGood ==
    ASSUME NEW o, NEW poss, GoodOperand(o, poss), NEW address
    PROVE  LET g == NewDiagonal(o, poss, address)
           IN  /\ GoodDiagonal(g, address)
               /\ g.op = o /\ g.poss = poss /\ g.rest = {} /\ g.kp = NoPart
<1> DEFINE g == NewDiagonal(o, poss, address)
           kp == (CHOOSE k \in o.es : TRUE)[first_pos(poss)]
           only == SliceOf(o.es, Diagonal(poss, kp))
           rd == o.depth - Cardinality(poss)
           value == IF is_full(o) \/ only = {} THEN EmptySlice
                    ELSE IF rd = 0 THEN SliceResult("scalar", NoAddress, only)
                    ELSE SliceResult("cache", address, only)
<1>1. g = [op |-> o, poss |-> poss, rest |-> {}, kp |-> NoPart, value |-> value,
           cache |-> IF value.at = "cache" THEN value.es ELSE {}]
  BY DEF NewDiagonal
<1>2. result_depth(g) = rd /\ SliceAt(g, SinglePart(g)) = only
  BY <1>1 DEF result_depth, SliceAt, SinglePart
<1>3. /\ is_full(o) => value = EmptySlice
      /\ ~is_full(o) => GoodSlice(value, only, rd, address)
  <2> HIDE DEF only, rd
  <2>1. ~is_full(o) /\ only = {} => GoodSlice(value, only, rd, address)
    BY DEF GoodSlice
  <2>2. ~is_full(o) /\ only # {} /\ rd = 0 => GoodSlice(value, only, rd, address)
    BY DEF GoodSlice
  <2>3. ~is_full(o) /\ only # {} /\ rd # 0 => GoodSlice(value, only, rd, address)
    BY CachedSlice
  <2> QED
    BY <2>1, <2>2, <2>3
<1>4. GoodSlice(value, value.es, rd, address)
  <2>1. CASE is_full(o)
    <3>1. value = EmptySlice /\ value.es = {}
      BY <1>3, <2>1, SliceResultFacts DEF EmptySlice
    <3> HIDE DEF value
    <3> QED
      BY <3>1 DEF GoodSlice
  <2>2. CASE ~is_full(o)
    <3>1. GoodSlice(value, only, rd, address)
      BY <1>3, <2>2
    <3> HIDE DEF value, only, rd
    <3> QED
      BY <3>1, GoodSliceFacts
  <2> QED
    BY <2>1, <2>2
<1>5. (IF is_full(o) THEN {} \in SUBSET PartsAt(o.es, min_card_pos(o.es, poss)) ELSE {} = {})
  OBVIOUS
<1> HIDE DEF g, value, only, rd, kp
<1>6. /\ g = [op |-> g.op, poss |-> g.poss, rest |-> g.rest, kp |-> g.kp, value |-> g.value,
              cache |-> g.cache]
      /\ g.op = o /\ g.poss = poss /\ g.rest = {} /\ g.kp = NoPart /\ g.value = value
      /\ value.at = "cache" => g.cache = value.es
  BY <1>1
<1>7. GoodDiagonal(g, address)
  BY <1>2, <1>3, <1>4, <1>5, <1>6 DEF GoodDiagonal
<1> QED
  BY <1>6, <1>7 DEF g

\* Moved to another address, a diagonal points to its own cache.
LEMMA SettledGood ==
    ASSUME NEW g, NEW from, GoodDiagonal(g, from), NEW address
    PROVE  LET h == update_sen_cache_ptr(g, address)
           IN  /\ GoodDiagonal(h, address)
               /\ SameDiagonal(g, h) /\ h.rest = g.rest /\ h.kp = g.kp
               /\ \A es : GoodSlice(g.value, es, result_depth(g), from)
                          => GoodSlice(h.value, es, result_depth(h), address)
<1> DEFINE h == update_sen_cache_ptr(g, address)
           w == IF g.value.at = "cache" THEN SliceResult("cache", address, g.value.es) ELSE g.value
           rd == result_depth(g)
<1>1. /\ g = [op |-> g.op, poss |-> g.poss, rest |-> g.rest, kp |-> g.kp, value |-> g.value,
              cache |-> g.cache]
      /\ GoodSlice(g.value, g.value.es, rd, from)
  BY DEF GoodDiagonal
<1>2. g.value = SliceResult(g.value.at, g.value.address, g.value.es)
  BY <1>1, GoodSliceFacts DEF SliceResult
<1>3. h = [op |-> g.op, poss |-> g.poss, rest |-> g.rest, kp |-> g.kp, value |-> w, cache |-> g.cache]
  <2>1. CASE g.value.at = "cache"
    <3>1. h = [g EXCEPT !.value.address = address]
      BY <2>1 DEF update_sen_cache_ptr
    <3>2. [g.value EXCEPT !.address = address] = w
      <4> DEFINE v == g.value
      <4>1. v = [at |-> v.at, address |-> v.address, es |-> v.es] /\ v.at = "cache"
        BY <1>2, <2>1 DEF SliceResult
      <4>2. w = [at |-> "cache", address |-> address, es |-> v.es]
        BY <2>1 DEF SliceResult
      <4> HIDE DEF v, w
      <4>3. [v EXCEPT !.address = address] = [at |-> v.at, address |-> address, es |-> v.es]
        BY <4>1
      <4> QED
        BY <4>1, <4>2, <4>3 DEF v
    <3> HIDE DEF w
    <3> QED
      BY <1>1, <3>1, <3>2
  <2>2. CASE g.value.at # "cache"
    BY <1>1, <2>2 DEF update_sen_cache_ptr
  <2> QED
    BY <2>1, <2>2
<1>4. \A es : GoodSlice(g.value, es, rd, from) => GoodSlice(w, es, rd, address)
  <2> SUFFICES ASSUME NEW es, GoodSlice(g.value, es, rd, from) PROVE GoodSlice(w, es, rd, address)
    OBVIOUS
  <2>0. g.value.es = es
    BY GoodSliceFacts
  <2>1. CASE g.value.at = "cache"
    <3>1. es # {} /\ rd # 0
      BY <2>1, SliceResultFacts DEF GoodSlice, EmptySlice
    <3>2. w = SliceResult("cache", address, es)
      BY <2>0, <2>1
    <3> QED
      BY <3>1, <3>2, CachedSlice
  <2>2. CASE g.value.at # "cache"
    <3>1. w = g.value
      BY <2>2
    <3> HIDE DEF w
    <3> QED
      BY <2>2, <3>1, SliceResultFacts DEF GoodSlice
  <2> QED
    BY <2>1, <2>2
<1>5. w.es = g.value.es /\ w.at = g.value.at
  BY SliceResultFacts
<1> HIDE DEF h, w
<1>6. SameDiagonal(g, h) /\ h.rest = g.rest /\ h.kp = g.kp /\ h.cache = g.cache /\ h.value = w
  BY <1>3 DEF SameDiagonal
<1>7. /\ \A kp : SliceAt(h, kp) = SliceAt(g, kp)
      /\ SinglePart(h) = SinglePart(g) /\ result_depth(h) = rd
  BY <1>6, SameFacts
<1>8. h = [op |-> h.op, poss |-> h.poss, rest |-> h.rest, kp |-> h.kp, value |-> h.value,
           cache |-> h.cache]
  BY <1>3
<1>9. GoodSlice(h.value, h.value.es, rd, address)
  BY <1>1, <1>4, <1>5, <1>6
<1> HIDE DEF rd
<1>10. GoodDiagonal(h, address)
  BY <1>4, <1>5, <1>6, <1>7, <1>8, <1>9 DEF GoodDiagonal, SameDiagonal, rd
<1> QED
  BY <1>4, <1>6, <1>7, <1>10 DEF h, rd

\* value_ = v, and the cache if v is in it.
LEMMA AssignIs ==
    ASSUME NEW g, NEW v, NEW address,
           g = [op |-> g.op, poss |-> g.poss, rest |-> g.rest, kp |-> g.kp, value |-> g.value,
                cache |-> g.cache]
    PROVE  Assign(g, v, address) =
              [op |-> g.op, poss |-> g.poss, rest |-> g.rest, kp |-> g.kp, value |-> v,
               cache |-> IF v.at = "cache" /\ v.address = address THEN v.es ELSE g.cache]
<1> DEFINE c == IF v.at = "cache" /\ v.address = address THEN v.es ELSE g.cache
<1>1. Assign(g, v, address) = [g EXCEPT !.value = v, !.cache = c]
  BY DEF Assign
<1> HIDE DEF c
<1>2. g = [op |-> g.op, poss |-> g.poss, rest |-> g.rest, kp |-> g.kp, value |-> g.value,
           cache |-> g.cache]
  OBVIOUS
<1> DEFINE f == [g EXCEPT !.value = v]
<1>3. Assign(g, v, address) = [f EXCEPT !.cache = c]
  BY <1>1
<1>4. f = [op |-> g.op, poss |-> g.poss, rest |-> g.rest, kp |-> g.kp, value |-> v,
           cache |-> g.cache]
  BY <1>2
<1> HIDE DEF f
<1>5. [f EXCEPT !.cache = c] =
        [op |-> g.op, poss |-> g.poss, rest |-> g.rest, kp |-> g.kp, value |-> v, cache |-> c]
  BY <1>4
<1> QED
  BY <1>3, <1>5 DEF c

\* A diagonal over several entries with a new slice, at another key part.
LEMMA AssignedGood ==
    ASSUME NEW g, NEW address, GoodDiagonal(g, address), is_full(g.op),
           NEW v, NEW es, GoodSlice(v, es, result_depth(g), address),
           NEW kp \in KeyParts \cup {NoPart},
           NEW rest \in SUBSET PartsAt(g.op.es, min_card_pos(g.op.es, g.poss)),
           NEW h, h = [op |-> g.op, poss |-> g.poss, rest |-> rest, kp |-> kp, value |-> v,
                       cache |-> IF v.at = "cache" /\ v.address = address THEN v.es ELSE g.cache]
    PROVE  GoodDiagonal(h, address) /\ SameDiagonal(g, h)
<1>1. /\ h.op = g.op /\ h.poss = g.poss /\ h.rest = rest /\ h.kp = kp /\ h.value = v
      /\ h.cache = IF v.at = "cache" /\ v.address = address THEN v.es ELSE g.cache
      /\ h = [op |-> h.op, poss |-> h.poss, rest |-> h.rest, kp |-> h.kp, value |-> h.value,
              cache |-> h.cache]
  OBVIOUS
<1>2. SameDiagonal(g, h)
  BY <1>1 DEF SameDiagonal
<1>3. result_depth(h) = result_depth(g)
  BY <1>2, SameFacts
<1>4. /\ v.at = "cache" /\ ~(Taggable /\ result_depth(g) = 1) => v.address = address
      /\ GoodSlice(v, v.es, result_depth(g), address)
  BY GoodSliceFacts
<1>5. GoodOperand(g.op, g.poss)
  BY DEF GoodDiagonal
<1>6. GoodDiagonal(h, address)
  BY <1>1, <1>3, <1>4, <1>5 DEF GoodDiagonal
<1> QED
  BY <1>2, <1>6

\* A diagonal at another key part.
LEMMA MovedGood ==
    ASSUME NEW g, NEW address, GoodDiagonal(g, address), NEW kp \in KeyParts \cup {NoPart},
           NEW rest, IF is_full(g.op) THEN rest \in SUBSET PartsAt(g.op.es, min_card_pos(g.op.es, g.poss))
                                      ELSE rest = {},
           NEW h, h = [op |-> g.op, poss |-> g.poss, rest |-> rest, kp |-> kp, value |-> g.value,
                       cache |-> g.cache]
    PROVE  GoodDiagonal(h, address) /\ SameDiagonal(g, h)
<1>1. /\ h.op = g.op /\ h.poss = g.poss /\ h.rest = rest /\ h.kp = kp /\ h.value = g.value
      /\ h.cache = g.cache
      /\ h = [op |-> h.op, poss |-> h.poss, rest |-> h.rest, kp |-> h.kp, value |-> h.value,
              cache |-> h.cache]
  OBVIOUS
<1>2. SameDiagonal(g, h)
  BY <1>1 DEF SameDiagonal
<1>3. /\ result_depth(h) = result_depth(g) /\ SinglePart(h) = SinglePart(g)
      /\ SliceAt(h, SinglePart(g)) = SliceAt(g, SinglePart(g))
  BY <1>2, SameFacts
<1>4. GoodDiagonal(h, address)
  BY <1>1, <1>3 DEF GoodDiagonal
<1> QED
  BY <1>2, <1>4

\* A diagonal that is iterated is at a key part that has a slice.
AtSlice(g, address) ==
    IF ended(g) THEN g.rest = {}
    ELSE /\ SliceAt(g, g.kp) # {}
         /\ g.kp \notin g.rest
         /\ GoodSlice(g.value, SliceAt(g, g.kp), result_depth(g), address)

\* h is g one key part further, or at the end: no slice is left out.
Further(g, h) ==
    /\ SameDiagonal(g, h)
    /\ \A kp \in g.rest : SliceAt(g, kp) # {} => kp \in h.rest \cup {h.kp}
    /\ \/ ended(h) /\ h.rest = {}
       \/ ~ended(h) /\ h.kp \in g.rest /\ h.rest = g.rest \ {h.kp}

\* forward_until_result.
LEMMA ForwardStep ==
    ASSUME NEW g, NEW address, GoodDiagonal(g, address), is_full(g.op),
           NEW h \in forward_until_result(g, address)
    PROVE  GoodDiagonal(h, address) /\ AtSlice(h, address) /\ Further(g, h)
<1> DEFINE value(kp) == retrieve_value(g, kp, address)
           hits == {kp \in g.rest : ~is_empty(value(kp))}
           edges == PartsAt(g.op.es, min_card_pos(g.op.es, g.poss))
<1>1. /\ g = [op |-> g.op, poss |-> g.poss, rest |-> g.rest, kp |-> g.kp, value |-> g.value,
              cache |-> g.cache]
      /\ GoodOperand(g.op, g.poss) /\ g.rest \in SUBSET edges
  BY DEF GoodDiagonal
<1>2. edges \in SUBSET KeyParts
  BY <1>1, SliceKeyParts
<1>3. \A kp \in g.rest : GoodSlice(value(kp), SliceAt(g, kp), result_depth(g), address)
  <2> TAKE kp \in g.rest
  <2>1. kp \in edges
    BY <1>1
  <2> QED
    BY <1>1, <2>1, RetrieveExact
<1>4. \A kp \in g.rest : is_empty(value(kp)) <=> SliceAt(g, kp) = {}
  <2> TAKE kp \in g.rest
  <2> HIDE DEF value
  <2> QED
    BY <1>3, GoodSliceFacts
<1>5. CASE hits = {}
  <2>1. h = [g EXCEPT !.kp = NoPart, !.rest = {}]
    BY <1>5 DEF forward_until_result
  <2>2. h = [op |-> g.op, poss |-> g.poss, rest |-> {}, kp |-> NoPart, value |-> g.value,
             cache |-> g.cache]
    BY <1>1, <2>1
  <2>3. GoodDiagonal(h, address) /\ SameDiagonal(g, h)
    BY <2>2, MovedGood
  <2>4. ended(h) /\ h.rest = {}
    BY <2>2 DEF ended
  <2>5. \A kp \in g.rest : SliceAt(g, kp) = {}
    BY <1>4, <1>5
  <2> QED
    BY <2>3, <2>4, <2>5 DEF AtSlice, Further
<1>6. CASE hits # {}
  <2>1. PICK kp \in hits : h = [Assign(g, value(kp), address) EXCEPT !.kp = kp, !.rest = @ \ {kp}]
    BY <1>6 DEF forward_until_result
  <2>2. kp \in g.rest /\ kp \in KeyParts /\ SliceAt(g, kp) # {}
    BY <1>1, <1>2, <1>4, <2>1
  <2> DEFINE v == value(kp)
             c == IF v.at = "cache" /\ v.address = address THEN v.es ELSE g.cache
             left == g.rest \ {kp}
  <2>3. Assign(g, v, address) = [op |-> g.op, poss |-> g.poss, rest |-> g.rest, kp |-> g.kp,
                                 value |-> v, cache |-> c]
    BY <1>1, AssignIs
  <2>4. GoodSlice(v, SliceAt(g, kp), result_depth(g), address)
    BY <1>3, <2>2
  <2>5. h = [Assign(g, v, address) EXCEPT !.kp = kp, !.rest = @ \ {kp}]
    BY <2>1
  <2> HIDE DEF v
  <2>6. h = [op |-> g.op, poss |-> g.poss, rest |-> left, kp |-> kp, value |-> v, cache |-> c]
    <3> DEFINE f == Assign(g, v, address)
    <3>1. f = [op |-> g.op, poss |-> g.poss, rest |-> g.rest, kp |-> g.kp, value |-> v, cache |-> c]
      BY <2>3
    <3>2. h = [f EXCEPT !.kp = kp, !.rest = f.rest \ {kp}]
      BY <2>5
    <3> HIDE DEF c, f
    <3> QED
      BY <3>1, <3>2
  <2>7. left \in SUBSET edges
    BY <1>1
  <2>8. GoodDiagonal(h, address) /\ SameDiagonal(g, h)
    <3> HIDE DEF left
    <3> QED
      BY <2>2, <2>4, <2>6, <2>7, AssignedGood
  <2>9. h.kp = kp /\ h.rest = g.rest \ {kp} /\ h.value = v
    BY <2>6
  <2>10. ~ended(h)
    BY <2>2, <2>9, NoPartAssumption DEF ended
  <2>11. SliceAt(h, kp) = SliceAt(g, kp) /\ result_depth(h) = result_depth(g)
    BY <2>8, SameFacts
  <2>12. AtSlice(h, address)
    BY <2>2, <2>4, <2>9, <2>10, <2>11 DEF AtSlice
  <2> QED
    BY <2>2, <2>8, <2>9, <2>10, <2>12 DEF Further
<1> QED
  BY <1>5, <1>6

\* operator++.
LEMMA IncStep ==
    ASSUME NEW g, NEW address, GoodDiagonal(g, address), NEW h \in inc(g, address)
    PROVE  GoodDiagonal(h, address) /\ AtSlice(h, address) /\ Further(g, h)
<1>1. CASE is_full(g.op)
  BY <1>1, ForwardStep DEF inc
<1>2. CASE ~is_full(g.op)
  <2>1. h = [g EXCEPT !.kp = NoPart]
    BY <1>2 DEF inc
  <2>2. /\ g = [op |-> g.op, poss |-> g.poss, rest |-> g.rest, kp |-> g.kp, value |-> g.value,
                cache |-> g.cache]
        /\ g.rest = {}
    BY <1>2 DEF GoodDiagonal
  <2>3. h = [op |-> g.op, poss |-> g.poss, rest |-> g.rest, kp |-> NoPart, value |-> g.value,
             cache |-> g.cache]
    BY <2>1, <2>2
  <2>4. GoodDiagonal(h, address) /\ SameDiagonal(g, h)
    BY <1>2, <2>2, <2>3, MovedGood
  <2>5. ended(h) /\ h.rest = {}
    BY <2>2, <2>3 DEF ended
  <2> QED
    BY <2>2, <2>4, <2>5 DEF AtSlice, Further
<1> QED
  BY <1>1, <1>2

\* begin visits every key part that has a slice.
LEMMA BeginStep ==
    ASSUME NEW g, NEW address, GoodDiagonal(g, address), ended(g), g.rest = {},
           NEW h \in begin(g, address)
    PROVE  /\ GoodDiagonal(h, address) /\ AtSlice(h, address) /\ SameDiagonal(g, h)
           /\ \A kp : SliceAt(g, kp) # {} => kp \in h.rest \cup {h.kp}
<1> DEFINE edges == PartsAt(g.op.es, min_card_pos(g.op.es, g.poss))
<1>1. /\ g = [op |-> g.op, poss |-> g.poss, rest |-> g.rest, kp |-> g.kp, value |-> g.value,
              cache |-> g.cache]
      /\ GoodOperand(g.op, g.poss) /\ g.kp \in KeyParts \cup {NoPart}
  BY DEF GoodDiagonal
<1>2. /\ \A kp : SliceAt(g, kp) # {} => kp \in edges
      /\ ~is_full(g.op) => /\ SinglePart(g) \in KeyParts
                           /\ \A kp : SliceAt(g, kp) # {} => kp = SinglePart(g)
                           /\ is_diagonal(g) <=> SliceAt(g, SinglePart(g)) # {}
  BY <1>1, SliceKeyParts
<1> HIDE DEF edges
<1>3. CASE is_full(g.op)
  <2> DEFINE f == [op |-> g.op, poss |-> g.poss, rest |-> edges, kp |-> g.kp, value |-> g.value,
                   cache |-> g.cache]
  <2>1. [g EXCEPT !.rest = edges] = f
    BY <1>1
  <2>2. GoodDiagonal(f, address) /\ SameDiagonal(g, f)
    BY <1>1, <1>3, MovedGood DEF edges
  <2>3. h \in forward_until_result(f, address)
    BY <1>3, <2>1 DEF begin, edges
  <2>4. f.op = g.op /\ f.rest = edges
    OBVIOUS
  <2> HIDE DEF f
  <2>5. GoodDiagonal(h, address) /\ AtSlice(h, address) /\ Further(f, h)
    BY <1>3, <2>2, <2>3, <2>4, ForwardStep
  <2>6. \A kp : SliceAt(f, kp) = SliceAt(g, kp)
    BY <2>2, SameFacts
  <2>7. SameDiagonal(g, h)
    BY <2>2, <2>5 DEF SameDiagonal, Further
  <2> QED
    BY <1>2, <2>4, <2>5, <2>6, <2>7 DEF Further
<1>4. CASE ~is_full(g.op)
  <2> DEFINE kp == IF is_diagonal(g) THEN SinglePart(g) ELSE g.kp
  <2>1. h = [g EXCEPT !.kp = kp]
    BY <1>4 DEF begin, SinglePart
  <2>2. kp \in KeyParts \cup {NoPart} /\ (ended(g) => g.kp = NoPart)
    BY <1>1, <1>2, <1>4 DEF ended
  <2>3. GoodSlice(g.value, SliceAt(g, SinglePart(g)), result_depth(g), address)
    BY <1>4 DEF GoodDiagonal
  <2>8. kp = NoPart \/ (kp = SinglePart(g) /\ SliceAt(g, kp) # {} /\ kp # NoPart)
    BY <1>2, <1>4, <2>2, NoPartAssumption
  <2>9. is_diagonal(g) => kp = SinglePart(g)
    OBVIOUS
  <2> HIDE DEF kp
  <2>4. h = [op |-> g.op, poss |-> g.poss, rest |-> {}, kp |-> kp, value |-> g.value,
             cache |-> g.cache]
    BY <1>1, <2>1
  <2>5. GoodDiagonal(h, address) /\ SameDiagonal(g, h)
    BY <1>4, <2>2, <2>4, MovedGood
  <2>6. h.kp = kp /\ h.rest = {} /\ h.value = g.value
    BY <2>4
  <2>7. SliceAt(h, kp) = SliceAt(g, kp) /\ result_depth(h) = result_depth(g)
    BY <2>5, SameFacts
  <2>10. AtSlice(h, address)
    BY <2>3, <2>6, <2>7, <2>8 DEF AtSlice, ended
  <2> QED
    BY <1>2, <1>4, <2>5, <2>6, <2>9, <2>10
<1> QED
  BY <1>3, <1>4

\* find.
LEMMA FindStep ==
    ASSUME NEW g, NEW address, GoodDiagonal(g, address), NEW kp \in KeyParts
    PROVE  LET h == find(g, kp, address)
           IN  /\ GoodDiagonal(h, address) /\ SameDiagonal(g, h) /\ h.rest = g.rest /\ h.kp = g.kp
               /\ found(g, kp, address) <=> SliceAt(g, kp) # {}
               /\ SliceAt(g, kp) # {}
                  => GoodSlice(h.value, SliceAt(g, kp), result_depth(g), address)
<1> DEFINE h == find(g, kp, address)
<1>1. /\ g = [op |-> g.op, poss |-> g.poss, rest |-> g.rest, kp |-> g.kp, value |-> g.value,
              cache |-> g.cache]
      /\ GoodOperand(g.op, g.poss) /\ g.kp \in KeyParts \cup {NoPart}
  BY DEF GoodDiagonal
<1>2. CASE is_full(g.op)
  <2> DEFINE v == diagonal_slice(g.op.depth, g.op.es, g.poss, kp, address)
             c == IF v.at = "cache" /\ v.address = address THEN v.es ELSE g.cache
  <2>1. GoodSlice(v, SliceAt(g, kp), result_depth(g), address)
    <3>1. /\ g.op.depth \in Depths /\ g.op.es \in SUBSET Keys(g.op.depth)
          /\ g.poss \in SUBSET (1 .. g.op.depth) /\ g.poss # {}
      BY <1>1 DEF GoodOperand
    <3> QED
      BY <3>1, DiagonalSliceExact DEF SliceAt, result_depth
  <2>2. h = Assign(g, v, address)
    BY <1>2 DEF find
  <2> HIDE DEF v
  <2>3. h = [op |-> g.op, poss |-> g.poss, rest |-> g.rest, kp |-> g.kp, value |-> v, cache |-> c]
    BY <1>1, <2>2, AssignIs
  <2>4. g.rest \in SUBSET PartsAt(g.op.es, min_card_pos(g.op.es, g.poss))
    BY <1>2 DEF GoodDiagonal
  <2>5. found(g, kp, address) <=> ~is_empty(h.value)
    BY <1>2 DEF found
  <2> HIDE DEF h
  <2>6. GoodDiagonal(h, address) /\ SameDiagonal(g, h)
    BY <1>1, <1>2, <2>1, <2>3, <2>4, AssignedGood
  <2>7. h.rest = g.rest /\ h.kp = g.kp /\ h.value = v
    BY <2>3
  <2>8. is_empty(v) <=> SliceAt(g, kp) = {}
    BY <2>1, GoodSliceFacts
  <2> QED
    BY <2>1, <2>5, <2>6, <2>7, <2>8 DEF h
<1>3. CASE ~is_full(g.op)
  <2>1. h = g
    BY <1>3 DEF find
  <2>2. found(g, kp, address) <=> is_diagonal(g) /\ kp = SinglePart(g)
    BY <1>3 DEF found, SinglePart
  <2>3. /\ SliceAt(g, kp) # {} => kp = SinglePart(g)
        /\ is_diagonal(g) <=> SliceAt(g, SinglePart(g)) # {}
    BY <1>1, <1>3, SliceKeyParts
  <2>4. GoodSlice(g.value, SliceAt(g, SinglePart(g)), result_depth(g), address)
    BY <1>3 DEF GoodDiagonal
  <2> HIDE DEF h
  <2> QED
    BY <2>1, <2>2, <2>3, <2>4 DEF h, SameDiagonal
<1> QED
  BY <1>2, <1>3

\* size is a bound for the number of slices.
LEMMA SizeBound ==
    ASSUME NEW g, GoodOperand(g.op, g.poss)
    PROVE  /\ diagonal_size(g) \in Nat
           /\ Cardinality({kp \in KeyParts : SliceAt(g, kp) # {}}) <= diagonal_size(g)
<1> DEFINE edges == PartsAt(g.op.es, min_card_pos(g.op.es, g.poss))
           S == {kp \in KeyParts : SliceAt(g, kp) # {}}
<1>1. /\ edges \in SUBSET KeyParts
      /\ \A kp : SliceAt(g, kp) # {} => kp \in edges
      /\ ~is_full(g.op) => /\ SinglePart(g) \in KeyParts
                           /\ \A kp : SliceAt(g, kp) # {} => kp = SinglePart(g)
                           /\ is_diagonal(g) <=> SliceAt(g, SinglePart(g)) # {}
  BY SliceKeyParts
<1>2. diagonal_size(g) = IF is_full(g.op) THEN Cardinality(edges)
                         ELSE IF is_diagonal(g) THEN 1 ELSE 0
  BY DEF diagonal_size
<1> HIDE DEF edges
<1>3. IsFiniteSet(edges) /\ Cardinality(edges) \in Nat
  BY <1>1, KeyPartsFinite, FS_Subset, FS_CardinalityType
<1>4. CASE is_full(g.op)
  <2>1. S \in SUBSET edges
    BY <1>1
  <2> QED
    BY <1>2, <1>3, <1>4, <2>1, FS_Subset
<1>5. CASE ~is_full(g.op) /\ is_diagonal(g)
  <2>1. S \in SUBSET {SinglePart(g)}
    BY <1>1, <1>5
  <2>2. IsFiniteSet({SinglePart(g)}) /\ Cardinality({SinglePart(g)}) = 1
    BY FS_Singleton
  <2>3. Cardinality(S) <= 1
    BY <2>1, <2>2, FS_Subset
  <2> QED
    BY <1>2, <1>5, <2>3
<1>6. CASE ~is_full(g.op) /\ ~is_diagonal(g)
  <2>1. S = {}
    BY <1>1, <1>6
  <2>2. Cardinality(S) = 0
    BY <2>1, FS_EmptySet
  <2> QED
    BY <1>2, <1>6, <2>2
<1> QED
  BY <1>4, <1>5, <1>6

-----------------------------------------------------------------------------
(* The invariant of the iterators.                                         *)

\* The diagonals that have a slice for every joint key part.
Needed(j, it) == {1} \cup (IF j.optional THEN it.non_optional ELSE DOMAIN it.ops)

\* The diagonals that fill in output o.
Sources(it, o) == {m \in DOMAIN it.ops : it.pos_in_out[m] = o}

\* What a diagonal contributes to the value for a key part.
ValueAt(g, kp) ==
    IF SliceAt(g, kp) = {} THEN NoHypertrie ELSE Operand(result_depth(g), SliceAt(g, kp))

IteratorShape(j, it) ==
    /\ it = [ops |-> it.ops, pos_in_out |-> it.pos_in_out, non_optional |-> it.non_optional,
             first |-> it.first, second |-> it.second, mine |-> it.mine]
    /\ Len(Labelled(j)) \in Nat \ {0} /\ Outputs(j) \in Nat
    /\ it.ops = [m \in 1 .. Len(Labelled(j)) |-> it.ops[m]]
    /\ it.second = [o \in 1 .. Outputs(j) |-> it.second[o]]
    /\ it.mine \in BOOLEAN
    /\ j.optional => it.non_optional \in SUBSET (1 .. Len(Labelled(j)))

\* The diagonals and the outputs that no diagonal fills in make up the join.
ServesJoin(j, it) ==
    /\ JoinKeys(j) = {kp \in KeyParts : \A m \in Needed(j, it) : SliceAt(it.ops[m], kp) # {}}
    /\ \A kp \in KeyParts : JoinValue(j, kp) = [o \in 1 .. Outputs(j) |-> JoinValue(j, kp)[o]]
    /\ \A o \in 1 .. Outputs(j) :
          \/ /\ Sources(it, o) = {}
             /\ it.second[o].slice.at = "node"
             /\ \A kp \in KeyParts :
                   JoinValue(j, kp)[o] = Operand(it.second[o].depth, it.second[o].slice.es)
          \/ \E m \in DOMAIN it.ops :
                /\ Sources(it, o) = {m}
                /\ \A kp \in KeyParts : JoinValue(j, kp)[o] = ValueAt(it.ops[m], kp)

OwnDiagonals(j, i, it) ==
    \A m \in DOMAIN it.ops :
        /\ GoodDiagonal(it.ops[m], <<i, m>>)
        /\ ~j.optional => diagonal_size(it.ops[1]) <= diagonal_size(it.ops[m])

Seen(seq) == {seq[x] : x \in DOMAIN seq}

\* The joint key parts are those that were returned, the one that the first
\* diagonal is at, and some of those that it has yet to visit.
KeysVisited(j, g, phase, seq) ==
    /\ seq \in Seq(KeyParts)
    /\ \A x, y \in DOMAIN seq : x # y => seq[x] # seq[y]
    /\ Seen(seq) \subseteq JoinKeys(j) /\ Seen(seq) \cap g.rest = {}
    /\ JoinKeys(j) \subseteq Seen(seq) \cup g.rest \cup {g.kp}
    /\ phase = "probing" => g.kp \notin Seen(seq)
    /\ phase \in {"ready", "body"} => ~ended(g) /\ g.kp \in Seen(seq)
    /\ phase = "ended" => ended(g)

\* Output o is what diagonal m, which is its source, returned for first.
Held(it, address, m, o) ==
    LET g == it.ops[m]
    IN  IF SliceAt(g, it.first) = {} THEN it.second[o] = NoOutput
        ELSE /\ it.second[o] = CurrentHypertrie(g)
             /\ GoodSlice(g.value, SliceAt(g, it.first), result_depth(g), address)

HoldsValue(j, i, it) ==
    /\ it.first \in JoinKeys(j)
    /\ \A o \in 1 .. Outputs(j) : \A m \in Sources(it, o) : Held(it, <<i, m>>, m, o)

IteratorInv(j, i, it, phase, seq) ==
    /\ IteratorShape(j, it)
    /\ ServesJoin(j, it)
    /\ OwnDiagonals(j, i, it)
    /\ AtSlice(it.ops[1], <<i, 1>>)
    /\ KeysVisited(j, it.ops[1], phase, seq)
    /\ phase \in {"ready", "body"} /\ it.mine => HoldsValue(j, i, it)

LoopInv ==
    /\ join \in Joins
    /\ its = [i \in Iterators |-> its[i]]
    /\ pc \in [Iterators -> {"none", "probing", "ready", "body", "ended", "thrown"}]
    /\ yielded = [i \in Iterators |-> yielded[i]]
    /\ \A i \in Iterators : Live(i) => IteratorInv(join, i, its[i], pc[i], yielded[i])

-----------------------------------------------------------------------------
(* The constructor of iterators.                                           *)

\* The operands with the label, and those with an output.
Labels(j) == {p \in DOMAIN j.operands : HasLabel(j, p)}

WithOutput(j) == {p \in DOMAIN j.operands : HasOutput(j, p)}

LEMMA JoinFacts ==
    ASSUME NEW j \in Joins
    PROVE  /\ j.optional \in BOOLEAN /\ Len(j.operands) \in Nat
           /\ DOMAIN j.operands = 1 .. Len(j.operands)
           /\ \A p \in 1 .. Len(j.operands) : j.operands[p] = Operand(j.operands[p].depth, j.operands[p].es)
           /\ Labels(j) \in SUBSET (1 .. Len(j.operands)) /\ Labels(j) # {}
           /\ WithOutput(j) \in SUBSET (1 .. Len(j.operands))
           /\ \A p \in Labels(j) : GoodOperand(j.operands[p], j.positions[p])
<1>1. /\ j.optional \in BOOLEAN /\ j.operands \in Seq(Operands)
      /\ \A p \in DOMAIN j.operands : /\ j.positions[p] \in SUBSET (1 .. j.operands[p].depth)
                                      /\ j.operands[p].es # {}
      /\ \E p \in DOMAIN j.operands : HasLabel(j, p)
  BY JoinAssumption
<1>2. Len(j.operands) \in Nat /\ DOMAIN j.operands = 1 .. Len(j.operands)
  BY <1>1
<1>3. \A p \in 1 .. Len(j.operands) : j.operands[p] \in Operands
  BY <1>1
<1>4. ASSUME NEW o \in Operands
      PROVE  /\ o = Operand(o.depth, o.es) /\ o.depth \in 0 .. MaxDepth
             /\ o.es \in SUBSET Keys(o.depth)
  <2>1. PICK d \in 0 .. MaxDepth : o \in [depth : {d}, es : SUBSET Keys(d)]
    BY DEF Operands
  <2> QED
    BY <2>1 DEF Operand
<1>5. ASSUME NEW p \in Labels(j) PROVE GoodOperand(j.operands[p], j.positions[p])
  <2>1. p \in 1 .. Len(j.operands) /\ j.positions[p] # {}
    BY <1>2 DEF Labels, HasLabel
  <2> DEFINE o == j.operands[p]
             poss == j.positions[p]
  <2>2. poss \in SUBSET (1 .. o.depth) /\ poss # {} /\ o.es # {}
    BY <1>1, <1>2, <2>1
  <2>3. o.depth \in 0 .. MaxDepth /\ o.es \in SUBSET Keys(o.depth)
    BY <1>3, <1>4, <2>1
  <2> HIDE DEF o, poss
  <2>4. o.depth \in Depths
    <3>1. PICK x \in poss : x \in 1 .. o.depth
      BY <2>2
    <3> QED
      BY <2>3, <3>1, MaxDepthAssumption DEF Depths
  <2>5. GoodOperand(o, poss)
    BY <2>2, <2>3, <2>4 DEF GoodOperand
  <2> QED
    BY <2>5 DEF o, poss
<1>6. Labels(j) \in SUBSET (1 .. Len(j.operands)) /\ WithOutput(j) \in SUBSET (1 .. Len(j.operands))
  BY <1>2 DEF Labels, WithOutput
<1>7. Labels(j) # {}
  BY <1>1 DEF Labels
<1>8. \A p \in 1 .. Len(j.operands) : j.operands[p] = Operand(j.operands[p].depth, j.operands[p].es)
  BY <1>3, <1>4
<1> QED
  BY <1>1, <1>2, <1>5, <1>6, <1>7, <1>8

\* A set of numbers in their order has every one of them once.
LEMMA InOrderFacts ==
    ASSUME NEW n \in Nat, NEW S \in SUBSET (1 .. n)
    PROVE  /\ Cardinality(S) \in Nat /\ Len(InOrder(S)) = Cardinality(S)
           /\ InOrder(S) = [r \in 1 .. Cardinality(S) |-> InOrder(S)[r]]
           /\ \A r \in 1 .. Cardinality(S) : InOrder(S)[r] \in S /\ Rank(S, InOrder(S)[r]) = r
           /\ \A i \in S : Rank(S, i) \in 1 .. Cardinality(S) /\ InOrder(S)[Rank(S, i)] = i
<1>1. /\ IsFiniteSet(S) /\ Cardinality(S) \in Nat
      /\ \A i, j \in S : Rank(S, i) = Rank(S, j) => i = j
      /\ \A r \in 1 .. Cardinality(S) : AtRank(S, r) \in S /\ Rank(S, AtRank(S, r)) = r
  BY RankFacts
<1>2. InOrder(S) = [r \in 1 .. Cardinality(S) |-> AtRank(S, r)]
  BY DEF InOrder, AtRank
<1>3. ASSUME NEW i \in S PROVE Rank(S, i) \in 1 .. Cardinality(S)
  <2> DEFINE T == {q \in S : q <= i}
  <2>1. T \in SUBSET S /\ i \in T
    BY <1>3
  <2>2. Rank(S, i) = Cardinality(T)
    BY DEF Rank
  <2> HIDE DEF T
  <2>3. IsFiniteSet(T) /\ Cardinality(T) \in Nat /\ Cardinality(T) <= Cardinality(S)
    BY <1>1, <2>1, FS_Subset, FS_CardinalityType
  <2>4. Cardinality(T) # 0
    BY <2>1, <2>3, FS_EmptySet
  <2> QED
    BY <1>1, <2>2, <2>3, <2>4
<1>4. \A r \in 1 .. Cardinality(S) : InOrder(S)[r] = AtRank(S, r)
  BY <1>2
<1>5. Len(InOrder(S)) = Cardinality(S)
  BY <1>1, <1>2
<1>6. InOrder(S) = [r \in 1 .. Cardinality(S) |-> InOrder(S)[r]]
  BY <1>2
<1> QED
  BY <1>1, <1>3, <1>4, <1>5, <1>6

\* The label is first in the operand that comes first.
LEMMA LabelledFacts ==
    ASSUME NEW j \in Joins
    PROVE  /\ Len(Labelled(j)) \in Nat \ {0}
           /\ Labelled(j) = [m \in 1 .. Len(Labelled(j)) |-> Labelled(j)[m]]
           /\ \A m \in 1 .. Len(Labelled(j)) : Labelled(j)[m] \in Labels(j)
           /\ \A p \in Labels(j) : \E m \in 1 .. Len(Labelled(j)) : Labelled(j)[m] = p
           /\ \A m, k \in 1 .. Len(Labelled(j)) : Labelled(j)[m] = Labelled(j)[k] => m = k
           /\ Labelled(j)[1] = FirstLabelled(j)
<1> DEFINE S == Labels(j)
           N == Len(j.operands)
           f == first_pos(S)
<1>1. N \in Nat /\ S \in SUBSET (1 .. N) /\ S # {}
  BY JoinFacts
<1>2. Labelled(j) = InOrder(S) /\ FirstLabelled(j) = f
  BY DEF Labelled, Labels, FirstLabelled
<1> HIDE DEF S, N, f
<1>3. /\ Cardinality(S) \in Nat /\ Len(InOrder(S)) = Cardinality(S)
      /\ InOrder(S) = [r \in 1 .. Cardinality(S) |-> InOrder(S)[r]]
      /\ \A r \in 1 .. Cardinality(S) : InOrder(S)[r] \in S /\ Rank(S, InOrder(S)[r]) = r
      /\ \A i \in S : Rank(S, i) \in 1 .. Cardinality(S) /\ InOrder(S)[Rank(S, i)] = i
  BY <1>1, InOrderFacts
<1>4. f \in S /\ \A q \in S : f <= q
  BY <1>1, FirstPosition DEF f
<1>5. {q \in S : q <= f} = {f}
  <2>1. ASSUME NEW q \in S, q <= f PROVE q = f
    <3>1. q \in 1 .. N /\ f \in 1 .. N /\ f <= q
      BY <1>1, <1>4
    <3> QED
      BY <1>1, <2>1, <3>1
  <2>2. f <= f
    BY <1>4
  <2> QED
    BY <1>4, <2>1, <2>2
<1>6. Rank(S, f) = 1
  BY <1>5, FS_Singleton DEF Rank
<1>7. Len(InOrder(S)) \in Nat \ {0} /\ InOrder(S)[1] = f
  BY <1>3, <1>4, <1>6
<1>8. \A m, k \in 1 .. Cardinality(S) : InOrder(S)[m] = InOrder(S)[k] => m = k
  BY <1>3
<1> QED
  BY <1>2, <1>3, <1>7, <1>8 DEF S

\* The outputs follow the operands that have one.
LEMMA OutputFacts ==
    ASSUME NEW j \in Joins
    PROVE  /\ Outputs(j) \in Nat
           /\ \A p \in WithOutput(j) : OutPos(j, p) \in 1 .. Outputs(j)
           /\ \A p, q \in WithOutput(j) : OutPos(j, p) = OutPos(j, q) => p = q
           /\ \A o \in 1 .. Outputs(j) : \E p \in WithOutput(j) :
                 /\ OutPos(j, p) = o /\ InOrder(WithOutput(j))[o] = p
                 /\ p = CHOOSE q \in DOMAIN j.operands : HasOutput(j, q) /\ OutPos(j, q) = o
           /\ InOrder(WithOutput(j)) = [o \in 1 .. Outputs(j) |-> InOrder(WithOutput(j))[o]]
<1> DEFINE S == WithOutput(j)
           N == Len(j.operands)
<1>1. N \in Nat /\ S \in SUBSET (1 .. N) /\ DOMAIN j.operands = 1 .. N
  BY JoinFacts
<1>2. ASSUME NEW p \in 1 .. N PROVE OutPos(j, p) = Rank(S, p)
  <2>1. {q \in 1 .. p : HasOutput(j, q)} = {q \in S : q <= p}
    BY <1>1, <1>2 DEF WithOutput
  <2> QED
    BY <2>1 DEF OutPos, Rank
<1>3. \A p : p \in S <=> p \in 1 .. N /\ HasOutput(j, p)
  BY <1>1 DEF WithOutput
<1> DEFINE c == Cardinality(S)
<1>4. /\ c \in Nat
      /\ InOrder(S) = [r \in 1 .. c |-> InOrder(S)[r]]
      /\ \A r \in 1 .. c : InOrder(S)[r] \in S /\ Rank(S, InOrder(S)[r]) = r
      /\ \A i \in S : Rank(S, i) \in 1 .. c /\ InOrder(S)[Rank(S, i)] = i
  BY <1>1, InOrderFacts
<1>5. Outputs(j) = c
  <2>1. {q \in 1 .. N : HasOutput(j, q)} = S
    BY <1>3
  <2> QED
    BY <2>1 DEF Outputs, OutPos
<1> HIDE DEF S, N, c
<1>6. \A p \in S : OutPos(j, p) = Rank(S, p)
  BY <1>2, <1>3
<1>7. \A p, q \in S : OutPos(j, p) = OutPos(j, q) => p = q
  BY <1>4, <1>6
<1>8. ASSUME NEW o \in 1 .. c
      PROVE  \E p \in S : /\ OutPos(j, p) = o /\ InOrder(S)[o] = p
                          /\ p = CHOOSE q \in DOMAIN j.operands : HasOutput(j, q) /\ OutPos(j, q) = o
  <2> DEFINE p == InOrder(S)[o]
             C(q) == HasOutput(j, q) /\ OutPos(j, q) = o
  <2>1. p \in S /\ OutPos(j, p) = o
    BY <1>4, <1>6
  <2> HIDE DEF p
  <2>2. p \in DOMAIN j.operands /\ C(p)
    BY <1>1, <1>3, <2>1
  <2>3. \A q \in DOMAIN j.operands : C(q) => q = p
    BY <1>1, <1>3, <1>7, <2>1
  <2> HIDE DEF C
  <2>4. p = CHOOSE q \in DOMAIN j.operands : C(q)
    BY <2>2, <2>3
  <2> QED
    BY <2>1, <2>4 DEF C, p
<1>9. \A p \in S : OutPos(j, p) \in 1 .. c
  BY <1>4, <1>6
<1>10. WithOutput(j) = S
  BY DEF S
<1>11. InOrder(S) = [o \in 1 .. Outputs(j) |-> InOrder(S)[o]] /\ Outputs(j) \in Nat
  BY <1>4, <1>5
<1>12. \A p \in S : OutPos(j, p) \in 1 .. Outputs(j)
  BY <1>5, <1>9
<1>13. \A o \in 1 .. Outputs(j) : \E p \in S :
          /\ OutPos(j, p) = o /\ InOrder(S)[o] = p
          /\ p = CHOOSE q \in DOMAIN j.operands : HasOutput(j, q) /\ OutPos(j, q) = o
  BY <1>5, <1>8
<1> QED
  BY <1>7, <1>10, <1>11, <1>12, <1>13

\* A permutation of the operands with the label; a left join leaves them in
\* their order.
IsOrder(j, order) ==
    /\ order \in [1 .. Len(Labelled(j)) -> 1 .. Len(Labelled(j))]
    /\ \A m \in 1 .. Len(Labelled(j)) : \E k \in 1 .. Len(Labelled(j)) : order[k] = m
    /\ \A m, k \in 1 .. Len(Labelled(j)) : order[m] = order[k] => m = k
    /\ j.optional => \A m \in 1 .. Len(Labelled(j)) : order[m] = m

\* A permutation of 1 .. n does not repeat a number.
LEMMA PermutationInjective ==
    ASSUME NEW n \in Nat, NEW p \in [1 .. n -> 1 .. n], IsPermutation(p)
    PROVE  \A x, y \in 1 .. n : p[x] = p[y] => x = y
<1>1. p \in Surjection(1 .. n, 1 .. n)
  BY DEF IsPermutation, Surjection
<1>2. IsFiniteSet(1 .. n)
  <2>1. 1 \in Int /\ n \in Int
    OBVIOUS
  <2> QED
    BY <2>1, FS_Interval
<1>3. p \in Injection(1 .. n, 1 .. n)
  BY <1>1, <1>2, FS_SurjSameCardinalityImpliesInj
<1> QED
  BY <1>3 DEF Injection, IsInjective

\* optimizeOperandOrder brings the smallest diagonal to the front.
LEMMA OrderFacts ==
    ASSUME NEW j \in Joins, NEW ops, ops = [m \in 1 .. Len(Labelled(j)) |-> ops[m]],
           NEW order \in OperandOrders(j, ops)
    PROVE  /\ IsOrder(j, order)
           /\ ~j.optional => \A m \in 1 .. Len(Labelled(j)) : m = 1 \/
                 diagonal_size(ops[order[1]]) <= diagonal_size(ops[order[m]])
<1> DEFINE n == Len(Labelled(j))
           sizes == [m \in DOMAIN ops |-> diagonal_size(ops[m])]
<1>1. n \in Nat \ {0} /\ j.optional \in BOOLEAN /\ DOMAIN ops = 1 .. n
  BY LabelledFacts, JoinFacts
<1>2. CASE j.optional
  <2>1. order = [m \in 1 .. n |-> m]
    BY <1>1, <1>2 DEF OperandOrders
  <2> HIDE DEF n
  <2>2. /\ order \in [1 .. n -> 1 .. n]
        /\ \A m \in 1 .. n : order[m] = m
    BY <2>1
  <2> QED
    BY <1>2, <2>2 DEF IsOrder, n
<1>3. CASE ~j.optional
  <2>1. PICK p \in get(sizes) : order = apply(p)
    BY <1>3 DEF OperandOrders
  <2>2. DOMAIN sizes = 1 .. n
    BY <1>1
  <2>3. \A m \in 1 .. n : sizes[m] = diagonal_size(ops[m])
    BY <1>1
  <2> HIDE DEF sizes, n
  <2>4. /\ p \in [1 .. n -> 1 .. n] /\ IsPermutation(p)
        /\ \A x, y \in 1 .. n : x < y => sizes[p[x]] <= sizes[p[y]]
    BY <2>1, <2>2 DEF get
  <2>5. order = p
    BY <1>1, <2>1, <2>4, ApplyIs
  <2>6. \A m \in 1 .. n : \E k \in 1 .. n : p[k] = m
    BY <2>4 DEF IsPermutation
  <2>7. \A x, y \in 1 .. n : p[x] = p[y] => x = y
    BY <1>1, <2>4, PermutationInjective
  <2>8. IsOrder(j, order)
    BY <1>3, <2>4, <2>5, <2>6, <2>7 DEF IsOrder, n
  <2>9. ASSUME NEW m \in 1 .. n, m # 1 PROVE sizes[p[1]] <= sizes[p[m]]
    <3>1. 1 \in 1 .. n /\ 1 < m
      BY <1>1, <2>9
    <3> QED
      BY <2>4, <3>1
  <2>10. \A m \in 1 .. n : p[m] \in 1 .. n
    BY <2>4
  <2>11. 1 \in 1 .. n
    BY <1>1
  <2>12. \A m \in 1 .. n : m = 1 \/ diagonal_size(ops[p[1]]) <= diagonal_size(ops[p[m]])
    BY <2>3, <2>9, <2>10, <2>11
  <2> QED
    BY <2>5, <2>8, <2>12 DEF n
<1> QED
  BY <1>1, <1>2, <1>3

\* An iterator whose diagonals are those of the operands in some order.
Ordered(j, it, order) ==
    /\ it.ops = [m \in 1 .. Len(Labelled(j)) |-> it.ops[m]]
    /\ \A m \in 1 .. Len(Labelled(j)) :
          LET p == Labelled(j)[order[m]]
          IN  /\ it.ops[m].op = j.operands[p] /\ it.ops[m].poss = j.positions[p]
              /\ it.pos_in_out[m] = IF HasOutput(j, p) THEN OutPos(j, p) ELSE 0
    /\ it.non_optional = {m \in 1 .. Len(Labelled(j)) : Labelled(j)[m] \in j.non_optional}
    /\ it.second = InitialOutputs(j)

\* Its joint key parts are those of the join.
LEMMA OrderedKeys ==
    ASSUME NEW j \in Joins, NEW order, IsOrder(j, order), NEW it, Ordered(j, it, order)
    PROVE  JoinKeys(j) = {kp \in KeyParts : \A m \in Needed(j, it) : SliceAt(it.ops[m], kp) # {}}
<1> DEFINE n == Len(Labelled(j))
           src == Labelled(j)
           P == {p \in DOMAIN j.operands :
                    HasLabel(j, p) /\ (j.optional => p \in j.non_optional \/ p = FirstLabelled(j))}
           needed == Needed(j, it)
<1>1. /\ n \in Nat \ {0} /\ \A m \in 1 .. n : src[m] \in Labels(j)
      /\ \A p \in Labels(j) : \E m \in 1 .. n : src[m] = p
      /\ \A m, k \in 1 .. n : src[m] = src[k] => m = k
      /\ src[1] = FirstLabelled(j)
  BY LabelledFacts
<1>2. JoinKeys(j) = {kp \in KeyParts : \A p \in P : SliceFor(j, p, kp) # {}}
  BY DEF JoinKeys
<1>3. \A m \in 1 .. n : order[m] \in 1 .. n
  BY DEF IsOrder
<1>4. \A m \in 1 .. n : \A kp : SliceAt(it.ops[m], kp) = SliceFor(j, src[order[m]], kp)
  BY DEF Ordered, SliceAt, SliceFor
<1>5. DOMAIN it.ops = 1 .. n
  BY DEF Ordered
<1>6. needed \in SUBSET (1 .. n)
  BY <1>1, <1>5 DEF Needed, Ordered
<1>7. \A p : p \in P <=> p \in Labels(j) /\ (j.optional => p \in j.non_optional \/ p = FirstLabelled(j))
  BY DEF Labels
<1>8. j.optional \in BOOLEAN
  BY JoinFacts
<1>9. P = {src[order[m]] : m \in needed}
  <2>1. CASE j.optional
    <3>1. needed = {1} \cup {m \in 1 .. n : src[m] \in j.non_optional}
      BY <2>1 DEF Needed, Ordered
    <3>2. \A m \in 1 .. n : order[m] = m
      BY <2>1 DEF IsOrder
    <3>3. 1 \in 1 .. n
      BY <1>1
    <3> HIDE DEF P, needed, src, n
    <3>4. \A m \in needed : src[m] \in P
      BY <1>1, <1>7, <3>1, <3>3
    <3>5. \A p \in P : \E m \in needed : src[m] = p
      BY <1>1, <1>7, <2>1, <3>1, <3>3
    <3>6. P = {src[m] : m \in needed}
      BY <3>4, <3>5
    <3>7. \A m \in needed : order[m] = m
      BY <1>6, <3>2
    <3> QED
      BY <3>6, <3>7
  <2>2. CASE ~j.optional
    <3>1. needed = 1 .. n
      BY <1>1, <1>5, <2>2 DEF Needed
    <3>2. \A m \in 1 .. n : \E k \in 1 .. n : order[k] = m
      BY DEF IsOrder
    <3> HIDE DEF P, needed, src, n
    <3>3. \A m \in needed : src[order[m]] \in P
      BY <1>1, <1>3, <1>7, <2>2, <3>1
    <3>4. ASSUME NEW p \in P PROVE \E m \in needed : src[order[m]] = p
      <4>1. PICK k \in 1 .. n : src[k] = p
        BY <1>1, <1>7
      <4>2. PICK m \in 1 .. n : order[m] = k
        BY <3>2
      <4> QED
        BY <3>1, <4>1, <4>2
    <3> QED
      BY <3>3, <3>4
  <2> QED
    BY <1>8, <2>1, <2>2
<1> HIDE DEF P, needed, src, n
<1>10. ASSUME NEW kp
       PROVE  (\A p \in P : SliceFor(j, p, kp) # {}) <=> (\A m \in needed : SliceAt(it.ops[m], kp) # {})
  <2>1. \A m \in needed : SliceAt(it.ops[m], kp) = SliceFor(j, src[order[m]], kp)
    BY <1>4, <1>6
  <2> QED
    BY <1>9, <2>1
<1>11. JoinKeys(j) = {kp \in KeyParts : \A m \in needed : SliceAt(it.ops[m], kp) # {}}
  BY <1>2, <1>10
<1> QED
  BY <1>11 DEF needed

\* The value of a join, per operand.
ValueOf(j, p, kp) ==
    IF ~HasLabel(j, p) THEN j.operands[p]
    ELSE IF SliceFor(j, p, kp) = {} THEN NoHypertrie
    ELSE Operand(RestDepth(j, p), SliceFor(j, p, kp))

LEMMA JoinValueIs ==
    ASSUME NEW j \in Joins, NEW kp
    PROVE  /\ JoinValue(j, kp) = [o \in 1 .. Outputs(j) |-> JoinValue(j, kp)[o]]
           /\ \A o \in 1 .. Outputs(j) :
                 JoinValue(j, kp)[o] = ValueOf(j, InOrder(WithOutput(j))[o], kp)
<1>1. JoinValue(j, kp) =
        [o \in DOMAIN InOrder(WithOutput(j)) |-> ValueOf(j, InOrder(WithOutput(j))[o], kp)]
  BY DEF JoinValue, WithOutput, ValueOf
<1>2. InOrder(WithOutput(j)) = [o \in 1 .. Outputs(j) |-> InOrder(WithOutput(j))[o]]
  BY OutputFacts
<1>3. DOMAIN InOrder(WithOutput(j)) = 1 .. Outputs(j)
  BY <1>2
<1> QED
  BY <1>1, <1>3

\* Each output comes from one diagonal, or from an operand without the label.
LEMMA OrderedOutputs ==
    ASSUME NEW j \in Joins, NEW order, IsOrder(j, order), NEW it, Ordered(j, it, order),
           NEW o \in 1 .. Outputs(j)
    PROVE  \/ /\ Sources(it, o) = {}
              /\ it.second[o].slice.at = "node"
              /\ \A kp \in KeyParts :
                    JoinValue(j, kp)[o] = Operand(it.second[o].depth, it.second[o].slice.es)
           \/ \E m \in DOMAIN it.ops :
                 /\ Sources(it, o) = {m}
                 /\ \A kp \in KeyParts : JoinValue(j, kp)[o] = ValueAt(it.ops[m], kp)
<1> DEFINE n == Len(Labelled(j))
           src == Labelled(j)
           place(m) == src[order[m]]
<1>1. /\ n \in Nat \ {0} /\ \A m \in 1 .. n : src[m] \in Labels(j)
      /\ \A p \in Labels(j) : \E m \in 1 .. n : src[m] = p
      /\ \A m, k \in 1 .. n : src[m] = src[k] => m = k
  BY LabelledFacts
<1>2. PICK p \in WithOutput(j) :
         /\ OutPos(j, p) = o /\ InOrder(WithOutput(j))[o] = p
         /\ p = CHOOSE q \in DOMAIN j.operands : HasOutput(j, q) /\ OutPos(j, q) = o
  BY OutputFacts
<1>3. /\ \A q \in WithOutput(j) : OutPos(j, q) = o => q = p
      /\ Outputs(j) \in Nat
  BY <1>2, OutputFacts
<1>4. \A kp : JoinValue(j, kp)[o] = ValueOf(j, p, kp)
  BY <1>2, JoinValueIs
<1>5. DOMAIN it.ops = 1 .. n
  BY DEF Ordered
<1>6. /\ \A m \in 1 .. n : order[m] \in 1 .. n
      /\ \A m \in 1 .. n : \E k \in 1 .. n : order[k] = m
      /\ \A m, k \in 1 .. n : order[m] = order[k] => m = k
  BY DEF IsOrder
<1>7. p \in DOMAIN j.operands
  BY DEF WithOutput
<1>8. \A q \in Labels(j) : q \in WithOutput(j) <=> HasOutput(j, q)
  BY DEF Labels, WithOutput
<1>9. \A m \in 1 .. n : place(m) \in Labels(j)
  BY <1>1, <1>6
<1>10. \A m \in 1 .. n : it.pos_in_out[m] = o <=> place(m) = p
  <2> TAKE m \in 1 .. n
  <2>1. it.pos_in_out[m] = IF HasOutput(j, place(m)) THEN OutPos(j, place(m)) ELSE 0
    BY DEF Ordered
  <2>2. o # 0
    BY <1>3
  <2>3. HasOutput(j, p)
    BY DEF WithOutput
  <2> HIDE DEF place, n
  <2> QED
    BY <1>2, <1>3, <1>8, <1>9, <2>1, <2>2, <2>3
<1>11. CASE ~HasLabel(j, p)
  <2>1. \A m \in 1 .. n : place(m) # p
    BY <1>9, <1>11 DEF Labels
  <2>2. Sources(it, o) = {}
    BY <1>5, <1>10, <2>1 DEF Sources
  <2>3. it.second = InitialOutputs(j)
    BY DEF Ordered
  <2>4. it.second[o] = NodeOutput(j.operands[p])
    BY <1>2, <1>11, <2>3 DEF InitialOutputs
  <2>5. /\ it.second[o].slice.at = "node" /\ it.second[o].depth = j.operands[p].depth
        /\ it.second[o].slice.es = j.operands[p].es
    BY <2>4, SliceResultFacts DEF NodeOutput
  <2>6. j.operands[p] = Operand(j.operands[p].depth, j.operands[p].es)
    BY <1>7, JoinFacts
  <2>7. \A kp \in KeyParts :
           JoinValue(j, kp)[o] = Operand(it.second[o].depth, it.second[o].slice.es)
    BY <1>4, <1>11, <2>5, <2>6 DEF ValueOf
  <2> QED
    BY <2>2, <2>5, <2>7
<1>12. CASE HasLabel(j, p)
  <2>1. p \in Labels(j)
    BY <1>7, <1>12 DEF Labels
  <2>2. PICK m \in 1 .. n : place(m) = p
    <3>1. PICK r \in 1 .. n : src[r] = p
      BY <1>1, <2>1
    <3>2. PICK m \in 1 .. n : order[m] = r
      BY <1>6
    <3> QED
      BY <3>1, <3>2
  <2>3. \A k \in 1 .. n : place(k) = p => k = m
    BY <1>1, <1>6, <2>2
  <2>4. Sources(it, o) = {m}
    <3> HIDE DEF place
    <3> QED
      BY <1>5, <1>10, <2>2, <2>3 DEF Sources
  <2>5. it.ops[m].op = j.operands[p] /\ it.ops[m].poss = j.positions[p]
    BY <2>2 DEF Ordered
  <2>6. \A kp : ValueOf(j, p, kp) = ValueAt(it.ops[m], kp)
    BY <1>12, <2>5 DEF ValueOf, ValueAt, SliceAt, SliceFor, RestDepth, result_depth
  <2>7. m \in DOMAIN it.ops
    BY <1>5
  <2> QED
    BY <1>4, <2>4, <2>6, <2>7
<1> QED
  BY <1>11, <1>12

LEMMA OrderedServes ==
    ASSUME NEW j \in Joins, NEW order, IsOrder(j, order), NEW it, Ordered(j, it, order)
    PROVE  ServesJoin(j, it)
<1>1. \A kp \in KeyParts : JoinValue(j, kp) = [o \in 1 .. Outputs(j) |-> JoinValue(j, kp)[o]]
  BY JoinValueIs
<1> QED
  BY <1>1, OrderedKeys, OrderedOutputs DEF ServesJoin

\* The diagonals of an iterator in their order, each in its own place.
LEMMA ConstructedIterator ==
    ASSUME NEW j \in Joins, NEW i, NEW order \in OperandOrders(j, Diagonals(j, i)),
           NEW it, it = IteratorIn(j, i, Diagonals(j, i), order)
    PROVE  /\ IsOrder(j, order) /\ Ordered(j, it, order)
           /\ OwnDiagonals(j, i, it)
           /\ \A m \in 1 .. Len(Labelled(j)) : it.ops[m].rest = {} /\ it.ops[m].kp = NoPart
           /\ it = [ops |-> it.ops, pos_in_out |-> it.pos_in_out, non_optional |-> it.non_optional,
                    first |-> it.first, second |-> it.second, mine |-> TRUE]
<1> DEFINE n == Len(Labelled(j))
           src == Labelled(j)
           ops == Diagonals(j, i)
           moved == [m \in DOMAIN ops |-> ops[order[m]]]
<1>1. /\ n \in Nat \ {0} /\ \A m \in 1 .. n : src[m] \in Labels(j)
      /\ src = [m \in 1 .. n |-> src[m]]
  BY LabelledFacts
<1>2. ops = [m \in 1 .. n |-> NewDiagonal(j.operands[src[m]], j.positions[src[m]], <<i, m>>)]
  <2>1. DOMAIN src = 1 .. n
    BY <1>1
  <2> QED
    BY <2>1 DEF Diagonals
<1>3. ASSUME NEW m \in 1 .. n
      PROVE  /\ GoodDiagonal(ops[m], <<i, m>>)
             /\ ops[m].op = j.operands[src[m]] /\ ops[m].poss = j.positions[src[m]]
             /\ ops[m].rest = {} /\ ops[m].kp = NoPart
  <2>1. ops[m] = NewDiagonal(j.operands[src[m]], j.positions[src[m]], <<i, m>>)
    BY <1>2
  <2>2. GoodOperand(j.operands[src[m]], j.positions[src[m]])
    BY <1>1, JoinFacts
  <2> HIDE DEF ops, src, n
  <2> QED
    BY <2>1, <2>2, NewDiagonalGood
<1>4. ops = [m \in 1 .. n |-> ops[m]]
  BY <1>2
<1> HIDE DEF ops
<1>5. /\ IsOrder(j, order)
      /\ ~j.optional => \A m \in 1 .. n : m = 1 \/
                           diagonal_size(ops[order[1]]) <= diagonal_size(ops[order[m]])
  <2>1. order \in OperandOrders(j, ops)
    BY DEF ops
  <2> QED
    BY <1>4, <2>1, OrderFacts
<1>6. \A m \in 1 .. n : order[m] \in 1 .. n
  BY <1>5 DEF IsOrder
<1>7. DOMAIN ops = 1 .. n
  BY <1>4
<1>8. it = [ops |-> Settled(i, moved),
            pos_in_out |-> [m \in DOMAIN ops |->
                               IF HasOutput(j, src[order[m]]) THEN OutPos(j, src[order[m]]) ELSE 0],
            non_optional |-> {m \in DOMAIN ops : src[m] \in j.non_optional},
            first |-> NoPart, second |-> InitialOutputs(j), mine |-> TRUE]
  BY DEF IteratorIn, ops
<1>9. it.ops = [m \in 1 .. n |-> update_sen_cache_ptr(ops[order[m]], <<i, m>>)]
  <2>1. it.ops = Settled(i, moved)
    BY <1>8
  <2>2. DOMAIN moved = 1 .. n /\ \A m \in 1 .. n : moved[m] = ops[order[m]]
    BY <1>7
  <2> HIDE DEF moved, n
  <2> QED
    BY <2>1, <2>2 DEF Settled
<1>10. ASSUME NEW m \in 1 .. n
       PROVE  /\ GoodDiagonal(it.ops[m], <<i, m>>)
              /\ SameDiagonal(ops[order[m]], it.ops[m])
              /\ it.ops[m].rest = {} /\ it.ops[m].kp = NoPart
  <2>1. it.ops[m] = update_sen_cache_ptr(ops[order[m]], <<i, m>>)
    BY <1>9
  <2>2. /\ GoodDiagonal(ops[order[m]], <<i, order[m]>>)
        /\ ops[order[m]].rest = {} /\ ops[order[m]].kp = NoPart
    BY <1>3, <1>6
  <2> HIDE DEF n
  <2> QED
    BY <2>1, <2>2, SettledGood
<1>11. Ordered(j, it, order)
  <2>1. it.ops = [m \in 1 .. n |-> it.ops[m]]
    BY <1>9
  <2>2. ASSUME NEW m \in 1 .. n
        PROVE  /\ it.ops[m].op = j.operands[src[order[m]]]
               /\ it.ops[m].poss = j.positions[src[order[m]]]
               /\ it.pos_in_out[m] = IF HasOutput(j, src[order[m]]) THEN OutPos(j, src[order[m]]) ELSE 0
    <3>1. SameDiagonal(ops[order[m]], it.ops[m])
      BY <1>10
    <3>2. /\ ops[order[m]].op = j.operands[src[order[m]]]
          /\ ops[order[m]].poss = j.positions[src[order[m]]]
      BY <1>3, <1>6
    <3>3. it.pos_in_out = [k \in 1 .. n |->
                              IF HasOutput(j, src[order[k]]) THEN OutPos(j, src[order[k]]) ELSE 0]
      BY <1>7, <1>8
    <3> QED
      BY <3>1, <3>2, <3>3 DEF SameDiagonal
  <2>3. it.non_optional = {m \in 1 .. n : src[m] \in j.non_optional} /\ it.second = InitialOutputs(j)
    BY <1>7, <1>8
  <2> QED
    BY <2>1, <2>2, <2>3 DEF Ordered
<1>12. OwnDiagonals(j, i, it)
  <2>1. DOMAIN it.ops = 1 .. n
    BY <1>9
  <2>2. \A m \in 1 .. n : diagonal_size(it.ops[m]) = diagonal_size(ops[order[m]])
    BY <1>10, SameFacts
  <2>3. \A m \in 1 .. n : diagonal_size(it.ops[m]) \in Nat
    <3> TAKE m \in 1 .. n
    <3>1. GoodOperand(it.ops[m].op, it.ops[m].poss)
      BY <1>10 DEF GoodDiagonal
    <3> QED
      BY <3>1, SizeBound
  <2>4. ~j.optional => \A m \in 1 .. n : diagonal_size(it.ops[1]) <= diagonal_size(it.ops[m])
    <3>1. 1 \in 1 .. n
      BY <1>1
    <3>2. diagonal_size(it.ops[1]) <= diagonal_size(it.ops[1])
      BY <2>3, <3>1
    <3> HIDE DEF n
    <3> QED
      BY <1>5, <2>2, <3>1, <3>2
  <2> QED
    BY <1>10, <2>1, <2>4 DEF OwnDiagonals
<1>13. it = [ops |-> it.ops, pos_in_out |-> it.pos_in_out, non_optional |-> it.non_optional,
             first |-> it.first, second |-> it.second, mine |-> TRUE]
  BY <1>8
<1> QED
  BY <1>5, <1>10, <1>11, <1>12, <1>13

LEMMA OpsReplaced ==
    ASSUME NEW it, NEW mine, NEW ops,
           it = [ops |-> it.ops, pos_in_out |-> it.pos_in_out, non_optional |-> it.non_optional,
                 first |-> it.first, second |-> it.second, mine |-> mine]
    PROVE  [it EXCEPT !.ops = ops] =
              [ops |-> ops, pos_in_out |-> it.pos_in_out, non_optional |-> it.non_optional,
               first |-> it.first, second |-> it.second, mine |-> mine]
<1>1. it = [ops |-> it.ops, pos_in_out |-> it.pos_in_out, non_optional |-> it.non_optional,
            first |-> it.first, second |-> it.second, mine |-> mine]
  OBVIOUS
<1> QED
  BY <1>1

\* begin() of a join.
LEMMA BeginIterator ==
    ASSUME NEW j \in Joins, NEW i, NEW it \in NewIterators(j, i)
    PROVE  IteratorInv(j, i, it, "probing", <<>>)
<1> DEFINE n == Len(Labelled(j))
<1>1. PICK order \in OperandOrders(j, Diagonals(j, i)) :
        \E g \in begin(IteratorIn(j, i, Diagonals(j, i), order).ops[1], <<i, 1>>) :
           it = [IteratorIn(j, i, Diagonals(j, i), order) EXCEPT !.ops[1] = g]
  BY DEF NewIterators
<1> DEFINE old == IteratorIn(j, i, Diagonals(j, i), order)
<1>2. PICK g \in begin(old.ops[1], <<i, 1>>) : it = [old EXCEPT !.ops[1] = g]
  BY <1>1
<1> HIDE DEF old
<1>3. /\ IsOrder(j, order) /\ Ordered(j, old, order)
      /\ OwnDiagonals(j, i, old)
      /\ \A m \in 1 .. n : old.ops[m].rest = {} /\ old.ops[m].kp = NoPart
      /\ old = [ops |-> old.ops, pos_in_out |-> old.pos_in_out, non_optional |-> old.non_optional,
                first |-> old.first, second |-> old.second, mine |-> TRUE]
  BY ConstructedIterator DEF old
<1>4. n \in Nat \ {0} /\ 1 \in 1 .. n
  BY LabelledFacts
<1>5. old.ops = [m \in 1 .. n |-> old.ops[m]] /\ DOMAIN old.ops = 1 .. n
  BY <1>3 DEF Ordered
<1> DEFINE ops == [old.ops EXCEPT ![1] = g]
<1>6. it = [ops |-> ops, pos_in_out |-> old.pos_in_out, non_optional |-> old.non_optional,
            first |-> old.first, second |-> old.second, mine |-> TRUE]
  <2>1. it = [old EXCEPT !.ops = ops]
    BY <1>2
  <2>2. old = [ops |-> old.ops, pos_in_out |-> old.pos_in_out, non_optional |-> old.non_optional,
               first |-> old.first, second |-> old.second, mine |-> TRUE]
    BY <1>3
  <2> HIDE DEF ops
  <2>3. [old EXCEPT !.ops = ops] =
           [ops |-> ops, pos_in_out |-> old.pos_in_out, non_optional |-> old.non_optional,
            first |-> old.first, second |-> old.second, mine |-> TRUE]
    <3> HIDE DEF old
    <3> QED
      BY <2>2, OpsReplaced
  <2> QED
    BY <2>1, <2>3
<1>7. /\ ops = [m \in 1 .. n |-> ops[m]] /\ ops[1] = g
      /\ \A m \in 1 .. n : m # 1 => ops[m] = old.ops[m]
  BY <1>4, <1>5
<1> HIDE DEF ops
<1>8. /\ it.ops = ops /\ it.pos_in_out = old.pos_in_out /\ it.non_optional = old.non_optional
      /\ it.second = old.second /\ it.mine = TRUE
      /\ it = [ops |-> it.ops, pos_in_out |-> it.pos_in_out, non_optional |-> it.non_optional,
               first |-> it.first, second |-> it.second, mine |-> it.mine]
  BY <1>6
<1>9. /\ GoodDiagonal(g, <<i, 1>>) /\ AtSlice(g, <<i, 1>>) /\ SameDiagonal(old.ops[1], g)
      /\ \A kp : SliceAt(old.ops[1], kp) # {} => kp \in g.rest \cup {g.kp}
  <2>1. GoodDiagonal(old.ops[1], <<i, 1>>) /\ ended(old.ops[1]) /\ old.ops[1].rest = {}
    BY <1>3, <1>4, <1>5 DEF OwnDiagonals, ended
  <2> QED
    BY <2>1, BeginStep
<1>10. \A m \in 1 .. n : SameDiagonal(old.ops[m], ops[m])
  BY <1>7, <1>9 DEF SameDiagonal
<1>11. Ordered(j, it, order)
  <2>1. it.ops = [m \in 1 .. n |-> it.ops[m]]
    BY <1>7, <1>8
  <2> QED
    BY <1>3, <1>8, <1>10, <2>1 DEF Ordered, SameDiagonal
<1>12. ServesJoin(j, it)
  BY <1>3, <1>11, OrderedServes
<1>13. IteratorShape(j, it)
  <2>1. Outputs(j) \in Nat /\ it.second = InitialOutputs(j) /\ it.ops = [m \in 1 .. n |-> it.ops[m]]
    BY <1>11, OutputFacts DEF Ordered
  <2>2. it.second = [o \in 1 .. Outputs(j) |-> it.second[o]]
    BY <2>1 DEF InitialOutputs
  <2>3. it.non_optional \in SUBSET (1 .. n)
    BY <1>11 DEF Ordered
  <2> QED
    BY <1>4, <1>8, <2>1, <2>2, <2>3 DEF IteratorShape
<1>14. OwnDiagonals(j, i, it)
  <2>1. \A m \in 1 .. n : diagonal_size(it.ops[m]) = diagonal_size(old.ops[m])
    BY <1>8, <1>10, SameFacts
  <2>2. \A m \in 1 .. n : GoodDiagonal(it.ops[m], <<i, m>>)
    BY <1>3, <1>5, <1>7, <1>8, <1>9 DEF OwnDiagonals
  <2>3. DOMAIN it.ops = 1 .. n
    BY <1>7, <1>8
  <2> QED
    BY <1>3, <1>4, <1>5, <2>1, <2>2, <2>3 DEF OwnDiagonals
<1>15. KeysVisited(j, it.ops[1], "probing", <<>>)
  <2>1. it.ops[1] = g
    BY <1>7, <1>8
  <2>2. JoinKeys(j) \subseteq g.rest \cup {g.kp}
    <3>1. \A kp \in JoinKeys(j) : SliceAt(it.ops[1], kp) # {}
      BY <1>12 DEF ServesJoin, Needed
    <3>2. \A kp : SliceAt(g, kp) = SliceAt(old.ops[1], kp)
      BY <1>9, SameFacts
    <3> QED
      BY <1>9, <2>1, <3>1, <3>2
  <2>3. Seen(<<>>) = {} /\ <<>> \in Seq(KeyParts) /\ DOMAIN <<>> = {}
    BY DEF Seen
  <2> QED
    BY <2>1, <2>2, <2>3 DEF KeysVisited
<1> QED
  BY <1>7, <1>8, <1>9, <1>12, <1>13, <1>14, <1>15 DEF IteratorInv

-----------------------------------------------------------------------------
(* Steps of iterators.                                                     *)

\* An iterator of a join, wherever it is in the loop.
Serves(j, i, it) == IteratorShape(j, it) /\ ServesJoin(j, it) /\ OwnDiagonals(j, i, it)

\* new has the diagonals of it, at the addresses of iterator k and at other
\* key parts, and its outputs as far as no diagonal fills them in.
SameService(it, new, k) ==
    /\ new = [ops |-> new.ops, pos_in_out |-> it.pos_in_out, non_optional |-> it.non_optional,
              first |-> new.first, second |-> new.second, mine |-> new.mine]
    /\ new.mine \in BOOLEAN
    /\ new.ops = [m \in DOMAIN it.ops |-> new.ops[m]]
    /\ \A m \in DOMAIN it.ops :
          GoodDiagonal(new.ops[m], <<k, m>>) /\ SameDiagonal(it.ops[m], new.ops[m])
    /\ new.second = [o \in DOMAIN it.second |-> new.second[o]]
    /\ \A o \in DOMAIN it.second : Sources(it, o) = {} => new.second[o] = it.second[o]

LEMMA ServiceKept ==
    ASSUME NEW j \in Joins, NEW i, NEW it, NEW k, NEW new, Serves(j, i, it), SameService(it, new, k)
    PROVE  Serves(j, k, new)
<1> DEFINE n == Len(Labelled(j))
<1>0. /\ IteratorShape(j, it) /\ ServesJoin(j, it) /\ OwnDiagonals(j, i, it)
      /\ new = [ops |-> new.ops, pos_in_out |-> it.pos_in_out, non_optional |-> it.non_optional,
                first |-> new.first, second |-> new.second, mine |-> new.mine]
      /\ new.mine \in BOOLEAN
      /\ new.ops = [m \in DOMAIN it.ops |-> new.ops[m]]
      /\ \A m \in DOMAIN it.ops :
            GoodDiagonal(new.ops[m], <<k, m>>) /\ SameDiagonal(it.ops[m], new.ops[m])
      /\ new.second = [o \in DOMAIN it.second |-> new.second[o]]
      /\ \A o \in DOMAIN it.second : Sources(it, o) = {} => new.second[o] = it.second[o]
  BY DEF Serves, SameService
<1> USE <1>0
<1>1. /\ DOMAIN it.ops = 1 .. n /\ DOMAIN it.second = 1 .. Outputs(j) /\ n \in Nat \ {0}
      /\ 1 \in 1 .. n
  BY DEF IteratorShape
<1>2. /\ new.pos_in_out = it.pos_in_out /\ new.non_optional = it.non_optional
      /\ new = [ops |-> new.ops, pos_in_out |-> new.pos_in_out, non_optional |-> new.non_optional,
                first |-> new.first, second |-> new.second, mine |-> new.mine]
  <2>1. new = [ops |-> new.ops, pos_in_out |-> it.pos_in_out, non_optional |-> it.non_optional,
               first |-> new.first, second |-> new.second, mine |-> new.mine]
    OBVIOUS
  <2>2. new.pos_in_out = it.pos_in_out /\ new.non_optional = it.non_optional
    BY <2>1
  <2> QED
    BY <2>1, <2>2
<1>3. DOMAIN new.ops = 1 .. n
  BY <1>1
<1>4. IteratorShape(j, new)
  BY <1>1, <1>2 DEF IteratorShape
<1>5. /\ \A m \in 1 .. n : \A kp : SliceAt(new.ops[m], kp) = SliceAt(it.ops[m], kp)
      /\ \A m \in 1 .. n : /\ result_depth(new.ops[m]) = result_depth(it.ops[m])
                           /\ diagonal_size(new.ops[m]) = diagonal_size(it.ops[m])
  BY <1>1, SameFacts
<1>6. ServesJoin(j, new)
  <2>1. Needed(j, new) = Needed(j, it) /\ Needed(j, it) \in SUBSET (1 .. n)
    BY <1>1, <1>2, <1>3 DEF Needed, IteratorShape
  <2>2. \A o : Sources(new, o) = Sources(it, o)
    BY <1>1, <1>2, <1>3 DEF Sources
  <2>3. JoinKeys(j) = {kp \in KeyParts : \A m \in Needed(j, new) : SliceAt(new.ops[m], kp) # {}}
    <3>1. JoinKeys(j) = {kp \in KeyParts : \A m \in Needed(j, it) : SliceAt(it.ops[m], kp) # {}}
      BY DEF ServesJoin
    <3>2. \A m \in Needed(j, it) : \A kp : SliceAt(new.ops[m], kp) = SliceAt(it.ops[m], kp)
      BY <1>5, <2>1
    <3> HIDE DEF n
    <3> QED
      BY <2>1, <3>1, <3>2
  <2>4. \A m \in 1 .. n : \A kp : ValueAt(new.ops[m], kp) = ValueAt(it.ops[m], kp)
    BY <1>5 DEF ValueAt
  <2>5. ASSUME NEW o \in 1 .. Outputs(j)
        PROVE  \/ /\ Sources(new, o) = {}
                  /\ new.second[o].slice.at = "node"
                  /\ \A kp \in KeyParts :
                        JoinValue(j, kp)[o] = Operand(new.second[o].depth, new.second[o].slice.es)
               \/ \E m \in DOMAIN new.ops :
                     /\ Sources(new, o) = {m}
                     /\ \A kp \in KeyParts : JoinValue(j, kp)[o] = ValueAt(new.ops[m], kp)
    <3>1. CASE /\ Sources(it, o) = {}
               /\ it.second[o].slice.at = "node"
               /\ \A kp \in KeyParts :
                     JoinValue(j, kp)[o] = Operand(it.second[o].depth, it.second[o].slice.es)
      <4>1. new.second[o] = it.second[o]
        BY <1>1, <3>1
      <4> QED
        BY <2>2, <3>1, <4>1
    <3>2. CASE \E m \in DOMAIN it.ops :
                  /\ Sources(it, o) = {m}
                  /\ \A kp \in KeyParts : JoinValue(j, kp)[o] = ValueAt(it.ops[m], kp)
      <4>1. PICK m \in 1 .. n :
               /\ Sources(it, o) = {m}
               /\ \A kp \in KeyParts : JoinValue(j, kp)[o] = ValueAt(it.ops[m], kp)
        BY <1>1, <3>2
      <4> HIDE DEF n
      <4>2. m \in DOMAIN new.ops /\ Sources(new, o) = {m}
        BY <1>3, <2>2, <4>1
      <4>3. \A kp : ValueAt(new.ops[m], kp) = ValueAt(it.ops[m], kp)
        BY <2>4
      <4> QED
        BY <4>1, <4>2, <4>3
    <3> QED
      BY <3>1, <3>2 DEF ServesJoin
  <2> QED
    BY <2>3, <2>5 DEF ServesJoin
<1>7. OwnDiagonals(j, k, new)
  <2> HIDE DEF n
  <2> QED
    BY <1>1, <1>3, <1>5 DEF OwnDiagonals
<1> QED
  BY <1>4, <1>6, <1>7 DEF Serves

\* The first probe that fails.
LEMMA MissFacts ==
    ASSUME join \in Joins, NEW i, NEW it, IteratorShape(join, it), ServesJoin(join, it),
           OwnDiagonals(join, i, it), NEW kp \in KeyParts, SliceAt(it.ops[1], kp) # {}
    PROVE  /\ FirstMiss(it, i, kp) \in Nat
           /\ FirstMiss(it, i, kp) > Len(it.ops) <=> kp \in JoinKeys(join)
<1> DEFINE n == Len(Labelled(join))
           needed == IF join.optional THEN it.non_optional ELSE DOMAIN it.ops
           misses == {m \in needed \ {1} : ~found(it.ops[m], kp, <<i, m>>)}
<1>1. /\ DOMAIN it.ops = 1 .. n /\ n \in Nat \ {0} /\ Len(it.ops) = n
      /\ join.optional => it.non_optional \in SUBSET (1 .. n)
  BY DEF IteratorShape
<1>2. needed \in SUBSET (1 .. n) /\ Needed(join, it) = {1} \cup needed
  BY <1>1 DEF Needed
<1>3. \A m \in 1 .. n : found(it.ops[m], kp, <<i, m>>) <=> SliceAt(it.ops[m], kp) # {}
  <2> TAKE m \in 1 .. n
  <2>1. GoodDiagonal(it.ops[m], <<i, m>>)
    BY <1>1 DEF OwnDiagonals
  <2> QED
    BY <2>1, FindStep
<1>4. FirstMiss(it, i, kp) = IF misses = {} THEN Len(it.ops) + 1 ELSE first_pos(misses)
  BY DEF FirstMiss
<1> HIDE DEF needed
<1>5. misses = {} <=> \A m \in Needed(join, it) : SliceAt(it.ops[m], kp) # {}
  BY <1>2, <1>3
<1>6. misses = {} <=> kp \in JoinKeys(join)
  BY <1>5 DEF ServesJoin
<1>7. misses \in SUBSET (1 .. n)
  BY <1>2
<1> HIDE DEF misses, n
<1>8. CASE misses = {}
  BY <1>1, <1>4, <1>6, <1>8
<1>9. CASE misses # {}
  <2>1. first_pos(misses) \in 1 .. n
    BY <1>1, <1>7, <1>9, FirstPosition
  <2>2. FirstMiss(it, i, kp) \in 1 .. n
    BY <1>4, <1>9, <2>1
  <2> QED
    BY <1>1, <1>6, <1>9, <2>2
<1> QED
  BY <1>8, <1>9

\* The diagonals after they were probed.
LEMMA ProbedFacts ==
    ASSUME join \in Joins, NEW i, NEW it, IteratorShape(join, it), OwnDiagonals(join, i, it),
           NEW kp \in KeyParts, FirstMiss(it, i, kp) \in Nat
    PROVE  /\ Probed(it, i, kp) = [m \in DOMAIN it.ops |-> Probed(it, i, kp)[m]]
           /\ Probed(it, i, kp)[1] = it.ops[1]
           /\ \A m \in DOMAIN it.ops :
                 /\ GoodDiagonal(Probed(it, i, kp)[m], <<i, m>>)
                 /\ SameDiagonal(it.ops[m], Probed(it, i, kp)[m])
                 /\ m # 1 /\ ~(m > FirstMiss(it, i, kp)) /\ SliceAt(it.ops[m], kp) # {}
                    => GoodSlice(Probed(it, i, kp)[m].value, SliceAt(it.ops[m], kp),
                                 result_depth(it.ops[m]), <<i, m>>)
<1> DEFINE ops == Probed(it, i, kp)
<1>1. 1 \in DOMAIN it.ops
  BY DEF IteratorShape
<1>2. ops = [m \in DOMAIN it.ops |-> IF m = 1 \/ m > FirstMiss(it, i, kp) THEN it.ops[m]
                                     ELSE find(it.ops[m], kp, <<i, m>>)]
  BY DEF Probed
<1> HIDE DEF ops
<1>3. ASSUME NEW m \in DOMAIN it.ops
      PROVE  /\ GoodDiagonal(ops[m], <<i, m>>) /\ SameDiagonal(it.ops[m], ops[m])
             /\ m # 1 /\ ~(m > FirstMiss(it, i, kp)) /\ SliceAt(it.ops[m], kp) # {}
                => GoodSlice(ops[m].value, SliceAt(it.ops[m], kp), result_depth(it.ops[m]), <<i, m>>)
  <2>1. GoodDiagonal(it.ops[m], <<i, m>>)
    BY <1>3 DEF OwnDiagonals
  <2>2. CASE m = 1 \/ m > FirstMiss(it, i, kp)
    BY <1>2, <1>3, <2>1, <2>2 DEF SameDiagonal
  <2>3. CASE ~(m = 1 \/ m > FirstMiss(it, i, kp))
    <3>1. ops[m] = find(it.ops[m], kp, <<i, m>>)
      BY <1>2, <1>3, <2>3
    <3> QED
      BY <2>1, <3>1, FindStep
  <2> QED
    BY <2>2, <2>3
<1>4. ops = [m \in DOMAIN it.ops |-> ops[m]] /\ ops[1] = it.ops[1]
  BY <1>1, <1>2
<1> QED
  BY <1>3, <1>4 DEF ops

LEMMA IteratorReplaced ==
    ASSUME NEW it, NEW ops, NEW first, NEW second, NEW mine,
           it = [ops |-> it.ops, pos_in_out |-> it.pos_in_out, non_optional |-> it.non_optional,
                 first |-> it.first, second |-> it.second, mine |-> it.mine]
    PROVE  /\ [it EXCEPT !.ops = ops, !.mine = mine] =
                [ops |-> ops, pos_in_out |-> it.pos_in_out, non_optional |-> it.non_optional,
                 first |-> it.first, second |-> it.second, mine |-> mine]
           /\ [it EXCEPT !.ops = ops, !.first = first, !.second = second] =
                [ops |-> ops, pos_in_out |-> it.pos_in_out, non_optional |-> it.non_optional,
                 first |-> first, second |-> second, mine |-> it.mine]
           /\ [it EXCEPT !.ops = ops, !.first = first, !.second = second, !.mine = mine] =
                [ops |-> ops, pos_in_out |-> it.pos_in_out, non_optional |-> it.non_optional,
                 first |-> first, second |-> second, mine |-> mine]
<1> DEFINE Rec(x, a, b, c, d) ==
               x = [ops |-> a, pos_in_out |-> it.pos_in_out, non_optional |-> it.non_optional,
                    first |-> b, second |-> c, mine |-> d]
<1>1. Rec(it, it.ops, it.first, it.second, it.mine)
  OBVIOUS
<1>2. ASSUME NEW x, NEW a, NEW b, NEW c, NEW d, Rec(x, a, b, c, d), NEW v
      PROVE  Rec([x EXCEPT !.ops = v], v, b, c, d)
  BY <1>2
<1>3. ASSUME NEW x, NEW a, NEW b, NEW c, NEW d, Rec(x, a, b, c, d), NEW v
      PROVE  Rec([x EXCEPT !.first = v], a, v, c, d)
  BY <1>3
<1>4. ASSUME NEW x, NEW a, NEW b, NEW c, NEW d, Rec(x, a, b, c, d), NEW v
      PROVE  Rec([x EXCEPT !.second = v], a, b, v, d)
  BY <1>4
<1>5. ASSUME NEW x, NEW a, NEW b, NEW c, NEW d, Rec(x, a, b, c, d), NEW v
      PROVE  Rec([x EXCEPT !.mine = v], a, b, c, v)
  BY <1>5
<1> HIDE DEF Rec
<1> DEFINE f == [it EXCEPT !.ops = ops]
           g == [f EXCEPT !.first = first]
           h == [g EXCEPT !.second = second]
<1>6. Rec(f, ops, it.first, it.second, it.mine)
  BY <1>1, <1>2
<1>7. Rec([f EXCEPT !.mine = mine], ops, it.first, it.second, mine)
  <2> HIDE DEF f
  <2> QED
    BY <1>5, <1>6
<1>8. Rec(g, ops, first, it.second, it.mine)
  <2> HIDE DEF f
  <2> QED
    BY <1>3, <1>6
<1>9. Rec(h, ops, first, second, it.mine)
  <2> HIDE DEF f, g
  <2> QED
    BY <1>4, <1>8
<1>10. Rec([h EXCEPT !.mine = mine], ops, first, second, mine)
  <2> HIDE DEF f, g, h
  <2> QED
    BY <1>5, <1>9
<1>11. /\ [it EXCEPT !.ops = ops, !.mine = mine] = [f EXCEPT !.mine = mine]
       /\ [it EXCEPT !.ops = ops, !.first = first, !.second = second] = h
       /\ [it EXCEPT !.ops = ops, !.first = first, !.second = second, !.mine = mine]
          = [h EXCEPT !.mine = mine]
  OBVIOUS
<1> HIDE DEF f, g, h
<1> QED
  BY <1>7, <1>9, <1>10, <1>11 DEF Rec

\* The key part that the first diagonal is at.
LEMMA FirstKeyPart ==
    ASSUME NEW g, NEW address, GoodDiagonal(g, address), AtSlice(g, address), ~ended(g)
    PROVE  g.kp \in KeyParts /\ SliceAt(g, g.kp) # {} /\ g.kp \notin g.rest
BY DEF GoodDiagonal, AtSlice, ended

\* A key part that is left behind is not joint, or has been returned.
LEMMA VisitFurther ==
    ASSUME NEW j \in Joins, NEW it, ServesJoin(j, it), NEW phase, NEW seq, NEW h,
           KeysVisited(j, it.ops[1], phase, seq), Further(it.ops[1], h),
           it.ops[1].kp \in Seen(seq) \/ it.ops[1].kp \notin JoinKeys(j)
    PROVE  KeysVisited(j, h, "probing", seq)
<1> DEFINE g == it.ops[1]
           keys == JoinKeys(j)
<1>1. \A kp \in keys : SliceAt(g, kp) # {}
  BY DEF ServesJoin, Needed
<1>2. keys \in SUBSET KeyParts
  BY DEF ServesJoin
<1>3. /\ seq \in Seq(KeyParts)
      /\ \A x, y \in DOMAIN seq : x # y => seq[x] # seq[y]
      /\ Seen(seq) \subseteq keys /\ Seen(seq) \cap g.rest = {}
      /\ keys \subseteq Seen(seq) \cup g.rest \cup {g.kp}
  BY DEF KeysVisited
<1>4. g.kp \in Seen(seq) \/ g.kp \notin keys
  OBVIOUS
<1>5. /\ \A kp \in g.rest : SliceAt(g, kp) # {} => kp \in h.rest \cup {h.kp}
      /\ \/ ended(h) /\ h.rest = {}
         \/ ~ended(h) /\ h.kp \in g.rest /\ h.rest = g.rest \ {h.kp}
  BY DEF Further
<1> HIDE DEF g, keys
<1>6. keys \subseteq Seen(seq) \cup h.rest \cup {h.kp}
  BY <1>1, <1>3, <1>4, <1>5
<1>7. h.kp \notin Seen(seq)
  <2>1. CASE ended(h)
    BY <1>2, <1>3, <2>1, NoPartAssumption DEF ended
  <2>2. CASE ~ended(h)
    BY <1>3, <1>5, <2>2
  <2> QED
    BY <2>1, <2>2
<1>8. Seen(seq) \cap h.rest = {}
  BY <1>3, <1>5
<1> QED
  BY <1>3, <1>6, <1>7, <1>8 DEF KeysVisited, keys

\* Hit.
HitResult(it, i, kp) ==
    [it EXCEPT !.ops = Probed(it, i, kp), !.first = kp,
               !.second = Filled(it, i, kp, Len(it.ops)), !.mine = TRUE]

LEMMA HitIterator ==
    ASSUME join \in Joins, NEW i, NEW it, NEW seq, NEW kp, NEW new,
           IteratorInv(join, i, it, "probing", seq),
           kp = it.ops[1].kp, ~ended(it.ops[1]), FirstMiss(it, i, kp) > Len(it.ops),
           new = HitResult(it, i, kp)
    PROVE  IteratorInv(join, i, new, "ready", Append(seq, kp)) /\ new.ops[1] = it.ops[1]
<1> DEFINE n == Len(Labelled(join))
           ops == Probed(it, i, kp)
           second == Filled(it, i, kp, Len(it.ops))
           g == it.ops[1]
<1>1. /\ IteratorShape(join, it) /\ ServesJoin(join, it) /\ OwnDiagonals(join, i, it)
      /\ AtSlice(g, <<i, 1>>) /\ KeysVisited(join, g, "probing", seq)
  BY DEF IteratorInv
<1>2. /\ it = [ops |-> it.ops, pos_in_out |-> it.pos_in_out, non_optional |-> it.non_optional,
               first |-> it.first, second |-> it.second, mine |-> it.mine]
      /\ DOMAIN it.ops = 1 .. n /\ n \in Nat \ {0} /\ 1 \in 1 .. n /\ Len(it.ops) = n
      /\ DOMAIN it.second = 1 .. Outputs(join)
  BY <1>1 DEF IteratorShape
<1>3. kp \in KeyParts /\ SliceAt(g, kp) # {} /\ kp \notin g.rest
  <2>1. GoodDiagonal(g, <<i, 1>>)
    BY <1>1, <1>2 DEF OwnDiagonals
  <2> QED
    BY <1>1, <2>1, FirstKeyPart
<1>4. kp \in JoinKeys(join) /\ FirstMiss(it, i, kp) \in Nat
  BY <1>1, <1>3, MissFacts
<1>5. new = [ops |-> ops, pos_in_out |-> it.pos_in_out, non_optional |-> it.non_optional,
             first |-> kp, second |-> second, mine |-> TRUE]
  <2>1. HitResult(it, i, kp) = [it EXCEPT !.ops = ops, !.first = kp, !.second = second, !.mine = TRUE]
    BY DEF HitResult
  <2>2. it = [ops |-> it.ops, pos_in_out |-> it.pos_in_out, non_optional |-> it.non_optional,
              first |-> it.first, second |-> it.second, mine |-> it.mine]
    BY <1>2
  <2> HIDE DEF ops, second
  <2> QED
    BY <2>1, <2>2, IteratorReplaced
<1> HIDE DEF ops, second
<1>6. /\ new.ops = ops /\ new.pos_in_out = it.pos_in_out /\ new.non_optional = it.non_optional
      /\ new.first = kp /\ new.second = second /\ new.mine = TRUE
      /\ new = [ops |-> new.ops, pos_in_out |-> it.pos_in_out, non_optional |-> it.non_optional,
                first |-> new.first, second |-> new.second, mine |-> new.mine]
  BY <1>5
<1>7. /\ ops = [m \in DOMAIN it.ops |-> ops[m]]
      /\ ops[1] = g
      /\ \A m \in DOMAIN it.ops :
            /\ GoodDiagonal(ops[m], <<i, m>>)
            /\ SameDiagonal(it.ops[m], ops[m])
            /\ m # 1 /\ ~(m > FirstMiss(it, i, kp)) /\ SliceAt(it.ops[m], kp) # {}
               => GoodSlice(ops[m].value, SliceAt(it.ops[m], kp), result_depth(it.ops[m]), <<i, m>>)
  <2>1. /\ IteratorShape(join, it) /\ OwnDiagonals(join, i, it) /\ kp \in KeyParts
        /\ FirstMiss(it, i, kp) \in Nat
    BY <1>1, <1>3, <1>4
  <2>2. /\ Probed(it, i, kp) = [m \in DOMAIN it.ops |-> Probed(it, i, kp)[m]]
        /\ Probed(it, i, kp)[1] = it.ops[1]
        /\ \A m \in DOMAIN it.ops :
              /\ GoodDiagonal(Probed(it, i, kp)[m], <<i, m>>)
              /\ SameDiagonal(it.ops[m], Probed(it, i, kp)[m])
              /\ m # 1 /\ ~(m > FirstMiss(it, i, kp)) /\ SliceAt(it.ops[m], kp) # {}
                 => GoodSlice(Probed(it, i, kp)[m].value, SliceAt(it.ops[m], kp),
                              result_depth(it.ops[m]), <<i, m>>)
    BY <2>1, ProbedFacts
  <2> QED
    BY <2>2 DEF ops
<1>8. \A o \in DOMAIN it.second :
         second[o] = IF Sources(it, o) = {} THEN it.second[o]
                     ELSE OutputOf(it, ops, kp, i, CHOOSE m \in Sources(it, o) : TRUE)
  BY <1>2 DEF second, Filled, ops, Sources
<1>9. second = [o \in DOMAIN it.second |-> second[o]]
  BY DEF second, Filled
<1>10. IteratorShape(join, new) /\ ServesJoin(join, new) /\ OwnDiagonals(join, i, new)
  <2>1. new.ops = [m \in DOMAIN it.ops |-> new.ops[m]]
    BY <1>6, <1>7
  <2>2. \A m \in DOMAIN it.ops :
           GoodDiagonal(new.ops[m], <<i, m>>) /\ SameDiagonal(it.ops[m], new.ops[m])
    BY <1>6, <1>7
  <2>3. /\ new.second = [o \in DOMAIN it.second |-> new.second[o]]
        /\ \A o \in DOMAIN it.second : Sources(it, o) = {} => new.second[o] = it.second[o]
    BY <1>6, <1>8, <1>9
  <2>4. /\ new.mine \in BOOLEAN
        /\ new = [ops |-> new.ops, pos_in_out |-> it.pos_in_out, non_optional |-> it.non_optional,
                  first |-> new.first, second |-> new.second, mine |-> new.mine]
    BY <1>6
  <2>5. Serves(join, i, it)
    BY <1>1 DEF Serves
  <2>6. SameService(it, new, i)
    BY <2>1, <2>2, <2>3, <2>4 DEF SameService
  <2>7. Serves(join, i, new)
    BY <2>5, <2>6, ServiceKept
  <2> QED
    BY <2>7 DEF Serves
<1>11. AtSlice(new.ops[1], <<i, 1>>)
  BY <1>1, <1>6, <1>7
<1>12. KeysVisited(join, new.ops[1], "ready", Append(seq, kp))
  <2> DEFINE more == Append(seq, kp)
             keys == JoinKeys(join)
  <2>1. /\ seq \in Seq(KeyParts)
        /\ \A x, y \in DOMAIN seq : x # y => seq[x] # seq[y]
        /\ Seen(seq) \subseteq keys /\ Seen(seq) \cap g.rest = {}
        /\ keys \subseteq Seen(seq) \cup g.rest \cup {g.kp}
        /\ g.kp \notin Seen(seq)
    BY <1>1 DEF KeysVisited
  <2>2. /\ more \in Seq(KeyParts) /\ Len(seq) \in Nat
        /\ DOMAIN seq = 1 .. Len(seq) /\ DOMAIN more = 1 .. (Len(seq) + 1)
        /\ \A x \in DOMAIN seq : more[x] = seq[x]
        /\ more[Len(seq) + 1] = kp
    BY <1>3, <2>1
  <2> HIDE DEF more
  <2>3. \A x \in DOMAIN more : x \in DOMAIN seq \/ x = Len(seq) + 1
    BY <2>2
  <2>4. \A x \in DOMAIN seq : seq[x] # kp
    BY <2>1 DEF Seen
  <2>5. \A x, y \in DOMAIN more : x # y => more[x] # more[y]
    BY <2>1, <2>2, <2>3, <2>4
  <2>6. Seen(more) = Seen(seq) \cup {kp}
    <3>1. \A x \in DOMAIN seq : x \in DOMAIN more
      BY <2>2
    <3>2. Len(seq) + 1 \in DOMAIN more
      BY <2>2
    <3> QED
      BY <2>2, <2>3, <3>1, <3>2 DEF Seen
  <2>7. /\ Seen(more) \subseteq keys /\ Seen(more) \cap g.rest = {}
        /\ keys \subseteq Seen(more) \cup g.rest \cup {g.kp}
        /\ g.kp \in Seen(more)
    BY <1>3, <1>4, <2>1, <2>6
  <2> QED
    BY <1>6, <1>7, <2>2, <2>5, <2>7 DEF KeysVisited, more
<1>13. HoldsValue(join, i, new)
  <2>1. ASSUME NEW o \in 1 .. Outputs(join), NEW m \in Sources(new, o)
        PROVE  Held(new, <<i, m>>, m, o)
    <3>1. Sources(it, o) = Sources(new, o) /\ m \in 1 .. n
      BY <1>2, <1>6, <1>7 DEF Sources
    <3>2. Sources(it, o) = {m}
      BY <1>1, <3>1 DEF ServesJoin
    <3>3. new.second[o] = OutputOf(it, ops, kp, i, m)
      BY <1>2, <1>6, <1>8, <3>2
    <3>4. GoodDiagonal(it.ops[m], <<i, m>>)
      BY <1>1, <1>2, <3>1 DEF OwnDiagonals
    <3>5. found(it.ops[m], kp, <<i, m>>) <=> SliceAt(it.ops[m], kp) # {}
      BY <1>3, <3>4, FindStep
    <3>6. SliceAt(ops[m], kp) = SliceAt(it.ops[m], kp) /\ result_depth(ops[m]) = result_depth(it.ops[m])
      <4>1. SameDiagonal(it.ops[m], ops[m])
        BY <1>2, <1>7, <3>1
      <4> QED
        BY <4>1, SameFacts
    <3>7. m # 1 => ~(m > FirstMiss(it, i, kp)) /\ m > 1
      BY <1>2, <1>4, <3>1
    <3>8. SliceAt(ops[m], kp) # {} =>
             GoodSlice(ops[m].value, SliceAt(ops[m], kp), result_depth(ops[m]), <<i, m>>)
      <4>1. CASE m = 1
        BY <1>1, <1>7, <4>1 DEF AtSlice
      <4>2. CASE m # 1
        BY <1>2, <1>7, <3>1, <3>6, <3>7, <4>2
      <4> QED
        BY <4>1, <4>2
    <3>9. SliceAt(ops[m], kp) = {} => new.second[o] = NoOutput
      <4>1. ASSUME SliceAt(ops[m], kp) = {} PROVE m > 1
        BY <1>3, <1>7, <3>7, <4>1
      <4> QED
        BY <3>3, <3>5, <3>6, <4>1 DEF OutputOf
    <3>10. SliceAt(ops[m], kp) # {} => new.second[o] = CurrentHypertrie(ops[m])
      BY <3>3, <3>5, <3>6 DEF OutputOf
    <3> QED
      BY <1>6, <3>8, <3>9, <3>10 DEF Held
  <2> QED
    BY <1>4, <1>6, <2>1 DEF HoldsValue
<1> QED
  BY <1>6, <1>7, <1>10, <1>11, <1>12, <1>13 DEF IteratorInv

\* Miss.  The first diagonal goes on to g.
MissResult(it, i, kp, g) ==
    [it EXCEPT !.ops = [Probed(it, i, kp) EXCEPT ![1] = g], !.first = kp,
               !.second = IF join.optional
                          THEN [o \in DOMAIN it.second |->
                                   IF it.pos_in_out[1] = o THEN it.second[o]
                                   ELSE Filled(it, i, kp, FirstMiss(it, i, kp) - 1)[o]]
                          ELSE it.second]

LEMMA MissIterator ==
    ASSUME join \in Joins, NEW i, NEW it, NEW seq, NEW kp,
           IteratorInv(join, i, it, "probing", seq),
           kp = it.ops[1].kp, ~ended(it.ops[1]), FirstMiss(it, i, kp) <= Len(it.ops),
           NEW h \in inc(it.ops[1], <<i, 1>>), NEW new, new = MissResult(it, i, kp, h)
    PROVE  IteratorInv(join, i, new, "probing", seq) /\ new.ops[1] = h
<1> DEFINE n == Len(Labelled(join))
           ops == [Probed(it, i, kp) EXCEPT ![1] = h]
           second == IF join.optional
                     THEN [o \in DOMAIN it.second |->
                              IF it.pos_in_out[1] = o THEN it.second[o]
                              ELSE Filled(it, i, kp, FirstMiss(it, i, kp) - 1)[o]]
                     ELSE it.second
           g == it.ops[1]
<1>1. /\ IteratorShape(join, it) /\ ServesJoin(join, it) /\ OwnDiagonals(join, i, it)
      /\ AtSlice(g, <<i, 1>>) /\ KeysVisited(join, g, "probing", seq)
  BY DEF IteratorInv
<1>2. /\ it = [ops |-> it.ops, pos_in_out |-> it.pos_in_out, non_optional |-> it.non_optional,
               first |-> it.first, second |-> it.second, mine |-> it.mine]
      /\ DOMAIN it.ops = 1 .. n /\ n \in Nat \ {0} /\ 1 \in 1 .. n /\ Len(it.ops) = n
      /\ it.second = [o \in DOMAIN it.second |-> it.second[o]] /\ it.mine \in BOOLEAN
      /\ DOMAIN it.second = 1 .. Outputs(join)
  BY <1>1 DEF IteratorShape
<1>3. GoodDiagonal(g, <<i, 1>>)
  BY <1>1, <1>2 DEF OwnDiagonals
<1>4. kp \in KeyParts /\ SliceAt(g, kp) # {}
  BY <1>1, <1>3, FirstKeyPart
<1>5. FirstMiss(it, i, kp) \in Nat /\ kp \notin JoinKeys(join)
  <2>1. /\ FirstMiss(it, i, kp) \in Nat
        /\ FirstMiss(it, i, kp) > Len(it.ops) <=> kp \in JoinKeys(join)
    BY <1>1, <1>4, MissFacts
  <2> QED
    BY <1>2, <2>1
<1>6. GoodDiagonal(h, <<i, 1>>) /\ AtSlice(h, <<i, 1>>) /\ Further(g, h)
  BY <1>3, IncStep
<1>7. new = [ops |-> ops, pos_in_out |-> it.pos_in_out, non_optional |-> it.non_optional,
             first |-> kp, second |-> second, mine |-> it.mine]
  <2>1. MissResult(it, i, kp, h) = [it EXCEPT !.ops = ops, !.first = kp, !.second = second]
    BY DEF MissResult
  <2>2. it = [ops |-> it.ops, pos_in_out |-> it.pos_in_out, non_optional |-> it.non_optional,
              first |-> it.first, second |-> it.second, mine |-> it.mine]
    BY <1>2
  <2> HIDE DEF ops, second
  <2> QED
    BY <2>1, <2>2, IteratorReplaced
<1>8. /\ ops = [m \in DOMAIN it.ops |-> ops[m]]
      /\ ops[1] = h
      /\ \A m \in DOMAIN it.ops : GoodDiagonal(ops[m], <<i, m>>) /\ SameDiagonal(it.ops[m], ops[m])
  <2> DEFINE probed == Probed(it, i, kp)
  <2>1. /\ IteratorShape(join, it) /\ OwnDiagonals(join, i, it) /\ kp \in KeyParts
        /\ FirstMiss(it, i, kp) \in Nat
    BY <1>1, <1>4, <1>5
  <2>2. /\ probed = [m \in DOMAIN it.ops |-> probed[m]]
        /\ \A m \in DOMAIN it.ops :
              GoodDiagonal(probed[m], <<i, m>>) /\ SameDiagonal(it.ops[m], probed[m])
    BY <2>1, ProbedFacts
  <2>3. ops = [probed EXCEPT ![1] = h]
    OBVIOUS
  <2> HIDE DEF probed, ops
  <2>4. ops = [m \in DOMAIN it.ops |-> IF m = 1 THEN h ELSE probed[m]]
    BY <1>2, <2>2, <2>3
  <2>5. ops = [m \in DOMAIN it.ops |-> ops[m]] /\ ops[1] = h
    BY <1>2, <2>4
  <2>6. \A m \in DOMAIN it.ops : ops[m] = IF m = 1 THEN h ELSE probed[m]
    BY <2>4
  <2>7. SameDiagonal(it.ops[1], h)
    BY <1>6 DEF Further
  <2> QED
    BY <1>6, <2>2, <2>5, <2>6, <2>7
<1>9. /\ second = [o \in DOMAIN it.second |-> second[o]]
      /\ \A o \in DOMAIN it.second : Sources(it, o) = {} => second[o] = it.second[o]
  <2> DEFINE upto == FirstMiss(it, i, kp) - 1
  <2>1. upto \in Int /\ upto <= n
    BY <1>2, <1>5
  <2>2. ASSUME NEW o \in DOMAIN it.second, Sources(it, o) = {}
        PROVE  Filled(it, i, kp, upto)[o] = it.second[o]
    <3>1. \A m \in 1 .. upto : m \in DOMAIN it.ops
      BY <1>2, <2>1
    <3>2. {m \in 1 .. upto : it.pos_in_out[m] = o} = {}
      BY <2>2, <3>1 DEF Sources
    <3> QED
      BY <2>2, <3>2 DEF Filled
  <2>3. CASE join.optional
    BY <2>2, <2>3
  <2>4. CASE ~join.optional
    BY <1>2, <2>4
  <2> QED
    BY <2>3, <2>4
<1> HIDE DEF ops, second
<1>10. /\ new.ops = ops /\ new.second = second /\ new.mine = it.mine
       /\ new = [ops |-> new.ops, pos_in_out |-> it.pos_in_out, non_optional |-> it.non_optional,
                 first |-> new.first, second |-> new.second, mine |-> new.mine]
  BY <1>7
<1>11. IteratorShape(join, new) /\ ServesJoin(join, new) /\ OwnDiagonals(join, i, new)
  <2>1. /\ new.ops = [m \in DOMAIN it.ops |-> new.ops[m]]
        /\ \A m \in DOMAIN it.ops :
              GoodDiagonal(new.ops[m], <<i, m>>) /\ SameDiagonal(it.ops[m], new.ops[m])
    BY <1>8, <1>10
  <2>2. /\ new.second = [o \in DOMAIN it.second |-> new.second[o]]
        /\ \A o \in DOMAIN it.second : Sources(it, o) = {} => new.second[o] = it.second[o]
    BY <1>9, <1>10
  <2>3. new.mine \in BOOLEAN
    BY <1>2, <1>10
  <2>4. new = [ops |-> new.ops, pos_in_out |-> it.pos_in_out, non_optional |-> it.non_optional,
               first |-> new.first, second |-> new.second, mine |-> new.mine]
    BY <1>10
  <2>5. Serves(join, i, it)
    BY <1>1 DEF Serves
  <2>6. SameService(it, new, i)
    BY <2>1, <2>2, <2>3, <2>4 DEF SameService
  <2>7. Serves(join, i, new)
    BY <2>5, <2>6, ServiceKept
  <2> QED
    BY <2>7 DEF Serves
<1>12. KeysVisited(join, h, "probing", seq)
  BY <1>1, <1>5, <1>6, VisitFurther
<1>13. new.ops[1] = h
  BY <1>8, <1>10
<1> QED
  BY <1>6, <1>11, <1>12, <1>13 DEF IteratorInv

\* operator++.
NextResult(it, h) == [it EXCEPT !.ops = [@ EXCEPT ![1] = h]]

LEMMA NextIterator ==
    ASSUME NEW j \in Joins, NEW i, NEW it, NEW seq, IteratorInv(j, i, it, "body", seq),
           NEW h \in inc(it.ops[1], <<i, 1>>), NEW new, new = NextResult(it, h)
    PROVE  IteratorInv(j, i, new, "probing", seq) /\ new.ops[1] = h
<1> DEFINE n == Len(Labelled(j))
           ops == [it.ops EXCEPT ![1] = h]
           g == it.ops[1]
<1>1. /\ IteratorShape(j, it) /\ ServesJoin(j, it) /\ OwnDiagonals(j, i, it)
      /\ AtSlice(g, <<i, 1>>) /\ KeysVisited(j, g, "body", seq)
  BY DEF IteratorInv
<1>2. /\ it = [ops |-> it.ops, pos_in_out |-> it.pos_in_out, non_optional |-> it.non_optional,
               first |-> it.first, second |-> it.second, mine |-> it.mine]
      /\ it.ops = [m \in DOMAIN it.ops |-> it.ops[m]]
      /\ 1 \in DOMAIN it.ops
      /\ it.second = [o \in DOMAIN it.second |-> it.second[o]] /\ it.mine \in BOOLEAN
  BY <1>1 DEF IteratorShape
<1>3. GoodDiagonal(g, <<i, 1>>)
  BY <1>1, <1>2 DEF OwnDiagonals
<1>4. GoodDiagonal(h, <<i, 1>>) /\ AtSlice(h, <<i, 1>>) /\ Further(g, h)
  BY <1>3, IncStep
<1>5. new = [ops |-> ops, pos_in_out |-> it.pos_in_out, non_optional |-> it.non_optional,
             first |-> it.first, second |-> it.second, mine |-> it.mine]
  <2>1. NextResult(it, h) = [it EXCEPT !.ops = ops]
    BY DEF NextResult
  <2>2. it = [ops |-> it.ops, pos_in_out |-> it.pos_in_out, non_optional |-> it.non_optional,
              first |-> it.first, second |-> it.second, mine |-> it.mine]
    BY <1>2
  <2> HIDE DEF ops
  <2> QED
    BY <2>1, <2>2, OpsReplaced
<1>6. /\ ops = [m \in DOMAIN it.ops |-> ops[m]] /\ ops[1] = h
      /\ \A m \in DOMAIN it.ops : ops[m] = IF m = 1 THEN h ELSE it.ops[m]
  BY <1>2
<1>7. \A m \in DOMAIN it.ops : GoodDiagonal(ops[m], <<i, m>>) /\ SameDiagonal(it.ops[m], ops[m])
  <2>1. SameDiagonal(it.ops[1], h)
    BY <1>4 DEF Further
  <2> HIDE DEF ops
  <2> QED
    BY <1>1, <1>4, <1>6, <2>1 DEF OwnDiagonals, SameDiagonal
<1> HIDE DEF ops
<1>8. /\ new.ops = ops /\ new.second = it.second /\ new.mine = it.mine
      /\ new = [ops |-> new.ops, pos_in_out |-> it.pos_in_out, non_optional |-> it.non_optional,
                first |-> new.first, second |-> new.second, mine |-> new.mine]
  BY <1>5
<1>9. IteratorShape(j, new) /\ ServesJoin(j, new) /\ OwnDiagonals(j, i, new)
  <2>1. /\ new.ops = [m \in DOMAIN it.ops |-> new.ops[m]]
        /\ \A m \in DOMAIN it.ops :
              GoodDiagonal(new.ops[m], <<i, m>>) /\ SameDiagonal(it.ops[m], new.ops[m])
    BY <1>6, <1>7, <1>8
  <2>2. /\ new.second = [o \in DOMAIN it.second |-> new.second[o]]
        /\ \A o \in DOMAIN it.second : Sources(it, o) = {} => new.second[o] = it.second[o]
    BY <1>2, <1>8
  <2>3. new.mine \in BOOLEAN
    BY <1>2, <1>8
  <2>4. new = [ops |-> new.ops, pos_in_out |-> it.pos_in_out, non_optional |-> it.non_optional,
               first |-> new.first, second |-> new.second, mine |-> new.mine]
    BY <1>8
  <2>5. Serves(j, i, it)
    BY <1>1 DEF Serves
  <2>6. SameService(it, new, i)
    BY <2>1, <2>2, <2>3, <2>4 DEF SameService
  <2>7. Serves(j, i, new)
    BY <2>5, <2>6, ServiceKept
  <2> QED
    BY <2>7 DEF Serves
<1>10. KeysVisited(j, h, "probing", seq)
  <2>1. g.kp \in Seen(seq)
    BY <1>1 DEF KeysVisited
  <2> QED
    BY <1>1, <1>4, <2>1, VisitFurther
<1>11. new.ops[1] = h
  BY <1>6, <1>8
<1> QED
  BY <1>4, <1>9, <1>10, <1>11 DEF IteratorInv

\* A copy.
CopyResult(it, k) == [it EXCEPT !.ops = Settled(k, @), !.mine = FALSE]

LEMMA CopyIterator ==
    ASSUME NEW j \in Joins, NEW i, NEW it, NEW seq, IteratorInv(j, i, it, "body", seq),
           NEW k, NEW new, new = CopyResult(it, k)
    PROVE  IteratorInv(j, k, new, "body", seq)
<1> DEFINE ops == Settled(k, it.ops)
           g == it.ops[1]
<1>1. /\ IteratorShape(j, it) /\ ServesJoin(j, it) /\ OwnDiagonals(j, i, it)
      /\ AtSlice(g, <<i, 1>>) /\ KeysVisited(j, g, "body", seq)
  BY DEF IteratorInv
<1>2. /\ it = [ops |-> it.ops, pos_in_out |-> it.pos_in_out, non_optional |-> it.non_optional,
               first |-> it.first, second |-> it.second, mine |-> it.mine]
      /\ 1 \in DOMAIN it.ops
      /\ it.second = [o \in DOMAIN it.second |-> it.second[o]]
  BY <1>1 DEF IteratorShape
<1>3. new = [ops |-> ops, pos_in_out |-> it.pos_in_out, non_optional |-> it.non_optional,
             first |-> it.first, second |-> it.second, mine |-> FALSE]
  <2>1. CopyResult(it, k) = [it EXCEPT !.ops = ops, !.mine = FALSE]
    BY DEF CopyResult
  <2>2. it = [ops |-> it.ops, pos_in_out |-> it.pos_in_out, non_optional |-> it.non_optional,
              first |-> it.first, second |-> it.second, mine |-> it.mine]
    BY <1>2
  <2> HIDE DEF ops
  <2> QED
    BY <2>1, <2>2, IteratorReplaced
<1>4. /\ ops = [m \in DOMAIN it.ops |-> ops[m]]
      /\ \A m \in DOMAIN it.ops : ops[m] = update_sen_cache_ptr(it.ops[m], <<k, m>>)
  BY DEF Settled
<1> HIDE DEF ops
<1>5. ASSUME NEW m \in DOMAIN it.ops
      PROVE  /\ GoodDiagonal(ops[m], <<k, m>>) /\ SameDiagonal(it.ops[m], ops[m])
             /\ ops[m].rest = it.ops[m].rest /\ ops[m].kp = it.ops[m].kp
             /\ \A es : GoodSlice(it.ops[m].value, es, result_depth(it.ops[m]), <<i, m>>)
                        => GoodSlice(ops[m].value, es, result_depth(ops[m]), <<k, m>>)
  <2>1. GoodDiagonal(it.ops[m], <<i, m>>)
    BY <1>1 DEF OwnDiagonals
  <2>2. ops[m] = update_sen_cache_ptr(it.ops[m], <<k, m>>)
    BY <1>4
  <2> QED
    BY <2>1, <2>2, SettledGood
<1>6. /\ new.ops = ops /\ new.second = it.second /\ new.mine = FALSE
      /\ new = [ops |-> new.ops, pos_in_out |-> it.pos_in_out, non_optional |-> it.non_optional,
                first |-> new.first, second |-> new.second, mine |-> new.mine]
  BY <1>3
<1>7. IteratorShape(j, new) /\ ServesJoin(j, new) /\ OwnDiagonals(j, k, new)
  <2>1. /\ new.ops = [m \in DOMAIN it.ops |-> new.ops[m]]
        /\ \A m \in DOMAIN it.ops :
              GoodDiagonal(new.ops[m], <<k, m>>) /\ SameDiagonal(it.ops[m], new.ops[m])
    BY <1>4, <1>5, <1>6
  <2>2. /\ new.second = [o \in DOMAIN it.second |-> new.second[o]]
        /\ \A o \in DOMAIN it.second : Sources(it, o) = {} => new.second[o] = it.second[o]
    BY <1>2, <1>6
  <2>3. new.mine \in BOOLEAN
    BY <1>6
  <2>4. new = [ops |-> new.ops, pos_in_out |-> it.pos_in_out, non_optional |-> it.non_optional,
               first |-> new.first, second |-> new.second, mine |-> new.mine]
    BY <1>6
  <2>5. Serves(j, i, it)
    BY <1>1 DEF Serves
  <2>6. SameService(it, new, k)
    BY <2>1, <2>2, <2>3, <2>4 DEF SameService
  <2>7. Serves(j, k, new)
    BY <2>5, <2>6, ServiceKept
  <2> QED
    BY <2>7 DEF Serves
<1> DEFINE h == ops[1]
<1>8. /\ SameDiagonal(g, h) /\ h.rest = g.rest /\ h.kp = g.kp
      /\ \A es : GoodSlice(g.value, es, result_depth(g), <<i, 1>>)
                 => GoodSlice(h.value, es, result_depth(h), <<k, 1>>)
  BY <1>2, <1>5
<1> HIDE DEF g, h
<1>9. AtSlice(h, <<k, 1>>)
  <2>1. \A kp : SliceAt(h, kp) = SliceAt(g, kp)
    BY <1>8, SameFacts
  <2> QED
    BY <1>1, <1>8, <2>1 DEF AtSlice, ended
<1>10. KeysVisited(j, h, "body", seq)
  BY <1>1, <1>8 DEF KeysVisited, ended
<1>11. new.ops[1] = h
  BY <1>6 DEF h
<1> QED
  BY <1>6, <1>7, <1>9, <1>10, <1>11 DEF IteratorInv

\* The body of the loop and the end of the search leave the iterator alone.
LEMMA PhaseIterator ==
    ASSUME NEW j \in Joins, NEW i, NEW it, NEW seq
    PROVE  /\ IteratorInv(j, i, it, "ready", seq) => IteratorInv(j, i, it, "body", seq)
           /\ IteratorInv(j, i, it, "probing", seq) /\ ended(it.ops[1])
              => IteratorInv(j, i, it, "ended", seq)
BY DEF IteratorInv, KeysVisited

-----------------------------------------------------------------------------
(* The invariant of the loops.                                             *)

Phases == {"none", "probing", "ready", "body", "ended", "thrown"}

LivePhases == {"probing", "ready", "body", "ended"}

LEMMA LoopInit == Init => LoopInv
BY DEF Init, LoopInv, Live

\* One iterator changes.
OneChanges(i, it, phase, seq) ==
    /\ join' = join
    /\ its' = [x \in Iterators |-> IF x = i THEN it ELSE its[x]]
    /\ pc' = [x \in Iterators |-> IF x = i THEN phase ELSE pc[x]]
    /\ yielded' = [x \in Iterators |-> IF x = i THEN seq ELSE yielded[x]]

LEMMA OneKeeps ==
    ASSUME LoopInv, NEW i \in Iterators, NEW it, NEW phase \in Phases, NEW seq,
           OneChanges(i, it, phase, seq),
           phase \in LivePhases => IteratorInv(join, i, it, phase, seq)
    PROVE  LoopInv'
<1>1. /\ join' \in Joins
      /\ its' = [x \in Iterators |-> its'[x]] /\ yielded' = [x \in Iterators |-> yielded'[x]]
  BY DEF LoopInv, OneChanges
<1>2. pc' \in [Iterators -> {"none", "probing", "ready", "body", "ended", "thrown"}]
  BY DEF LoopInv, OneChanges, Phases
<1>3. ASSUME NEW x \in Iterators, Live(x)'
      PROVE  IteratorInv(join', x, its'[x], pc'[x], yielded'[x])
  <2>1. CASE x = i
    <3>1. its'[x] = it /\ pc'[x] = phase /\ yielded'[x] = seq /\ join' = join
      BY <2>1 DEF OneChanges
    <3>2. phase \in LivePhases
      BY <1>3, <3>1 DEF Live, LivePhases
    <3> QED
      BY <2>1, <3>1, <3>2
  <2>2. CASE x # i
    <3>1. its'[x] = its[x] /\ pc'[x] = pc[x] /\ yielded'[x] = yielded[x] /\ join' = join
      BY <2>2 DEF OneChanges
    <3>2. Live(x)
      BY <1>3, <3>1 DEF Live
    <3>3. IteratorInv(join, x, its[x], pc[x], yielded[x])
      BY <3>2 DEF LoopInv
    <3> QED
      BY <3>1, <3>3
  <2> QED
    BY <2>1, <2>2
<1> QED
  BY <1>1, <1>2, <1>3 DEF LoopInv

\* What the actions do to the iterators.
LEMMA BeginChanges ==
    ASSUME LoopInv, NEW i \in Iterators, Begin(i)
    PROVE  \E it \in NewIterators(join, i) : OneChanges(i, it, "probing", <<>>)
<1>1. PICK it \in NewIterators(join, i) : its' = [its EXCEPT ![i] = it]
  BY DEF Begin
<1>2. /\ join' = join /\ pc' = [pc EXCEPT ![i] = "probing"]
      /\ yielded' = [yielded EXCEPT ![i] = <<>>]
  BY DEF Begin
<1>3. /\ its = [x \in Iterators |-> its[x]] /\ pc = [x \in Iterators |-> pc[x]]
      /\ yielded = [x \in Iterators |-> yielded[x]]
  BY DEF LoopInv
<1>4. OneChanges(i, it, "probing", <<>>)
  BY <1>1, <1>2, <1>3 DEF OneChanges
<1> QED
  BY <1>4

LEMMA HitChanges ==
    ASSUME LoopInv, NEW i \in Iterators, Hit(i)
    PROVE  LET kp == its[i].ops[1].kp
           IN  /\ pc[i] = "probing" /\ ~ended(its[i].ops[1])
               /\ FirstMiss(its[i], i, kp) > Len(its[i].ops)
               /\ OneChanges(i, HitResult(its[i], i, kp), "ready", Append(yielded[i], kp))
<1> DEFINE kp == its[i].ops[1].kp
           it == HitResult(its[i], i, kp)
           seq == Append(yielded[i], kp)
<1>1. /\ pc[i] = "probing" /\ ~ended(its[i].ops[1])
      /\ FirstMiss(its[i], i, kp) > Len(its[i].ops)
      /\ join' = join /\ pc' = [pc EXCEPT ![i] = "ready"]
      /\ yielded' = [yielded EXCEPT ![i] = seq]
  BY DEF Hit
<1>2. its' = [its EXCEPT ![i] = it]
  BY DEF Hit, HitResult
<1> HIDE DEF it, seq
<1>3. /\ its = [x \in Iterators |-> its[x]] /\ pc = [x \in Iterators |-> pc[x]]
      /\ yielded = [x \in Iterators |-> yielded[x]]
  BY DEF LoopInv
<1>4. OneChanges(i, it, "ready", seq)
  BY <1>1, <1>2, <1>3 DEF OneChanges
<1> QED
  BY <1>1, <1>4 DEF it, seq

LEMMA MissChanges ==
    ASSUME LoopInv, NEW i \in Iterators, Miss(i)
    PROVE  LET kp == its[i].ops[1].kp
           IN  /\ pc[i] = "probing" /\ ~ended(its[i].ops[1])
               /\ FirstMiss(its[i], i, kp) <= Len(its[i].ops)
               /\ \E h \in inc(its[i].ops[1], <<i, 1>>) :
                     OneChanges(i, MissResult(its[i], i, kp, h), "probing", yielded[i])
<1> DEFINE kp == its[i].ops[1].kp
<1>1. /\ pc[i] = "probing" /\ ~ended(its[i].ops[1])
      /\ FirstMiss(its[i], i, kp) <= Len(its[i].ops)
      /\ join' = join /\ pc' = pc /\ yielded' = yielded
  BY DEF Miss
<1>2. PICK h \in inc(its[i].ops[1], <<i, 1>>) : its' = [its EXCEPT ![i] = MissResult(its[i], i, kp, h)]
  BY DEF Miss, MissResult
<1> DEFINE it == MissResult(its[i], i, kp, h)
<1> HIDE DEF it
<1>3. /\ its = [x \in Iterators |-> its[x]] /\ pc = [x \in Iterators |-> pc[x]]
      /\ yielded = [x \in Iterators |-> yielded[x]]
  BY DEF LoopInv
<1>4. its' = [its EXCEPT ![i] = it]
  BY <1>2 DEF it
<1>5. OneChanges(i, it, "probing", yielded[i])
  BY <1>1, <1>3, <1>4 DEF OneChanges
<1> QED
  BY <1>1, <1>5 DEF it

LEMMA NextChanges ==
    ASSUME LoopInv, NEW i \in Iterators, Next(i)
    PROVE  /\ pc[i] = "body"
           /\ \E h \in inc(its[i].ops[1], <<i, 1>>) :
                 OneChanges(i, NextResult(its[i], h), "probing", yielded[i])
<1>1. /\ pc[i] = "body"
      /\ join' = join /\ pc' = [pc EXCEPT ![i] = "probing"] /\ yielded' = yielded
  BY DEF Next
<1>2. PICK h \in inc(its[i].ops[1], <<i, 1>>) : its' = [its EXCEPT ![i] = NextResult(its[i], h)]
  BY DEF Next, NextResult
<1> DEFINE it == NextResult(its[i], h)
<1> HIDE DEF it
<1>3. /\ its = [x \in Iterators |-> its[x]] /\ pc = [x \in Iterators |-> pc[x]]
      /\ yielded = [x \in Iterators |-> yielded[x]]
  BY DEF LoopInv
<1>4. its' = [its EXCEPT ![i] = it]
  BY <1>2 DEF it
<1>5. OneChanges(i, it, "probing", yielded[i])
  BY <1>1, <1>3, <1>4 DEF OneChanges
<1> QED
  BY <1>1, <1>5 DEF it

LEMMA CopyChanges ==
    ASSUME LoopInv, NEW i \in Iterators, NEW k \in Iterators, Copy(i, k)
    PROVE  pc[i] = "body" /\ pc[k] = "none" /\ OneChanges(k, CopyResult(its[i], k), "body", yielded[i])
<1>1. /\ pc[i] = "body" /\ pc[k] = "none"
      /\ join' = join /\ pc' = [pc EXCEPT ![k] = "body"]
      /\ yielded' = [yielded EXCEPT ![k] = yielded[i]]
  BY DEF Copy
<1> DEFINE it == CopyResult(its[i], k)
<1>2. its' = [its EXCEPT ![k] = it]
  BY DEF Copy, CopyResult
<1> HIDE DEF it
<1>3. /\ its = [x \in Iterators |-> its[x]] /\ pc = [x \in Iterators |-> pc[x]]
      /\ yielded = [x \in Iterators |-> yielded[x]]
  BY DEF LoopInv
<1>4. OneChanges(k, it, "body", yielded[i])
  BY <1>1, <1>2, <1>3 DEF OneChanges
<1> QED
  BY <1>1, <1>4 DEF it

LEMMA QuietChanges ==
    ASSUME LoopInv, NEW i \in Iterators
    PROVE  /\ Exhausted(i) => /\ pc[i] = "probing" /\ ended(its[i].ops[1])
                              /\ OneChanges(i, its[i], "ended", yielded[i])
           /\ Body(i) => pc[i] = "ready" /\ OneChanges(i, its[i], "body", yielded[i])
           /\ Leave(i) => pc[i] \in {"body", "ended"} /\ OneChanges(i, NoIterator, "none", <<>>)
<1>1. /\ its = [x \in Iterators |-> its[x]] /\ pc = [x \in Iterators |-> pc[x]]
      /\ yielded = [x \in Iterators |-> yielded[x]]
  BY DEF LoopInv
<1>2. ASSUME Exhausted(i)
      PROVE  /\ pc[i] = "probing" /\ ended(its[i].ops[1])
             /\ OneChanges(i, its[i], "ended", yielded[i])
  BY <1>1, <1>2 DEF Exhausted, OneChanges
<1>3. ASSUME Body(i) PROVE pc[i] = "ready" /\ OneChanges(i, its[i], "body", yielded[i])
  BY <1>1, <1>3 DEF Body, OneChanges
<1>4. ASSUME Leave(i)
      PROVE  pc[i] \in {"body", "ended"} /\ OneChanges(i, NoIterator, "none", <<>>)
  BY <1>1, <1>4 DEF Leave, OneChanges
<1> QED
  BY <1>2, <1>3, <1>4

LEMMA LoopStep == LoopInv /\ [JoinNext]_vars => LoopInv'
<1> SUFFICES ASSUME LoopInv, [JoinNext]_vars PROVE LoopInv'
  OBVIOUS
<1>0. join \in Joins
  BY DEF LoopInv
<1>1. ASSUME NEW i \in Iterators, Begin(i) PROVE LoopInv'
  <2>1. PICK it \in NewIterators(join, i) : OneChanges(i, it, "probing", <<>>)
    BY <1>1, BeginChanges
  <2>2. IteratorInv(join, i, it, "probing", <<>>)
    BY <1>0, BeginIterator
  <2> QED
    BY <2>1, <2>2, OneKeeps DEF Phases
<1>2. ASSUME NEW i \in Iterators, Hit(i) PROVE LoopInv'
  <2> DEFINE kp == its[i].ops[1].kp
             it == HitResult(its[i], i, kp)
             seq == Append(yielded[i], kp)
  <2>1. /\ pc[i] = "probing" /\ ~ended(its[i].ops[1])
        /\ FirstMiss(its[i], i, kp) > Len(its[i].ops)
        /\ OneChanges(i, it, "ready", seq)
    BY <1>2, HitChanges
  <2>2. IteratorInv(join, i, its[i], "probing", yielded[i])
    BY <2>1 DEF LoopInv, Live
  <2>3. IteratorInv(join, i, it, "ready", seq)
    BY SMTT(30), <1>0, <2>1, <2>2, HitIterator
  <2> HIDE DEF it, seq
  <2> QED
    BY <2>1, <2>3, OneKeeps DEF Phases
<1>3. ASSUME NEW i \in Iterators, Miss(i) PROVE LoopInv'
  <2> DEFINE kp == its[i].ops[1].kp
  <2>1. /\ pc[i] = "probing" /\ ~ended(its[i].ops[1])
        /\ FirstMiss(its[i], i, kp) <= Len(its[i].ops)
    BY <1>3, MissChanges
  <2>2. PICK h \in inc(its[i].ops[1], <<i, 1>>) :
           OneChanges(i, MissResult(its[i], i, kp, h), "probing", yielded[i])
    BY <1>3, MissChanges
  <2> DEFINE it == MissResult(its[i], i, kp, h)
  <2>3. IteratorInv(join, i, its[i], "probing", yielded[i])
    BY <2>1 DEF LoopInv, Live
  <2>4. kp = its[i].ops[1].kp /\ it = MissResult(its[i], i, kp, h)
    OBVIOUS
  <2> HIDE DEF it, kp
  <2>5. IteratorInv(join, i, it, "probing", yielded[i])
    BY SMTT(30), <1>0, <2>1, <2>2, <2>3, <2>4, MissIterator
  <2>6. OneChanges(i, it, "probing", yielded[i])
    BY <2>2, <2>4
  <2> QED
    BY <2>5, <2>6, OneKeeps DEF Phases
<1>4. ASSUME NEW i \in Iterators, Next(i) PROVE LoopInv'
  <2>1. pc[i] = "body"
    BY <1>4, NextChanges
  <2>2. PICK h \in inc(its[i].ops[1], <<i, 1>>) :
           OneChanges(i, NextResult(its[i], h), "probing", yielded[i])
    BY <1>4, NextChanges
  <2> DEFINE it == NextResult(its[i], h)
  <2>3. IteratorInv(join, i, its[i], "body", yielded[i])
    BY <2>1 DEF LoopInv, Live
  <2>4. IteratorInv(join, i, it, "probing", yielded[i])
    BY SMTT(30), <1>0, <2>3, NextIterator
  <2>5. OneChanges(i, it, "probing", yielded[i])
    BY <2>2
  <2> HIDE DEF it
  <2> QED
    BY <2>4, <2>5, OneKeeps DEF Phases
<1>5. ASSUME NEW i \in Iterators, NEW k \in Iterators, Copy(i, k) PROVE LoopInv'
  <2> DEFINE it == CopyResult(its[i], k)
  <2>1. pc[i] = "body" /\ OneChanges(k, it, "body", yielded[i])
    BY <1>5, CopyChanges
  <2>2. IteratorInv(join, i, its[i], "body", yielded[i])
    BY <2>1 DEF LoopInv, Live
  <2>3. IteratorInv(join, k, it, "body", yielded[i])
    BY SMTT(30), <1>0, <2>2, CopyIterator
  <2> HIDE DEF it
  <2> QED
    BY <2>1, <2>3, OneKeeps DEF Phases
<1>6. ASSUME NEW i \in Iterators, Exhausted(i) PROVE LoopInv'
  <2>1. pc[i] = "probing" /\ ended(its[i].ops[1]) /\ OneChanges(i, its[i], "ended", yielded[i])
    BY <1>6, QuietChanges
  <2>2. IteratorInv(join, i, its[i], "probing", yielded[i])
    BY <2>1 DEF LoopInv, Live
  <2>3. IteratorInv(join, i, its[i], "ended", yielded[i])
    BY <1>0, <2>1, <2>2, PhaseIterator
  <2> QED
    BY <2>1, <2>3, OneKeeps DEF Phases
<1>7. ASSUME NEW i \in Iterators, Body(i) PROVE LoopInv'
  <2>1. pc[i] = "ready" /\ OneChanges(i, its[i], "body", yielded[i])
    BY <1>7, QuietChanges
  <2>2. IteratorInv(join, i, its[i], "ready", yielded[i])
    BY <2>1 DEF LoopInv, Live
  <2>3. IteratorInv(join, i, its[i], "body", yielded[i])
    BY <1>0, <2>2, PhaseIterator
  <2> QED
    BY <2>1, <2>3, OneKeeps DEF Phases
<1>8. ASSUME NEW i \in Iterators, Leave(i) PROVE LoopInv'
  <2>1. OneChanges(i, NoIterator, "none", <<>>)
    BY <1>8, QuietChanges
  <2> QED
    BY <2>1, OneKeeps DEF Phases, LivePhases
<1>9. ASSUME NEW i \in Iterators, Throw(i) PROVE LoopInv'
  BY <1>9 DEF Throw, LoopInv, Live
<1>10. CASE NewContext
  BY <1>10 DEF NewContext, LoopInv, Live
<1>11. CASE ClockPasses
  BY <1>11 DEF ClockPasses, LoopInv, Live
<1>12. CASE UNCHANGED vars
  BY <1>12 DEF vars, LoopInv, Live
<1> QED
  BY <1>1, <1>2, <1>3, <1>4, <1>5, <1>6, <1>7, <1>8, <1>9, <1>10, <1>11, <1>12 DEF JoinNext, Loop, Search

LEMMA LoopAlways == Spec => []LoopInv
BY LoopInit, LoopStep, PTL DEF Spec

-----------------------------------------------------------------------------
(* The theorems.                                                           *)

\* TypeOK: an iterator keeps its diagonals and outputs through swaps, copies
\* and probes.
THEOREM JoinTypeCorrect == Spec => []TypeOK
<1>1. LoopInv /\ DeadlineInv => TypeOK
  <2> SUFFICES ASSUME LoopInv, DeadlineInv PROVE TypeOK
    OBVIOUS
  <2>1. /\ join \in Joins
        /\ pc \in [Iterators -> {"none", "probing", "ready", "body", "ended", "thrown"}]
    BY DEF LoopInv
  <2>2. counter \in 0 .. MaxCounter + 2
    BY JoinAssumption DEF DeadlineInv
  <2>3. ASSUME NEW i \in Iterators, Live(i)
        PROVE  /\ Len(its[i].ops) = Len(Labelled(join))
               /\ Len(its[i].second) = Outputs(join)
               /\ \A n \in DOMAIN its[i].ops : its[i].ops[n].rest \subseteq KeyParts
    <3>1. IteratorShape(join, its[i]) /\ OwnDiagonals(join, i, its[i])
      BY <2>3 DEF LoopInv, IteratorInv
    <3>2. Len(its[i].ops) = Len(Labelled(join)) /\ Len(its[i].second) = Outputs(join)
      BY <3>1 DEF IteratorShape
    <3>3. ASSUME NEW n \in DOMAIN its[i].ops PROVE its[i].ops[n].rest \subseteq KeyParts
      <4> DEFINE g == its[i].ops[n]
      <4>1. GoodDiagonal(g, <<i, n>>)
        BY <3>1, <3>3 DEF OwnDiagonals
      <4> HIDE DEF g
      <4>2. /\ GoodOperand(g.op, g.poss)
            /\ IF is_full(g.op) THEN g.rest \in SUBSET PartsAt(g.op.es, min_card_pos(g.op.es, g.poss))
                                ELSE g.rest = {}
        BY <4>1 DEF GoodDiagonal
      <4>3. PartsAt(g.op.es, min_card_pos(g.op.es, g.poss)) \in SUBSET KeyParts
        BY <4>2, SliceKeyParts
      <4>4. g.rest \subseteq KeyParts
        BY <4>2, <4>3
      <4> QED
        BY <4>4 DEF g
    <3> QED
      BY <3>2, <3>3
  <2> QED
    BY <2>1, <2>2, <2>3 DEF TypeOK
<1> QED
  BY <1>1, LoopAlways, DeadlineInit, DeadlineStep, PTL DEF Spec

\* CachesOwned: however diagonals are swapped, copied and advanced, each of
\* them points to its own cache (update_sen_cache_ptr).
THEOREM DiagonalsOwnCaches == Spec => []CachesOwned
<1>1. LoopInv => CachesOwned
  <2> SUFFICES ASSUME LoopInv, NEW i \in Iterators, Live(i), NEW n \in DOMAIN its[i].ops,
                      its[i].ops[n].value.at = "cache",
                      ~(Taggable /\ result_depth(its[i].ops[n]) = 1)
               PROVE  /\ its[i].ops[n].value.address = <<i, n>>
                      /\ its[i].ops[n].value.es = its[i].ops[n].cache
    BY DEF CachesOwned
  <2> DEFINE g == its[i].ops[n]
  <2>1. GoodDiagonal(g, <<i, n>>)
    BY DEF LoopInv, IteratorInv, OwnDiagonals
  <2>2. g.value.at = "cache" /\ ~(Taggable /\ result_depth(g) = 1)
    OBVIOUS
  <2> HIDE DEF g
  <2>3. GoodSlice(g.value, g.value.es, result_depth(g), <<i, n>>) /\ g.cache = g.value.es
    BY <2>1, <2>2 DEF GoodDiagonal
  <2>4. g.value.address = <<i, n>>
    BY <2>2, <2>3, GoodSliceFacts
  <2> QED
    BY <2>3, <2>4 DEF g
<1> QED
  BY <1>1, LoopAlways, PTL

\* SmallestFirst: sorting by size and applying the permutation brings the
\* operand with the least bound to the front, and the bound is one
\* (optimizeOperandOrder, size).
THEOREM SmallestIsIterated == Spec => []SmallestFirst
<1>1. LoopInv => SmallestFirst
  <2> SUFFICES ASSUME LoopInv, NEW i \in Iterators, Live(i), NEW n \in DOMAIN its[i].ops
               PROVE  /\ ~join.optional => diagonal_size(its[i].ops[1]) <= diagonal_size(its[i].ops[n])
                      /\ Cardinality({kp \in KeyParts : SliceAt(its[i].ops[n], kp) # {}})
                         <= diagonal_size(its[i].ops[n])
    BY DEF SmallestFirst, SliceAt
  <2>1. /\ GoodDiagonal(its[i].ops[n], <<i, n>>)
        /\ ~join.optional => diagonal_size(its[i].ops[1]) <= diagonal_size(its[i].ops[n])
    BY DEF LoopInv, IteratorInv, OwnDiagonals
  <2>2. GoodOperand(its[i].ops[n].op, its[i].ops[n].poss)
    BY <2>1 DEF GoodDiagonal
  <2> QED
    BY <2>1, <2>2, SizeBound
<1> QED
  BY <1>1, LoopAlways, PTL

\* YieldsExact: a loop returns no key part twice, and when it ends it has
\* returned the joint ones.
THEOREM JointKeyPartsOnce == Spec => []YieldsExact
<1>1. LoopInv => YieldsExact
  <2> SUFFICES ASSUME LoopInv, NEW i \in Iterators, Live(i)
               PROVE  /\ \A x, y \in DOMAIN yielded[i] : x # y => yielded[i][x] # yielded[i][y]
                      /\ pc[i] = "ended" => Seen(yielded[i]) = JoinKeys(join)
    BY DEF YieldsExact, Seen
  <2> DEFINE g == its[i].ops[1]
             seq == yielded[i]
  <2>1. /\ ServesJoin(join, its[i]) /\ AtSlice(g, <<i, 1>>)
        /\ KeysVisited(join, g, pc[i], seq)
    BY DEF LoopInv, IteratorInv
  <2>2. JoinKeys(join) \in SUBSET KeyParts
    BY <2>1 DEF ServesJoin
  <2> HIDE DEF g, seq
  <2>3. /\ \A x, y \in DOMAIN seq : x # y => seq[x] # seq[y]
        /\ Seen(seq) \subseteq JoinKeys(join)
        /\ JoinKeys(join) \subseteq Seen(seq) \cup g.rest \cup {g.kp}
        /\ pc[i] = "ended" => ended(g)
    BY <2>1 DEF KeysVisited
  <2>4. ASSUME pc[i] = "ended" PROVE Seen(seq) = JoinKeys(join)
    <3>1. g.rest = {} /\ g.kp = NoPart
      BY <2>1, <2>3, <2>4 DEF AtSlice, ended
    <3> QED
      BY <2>2, <2>3, <3>1, NoPartAssumption
  <2> QED
    BY <2>3, <2>4 DEF seq
<1> QED
  BY <1>1, LoopAlways, PTL

\* A slice that leaves no position free is a scalar.
LEMMA ScalarSlice ==
    ASSUME NEW g, GoodOperand(g.op, g.poss), result_depth(g) = 0, NEW kp, SliceAt(g, kp) # {}
    PROVE  SliceAt(g, kp) = {<<>>}
<1> DEFINE d == g.op.depth
           es == g.op.es
           poss == g.poss
<1>1. d \in Depths /\ es \in SUBSET Keys(d) /\ poss \in SUBSET (1 .. d)
  BY DEF GoodOperand
<1>2. Cardinality(poss) = d
  <2>1. d \in Nat /\ d \in Int
    BY <1>1 DEF Depths
  <2>2. Cardinality(poss) \in Nat
    BY <1>1, <2>1, PositionsFinite
  <2>3. d - Cardinality(poss) = 0
    BY DEF result_depth
  <2> HIDE DEF d, poss
  <2> QED
    BY <2>1, <2>2, <2>3
<1>3. \A k \in es : Project(k, Diagonal(poss, kp)) = <<>>
  <2> HIDE DEF d, poss, es
  <2> QED
    BY <1>1, <1>2, NothingFree
<1>4. SliceAt(g, kp) = {Project(k, Diagonal(poss, kp)) : k \in {x \in es : Matches(x, Diagonal(poss, kp))}}
  BY DEF SliceAt, SliceOf
<1> HIDE DEF d, poss, es
<1> QED
  BY <1>3, <1>4

\* What a held output reads as.
LEMMA HeldContent ==
    ASSUME NEW i, NEW m, NEW o, NEW it, it = its[i], GoodDiagonal(it.ops[m], <<i, m>>),
           Held(it, <<i, m>>, m, o)
    PROVE  Operand(it.second[o].depth, Content(it.second[o])) = ValueAt(it.ops[m], it.first)
<1> DEFINE g == it.ops[m]
           h == it.second[o]
           v == g.value
           es == SliceAt(g, it.first)
           rd == result_depth(g)
<1>1. CASE es = {}
  <2>1. h = NoOutput
    BY <1>1 DEF Held
  <2> HIDE DEF h
  <2>2. h.depth = 0 /\ h.slice.at = "none" /\ h.slice.es = {}
    BY <2>1, SliceResultFacts DEF NoOutput, EmptySlice
  <2>3. Content(h) = {}
    BY <2>2 DEF Content
  <2> QED
    BY <1>1, <2>2, <2>3 DEF h, ValueAt, NoHypertrie
<1>2. CASE es # {}
  <2>1. h = CurrentHypertrie(g) /\ GoodSlice(v, es, rd, <<i, m>>)
    BY <1>2 DEF Held
  <2>2. /\ v.es = es
        /\ v.at = "cache" /\ ~(Taggable /\ rd = 1) => v.address = <<i, m>>
        /\ v.at = "scalar" => rd = 0
    <3> HIDE DEF v, es, rd
    <3> QED
      BY <2>1, GoodSliceFacts
  <2>3. /\ GoodOperand(g.op, g.poss)
        /\ v.at = "cache" /\ ~(Taggable /\ rd = 1) => g.cache = v.es
    BY DEF GoodDiagonal
  <2>4. h.depth = rd /\ h.slice = IF v.at = "scalar" THEN SliceResult("node", NoAddress, {<<>>}) ELSE v
    BY <2>1 DEF CurrentHypertrie
  <2>5. v.at = "scalar" => es = {<<>>}
    BY <1>2, <2>2, <2>3, ScalarSlice
  <2>6. g.cache = its[i].ops[m].cache
    OBVIOUS
  <2> HIDE DEF h, v, es, rd, g
  <2>7. Content(h) = es
    <3>1. CASE v.at = "scalar"
      <4>1. h.slice.at = "node" /\ h.slice.es = {<<>>}
        BY <2>4, <3>1, SliceResultFacts
      <4> QED
        BY <2>5, <3>1, <4>1 DEF Content
    <3>2. CASE v.at # "scalar" /\ v.at = "cache" /\ ~(Taggable /\ rd = 1)
      <4>1. h.slice = v /\ h.depth = rd
        BY <2>4, <3>2
      <4>2. v.address = <<i, m>> /\ g.cache = es
        BY <2>2, <2>3, <3>2
      <4>3. Content(h) = its[h.slice.address[1]].ops[h.slice.address[2]].cache
        BY <3>2, <4>1 DEF Content
      <4>4. h.slice.address = <<i, m>>
        BY <4>1, <4>2
      <4>5. h.slice.address[1] = i /\ h.slice.address[2] = m
        BY <4>4
      <4>6. Content(h) = its[i].ops[m].cache
        BY <4>3, <4>5
      <4>7. g.cache = es
        BY <4>2
      <4> QED
        BY <2>6, <4>6, <4>7
    <3>3. CASE v.at # "scalar" /\ ~(v.at = "cache" /\ ~(Taggable /\ rd = 1))
      <4>1. h.slice = v /\ h.depth = rd
        BY <2>4, <3>3
      <4> QED
        BY <2>2, <3>3, <4>1 DEF Content
    <3> QED
      BY <3>1, <3>2, <3>3
  <2>8. ValueAt(g, it.first) = Operand(rd, es)
    BY <1>2 DEF ValueAt, es, rd
  <2> QED
    BY <2>4, <2>7, <2>8 DEF h, g
<1> QED
  BY <1>1, <1>2

\* ValueExact: while the body of a loop runs, the value of the iterator holds
\* the slices of all operands for the key part, although single entries are
\* pointers to caches, operands were swapped and slices come in any form.
THEOREM ValuesAreSlices == Spec => []ValueExact
<1>1. LoopInv => ValueExact
  <2> SUFFICES ASSUME LoopInv, NEW i \in Iterators, pc[i] \in {"ready", "body"}, its[i].mine
               PROVE  /\ its[i].first \in JoinKeys(join)
                      /\ [o \in DOMAIN its[i].second |->
                            Operand(its[i].second[o].depth, Content(its[i].second[o]))]
                         = JoinValue(join, its[i].first)
    BY DEF ValueExact
  <2> DEFINE it == its[i]
             kp == it.first
             value(o) == Operand(it.second[o].depth, Content(it.second[o]))
  <2>1. /\ IteratorShape(join, it) /\ ServesJoin(join, it) /\ OwnDiagonals(join, i, it)
        /\ HoldsValue(join, i, it)
    BY DEF LoopInv, IteratorInv, Live
  <2>2. kp \in JoinKeys(join)
    BY <2>1 DEF HoldsValue
  <2>3. kp \in KeyParts
    BY <2>1, <2>2 DEF ServesJoin
  <2>4. /\ DOMAIN it.second = 1 .. Outputs(join)
        /\ JoinValue(join, kp) = [o \in 1 .. Outputs(join) |-> JoinValue(join, kp)[o]]
    BY <2>1, <2>3 DEF IteratorShape, ServesJoin
  <2>5. ASSUME NEW o \in 1 .. Outputs(join) PROVE value(o) = JoinValue(join, kp)[o]
    <3>1. CASE /\ Sources(it, o) = {}
               /\ it.second[o].slice.at = "node"
               /\ \A x \in KeyParts :
                     JoinValue(join, x)[o] = Operand(it.second[o].depth, it.second[o].slice.es)
      <4>1. Content(it.second[o]) = it.second[o].slice.es
        BY <3>1 DEF Content
      <4> QED
        BY <2>3, <3>1, <4>1
    <3>2. CASE \E m \in DOMAIN it.ops :
                  /\ Sources(it, o) = {m}
                  /\ \A x \in KeyParts : JoinValue(join, x)[o] = ValueAt(it.ops[m], x)
      <4>1. PICK m \in DOMAIN it.ops :
                  /\ Sources(it, o) = {m}
                  /\ \A x \in KeyParts : JoinValue(join, x)[o] = ValueAt(it.ops[m], x)
        BY <3>2
      <4>2. Held(it, <<i, m>>, m, o)
        BY <2>1, <4>1 DEF HoldsValue
      <4>3. GoodDiagonal(it.ops[m], <<i, m>>)
        BY <2>1 DEF OwnDiagonals
      <4>4. value(o) = ValueAt(it.ops[m], kp)
        BY <4>2, <4>3, HeldContent
      <4> QED
        BY <2>3, <4>1, <4>4
    <3> QED
      BY <2>1, <3>1, <3>2 DEF ServesJoin
  <2> HIDE DEF value
  <2>6. [o \in 1 .. Outputs(join) |-> value(o)] = [o \in 1 .. Outputs(join) |-> JoinValue(join, kp)[o]]
    BY <2>5
  <2>7. [o \in DOMAIN it.second |-> value(o)] = JoinValue(join, kp)
    BY <2>4, <2>6
  <2> QED
    BY <2>2, <2>7 DEF value
<1> QED
  BY <1>1, LoopAlways, PTL

-----------------------------------------------------------------------------
(* Loops end: what remains of a loop gets less with each of its steps.     *)

RemainingOf(g, phase) == 4 * (Cardinality(g.rest) + (IF ended(g) THEN 0 ELSE 1)) + Phase[phase]

\* The key parts that a diagonal has yet to visit are finitely many.
LEMMA RestFinite ==
    ASSUME NEW g, NEW address, GoodDiagonal(g, address)
    PROVE  IsFiniteSet(g.rest) /\ Cardinality(g.rest) \in Nat
<1>1. /\ GoodOperand(g.op, g.poss)
      /\ IF is_full(g.op) THEN g.rest \in SUBSET PartsAt(g.op.es, min_card_pos(g.op.es, g.poss))
                          ELSE g.rest = {}
  BY DEF GoodDiagonal
<1>2. PartsAt(g.op.es, min_card_pos(g.op.es, g.poss)) \in SUBSET KeyParts
  BY <1>1, SliceKeyParts
<1>3. g.rest \in SUBSET KeyParts
  BY <1>1, <1>2
<1> QED
  BY <1>3, KeyPartsFinite, FS_Subset, FS_CardinalityType

\* A diagonal that moves on has less to visit.
LEMMA FurtherCounts ==
    ASSUME NEW g, NEW h, NEW address, GoodDiagonal(g, address), ~ended(g), Further(g, h)
    PROVE  Cardinality(h.rest) + (IF ended(h) THEN 0 ELSE 1) < Cardinality(g.rest) + 1
<1>1. IsFiniteSet(g.rest) /\ Cardinality(g.rest) \in Nat
  BY RestFinite
<1>2. CASE ended(h) /\ h.rest = {}
  <2>1. Cardinality(h.rest) = 0
    BY <1>2, FS_EmptySet
  <2> QED
    BY <1>1, <1>2, <2>1
<1>3. CASE ~ended(h) /\ h.kp \in g.rest /\ h.rest = g.rest \ {h.kp}
  <2>1. Cardinality(g.rest \ {h.kp}) = Cardinality(g.rest) - 1
    BY <1>1, <1>3, FS_RemoveElement
  <2> QED
    BY <1>1, <1>3, <2>1
<1> QED
  BY <1>2, <1>3 DEF Further

\* What remains when a diagonal moves on, and when only the phase changes.
LEMMA LessRemains ==
    ASSUME NEW g, NEW address, GoodDiagonal(g, address)
    PROVE  /\ RemainingOf(g, "ready") < RemainingOf(g, "probing")
           /\ RemainingOf(g, "body") < RemainingOf(g, "ready")
           /\ RemainingOf(g, "ended") < RemainingOf(g, "probing")
           /\ \A h, phase : GoodDiagonal(h, address) /\ Further(g, h) /\ ~ended(g)
                            /\ phase \in {"probing", "body"}
                            => RemainingOf(h, "probing") < RemainingOf(g, phase)
<1> DEFINE count(x) == Cardinality(x.rest) + (IF ended(x) THEN 0 ELSE 1)
<1>1. /\ Phase["probing"] = 3 /\ Phase["ready"] = 2 /\ Phase["body"] = 1 /\ Phase["ended"] = 0
  BY DEF Phase
<1>2. ASSUME NEW x, GoodDiagonal(x, address) PROVE count(x) \in Nat
  <2>1. Cardinality(x.rest) \in Nat
    BY <1>2, RestFinite
  <2> QED
    BY <2>1
<1>3. \A x, phase : RemainingOf(x, phase) = 4 * count(x) + Phase[phase]
  BY DEF RemainingOf
<1>4. ASSUME NEW h, GoodDiagonal(h, address), Further(g, h), ~ended(g) PROVE count(h) < count(g)
  BY <1>4, FurtherCounts
<1> HIDE DEF count
<1>5. count(g) \in Nat
  BY <1>2
<1>6. ASSUME NEW h, NEW phase \in {"probing", "body"},
             GoodDiagonal(h, address), Further(g, h), ~ended(g)
      PROVE  RemainingOf(h, "probing") < RemainingOf(g, phase)
  <2>1. count(h) \in Nat /\ count(h) < count(g)
    BY <1>2, <1>4, <1>6
  <2>2. Phase[phase] \in {1, 3}
    BY <1>1, <1>6
  <2>3. 4 * count(h) + 3 < 4 * count(g) + Phase[phase]
    BY <1>5, <2>1, <2>2
  <2> QED
    BY <1>1, <1>3, <2>3
<1>7. /\ 4 * count(g) + 2 < 4 * count(g) + 3 /\ 4 * count(g) + 1 < 4 * count(g) + 2
      /\ 4 * count(g) + 0 < 4 * count(g) + 3
  BY <1>5
<1> QED
  BY <1>1, <1>3, <1>6, <1>7

\* The step of one loop counts down, if it goes on.
CountsDown(i) ==
    Live(i) /\ Live(i)' /\ (its'[i] # its[i] \/ pc'[i] # pc[i]) => Remaining(i)' < Remaining(i)

LEMMA OneCountsDown ==
    ASSUME NEW i \in Iterators, NEW it, NEW phase, NEW seq, OneChanges(i, it, phase, seq),
           Live(i) /\ phase \in LivePhases
           => RemainingOf(it.ops[1], phase) < RemainingOf(its[i].ops[1], pc[i]),
           NEW x \in Iterators
    PROVE  CountsDown(x)
<1>1. CASE x = i
  <2>1. its'[i] = it /\ pc'[i] = phase
    BY DEF OneChanges
  <2>2. Live(i)' => phase \in LivePhases
    BY <2>1 DEF Live, LivePhases
  <2>3. Remaining(i) = RemainingOf(its[i].ops[1], pc[i])
    BY DEF Remaining, RemainingOf
  <2>4. Remaining(i)' = RemainingOf(it.ops[1], phase)
    BY <2>1 DEF Remaining, RemainingOf, ended
  <2> QED
    BY <1>1, <2>2, <2>3, <2>4 DEF CountsDown
<1>2. CASE x # i
  <2>1. its'[x] = its[x] /\ pc'[x] = pc[x]
    BY <1>2 DEF OneChanges
  <2> QED
    BY <2>1 DEF CountsDown
<1> QED
  BY <1>1, <1>2

LEMMA LoopCountsDown ==
    ASSUME LoopInv, [JoinNext]_vars, NEW x \in Iterators
    PROVE  CountsDown(x)
<1>0. join \in Joins
  BY DEF LoopInv
<1>a. ASSUME NEW i \in Iterators, Live(i)
      PROVE  GoodDiagonal(its[i].ops[1], <<i, 1>>)
  <2>1. IteratorShape(join, its[i]) /\ OwnDiagonals(join, i, its[i])
    BY <1>a DEF LoopInv, IteratorInv
  <2>2. 1 \in DOMAIN its[i].ops
    BY <2>1 DEF IteratorShape
  <2> QED
    BY <2>1, <2>2 DEF OwnDiagonals
<1>1. ASSUME NEW i \in Iterators, Begin(i) PROVE CountsDown(x)
  <2>1. PICK it \in NewIterators(join, i) : OneChanges(i, it, "probing", <<>>)
    BY <1>1, BeginChanges
  <2>2. ~Live(i)
    BY <1>1 DEF Begin, Live
  <2> QED
    BY <2>1, <2>2, OneCountsDown
<1>2. ASSUME NEW i \in Iterators, Hit(i) PROVE CountsDown(x)
  <2> DEFINE kp == its[i].ops[1].kp
             it == HitResult(its[i], i, kp)
             seq == Append(yielded[i], kp)
  <2>1. /\ pc[i] = "probing" /\ ~ended(its[i].ops[1])
        /\ FirstMiss(its[i], i, kp) > Len(its[i].ops)
        /\ OneChanges(i, it, "ready", seq)
    BY <1>2, HitChanges
  <2>2. Live(i) /\ IteratorInv(join, i, its[i], "probing", yielded[i])
    BY <2>1 DEF LoopInv, Live
  <2>3. it.ops[1] = its[i].ops[1]
    BY SMTT(30), <1>0, <2>1, <2>2, HitIterator
  <2> HIDE DEF it, seq
  <2>4. RemainingOf(it.ops[1], "ready") < RemainingOf(its[i].ops[1], pc[i])
    BY <1>a, <2>1, <2>2, <2>3, LessRemains
  <2> QED
    BY <2>1, <2>4, OneCountsDown
<1>3. ASSUME NEW i \in Iterators, Miss(i) PROVE CountsDown(x)
  <2> DEFINE kp == its[i].ops[1].kp
  <2>1. /\ pc[i] = "probing" /\ ~ended(its[i].ops[1])
        /\ FirstMiss(its[i], i, kp) <= Len(its[i].ops)
    BY <1>3, MissChanges
  <2>2. PICK h \in inc(its[i].ops[1], <<i, 1>>) :
           OneChanges(i, MissResult(its[i], i, kp, h), "probing", yielded[i])
    BY <1>3, MissChanges
  <2> DEFINE it == MissResult(its[i], i, kp, h)
  <2>3. Live(i) /\ IteratorInv(join, i, its[i], "probing", yielded[i])
    BY <2>1 DEF LoopInv, Live
  <2>4. kp = its[i].ops[1].kp /\ it = MissResult(its[i], i, kp, h)
    OBVIOUS
  <2> HIDE DEF it, kp
  <2>5. it.ops[1] = h
    BY SMTT(30), <1>0, <2>1, <2>2, <2>3, <2>4, MissIterator
  <2>6. OneChanges(i, it, "probing", yielded[i])
    BY <2>2, <2>4
  <2>7. GoodDiagonal(its[i].ops[1], <<i, 1>>)
    BY <1>a, <2>3
  <2>8. GoodDiagonal(h, <<i, 1>>) /\ Further(its[i].ops[1], h)
    BY <2>7, IncStep
  <2>9. RemainingOf(it.ops[1], "probing") < RemainingOf(its[i].ops[1], pc[i])
    BY <2>1, <2>5, <2>7, <2>8, LessRemains
  <2> QED
    BY <2>6, <2>9, OneCountsDown
<1>4. ASSUME NEW i \in Iterators, Next(i) PROVE CountsDown(x)
  <2>1. pc[i] = "body"
    BY <1>4, NextChanges
  <2>2. PICK h \in inc(its[i].ops[1], <<i, 1>>) :
           OneChanges(i, NextResult(its[i], h), "probing", yielded[i])
    BY <1>4, NextChanges
  <2> DEFINE it == NextResult(its[i], h)
  <2>3. Live(i) /\ IteratorInv(join, i, its[i], "body", yielded[i])
    BY <2>1 DEF LoopInv, Live
  <2>4. it.ops[1] = h
    BY SMTT(30), <1>0, <2>3, NextIterator
  <2>5. OneChanges(i, it, "probing", yielded[i])
    BY <2>2
  <2> HIDE DEF it
  <2>6. GoodDiagonal(its[i].ops[1], <<i, 1>>) /\ ~ended(its[i].ops[1])
    BY <1>a, <2>3 DEF IteratorInv, KeysVisited
  <2>7. GoodDiagonal(h, <<i, 1>>) /\ Further(its[i].ops[1], h)
    BY <2>6, IncStep
  <2>8. RemainingOf(it.ops[1], "probing") < RemainingOf(its[i].ops[1], pc[i])
    BY <2>1, <2>4, <2>6, <2>7, LessRemains
  <2> QED
    BY <2>5, <2>8, OneCountsDown
<1>5. ASSUME NEW i \in Iterators, NEW k \in Iterators, Copy(i, k) PROVE CountsDown(x)
  <2> DEFINE it == CopyResult(its[i], k)
  <2>1. pc[k] = "none" /\ OneChanges(k, it, "body", yielded[i])
    BY <1>5, CopyChanges
  <2>2. ~Live(k)
    BY <2>1 DEF Live
  <2> HIDE DEF it
  <2> QED
    BY <2>1, <2>2, OneCountsDown
<1>6. ASSUME NEW i \in Iterators, Exhausted(i) PROVE CountsDown(x)
  <2>1. pc[i] = "probing" /\ OneChanges(i, its[i], "ended", yielded[i])
    BY <1>6, QuietChanges
  <2>2. RemainingOf(its[i].ops[1], "ended") < RemainingOf(its[i].ops[1], pc[i])
    BY <1>a, <2>1, LessRemains DEF Live
  <2> QED
    BY <2>1, <2>2, OneCountsDown
<1>7. ASSUME NEW i \in Iterators, Body(i) PROVE CountsDown(x)
  <2>1. pc[i] = "ready" /\ OneChanges(i, its[i], "body", yielded[i])
    BY <1>7, QuietChanges
  <2>2. RemainingOf(its[i].ops[1], "body") < RemainingOf(its[i].ops[1], pc[i])
    BY <1>a, <2>1, LessRemains DEF Live
  <2> QED
    BY <2>1, <2>2, OneCountsDown
<1>8. ASSUME NEW i \in Iterators, Leave(i) PROVE CountsDown(x)
  <2>1. OneChanges(i, NoIterator, "none", <<>>)
    BY <1>8, QuietChanges
  <2>2. "none" \notin LivePhases
    BY DEF LivePhases
  <2> QED
    BY <2>1, <2>2, OneCountsDown
<1>9. ASSUME NEW i \in Iterators, Throw(i) PROVE CountsDown(x)
  BY <1>9 DEF Throw, CountsDown, Live
<1>10. CASE NewContext
  BY <1>10 DEF NewContext, CountsDown, Live
<1>11. CASE ClockPasses
  BY <1>11 DEF ClockPasses, CountsDown
<1>12. CASE UNCHANGED vars
  BY <1>12 DEF vars, CountsDown
<1> QED
  BY <1>1, <1>2, <1>3, <1>4, <1>5, <1>6, <1>7, <1>8, <1>9, <1>10, <1>11, <1>12 DEF JoinNext, Loop, Search

\* LoopsProgress: next, operator++ and the body of a loop make less of what
\* remains, so that no loop over a join searches or repeats forever.
THEOREM LoopsEnd == Spec => LoopsProgress
<1>1. LoopInv /\ [JoinNext]_vars
      => [\A i \in Iterators :
             /\ Live(i) /\ Live(i)'
             /\ its'[i] # its[i] \/ pc'[i] # pc[i]
             => Remaining(i)' < Remaining(i)]_vars
  BY LoopCountsDown DEF CountsDown
<1> QED
  BY <1>1, LoopAlways, PTL DEF Spec, LoopsProgress

=============================================================================

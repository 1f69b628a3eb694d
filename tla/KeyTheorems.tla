---------------------------- MODULE KeyTheorems ----------------------------
(***************************************************************************)
(* Facts about keys, sets of entries and slices, for the proofs about the  *)
(* nodes and the joins: what is below a position and key part, what is     *)
(* left of a key in a slice, and induction over the depth.                 *)
(*                                                                         *)
(* The provers do not instantiate the induction theorems of the library,   *)
(* whose parameter is an operator.  LeastNumber, which is about sets,      *)
(* takes their place.                                                      *)
(***************************************************************************)
EXTENDS SliceKey, FiniteSetTheorems, WellFoundedInduction, SequenceTheorems, TLAPS

-----------------------------------------------------------------------------
(* Identifiers and keys.                                                   *)

\* The key parts are finitely many, as the keys are.
LEMMA KeyPartsFinite == IsFiniteSet(KeyParts)
<1> DEFINE f == [k \in Keys(1) |-> k[1]]
<1>1. f \in Surjection(Keys(1), KeyParts)
  <2>1. f \in [Keys(1) -> KeyParts]
    BY DEF Keys
  <2>2. ASSUME NEW p \in KeyParts PROVE \E k \in Keys(1) : f[k] = p
    <3>1. [i \in 1 .. 1 |-> p] \in Keys(1) /\ f[[i \in 1 .. 1 |-> p]] = p
      BY DEF Keys
    <3> QED BY <3>1
  <2> QED BY <2>1, <2>2 DEF Surjection
<1>2. IsFiniteSet(Keys(1))
  BY KeysAssumption, MaxDepthAssumption
<1> QED
  BY <1>1, <1>2, FS_Surjection

\* Sets of entries are finite.
LEMMA EntriesFinite ==
    ASSUME NEW d \in 0 .. MaxDepth, NEW es \in SUBSET Keys(d)
    PROVE  IsFiniteSet(es) /\ Cardinality(es) \in Nat
BY KeysAssumption, FS_Subset, FS_CardinalityType

\* The only key of depth 0.
LEMMA KeysAtZero == Keys(0) = {<<>>}
<1>1. \A k \in Keys(0) : k \in Seq(KeyParts) /\ Len(k) = 0
  BY DEF Keys
<1>2. <<>> \in Seq(KeyParts) /\ \A k \in Seq(KeyParts) : k = <<>> <=> Len(k) = 0
  BY EmptySeq
<1>3. <<>> \in Keys(0)
  BY <1>2 DEF Keys
<1> QED
  BY <1>1, <1>2, <1>3

\* A key without one part is a key of the depth below.
LEMMA SubkeyType ==
    ASSUME NEW d \in Depths, NEW k \in Keys(d), NEW pos \in 1 .. d
    PROVE  /\ Len(k) = d
           /\ subkey(k, pos) = [i \in 1 .. (d - 1) |-> IF i < pos THEN k[i] ELSE k[i + 1]]
           /\ subkey(k, pos) \in Keys(d - 1)
<1>1. Len(k) = d
  BY MaxDepthAssumption DEF Depths, Keys
<1> QED
  BY <1>1, MaxDepthAssumption DEF Depths, Keys, subkey

LEMMA SubEntriesType ==
    ASSUME NEW d \in Depths, NEW es \in SUBSET Keys(d), NEW pos \in 1 .. d, NEW kp
    PROVE  SubEntries(es, pos, kp) \in SUBSET Keys(d - 1)
BY SubkeyType DEF SubEntries

LEMMA PartsAtType ==
    ASSUME NEW d \in Depths, NEW es \in SUBSET Keys(d), NEW pos \in 1 .. d
    PROVE  PartsAt(es, pos) \in SUBSET KeyParts
BY DEF PartsAt, Keys

LEMMA IdentifierTypes ==
    ASSUME NEW d
    PROVE  /\ NoId \in RawIdentifiers(d)
           /\ \A es \in SUBSET Keys(d) : RawIdentifier(es) \in RawIdentifiers(d)
           /\ \A a, b \in RawIdentifiers(d) : combine(a, b) \in RawIdentifiers(d)
           /\ \A id \in RawIdentifiers(d) : retag_as_sen(id) \in RawIdentifiers(d)
           /\ \A id \in RawIdentifiers(d) : id.es \in SUBSET Keys(d)
BY DEF RawIdentifiers, Tags, NoId, RawIdentifier, combine, retag_as_sen

-----------------------------------------------------------------------------
(* Entries below a position and key part.                                  *)

\* Two keys that agree in one part and without that part are equal.
LEMMA SubkeyInjective ==
    ASSUME NEW d \in Depths, NEW k \in Keys(d), NEW l \in Keys(d), NEW pos \in 1 .. d,
           k[pos] = l[pos], subkey(k, pos) = subkey(l, pos)
    PROVE  k = l
<1> DEFINE rest(m) == [j \in 1 .. (d - 1) |-> IF j < pos THEN m[j] ELSE m[j + 1]]
<1>0. subkey(k, pos) = rest(k) /\ subkey(l, pos) = rest(l) /\ d \in Nat
  BY SubkeyType DEF Depths
<1>1. ASSUME NEW i \in 1 .. d PROVE k[i] = l[i]
  <2>1. CASE i < pos
    <3>1. i \in 1 .. (d - 1)
      BY <1>0, <2>1
    <3>2. rest(k)[i] = k[i] /\ rest(l)[i] = l[i]
      BY <2>1, <3>1
    <3> QED BY <1>0, <3>2
  <2>2. CASE i > pos
    <3>1. i - 1 \in 1 .. (d - 1) /\ ~(i - 1 < pos) /\ (i - 1) + 1 = i
      BY <1>0, <2>2
    <3>2. rest(k)[i - 1] = k[i] /\ rest(l)[i - 1] = l[i]
      BY <3>1
    <3> QED BY <1>0, <3>2
  <2> QED
    BY <1>0, <2>1, <2>2
<1>2. k = [i \in 1 .. d |-> k[i]] /\ l = [i \in 1 .. d |-> l[i]]
  BY DEF Keys
<1> QED
  BY <1>1, <1>2

\* Taking the entries below a key part commutes with the set operations: the
\* children of a union, of a difference, of disjoint and of included sets.
LEMMA SubEntriesUnion ==
    ASSUME NEW A, NEW B, NEW pos, NEW kp
    PROVE  SubEntries(A \cup B, pos, kp) = SubEntries(A, pos, kp) \cup SubEntries(B, pos, kp)
BY DEF SubEntries

LEMMA SubEntriesDifference ==
    ASSUME NEW d \in Depths, NEW A \in SUBSET Keys(d), NEW B \in SUBSET Keys(d),
           NEW pos \in 1 .. d, NEW kp
    PROVE  SubEntries(A \ B, pos, kp) = SubEntries(A, pos, kp) \ SubEntries(B, pos, kp)
<1>1. \A k, l \in Keys(d) : k[pos] = l[pos] /\ subkey(k, pos) = subkey(l, pos) => k = l
  BY SubkeyInjective
<1> QED
  BY <1>1 DEF SubEntries

LEMMA SubEntriesDisjoint ==
    ASSUME NEW d \in Depths, NEW A \in SUBSET Keys(d), NEW B \in SUBSET Keys(d),
           NEW pos \in 1 .. d, NEW kp, A \cap B = {}
    PROVE  SubEntries(A, pos, kp) \cap SubEntries(B, pos, kp) = {}
<1>1. \A k, l \in Keys(d) : k[pos] = l[pos] /\ subkey(k, pos) = subkey(l, pos) => k = l
  BY SubkeyInjective
<1> QED
  BY <1>1 DEF SubEntries

LEMMA SubEntriesMonotone ==
    ASSUME NEW A, NEW B, NEW pos, NEW kp, A \subseteq B
    PROVE  SubEntries(A, pos, kp) \subseteq SubEntries(B, pos, kp)
BY DEF SubEntries

LEMMA SubEntriesEmpty ==
    ASSUME NEW A, NEW pos, NEW kp
    PROVE  SubEntries(A, pos, kp) = {} <=> kp \notin PartsAt(A, pos)
BY DEF SubEntries, PartsAt

\* At depth 1 there are as many key parts as entries.
LEMMA DepthOneParts ==
    ASSUME NEW es \in SUBSET Keys(1)
    PROVE  Cardinality(PartsAt(es, 1)) = Cardinality(es)
<1> DEFINE f == [k \in es |-> k[1]]
<1>1. f \in Surjection(es, PartsAt(es, 1))
  BY DEF Surjection, PartsAt
<1>2. \A k, l \in es : k[1] = l[1] => k = l
  BY DEF Keys
<1>3. f \in Injection(es, PartsAt(es, 1))
  BY <1>1, <1>2 DEF Injection, Surjection, IsInjective
<1>4. IsFiniteSet(es)
  BY EntriesFinite, MaxDepthAssumption
<1> QED
  BY <1>1, <1>3, <1>4, FS_Surjection

-----------------------------------------------------------------------------
(* Induction over the depth.                                               *)

LEMMA LeastNumber ==
    ASSUME NEW T \in SUBSET Nat, T # {}
    PROVE  \E n \in T : \A m \in T : n <= m
<1> DEFINE Q == {0 .. n : n \in T}
<1>1. Q \subseteq FiniteSubsetsOf(Nat) /\ Q # {}
  <2>1. \A n \in Nat : IsFiniteSet(0 .. n) /\ 0 .. n \in SUBSET Nat
    BY FS_Interval
  <2> QED
    BY <2>1 DEF FiniteSubsetsOf
<1>2. IsWellFoundedOn(StrictSubsetOrdering(Nat), FiniteSubsetsOf(Nat))
  BY FS_StrictSubsetOrderingWellFounded
<1> HIDE DEF Q
<1>3. PICK x \in Q : \A y \in Q : ~(<<y, x>> \in StrictSubsetOrdering(Nat))
  BY <1>1, <1>2, WFMin
<1>4. PICK n \in T : x = 0 .. n
  BY <1>3 DEF Q
<1>5. ASSUME NEW m \in T, m < n PROVE FALSE
  <2>1. 0 .. m \in Q /\ <<0 .. m, x>> \in (SUBSET Nat) \X (SUBSET Nat)
    BY <1>4 DEF Q
  <2>2. 0 .. m \subseteq x /\ n \in x /\ n \notin 0 .. m
    BY <1>4, <1>5
  <2>3. <<0 .. m, x>> \in StrictSubsetOrdering(Nat)
    BY <2>1, <2>2 DEF StrictSubsetOrdering
  <2> QED
    BY <1>3, <2>1, <2>3
<1> QED
  BY <1>5

\* What holds at depth 0, and at each depth if it holds at the one below.
Inductive(T) == 0 \in T /\ \A d \in Depths : d - 1 \in T => d \in T

LEMMA DepthInduction ==
    ASSUME NEW T, Inductive(T)
    PROVE  \A d \in 0 .. MaxDepth : d \in T
<1> DEFINE C == {d \in 0 .. MaxDepth : d \notin T}
<1> SUFFICES ASSUME C # {} PROVE FALSE
  OBVIOUS
<1>1. C \in SUBSET Nat
  BY MaxDepthAssumption
<1>2. PICK d \in C : \A e \in C : d <= e
  BY <1>1, LeastNumber
<1>3. d # 0
  BY <1>2 DEF Inductive
<1>4. d \in Depths /\ d - 1 \in 0 .. MaxDepth /\ ~(d <= d - 1)
  BY <1>2, <1>3, MaxDepthAssumption DEF Depths
<1>5. d - 1 \in T
  BY <1>2, <1>4
<1> QED
  BY <1>2, <1>4, <1>5 DEF Inductive

-----------------------------------------------------------------------------
(* Slices of keys.                                                         *)

\* The rank of a position among the free ones, and the position of a rank.
Rank(free, i) == Cardinality({q \in free : q <= i})

AtRank(free, j) == CHOOSE i \in free : Cardinality({q \in free : q <= i}) = j

LEMMA PositionsFinite ==
    ASSUME NEW n \in Int, NEW A \in SUBSET (1 .. n)
    PROVE  IsFiniteSet(A) /\ Cardinality(A) \in Nat
<1>1. IsFiniteSet(1 .. n)
  BY FS_Interval
<1> QED
  BY <1>1, FS_Subset, FS_CardinalityType

\* Every rank is that of exactly one free position.
LEMMA RankFacts ==
    ASSUME NEW n \in Nat, NEW free \in SUBSET (1 .. n)
    PROVE  /\ IsFiniteSet(free) /\ Cardinality(free) \in Nat
           /\ \A i, j \in free : Rank(free, i) = Rank(free, j) => i = j
           /\ \A r \in 1 .. Cardinality(free) : AtRank(free, r) \in free /\ Rank(free, AtRank(free, r)) = r
<1>1. IsFiniteSet(free) /\ Cardinality(free) \in Nat
  BY PositionsFinite
<1>2. ASSUME NEW i \in free
      PROVE  /\ IsFiniteSet({q \in free : q <= i}) /\ Rank(free, i) \in Nat
             /\ Rank(free, i) <= Cardinality(free) /\ Rank(free, i) >= 1
  <2> DEFINE S == {q \in free : q <= i}
  <2>1. S \in SUBSET free /\ i \in S
    OBVIOUS
  <2> HIDE DEF S
  <2>2. IsFiniteSet(S) /\ Cardinality(S) \in Nat /\ Cardinality(S) <= Cardinality(free)
    BY <1>1, <2>1, FS_Subset, FS_CardinalityType
  <2>3. Cardinality(S) # 0
    BY <2>1, <2>2, FS_EmptySet
  <2> QED
    BY <2>2, <2>3 DEF Rank, S
<1>3. ASSUME NEW i \in free, NEW j \in free, i < j PROVE Rank(free, i) # Rank(free, j)
  <2> DEFINE S == {q \in free : q <= i}
             U == {q \in free : q <= j}
  <2>1. S \in SUBSET U /\ j \in U /\ j \notin S
    <3>1. \A q \in free : q \in Nat
      OBVIOUS
    <3>2. i \in Nat /\ j \in Nat /\ i < j /\ ~(j <= i) /\ j <= j
      BY <1>3, <3>1
    <3>3. \A q \in free : q <= i => q <= j
      BY <3>1, <3>2
    <3> QED
      BY <3>2, <3>3
  <2>2. IsFiniteSet(U)
    BY <1>2
  <2> HIDE DEF S, U
  <2>3. Cardinality(U) # Cardinality(S)
    BY <2>1, <2>2, FS_Subset
  <2> QED
    BY <2>3 DEF Rank, S, U
<1>4. \A i, j \in free : Rank(free, i) = Rank(free, j) => i = j
  BY <1>3
<1> DEFINE m == Cardinality(free)
           f == [i \in free |-> Rank(free, i)]
<1>5. f \in Injection(free, 1 .. m)
  <2>1. ASSUME NEW i \in free PROVE Rank(free, i) \in 1 .. m
    <3>1. Rank(free, i) \in Nat /\ Rank(free, i) <= m /\ Rank(free, i) >= 1 /\ m \in Nat
      BY <1>1, <1>2
    <3> HIDE DEF m
    <3> QED
      BY <3>1
  <2>2. f \in [free -> 1 .. m]
    BY <2>1
  <2> QED
    BY <1>4, <2>2 DEF Injection, IsInjective
<1>6. IsFiniteSet(1 .. m) /\ Cardinality(1 .. m) = Cardinality(free)
  BY <1>1, FS_Interval
<1>7. f \in Surjection(free, 1 .. m)
  BY <1>5, <1>6, FS_Injection
<1>8. ASSUME NEW r \in 1 .. m PROVE \E i \in free : Rank(free, i) = r
  BY <1>7 DEF Surjection
<1>9. ASSUME NEW r \in 1 .. m PROVE AtRank(free, r) \in free /\ Rank(free, AtRank(free, r)) = r
  <2>1. \E i \in free : Cardinality({q \in free : q <= i}) = r
    BY <1>8 DEF Rank
  <2> QED
    BY <2>1 DEF AtRank, Rank
<1> QED
  BY <1>1, <1>4, <1>9

\* The positions that a slice leaves.
Free(d, fixed) == {i \in 1 .. d : i \notin DOMAIN fixed}

LEMMA ProjectIs ==
    ASSUME NEW d \in Nat, NEW k, Len(k) = d, NEW fixed
    PROVE  Project(k, fixed) =
             [j \in 1 .. Cardinality(Free(d, fixed)) |-> k[AtRank(Free(d, fixed), j)]]
BY DEF Project, Free, InOrder, AtRank

\* The position, before position pos was taken away, of what is at i now.
Up(pos, i) == IF i >= pos THEN i + 1 ELSE i

LEMMA UpCounts ==
    ASSUME NEW d \in Nat, NEW pos \in 1 .. d, NEW A \in SUBSET (1 .. (d - 1)),
           NEW B, B = {Up(pos, i) : i \in A}
    PROVE  IsFiniteSet(A) /\ IsFiniteSet(B) /\ Cardinality(A) = Cardinality(B) /\ Cardinality(A) \in Nat
<1>1. IsFiniteSet(A) /\ Cardinality(A) \in Nat
  <2>1. d - 1 \in Int
    OBVIOUS
  <2> QED
    BY <2>1, PositionsFinite
<1> DEFINE f == [i \in A |-> Up(pos, i)]
<1>2. \A i, j \in A : Up(pos, i) = Up(pos, j) => i = j
  BY DEF Up
<1>3. f \in Surjection(A, B) /\ f \in Injection(A, B)
  BY <1>2 DEF Surjection, Injection, IsInjective
<1> HIDE DEF f
<1> QED
  BY <1>1, <1>3, FS_Surjection

\* What Shift makes of a slice key.
LEMMA ShiftFacts ==
    ASSUME NEW d \in Depths, NEW P \in SUBSET (1 .. d), NEW fixed \in [P -> KeyParts], NEW pos \in P
    PROVE  /\ Shift(fixed, pos) \in SliceKeys(d - 1)
           /\ \A p \in 1 .. (d - 1) : p \in DOMAIN Shift(fixed, pos) <=> Up(pos, p) \in P
           /\ \A p \in DOMAIN Shift(fixed, pos) : Shift(fixed, pos)[p] = fixed[Up(pos, p)]
           /\ Cardinality(DOMAIN Shift(fixed, pos)) = Cardinality(P) - 1 /\ IsFiniteSet(P)
<1>0. d \in Nat
  BY DEF Depths
<1> DEFINE D == {IF q > pos THEN q - 1 ELSE q : q \in P \ {pos}}
           s == Shift(fixed, pos)
<1>1. DOMAIN s = D /\ s = [p \in D |-> s[p]] /\ \A p \in D : s[p] = fixed[Up(pos, p)]
  BY DEF Shift, Up
<1>2. \A p \in D : p \in 1 .. (d - 1) /\ Up(pos, p) \in P \ {pos}
  BY <1>0 DEF Up
<1>3. \A p \in 1 .. (d - 1) : Up(pos, p) \in P => p \in D
  <2> SUFFICES ASSUME NEW p \in 1 .. (d - 1), Up(pos, p) \in P PROVE p \in D
    OBVIOUS
  <2>1. Up(pos, p) # pos /\ p = IF Up(pos, p) > pos THEN Up(pos, p) - 1 ELSE Up(pos, p)
    BY <1>0 DEF Up
  <2> QED
    BY <2>1
<1>4. P \ {pos} = {Up(pos, p) : p \in D}
  <2>1. ASSUME NEW q \in P \ {pos} PROVE \E p \in D : q = Up(pos, p)
    <3>1. (IF q > pos THEN q - 1 ELSE q) \in D /\ Up(pos, IF q > pos THEN q - 1 ELSE q) = q
      BY <1>0 DEF Up
    <3> QED
      BY <3>1
  <2> HIDE DEF D
  <2> QED
    BY <1>2, <2>1
<1> HIDE DEF D, s
<1>5. s \in SliceKeys(d - 1)
  <2>1. \A p \in D : s[p] \in KeyParts
    BY <1>1, <1>2
  <2>3. s \in [D -> KeyParts]
    BY <1>1, <2>1
  <2>2. D \in SUBSET (1 .. (d - 1))
    BY <1>2
  <2> QED
    BY <2>2, <2>3 DEF SliceKeys
<1>6. IsFiniteSet(P) /\ Cardinality(P \ {pos}) = Cardinality(P) - 1
  <2>1. IsFiniteSet(P)
    <3>1. d \in Int /\ P \in SUBSET (1 .. d)
      BY <1>0
    <3> QED
      BY <3>1, PositionsFinite
  <2> QED
    BY <2>1, FS_RemoveElement
<1>7. Cardinality(D) = Cardinality(P \ {pos})
  <2>1. D \in SUBSET (1 .. (d - 1)) /\ pos \in 1 .. d
    BY <1>2
  <2> QED
    BY <1>0, <1>4, <2>1, UpCounts
<1> QED
  BY <1>1, <1>2, <1>3, <1>5, <1>6, <1>7 DEF s

\* Taking position pos away moves the free positions and keeps their order.
LEMMA FreeShift ==
    ASSUME NEW d \in Depths, NEW P \in SUBSET (1 .. d), NEW fixed \in [P -> KeyParts], NEW pos \in P
    PROVE  LET rest == Free(d - 1, Shift(fixed, pos))
           IN  /\ Cardinality(Free(d, fixed)) = Cardinality(rest)
               /\ \A j \in 1 .. Cardinality(rest) :
                    AtRank(rest, j) \in rest /\ AtRank(Free(d, fixed), j) = Up(pos, AtRank(rest, j))
<1> DEFINE rest == Free(d - 1, Shift(fixed, pos))
           free == Free(d, fixed)
<1>0. d \in Nat \ {0} /\ d - 1 \in Nat /\ pos \in 1 .. d /\ DOMAIN fixed = P
  BY DEF Depths
<1>1. rest \in SUBSET (1 .. (d - 1)) /\ free \in SUBSET (1 .. d) /\ pos \notin free
  BY DEF Free
<1>2. \A i \in 1 .. (d - 1) : Up(pos, i) \in 1 .. d
  BY <1>0 DEF Up
<1>3. \A i \in 1 .. (d - 1) : i \in rest <=> Up(pos, i) \in free
  BY <1>0, <1>2, ShiftFacts DEF Free
<1>4. \A q \in 1 .. d : q # pos => \E i \in 1 .. (d - 1) : q = Up(pos, i)
  <2> SUFFICES ASSUME NEW q \in 1 .. d, q # pos PROVE \E i \in 1 .. (d - 1) : q = Up(pos, i)
    OBVIOUS
  <2>1. CASE q < pos
    <3>1. q \in 1 .. (d - 1) /\ Up(pos, q) = q
      BY <1>0, <2>1 DEF Up
    <3> QED
      BY <3>1
  <2>2. CASE q > pos
    <3>1. q - 1 \in 1 .. (d - 1) /\ Up(pos, q - 1) = q
      BY <1>0, <2>2 DEF Up
    <3> QED
      BY <3>1
  <2> QED
    BY <1>0, <2>1, <2>2
<1> HIDE DEF rest, free
<1>5. free = {Up(pos, i) : i \in rest}
  <2>1. \A q \in free : \E i \in rest : q = Up(pos, i)
    BY <1>1, <1>3, <1>4
  <2>2. \A i \in rest : Up(pos, i) \in free
    BY <1>1, <1>3
  <2> QED
    BY <2>1, <2>2
<1>6. Cardinality(free) = Cardinality(rest) /\ Cardinality(rest) \in Nat
  <2>1. d \in Nat /\ rest \in SUBSET (1 .. (d - 1)) /\ pos \in 1 .. d
    BY <1>0, <1>1
  <2>2. \A B : B = {Up(pos, i) : i \in rest} =>
                 Cardinality(rest) = Cardinality(B) /\ Cardinality(rest) \in Nat
    BY <2>1, UpCounts
  <2> QED
    BY <1>5, <2>2
<1>7. ASSUME NEW i \in rest PROVE Rank(free, Up(pos, i)) = Rank(rest, i)
  <2> DEFINE A == {q \in rest : q <= i}
             B == {q \in free : q <= Up(pos, i)}
  <2>1. \A q \in rest : q <= i <=> Up(pos, q) <= Up(pos, i)
    BY <1>0, <1>1 DEF Up
  <2>2. B = {Up(pos, q) : q \in A}
    BY <1>5, <2>1
  <2>3. A \in SUBSET (1 .. (d - 1))
    BY <1>1
  <2> HIDE DEF A, B
  <2>4. Cardinality(A) = Cardinality(B)
    BY <1>0, <2>2, <2>3, UpCounts
  <2> QED
    BY <2>4 DEF Rank, A, B
<1>8. ASSUME NEW j \in 1 .. Cardinality(rest)
      PROVE  AtRank(rest, j) \in rest /\ AtRank(free, j) = Up(pos, AtRank(rest, j))
  <2>1. AtRank(rest, j) \in rest /\ Rank(rest, AtRank(rest, j)) = j
    BY <1>0, <1>1, RankFacts
  <2>2. Up(pos, AtRank(rest, j)) \in free /\ Rank(free, Up(pos, AtRank(rest, j))) = j
    BY <1>5, <1>7, <2>1
  <2>3. AtRank(free, j) \in free /\ Rank(free, AtRank(free, j)) = j
    BY <1>0, <1>1, <1>6, RankFacts
  <2>4. \A x, y \in free : Rank(free, x) = Rank(free, y) => x = y
    BY <1>0, <1>1, RankFacts
  <2> QED
    BY <2>1, <2>2, <2>3, <2>4
<1> QED
  BY <1>6, <1>8 DEF rest, free

\* A matching key loses a fixed position and keeps the rest of the slice.
LEMMA ProjectShift ==
    ASSUME NEW d \in Depths, NEW P \in SUBSET (1 .. d), NEW fixed \in [P -> KeyParts], NEW pos \in P,
           NEW k \in Keys(d), k[pos] = fixed[pos]
    PROVE  /\ Project(subkey(k, pos), Shift(fixed, pos)) = Project(k, fixed)
           /\ Matches(subkey(k, pos), Shift(fixed, pos)) <=> Matches(k, fixed)
<1> DEFINE rest == Free(d - 1, Shift(fixed, pos))
           s == subkey(k, pos)
<1>0. d \in Nat \ {0} /\ d - 1 \in Nat /\ pos \in 1 .. d /\ DOMAIN fixed = P /\ Len(k) = d
  BY DEF Depths, Keys
<1>1. s = [i \in 1 .. (d - 1) |-> IF i < pos THEN k[i] ELSE k[i + 1]]
  BY <1>0, SubkeyType
<1>2. Len(s) = d - 1 /\ \A i \in 1 .. (d - 1) : s[i] = k[Up(pos, i)]
  <2>1. s \in Keys(d - 1)
    BY <1>0, SubkeyType
  <2>2. Len(s) = d - 1
    BY <1>0, <2>1 DEF Keys
  <2> QED
    BY <1>0, <1>1, <2>2 DEF Up
<1> HIDE DEF s
<1>3. Project(s, Shift(fixed, pos)) = [j \in 1 .. Cardinality(rest) |-> s[AtRank(rest, j)]]
  BY <1>0, <1>2, ProjectIs
<1>4. Project(k, fixed) = [j \in 1 .. Cardinality(Free(d, fixed)) |-> k[AtRank(Free(d, fixed), j)]]
  BY <1>0, ProjectIs
<1>5. /\ Cardinality(Free(d, fixed)) = Cardinality(rest)
      /\ \A j \in 1 .. Cardinality(rest) :
           AtRank(rest, j) \in rest /\ AtRank(Free(d, fixed), j) = Up(pos, AtRank(rest, j))
  BY FreeShift
<1>6. rest \in SUBSET (1 .. (d - 1))
  BY DEF Free
<1> HIDE DEF rest
<1>7. \A j \in 1 .. Cardinality(rest) : s[AtRank(rest, j)] = k[AtRank(Free(d, fixed), j)]
  BY <1>2, <1>5, <1>6
<1>8. Project(s, Shift(fixed, pos)) = Project(k, fixed)
  BY <1>3, <1>4, <1>5, <1>7
<1> DEFINE f == Shift(fixed, pos)
<1>9. /\ DOMAIN f \in SUBSET (1 .. (d - 1))
      /\ \A p \in DOMAIN f : Up(pos, p) \in P /\ f[p] = fixed[Up(pos, p)]
      /\ \A p \in 1 .. (d - 1) : Up(pos, p) \in P => p \in DOMAIN f
  <2>1. f \in SliceKeys(d - 1)
    BY ShiftFacts
  <2>2. DOMAIN f \in SUBSET (1 .. (d - 1))
    BY <2>1 DEF SliceKeys
  <2> QED
    BY <2>2, ShiftFacts
<1> HIDE DEF f
<1>10. Matches(k, fixed) => Matches(s, f)
  BY <1>0, <1>2, <1>9 DEF Matches
<1>11. ASSUME Matches(s, f), NEW q \in P PROVE k[q] = fixed[q]
  <2>1. CASE q = pos
    BY <2>1
  <2>2. CASE q < pos
    <3>1. q \in 1 .. (d - 1) /\ Up(pos, q) = q
      BY <1>0, <2>2 DEF Up
    <3> QED
      BY <1>2, <1>9, <1>11, <3>1 DEF Matches
  <2>3. CASE q > pos
    <3>1. q - 1 \in 1 .. (d - 1) /\ Up(pos, q - 1) = q
      BY <1>0, <2>3 DEF Up
    <3> QED
      BY <1>2, <1>9, <1>11, <3>1 DEF Matches
  <2> QED
    BY <1>0, <2>1, <2>2, <2>3
<1> QED
  BY <1>0, <1>8, <1>10, <1>11 DEF Matches, f, s

\* Without fixed positions a slice is the key itself.
LEMMA ProjectNothing ==
    ASSUME NEW d \in Nat, NEW k \in Keys(d), NEW fixed, DOMAIN fixed = {}
    PROVE  Project(k, fixed) = k /\ Matches(k, fixed)
<1>1. Free(d, fixed) = 1 .. d /\ Len(k) = d /\ Cardinality(1 .. d) = d
  BY FS_Interval DEF Free, Keys
<1>2. Project(k, fixed) = [j \in 1 .. d |-> k[AtRank(1 .. d, j)]]
  BY <1>1, ProjectIs
<1>3. ASSUME NEW j \in 1 .. d PROVE AtRank(1 .. d, j) = j
  <2>1. {q \in 1 .. d : q <= j} = 1 .. j
    OBVIOUS
  <2>2. 1 \in Int /\ j \in Int /\ ~(1 > j) /\ (j - 1) + 1 = j
    OBVIOUS
  <2>3. Cardinality(1 .. j) = j
    BY <2>2, FS_Interval
  <2>4. Rank(1 .. d, j) = j
    BY <2>1, <2>3 DEF Rank
  <2>5. j \in 1 .. Cardinality(1 .. d) /\ 1 .. d \in SUBSET (1 .. d)
    BY <1>1
  <2>6. /\ AtRank(1 .. d, j) \in 1 .. d /\ Rank(1 .. d, AtRank(1 .. d, j)) = j
        /\ \A x, y \in 1 .. d : Rank(1 .. d, x) = Rank(1 .. d, y) => x = y
    BY <2>5, RankFacts
  <2> QED
    BY <2>4, <2>6
<1>4. k = [j \in 1 .. d |-> k[j]]
  BY DEF Keys
<1> QED
  BY <1>2, <1>3, <1>4 DEF Matches

\* The entries of a slice are found below the key part of a fixed position.
LEMMA SliceBelow ==
    ASSUME NEW d \in Depths, NEW P \in SUBSET (1 .. d), NEW fixed \in [P -> KeyParts], NEW pos \in P,
           NEW es \in SUBSET Keys(d)
    PROVE  SliceOf(SubEntries(es, pos, fixed[pos]), Shift(fixed, pos)) = SliceOf(es, fixed)
<1> DEFINE s == Shift(fixed, pos)
           below == SubEntries(es, pos, fixed[pos])
<1>1. \A k \in es : k[pos] = fixed[pos] =>
        /\ Project(subkey(k, pos), s) = Project(k, fixed)
        /\ Matches(subkey(k, pos), s) <=> Matches(k, fixed)
  BY ProjectShift
<1>2. \A k \in es : Matches(k, fixed) => k[pos] = fixed[pos]
  BY DEF Matches
<1> HIDE DEF s
<1>3. ASSUME NEW x \in SliceOf(below, s) PROVE x \in SliceOf(es, fixed)
  <2>1. PICK l \in below : Matches(l, s) /\ x = Project(l, s)
    BY <1>3 DEF SliceOf
  <2>2. PICK k \in es : k[pos] = fixed[pos] /\ l = subkey(k, pos)
    BY <2>1 DEF SubEntries
  <2>3. Matches(k, fixed) /\ x = Project(k, fixed)
    BY <1>1, <2>1, <2>2
  <2> QED
    BY <2>3 DEF SliceOf
<1>4. ASSUME NEW x \in SliceOf(es, fixed) PROVE x \in SliceOf(below, s)
  <2>1. PICK k \in es : Matches(k, fixed) /\ x = Project(k, fixed)
    BY <1>4 DEF SliceOf
  <2>2. subkey(k, pos) \in below
    BY <1>2, <2>1 DEF SubEntries
  <2>3. Matches(subkey(k, pos), s) /\ x = Project(subkey(k, pos), s)
    BY <1>1, <1>2, <2>1
  <2> HIDE DEF below
  <2> QED
    BY <2>2, <2>3 DEF SliceOf
<1> HIDE DEF below
<1>5. SliceOf(below, s) = SliceOf(es, fixed)
  BY <1>3, <1>4
<1> QED
  BY <1>5 DEF below, s

\* Without fixed positions, a slice of a node is the node.
LEMMA SliceNothing ==
    ASSUME NEW d \in Nat, NEW es \in SUBSET Keys(d), NEW fixed, DOMAIN fixed = {}
    PROVE  SliceOf(es, fixed) = es
<1>1. \A k \in es : Project(k, fixed) = k /\ Matches(k, fixed)
  BY ProjectNothing
<1> QED
  BY <1>1 DEF SliceOf

=============================================================================

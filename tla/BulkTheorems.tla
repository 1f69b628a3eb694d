---------------------------- MODULE BulkTheorems ----------------------------
(***************************************************************************)
(* Facts about bulks, for the proofs about the updaters: the elements of   *)
(* the sequences that the steps build, and bulks without repetitions.      *)
(***************************************************************************)
EXTENDS Bulk, FiniteSetTheorems, TLAPS

\* Elements of the sequences that the steps build.
LEMMA ElementsOf ==
    ASSUME NEW S, NEW s \in Seq(S)
    PROVE  /\ Elements(s) \subseteq S
           /\ Elements(<<>>) = {}
           /\ \A e \in S : Elements(Append(s, e)) = Elements(s) \cup {e}
           /\ \A t \in Seq(S) : Elements(s \o t) = Elements(s) \cup Elements(t)
           /\ s # <<>> => Elements(s) = {Head(s)} \cup Elements(Tail(s))
<1>1. Elements(s) \subseteq S /\ Elements(<<>>) = {}
  BY DEF Elements
<1>2. ASSUME NEW e \in S
      PROVE  Elements(Append(s, e)) = Elements(s) \cup {e}
  <2>1. /\ DOMAIN Append(s, e) = DOMAIN s \cup {Len(s) + 1}
        /\ \A i \in DOMAIN s : Append(s, e)[i] = s[i]
        /\ Append(s, e)[Len(s) + 1] = e
    OBVIOUS
  <2> QED
    BY <2>1 DEF Elements
<1>3. ASSUME NEW t \in Seq(S)
      PROVE  Elements(s \o t) = Elements(s) \cup Elements(t)
  <2>1. /\ DOMAIN (s \o t) = 1 .. (Len(s) + Len(t))
        /\ \A i \in DOMAIN s : (s \o t)[i] = s[i]
        /\ \A i \in DOMAIN t : (s \o t)[Len(s) + i] = t[i]
        /\ DOMAIN s = 1 .. Len(s) /\ DOMAIN t = 1 .. Len(t)
    OBVIOUS
  <2>2. \A i \in DOMAIN (s \o t) : i \in DOMAIN s \/ i - Len(s) \in DOMAIN t
    BY <2>1
  <2>3. Elements(s \o t) \subseteq Elements(s) \cup Elements(t)
    <3> SUFFICES ASSUME NEW i \in DOMAIN (s \o t)
                 PROVE  (s \o t)[i] \in Elements(s) \cup Elements(t)
      BY DEF Elements
    <3>1. CASE i \in DOMAIN s
      BY <3>1, <2>1 DEF Elements
    <3>2. CASE i - Len(s) \in DOMAIN t
      <4>1. (s \o t)[i] = t[i - Len(s)]
        BY <3>2, <2>1
      <4> QED
        BY <4>1, <3>2 DEF Elements
    <3> QED
      BY <3>1, <3>2, <2>2
  <2>4. \A i \in DOMAIN s : i \in DOMAIN (s \o t)
    BY <2>1
  <2>5. \A i \in DOMAIN t : Len(s) + i \in DOMAIN (s \o t)
    BY <2>1
  <2>6. Elements(s) \subseteq Elements(s \o t)
    BY <2>1, <2>4 DEF Elements
  <2>7. Elements(t) \subseteq Elements(s \o t)
    BY <2>1, <2>5 DEF Elements
  <2> QED
    BY <2>3, <2>6, <2>7
<1>4. ASSUME s # <<>>
      PROVE  Elements(s) = {Head(s)} \cup Elements(Tail(s))
  <2>1. /\ DOMAIN s = 1 .. Len(s) /\ Len(s) > 0
        /\ DOMAIN Tail(s) = 1 .. (Len(s) - 1)
        /\ \A i \in 1 .. (Len(s) - 1) : Tail(s)[i] = s[i + 1]
        /\ Head(s) = s[1]
    BY <1>4
  <2>2. \A i \in DOMAIN s : i = 1 \/ i - 1 \in DOMAIN Tail(s)
    BY <2>1
  <2>3. Elements(s) \subseteq {Head(s)} \cup Elements(Tail(s))
    <3> SUFFICES ASSUME NEW i \in DOMAIN s
                 PROVE  s[i] \in {Head(s)} \cup Elements(Tail(s))
      BY DEF Elements
    <3>1. CASE i = 1
      BY <3>1, <2>1
    <3>2. CASE i - 1 \in DOMAIN Tail(s)
      <4>1. Tail(s)[i - 1] = s[i]
        BY <3>2, <2>1
      <4> QED
        BY <4>1, <3>2 DEF Elements
    <3> QED
      BY <3>1, <3>2, <2>2
  <2>4. {Head(s)} \cup Elements(Tail(s)) \subseteq Elements(s)
    BY <2>1 DEF Elements
  <2> QED
    BY <2>3, <2>4
<1> QED
  BY <1>1, <1>2, <1>3, <1>4

\* A sequence without repetitions stays one when a new element is appended.
LEMMA AppendDistinct ==
    ASSUME NEW S, NEW s \in Seq(S), NEW e \in S, IsInjective(s), e \notin Elements(s)
    PROVE  IsInjective(Append(s, e))
<1>1. /\ DOMAIN Append(s, e) = DOMAIN s \cup {Len(s) + 1}
      /\ \A i \in DOMAIN s : Append(s, e)[i] = s[i]
      /\ Append(s, e)[Len(s) + 1] = e
      /\ Len(s) + 1 \notin DOMAIN s
  OBVIOUS
<1>2. \A i \in DOMAIN s : s[i] # e
  BY DEF Elements
<1>3. ASSUME NEW i \in DOMAIN Append(s, e), NEW j \in DOMAIN Append(s, e),
             Append(s, e)[i] = Append(s, e)[j]
      PROVE  i = j
  <2>1. CASE i \in DOMAIN s /\ j \in DOMAIN s
    BY <1>1, <1>3, <2>1 DEF IsInjective
  <2>2. CASE i = Len(s) + 1 \/ j = Len(s) + 1
    BY <1>1, <1>2, <1>3, <2>2
  <2> QED
    BY <1>1, <2>1, <2>2
<1> QED
  BY <1>3, Zenon DEF IsInjective

\* A sequence without repetitions has as many elements as it is long.
LEMMA InjectiveCardinality ==
    ASSUME NEW S, NEW s \in Seq(S), IsInjective(s)
    PROVE  IsFiniteSet(Elements(s)) /\ Cardinality(Elements(s)) = Len(s)
<1>1. DOMAIN s = 1 .. Len(s) /\ Len(s) \in Nat
  OBVIOUS
<1>2. s \in Bijection(1 .. Len(s), Elements(s))
  BY <1>1 DEF Bijection, Injection, Surjection, IsInjective, Elements
<1>3. IsFiniteSet(1 .. Len(s)) /\ Cardinality(1 .. Len(s)) = Len(s)
  BY <1>1, FS_Interval
<1> QED
  BY <1>2, <1>3, FS_Bijection DEF ExistsBijection

\* A bulk without repetitions keeps all its entries when it is combined by xor.
LEMMA OddInjective ==
    ASSUME NEW S, NEW s \in Seq(S), IsInjective(s)
    PROVE  Odd(s) = Elements(s)
<1>1. ASSUME NEW j \in DOMAIN s
      PROVE  Cardinality({k \in DOMAIN s : s[k] = s[j]}) % 2 = 1
  <2>1. {k \in DOMAIN s : s[k] = s[j]} = {j}
    BY DEF IsInjective
  <2>2. Cardinality({j}) = 1
    BY FS_Singleton
  <2>3. 1 % 2 = 1
    OBVIOUS
  <2> QED
    BY <2>1, <2>2, <2>3, Zenon
<1> QED
  BY <1>1 DEF Odd, Elements

\* An entry that combining by xor drops was in the bulk more than once.
LEMMA DroppedRepeated ==
    ASSUME NEW S, NEW s \in Seq(S)
    PROVE  Elements(s) \subseteq Odd(s) \cup Repeated(s)
<1> SUFFICES ASSUME NEW j \in DOMAIN s, s[j] \notin Repeated(s)
             PROVE  s[j] \in Odd(s)
  BY DEF Elements
<1>1. {k \in DOMAIN s : s[k] = s[j]} = {j}
  BY DEF Repeated
<1>2. Cardinality({j}) = 1
  BY FS_Singleton
<1>3. 1 % 2 = 1
  OBVIOUS
<1> QED
  BY <1>1, <1>2, <1>3, Zenon DEF Odd

\* A sequence of at most one element has no repetitions.
LEMMA ShortDistinct ==
    ASSUME NEW S, NEW s \in Seq(S), Len(s) <= 1
    PROVE  IsInjective(s)
<1>1. DOMAIN s = 1 .. Len(s)
  OBVIOUS
<1> QED
  BY <1>1 DEF IsInjective

\* Combining a bulk by xor adds no entries.
LEMMA OddSubset ==
    ASSUME NEW s
    PROVE  Odd(s) \subseteq Elements(s)
BY DEF Odd, Elements

=============================================================================

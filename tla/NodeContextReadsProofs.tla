----------------------- MODULE NodeContextReadsProofs -----------------------
(***************************************************************************)
(* What is read from the stored nodes is what was written, for all key     *)
(* parts, depths, Hypertries and bulks: the walks of the read operations   *)
(* through the nodes are exact, and the context implements HypertrieSet.   *)
(***************************************************************************)
EXTENDS NodeContextProofs, NodeContextReads

-----------------------------------------------------------------------------
(* The walks.                                                              *)

\* The walks, with below for the walk at the depth below.
GetBody(below, d) ==
    [id \in RawIdentifiers(d) |-> [key \in Keys(d) |->
        IF empty(id) THEN FALSE
        ELSE IF d = 0 THEN TRUE
        ELSE IF is_sen(id) THEN key \in SenKeys(d, id)
        ELSE LET n == fns[d][id]
                 pos == min_card_pos(n, 1 .. d)
             IN  below[resolve(n, pos, key[pos])][subkey(key, pos)]]]

IteratedBody(below, d) ==
    [id \in RawIdentifiers(d) |->
        IF empty(id) THEN {}
        ELSE IF d = 0 THEN {<<>>}
        ELSE IF is_sen(id) THEN SenKeys(d, id)
        ELSE IF id \notin DOMAIN fns[d] THEN {}
        ELSE LET edges == fns[d][id].edges[d]
             IN  UNION {{Append(k, kp) : k \in below[edges[kp]]} : kp \in DOMAIN edges}]

RemainingHere(rest, d, id, es) ==
    LET pos == max_card_pos(fns[d][id], 1 .. d)
        edges == fns[d][id].edges[pos]
        below(kp) ==
            IF kp \in PartsAt(es, pos)
            THEN IF is_sen(edges[kp]) THEN {}
                 ELSE rest[edges[kp]][SubEntries(es, pos, kp)]
            ELSE IF d = 1 THEN {<<>>} ELSE SenKeys(d - 1, edges[kp])
    IN  UNION {{combine_res(d, pos, kp, k) : k \in below(kp)} : kp \in DOMAIN edges}

RemainingBody(rest, d) ==
    [id \in RawIdentifiers(d) |-> [es \in SUBSET Keys(d) |->
        IF d = 0 \/ id \notin DOMAIN fns[d] THEN {} ELSE RemainingHere(rest, d, id, es)]]

SliceBody(below, d) ==
    [id \in RawIdentifiers(d) |-> [fixed \in SliceKeys(d) |->
        IF empty(id) \/ DOMAIN fixed = {} THEN id
        ELSE IF is_sen(id)
        THEN RawIdentifier({Project(k, fixed) : k \in {x \in SenKeys(d, id) : Matches(x, fixed)}})
        ELSE LET n == fns[d][id]
                 pos == min_card_pos(n, DOMAIN fixed)
             IN  below[resolve(n, pos, fixed[pos])][Shift(fixed, pos)]]]

Walk(which, below, d) ==
    CASE which = "get" -> GetBody(below, d)
      [] which = "iterate" -> IteratedBody(below, d)
      [] which = "remaining" -> RemainingBody(below, d)
      [] which = "slice" -> SliceBody(below, d)

Walks == {"get", "iterate", "remaining", "slice"}

\* A walk is defined at every depth: at depth 0 it needs nothing from below.
LEMMA WalkExists ==
    ASSUME NEW which \in Walks
    PROVE  \E f : f = [d \in 0 .. MaxDepth |-> Walk(which, f[d - 1], d)]
<1> DEFINE T == {n \in 0 .. MaxDepth : \E f : f = [d \in 0 .. n |-> Walk(which, f[d - 1], d)]}
<1>1. \A x, y : Walk(which, x, 0) = Walk(which, y, 0)
  <2>1. \A x, y : GetBody(x, 0) = GetBody(y, 0)
    BY DEF GetBody
  <2>2. \A x, y : IteratedBody(x, 0) = IteratedBody(y, 0)
    BY DEF IteratedBody
  <2>3. \A x, y : RemainingBody(x, 0) = RemainingBody(y, 0)
    BY DEF RemainingBody
  <2>4. \A x, y : SliceBody(x, 0) = SliceBody(y, 0)
    <3>1. ASSUME NEW fixed \in SliceKeys(0) PROVE DOMAIN fixed = {}
      <4>1. PICK positions \in SUBSET (1 .. 0) : fixed \in [positions -> KeyParts]
        BY DEF SliceKeys
      <4> QED
        BY <4>1
    <3> QED
      BY <3>1 DEF SliceBody
  <2> QED
    BY <2>1, <2>2, <2>3, <2>4 DEF Walk
<1>2. 0 \in T
  <2> DEFINE f == [d \in 0 .. 0 |-> Walk(which, {}, 0)]
  <2>1. f = [d \in 0 .. 0 |-> Walk(which, f[d - 1], d)]
    BY <1>1
  <2> QED
    BY <2>1, MaxDepthAssumption
<1>3. ASSUME NEW d \in Depths, d - 1 \in T PROVE d \in T
  <2>1. PICK f : f = [e \in 0 .. (d - 1) |-> Walk(which, f[e - 1], e)]
    BY <1>3
  <2> DEFINE g == [e \in 0 .. d |-> IF e = d THEN Walk(which, f[d - 1], d) ELSE f[e]]
  <2>2. d \in Nat \ {0} /\ d \in 0 .. MaxDepth
    BY MaxDepthAssumption DEF Depths
  <2>3. ASSUME NEW e \in 0 .. d PROVE g[e] = Walk(which, g[e - 1], e)
    <3>1. CASE e = 0
      <4>1. g[e] = Walk(which, f[e - 1], e)
        BY <2>1, <2>2, <3>1
      <4> QED
        BY <1>1, <3>1, <4>1
    <3>2. CASE e # 0 /\ e # d
      <4>1. e - 1 \in 0 .. d /\ e - 1 # d /\ e \in 0 .. (d - 1)
        BY <2>2, <3>2
      <4>2. g[e] = f[e] /\ g[e - 1] = f[e - 1]
        BY <3>2, <4>1
      <4>3. f[e] = Walk(which, f[e - 1], e)
        BY <2>1, <4>1
      <4> QED
        BY <4>2, <4>3
    <3>3. CASE e = d
      <4>1. d - 1 \in 0 .. d /\ d - 1 # d
        BY <2>2
      <4>2. g[e] = Walk(which, f[d - 1], d) /\ g[e - 1] = f[d - 1]
        BY <3>3, <4>1
      <4> QED
        BY <3>3, <4>2
    <3> QED
      BY <3>1, <3>2, <3>3
  <2>4. g = [e \in 0 .. d |-> g[e]]
    OBVIOUS
  <2> HIDE DEF g
  <2>5. g = [e \in 0 .. d |-> Walk(which, g[e - 1], e)]
    BY <2>3, <2>4
  <2> QED
    BY <2>2, <2>5
<1>4. MaxDepth \in T
  <2>1. Inductive(T)
    BY <1>2, <1>3 DEF Inductive
  <2> HIDE DEF T
  <2> QED
    BY <2>1, DepthInduction, MaxDepthAssumption
<1> QED
  BY <1>4

LEMMA GetEquation ==
    \A d \in 0 .. MaxDepth : Get[d] = GetBody(Get[d - 1], d)
<1>1. \E f : f = [d \in 0 .. MaxDepth |-> GetBody(f[d - 1], d)]
  BY WalkExists DEF Walk, Walks
<1>2. Get = [d \in 0 .. MaxDepth |-> GetBody(Get[d - 1], d)]
  BY <1>1 DEF Get, GetBody
<1> QED
  BY <1>2

LEMMA IteratedEquation ==
    \A d \in 0 .. MaxDepth : Iterated[d] = IteratedBody(Iterated[d - 1], d)
<1>1. \E f : f = [d \in 0 .. MaxDepth |-> IteratedBody(f[d - 1], d)]
  BY WalkExists DEF Walk, Walks
<1>2. Iterated = [d \in 0 .. MaxDepth |-> IteratedBody(Iterated[d - 1], d)]
  BY <1>1 DEF Iterated, IteratedBody
<1> QED
  BY <1>2

LEMMA RemainingEquation ==
    \A d \in 0 .. MaxDepth : Remaining[d] = RemainingBody(Remaining[d - 1], d)
<1>1. \E f : f = [d \in 0 .. MaxDepth |-> RemainingBody(f[d - 1], d)]
  BY WalkExists DEF Walk, Walks
<1>2. Remaining = [d \in 0 .. MaxDepth |-> RemainingBody(Remaining[d - 1], d)]
  BY <1>1 DEF Remaining, RemainingBody, RemainingHere
<1> QED
  BY <1>2

LEMMA SliceEquation ==
    \A d \in 0 .. MaxDepth : Slice[d] = SliceBody(Slice[d - 1], d)
<1>1. \E f : f = [d \in 0 .. MaxDepth |-> SliceBody(f[d - 1], d)]
  BY WalkExists DEF Walk, Walks
<1>2. Slice = [d \in 0 .. MaxDepth |-> SliceBody(Slice[d - 1], d)]
  BY <1>1 DEF Slice, SliceBody
<1> QED
  BY <1>2

-----------------------------------------------------------------------------
(* What can be read.                                                       *)

\* The nodes N, given per depth, are stored, and so are those below them.
Kept(N) ==
    /\ \A d \in Depths : N[d] \subseteq DOMAIN fns[d] \cup DOMAIN sens[d]
    /\ \A d \in Depths \ {1} : \A id \in N[d] \cap DOMAIN fns[d] : \A pos \in 1 .. d :
         \A kp \in DOMAIN fns[d][id].edges[pos] :
            Counted(d - 1, fns[d][id].edges[pos][kp]) => fns[d][id].edges[pos][kp] \in N[d - 1]

\* A node that a walk through N may come to.
Readable(N, d, id) ==
    /\ id \in RawIdentifiers(d) /\ Canonical(id)
    /\ d # 0 /\ Counted(d, id) => id \in N[d]

\* The empty node, and the node at depth 0, are never stored.
LEMMA DepthZero ==
    ASSUME NEW id \in RawIdentifiers(0), Canonical(id)
    PROVE  /\ Keys(0) = {<<>>}
           /\ id.es = IF empty(id) THEN {} ELSE {<<>>}
           /\ ~is_fn(id)
<1>1. Keys(0) = {<<>>}
  BY KeysAtZero
<1>2. id.es \in SUBSET {<<>>}
  BY <1>1, IdentifierTypes
<1>3. id.es = {} \/ id.es = {<<>>}
  BY <1>2
<1>4. Cardinality({<<>>}) = 1
  BY FS_Singleton
<1>5. CASE id.es = {}
  <2>1. id = NoId
    BY <1>5 DEF Canonical, RawIdentifier
  <2> QED
    BY <1>1, <1>5, <2>1 DEF empty, is_fn
<1>6. CASE id.es = {<<>>}
  <2>1. id = [tag |-> "sen", es |-> id.es] /\ id.tag = "sen"
    BY <1>4, <1>6 DEF Canonical, RawIdentifier
  <2> QED
    BY <1>1, <1>6, <2>1 DEF empty, is_fn, NoId
<1> QED
  BY <1>3, <1>5, <1>6

\* A full node can be read, and it has the canonical edges.
LEMMA ReadFullNode ==
    ASSUME TypeOK, NodesCanonical, NEW N, Kept(N), NEW d \in Depths, NEW id, Readable(N, d, id), is_fn(id)
    PROVE  /\ id \in DOMAIN fns[d] /\ id.es \in SUBSET Keys(d)
           /\ fns[d][id].edges = CanonicalEdges(d, id.es)
           /\ \A pos \in 1 .. d :
                /\ DOMAIN fns[d][id].edges[pos] = PartsAt(id.es, pos)
                /\ \A kp \in PartsAt(id.es, pos) :
                     /\ fns[d][id].edges[pos][kp] = RawIdentifier(SubEntries(id.es, pos, kp))
                     /\ Readable(N, d - 1, RawIdentifier(SubEntries(id.es, pos, kp)))
<1>0. d \in 0 .. MaxDepth /\ d \in Nat \ {0} /\ (d # 1 => d - 1 \in Depths) /\ d - 1 \in 0 .. MaxDepth
  BY MaxDepthAssumption DEF Depths
<1>1. id \in RawIdentifiers(d) /\ Canonical(id) /\ id.es \in SUBSET Keys(d) /\ Counted(d, id) /\ id \in N[d]
  <2>1. id \in RawIdentifiers(d) /\ Canonical(id) /\ (Counted(d, id) => id \in N[d])
    BY <1>0 DEF Readable
  <2>2. Counted(d, id)
    BY DEF is_fn, Counted, in_place, is_sen
  <2> QED
    BY <2>1, <2>2, IdentifierTypes
<1>2. id \in DOMAIN fns[d]
  <2>1. id \in DOMAIN sens[d] => Cardinality(id.es) = 1 /\ id = RawIdentifier(id.es)
    BY DEF NodesCanonical
  <2>2. id \notin DOMAIN sens[d]
    BY <1>0, <1>1, <2>1, RawIdentifierFacts DEF is_fn, is_sen
  <2> QED
    BY <1>1, <2>2 DEF Kept
<1>3. fns[d][id].edges = CanonicalEdges(d, id.es)
  BY <1>2 DEF NodesCanonical
<1>4. ASSUME NEW pos \in 1 .. d
      PROVE  /\ DOMAIN fns[d][id].edges[pos] = PartsAt(id.es, pos)
             /\ \A kp \in PartsAt(id.es, pos) :
                  /\ fns[d][id].edges[pos][kp] = RawIdentifier(SubEntries(id.es, pos, kp))
                  /\ Readable(N, d - 1, RawIdentifier(SubEntries(id.es, pos, kp)))
  <2>1. /\ DOMAIN fns[d][id].edges[pos] = PartsAt(id.es, pos)
        /\ \A kp \in PartsAt(id.es, pos) : fns[d][id].edges[pos][kp] = RawIdentifier(SubEntries(id.es, pos, kp))
    BY <1>3 DEF CanonicalEdges
  <2>2. ASSUME NEW kp \in PartsAt(id.es, pos)
        PROVE  Readable(N, d - 1, RawIdentifier(SubEntries(id.es, pos, kp)))
    <3> DEFINE c == RawIdentifier(SubEntries(id.es, pos, kp))
    <3>1. SubEntries(id.es, pos, kp) \in SUBSET Keys(d - 1)
      BY <1>1, SubEntriesType
    <3>2. c \in RawIdentifiers(d - 1) /\ Canonical(c)
      BY <1>0, <3>1, IdentifierTypes, RawIdentifierFacts
    <3>3. d # 1 /\ Counted(d - 1, c) => c \in N[d - 1]
      BY <1>1, <1>2, <2>1 DEF Kept
    <3> HIDE DEF c
    <3>4. Readable(N, d - 1, c)
      BY <1>0, <3>2, <3>3 DEF Readable
    <3> QED
      BY <3>4 DEF c
  <2> QED
    BY <2>1, <2>2
<1> QED
  BY <1>1, <1>2, <1>3, <1>4

\* A single entry can be read.
LEMMA ReadSingleEntry ==
    ASSUME TypeOK, NodesCanonical, NEW N, Kept(N), NEW d \in Depths, NEW id, Readable(N, d, id), is_sen(id)
    PROVE  SenKeys(d, id) = id.es
<1>0. d \in 0 .. MaxDepth /\ d \in Nat \ {0}
  BY MaxDepthAssumption DEF Depths
<1>1. id \in RawIdentifiers(d) /\ id.es \in SUBSET Keys(d) /\ (~in_place(d, id) => id \in N[d])
  BY <1>0, IdentifierTypes DEF Readable, Counted, is_sen
<1>2. id \in DOMAIN fns[d] => Cardinality(id.es) > 1 /\ id = RawIdentifier(id.es)
  BY DEF NodesCanonical
<1>3. id \notin DOMAIN fns[d]
  BY <1>0, <1>1, <1>2, RawIdentifierFacts DEF is_fn, is_sen
<1>4. ~in_place(d, id) => id \in DOMAIN sens[d]
  BY <1>1, <1>3 DEF Kept
<1>5. id \in DOMAIN sens[d] => sens[d][id].entries = id.es
  BY DEF NodesCanonical
<1> QED
  BY <1>4, <1>5 DEF SenKeys

\* A key is made again from its part at a position and the rest.
LEMMA CombineSubkey ==
    ASSUME NEW d \in Depths, NEW k \in Keys(d), NEW pos \in 1 .. d
    PROVE  combine_res(d, pos, k[pos], subkey(k, pos)) = k
<1>1. d \in Nat
  BY DEF Depths
<1>2. subkey(k, pos) = [i \in 1 .. (d - 1) |-> IF i < pos THEN k[i] ELSE k[i + 1]]
  BY SubkeyType
<1>3. k = [i \in 1 .. d |-> k[i]]
  BY DEF Keys
<1>4. ASSUME NEW i \in 1 .. d
      PROVE  (IF i < pos THEN subkey(k, pos)[i] ELSE IF i = pos THEN k[pos] ELSE subkey(k, pos)[i - 1]) = k[i]
  <2>1. CASE i < pos
    <3>1. i \in 1 .. (d - 1)
      BY <1>1, <2>1
    <3> QED
      BY <1>2, <2>1, <3>1
  <2>2. CASE i > pos
    <3>1. i - 1 \in 1 .. (d - 1) /\ ~(i - 1 < pos) /\ (i - 1) + 1 = i
      BY <1>1, <2>2
    <3>2. subkey(k, pos)[i - 1] = k[i]
      BY <1>2, <3>1
    <3> QED
      BY <2>2, <3>2
  <2> QED
    BY <1>1, <2>1, <2>2
<1> QED
  BY <1>3, <1>4 DEF combine_res

LEMMA AppendSubkey ==
    ASSUME NEW d \in Depths, NEW k \in Keys(d)
    PROVE  Append(subkey(k, d), k[d]) = k
<1>1. d \in Nat \ {0} /\ d \in 1 .. d
  BY MaxDepthAssumption DEF Depths
<1>2. subkey(k, d) = [i \in 1 .. (d - 1) |-> IF i < d THEN k[i] ELSE k[i + 1]] /\ subkey(k, d) \in Keys(d - 1)
  BY <1>1, SubkeyType
<1>3. subkey(k, d) \in Seq(KeyParts) /\ Len(subkey(k, d)) = d - 1 /\ k[d] \in KeyParts
  BY <1>1, <1>2 DEF Keys
<1>4. /\ Append(subkey(k, d), k[d]) \in Seq(KeyParts) /\ Len(Append(subkey(k, d), k[d])) = d
      /\ \A i \in 1 .. (d - 1) : Append(subkey(k, d), k[d])[i] = k[i]
      /\ Append(subkey(k, d), k[d])[d] = k[d]
  <2>1. \A i \in 1 .. (d - 1) : subkey(k, d)[i] = k[i]
    BY <1>1, <1>2
  <2> QED
    BY <1>1, <1>3, <2>1, AppendProperties
<1>5. k \in Seq(KeyParts) /\ Len(k) = d
  BY <1>1 DEF Keys
<1>6. \A i \in 1 .. d : Append(subkey(k, d), k[d])[i] = k[i]
  BY <1>1, <1>4
<1> QED
  BY <1>4, <1>5, <1>6, SeqEqual

-----------------------------------------------------------------------------
(* The iterator.                                                           *)

\* An iterator that walks through intact nodes yields the entries of the node
\* it starts from.
LEMMA IteratedExact ==
    ASSUME TypeOK, NodesCanonical, NEW N, Kept(N)
    PROVE  \A d \in 0 .. MaxDepth : \A id : Readable(N, d, id) => Iterated[d][id] = id.es
<1> DEFINE T == {d \in 0 .. MaxDepth : \A id : Readable(N, d, id) => Iterated[d][id] = id.es}
<1>1. 0 \in T
  <2>1. ASSUME NEW id, Readable(N, 0, id) PROVE Iterated[0][id] = id.es
    <3>1. id \in RawIdentifiers(0) /\ Canonical(id)
      BY <2>1 DEF Readable
    <3>2. Iterated[0] = IteratedBody(Iterated[0 - 1], 0)
      BY IteratedEquation, MaxDepthAssumption
    <3>3. Iterated[0][id] = IF empty(id) THEN {} ELSE {<<>>}
      BY <3>1, <3>2 DEF IteratedBody
    <3> QED
      BY <3>1, <3>3, DepthZero
  <2> QED
    BY <2>1, MaxDepthAssumption
<1>2. ASSUME NEW d \in Depths, d - 1 \in T PROVE d \in T
  <2>0. d \in 0 .. MaxDepth /\ d # 0 /\ d \in 1 .. d
    BY MaxDepthAssumption DEF Depths
  <2>1. ASSUME NEW id, Readable(N, d, id) PROVE Iterated[d][id] = id.es
    <3>1. id \in RawIdentifiers(d)
      BY <2>1 DEF Readable
    <3>2. Iterated[d] = IteratedBody(Iterated[d - 1], d)
      BY <2>0, IteratedEquation
    <3>3. CASE empty(id)
      <4>1. Iterated[d][id] = {}
        BY <3>1, <3>2, <3>3 DEF IteratedBody
      <4> QED
        BY <3>3, <4>1 DEF empty, NoId
    <3>4. CASE is_sen(id)
      <4>1. Iterated[d][id] = SenKeys(d, id)
        BY <2>0, <3>1, <3>2, <3>4 DEF IteratedBody, is_sen
      <4> QED
        BY <2>1, <3>4, <4>1, ReadSingleEntry
    <3>5. CASE is_fn(id)
      <4> DEFINE edges == fns[d][id].edges[d]
      <4>1. /\ id \in DOMAIN fns[d] /\ id.es \in SUBSET Keys(d)
            /\ DOMAIN edges = PartsAt(id.es, d)
            /\ \A kp \in PartsAt(id.es, d) :
                 /\ edges[kp] = RawIdentifier(SubEntries(id.es, d, kp))
                 /\ Readable(N, d - 1, RawIdentifier(SubEntries(id.es, d, kp)))
        BY <2>0, <2>1, <3>5, ReadFullNode
      <4>2. Iterated[d][id] = UNION {{Append(k, kp) : k \in Iterated[d - 1][edges[kp]]} : kp \in DOMAIN edges}
        BY <2>0, <3>1, <3>2, <3>5, <4>1 DEF IteratedBody, is_fn, is_sen
      <4>3. ASSUME NEW kp \in DOMAIN edges PROVE Iterated[d - 1][edges[kp]] = SubEntries(id.es, d, kp)
        <5>1. Iterated[d - 1][edges[kp]] = edges[kp].es
          BY <1>2, <4>1
        <5>2. SubEntries(id.es, d, kp) \in SUBSET Keys(d - 1) /\ d - 1 \in 0 .. MaxDepth
          BY <2>0, <4>1, SubEntriesType, MaxDepthAssumption
        <5>3. RawIdentifier(SubEntries(id.es, d, kp)).es = SubEntries(id.es, d, kp)
          BY <5>2, RawIdentifierFacts
        <5> QED
          BY <4>1, <5>1, <5>3
      <4> HIDE DEF edges
      <4>4. Iterated[d][id] = UNION {{Append(k, kp) : k \in SubEntries(id.es, d, kp)} : kp \in PartsAt(id.es, d)}
        BY <4>1, <4>2, <4>3
      <4>5. \A e \in id.es : Append(subkey(e, d), e[d]) = e
        BY <4>1, AppendSubkey
      <4>6. Iterated[d][id] \subseteq id.es
        <5> SUFFICES ASSUME NEW x \in Iterated[d][id] PROVE x \in id.es
          OBVIOUS
        <5>1. PICK kp \in PartsAt(id.es, d) : x \in {Append(k, kp) : k \in SubEntries(id.es, d, kp)}
          BY <4>4
        <5>2. PICK k \in SubEntries(id.es, d, kp) : x = Append(k, kp)
          BY <5>1
        <5>3. PICK e \in id.es : e[d] = kp /\ k = subkey(e, d)
          BY <5>2 DEF SubEntries
        <5> QED
          BY <4>5, <5>2, <5>3
      <4>7. id.es \subseteq Iterated[d][id]
        <5> SUFFICES ASSUME NEW e \in id.es PROVE e \in Iterated[d][id]
          OBVIOUS
        <5>1. e[d] \in PartsAt(id.es, d) /\ subkey(e, d) \in SubEntries(id.es, d, e[d])
          BY DEF PartsAt, SubEntries
        <5>2. e \in {Append(k, e[d]) : k \in SubEntries(id.es, d, e[d])}
          BY <4>5, <5>1
        <5> QED
          BY <4>4, <5>1, <5>2
      <4> QED
        BY <4>6, <4>7
    <3> QED
      BY <3>3, <3>4, <3>5, <3>1 DEF is_fn, is_sen, RawIdentifiers, Tags
  <2> QED
    BY <2>0, <2>1
<1>3. Inductive(T)
  BY <1>1, <1>2 DEF Inductive
<1>4. \A d \in 0 .. MaxDepth : d \in T
  <2> HIDE DEF T
  <2> QED
    BY <1>3, DepthInduction
<1> QED
  BY <1>4

-----------------------------------------------------------------------------
(* What the other Hypertries need stays stored.                            *)

\* The nodes of depth d that the full nodes P, of depth d + 1, lead to.
ChildrenOf(d, P) ==
    {c \in RawIdentifiers(d) : Counted(d, c) /\
        \E p \in P : /\ is_fn(p)
                     /\ \E pos \in 1 .. (d + 1) : \E kp \in PartsAt(p.es, pos) :
                          c = RawIdentifier(SubEntries(p.es, pos, kp))}

\* The nodes R, given per depth, and those below them.
NeededBody(R, above, d) == R[d] \cup (IF d = MaxDepth THEN {} ELSE ChildrenOf(d, above))

Below(R) ==
    LET needed[d \in Depths] == NeededBody(R, needed[d + 1], d)
    IN  needed

\* The Hypertries that no operation is changing.
Untouched == {h \in Handles : ~Idle => h # op.handle}

Roots ==
    [d \in Depths |->
        {id \in RawIdentifiers(d) : Counted(d, id) /\ \E h \in Untouched : HandleDepth[h] = d /\ nodec[h] = id}]

Needed == Below(Roots)

\* Also in the middle of an update every node that a Hypertrie leads to is
\* stored, unless the update is about that Hypertrie.
KeptInv == \A d \in Depths : Needed[d] \subseteq DOMAIN fns[d] \cup DOMAIN sens[d]

\* The node that an update is to leave has the entries that were asked for.
TargetInv ==
    ~Idle => /\ op.kind = "insert" => op.target.es = nodec[op.handle].es \cup op.entries
             /\ op.kind = "remove" => op.target.es = nodec[op.handle].es \ op.entries
             /\ op.kind = "destroy" => op.target.es = {} /\ op.entries = {}

LEMMA BelowEquation ==
    ASSUME NEW R
    PROVE  \A d \in Depths : Below(R)[d] = NeededBody(R, Below(R)[d + 1], d)
<1> DEFINE T == {n \in 0 .. MaxDepth :
                   \E f : f = [d \in (MaxDepth + 1 - n) .. MaxDepth |-> NeededBody(R, f[d + 1], d)]}
<1>1. 0 \in T
  <2> DEFINE f == [d \in (MaxDepth + 1 - 0) .. MaxDepth |-> NeededBody(R, {}, d)]
  <2>1. \A d : d \notin (MaxDepth + 1 - 0) .. MaxDepth
    BY MaxDepthAssumption
  <2>2. f = [d \in (MaxDepth + 1 - 0) .. MaxDepth |-> NeededBody(R, f[d + 1], d)]
    BY <2>1
  <2> HIDE DEF f
  <2> QED
    BY <2>2, MaxDepthAssumption
<1>2. ASSUME NEW n \in Depths, n - 1 \in T PROVE n \in T
  <2> DEFINE m == MaxDepth + 1 - n
  <2>0. n \in 0 .. MaxDepth /\ m \in Nat /\ MaxDepth \in Nat /\ m <= MaxDepth /\ MaxDepth + 1 - (n - 1) = m + 1
    BY MaxDepthAssumption DEF Depths
  <2> HIDE DEF m
  <2>1. PICK f : f = [d \in (m + 1) .. MaxDepth |-> NeededBody(R, f[d + 1], d)]
    <3>1. \E f : f = [d \in (MaxDepth + 1 - (n - 1)) .. MaxDepth |-> NeededBody(R, f[d + 1], d)]
      BY <1>2
    <3> QED
      BY <2>0, <3>1
  <2> DEFINE g == [d \in m .. MaxDepth |-> IF d = m THEN NeededBody(R, f[m + 1], m) ELSE f[d]]
  <2>2. ASSUME NEW d \in m .. MaxDepth PROVE g[d] = NeededBody(R, g[d + 1], d)
    <3>1. CASE d = MaxDepth
      <4>1. \A x, y : NeededBody(R, x, d) = NeededBody(R, y, d)
        BY <3>1 DEF NeededBody
      <4>2. d # m => d \in (m + 1) .. MaxDepth
        BY <2>0
      <4>3. d # m => f[d] = NeededBody(R, f[d + 1], d)
        BY <2>1, <4>2
      <4>4. g[d] = NeededBody(R, f[d + 1], d)
        BY <4>3
      <4> HIDE DEF g
      <4> QED
        BY <4>1, <4>4
    <3>2. CASE d # MaxDepth
      <4>1. d + 1 \in m .. MaxDepth /\ d + 1 # m /\ d + 1 \in (m + 1) .. MaxDepth
        BY <2>0, <3>2
      <4>2. g[d + 1] = f[d + 1]
        BY <4>1
      <4>3. d # m => d \in (m + 1) .. MaxDepth
        BY <2>0
      <4>4. d # m => f[d] = NeededBody(R, f[d + 1], d)
        BY <2>1, <4>3
      <4>5. g[d] = NeededBody(R, f[d + 1], d)
        BY <4>4
      <4> HIDE DEF g
      <4> QED
        BY <4>2, <4>5
    <3> QED
      BY <3>1, <3>2
  <2>3. g = [d \in m .. MaxDepth |-> g[d]]
    OBVIOUS
  <2> HIDE DEF g
  <2>4. g = [d \in m .. MaxDepth |-> NeededBody(R, g[d + 1], d)]
    BY <2>2, <2>3
  <2> QED
    BY <2>0, <2>4 DEF m
<1>3. MaxDepth \in T
  <2>1. Inductive(T)
    BY <1>1, <1>2 DEF Inductive
  <2> HIDE DEF T
  <2> QED
    BY <2>1, DepthInduction, MaxDepthAssumption
<1>4. \E f : f = [d \in Depths |-> NeededBody(R, f[d + 1], d)]
  <2>1. (MaxDepth + 1 - MaxDepth) .. MaxDepth = Depths
    BY MaxDepthAssumption DEF Depths
  <2> QED
    BY <1>3, <2>1
<1> DEFINE B == Below(R)
<1>5. B = [d \in Depths |-> NeededBody(R, B[d + 1], d)]
  BY <1>4 DEF Below
<1> HIDE DEF B
<1>6. \A d \in Depths : B[d] = NeededBody(R, B[d + 1], d)
  BY <1>5
<1> QED
  BY <1>6 DEF B

\* What is needed: the nodes of the Hypertries, and the children of what is
\* needed.
LEMMA NeededIs ==
    ASSUME NEW d \in Depths
    PROVE  Needed[d] = Roots[d] \cup (IF d = MaxDepth THEN {} ELSE ChildrenOf(d, Needed[d + 1]))
BY BelowEquation DEF Needed, NeededBody

\* A storage that has all children of its nodes, and the nodes of the
\* Hypertries, has all that is needed.
LEMMA NeededStored ==
    ASSUME TypeOK, NodesCanonical,
           \A d \in Depths : Roots[d] \subseteq DOMAIN fns[d] \cup DOMAIN sens[d],
           \A d \in Depths \ {1} : \A id \in DOMAIN fns[d] : \A pos \in 1 .. d :
             \A kp \in DOMAIN fns[d][id].edges[pos] :
                Counted(d - 1, fns[d][id].edges[pos][kp])
                => fns[d][id].edges[pos][kp] \in DOMAIN fns[d - 1] \cup DOMAIN sens[d - 1]
    PROVE  KeptInv
<1> DEFINE S(d) == DOMAIN fns[d] \cup DOMAIN sens[d]
           T == {n \in 0 .. MaxDepth : n # 0 => Needed[MaxDepth + 1 - n] \subseteq S(MaxDepth + 1 - n)}
<1>1. 0 \in T
  BY MaxDepthAssumption
<1>2. ASSUME NEW n \in Depths, n - 1 \in T PROVE n \in T
  <2> DEFINE d == MaxDepth + 1 - n
  <2>0. d \in Depths /\ n \in 0 .. MaxDepth /\ n # 0
    BY MaxDepthAssumption DEF Depths
  <2>1. Roots[d] \subseteq S(d)
    BY <2>0
  <2>2. CASE d = MaxDepth
    <3>1. Needed[d] \subseteq S(d)
      BY <2>0, <2>1, <2>2, NeededIs
    <3> QED
      BY <2>0, <3>1
  <2>3. CASE d # MaxDepth
    <3>1. d + 1 \in Depths \ {1} /\ d + 1 = MaxDepth + 1 - (n - 1) /\ n - 1 # 0 /\ (d + 1) - 1 = d
      BY <2>0, <2>3, MaxDepthAssumption DEF Depths
    <3> HIDE DEF d
    <3>2. Needed[d + 1] \subseteq S(d + 1)
      BY <1>2, <3>1
    <3>3. ASSUME NEW c \in ChildrenOf(d, Needed[d + 1]) PROVE c \in S(d)
      <4>1. PICK p \in Needed[d + 1] : is_fn(p) /\ \E pos \in 1 .. (d + 1) : \E kp \in PartsAt(p.es, pos) :
                                                     c = RawIdentifier(SubEntries(p.es, pos, kp))
        BY <3>3 DEF ChildrenOf
      <4>2. p \in DOMAIN fns[d + 1]
        <5>1. p \notin DOMAIN sens[d + 1]
          <6>1. p \in DOMAIN sens[d + 1] => Cardinality(p.es) = 1 /\ p = RawIdentifier(p.es) /\ p \in RawIdentifiers(d + 1)
            BY <3>1 DEF NodesCanonical, TypeOK, StorageOK, IsMap
          <6>2. d + 1 \in 0 .. MaxDepth
            BY <3>1 DEF Depths
          <6> QED
            BY <4>1, <6>1, <6>2, RawIdentifierFacts, IdentifierTypes DEF is_fn, is_sen
        <5> QED
          BY <3>2, <5>1
      <4>3. PICK pos \in 1 .. (d + 1) : \E kp \in PartsAt(p.es, pos) : c = RawIdentifier(SubEntries(p.es, pos, kp))
        BY <4>1
      <4>4. PICK kp \in PartsAt(p.es, pos) : c = RawIdentifier(SubEntries(p.es, pos, kp))
        BY <4>3
      <4>5. kp \in DOMAIN fns[d + 1][p].edges[pos] /\ fns[d + 1][p].edges[pos][kp] = c
        <5>1. fns[d + 1][p].edges = CanonicalEdges(d + 1, p.es)
          BY <3>1, <4>2 DEF NodesCanonical
        <5> QED
          BY <4>4, <5>1 DEF CanonicalEdges
      <4>6. Counted(d, c)
        BY <3>3 DEF ChildrenOf
      <4> QED
        BY <3>1, <4>2, <4>5, <4>6
    <3>4. Needed[d] \subseteq S(d)
      BY <2>0, <2>1, <3>3, NeededIs
    <3> QED
      BY <2>0, <3>4 DEF d
  <2> QED
    BY <2>2, <2>3
<1>3. Inductive(T)
  BY <1>1, <1>2 DEF Inductive
<1>4. \A n \in 0 .. MaxDepth : n \in T
  <2> HIDE DEF T
  <2> QED
    BY <1>3, DepthInduction
<1>5. ASSUME NEW d \in Depths PROVE Needed[d] \subseteq S(d)
  <2> DEFINE n == MaxDepth + 1 - d
  <2>1. n \in 0 .. MaxDepth /\ n # 0 /\ MaxDepth + 1 - n = d
    BY MaxDepthAssumption DEF Depths
  <2> HIDE DEF n
  <2>2. n # 0 => Needed[MaxDepth + 1 - n] \subseteq S(MaxDepth + 1 - n)
    BY <1>4, <2>1
  <2> QED
    BY <2>1, <2>2
<1> QED
  BY <1>5 DEF KeptInv

\* Between operations all that is needed is stored.
LEMMA StorageReaches ==
    ASSUME TypeOK, CanonicalInv, CountInv, Idle
    PROVE  /\ \A h \in Handles : Counted(HandleDepth[h], nodec[h])
                => nodec[h] \in DOMAIN fns[HandleDepth[h]] \cup DOMAIN sens[HandleDepth[h]]
           /\ \A d \in Depths \ {1} : \A id \in DOMAIN fns[d] : \A pos \in 1 .. d :
                \A kp \in DOMAIN fns[d][id].edges[pos] :
                   Counted(d - 1, fns[d][id].edges[pos][kp])
                   => fns[d][id].edges[pos][kp] \in DOMAIN fns[d - 1] \cup DOMAIN sens[d - 1]
<1>1. NoDangling
  BY CountsReach
<1>2. \A d \in Depths : DOMAIN StoredRefs(d) = DOMAIN fns[d] \cup DOMAIN sens[d]
  BY StoredRefsAre
<1>3. ASSUME NEW h \in Handles, Counted(HandleDepth[h], nodec[h])
      PROVE  nodec[h] \in DOMAIN fns[HandleDepth[h]] \cup DOMAIN sens[HandleDepth[h]]
  <2>1. HandleDepth[h] \in Depths
    BY HandleAssumption
  <2>2. nodec[h] \in DOMAIN StoredRefs(HandleDepth[h])
    BY <1>1, <1>3 DEF NoDangling
  <2> QED
    BY <1>2, <2>1, <2>2
<1>4. ASSUME NEW d \in Depths \ {1}, NEW id \in DOMAIN fns[d], NEW pos \in 1 .. d,
             NEW kp \in DOMAIN fns[d][id].edges[pos], Counted(d - 1, fns[d][id].edges[pos][kp])
      PROVE  fns[d][id].edges[pos][kp] \in DOMAIN fns[d - 1] \cup DOMAIN sens[d - 1]
  <2>1. d - 1 \in Depths
    BY MaxDepthAssumption DEF Depths
  <2>2. fns[d][id].edges[pos][kp] \in DOMAIN StoredRefs(d - 1)
    BY <1>1, <1>4 DEF NoDangling
  <2> QED
    BY <1>2, <2>1, <2>2
<1> QED
  BY <1>3, <1>4

LEMMA KeptIdle ==
    ASSUME TypeOK, CanonicalInv, CountInv, Idle
    PROVE  KeptInv
<1>1. \A d \in Depths : Roots[d] \subseteq DOMAIN fns[d] \cup DOMAIN sens[d]
  <2> SUFFICES ASSUME NEW d \in Depths, NEW id \in Roots[d] PROVE id \in DOMAIN fns[d] \cup DOMAIN sens[d]
    OBVIOUS
  <2>1. PICK h \in Handles : HandleDepth[h] = d /\ nodec[h] = id /\ Counted(d, id)
    BY DEF Roots, Untouched
  <2> QED
    BY <2>1, StorageReaches
<1> QED
  BY <1>1, StorageReaches, NeededStored DEF CanonicalInv

\* What is needed is referred to, also when the operation has returned.
LEMMA NeededPlanned ==
    ASSUME TypeOK, CanonicalInv, CountInv, KeptInv, NEW d \in Depths, NEW id \in Needed[d]
    PROVE  /\ id \in RawIdentifiers(d) /\ Counted(d, id) /\ Canonical(id)
           /\ Planned(d, id) >= 1
<1>0. LiveInv /\ NodesCanonical
  BY DEF CountInv, CanonicalInv
<1>1. /\ id \in RawIdentifiers(d) /\ Counted(d, id) /\ Canonical(id)
      /\ Holders(d, id) # {} \/ ParentEdges(d, id) # {}
  <2>1. CASE id \in Roots[d]
    <3>1. PICK h \in Untouched : HandleDepth[h] = d /\ nodec[h] = id
      BY <2>1 DEF Roots
    <3>2. id \in RawIdentifiers(d) /\ Counted(d, id)
      BY <2>1 DEF Roots
    <3>3. h \in Holders(d, id)
      BY <3>1 DEF Holders, Held, Untouched
    <3>4. Canonical(id)
      BY <3>1 DEF CanonicalInv, Untouched
    <3> QED
      BY <3>2, <3>3, <3>4
  <2>2. CASE id \notin Roots[d]
    <3>1. d # MaxDepth /\ id \in ChildrenOf(d, Needed[d + 1])
      BY <2>2, NeededIs
    <3>2. d + 1 \in Depths /\ d + 1 \in 0 .. MaxDepth /\ d \in 0 .. MaxDepth /\ (d + 1) - 1 = d
      BY <3>1, MaxDepthAssumption DEF Depths
    <3>3. PICK p \in Needed[d + 1] : is_fn(p) /\ \E pos \in 1 .. (d + 1) : \E kp \in PartsAt(p.es, pos) :
                                                   id = RawIdentifier(SubEntries(p.es, pos, kp))
      BY <3>1 DEF ChildrenOf
    <3>4. PICK pos \in 1 .. (d + 1) : \E kp \in PartsAt(p.es, pos) : id = RawIdentifier(SubEntries(p.es, pos, kp))
      BY <3>3
    <3>5. PICK kp \in PartsAt(p.es, pos) : id = RawIdentifier(SubEntries(p.es, pos, kp))
      BY <3>4
    <3>6. p \in DOMAIN fns[d + 1] \cup DOMAIN sens[d + 1]
      BY <3>2 DEF KeptInv
    <3>7. p \in RawIdentifiers(d + 1) /\ p.es \in SUBSET Keys(d + 1)
      BY <3>2, <3>6, IdentifierTypes DEF TypeOK, StorageOK, IsMap
    <3>8. p \in DOMAIN fns[d + 1]
      <4>1. p \in DOMAIN sens[d + 1] => Cardinality(p.es) = 1 /\ p = RawIdentifier(p.es)
        BY <1>0, <3>2 DEF NodesCanonical
      <4>2. p \notin DOMAIN sens[d + 1]
        BY <3>2, <3>3, <3>7, <4>1, RawIdentifierFacts DEF is_fn, is_sen
      <4> QED
        BY <3>6, <4>2
    <3>9. fns[d + 1][p].edges = CanonicalEdges(d + 1, p.es)
      BY <1>0, <3>2, <3>8 DEF NodesCanonical
    <3>10. kp \in DOMAIN fns[d + 1][p].edges[pos] /\ fns[d + 1][p].edges[pos][kp] = id
      BY <3>5, <3>9 DEF CanonicalEdges
    <3>11. kp \in KeyParts
      BY <3>2, <3>7, PartsAtType
    <3>12. <<p, pos, kp>> \in ParentEdges(d, id)
      BY <3>1, <3>8, <3>10, <3>11 DEF ParentEdges
    <3>13. SubEntries(p.es, pos, kp) \in SUBSET Keys(d)
      BY <3>2, <3>7, SubEntriesType
    <3>14. Canonical(id)
      BY <3>2, <3>5, <3>13, RawIdentifierFacts
    <3>15. id \in RawIdentifiers(d) /\ Counted(d, id)
      BY <3>1 DEF ChildrenOf
    <3> QED
      BY <3>12, <3>14, <3>15
  <2> QED
    BY <2>1, <2>2
<1>2. id # NoId
  BY <1>1 DEF Counted, empty
<1>3. /\ IsFiniteSet(Holders(d, id)) /\ Cardinality(Holders(d, id)) \in Nat
      /\ IsFiniteSet(ParentEdges(d, id)) /\ Cardinality(ParentEdges(d, id)) \in Nat
      /\ Planned(d, id) \in Int
  BY <1>0, <1>2, CountTypes, PlannedTypes
<1>4. Cardinality(Holders(d, id)) # 0 \/ Cardinality(ParentEdges(d, id)) # 0
  BY <1>1, <1>3, FS_EmptySet
<1>5. Planned(d, id) >= Cardinality(ParentEdges(d, id)) + Cardinality(Holders(d, id))
  BY <1>1 DEF CountInv, RefInv, Referrers
<1> QED
  BY <1>1, <1>3, <1>4, <1>5

\* Nodes that the plan is going to delete or to move away are not needed.
LEMMA EndingNotNeeded ==
    ASSUME TypeOK, CanonicalInv, CountInv, KeptInv, ~Idle, NEW id \in Ending, id \in DOMAIN fns[lvl]
    PROVE  id \notin Needed[lvl]
<1>1. lvl \in Depths /\ id \in RawIdentifiers(lvl) /\ lvl \in 0 .. MaxDepth
  BY MidUpdate DEF AreFullNodes, Depths
<1>2. Cardinality(id.es) > 1 /\ id = RawIdentifier(id.es)
  BY <1>1 DEF CanonicalInv, NodesCanonical
<1>3. is_fn(id)
  BY <1>1, <1>2, RawIdentifierFacts, IdentifierTypes
<1>4. Planned(lvl, id) = 0
  BY <1>3 DEF Planned
<1> QED
  BY <1>1, <1>4, NeededPlanned

\* What is needed does not change as long as no Hypertrie does.
LEMMA NeededSame ==
    ASSUME nodec' = nodec, op' = op, Idle' <=> Idle
    PROVE  Needed' = Needed
<1>1. Untouched' = Untouched
  BY DEF Untouched
<1>2. Roots' = Roots
  BY <1>1 DEF Roots, Counted, in_place
<1> QED
  BY <1>2 DEF Needed

\* The steps of the plan leave alone what is needed: only nodes that end vanish.
LEMMA ExecuteKept ==
    ASSUME TypeOK, CanonicalInv, CountInv, KeptInv, ~Idle,
           UNCHANGED <<sens, nodec, op, lvl>>,
           \A d \in Depths \ {lvl} : DOMAIN fns'[d] = DOMAIN fns[d],
           DOMAIN fns[lvl] \ Ending \subseteq DOMAIN fns'[lvl]
    PROVE  KeptInv'
<1>1. Needed' = Needed
  BY NeededSame DEF Idle
<1>2. ASSUME NEW d \in Depths, NEW id \in Needed[d] PROVE id \in DOMAIN fns'[d] \cup DOMAIN sens'[d]
  <2>1. id \in DOMAIN fns[d] \cup DOMAIN sens[d]
    BY DEF KeptInv
  <2>2. CASE d # lvl
    BY <2>1, <2>2
  <2>3. CASE d = lvl
    <3>1. id \in DOMAIN fns[lvl] => id \notin Ending
      BY <2>3, EndingNotNeeded
    <3> QED
      BY <2>1, <2>3, <3>1
  <2> QED
    BY <2>2, <2>3
<1> QED
  BY <1>1, <1>2 DEF KeptInv

LEMMA PlanKept ==
    ASSUME TypeOK, CanonicalInv, CountInv, KeptInv, ~Idle,
           \/ \E s \in plan.todo : PlanSource(s)
           \/ \E id \in plan.create : create_fn(id)
           \/ \E u \in plan.copy : copy_update_fn_to_fn(u)
           \/ \E u \in plan.move : move_update_fn_to_fn(u)
           \/ \E id \in plan.delete : delete_fn(id)
    PROVE  KeptInv' /\ UNCHANGED <<nodec, live, op, lvl>>
<1>0. lvl \in Depths /\ fns = [d \in Depths |-> fns[d]]
  BY MidUpdate DEF TypeOK, StorageOK
<1>1. CASE \E s \in plan.todo : PlanSource(s)
  <2>1. UNCHANGED <<fns, sens, nodec, live, op, lvl>>
    BY <1>1 DEF PlanSource
  <2> QED
    BY <2>1, ExecuteKept
<1>2. ASSUME NEW nodes, NEW gone, gone \subseteq Ending, fns' = [fns EXCEPT ![lvl] = nodes],
             DOMAIN fns[lvl] \ gone \subseteq DOMAIN nodes, UNCHANGED <<sens, nodec, live, op, lvl>>
      PROVE  KeptInv'
  <2>1. \A d \in Depths \ {lvl} : DOMAIN fns'[d] = DOMAIN fns[d]
    BY <1>0, <1>2
  <2>2. DOMAIN fns[lvl] \ Ending \subseteq DOMAIN fns'[lvl]
    BY <1>0, <1>2
  <2> QED
    BY <1>2, <2>1, <2>2, ExecuteKept
<1>3. ASSUME NEW id \in plan.create, create_fn(id) PROVE KeptInv' /\ UNCHANGED <<nodec, live, op, lvl>>
  <2>1. PICK c \in plan.request.creation :
          fns' = [fns EXCEPT ![lvl] =
                   With(@, id, UpdatedNode(lvl, "insert", "created", plan.delta[id], 0, NoEdges(lvl), c.entries))]
    BY <1>3 DEF create_fn
  <2>2. UNCHANGED <<sens, nodec, live, op, lvl>>
    BY <1>3 DEF create_fn
  <2> DEFINE nodes == With(fns[lvl], id, UpdatedNode(lvl, "insert", "created", plan.delta[id], 0, NoEdges(lvl), c.entries))
  <2>3. fns' = [fns EXCEPT ![lvl] = nodes] /\ DOMAIN fns[lvl] \ {} \subseteq DOMAIN nodes
    BY <2>1 DEF With
  <2> HIDE DEF nodes
  <2> QED
    BY <1>2, <2>2, <2>3
<1>4. ASSUME NEW u \in plan.copy, copy_update_fn_to_fn(u) PROVE KeptInv' /\ UNCHANGED <<nodec, live, op, lvl>>
  <2> DEFINE nodes == With(fns[lvl], u.target,
                          UpdatedNode(lvl, u.mode, "copied", plan.delta[u.target],
                                      fns[lvl][u.source].size, fns[lvl][u.source].edges, u.entries))
  <2>1. fns' = [fns EXCEPT ![lvl] = nodes] /\ UNCHANGED <<sens, nodec, live, op, lvl>>
    BY <1>4 DEF copy_update_fn_to_fn
  <2>2. DOMAIN fns[lvl] \ {} \subseteq DOMAIN nodes
    BY DEF With
  <2> HIDE DEF nodes
  <2> QED
    BY <1>2, <2>1, <2>2
<1>5. ASSUME NEW u \in plan.move, move_update_fn_to_fn(u) PROVE KeptInv' /\ UNCHANGED <<nodec, live, op, lvl>>
  <2> DEFINE nodes == With(Without(fns[lvl], {u.source}), u.target,
                          UpdatedNode(lvl, u.mode, "moved", plan.delta[u.target],
                                      fns[lvl][u.source].size, fns[lvl][u.source].edges, u.entries))
  <2>1. fns' = [fns EXCEPT ![lvl] = nodes] /\ UNCHANGED <<sens, nodec, live, op, lvl>>
    BY <1>5 DEF move_update_fn_to_fn
  <2>2. DOMAIN fns[lvl] \ {u.source} \subseteq DOMAIN nodes
    BY DEF With, Without
  <2>3. {u.source} \subseteq Ending
    BY DEF Ending
  <2> HIDE DEF nodes
  <2> QED
    BY <1>2, <2>1, <2>2, <2>3
<1>6. ASSUME NEW id \in plan.delete, delete_fn(id) PROVE KeptInv' /\ UNCHANGED <<nodec, live, op, lvl>>
  <2> DEFINE nodes == Without(fns[lvl], {id})
  <2>1. fns' = [fns EXCEPT ![lvl] = nodes] /\ UNCHANGED <<sens, nodec, live, op, lvl>>
    BY <1>6 DEF delete_fn
  <2>2. DOMAIN fns[lvl] \ {id} \subseteq DOMAIN nodes
    BY DEF Without
  <2>3. {id} \subseteq Ending
    BY DEF Ending
  <2> HIDE DEF nodes
  <2> QED
    BY <1>2, <2>1, <2>2, <2>3
<1> QED
  BY <1>1, <1>3, <1>4, <1>5, <1>6, ExecuteKept DEF PlanSource

\* At the end of a level everything that is needed has a reference.
LEMMA FinishKept ==
    ASSUME TypeOK, CanonicalInv, CountInv, KeptInv, FinishLevel, lvl > 1
    PROVE  /\ KeptInv' /\ ~Idle'
           /\ UNCHANGED <<nodec, live, op>>
<1>0. ~Idle /\ lvl \in Depths
  BY MidUpdate DEF FinishLevel
<1>1. UNCHANGED <<nodec, live, op>> /\ lvl' = lvl - 1
  BY DEF FinishLevel, StartLevel
<1>2. ~Idle'
  BY <1>0, <1>1 DEF Idle, Depths
<1>3. Needed' = Needed
  BY <1>0, <1>1, <1>2, NeededSame
<1> SUFFICES ASSUME NEW l, l = lvl, NEW d \in Depths, NEW id \in Needed[d]
             PROVE  id \in DOMAIN fns'[d] \cup DOMAIN sens'[d]
  BY <1>1, <1>2, <1>3 DEF KeptInv
<1>4. id \in RawIdentifiers(d) /\ Counted(d, id) /\ Planned(d, id) >= 1
  BY NeededPlanned
<1>5. CASE d # l
  <2>1. fns'[d] = fns[d] /\ sens'[d] = sens[d]
    BY <1>5, FinishStored
  <2> QED
    BY <2>1 DEF KeptInv
<1>6. CASE d = l
  <2>1. Stored(l, id)' = Planned(l, id)
    BY <1>4, <1>6, FinishStored
  <2>2. Stored(l, id)' >= 1
    BY <1>4, <1>6, <2>1
  <2> QED
    BY <1>6, <2>2 DEF Stored
<1> QED
  BY <1>5, <1>6

\* An update starts from a storage that has all that is needed.
LEMMA BeginKept ==
    ASSUME TypeOK, CanonicalInv, CountInv, Idle, TypeOK', CanonicalInv',
           UNCHANGED <<fns, sens, nodec>>
    PROVE  KeptInv'
<1>1. \A d \in Depths : Roots'[d] \subseteq DOMAIN fns'[d] \cup DOMAIN sens'[d]
  <2> SUFFICES ASSUME NEW d \in Depths, NEW id \in Roots'[d] PROVE id \in DOMAIN fns[d] \cup DOMAIN sens[d]
    OBVIOUS
  <2>1. PICK h \in Handles : HandleDepth[h] = d /\ nodec[h] = id /\ Counted(d, id)
    BY DEF Roots, Untouched, Counted, in_place
  <2> QED
    BY <2>1, StorageReaches
<1>2. \A d \in Depths \ {1} : \A id \in DOMAIN fns'[d] : \A pos \in 1 .. d :
         \A kp \in DOMAIN fns'[d][id].edges[pos] :
            Counted(d - 1, fns'[d][id].edges[pos][kp])
            => fns'[d][id].edges[pos][kp] \in DOMAIN fns'[d - 1] \cup DOMAIN sens'[d - 1]
  BY StorageReaches
<1>3. NodesCanonical'
  BY DEF CanonicalInv
<1>4. /\ TypeOK' /\ NodesCanonical'
      /\ (\A d \in Depths : Roots[d] \subseteq DOMAIN fns[d] \cup DOMAIN sens[d])'
      /\ (\A d \in Depths \ {1} : \A id \in DOMAIN fns[d] : \A pos \in 1 .. d :
            \A kp \in DOMAIN fns[d][id].edges[pos] :
               Counted(d - 1, fns[d][id].edges[pos][kp])
               => fns[d][id].edges[pos][kp] \in DOMAIN fns[d - 1] \cup DOMAIN sens[d - 1])'
      => KeptInv'
  BY NeededStored, PTL
<1> QED
  BY <1>1, <1>2, <1>3, <1>4 DEF Counted, in_place

LEMMA KeptStep ==
    ASSUME TypeOK, CanonicalInv, CountInv, KeptInv, TypeOK', CanonicalInv', CountInv', [Next]_vars
    PROVE  KeptInv'
<1>1. CASE Idle'
  <2>1. (TypeOK /\ CanonicalInv /\ CountInv /\ Idle)' => KeptInv'
    BY KeptIdle, PTL
  <2> QED
    BY <1>1, <2>1
<1>2. CASE ~Idle' /\ ~Idle
  <2>1. CASE Step /\ ~FinishLevel
    BY <1>2, <2>1, PlanKept DEF Step
  <2>2. CASE FinishLevel
    <3>1. lvl > 1
      BY <1>2, <2>2, MidUpdate DEF FinishLevel, Idle, Depths
    <3> QED
      BY <2>2, <3>1, FinishKept
  <2>3. CASE Operation
    BY <1>2, <2>3 DEF Operation, insert, remove, set, Construct, CopyConstruct, MoveConstruct,
                      CopyAssign, MoveAssign, Destroy
  <2>4. CASE UNCHANGED vars
    <3>1. UNCHANGED <<fns, sens, nodec, op, lvl>>
      BY <2>4 DEF vars
    <3> QED
      BY <1>2, <3>1, ExecuteKept
  <2> QED
    BY <2>1, <2>2, <2>3, <2>4 DEF Next, Step
<1>3. CASE ~Idle' /\ Idle
  <2>1. ~Step
    BY <1>3, StepInUpdate
  <2>2. UNCHANGED <<fns, sens, nodec>>
    <3>1. CASE Operation
      BY <1>3, <3>1 DEF Operation, insert, remove, set, Construct, CopyConstruct, MoveConstruct,
                        CopyAssign, MoveAssign, Destroy, Begin, update, Idle
    <3>2. CASE UNCHANGED vars
      BY <3>2 DEF vars
    <3> QED
      BY <2>1, <3>1, <3>2 DEF Next
  <2> QED
    BY <1>3, <2>2, BeginKept
<1> QED
  BY <1>1, <1>2, <1>3

-----------------------------------------------------------------------------
(* The context implements HypertrieSet.                                    *)

\* A request for an update asks for the entries it should.
LEMMA BeginTarget ==
    ASSUME TypeOK, CanonicalInv, NEW h \in Handles, NEW kind, NEW es, NEW call,
           IsCall(HandleDepth[h], call), HonestCall(call), Begin(h, kind, es, call),
           kind = "insert" => After(call) = nodec[h].es \cup es,
           kind = "remove" => After(call) = nodec[h].es \ es,
           kind = "destroy" => es = {}
    PROVE  TargetInv'
<1> DEFINE d == HandleDepth[h]
<1>1. d \in Depths /\ d \in 0 .. MaxDepth
  BY HandleAssumption DEF Depths
<1>2. SizeKnown(d, call)
  BY <1>1, SizeKnownByAssert DEF Begin, CanonicalInv
<1>3. Returned(d, call).es = After(call)
  BY <1>1, <1>2, ReturnedCanonical, RawIdentifierFacts
<1>4. /\ op'.kind = kind /\ op'.handle = h /\ op'.entries = es
      /\ op'.target = IF kind = "destroy" THEN NoId ELSE Returned(d, call)
      /\ nodec' = nodec
  BY DEF Begin
<1> QED
  BY <1>3, <1>4 DEF TargetInv, NoId

\* insert and remove are requests to HypertrieSet.
LEMMA insertTarget ==
    ASSUME TypeOK, CanonicalInv, NEW h \in Handles, NEW es \in SUBSET Keys(HandleDepth[h]), insert(h, es)
    PROVE  TargetInv'
<1>0. /\ nodec[h] \in RawIdentifiers(HandleDepth[h]) /\ Canonical(nodec[h])
      /\ es # {} /\ es \cap nodec[h].es = {}
  BY DEF insert, TypeOK, HandlesOK, CanonicalInv
<1>1. CASE empty(nodec[h])
  <2> DEFINE call == Call("add", NoId, es)
  <2>1. IsCall(HandleDepth[h], call)
    BY IdentifierTypes DEF IsCall, Call, CallNames
  <2>2. HonestCall(call)
    BY DEF HonestCall, Call, Canonical, NoId, RawIdentifier
  <2>3. Begin(h, "insert", es, call)
    BY <1>1 DEF insert
  <2>4. After(call) = nodec[h].es \cup es
    BY <1>1 DEF After, Call, empty, NoId
  <2> HIDE DEF call
  <2> QED
    BY <2>1, <2>2, <2>3, <2>4, BeginTarget
<1>2. CASE ~empty(nodec[h])
  <2> DEFINE call == Call("insert", nodec[h], es)
  <2>1. IsCall(HandleDepth[h], call)
    BY <1>0 DEF IsCall, Call, CallNames
  <2>2. nodec[h].es # {}
    BY <1>0, <1>2 DEF Canonical, RawIdentifier, empty
  <2>3. HonestCall(call)
    BY <1>0, <2>2 DEF HonestCall, Call
  <2>4. Begin(h, "insert", es, call)
    BY <1>2 DEF insert
  <2>5. After(call) = nodec[h].es \cup es
    BY DEF After, Call
  <2> HIDE DEF call
  <2> QED
    BY <2>1, <2>3, <2>4, <2>5, BeginTarget
<1> QED
  BY <1>1, <1>2

LEMMA removeTarget ==
    ASSUME TypeOK, CanonicalInv, NEW h \in Handles, NEW es \in SUBSET Keys(HandleDepth[h]), remove(h, es)
    PROVE  TargetInv'
<1> DEFINE call == Call("remove", nodec[h], es)
<1>1. IsCall(HandleDepth[h], call)
  BY DEF IsCall, Call, CallNames, TypeOK, HandlesOK
<1>2. HonestCall(call)
  BY DEF HonestCall, Call, remove, CanonicalInv
<1>3. Begin(h, "remove", es, call)
  BY DEF remove
<1>4. After(call) = nodec[h].es \ es
  BY DEF After, Call
<1> HIDE DEF call
<1> QED
  BY <1>1, <1>2, <1>3, <1>4, BeginTarget

\* Destroying a Hypertrie goes through an update, or not.
LEMMA DestroyTarget ==
    ASSUME TypeOK, CanonicalInv, NEW h \in Handles, Destroy(h)
    PROVE  TargetInv'
<1> DEFINE d == HandleDepth[h]
           call == Call("drop", nodec[h], {})
<1>1. CASE Begin(h, "destroy", {}, call)
  <2>1. IsCall(d, call)
    BY DEF IsCall, Call, CallNames, TypeOK, HandlesOK
  <2>2. HonestCall(call)
    BY DEF HonestCall, Call, CanonicalInv
  <2> HIDE DEF call
  <2> QED
    BY <1>1, <2>1, <2>2, BeginTarget
<1>2. CASE Idle /\ UNCHANGED update
  BY <1>2 DEF TargetInv, Idle, update
<1> QED
  BY <1>1, <1>2 DEF Destroy

LEMMA TargetStep ==
    ASSUME TypeOK, CanonicalInv, CountInv, KeptInv, TargetInv, [Next]_vars
    PROVE  TargetInv'
<1>1. CASE Step
  <2>0. ~Idle
    BY <1>1, StepInUpdate
  <2>1. CASE ~FinishLevel
    BY <1>1, <2>0, <2>1, PlanKept DEF Step, TargetInv, Idle
  <2>2. CASE FinishLevel /\ lvl > 1
    BY <2>0, <2>2, FinishKept DEF TargetInv
  <2>3. CASE FinishLevel /\ ~(lvl > 1)
    BY <2>3 DEF FinishLevel, TargetInv, Idle
  <2> QED
    BY <2>1, <2>2, <2>3
<1>2. CASE Operation
  <2>0. \A h \in Handles : HandleKeys[h] \subseteq Keys(HandleDepth[h])
    BY HandleAssumption
  <2>1. ASSUME NEW h \in Handles, NEW es \in Bulks(h), insert(h, es) \/ remove(h, es) PROVE TargetInv'
    BY <2>0, <2>1, insertTarget, removeTarget DEF Bulks
  <2>2. ASSUME NEW h \in Handles, NEW k \in HandleKeys[h], NEW value \in BOOLEAN, set(h, k, value)
        PROVE  TargetInv'
    <3>1. insert(h, {k}) \/ remove(h, {k})
      BY <2>2 DEF set
    <3>2. {k} \in SUBSET Keys(HandleDepth[h])
      BY <2>0
    <3> QED
      BY <3>1, <3>2, insertTarget, removeTarget
  <2>3. ASSUME NEW g \in Handles, NEW h \in Handles,
               \/ Construct(h) \/ CopyConstruct(g, h) \/ MoveConstruct(g, h)
               \/ CopyAssign(g, h) \/ MoveAssign(g, h)
        PROVE  TargetInv'
    BY <2>3 DEF Construct, CopyConstruct, MoveConstruct, CopyAssign, MoveAssign, update, TargetInv, Idle
  <2> QED
    BY <1>2, <2>1, <2>2, <2>3, DestroyTarget DEF Operation
<1>3. CASE UNCHANGED vars
  BY <1>3 DEF vars, TargetInv, Idle
<1> QED
  BY <1>1, <1>2, <1>3 DEF Next

\* What an iterator yields from a node that is needed.
LEMMA NeededKept ==
    ASSUME TypeOK, NodesCanonical, KeptInv
    PROVE  Kept(Needed)
<1> SUFFICES ASSUME NEW d \in Depths \ {1}, NEW id \in Needed[d] \cap DOMAIN fns[d], NEW pos \in 1 .. d,
                    NEW kp \in DOMAIN fns[d][id].edges[pos], Counted(d - 1, fns[d][id].edges[pos][kp])
             PROVE  fns[d][id].edges[pos][kp] \in Needed[d - 1]
  BY DEF Kept, KeptInv
<1> DEFINE c == fns[d][id].edges[pos][kp]
<1>1. d - 1 \in Depths /\ d - 1 # MaxDepth /\ (d - 1) + 1 = d /\ d \in 0 .. MaxDepth
  BY MaxDepthAssumption DEF Depths
<1>2. c \in RawIdentifiers(d - 1)
  BY DEF TypeOK, StorageOK, IsFullNode, IsEdges, IsMap
<1>3. /\ Cardinality(id.es) > 1 /\ id = RawIdentifier(id.es) /\ id \in RawIdentifiers(d)
      /\ fns[d][id].edges = CanonicalEdges(d, id.es)
  BY DEF NodesCanonical, TypeOK, StorageOK
<1>4. is_fn(id)
  BY <1>1, <1>3, RawIdentifierFacts, IdentifierTypes
<1>5. kp \in PartsAt(id.es, pos) /\ c = RawIdentifier(SubEntries(id.es, pos, kp))
  BY <1>3 DEF CanonicalEdges
<1>6. Counted(d - 1, c)
  OBVIOUS
<1> HIDE DEF c
<1>7. c \in ChildrenOf(d - 1, Needed[d])
  BY <1>1, <1>2, <1>4, <1>5, <1>6 DEF ChildrenOf
<1>8. c \in Needed[d - 1]
  BY <1>1, <1>7, NeededIs
<1> QED
  BY <1>8 DEF c

\* The content of every Hypertrie is the entries of its identifier.
LEMMA ContentIs ==
    ASSUME TypeOK, CanonicalInv, KeptInv
    PROVE  Content = [h \in Handles |-> nodec[h].es]
<1> SUFFICES ASSUME NEW h \in Handles, Idle \/ h # op.handle
             PROVE  Yields(HandleDepth[h], nodec[h]) = nodec[h].es
  BY DEF Content
<1> DEFINE d == HandleDepth[h]
           id == nodec[h]
<1>1. d \in Depths /\ d \in 0 .. MaxDepth /\ id \in RawIdentifiers(d) /\ Canonical(id)
  BY HandleAssumption DEF TypeOK, HandlesOK, CanonicalInv, Depths
<1>2. Counted(d, id) => id \in Roots[d]
  BY <1>1 DEF Roots, Untouched
<1>3. Readable(Needed, d, id)
  BY <1>1, <1>2, NeededIs DEF Readable
<1>4. Kept(Needed)
  BY NeededKept DEF CanonicalInv
<1> HIDE DEF d, id
<1>5. Iterated[d][id] = id.es
  BY <1>1, <1>3, <1>4, IteratedExact DEF CanonicalInv
<1> QED
  BY <1>5 DEF Yields, d, id

\* The variables of HypertrieSet before and after a step.
SetView ==
    /\ Content = [h \in Handles |-> nodec[h].es]
    /\ Idle => Pending = Sets!None
    /\ ~Idle => /\ Pending = [kind |-> op.kind, handle |-> op.handle, entries |-> op.entries]
                /\ Pending # Sets!None

LEMMA SetState ==
    ASSUME TypeOK, CanonicalInv, KeptInv
    PROVE  SetView
<1>1. ~Idle => Pending = [kind |-> op.kind, handle |-> op.handle, entries |-> op.entries]
  BY DEF Pending
<1>2. ~Idle => op.kind # "none"
  BY MidUpdate DEF OperationOK
<1>3. Idle => Pending = Sets!None
  BY DEF Pending, Sets!None
<1>4. ~Idle => Pending # Sets!None
  <2>1. Sets!None.kind = "none"
    BY DEF Sets!None
  <2> QED
    BY <1>1, <1>2, <2>1
<1> QED
  BY <1>1, <1>3, <1>4, ContentIs DEF SetView

LEMMA SetStateNext ==
    ASSUME TypeOK', CanonicalInv', KeptInv'
    PROVE  /\ Content' = [h \in Handles |-> nodec'[h].es]
           /\ Idle' => Pending' = Sets!None
<1>1. TypeOK' /\ CanonicalInv' /\ KeptInv' => SetView'
  BY SetState, PTL
<1>2. (Sets!None)' = Sets!None
  BY DEF Sets!None
<1> QED
  BY <1>1, <1>2 DEF SetView

\* The beginning of an update is a request.
LEMMA RequestImplements ==
    ASSUME TypeOK, CanonicalInv, KeptInv, Idle, NEW h \in live, h \in Handles,
           NEW kind \in {"insert", "remove", "destroy"}, NEW es \in SUBSET HandleKeys[h],
           kind = "insert" => es # {} /\ es \cap nodec[h].es = {},
           kind = "remove" => es # {} /\ es \subseteq nodec[h].es,
           kind = "destroy" => es = {},
           TypeOK', CanonicalInv', KeptInv', ~Idle',
           op'.kind = kind, op'.handle = h, op'.entries = es, UNCHANGED <<nodec, live>>
    PROVE  Sets!SetNext
<1>1. Content = [x \in Handles |-> nodec[x].es] /\ Pending = Sets!None
  BY SetState DEF SetView
<1>2. Content' = [x \in Handles |-> nodec'[x].es]
  BY SetStateNext
<1>3. Pending' = [kind |-> kind, handle |-> h, entries |-> es]
  BY DEF Pending
<1>4. Content' = Content
  BY <1>1, <1>2
<1>5. Sets!Request(h, kind, es)
  BY <1>1, <1>3, <1>4 DEF Sets!Request
<1> QED
  BY <1>5 DEF Sets!SetNext

\* The end of the lowest level is the response.
LEMMA RespondImplements ==
    ASSUME TypeOK, CanonicalInv, KeptInv, TargetInv, FinishLevel, ~(lvl > 1),
           TypeOK', CanonicalInv', KeptInv'
    PROVE  Sets!SetNext
<1>0. ~Idle /\ OperationOK
  BY MidUpdate DEF FinishLevel
<1>1. /\ nodec' = [nodec EXCEPT ![op.handle] = op.target]
      /\ live' = IF op.kind = "destroy" THEN live \ {op.handle} ELSE live
      /\ Idle'
  BY DEF FinishLevel, Idle
<1>2. /\ Content = [x \in Handles |-> nodec[x].es]
      /\ Pending = [kind |-> op.kind, handle |-> op.handle, entries |-> op.entries]
      /\ Pending # Sets!None
  BY <1>0, SetState DEF SetView
<1>3. Content' = [x \in Handles |-> nodec'[x].es] /\ Pending' = Sets!None
  BY <1>1, SetStateNext
<1>4. op.handle \in Handles /\ nodec = [x \in Handles |-> nodec[x]] /\ op.kind \in {"insert", "remove", "destroy"}
  BY <1>0 DEF OperationOK, TypeOK, HandlesOK
<1>5. op.target.es = CASE op.kind = "insert"  -> nodec[op.handle].es \cup op.entries
                       [] op.kind = "remove"  -> nodec[op.handle].es \ op.entries
                       [] op.kind = "destroy" -> {}
  BY <1>0, <1>4 DEF TargetInv
<1>6. Content' = [Content EXCEPT ![op.handle] = op.target.es]
  BY <1>1, <1>2, <1>3, <1>4
<1>7. Content[op.handle] = nodec[op.handle].es
  BY <1>2, <1>4
<1>8. Content' = [Content EXCEPT ![Pending.handle] =
                    CASE Pending.kind = "insert"  -> @ \cup Pending.entries
                      [] Pending.kind = "remove"  -> @ \ Pending.entries
                      [] Pending.kind = "destroy" -> {}]
  BY <1>2, <1>5, <1>6, <1>7
<1>9. live' = IF Pending.kind = "destroy" THEN live \ {Pending.handle} ELSE live
  BY <1>1, <1>2
<1>10. Sets!Respond
  BY <1>2, <1>3, <1>8, <1>9 DEF Sets!Respond
<1> QED
  BY <1>10 DEF Sets!SetNext

\* The operations that do not change entries are the steps New, Take, Delete.
LEMMA HandleImplements ==
    ASSUME TypeOK, CanonicalInv, KeptInv, TypeOK', CanonicalInv', KeptInv', Idle, Idle',
           NEW g \in Handles, NEW h \in Handles,
           \/ Construct(h) \/ CopyConstruct(g, h) \/ MoveConstruct(g, h)
           \/ CopyAssign(g, h) \/ MoveAssign(g, h) \/ Destroy(h)
    PROVE  Sets!SetNext
<1>1. Content = [x \in Handles |-> nodec[x].es] /\ Pending = Sets!None
  BY SetState DEF SetView
<1>2. Content' = [x \in Handles |-> nodec'[x].es] /\ Pending' = Sets!None
  BY SetStateNext
<1>3. nodec = [x \in Handles |-> nodec[x]] /\ live \subseteq Handles /\ NoId.es = {}
  BY DEF TypeOK, HandlesOK, NoId
<1>4. CASE Construct(h)
  <2>1. Sets!New(h)
    BY <1>1, <1>2, <1>4 DEF Construct, Sets!New
  <2> QED
    BY <2>1 DEF Sets!SetNext
<1>5. CASE CopyConstruct(g, h) \/ CopyAssign(g, h)
  <2>1. /\ h \in live /\ HandleDepth[g] = HandleDepth[h] /\ nodec' = [nodec EXCEPT ![g] = nodec[h]]
        /\ live' = live \cup {g}
    BY <1>5 DEF CopyConstruct, CopyAssign
  <2>2. Content' = [x \in Handles |-> IF x = g THEN Content[h]
                                      ELSE IF x = h /\ FALSE THEN {} ELSE Content[x]]
    BY <1>1, <1>2, <1>3, <2>1
  <2>3. Sets!Take(g, h, FALSE)
    BY <1>1, <1>2, <2>1, <2>2 DEF Sets!Take
  <2> QED
    BY <2>3 DEF Sets!SetNext
<1>6. CASE MoveConstruct(g, h) \/ MoveAssign(g, h)
  <2>1. /\ h \in live /\ HandleDepth[g] = HandleDepth[h] /\ g # h
        /\ nodec' = [nodec EXCEPT ![g] = nodec[h], ![h] = NoId]
        /\ live' = (live \ {h}) \cup {g}
    BY <1>6 DEF MoveConstruct, MoveAssign
  <2>2. Content' = [x \in Handles |-> IF x = g THEN Content[h]
                                      ELSE IF x = h /\ TRUE THEN {} ELSE Content[x]]
    BY <1>1, <1>2, <1>3, <2>1
  <2>3. Sets!Take(g, h, TRUE)
    BY <1>1, <1>2, <2>1, <2>2 DEF Sets!Take
  <2> QED
    BY <2>3 DEF Sets!SetNext
<1>7. CASE Destroy(h)
  <2>1. h \in live /\ (Begin(h, "destroy", {}, Call("drop", nodec[h], {}))
                       \/ (nodec' = [nodec EXCEPT ![h] = NoId] /\ live' = live \ {h}))
    BY <1>7 DEF Destroy
  <2>2. ~Begin(h, "destroy", {}, Call("drop", nodec[h], {}))
    <3>1. HandleDepth[h] # 0
      BY HandleAssumption, MaxDepthAssumption DEF Depths
    <3> QED
      BY <3>1 DEF Begin, StartLevel, Idle
  <2>3. Content' = [Content EXCEPT ![h] = {}]
    BY <1>1, <1>2, <1>3, <2>1, <2>2
  <2>4. Sets!Delete(h)
    BY <1>1, <1>2, <2>1, <2>2, <2>3 DEF Sets!Delete
  <2> QED
    BY <2>4 DEF Sets!SetNext
<1> QED
  BY <1>4, <1>5, <1>6, <1>7

\* Steps that leave Hypertries and the operation alone cannot be observed.
LEMMA StutterImplements ==
    ASSUME TypeOK, CanonicalInv, KeptInv, TypeOK', CanonicalInv', KeptInv',
           UNCHANGED <<nodec, live, op>>, Idle' <=> Idle
    PROVE  UNCHANGED Sets!svars
<1>1. Content = [x \in Handles |-> nodec[x].es]
  BY SetState DEF SetView
<1>2. Content' = [x \in Handles |-> nodec'[x].es]
  BY SetStateNext
<1>3. Pending' = Pending
  BY DEF Pending
<1> QED
  BY <1>1, <1>2, <1>3 DEF Sets!svars

LEMMA StepImplements ==
    ASSUME TypeOK, CanonicalInv, CountInv, KeptInv, TargetInv,
           TypeOK', CanonicalInv', KeptInv', [Next]_vars
    PROVE  [Sets!SetNext]_(Sets!svars)
<1>1. CASE Step
  <2>0. ~Idle
    BY <1>1, StepInUpdate
  <2>1. CASE ~FinishLevel
    BY <1>1, <2>0, <2>1, PlanKept, StutterImplements DEF Step, Idle
  <2>2. CASE FinishLevel /\ lvl > 1
    BY <2>0, <2>2, FinishKept, StutterImplements
  <2>3. CASE FinishLevel /\ ~(lvl > 1)
    BY <2>3, RespondImplements
  <2> QED
    BY <2>1, <2>2, <2>3
<1>2. CASE Operation
  <2>0. live \subseteq Handles
    BY DEF TypeOK, HandlesOK
  <2>1. ASSUME NEW h \in Handles, NEW kind, NEW es, NEW call, Begin(h, kind, es, call)
        PROVE  /\ ~Idle' /\ op'.kind = kind /\ op'.handle = h /\ op'.entries = es
               /\ UNCHANGED <<nodec, live>>
    <3>1. HandleDepth[h] # 0
      BY HandleAssumption, MaxDepthAssumption DEF Depths
    <3>2. op' = [kind |-> kind, handle |-> h, entries |-> es,
                 target |-> IF kind = "destroy" THEN NoId ELSE Returned(HandleDepth[h], call)]
      BY <2>1 DEF Begin
    <3> QED
      BY <2>1, <3>1, <3>2 DEF Begin, StartLevel, Idle
  <2>2. ASSUME NEW h \in Handles, NEW es \in SUBSET HandleKeys[h], insert(h, es) PROVE Sets!SetNext
    <3>1. /\ Idle /\ h \in live /\ es # {} /\ es \cap nodec[h].es = {}
          /\ \E call : Begin(h, "insert", es, call)
      BY <2>2 DEF insert
    <3>2. /\ ~Idle' /\ op'.kind = "insert" /\ op'.handle = h /\ op'.entries = es
          /\ UNCHANGED <<nodec, live>>
      BY <2>1, <3>1
    <3> QED
      BY <3>1, <3>2, RequestImplements
  <2>3. ASSUME NEW h \in Handles, NEW es \in SUBSET HandleKeys[h], remove(h, es) PROVE Sets!SetNext
    <3>1. /\ Idle /\ h \in live /\ es # {} /\ es \subseteq nodec[h].es
          /\ \E call : Begin(h, "remove", es, call)
      BY <2>3 DEF remove
    <3>2. /\ ~Idle' /\ op'.kind = "remove" /\ op'.handle = h /\ op'.entries = es
          /\ UNCHANGED <<nodec, live>>
      BY <2>1, <3>1
    <3> QED
      BY <3>1, <3>2, RequestImplements
  <2>4. ASSUME NEW h \in Handles, NEW k \in HandleKeys[h], NEW value \in BOOLEAN, set(h, k, value)
        PROVE  Sets!SetNext
    <3>1. insert(h, {k}) \/ remove(h, {k})
      BY <2>4 DEF set
    <3>2. {k} \in SUBSET HandleKeys[h]
      OBVIOUS
    <3> QED
      BY <2>2, <2>3, <3>1, <3>2
  <2>5. ASSUME NEW g \in Handles, NEW h \in Handles,
               \/ Construct(h) \/ CopyConstruct(g, h) \/ MoveConstruct(g, h)
               \/ CopyAssign(g, h) \/ MoveAssign(g, h)
        PROVE  Sets!SetNext
    <3>1. Idle /\ Idle'
      BY <2>5 DEF Construct, CopyConstruct, MoveConstruct, CopyAssign, MoveAssign, update, Idle
    <3> QED
      BY <2>5, <3>1, HandleImplements
  <2>6. ASSUME NEW h \in Handles, Destroy(h) PROVE Sets!SetNext
    <3>1. CASE Begin(h, "destroy", {}, Call("drop", nodec[h], {}))
      <4>1. Idle /\ h \in live /\ {} \in SUBSET HandleKeys[h]
        BY <2>6 DEF Destroy
      <4>2. /\ ~Idle' /\ op'.kind = "destroy" /\ op'.handle = h /\ op'.entries = {}
            /\ UNCHANGED <<nodec, live>>
        BY <2>1, <3>1
      <4> QED
        BY <4>1, <4>2, RequestImplements
    <3>2. CASE ~Begin(h, "destroy", {}, Call("drop", nodec[h], {}))
      <4>1. Idle /\ Idle'
        BY <2>6, <3>2 DEF Destroy, update, Idle
      <4> QED
        BY <2>6, <4>1, HandleImplements
    <3> QED
      BY <3>1, <3>2
  <2>7. \A h \in Handles : Bulks(h) \subseteq SUBSET HandleKeys[h]
    BY DEF Bulks
  <2> QED
    BY <1>2, <2>2, <2>3, <2>4, <2>5, <2>6, <2>7 DEF Operation
<1>3. CASE UNCHANGED vars
  <2>1. UNCHANGED <<nodec, live, op>> /\ (Idle' <=> Idle)
    BY <1>3 DEF vars, Idle
  <2> QED
    BY <2>1, StutterImplements
<1> QED
  BY <1>1, <1>2, <1>3 DEF Next

LEMMA KeptAlways == Spec => [](TypeOK /\ CanonicalInv /\ CountInv /\ KeptInv /\ TargetInv)
<1>1. Init => TargetInv
  BY DEF Init, TargetInv, Idle
<1>2. Init => Idle
  BY DEF Init, Idle
<1>3. TypeOK /\ CanonicalInv /\ CountInv /\ Idle => KeptInv
  BY KeptIdle
<1>4. /\ TypeOK /\ CanonicalInv /\ CountInv /\ KeptInv /\ TargetInv /\ [Next]_vars
      /\ TypeOK' /\ CanonicalInv' /\ CountInv'
      => KeptInv' /\ TargetInv'
  BY KeptStep, TargetStep
<1> QED
  BY <1>1, <1>2, <1>3, <1>4, CountsAlways, PTL DEF Spec

\* Every Hypertrie is a set of its own: an insertion, a removal or the end of a
\* Hypertrie changes the keys that an iterator finds in it as requested, at the
\* moment when apply_update returns, and no step of any update changes what an
\* iterator finds in another one, although they share nodes that
\* move_update_fn_to_fn reuses and fn_delete frees.
THEOREM ContextImplementsSets == Spec => ImplementsSets
<1>1. Init /\ TypeOK /\ CanonicalInv /\ KeptInv => Sets!SetInit
  <2> SUFFICES ASSUME Init, TypeOK, CanonicalInv, KeptInv PROVE Sets!SetInit
    OBVIOUS
  <2>1. Content = [h \in Handles |-> nodec[h].es] /\ Pending = Sets!None
    BY SetState DEF SetView, Init, Idle
  <2>2. Content = [h \in Handles |-> {}] /\ live = {}
    BY <2>1 DEF Init, NoId
  <2> QED
    BY <2>1, <2>2 DEF Sets!SetInit
<1>2. /\ TypeOK /\ CanonicalInv /\ CountInv /\ KeptInv /\ TargetInv
      /\ TypeOK' /\ CanonicalInv' /\ KeptInv' /\ [Next]_vars
      => [Sets!SetNext]_(Sets!svars)
  BY StepImplements
<1> QED
  BY <1>1, <1>2, KeptAlways, PTL DEF Spec, ImplementsSets, Sets!SetSpec

-----------------------------------------------------------------------------
(* get.                                                                    *)

\* Among finitely many positions one has the fewest edges, and one the most.
LEMMA ChosenPosition ==
    ASSUME NEW d \in Nat, NEW n, NEW mask \in SUBSET (1 .. d), mask # {},
           NEW most \in Nat, \A pos \in mask : Card(n, pos) \in 0 .. most
    PROVE  min_card_pos(n, mask) \in mask /\ max_card_pos(n, mask) \in mask
<1>1. \A T \in SUBSET Nat : T # {} => \E x \in T : \A y \in T : x <= y
  BY LeastNumber
<1>0. \A pos \in mask : Card(n, pos) \in Nat /\ Card(n, pos) <= most
  OBVIOUS
<1> DEFINE C == {Card(n, pos) : pos \in mask}
<1>2. PICK c \in C : \A x \in C : c <= x
  <2>1. C \in SUBSET Nat /\ C # {}
    BY <1>0
  <2> HIDE DEF C
  <2> QED
    BY <1>1, <2>1
<1> DEFINE F == {pos \in mask : Card(n, pos) = c}
<1>3. PICK p \in F : \A x \in F : p <= x
  <2>1. F \in SUBSET Nat /\ F # {}
    BY <1>2
  <2> HIDE DEF F
  <2> QED
    BY <1>1, <2>1
<1>4. p \in mask /\ \A q \in mask : Card(n, p) < Card(n, q) \/ (Card(n, p) = Card(n, q) /\ p <= q)
  BY <1>2, <1>3
<1> DEFINE D == {most - Card(n, pos) : pos \in mask}
<1>5. PICK e \in D : \A x \in D : e <= x
  <2>1. D \in SUBSET Nat /\ D # {}
    BY <1>0
  <2> HIDE DEF D
  <2> QED
    BY <1>1, <2>1
<1> DEFINE G == {pos \in mask : most - Card(n, pos) = e}
<1>6. PICK r \in G : \A x \in G : r <= x
  <2>1. G \in SUBSET Nat /\ G # {}
    BY <1>5
  <2> HIDE DEF G
  <2> QED
    BY <1>1, <2>1
<1>7. r \in mask /\ \A q \in mask : Card(n, r) > Card(n, q) \/ (Card(n, r) = Card(n, q) /\ r <= q)
  <2>1. r \in mask /\ most - Card(n, r) = e
    BY <1>6
  <2>2. ASSUME NEW q \in mask PROVE Card(n, r) > Card(n, q) \/ (Card(n, r) = Card(n, q) /\ r <= q)
    <3>1. e <= most - Card(n, q) /\ (most - Card(n, q) = e => r <= q)
      BY <1>5, <1>6
    <3>2. Card(n, r) \in Nat /\ Card(n, q) \in Nat
      BY <1>0, <2>1
    <3> HIDE DEF D, G
    <3> QED
      BY <2>1, <3>1, <3>2
  <2> QED
    BY <2>1, <2>2
<1> QED
  BY <1>4, <1>7 DEF min_card_pos, max_card_pos

LEMMA CanonicalCards ==
    ASSUME NEW d \in Depths, NEW n, NEW es \in SUBSET Keys(d), n.edges = CanonicalEdges(d, es)
    PROVE  \E most \in Nat : \A pos \in 1 .. d : Card(n, pos) \in 0 .. most
<1>1. IsFiniteSet(KeyParts) /\ Cardinality(KeyParts) \in Nat
  BY KeyPartsFinite, FS_CardinalityType
<1>2. ASSUME NEW pos \in 1 .. d PROVE Card(n, pos) \in 0 .. Cardinality(KeyParts)
  <2>1. DOMAIN n.edges[pos] = PartsAt(es, pos)
    BY DEF CanonicalEdges
  <2>2. PartsAt(es, pos) \in SUBSET KeyParts
    BY PartsAtType
  <2>3. Cardinality(PartsAt(es, pos)) \in Nat /\ Cardinality(PartsAt(es, pos)) <= Cardinality(KeyParts)
    BY <1>1, <2>2, FS_Subset, FS_CardinalityType
  <2> QED
    BY <1>1, <2>1, <2>3 DEF Card
<1> QED
  BY <1>1, <1>2

\* The child that resolve finds has the entries below the key part.
LEMMA ResolvedChild ==
    ASSUME TypeOK, NodesCanonical, NEW N, Kept(N), NEW d \in Depths, NEW id, Readable(N, d, id), is_fn(id),
           NEW pos \in 1 .. d, NEW kp
    PROVE  /\ resolve(fns[d][id], pos, kp) = RawIdentifier(SubEntries(id.es, pos, kp))
           /\ Readable(N, d - 1, RawIdentifier(SubEntries(id.es, pos, kp)))
           /\ RawIdentifier(SubEntries(id.es, pos, kp)).es = SubEntries(id.es, pos, kp)
<1>0. d - 1 \in 0 .. MaxDepth
  BY MaxDepthAssumption DEF Depths
<1>1. /\ id.es \in SUBSET Keys(d)
      /\ DOMAIN fns[d][id].edges[pos] = PartsAt(id.es, pos)
      /\ kp \in PartsAt(id.es, pos) =>
           /\ fns[d][id].edges[pos][kp] = RawIdentifier(SubEntries(id.es, pos, kp))
           /\ Readable(N, d - 1, RawIdentifier(SubEntries(id.es, pos, kp)))
  BY ReadFullNode
<1>2. RawIdentifier(SubEntries(id.es, pos, kp)).es = SubEntries(id.es, pos, kp)
  BY <1>0, <1>1, SubEntriesType, RawIdentifierFacts
<1>3. CASE kp \in PartsAt(id.es, pos)
  BY <1>1, <1>2, <1>3 DEF resolve
<1>4. CASE kp \notin PartsAt(id.es, pos)
  <2>1. SubEntries(id.es, pos, kp) = {}
    BY <1>4, SubEntriesEmpty
  <2>2. RawIdentifier(SubEntries(id.es, pos, kp)) = NoId
    BY <2>1 DEF RawIdentifier
  <2>3. Readable(N, d - 1, NoId)
    BY IdentifierTypes DEF Readable, Canonical, RawIdentifier, NoId, Counted, empty
  <2> QED
    BY <1>1, <1>2, <1>4, <2>2, <2>3 DEF resolve
<1> QED
  BY <1>3, <1>4

\* get finds a key in an intact node if and only if it is one of its entries.
LEMMA GetExact ==
    ASSUME TypeOK, NodesCanonical, NEW N, Kept(N)
    PROVE  \A d \in 0 .. MaxDepth : \A id : Readable(N, d, id) =>
              \A key \in Keys(d) : (Get[d][id][key] <=> key \in id.es)
<1> DEFINE T == {d \in 0 .. MaxDepth : \A id : Readable(N, d, id) =>
                   \A key \in Keys(d) : (Get[d][id][key] <=> key \in id.es)}
<1>1. 0 \in T
  <2>1. ASSUME NEW id, Readable(N, 0, id), NEW key \in Keys(0) PROVE (Get[0][id][key] <=> key \in id.es)
    <3>1. id \in RawIdentifiers(0) /\ Canonical(id)
      BY <2>1 DEF Readable
    <3>2. Get[0] = GetBody(Get[0 - 1], 0)
      BY GetEquation, MaxDepthAssumption
    <3>3. Get[0][id][key] <=> ~empty(id)
      BY <3>1, <3>2 DEF GetBody
    <3>4. key = <<>> /\ id.es = IF empty(id) THEN {} ELSE {<<>>}
      BY <3>1, DepthZero
    <3>5. CASE empty(id)
      BY <3>3, <3>4, <3>5
    <3>6. CASE ~empty(id)
      BY <3>3, <3>4, <3>6
    <3> QED
      BY <3>5, <3>6
  <2> QED
    BY <2>1, MaxDepthAssumption
<1>2. ASSUME NEW d \in Depths, d - 1 \in T PROVE d \in T
  <2>0. d \in 0 .. MaxDepth /\ d # 0 /\ d \in Nat /\ 1 .. d # {}
    BY MaxDepthAssumption DEF Depths
  <2>1. ASSUME NEW id, Readable(N, d, id), NEW key \in Keys(d) PROVE (Get[d][id][key] <=> key \in id.es)
    <3>1. id \in RawIdentifiers(d)
      BY <2>1 DEF Readable
    <3>2. Get[d] = GetBody(Get[d - 1], d)
      BY <2>0, GetEquation
    <3>3. CASE empty(id)
      <4>1. ~Get[d][id][key]
        BY <3>1, <3>2, <3>3 DEF GetBody
      <4>2. id.es = {}
        BY <3>3 DEF empty, NoId
      <4> QED
        BY <4>1, <4>2
    <3>4. CASE is_sen(id)
      <4>1. Get[d][id][key] = (key \in SenKeys(d, id))
        BY <2>0, <3>1, <3>2, <3>4 DEF GetBody, is_sen
      <4> QED
        BY <2>1, <3>4, <4>1, ReadSingleEntry
    <3>5. CASE is_fn(id)
      <4> DEFINE pos == min_card_pos(fns[d][id], 1 .. d)
                 c == RawIdentifier(SubEntries(id.es, pos, key[pos]))
      <4>1. id.es \in SUBSET Keys(d) /\ fns[d][id].edges = CanonicalEdges(d, id.es)
        BY <2>1, <3>5, ReadFullNode
      <4>2. pos \in 1 .. d
        <5>1. \E most \in Nat : \A q \in 1 .. d : Card(fns[d][id], q) \in 0 .. most
          BY <4>1, CanonicalCards
        <5> QED
          BY <2>0, <5>1, ChosenPosition
      <4>3. Get[d][id][key] = Get[d - 1][resolve(fns[d][id], pos, key[pos])][subkey(key, pos)]
        BY <2>0, <3>1, <3>2, <3>5 DEF GetBody, is_fn, is_sen
      <4> HIDE DEF pos
      <4>4. /\ resolve(fns[d][id], pos, key[pos]) = c /\ Readable(N, d - 1, c)
            /\ c.es = SubEntries(id.es, pos, key[pos])
        BY <2>1, <3>5, <4>2, ResolvedChild
      <4>5. subkey(key, pos) \in Keys(d - 1)
        BY <4>2, SubkeyType
      <4> HIDE DEF c
      <4>6. Get[d - 1][c][subkey(key, pos)] <=> subkey(key, pos) \in c.es
        BY <1>2, <4>4, <4>5
      <4>7. subkey(key, pos) \in SubEntries(id.es, pos, key[pos]) <=> key \in id.es
        <5>1. \A k \in id.es : k[pos] = key[pos] /\ subkey(k, pos) = subkey(key, pos) => k = key
          BY <4>1, <4>2, SubkeyInjective
        <5> QED
          BY <5>1 DEF SubEntries
      <4> QED
        BY <4>3, <4>4, <4>6, <4>7
    <3> QED
      BY <3>3, <3>4, <3>5, <3>1 DEF is_fn, is_sen, RawIdentifiers, Tags
  <2> QED
    BY <2>0, <2>1
<1>3. Inductive(T)
  BY <1>1, <1>2 DEF Inductive
<1>4. \A d \in 0 .. MaxDepth : d \in T
  <2> HIDE DEF T
  <2> QED
    BY <1>3, DepthInduction
<1> QED
  BY <1>4

-----------------------------------------------------------------------------
(* retrieve_remaining.                                                     *)

AtMostOne(S) == \A x, y \in S : x = y

\* The entries of which one remains are found below one key part.
LEMMA RemainingBelow ==
    ASSUME NEW d \in Depths, NEW es \in SUBSET Keys(d), NEW R \in SUBSET es, AtMostOne(es \ R),
           NEW pos \in 1 .. d, NEW kp
    PROVE  /\ SubEntries(R, pos, kp) \in SUBSET SubEntries(es, pos, kp)
           /\ SubEntries(es \ R, pos, kp) = SubEntries(es, pos, kp) \ SubEntries(R, pos, kp)
           /\ AtMostOne(SubEntries(es, pos, kp) \ SubEntries(R, pos, kp))
<1>1. SubEntries(R, pos, kp) \in SUBSET SubEntries(es, pos, kp)
  BY SubEntriesMonotone
<1>2. SubEntries(es \ R, pos, kp) = SubEntries(es, pos, kp) \ SubEntries(R, pos, kp)
  BY SubEntriesDifference
<1>3. AtMostOne(SubEntries(es \ R, pos, kp))
  BY DEF AtMostOne, SubEntries
<1> QED
  BY <1>1, <1>2, <1>3

\* Putting the key parts back into what is found below them.
LEMMA CombineAll ==
    ASSUME NEW d \in Depths, NEW es \in SUBSET Keys(d), NEW S \in SUBSET es, NEW pos \in 1 .. d
    PROVE  UNION {{combine_res(d, pos, kp, k) : k \in SubEntries(S, pos, kp)} : kp \in PartsAt(es, pos)} = S
<1> DEFINE U == UNION {{combine_res(d, pos, kp, k) : k \in SubEntries(S, pos, kp)} : kp \in PartsAt(es, pos)}
<1>1. \A e \in es : combine_res(d, pos, e[pos], subkey(e, pos)) = e
  BY CombineSubkey
<1>2. ASSUME NEW x \in U PROVE x \in S
  <2>1. PICK kp \in PartsAt(es, pos) : x \in {combine_res(d, pos, kp, k) : k \in SubEntries(S, pos, kp)}
    BY <1>2
  <2>2. PICK k \in SubEntries(S, pos, kp) : x = combine_res(d, pos, kp, k)
    BY <2>1
  <2>3. PICK e \in S : e[pos] = kp /\ k = subkey(e, pos)
    BY <2>2 DEF SubEntries
  <2> QED
    BY <1>1, <2>2, <2>3
<1>3. ASSUME NEW e \in S PROVE e \in U
  <2>1. e[pos] \in PartsAt(es, pos) /\ subkey(e, pos) \in SubEntries(S, pos, e[pos])
    BY DEF PartsAt, SubEntries
  <2>2. e \in {combine_res(d, pos, e[pos], k) : k \in SubEntries(S, pos, e[pos])}
    BY <1>1, <2>1
  <2> QED
    BY <2>1, <2>2
<1> QED
  BY <1>2, <1>3

\* If all entries of an intact full node but at most one are given,
\* retrieve_remaining finds the other one.
LEMMA RemainingExact ==
    ASSUME TypeOK, NodesCanonical, NEW N, Kept(N)
    PROVE  \A d \in 0 .. MaxDepth : \A id : Readable(N, d, id) /\ is_fn(id) =>
              \A R \in SUBSET id.es : AtMostOne(id.es \ R) => Remaining[d][id][R] = id.es \ R
<1> DEFINE T == {d \in 0 .. MaxDepth : \A id : Readable(N, d, id) /\ is_fn(id) =>
                   \A R \in SUBSET id.es : AtMostOne(id.es \ R) => Remaining[d][id][R] = id.es \ R}
<1>1. 0 \in T
  <2>1. \A id : Readable(N, 0, id) => ~is_fn(id)
    BY DepthZero DEF Readable
  <2> QED
    BY <2>1, MaxDepthAssumption
<1>2. ASSUME NEW d \in Depths, d - 1 \in T PROVE d \in T
  <2>0. d \in 0 .. MaxDepth /\ d # 0 /\ d \in Nat /\ 1 .. d # {} /\ d - 1 \in 0 .. MaxDepth
    BY MaxDepthAssumption DEF Depths
  <2>1. ASSUME NEW id, Readable(N, d, id), is_fn(id), NEW R \in SUBSET id.es, AtMostOne(id.es \ R)
        PROVE  Remaining[d][id][R] = id.es \ R
    <3> DEFINE pos == max_card_pos(fns[d][id], 1 .. d)
               edges == fns[d][id].edges[pos]
               below(kp) ==
                   IF kp \in PartsAt(R, pos)
                   THEN IF is_sen(edges[kp]) THEN {}
                        ELSE Remaining[d - 1][edges[kp]][SubEntries(R, pos, kp)]
                   ELSE IF d = 1 THEN {<<>>} ELSE SenKeys(d - 1, edges[kp])
    <3>1. id \in RawIdentifiers(d)
      BY <2>1 DEF Readable
    <3>2. Remaining[d] = RemainingBody(Remaining[d - 1], d)
      BY <2>0, RemainingEquation
    <3>3. /\ id \in DOMAIN fns[d] /\ id.es \in SUBSET Keys(d)
          /\ fns[d][id].edges = CanonicalEdges(d, id.es)
      BY <2>1, ReadFullNode
    <3>4. Remaining[d][id][R] = UNION {{combine_res(d, pos, kp, k) : k \in below(kp)} : kp \in DOMAIN edges}
      <4>1. R \in SUBSET Keys(d)
        BY <3>3
      <4>2. Remaining[d][id][R] = RemainingHere(Remaining[d - 1], d, id, R)
        BY <2>0, <3>1, <3>2, <3>3, <4>1 DEF RemainingBody
      <4> QED
        BY <4>2 DEF RemainingHere
    <3>5. pos \in 1 .. d
      <4>1. \E most \in Nat : \A q \in 1 .. d : Card(fns[d][id], q) \in 0 .. most
        BY <3>3, CanonicalCards
      <4> QED
        BY <2>0, <4>1, ChosenPosition
    <3> HIDE DEF pos
    <3>6. /\ DOMAIN edges = PartsAt(id.es, pos)
          /\ \A kp \in PartsAt(id.es, pos) :
               /\ edges[kp] = RawIdentifier(SubEntries(id.es, pos, kp))
               /\ Readable(N, d - 1, RawIdentifier(SubEntries(id.es, pos, kp)))
      BY <2>1, <3>5, ReadFullNode
    <3>7. ASSUME NEW kp \in PartsAt(id.es, pos) PROVE below(kp) = SubEntries(id.es \ R, pos, kp)
      <4> DEFINE c == edges[kp]
                 sub == SubEntries(R, pos, kp)
      <4>1. /\ Readable(N, d - 1, c) /\ c = RawIdentifier(SubEntries(id.es, pos, kp))
            /\ c.es = SubEntries(id.es, pos, kp)
        BY <2>1, <3>5, <3>6, ResolvedChild
      <4>2. /\ sub \in SUBSET c.es /\ SubEntries(id.es \ R, pos, kp) = c.es \ sub
            /\ AtMostOne(c.es \ sub)
        <5>1. /\ SubEntries(R, pos, kp) \in SUBSET SubEntries(id.es, pos, kp)
              /\ SubEntries(id.es \ R, pos, kp) = SubEntries(id.es, pos, kp) \ SubEntries(R, pos, kp)
              /\ AtMostOne(SubEntries(id.es, pos, kp) \ SubEntries(R, pos, kp))
          BY <2>1, <3>3, <3>5, RemainingBelow
        <5> QED
          BY <4>1, <5>1
      <4>3. c.es # {} /\ ~empty(c) /\ (is_sen(c) \/ is_fn(c)) /\ c \in RawIdentifiers(d - 1) /\ Canonical(c)
        <5>1. c.es # {}
          BY <4>1, SubEntriesEmpty
        <5>2. c \in RawIdentifiers(d - 1) /\ Canonical(c)
          BY <4>1 DEF Readable
        <5>3. ~empty(c)
          BY <5>1 DEF empty, NoId
        <5> QED
          BY <5>1, <5>2, <5>3 DEF is_sen, is_fn, RawIdentifiers, Tags
      <4>4. kp \in PartsAt(R, pos) <=> sub # {}
        BY SubEntriesEmpty
      <4>5. c.es \in SUBSET Keys(d - 1) /\ (is_sen(c) => Cardinality(c.es) = 1) /\ (is_fn(c) => Cardinality(c.es) > 1)
        <5>1. c.es \in SUBSET Keys(d - 1)
          BY <4>3, IdentifierTypes
        <5>2. c = RawIdentifier(c.es)
          BY <4>3 DEF Canonical
        <5> QED
          BY <2>0, <5>1, <5>2, RawIdentifierFacts
      <4>6. IsFiniteSet(c.es)
        BY <2>0, <4>5, EntriesFinite
      <4>7. below(kp) = IF kp \in PartsAt(R, pos)
                        THEN IF is_sen(c) THEN {} ELSE Remaining[d - 1][c][sub]
                        ELSE IF d = 1 THEN {<<>>} ELSE SenKeys(d - 1, c)
        OBVIOUS
      <4> HIDE DEF c, sub, below
      <4>8. CASE kp \in PartsAt(R, pos) /\ is_sen(c)
        <5>1. PICK x : c.es = {x}
          BY <4>5, <4>6, <4>8, FS_Singleton
        <5>2. sub = c.es
          BY <4>2, <4>4, <4>8, <5>1
        <5> QED
          BY <4>2, <4>7, <4>8, <5>2
      <4>9. CASE kp \in PartsAt(R, pos) /\ ~is_sen(c)
        <5>1. Remaining[d - 1][c][sub] = c.es \ sub
          BY <1>2, <4>1, <4>2, <4>3, <4>9
        <5> QED
          BY <4>2, <4>7, <4>9, <5>1
      <4>10. CASE kp \notin PartsAt(R, pos)
        <5>1. sub = {} /\ c.es \ sub = c.es
          BY <4>4, <4>10
        <5>2. CASE d = 1
          <6>1. c \in RawIdentifiers(0) /\ Canonical(c)
            BY <4>3, <5>2
          <6>2. c.es = {<<>>}
            BY <4>3, <6>1, DepthZero
          <6> QED
            BY <4>2, <4>7, <4>10, <5>1, <5>2, <6>2
        <5>3. CASE d # 1
          <6>1. d - 1 \in Depths
            BY <2>0, <5>3, MaxDepthAssumption DEF Depths
          <6>2. ~is_fn(c)
            <7>1. PICK x : x \in c.es
              BY <4>3
            <7>2. c.es = {x}
              BY <4>2, <5>1, <7>1 DEF AtMostOne
            <7>3. Cardinality(c.es) = 1
              BY <7>2, FS_Singleton
            <7> QED
              BY <4>5, <7>3
          <6>3. SenKeys(d - 1, c) = c.es
            BY <4>1, <4>3, <6>1, <6>2, ReadSingleEntry
          <6> QED
            BY <4>2, <4>7, <4>10, <5>1, <5>3, <6>3
        <5> QED
          BY <5>2, <5>3
      <4> QED
        BY <4>8, <4>9, <4>10
    <3> HIDE DEF edges, below
    <3>8. Remaining[d][id][R] =
            UNION {{combine_res(d, pos, kp, k) : k \in SubEntries(id.es \ R, pos, kp)} : kp \in PartsAt(id.es, pos)}
      BY <3>4, <3>6, <3>7
    <3>9. id.es \ R \in SUBSET id.es
      OBVIOUS
    <3> QED
      BY <3>3, <3>5, <3>8, <3>9, CombineAll
  <2> QED
    BY <2>0, <2>1
<1>3. Inductive(T)
  BY <1>1, <1>2 DEF Inductive
<1>4. \A d \in 0 .. MaxDepth : d \in T
  <2> HIDE DEF T
  <2> QED
    BY <1>3, DepthInduction
<1> QED
  BY <1>4

-----------------------------------------------------------------------------
(* Reading between operations.                                             *)

\* All nodes that are stored.
AllStored == [d \in Depths |-> DOMAIN fns[d] \cup DOMAIN sens[d]]

\* Between operations the stored nodes can be read, and so can Hypertries.
LEMMA ReadableIdle ==
    ASSUME TypeOK, CanonicalInv, CountInv, Idle
    PROVE  /\ Kept(AllStored)
           /\ \A h \in Handles : Readable(AllStored, HandleDepth[h], nodec[h])
           /\ \A d \in Depths : \A id \in DOMAIN fns[d] : Readable(AllStored, d, id) /\ is_fn(id)
<1>1. Kept(AllStored)
  <2>1. \A d \in Depths : AllStored[d] = DOMAIN fns[d] \cup DOMAIN sens[d]
    BY DEF AllStored
  <2>2. \A d \in Depths \ {1} : d - 1 \in Depths
    BY MaxDepthAssumption DEF Depths
  <2> QED
    BY <2>1, <2>2, StorageReaches DEF Kept
<1>2. ASSUME NEW h \in Handles PROVE Readable(AllStored, HandleDepth[h], nodec[h])
  <2>1. HandleDepth[h] \in Depths /\ nodec[h] \in RawIdentifiers(HandleDepth[h]) /\ Canonical(nodec[h])
    BY HandleAssumption DEF TypeOK, HandlesOK, CanonicalInv
  <2> QED
    BY <2>1, StorageReaches DEF Readable, AllStored
<1>3. ASSUME NEW d \in Depths, NEW id \in DOMAIN fns[d] PROVE Readable(AllStored, d, id) /\ is_fn(id)
  <2>1. d \in 0 .. MaxDepth
    BY MaxDepthAssumption DEF Depths
  <2>2. id \in RawIdentifiers(d) /\ Cardinality(id.es) > 1 /\ id = RawIdentifier(id.es)
    BY DEF TypeOK, StorageOK, CanonicalInv, NodesCanonical
  <2>3. is_fn(id)
    BY <2>1, <2>2, RawIdentifierFacts, IdentifierTypes
  <2> QED
    BY <2>2, <2>3 DEF Readable, Canonical, AllStored
<1> QED
  BY <1>1, <1>2, <1>3

\* Between operations, get answers for every key of every Hypertrie whether it
\* is in it, whatever positions min_card_pos prefers on the way down.
THEOREM GetFindsWhatWasPut == Spec => []GetAgrees
<1>1. TypeOK /\ CanonicalInv /\ CountInv => GetAgrees
  <2> SUFFICES ASSUME TypeOK, CanonicalInv, CountInv, Idle, NEW h \in live, NEW k \in HandleKeys[h]
               PROVE  get(HandleDepth[h], nodec[h], k) <=> k \in nodec[h].es
    BY DEF GetAgrees
  <2>1. h \in Handles /\ HandleDepth[h] \in 0 .. MaxDepth /\ k \in Keys(HandleDepth[h])
    BY HandleAssumption DEF TypeOK, HandlesOK, Depths
  <2>2. Get[HandleDepth[h]][nodec[h]][k] <=> k \in nodec[h].es
    BY <2>1, ReadableIdle, GetExact DEF CanonicalInv
  <2> QED
    BY <2>2 DEF get
<1> QED
  BY <1>1, CountsAlways, PTL

\* Between operations, and thus whenever a removal begins, the entry that would
\* be left over of a stored full node is found by retrieve_remaining, whichever
\* entry that is: the walk that takes the position with the most edges at each
\* node, skips edges that are removed as a whole and descends into those that
\* are removed in part ends at this entry and finds no other.
THEOREM LastEntryFound == Spec => []RemainingEntryFound
<1>1. TypeOK /\ CanonicalInv /\ CountInv => RemainingEntryFound
  <2> SUFFICES ASSUME TypeOK, CanonicalInv, CountInv, Idle,
                      NEW d \in Depths, NEW id \in DOMAIN fns[d], NEW k \in id.es
               PROVE  retrieve_remaining(d, id, id.es \ {k}) = {k}
    BY DEF RemainingEntryFound
  <2>1. d \in 0 .. MaxDepth
    BY MaxDepthAssumption DEF Depths
  <2> DEFINE R == id.es \ {k}
  <2>2. id.es \ R = {k} /\ R \in SUBSET id.es
    OBVIOUS
  <2>3. AtMostOne({k})
    BY DEF AtMostOne
  <2>4. Readable(AllStored, d, id) /\ is_fn(id) /\ Kept(AllStored) /\ NodesCanonical
    BY ReadableIdle DEF CanonicalInv
  <2> HIDE DEF R
  <2>5. Remaining[d][id][R] = {k}
    BY <2>1, <2>2, <2>3, <2>4, RemainingExact
  <2> QED
    BY <2>5 DEF retrieve_remaining, R
<1> QED
  BY <1>1, CountsAlways, PTL

-----------------------------------------------------------------------------
(* slice.                                                                  *)

\* What slice returns of an intact node: the node of the matching entries, and
\* if that is a full node, one that is kept.
SliceIsExact(N, d, id, fixed) ==
    /\ Slice[d][id][fixed] = RawIdentifier(SliceOf(id.es, fixed))
    /\ is_fn(Slice[d][id][fixed]) /\ Cardinality(DOMAIN fixed) < d =>
          Slice[d][id][fixed] \in N[d - Cardinality(DOMAIN fixed)]

LEMMA SliceExact ==
    ASSUME TypeOK, NodesCanonical, NEW N, Kept(N)
    PROVE  \A d \in 0 .. MaxDepth : \A id : Readable(N, d, id) =>
              \A fixed \in SliceKeys(d) : SliceIsExact(N, d, id, fixed)
<1> DEFINE T == {d \in 0 .. MaxDepth : \A id : Readable(N, d, id) =>
                   \A fixed \in SliceKeys(d) : SliceIsExact(N, d, id, fixed)}
<1>0. ASSUME NEW d \in 0 .. MaxDepth, NEW id, Readable(N, d, id), NEW fixed \in SliceKeys(d),
             empty(id) \/ DOMAIN fixed = {}
      PROVE  SliceIsExact(N, d, id, fixed)
  <2>1. id \in RawIdentifiers(d) /\ id = RawIdentifier(id.es) /\ id.es \in SUBSET Keys(d)
    BY <1>0, IdentifierTypes DEF Readable, Canonical
  <2>2. Slice[d] = SliceBody(Slice[d - 1], d)
    BY SliceEquation
  <2>3. Slice[d][id][fixed] = id
    BY <1>0, <2>1, <2>2 DEF SliceBody
  <2>4. CASE empty(id)
    <3>1. id.es = {} /\ ~is_fn(id)
      BY <2>4 DEF empty, NoId, is_fn
    <3>2. SliceOf(id.es, fixed) = id.es
      BY <3>1 DEF SliceOf
    <3> QED
      BY <2>1, <2>3, <3>1, <3>2 DEF SliceIsExact
  <2>5. CASE DOMAIN fixed = {}
    <3>1. SliceOf(id.es, fixed) = id.es
      BY <2>1, <2>5, SliceNothing
    <3>2. Cardinality(DOMAIN fixed) = 0 /\ d - 0 = d
      BY <2>5, FS_EmptySet
    <3>3. is_fn(id) /\ 0 < d => id \in N[d]
      BY <1>0 DEF Readable, Counted, in_place, is_fn, is_sen
    <3> QED
      BY <2>1, <2>3, <3>1, <3>2, <3>3 DEF SliceIsExact
  <2> QED
    BY <1>0, <2>4, <2>5
<1>1. 0 \in T
  <2>1. ASSUME NEW fixed \in SliceKeys(0) PROVE DOMAIN fixed = {}
    <3>1. PICK positions \in SUBSET (1 .. 0) : fixed \in [positions -> KeyParts]
      BY DEF SliceKeys
    <3> QED
      BY <3>1
  <2> QED
    BY <1>0, <2>1, MaxDepthAssumption
<1>2. ASSUME NEW d \in Depths, d - 1 \in T PROVE d \in T
  <2>0. d \in 0 .. MaxDepth /\ d # 0 /\ d \in Nat /\ d - 1 \in Nat
    BY MaxDepthAssumption DEF Depths
  <2>1. ASSUME NEW id, Readable(N, d, id), NEW fixed \in SliceKeys(d) PROVE SliceIsExact(N, d, id, fixed)
    <3> DEFINE P == DOMAIN fixed
               found == Slice[d][id][fixed]
    <3>0. P \in SUBSET (1 .. d) /\ fixed \in [P -> KeyParts]
      <4>1. PICK Q \in SUBSET (1 .. d) : fixed \in [Q -> KeyParts]
        BY DEF SliceKeys
      <4> QED
        BY <4>1
    <3>1. id \in RawIdentifiers(d) /\ id = RawIdentifier(id.es) /\ id.es \in SUBSET Keys(d)
      BY <2>1, IdentifierTypes DEF Readable, Canonical
    <3>2. Slice[d] = SliceBody(Slice[d - 1], d)
      BY <2>0, SliceEquation
    <3>3. CASE empty(id) \/ P = {}
      BY <1>0, <2>0, <2>1, <3>3
    <3>4. CASE is_sen(id) /\ P # {}
      <4>1. found = RawIdentifier({Project(k, fixed) : k \in {x \in SenKeys(d, id) : Matches(x, fixed)}})
        BY <3>1, <3>2, <3>4 DEF SliceBody, is_sen
      <4>2. SenKeys(d, id) = id.es
        BY <2>1, <3>4, ReadSingleEntry
      <4>3. found = RawIdentifier(SliceOf(id.es, fixed))
        BY <4>1, <4>2 DEF SliceOf
      <4>4. Cardinality(id.es) = 1 /\ IsFiniteSet(id.es)
        BY <2>0, <3>1, <3>4, RawIdentifierFacts, EntriesFinite
      <4>5. PICK x : id.es = {x}
        BY <4>4, FS_Singleton
      <4>6. SliceOf(id.es, fixed) = {} \/ SliceOf(id.es, fixed) = {Project(x, fixed)}
        BY <4>5 DEF SliceOf
      <4>7. Cardinality({Project(x, fixed)}) = 1
        BY FS_Singleton
      <4>8. ~is_fn(found)
        BY <4>3, <4>6, <4>7 DEF RawIdentifier, is_fn, empty
      <4> QED
        BY <4>3, <4>8 DEF SliceIsExact
    <3>5. CASE is_fn(id) /\ P # {}
      <4> DEFINE pos == min_card_pos(fns[d][id], P)
                 c == RawIdentifier(SubEntries(id.es, pos, fixed[pos]))
                 s == Shift(fixed, pos)
      <4>1. fns[d][id].edges = CanonicalEdges(d, id.es)
        BY <2>1, <3>5, ReadFullNode
      <4>2. pos \in P /\ pos \in 1 .. d
        <5>1. \E most \in Nat : \A q \in 1 .. d : Card(fns[d][id], q) \in 0 .. most
          BY <3>1, <4>1, CanonicalCards
        <5>2. PICK most \in Nat : \A q \in P : Card(fns[d][id], q) \in 0 .. most
          BY <3>0, <5>1
        <5>3. min_card_pos(fns[d][id], P) \in P
          BY <2>0, <3>0, <3>5, <5>2, ChosenPosition
        <5> QED
          BY <3>0, <5>3
      <4>3. found = Slice[d - 1][resolve(fns[d][id], pos, fixed[pos])][s]
        BY <3>1, <3>2, <3>5 DEF SliceBody, is_fn, is_sen
      <4> HIDE DEF pos
      <4>4. /\ resolve(fns[d][id], pos, fixed[pos]) = c /\ Readable(N, d - 1, c)
            /\ c.es = SubEntries(id.es, pos, fixed[pos])
        BY <2>1, <3>5, <4>2, ResolvedChild
      <4>5. s \in SliceKeys(d - 1) /\ Cardinality(DOMAIN s) = Cardinality(P) - 1 /\ IsFiniteSet(P)
        BY <3>0, <4>2, ShiftFacts
      <4>6. SliceOf(c.es, s) = SliceOf(id.es, fixed)
        BY <3>0, <3>1, <4>2, <4>4, SliceBelow
      <4> HIDE DEF c, s
      <4>7. SliceIsExact(N, d - 1, c, s)
        BY <1>2, <4>4, <4>5
      <4>8. Cardinality(P) \in Nat
        BY <4>5, FS_CardinalityType
      <4>9. found = Slice[d - 1][c][s]
        BY <4>3, <4>4
      <4> HIDE DEF found, P
      <4>10. Cardinality(P) < d => Cardinality(DOMAIN s) < d - 1 /\ d - 1 - Cardinality(DOMAIN s) = d - Cardinality(P)
        BY <2>0, <4>5, <4>8
      <4>11. found = RawIdentifier(SliceOf(id.es, fixed))
        BY <4>6, <4>7, <4>9 DEF SliceIsExact
      <4>12. is_fn(found) /\ Cardinality(P) < d => found \in N[d - Cardinality(P)]
        BY <4>7, <4>9, <4>10 DEF SliceIsExact
      <4> QED
        BY <4>11, <4>12 DEF SliceIsExact, found, P
    <3> QED
      BY <3>1, <3>3, <3>4, <3>5 DEF is_fn, is_sen, RawIdentifiers, Tags
  <2> QED
    BY <2>0, <2>1
<1>3. Inductive(T)
  BY <1>1, <1>2 DEF Inductive
<1>4. \A d \in 0 .. MaxDepth : d \in T
  <2> HIDE DEF T
  <2> QED
    BY <1>3, DepthInduction
<1> QED
  BY <1>4

\* Between operations, a slice (and thus a diagonal slice) of a Hypertrie is
\* the node of exactly the matching entries, whatever positions min_card_pos
\* prefers on the way down and however they are renumbered below them, and
\* a slice that is a full node refers to a stored one.
THEOREM SlicesExact == Spec => []SliceAgrees
<1>1. TypeOK /\ CanonicalInv /\ CountInv => SliceAgrees
  <2> DEFINE Correct(h, positions, fixed) ==
          LET found == slice(HandleDepth[h], nodec[h], fixed)
          IN  /\ found = RawIdentifier({Project(k, fixed) :
                             k \in {x \in nodec[h].es : Matches(x, fixed)}})
              /\ is_fn(found) => found \in DOMAIN fns[HandleDepth[h] - Cardinality(positions)]
  <2> SUFFICES ASSUME TypeOK, CanonicalInv, CountInv, Idle,
                      NEW h \in live, NEW positions \in SUBSET (1 .. HandleDepth[h]),
                      Cardinality(positions) < HandleDepth[h], NEW fixed \in [positions -> KeyParts]
               PROVE  Correct(h, positions, fixed)
    BY DEF SliceAgrees
  <2> DEFINE d == HandleDepth[h]
             id == nodec[h]
             e == d - Cardinality(positions)
             found == Slice[d][id][fixed]
  <2>1. h \in Handles /\ d \in 0 .. MaxDepth /\ d \in Depths /\ d \in Nat
    BY HandleAssumption, MaxDepthAssumption DEF TypeOK, HandlesOK, Depths
  <2>2. Readable(AllStored, d, id) /\ Kept(AllStored) /\ NodesCanonical
    BY <2>1, ReadableIdle DEF CanonicalInv
  <2>3. fixed \in SliceKeys(d) /\ DOMAIN fixed = positions
    BY DEF SliceKeys
  <2>4. SliceIsExact(AllStored, d, id, fixed)
    BY <2>1, <2>2, <2>3, SliceExact
  <2>5. e \in Depths
    <3>1. d \in Int /\ positions \in SUBSET (1 .. d)
      BY <2>1
    <3>2. Cardinality(positions) \in Nat
      BY <3>1, PositionsFinite
    <3>3. d \in 1 .. MaxDepth
      BY <2>1 DEF Depths
    <3> QED
      BY <3>2, <3>3, MaxDepthAssumption DEF Depths
  <2> HIDE DEF d, id, e
  <2>6. found = RawIdentifier(SliceOf(id.es, fixed)) /\ (is_fn(found) => found \in AllStored[e])
    BY <2>3, <2>4 DEF SliceIsExact, d, e
  <2>7. found \in DOMAIN sens[e] => Cardinality(found.es) = 1 /\ found = RawIdentifier(found.es)
    BY <2>2, <2>5 DEF NodesCanonical
  <2> HIDE DEF found
  <2>8. is_fn(found) => found \notin DOMAIN sens[e]
    BY <2>7 DEF RawIdentifier, is_fn, empty
  <2>9. is_fn(found) => found \in DOMAIN fns[e]
    BY <2>5, <2>6, <2>8 DEF AllStored
  <2> QED
    BY <2>6, <2>9 DEF slice, SliceOf, found, d, id, e
<1> QED
  BY <1>1, CountsAlways, PTL

=============================================================================

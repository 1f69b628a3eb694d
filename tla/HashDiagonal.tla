---------------------------- MODULE HashDiagonal ----------------------------
(***************************************************************************)
(* Diagonals of hypertries (HashDiagonal.hpp, RawHashDiagonal.hpp and      *)
(* diagonal_slice of RawHypertrieContext).                                 *)
(*                                                                         *)
(* A hypertrie operand is a depth and a set of keys.  Its nodes are the    *)
(* canonical ones (NodesCanonical of NodeContext): the child of a node at  *)
(* position pos below kp has the entries SubEntries(es, pos, kp), and a    *)
(* node with one entry is a single entry node.                             *)
(*                                                                         *)
(* A diagonal is an object with an address.  A slice that is a node of the *)
(* storage is returned as such; a slice of a single entry node is not      *)
(* stored anywhere, it is written to the sen_cache_ of the diagonal and    *)
(* the result points to that cache.  The iteration order of hash maps is   *)
(* a nondeterministic choice: an operator that advances a diagonal returns *)
(* the set of diagonals that may result.                                   *)
(***************************************************************************)
EXTENDS JoinValues

CONSTANT Taggable   \* in-place single entries at depth 1 (taggable key part)

NoPart == "no key part"    \* the value-initialised key part, or an ended iterator
NoAddress == <<>>          \* nullptr

ASSUME NoPartAssumption == NoPart \notin KeyParts

\* hypertrie.size() > 1 decides which of the two raw diagonals is used.
is_full(o) == Cardinality(o.es) > 1

\* FullNode::min_card_pos: the first position with the fewest edges.
min_card_pos(es, poss) ==
    LET card(pos) == Cardinality(PartsAt(es, pos))
        least == {pos \in poss : \A q \in poss : card(pos) <= card(q)}
    IN  first_pos(least)

-----------------------------------------------------------------------------
(* SliceResult: "none" is the empty result, "node" a node of the storage,  *)
(* "cache" a single entry node at an address, "scalar" a true value.  es   *)
(* is what the identifier of the node says.                                *)

SliceResult(at, address, es) == [at |-> at, address |-> address, es |-> es]

EmptySlice == SliceResult("none", NoAddress, {})

is_empty(value) == value.at = "none"

\* The single entry es (at most one) of a slice, written to address.
\* In-place entries live in the identifier and need no cache.
SingleEntrySlice(result_depth, address, es) ==
    IF es = {} THEN EmptySlice
    ELSE IF Taggable /\ result_depth = 1 THEN SliceResult("cache", NoAddress, es)
    ELSE SliceResult("cache", address, es)

\* A function of the depth of the node, its entries and the positions.
diagonal_slice_rek(kp, address) ==
    LET rek[d \in 0 .. MaxDepth] ==
            [es \in SUBSET Keys(d) |-> [poss \in SUBSET (1 .. d) |->
                LET pos == min_card_pos(es, poss)
                    child == SubEntries(es, pos, kp)
                IN  IF Cardinality(es) = 1
                    THEN SingleEntrySlice(d - Cardinality(poss), address,
                                          SliceOf(es, Diagonal(poss, kp)))
                    ELSE IF child = {} THEN EmptySlice
                    ELSE IF Cardinality(poss) = 1 THEN SliceResult("node", NoAddress, child)
                    ELSE rek[d - 1][child][sub_raw_key_positions(poss, pos)]]]
    IN  rek

\* A diagonal that fixes every position is a lookup.
diagonal_slice(d, es, poss, kp, address) ==
    IF Cardinality(poss) = d
    THEN IF [i \in 1 .. d |-> kp] \in es THEN SliceResult("scalar", NoAddress, {<<>>})
         ELSE EmptySlice
    ELSE IF es = {} THEN EmptySlice
    ELSE diagonal_slice_rek(kp, address)[d][es][poss]

-----------------------------------------------------------------------------
(* The diagonal object.  rest holds the edges between iter_ and end_, kp   *)
(* is the key part of iter_; of the single entry variant, kp tells ended_. *)

\* The constructors.  The single entry variant computes its only slice.
NewDiagonal(o, poss, address) ==
    LET key  == CHOOSE k \in o.es : TRUE
        kp   == key[first_pos(poss)]
        only == SliceOf(o.es, Diagonal(poss, kp))
        rd   == o.depth - Cardinality(poss)
        value == IF is_full(o) \/ only = {} THEN EmptySlice
                 ELSE IF rd = 0 THEN SliceResult("scalar", NoAddress, only)
                 ELSE SliceResult("cache", address, only)
    IN  [op |-> o, poss |-> poss, rest |-> {}, kp |-> NoPart, value |-> value,
         cache |-> IF value.at = "cache" THEN value.es ELSE {}]

result_depth(g) == g.op.depth - Cardinality(g.poss)

\* is_diagonal_ of the single entry variant.
is_diagonal(g) == SliceOf(g.op.es, Diagonal(g.poss, (CHOOSE k \in g.op.es : TRUE)[first_pos(g.poss)])) # {}

\* value_ = v; a slice that refers to this diagonal's cache was written there.
Assign(g, v, address) ==
    [g EXCEPT !.value = v,
              !.cache = IF v.at = "cache" /\ v.address = address THEN v.es ELSE @]

\* retrieve_subdiagonal_value, and the child itself if only one position is fixed.
retrieve_value(g, kp, address) ==
    LET pos == min_card_pos(g.op.es, g.poss)
        child == SubEntries(g.op.es, pos, kp)
    IN  IF Cardinality(g.poss) > 1
        THEN diagonal_slice(g.op.depth - 1, child, sub_raw_key_positions(g.poss, pos), kp, address)
        ELSE IF result_depth(g) = 0 THEN SliceResult("scalar", NoAddress, {<<>>})
        ELSE SliceResult("node", NoAddress, child)

\* forward_until_result: the next edge with a non-empty slice, if there is one.
forward_to_next(g, address) ==
    {[Assign(g, retrieve_value(g, kp, address), address) EXCEPT !.kp = kp, !.rest = @ \ {kp}] :
        kp \in g.rest}
    \cup {[g EXCEPT !.kp = NoPart] : x \in {y \in {TRUE} : g.rest = {}}}

forward_until_result(g, address) ==
    LET hits == {kp \in g.rest : ~is_empty(retrieve_value(g, kp, address))}
    IN  IF hits = {} THEN {[g EXCEPT !.kp = NoPart, !.rest = {}]}
        ELSE {[Assign(g, retrieve_value(g, kp, address), address) EXCEPT
                  !.kp = kp, !.rest = @ \ {kp}] : kp \in hits}

\* begin starts at the position of the diagonal with the fewest edges.
begin(g, address) ==
    IF is_full(g.op)
    THEN forward_until_result(
             [g EXCEPT !.rest = PartsAt(g.op.es, min_card_pos(g.op.es, g.poss))], address)
    ELSE {[g EXCEPT !.kp = IF is_diagonal(g)
                           THEN (CHOOSE k \in g.op.es : TRUE)[first_pos(g.poss)] ELSE @]}

\* operator++ (mutant: starts again)
inc_begin(g, address) == begin(g, address)

inc(g, address) ==
    IF is_full(g.op) THEN forward_until_result(g, address) ELSE {[g EXCEPT !.kp = NoPart]}

ended(g) == g.kp = NoPart

\* find: the diagonal afterwards, and whether there is a slice for kp.
find(g, kp, address) ==
    IF is_full(g.op)
    THEN Assign(g, diagonal_slice(g.op.depth, g.op.es, g.poss, kp, address), address)
    ELSE g

found(g, kp, address) ==
    IF is_full(g.op) THEN ~is_empty(find(g, kp, address).value)
    ELSE is_diagonal(g) /\ kp = (CHOOSE k \in g.op.es : TRUE)[first_pos(g.poss)]

\* An upper bound for the number of slices.
diagonal_size(g) ==
    IF is_full(g.op) THEN Cardinality(PartsAt(g.op.es, min_card_pos(g.op.es, g.poss)))
    ELSE IF is_diagonal(g) THEN 1 ELSE 0

\* Copying, moving and swapping diagonals copies value_ and the cache, and
\* update_sen_cache_ptr lets the result point to the cache of its new owner.
update_no_ptr(g, address) == g

update_sen_cache_ptr(g, address) ==
    IF g.value.at = "cache" THEN [g EXCEPT !.value.address = address] ELSE g

=============================================================================

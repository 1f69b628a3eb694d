------------------------------ MODULE SliceKey ------------------------------
(***************************************************************************)
(* Slices of keys (RawSliceKey in RawKey.hpp, RawKeyPositions in           *)
(* RawDiagonalPositions.hpp).  A slice key is a function from the fixed    *)
(* positions to key parts; the positions of a diagonal are fixed to one    *)
(* and the same key part.                                                  *)
(***************************************************************************)
EXTENDS Identifier

SliceKeys(d) == UNION {[positions -> KeyParts] : positions \in SUBSET (1 .. d)}

\* A slice key fixes the positions of its domain; RawSliceKey::subkey_i
\* shifts the positions behind the removed one.
ShiftLate(fixed, pos) ==
    [p \in {IF q > pos THEN q - 1 ELSE q : q \in DOMAIN fixed \ {pos}} |->
        IF p > pos THEN fixed[p + 1] ELSE fixed[p]]

Shift(fixed, pos) ==
    [p \in {IF q > pos THEN q - 1 ELSE q : q \in DOMAIN fixed \ {pos}} |->
        IF p >= pos THEN fixed[p + 1] ELSE fixed[p]]

\* The members of a set of numbers in their order.
InOrder(S) == [j \in 1 .. Cardinality(S) |-> CHOOSE i \in S : Cardinality({q \in S : q <= i}) = j]

\* RawSliceKey::slice: the key without the fixed positions.
Project(k, fixed) ==
    LET free == InOrder({i \in 1 .. Len(k) : i \notin DOMAIN fixed})
    IN  [j \in DOMAIN free |-> k[free[j]]]

Matches(k, fixed) == \A pos \in DOMAIN fixed : k[pos] = fixed[pos]

\* RawKeyPositions: the slice key of a diagonal ...
Diagonal(poss, kp) == [pos \in poss |-> kp]

\* ... and the positions that are left below position pos.
sub_raw_key_positions(poss, pos) == DOMAIN Shift(Diagonal(poss, pos), pos)

first_pos(poss) == CHOOSE pos \in poss : \A q \in poss : pos <= q

\* The entries of a slice; what every way to compute a slice has to return.
SliceOf(es, fixed) == {Project(k, fixed) : k \in {x \in es : Matches(x, fixed)}}

=============================================================================

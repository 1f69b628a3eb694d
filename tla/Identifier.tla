----------------------------- MODULE Identifier -----------------------------
(***************************************************************************)
(* Keys, entries and node identifiers of a Boolean-valued hypertrie        *)
(* (RawKey.hpp, Identifier.hpp, EntrySubsetForPos.hpp).                    *)
(*                                                                         *)
(* A key of depth d is a tuple of d key parts, an entry is its key (the    *)
(* value of every stored entry is true).  An identifier is the xor of the  *)
(* hashes of the entries of the node plus a tag bit.  The model keeps what *)
(* the xor encodes, the set of entries, and is therefore free of hash      *)
(* collisions; xor becomes the symmetric difference.  The tag is kept as   *)
(* the code keeps it, as a field that is written separately.               *)
(* Positions count from 1, those of the code from 0.                       *)
(***************************************************************************)
EXTENDS Integers, Sequences, FiniteSets

CONSTANTS KeyParts,   \* key_part_type without the zero value
          MaxDepth    \* max_depth of the NodeStorage

Depths == 1 .. MaxDepth

Keys(d) == [1 .. d -> KeyParts]

ASSUME MaxDepthAssumption == MaxDepth \in Nat \ {0}

\* A key part is a machine type, so there are finitely many keys.
ASSUME KeysAssumption == \A d \in 0 .. MaxDepth : IsFiniteSet(Keys(d))

\* The key without its part at position pos.
subkey_same(k, pos) == k

subkey(k, pos) == [i \in 1 .. (Len(k) - 1) |-> IF i < pos THEN k[i] ELSE k[i + 1]]

\* entry_subset_for_pos is a map from the key parts that the entries es have
\* at position pos ...
PartsAt(es, pos) == {k[pos] : k \in es}

\* ... to the entries of the child below that key part.
SubEntries(es, pos, kp) == {subkey(k, pos) : k \in {e \in es : e[pos] = kp}}

-----------------------------------------------------------------------------

Tags == {"sen", "fn"}

RawIdentifiers(d) == [tag : Tags, es : SUBSET Keys(d)]

\* The default identifier: the seed, with the tag bit cleared.
NoId == [tag |-> "fn", es |-> {}]

empty(id) == id = NoId

is_sen(id) == ~empty(id) /\ id.tag = "sen"

is_fn(id) == ~empty(id) /\ id.tag = "fn"

\* The identifier of the node that holds the entries es.
RawIdentifier(es) ==
    IF es = {} THEN NoId
    ELSE [tag |-> IF Cardinality(es) = 1 THEN "sen" ELSE "fn", es |-> es]

\* Xor of two identifiers; the result is tagged as a full node.
combine(a, b) ==
    IF empty(a) THEN b
    ELSE IF empty(b) THEN a
    ELSE [tag |-> "fn", es |-> (a.es \ b.es) \cup (b.es \ a.es)]

retag_as_sen(id) == [tag |-> "sen", es |-> id.es]

=============================================================================

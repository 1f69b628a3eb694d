----------------------------- MODULE JoinValues -----------------------------
(***************************************************************************)
(* What a join of hypertries over one label promises (HashJoin.hpp).       *)
(*                                                                         *)
(* An operand is a depth and a set of keys.  A join is given by operands,  *)
(* the positions of the label in each of them, and for left joins the      *)
(* operands that are not optional.  The promise is the key parts that are  *)
(* joint, and per key part the slices of the operands.  HashJoin shows     *)
(* that the iterators keep it, Query and Einsum rely on it.                *)
(***************************************************************************)
EXTENDS SliceKey

Operand(d, es) == [depth |-> d, es |-> es]

Operands == UNION {[depth : {d}, es : SUBSET Keys(d)] : d \in 0 .. MaxDepth}

\* The value-initialised const_Hypertrie, which is empty.
NoHypertrie == Operand(0, {})

InnerJoin(ops, poss) ==
    [operands |-> ops, positions |-> poss, optional |-> FALSE, non_optional |-> {}]

LeftJoin(ops, poss, non_optional) ==
    [operands |-> ops, positions |-> poss, optional |-> TRUE, non_optional |-> non_optional]

HasLabel(j, p) == j.positions[p] # {}

FirstLabelled(j) == first_pos({p \in DOMAIN j.operands : HasLabel(j, p)})

SliceFor(j, p, kp) == SliceOf(j.operands[p].es, Diagonal(j.positions[p], kp))

RestDepth(j, p) == j.operands[p].depth - Cardinality(j.positions[p])

\* The key parts that every operand with the label has; in a left join only
\* the first one, which is iterated, and those that are not optional.
JoinKeys(j) ==
    LET needed == {p \in DOMAIN j.operands :
                      HasLabel(j, p) /\ (j.optional => p \in j.non_optional \/ p = FirstLabelled(j))}
    IN  {kp \in KeyParts : \A p \in needed : SliceFor(j, p, kp) # {}}

\* Operands that become scalars have no output, except in a left join.
HasOutput(j, p) == j.optional \/ RestDepth(j, p) > 0

OutPos(j, p) == Cardinality({q \in 1 .. p : HasOutput(j, q)})

Outputs(j) == OutPos(j, Len(j.operands))

\* An operand without the label is passed on as it is.
JoinValue(j, kp) ==
    LET value(p) ==
            IF ~HasLabel(j, p) THEN j.operands[p]
            ELSE IF SliceFor(j, p, kp) = {} THEN NoHypertrie
            ELSE Operand(RestDepth(j, p), SliceFor(j, p, kp))
        outputs == InOrder({p \in DOMAIN j.operands : HasOutput(j, p)})
    IN  [o \in DOMAIN outputs |-> value(outputs[o])]

=============================================================================

------------------------------ MODULE MCHashJoin ------------------------------
(***************************************************************************)
(* Joins over two key parts.  The operands have different depths, more     *)
(* than one join position, become scalars, lack the label, or have a       *)
(* single entry.                                                           *)
(***************************************************************************)
EXTENDS HashJoin

CONSTANTS a, b

One   == Operand(1, {<<a>>})
Two   == Operand(1, {<<a>>, <<b>>})
Pairs == {Operand(2, {<<a, b>>}), Operand(2, {<<a, a>>, <<b, a>>}),
          Operand(2, {<<a, a>>, <<a, b>>, <<b, b>>})}
Triples == {Operand(3, {<<a, a, b>>}), Operand(3, {<<a, b, a>>}),
            Operand(3, {<<a, a, a>>, <<b, b, a>>, <<a, b, b>>}),
            Operand(3, {<<a, b, a>>, <<b, a, b>>, <<b, b, a>>}),
            Operand(3, {<<a, a, a>>, <<a, a, b>>, <<b, a, b>>, <<b, b, b>>})}

MCJoins ==
    {InnerJoin(<<t, p, p>>, <<{1, 2}, {1}, {}>>) : t \in Triples, p \in Pairs}
    \cup {InnerJoin(<<o, p, t>>, <<{1}, {1, 2}, {2, 3}>>) : o \in {One, Two}, p \in Pairs, t \in Triples}
    \cup {LeftJoin(<<p, t, One>>, <<{1}, {1, 3}, {1}>>, {1}) : p \in Pairs, t \in Triples}
    \cup {LeftJoin(<<p, t, Two, p>>, <<{2}, {1}, {1}, {}>>, {1, 2}) : p \in Pairs, t \in Triples}

=============================================================================

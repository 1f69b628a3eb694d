------------------------------ MODULE Outcomes ------------------------------
(***************************************************************************)
(* What the operators of libs/einsum and libs/query share: the entry that  *)
(* all operators of an evaluation write to, the outcome of a call, the     *)
(* combinations of a Cartesian product and estimated sizes.                *)
(*                                                                         *)
(* An operator yields states of the entry, or leaves a single result in    *)
(* it.  A call is the set of its possible outcomes: the bag of the yielded *)
(* solutions, the entry afterwards, and whether every assertion held and   *)
(* every operator was given the operands that its subscript or graph       *)
(* describes.  The outcomes differ by the iteration order of hash maps.    *)
(***************************************************************************)
EXTENDS JoinValues, SequencesExt, BagsExt

Unbound == "unbound"    \* the value-initialised key part

\* The result is a sequence of variables, an entry has a key part for each.
make_filled(result) == [key |-> [pos \in DOMAIN result |-> Unbound], value |-> 1]

clear_used_entry_poss(e, poss) ==
    [e EXCEPT !.key = [pos \in DOMAIN @ |-> IF pos \in poss THEN Unbound ELSE @[pos]]]

position_in_result(result, var) == first_pos({pos \in DOMAIN result : result[pos] = var})

Bind(result, var, kp, e) ==
    IF Contains(result, var) THEN [e EXCEPT !.key[position_in_result(result, var)] = kp] ELSE e

-----------------------------------------------------------------------------
(* Outcomes.                                                               *)

Result(e) == [sols |-> EmptyBag, entry |-> e, defined |-> TRUE]

Value(e, v) == [e EXCEPT !.value = v]

\* co_yield; an entry of value n stands for n solutions.
Yield(e) == [Result(e) EXCEPT !.sols = IF e.value = 0 THEN EmptyBag ELSE e.key :> e.value]

YieldIfTrue(o) == IF o.entry.value = 0 THEN o ELSE [o EXCEPT !.sols = Yield(o.entry).sols]

Undefined(e) == [Result(e) EXCEPT !.defined = FALSE]

Then(o, p) == [sols |-> o.sols (+) p.sols, entry |-> p.entry, defined |-> o.defined /\ p.defined]

\* One operand per sequence of variables, and of its length.
Aligned(var_idss, ops) ==
    /\ Len(ops) = Len(var_idss)
    /\ \A n \in DOMAIN ops : ops[n].depth = Len(var_idss[n])

-----------------------------------------------------------------------------
(* The operators that end the recursion.                                   *)

\* ResolveOperator: the entries of the only operand.
RECURSIVE ResolveEntries(_, _, _, _)
ResolveEntries(result, var_ids, es, e) ==
    IF es = {} THEN {Result(e)}
    ELSE UNION {
            LET at(pos) == CHOOSE n \in DOMAIN var_ids : var_ids[n] = result[pos]
                bound == Value([e EXCEPT !.key = [pos \in DOMAIN @ |->
                                  IF Contains(var_ids, result[pos]) THEN k[at(pos)] ELSE @[pos]]], 1)
            IN  {Then(Yield(bound), p) : p \in ResolveEntries(result, var_ids, es \ {k}, bound)} :
            k \in es}

\* CountOperator
Count(b, ops, e) == {Result(Value(e, IF b THEN 1 ELSE Cardinality(ops[1].es)))}

-----------------------------------------------------------------------------
(* FullCartesianResult                                                     *)

\* updateEntryKey
Overwrite(key, source_key, poss) ==
    [pos \in DOMAIN key |-> IF pos \in poss THEN source_key[pos] ELSE key[pos]]

\* All combinations of the solutions of the components, written over key.
\* An optional component without one leaves its key parts unbound.
RECURSIVE Combinations(_, _, _)
Combinations(key, outcomes, posss) ==
    IF outcomes = <<>> THEN key :> 1
    ELSE LET sols == IF Head(outcomes).sols = EmptyBag
                     THEN [pos \in DOMAIN key |-> Unbound] :> 1 ELSE Head(outcomes).sols
             rest == Combinations(key, Tail(outcomes), Tail(posss))
             over(k) == Overwrite(k[1], k[2], Head(posss))
             pairs == (DOMAIN rest) \X (DOMAIN sols)
         IN  [k \in {over(p) : p \in pairs} |->
                 MapThenSumSet(LAMBDA p : rest[p[1]] * sols[p[2]], {p \in pairs : over(p) = k})]

\* The entry keeps a combination; its value is not zero.
CartesianOutcomes(e, sols, defined) ==
    IF sols = EmptyBag THEN {[sols |-> sols, entry |-> e, defined |-> defined]}
    ELSE {[sols |-> sols, entry |-> [key |-> k, value |-> sols[k]], defined |-> defined] :
             k \in DOMAIN sols}

\* A single result has the number of solutions that are left.
CartesianResults(e, sols, defined, single) ==
    IF ~single THEN CartesianOutcomes(e, sols, defined)
    ELSE {[Result(Value(e, IF sols = EmptyBag THEN 0 ELSE sols[CHOOSE k \in DOMAIN sols : TRUE]))
             EXCEPT !.defined = defined]}

\* Combinations that are yielded with the value v that the entry had before.  If
\* it is false they stand for no solution, and the assertion on it fails.
KeptValue(v, o) ==
    IF o.sols = EmptyBag THEN o
    ELSE IF v = 0 THEN [o EXCEPT !.sols = EmptyBag, !.entry.value = 0, !.defined = FALSE]
    ELSE [o EXCEPT !.sols = [k \in DOMAIN @ |-> v], !.entry.value = v]

-----------------------------------------------------------------------------
(* CardinalityEstimation, with exact fractions.                            *)

Product(f) == FoldFunction(LAMBDA x, y : x * y, 1, f)

Less(x, y) == x.num * y.den < y.num * x.den

Least(f) == {m \in DOMAIN f : \A n \in DOMAIN f : ~Less(f[n], f[m])}

Greatest(f) == {m \in DOMAIN f : \A n \in DOMAIN f : ~Less(f[m], f[n])}

\* The cardinality of a variable at positions poss of the operands used.
calcCard(ops, used, poss) ==
    LET cards(v) == {Cardinality(PartsAt(ops[v].es, pos)) : pos \in poss[v]}
        sizes == UNION {cards(v) : v \in Range(used)}
    IN  [num |-> Product([i \in DOMAIN used |-> Min(sizes)]),
         den |-> Cardinality(sizes) * Product([i \in DOMAIN used |-> Max(cards(used[i]))])]

\* The expected number of solutions: sizes of operands times cardinalities.
estimated_size(sizes, cards) ==
    [num |-> Product(sizes) * Product([var \in DOMAIN cards |-> cards[var].num]),
     den |-> Product([var \in DOMAIN cards |-> cards[var].den])]

=============================================================================

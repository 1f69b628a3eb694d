------------------------------- MODULE Query -------------------------------
(***************************************************************************)
(* The evaluation of queries (libs/query: Query, Evaluation, operators).   *)
(*                                                                         *)
(* An operator is called with a graph, one operand per vertex, the query   *)
(* and an entry; Outcomes says what a call is.  b tells entries of type    *)
(* bool from those of type size_t.  The deadline is in HashJoin.           *)
(***************************************************************************)
EXTENDS Outcomes, OperandDependencyGraph

\* Query: the projected variables.  Their positions in an entry.
contains_proj_var(proj, var) == Contains(proj, var)

Positions(proj, G) == {pos \in DOMAIN proj : proj[pos] \in operands_var_ids_set(G)}

\* No variable of the graph is projected: what is left is a single value.
all_result_done(proj, G) == Positions(proj, G) = {}

Clear(proj, G, e) == clear_used_entry_poss(e, Positions(proj, G))

-----------------------------------------------------------------------------
extract_operands(vs, ops) ==
    LET old == operands_original_positions(vs) IN [n \in DOMAIN old |-> ops[old[n]]]

-----------------------------------------------------------------------------
(* CardinalityEstimation, with exact fractions.                            *)

Card(G, ops, var, optional) ==
    LET used == IF optional THEN isc_operands_with_var_id(G, var) ELSE operands_with_var_id(G, var)
    IN  calcCard(ops, SetToSeq(used), var_ids_positions_in_operands(G, var))

\* Variables of one operand that are not projected do not count.
Estimated(G, proj, vars) ==
    {var \in vars : var \in lonely_var_ids(G) => contains_proj_var(proj, var)}

FirstOf(least, vars) == IF Cardinality(vars) = 1 \/ least = {} THEN Min(vars) ELSE Min(least)

getMinCardLabel(G, ops, proj, optional) ==
    LET vars == IF optional THEN non_optional_var_ids_set(G) ELSE operands_var_ids_set(G)
    IN  FirstOf(Least([var \in Estimated(G, proj, vars) |-> Card(G, ops, var, optional)]), vars)

estimate(G, ops, proj) ==
    estimated_size([v \in Vertices(G) |-> Cardinality(ops[v].es)],
                   [var \in Estimated(G, proj, operands_var_ids_set(G)) |-> Card(G, ops, var, FALSE)])

\* init_cartesian: the component that is iterated, the others are stored.
iterated_pos(G, ops, proj, comps) ==
    Min(Greatest([c \in DOMAIN comps |->
                    estimate(Subgraph(G, comps[c]), extract_operands(comps[c], ops), proj)]))

-----------------------------------------------------------------------------
(* next_op                                                                 *)

Operation(G, proj) ==
    LET vars == operands_var_ids_set(G)
        plain == Cardinality(vars) = Len(G.var_ids[1])
    IN  IF size(G) = 0 THEN "EntryGenerator"
        ELSE IF size(G) = 1
        THEN IF plain /\ \A var \in vars : ~contains_proj_var(proj, var) THEN "Count"
             ELSE IF plain /\ \A var \in vars : contains_proj_var(proj, var) THEN "Resolve"
             ELSE "Join"
        ELSE IF Len(union_components(G)) > 1 THEN "Union"
        ELSE IF Len(cartesian_components(G)) > 1 THEN "Cartesian"
        ELSE IF Cardinality(isc_operands(G)) < size(G) THEN "LeftJoin"
        ELSE "Join"

RECURSIVE get_sub_operator(_, _, _, _, _, _)

\* What follows in a component: its single result or its solutions.
Sub(proj, b, G, ops, e) == get_sub_operator(proj, b, G, ops, e, all_result_done(proj, G))

SubSolutions(proj, b, G, ops, e) ==
    {IF all_result_done(proj, G) THEN YieldIfTrue(o) ELSE o : o \in Sub(proj, b, G, ops, e)}

-----------------------------------------------------------------------------
(* JoinOperator.  The loops end with the key parts kps.                    *)

JoinOn(G, ops, var) == InnerJoin(ops, var_ids_positions_in_operands(G, var))

RECURSIVE JoinLoop(_, _, _, _, _, _, _)
JoinLoop(proj, b, G, join, var, kps, e) ==
    IF kps = {} THEN {Result(e)}
    ELSE UNION {UNION {{Then(o, p) : p \in JoinLoop(proj, b, G, join, var, kps \ {kp}, o.entry)} :
            o \in SubSolutions(proj, b, remove_var_id(G, var), JoinValue(join, kp), Bind(proj, var, kp, e))} :
            kp \in kps}

\* Mutant: a bool is that of the first key part.
JoinFirst(proj, b, G, join, var, kps, sum, e) ==
    IF kps = {} THEN {Result(Value(e, sum))}
    ELSE UNION {get_sub_operator(proj, b, remove_var_id(G, var), JoinValue(join, kp), e, TRUE) : kp \in kps}

\* A bool is true with the first key part for which it is, other values are
\* summed up.
RECURSIVE JoinSum(_, _, _, _, _, _, _, _)
JoinSum(proj, b, G, join, var, kps, sum, e) ==
    IF kps = {} THEN {Result(Value(e, sum))}
    ELSE UNION {UNION {
            IF b /\ o.entry.value # 0 THEN {o}
            ELSE {Then(o, p) : p \in JoinSum(proj, b, G, join, var, kps \ {kp}, sum + o.entry.value, o.entry)} :
            o \in get_sub_operator(proj, b, remove_var_id(G, var), JoinValue(join, kp), e, TRUE)} :
            kp \in kps}

JoinOver(proj, b, G, join, var, kps, e, single) ==
    IF single THEN JoinSum(proj, b, G, join, var, kps, 0, e)
    ELSE JoinLoop(proj, b, G, join, var, kps, e)

Join(proj, b, G, ops, e, single) ==
    UNION {LET join == JoinOn(G, ops, var)
           IN  JoinOver(proj, b, G, join, var, JoinKeys(join), Clear(proj, G, e), single) :
           var \in {getMinCardLabel(G, ops, proj, FALSE)}}

-----------------------------------------------------------------------------
(* LeftJoinOperator                                                        *)

LeftJoinOn(G, ops, var) == LeftJoin(ops, var_ids_positions_in_operands(G, var), isc_operands(G))

\* prune_empty: the operands that are left when those without a slice and
\* their dependents are gone.
prune_empty(G, sub_ops) == prune_graph(G, {v \in DOMAIN sub_ops : sub_ops[v].es = {}})

KeepScalars(ops) == ops

NoScalars(ops) == SelectSeq(ops, LAMBDA o : o.depth > 0)

\* Whether all operands that are not optional are done with one variable.
non_opt_evaluated(G) == Cardinality(non_optional_var_ids_set(G)) <= 1

RECURSIVE LeftJoinLoop(_, _, _, _, _, _, _)
LeftJoinLoop(proj, b, G, join, var, kps, e) ==
    IF kps = {} THEN {Result(e)}
    ELSE UNION {UNION {{Then(o, p) : p \in
                LeftJoinLoop(proj, b, G, join, var, kps \ {kp}, Value(Clear(proj, G, o.entry), 1))} :
            o \in LET sub_ops == JoinValue(join, kp)
                      kept == prune_empty(G, sub_ops)
                      found == SubSolutions(proj, b, remove_var_id(Subgraph(G, kept), var),
                                            NoScalars(extract_operands(kept, sub_ops)),
                                            Bind(proj, var, kp, e))
                  IN  {IF s.sols = EmptyBag /\ non_opt_evaluated(G)
                       THEN Then(s, Yield(Value(s.entry, 1))) ELSE s : s \in found}} :
            kp \in kps}

\* A bool is that of the first key part.  The operands are not pruned here.
RECURSIVE LeftJoinSum(_, _, _, _, _, _, _, _)
LeftJoinSum(proj, b, G, join, var, kps, sum, e) ==
    IF kps = {} THEN {Result(Value(e, IF e.value = 0 /\ non_opt_evaluated(G) THEN 1 ELSE sum))}
    ELSE UNION {UNION {
            IF b THEN {o}
            ELSE {Then(o, p) : p \in LeftJoinSum(proj, b, G, join, var, kps \ {kp}, sum + o.entry.value, o.entry)} :
            o \in LET sub_ops == JoinValue(join, kp)
                  IN  get_sub_operator(proj, b, remove_var_id(Subgraph(G, prune_empty(G, sub_ops)), var),
                                       sub_ops, e, TRUE)} :
            kp \in kps}

LeftJoinOver(proj, b, G, join, var, kps, e, single) ==
    IF single THEN LeftJoinSum(proj, b, G, join, var, kps, 0, e)
    ELSE LeftJoinLoop(proj, b, G, join, var, kps, e)

LeftJoinOperator(proj, b, G, ops, e, single) ==
    UNION {LET join == LeftJoinOn(G, ops, var)
           IN  LeftJoinOver(proj, b, G, join, var, JoinKeys(join), Clear(proj, G, e), single) :
           var \in {IF single THEN operand_var_ids(G, Min(isc_operands(G)))[1]
                    ELSE getMinCardLabel(G, ops, proj, TRUE)}}

-----------------------------------------------------------------------------
(* UnionOperator                                                           *)

RECURSIVE UnionLoop(_, _, _, _, _, _)
UnionLoop(proj, b, G, ops, comps, e) ==
    IF comps = <<>> THEN {Result(e)}
    ELSE LET C == Subgraph(G, Head(comps))
         IN  UNION {{Then(o, p) : p \in UnionLoop(proj, b, G, ops, Tail(comps), Clear(proj, C, o.entry))} :
                       o \in SubSolutions(proj, b, C, extract_operands(Head(comps), ops), e)}

RECURSIVE UnionSum(_, _, _, _, _, _, _)
UnionSum(proj, b, G, ops, comps, sum, e) ==
    IF comps = <<>> THEN {Result(Value(e, sum))}
    ELSE UNION {
            IF b /\ o.entry.value # 0 THEN {o}
            ELSE {Then(o, p) : p \in UnionSum(proj, b, G, ops, Tail(comps), sum + o.entry.value, o.entry)} :
            o \in get_sub_operator(proj, b, Subgraph(G, Head(comps)),
                                   extract_operands(Head(comps), ops), e, TRUE)}

UnionOperator(proj, b, G, ops, e, single) ==
    IF single THEN UnionSum(proj, b, G, ops, union_components(G), 0, Clear(proj, G, e))
    ELSE UnionLoop(proj, b, G, ops, union_components(G), Clear(proj, G, e))

-----------------------------------------------------------------------------
(* CartesianOperator                                                       *)

\* get_sub_results: the solutions of components, added up by their keys.
RECURSIVE Materialise(_, _, _, _, _)
Materialise(proj, b, G, ops, comps) ==
    IF comps = <<>> THEN {<<>>}
    ELSE {<<IF b THEN [o EXCEPT !.sols = SetToBag(DOMAIN o.sols)] ELSE o>> \o rest :
            o \in SubSolutions(proj, b, Subgraph(G, Head(comps)), extract_operands(Head(comps), ops),
                               make_filled(proj)),
            rest \in Materialise(proj, b, G, ops, Tail(comps))}

\* The solutions of the iterated component, times the stored combinations.
\* An optional one without solutions yields the stored ones once.
CartesianSolutions(optional, key, outcomes, it, poss) ==
    LET others == RemoveAt(outcomes, it)
        other_poss == RemoveAt(poss, it)
    IN  IF ~optional /\ \E c \in DOMAIN outcomes : outcomes[c].sols = EmptyBag THEN EmptyBag
        ELSE IF outcomes[it].sols = EmptyBag THEN Combinations(key, others, other_poss)
        ELSE Combinations(key, others \o <<outcomes[it]>>, other_poss \o <<poss[it]>>)

\* Only an optional component whose solutions are iterated can have none and
\* yield: no value is written then.
value_kept(iterated, poss, single) == ~single /\ poss # {} /\ iterated = EmptyBag

CartesianOver(proj, b, G, ops, comps, it, poss, e, single) ==
    UNION {LET kept == value_kept(outcomes[it].sols, poss[it], single)
               results == CartesianResults(e, CartesianSolutions(optional_cartesian(G), e.key, outcomes, it, poss),
                                           \A c \in DOMAIN outcomes : outcomes[c].defined, single)
           IN  {IF kept THEN KeptValue(e.value, o) ELSE o : o \in results} :
           outcomes \in Materialise(proj, b, G, ops, comps)}

Cartesian(proj, b, G, ops, e, single) ==
    UNION {CartesianOver(proj, b, G, ops, comps, iterated_pos(G, ops, proj, comps),
                         [c \in DOMAIN comps |-> Positions(proj, Subgraph(G, comps[c]))],
                         Clear(proj, G, e), single) :
           comps \in {cartesian_components(G)}}

-----------------------------------------------------------------------------
(* The operators that end the recursion.                                   *)

Resolve(proj, G, ops, e) == ResolveEntries(proj, G.var_ids[1], ops[1].es, Clear(proj, G, e))

\* Single results of Resolve and solutions of Count and EntryGenerator are
\* never asked for, Resolve and Count have one operand, and an entry of it
\* (assertions of the operators).
get_sub_operator(proj, b, G, ops, e, single) ==
    LET op == Operation(G, proj)
        asserted == /\ op = "Resolve" => ~single /\ ops[1].es # {}
                    /\ op = "Count" => single /\ ops[1].es # {}
    IN  IF op = "EntryGenerator" THEN {IF single THEN Result(Value(e, 1)) ELSE Undefined(e)}
        ELSE IF ~Aligned(G.var_ids, ops) \/ ~asserted THEN {Undefined(e)}
        ELSE CASE op = "Count" -> Count(b, ops, e)
               [] op = "Resolve" -> Resolve(proj, G, ops, e)
               [] op = "Union" -> UnionOperator(proj, b, G, ops, e, single)
               [] op = "Cartesian" -> Cartesian(proj, b, G, ops, e, single)
               [] op = "LeftJoin" -> LeftJoinOperator(proj, b, G, ops, e, single)
               [] op = "Join" -> Join(proj, b, G, ops, e, single)

-----------------------------------------------------------------------------
(* Evaluation                                                              *)

prune_empty_operands(G, ops) == prune_graph(G, {v \in DOMAIN ops : ops[v].es = {}})

\* What is left of the operands vs without the scalars, which are true.
remove_rank0_operands(vs, ops) == {v \in vs : ops[v].depth > 0}

finalized(G, ops) == remove_rank0_operands(prune_empty_operands(G, ops), ops)

Evaluated(proj, b, G, ops, single) ==
    LET vs == finalized(G, ops)
    IN  get_sub_operator(proj, b, Subgraph(G, vs), extract_operands(vs, ops), make_filled(proj), single)

NoSolutions(proj) == {Result(Value(make_filled(proj), 0))}

\* The bags of solutions that evaluate may yield.  A single result is yielded
\* even if its value is 0, which stands for no solution.
evaluate(proj, G, ops) ==
    IF prune_empty_operands(G, ops) = {} THEN NoSolutions(proj)
    ELSE LET single == all_result_done(proj, Subgraph(G, finalized(G, ops)))
         IN  {IF single THEN YieldIfTrue(o) ELSE o : o \in Evaluated(proj, FALSE, G, ops, single)}

\* eval_distinct yields each solution once (mutant: without found_entries).
evaluate_all(proj, G, ops) ==
    IF prune_empty_operands(G, ops) = {} THEN NoSolutions(proj)
    ELSE LET single == all_result_done(proj, Subgraph(G, finalized(G, ops)))
         IN  {IF single THEN YieldIfTrue(o) ELSE o : o \in Evaluated(proj, TRUE, G, ops, single)}

evaluate_distinct(proj, G, ops) ==
    IF prune_empty_operands(G, ops) = {} THEN NoSolutions(proj)
    ELSE LET single == all_result_done(proj, Subgraph(G, finalized(G, ops)))
             distinct(o) == [o EXCEPT !.sols = SetToBag(DOMAIN @)]
         IN  {IF single THEN YieldIfTrue(o) ELSE distinct(o) :
                 o \in Evaluated(proj, TRUE, G, ops, single)}

\* Whether there is a solution: the value of the result.
evaluate_ask(proj, G, ops) ==
    IF prune_empty_operands(G, ops) = {} THEN NoSolutions(proj)
    ELSE Evaluated(proj, TRUE, G, ops, TRUE)

=============================================================================

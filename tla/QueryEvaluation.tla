-------------------------- MODULE QueryEvaluation --------------------------
(***************************************************************************)
(* Queries as their callers see them: an expression of the algebra, the    *)
(* operand dependency graph that stands for it, and the solutions that     *)
(* Evaluation returns, compared with those of the algebra.  A query of     *)
(* joins is an Einstein summation too, which has to agree.                 *)
(*                                                                         *)
(* The algebra is the reference: bags of bindings, where a left join keeps *)
(* the bindings without a match and a union adds up.  Sides of an optional *)
(* product that have no binding are left out of it.                        *)
(***************************************************************************)
EXTENDS Query

E == INSTANCE Einsum

CONSTANTS Shapes,       \* [expr, graph, proj]: queries without data
          Contents(_)   \* the hypertries of a depth that are tried

VARIABLES query,        \* a shape, with operands
          answer        \* what the evaluation returned

vars == <<query, answer>>

-----------------------------------------------------------------------------
(* The algebra.                                                            *)

Leaf(n) == [op |-> "operand", n |-> n]
J(l, r) == [op |-> "join", l |-> l, r |-> r]
LJ(l, r) == [op |-> "left join", l |-> l, r |-> r]
U(l, r) == [op |-> "union", l |-> l, r |-> r]
OP(l, r) == [op |-> "optional product", l |-> l, r |-> r]

Bindings(var_ids, es) ==
    LET binding(k) == [var \in Range(var_ids) |-> k[CHOOSE n \in DOMAIN var_ids : var_ids[n] = var]]
        fits == {k \in es : \A m, n \in DOMAIN var_ids : var_ids[m] = var_ids[n] => k[m] = k[n]}
    IN  SetToBag({binding(k) : k \in fits})

Compatible(m, n) == \A var \in DOMAIN m \cap DOMAIN n : m[var] = n[var]

Agreeing(A, B) == {p \in (DOMAIN A) \X (DOMAIN B) : Compatible(p[1], p[2])}

\* Bindings of A and B that agree.
BagJoin(A, B) ==
    LET merged(p) == p[1] @@ p[2]
    IN  [m \in {merged(p) : p \in Agreeing(A, B)} |->
            MapThenSumSet(LAMBDA p : A[p[1]] * B[p[2]], {p \in Agreeing(A, B) : merged(p) = m})]

Unmatched(A, B) ==
    LET alone == {m \in DOMAIN A : \A n \in DOMAIN B : ~Compatible(m, n)}
    IN  [m \in alone |-> A[m]]

RECURSIVE Solutions(_, _, _)
Solutions(expr, G, ops) ==
    IF expr.op = "operand" THEN Bindings(G.var_ids[expr.n], ops[expr.n].es)
    ELSE LET A == Solutions(expr.l, G, ops)
             B == Solutions(expr.r, G, ops)
         IN  CASE expr.op = "join" -> BagJoin(A, B)
               [] expr.op = "left join" -> BagJoin(A, B) (+) Unmatched(A, B)
               [] expr.op = "union" -> A (+) B
               [] expr.op = "optional product" ->
                    IF A = EmptyBag THEN B ELSE IF B = EmptyBag THEN A ELSE BagJoin(A, B)

\* The projection of a binding; what is not bound has the default key part.
Projected(proj, m) ==
    [pos \in DOMAIN proj |-> IF proj[pos] \in DOMAIN m THEN m[proj[pos]] ELSE Unbound]

Expected(q) ==
    LET all == Solutions(q.expr, q.graph, q.operands)
    IN  [key \in {Projected(q.proj, m) : m \in DOMAIN all} |->
            MapThenSumSet(LAMBDA m : all[m], {m \in DOMAIN all : Projected(q.proj, m) = key})]

-----------------------------------------------------------------------------

NoAnswer == [by |-> "none"]

Answered(by, o) == [by |-> by, sols |-> o.sols, value |-> o.entry.value, defined |-> o.defined]

RECURSIVE OperandsOf(_)
OperandsOf(var_idss) ==
    IF var_idss = <<>> THEN {<<>>}
    ELSE {<<Operand(Len(Head(var_idss)), es)>> \o rest :
             es \in Contents(Len(Head(var_idss))), rest \in OperandsOf(Tail(var_idss))}

Init ==
    /\ \E s \in Shapes : \E ops \in OperandsOf(s.graph.var_ids) :
          query = [expr |-> s.expr, graph |-> s.graph, proj |-> s.proj, operands |-> ops]
    /\ answer = NoAnswer

Evaluate ==
    /\ answer = NoAnswer
    /\ \E o \in evaluate(query.proj, query.graph, query.operands) : answer' = Answered("evaluate", o)
    /\ UNCHANGED query

EvaluateDistinct ==
    /\ answer = NoAnswer
    /\ \E o \in evaluate_distinct(query.proj, query.graph, query.operands) :
          answer' = Answered("distinct", o)
    /\ UNCHANGED query

\* Single results are asked for: no variable may be projected (the assertion
\* of ResolveOperator::single_result).
EvaluateAsk ==
    /\ answer = NoAnswer
    /\ query.proj = <<>>
    /\ \E o \in evaluate_ask(query.proj, query.graph, query.operands) : answer' = Answered("ask", o)
    /\ UNCHANGED query

RECURSIVE OnlyJoins(_)
OnlyJoins(expr) ==
    \/ expr.op = "operand"
    \/ expr.op = "join" /\ OnlyJoins(expr.l) /\ OnlyJoins(expr.r)

\* The operands of an Einstein summation are not empty and not scalars (the
\* assertions of CountOperator, ResolveOperator and HashJoin).
Einsum ==
    /\ answer = NoAnswer
    /\ OnlyJoins(query.expr)
    /\ \A n \in DOMAIN query.operands : query.operands[n].depth > 0 /\ query.operands[n].es # {}
    /\ \E b \in BOOLEAN :
          \E o \in E!einsum(b, E!Subscript(query.graph.var_ids, query.proj), query.operands) :
             answer' = Answered(IF b THEN "bool einsum" ELSE "einsum", o)
    /\ UNCHANGED query

Next == Einsum \/ Evaluate \/ EvaluateDistinct \/ EvaluateAsk

Spec == Init /\ [][Next]_vars

-----------------------------------------------------------------------------

\* The solutions and their numbers are those of the algebra, whatever order
\* the estimates choose for the variables and in whatever order hash maps
\* are iterated (the operators, prune_graph, cartesian_components).
SolutionsExact ==
    answer.by = "evaluate" => answer.sols = Expected(query)

\* A distinct evaluation yields each solution of the algebra once.
DistinctExact ==
    answer.by = "distinct" => answer.sols = SetToBag(DOMAIN Expected(query))

\* An Einstein summation yields the sums of products: the number of times that
\* the labels of the result get their key parts, or whether they do.
EinsumExact ==
    /\ answer.by = "einsum" => answer.sols = Expected(query)
    /\ answer.by = "bool einsum" => answer.sols = SetToBag(DOMAIN Expected(query))

\* evaluate_ask tells whether the query has at least one solution.
AskExact ==
    answer.by = "ask" => (answer.value # 0 <=> Expected(query) # EmptyBag)

\* Every operator is called with the operands that its graph describes, no
\* operator that must not be used is scheduled (get_sub_operator), and a
\* Cartesian product yields no entry whose value is false (the assertions on
\* entry_arg.value() in CartesianOperator::generator).
EvaluationDefined ==
    answer.by # "none" => answer.defined

=============================================================================

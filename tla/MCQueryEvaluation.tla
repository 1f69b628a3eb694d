------------------------- MODULE MCQueryEvaluation -------------------------
(* The queries of tests_Query.cpp, with other data. *)
EXTENDS QueryEvaluation

CONSTANTS x, y, z

MCContents(d) ==
    CASE d = 0 -> {{}, {<<>>}}
      [] d = 1 -> {{}, {<<x>>}, {<<x>>, <<y>>}}
      [] d = 2 -> SUBSET Keys(2)

a == 1  b == 2  c == 3  d == 4

\* D: dependencies, C: connections, both <<source, target, variable>>.
Graph(var_idss, D, C) ==
    LET operands == FoldLeft(add_operand, NoOperands, var_idss)
        depends == FoldSet(LAMBDA e, G : add_dependency(G, e[1], e[2], e[3]), operands, D)
    IN  FoldSet(LAMBDA e, G : add_connection(G, e[1], e[2], e[3]), depends, C)

Shape(expr, proj, graph) == [expr |-> expr, proj |-> proj, graph |-> graph]

Both(s, t, v) == {<<s, t, v>>, <<t, s, v>>}

\* J(ab, bc); J(aa, b), a Cartesian product; J((), ab), with a scalar;
\* J(J(a, ab), c), a Cartesian product with a join; J(J(ab, bc), ca);
\* J(ab, ac), a Cartesian product for each key part.
JoinShapes ==
    {Shape(J(Leaf(1), Leaf(2)), p, Graph(<< <<a, b>>, <<b, c>> >>, Both(1, 2, b), {})) :
        p \in {<<>>, <<a>>, <<b>>, <<a, b, c>>}}
    \cup {Shape(J(Leaf(1), Leaf(2)), p, Graph(<< <<a, a>>, <<b>> >>, Both(1, 2, NoVar), {})) :
        p \in {<<>>, <<a>>, <<a, b>>}}
    \cup {Shape(J(Leaf(1), Leaf(2)), p, Graph(<< <<>>, <<a, b>> >>, Both(1, 2, NoVar), {})) :
        p \in {<<>>, <<b>>, <<b, a>>}}
    \cup {Shape(J(J(Leaf(1), Leaf(2)), Leaf(3)), p,
           Graph(<< <<a>>, <<a, b>>, <<c>> >>,
                 Both(1, 2, a) \cup Both(1, 3, NoVar) \cup Both(2, 3, NoVar), {})) :
        p \in {<<>>, <<b>>, <<c, b>>}}
    \cup {Shape(J(J(Leaf(1), Leaf(2)), Leaf(3)), p,
           Graph(<< <<a, b>>, <<b, c>>, <<c, a>> >>,
                 Both(1, 2, b) \cup Both(1, 3, a) \cup Both(2, 3, c), {})) :
        p \in {<<>>, <<c>>}}
    \cup {Shape(J(Leaf(1), Leaf(2)), p, Graph(<< <<a, b>>, <<a, c>> >>, Both(1, 2, a), {})) :
        p \in {<<>>, <<b>>, <<b, c>>, <<a, b, c>>}}

\* LJ(a, ab), LJ(ab, bc)
LeftShapes ==
    {Shape(LJ(Leaf(1), Leaf(2)), p, Graph(<< <<a>>, <<a, b>> >>, {<<1, 2, a>>}, {})) :
        p \in {<<a>>, <<a, b>>, <<b>>}}
    \cup {Shape(LJ(Leaf(1), Leaf(2)), p, Graph(<< <<a, b>>, <<b, c>> >>, {<<1, 2, b>>}, {})) :
        p \in {<<a, b, c>>, <<b, a>>}}

\* LJ(LJ(a, ab), ac), LJ(LJ(ab, ac), bd)
TwoLefts ==
    {Shape(LJ(LJ(Leaf(1), Leaf(2)), Leaf(3)), p,
           Graph(<< <<a>>, <<a, b>>, <<a, c>> >>, {<<1, 2, a>>, <<1, 3, a>>}, Both(2, 3, NoVar))) :
        p \in {<<a, b, c>>, <<a>>}}
    \cup {Shape(LJ(LJ(Leaf(1), Leaf(2)), Leaf(3)), <<a, b, c, d>>,
           Graph(<< <<a, b>>, <<a, c>>, <<b, d>> >>, {<<1, 2, a>>, <<1, 3, b>>}, Both(2, 3, NoVar)))}

\* LJ(a, LJ(ab, bc)), LJ(J(a, ab), bc), LJ(a, J(ab, bc)), J(LJ(a, ab), ac)
Nested ==
    {Shape(LJ(Leaf(1), LJ(Leaf(2), Leaf(3))), <<a, b, c>>,
           Graph(<< <<a>>, <<a, b>>, <<b, c>> >>, {<<1, 2, a>>, <<2, 3, b>>}, {})),
     Shape(LJ(J(Leaf(1), Leaf(2)), Leaf(3)), <<a, b, c>>,
           Graph(<< <<a>>, <<a, b>>, <<b, c>> >>, Both(1, 2, a) \cup {<<2, 3, b>>, <<1, 3, NoVar>>}, {})),
     Shape(J(LJ(Leaf(1), Leaf(2)), Leaf(3)), <<a, b, c>>,
           Graph(<< <<a>>, <<a, b>>, <<a, c>> >>, Both(1, 3, a) \cup {<<1, 2, a>>, <<3, 2, a>>}, {}))}
    \cup {Shape(LJ(Leaf(1), J(Leaf(2), Leaf(3))), p,
           Graph(<< <<a>>, <<a, b>>, <<b, c>> >>, {<<1, 2, a>>, <<1, 3, NoVar>>} \cup Both(2, 3, b), {})) :
        p \in {<<a, b, c>>, <<a>>}}

\* U(ab, ac), U(a, b), U(J(a, ab), J(a, ac))
Unions ==
    {Shape(U(Leaf(1), Leaf(2)), <<a, b, c>>, Graph(<< <<a, b>>, <<a, c>> >>, {}, {})),
     Shape(U(Leaf(1), Leaf(2)), <<a>>, Graph(<< <<a>>, <<b>> >>, {}, {})),
     Shape(U(Leaf(1), Leaf(2)), <<>>, Graph(<< <<a>>, <<b>> >>, {}, {}))}
    \cup {Shape(U(J(Leaf(1), Leaf(2)), J(Leaf(3), Leaf(4))), p,
           Graph(<< <<a>>, <<a, b>>, <<a>>, <<a, c>> >>, Both(1, 2, a) \cup Both(3, 4, a), {})) :
        p \in {<<a, b, c>>, <<>>}}

\* J(ab, bc) and d, each of which is optional for the other
OptionalProducts ==
    {Shape(OP(J(Leaf(1), Leaf(2)), Leaf(3)), <<a, b, c, d>>,
           Graph(<< <<a, b>>, <<b, c>>, <<d>> >>, Both(1, 2, b), Both(1, 3, NoVar) \cup Both(2, 3, NoVar)))}

MCShapes == JoinShapes \cup LeftShapes \cup TwoLefts \cup Nested \cup Unions \cup OptionalProducts

\* How many bindings has LJ(a, ab)?
CountShapes == {Shape(LJ(Leaf(1), Leaf(2)), <<>>, Graph(<< <<a>>, <<a, b>> >>, {<<1, 2, a>>}, {}))}

\* J(abd, dc), summed over d and c.  For the key part x of a, b is taken before
\* d and has a key part without solutions; for y, d comes first.
SumShapes ==
    {Shape(J(Leaf(1), Leaf(2)), <<a, b>>, Graph(<< <<a, b, d>>, <<d, c>> >>, Both(1, 2, d), {}))}

SumContents(depth) ==
    CASE depth = 3 -> {{<<x, x, z>>, <<x, y, y>>, <<y, x, y>>, <<y, y, y>>}}
      [] depth = 2 -> {{<<x, x>>, <<y, x>>}}

=============================================================================

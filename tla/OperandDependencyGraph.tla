----------------------- MODULE OperandDependencyGraph -----------------------
(***************************************************************************)
(* The graph of operands of a query (OperandDependencyGraph.hpp).          *)
(*                                                                         *)
(* A graph is the sequence of its operands' variables and a set of edges.  *)
(* Variables are numbers in the order of the characters of the code, 0 is  *)
(* the null character of an edge without a variable.  A subgraph of the    *)
(* code, which shares the vertices of its parent, is a set of operands;    *)
(* the positions of its operands in the parent are the members in order.   *)
(* The caches of the code, which hold what is computed here, are left out. *)
(***************************************************************************)
EXTENDS Naturals, Sequences, FiniteSets, SequencesExt, Graphs

NoVar == 0

NoOperands == [var_ids |-> <<>>, edges |-> {}]

size(G) == Len(G.var_ids)

Vertices(G) == DOMAIN G.var_ids

add_operand(G, var_ids) == [G EXCEPT !.var_ids = Append(@, var_ids)]

Edge(s, t, var_id, is_opt) ==
    [source |-> s, target |-> t, var_id |-> var_id, is_opt |-> is_opt]

\* A dependency prunes its target, an optional connection does not.
add_dependency(G, s, t, var_id) == [G EXCEPT !.edges = @ \cup {Edge(s, t, var_id, FALSE)}]

add_connection(G, s, t, var_id) == [G EXCEPT !.edges = @ \cup {Edge(s, t, var_id, TRUE)}]

-----------------------------------------------------------------------------
(* Subgraphs.                                                              *)

operands_original_positions(vs) == SetToSortSeq(vs, <)

NewPosition(vs, v) == Cardinality({w \in vs : w <= v})

Subgraph(G, vs) ==
    LET kept == {e \in G.edges : e.source \in vs /\ e.target \in vs}
        old == operands_original_positions(vs)
    IN  [var_ids |-> [n \in 1 .. Cardinality(vs) |-> G.var_ids[old[n]]],
         edges |-> {[e EXCEPT !.source = NewPosition(vs, @), !.target = NewPosition(vs, @)] :
                       e \in kept}]

remove_vertices(G, removed) == Vertices(G) \ removed

\* The operands without var_id; those without another variable vanish.
remove_var_id(G, var_id) ==
    LET other(x) == x # var_id
        S == Subgraph(G, {v \in Vertices(G) : \E n \in DOMAIN G.var_ids[v] : other(G.var_ids[v][n])})
    IN  [var_ids |-> [v \in DOMAIN S.var_ids |-> SelectSeq(S.var_ids[v], other)],
         edges |-> {[e EXCEPT !.var_id = IF @ = var_id THEN NoVar ELSE @] : e \in S.edges}]

\* What depends on an empty operand is removed with it (mutant: only directly).
prune_direct(G, empty_operands) ==
    Vertices(G) \ (empty_operands \cup
        {e.target : e \in {x \in G.edges : x.source \in empty_operands /\ ~x.is_opt}})

prune_graph(G, empty_operands) ==
    LET dependent == [node |-> Vertices(G),
                      edge |-> {<<e.source, e.target>> : e \in {x \in G.edges : ~x.is_opt}}]
        depends == ConnectionsIn(dependent)
    IN  {v \in Vertices(G) : \A x \in empty_operands : ~depends[x, v]}

-----------------------------------------------------------------------------
(* Variables.                                                              *)

operand_var_ids(G, v) == G.var_ids[v]

operands_var_ids_set(G) == UNION {Range(G.var_ids[v]) : v \in Vertices(G)}

var_ids_positions_in_operands(G, var_id) ==
    [v \in Vertices(G) |-> {n \in DOMAIN G.var_ids[v] : G.var_ids[v][n] = var_id}]

operands_with_var_id(G, var_id) == {v \in Vertices(G) : Contains(G.var_ids[v], var_id)}

\* Variables that appear once in the operands.
lonely_var_ids(G) ==
    {x \in operands_var_ids_set(G) :
        Cardinality({<<v, n>> \in UNION {{v} \X DOMAIN G.var_ids[v] : v \in Vertices(G)} :
                        G.var_ids[v][n] = x}) = 1}

-----------------------------------------------------------------------------
(* Components.                                                             *)

Links(edges) == {<<e.source, e.target>> : e \in edges}

\* Connected components, in the order of their first operands.
ConnectedComponents(G, links) ==
    LET connected == ConnectionsIn([node |-> Vertices(G),
                                    edge |-> links \cup {<<l[2], l[1]>> : l \in links}])
        components == {{w \in Vertices(G) : connected[v, w]} : v \in Vertices(G)}
        earlier(A, B) == Min(A) < Min(B)
    IN  SetToSortSeq(components, earlier)

union_components(G) == ConnectedComponents(G, Links(G.edges))

\* The operands that no other strong component leads to.  The code asserts
\* that they are one component; without assertions it takes them all.
isc_operands(G) ==
    LET leads == ConnectionsIn([node |-> Vertices(G), edge |-> Links(G.edges)])
    IN  {v \in Vertices(G) : \A w \in Vertices(G) : leads[w, v] => leads[v, w]}

isc_operands_with_var_id(G, var_id) == isc_operands(G) \cap operands_with_var_id(G, var_id)

non_optional_var_ids_set(G) == UNION {Range(G.var_ids[v]) : v \in isc_operands(G)}

\* Edges into the ISC without a variable do not connect; operands of the ISC
\* without an edge between them (the sides of a union) stay together.
cartesian_components(G) ==
    LET isc == isc_operands(G)
        filtered == {e \in G.edges : e.target \in isc => e.var_id # NoVar}
        temporary == {l \in isc \X isc : l \notin Links(G.edges)}
    IN  ConnectedComponents(G, Links(filtered) \cup temporary)

\* Whether the components are optional parts of the query.
optional_cartesian(G) == \E e \in G.edges : e.target \in isc_operands(G) /\ e.is_opt

=============================================================================

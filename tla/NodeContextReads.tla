-------------------------- MODULE NodeContextReads --------------------------
(***************************************************************************)
(* The read operations of RawHypertrieContext and RawIterator as walks     *)
(* through the stored nodes, and that they agree with the contents that    *)
(* the Hypertries ought to have.  Readers and updates must not overlap;    *)
(* the read properties are about the states between operations.            *)
(***************************************************************************)
EXTENDS NodeContext, SliceKey

\* The position with the fewest (most) edges, the first one if there are several.
Card(n, pos) == Cardinality(DOMAIN n.edges[pos])

min_card_pos(n, mask) ==
    CHOOSE pos \in mask : \A q \in mask :
        Card(n, pos) < Card(n, q) \/ (Card(n, pos) = Card(n, q) /\ pos <= q)

max_card_pos(n, mask) ==
    CHOOSE pos \in mask : \A q \in mask :
        Card(n, pos) > Card(n, q) \/ (Card(n, pos) = Card(n, q) /\ pos <= q)

\* lookup and the in-place entries: the key of a single entry node.
SenKeysStored(d, id) == IF id \in DOMAIN sens[d] THEN sens[d][id].entries ELSE {}

SenKeys(d, id) == IF in_place(d, id) THEN id.es
                  ELSE IF id \in DOMAIN sens[d] THEN sens[d][id].entries ELSE {}

\* resolve: the child of a full node, the empty identifier if there is none.
resolve(n, pos, kp) == IF kp \in DOMAIN n.edges[pos] THEN n.edges[pos][kp] ELSE NoId

\* The walks are functions of the depth, so that each calls the one below.

\* get on a node container.
Get[d \in 0 .. MaxDepth] ==
    [id \in RawIdentifiers(d) |-> [key \in Keys(d) |->
        IF empty(id) THEN FALSE
        ELSE IF d = 0 THEN TRUE
        ELSE IF is_sen(id) THEN key \in SenKeys(d, id)
        ELSE LET n == fns[d][id]
                 pos == min_card_pos(n, 1 .. d)
             IN  Get[d - 1][resolve(n, pos, key[pos])][subkey(key, pos)]]]

get(d, id, key) == Get[d][id][key]

\* slice: the identifier of the result.  The position with the fewest edges
\* is resolved first.  diagonal_slice is the case of equal key parts.
Slice[d \in 0 .. MaxDepth] ==
    [id \in RawIdentifiers(d) |-> [fixed \in SliceKeys(d) |->
        IF empty(id) \/ DOMAIN fixed = {} THEN id
        ELSE IF is_sen(id)
        THEN RawIdentifier({Project(k, fixed) : k \in {x \in SenKeys(d, id) : Matches(x, fixed)}})
        ELSE LET n == fns[d][id]
                 pos == min_card_pos(n, DOMAIN fixed)
             IN  Slice[d - 1][resolve(n, pos, fixed[pos])][Shift(fixed, pos)]]]

slice(d, id, fixed) == Slice[d][id][fixed]

\* RawIterator walks the edges of the last position.  The keys it yields ...
Iterated[d \in 0 .. MaxDepth] ==
    [id \in RawIdentifiers(d) |->
        IF empty(id) THEN {}
        ELSE IF d = 0 THEN {<<>>}
        ELSE IF is_sen(id) THEN SenKeys(d, id)
        ELSE IF id \notin DOMAIN fns[d] THEN {}
        ELSE LET edges == fns[d][id].edges[d]
             IN  UNION {{Append(k, kp) : k \in Iterated[d - 1][edges[kp]]} : kp \in DOMAIN edges}]

Yields(d, id) == Iterated[d][id]

\* The key k with the key part kp put in at position pos.
combine_res(d, pos, kp, k) ==
    [i \in 1 .. d |-> IF i < pos THEN k[i] ELSE IF i = pos THEN kp ELSE k[i - 1]]

\* retrieve_remaining_single_entry_impl: the entry that a full node has
\* besides the removed ones, from the position with the most edges.
retrieve_remaining_here(d, id, es) ==
    LET pos == max_card_pos(fns[d][id], 1 .. d)
        edges == fns[d][id].edges[pos]
    IN  UNION {{combine_res(d, pos, kp, k) :
                   k \in IF d = 1 THEN {<<>>} ELSE SenKeys(d - 1, edges[kp])} :
                kp \in DOMAIN edges \ PartsAt(es, pos)}

Remaining[d \in 0 .. MaxDepth] ==
    [id \in RawIdentifiers(d) |-> [es \in SUBSET Keys(d) |->
        IF d = 0 \/ id \notin DOMAIN fns[d] THEN {}
        ELSE LET pos == max_card_pos(fns[d][id], 1 .. d)
                 edges == fns[d][id].edges[pos]
                 below(kp) ==
                     IF kp \in PartsAt(es, pos)
                     THEN IF is_sen(edges[kp]) THEN {}
                          ELSE Remaining[d - 1][edges[kp]][SubEntries(es, pos, kp)]
                     ELSE IF d = 1 THEN {<<>>} ELSE SenKeys(d - 1, edges[kp])
             IN  UNION {{combine_res(d, pos, kp, k) : k \in below(kp)} : kp \in DOMAIN edges}]]

retrieve_remaining(d, id, es) == Remaining[d][id][es]

-----------------------------------------------------------------------------

\* get, whichever positions it takes, answers for every key whether it was
\* put into the Hypertrie and not removed since.
GetAgrees ==
    Idle => \A h \in live : \A k \in HandleKeys[h] :
                get(HandleDepth[h], nodec[h], k) <=> k \in nodec[h].es

\* A slice is the node with exactly the matching entries, and a slice that is
\* a full node is stored (context()->raw_context().slice).
SliceAgrees ==
    Idle => \A h \in live : \A positions \in SUBSET (1 .. HandleDepth[h]) :
        Cardinality(positions) < HandleDepth[h] =>
        \A fixed \in [positions -> KeyParts] :
            LET found == slice(HandleDepth[h], nodec[h], fixed)
            IN  /\ found = RawIdentifier({Project(k, fixed) :
                               k \in {x \in nodec[h].es : Matches(x, fixed)}})
                /\ is_fn(found) => found \in DOMAIN fns[HandleDepth[h] - Cardinality(positions)]

\* Whenever a full node shrinks to one entry, the walk through its children
\* finds that entry whatever order the edges have (the assert that its
\* identifier is target_id in remove_from_node).
RemainingEntryFound ==
    Idle => \A d \in Depths : \A id \in DOMAIN fns[d] : \A k \in id.es :
                retrieve_remaining(d, id, id.es \ {k}) = {k}

-----------------------------------------------------------------------------
(* The context implements independent sets.  The content of a Hypertrie is *)
(* what an iterator would yield, for all but the one that is being changed *)
(* also in the middle of an update.                                        *)

Content == [h \in Handles |->
    IF ~Idle /\ h = op.handle THEN nodec[h].es ELSE Yields(HandleDepth[h], nodec[h])]

Pending == IF Idle THEN [kind |-> "none"]
           ELSE [kind |-> op.kind, handle |-> op.handle, entries |-> op.entries]

Sets == INSTANCE HypertrieSet
            WITH Objects <- Handles, Depth <- HandleDepth, Entries <- HandleKeys,
                 content <- Content, exists <- live, pending <- Pending

\* Every operation changes the set of keys of its Hypertrie as requested and
\* no step of it changes another one, although nodes are shared, reused in
\* place (move_update_fn_to_fn) and deleted.
ImplementsSets == Sets!SetSpec

=============================================================================

----------------------------- MODULE NodeContext -----------------------------
(***************************************************************************)
(* The node storage of a hypertrie context and the algorithm that updates  *)
(* it (NodeStorage, UpdateRequests, UpdatePlan, ApplyUpdate,               *)
(* RawHypertrieContext), used through Hypertrie objects (Hypertrie.hpp).   *)
(*                                                                         *)
(* All hypertries of a context share their nodes: a node is stored once    *)
(* per identifier and counts the edges and Hypertries that refer to it.    *)
(* A bulk of entries is inserted or removed level by level.  The requests  *)
(* collected for a level become a plan (which full nodes are created,      *)
(* copied, moved or deleted); executing the plan collects the requests for *)
(* the level below.  Every step of the plan is an action; hash map         *)
(* iteration orders are nondeterministic choices.  An assert of the code   *)
(* is a guard: where it fails the update is stuck, a deadlock.             *)
(*                                                                         *)
(* A full node maps, per position, key parts to children.  At depth 1 the  *)
(* children are the values; true is the identifier of the empty key.       *)
(***************************************************************************)
EXTENDS Identifier, TLC

CONSTANTS Handles,      \* Hypertrie objects
          HandleDepth,  \* their depths
          HandleKeys,   \* the keys that a run sets in each of them
          Taggable,     \* in-place single entries at depth 1 (taggable key part)
          MaxBulk,      \* bound on the entries of one update
          MaxAssigns    \* bound on the assignments of Hypertries

ASSUME HandleAssumption ==
    /\ HandleDepth \in [Handles -> Depths]
    /\ DOMAIN HandleKeys = Handles
    /\ \A h \in Handles : HandleKeys[h] \subseteq Keys(HandleDepth[h])
    /\ Taggable \in BOOLEAN
    /\ MaxBulk \in Nat
    /\ MaxAssigns \in Nat

VARIABLES
    fns,    \* per depth, the stored full nodes by identifier
    sens,   \* per depth, the stored single entry nodes by identifier
    nodec,  \* the identifier of the node of each Hypertrie
    live,   \* the Hypertries that exist
    assigned,  \* how many assignments there were
    op,     \* the operation that is being executed
    lvl,    \* the depth at which ApplyUpdate works, 0 between operations
    plan,   \* the UpdatePlan of that depth, with done_fns_
    child   \* child_update_requests_

storage == <<fns, sens>>
update == <<op, lvl, plan, child>>
vars == <<fns, sens, nodec, live, assigned, op, lvl, plan, child>>

EmptyMap == [x \in {} |-> x]

Without(f, X) == [x \in DOMAIN f \ X |-> f[x]]

With(f, x, v) == [y \in DOMAIN f \cup {x} |-> IF y = x THEN v ELSE f[y]]

-----------------------------------------------------------------------------
(* Update requests.  A call of add_node ("add"), insert_into_node          *)
(* ("insert"), remove_from_node ("remove") or apply_ref_count_delta with   *)
(* +1 ("keep") or -1 ("drop") is a record; at and kp tell the calls of one *)
(* node apart.  The calls for the edges of one node commute, and their     *)
(* joint effect on the requests is given in closed form.                   *)

NoRequests ==
    [delta    |-> EmptyMap,   \* fn_deltas_ and the ref_count_delta of sen_changes_
     entry    |-> {},         \* the entries of sen_changes_
     update   |-> {},         \* fn_update_entries_
     creation |-> {},         \* fn_creations_
     dropped  |-> {},         \* fn_deletion_candidates_
     fresh    |-> {}]         \* fn_potentially_new_

\* Depth-1 single entries of a taggable trait live in the identifier.
in_place(d, id) == Taggable /\ d = 1 /\ is_sen(id)

\* remove_from_node: the identifier of what remains of a node.
after_removal(d, source, es) ==
    LET target_id == combine(RawIdentifier(es), source)
    IN  IF is_sen(source) \/ empty(target_id) THEN NoId
        ELSE IF fns[d][source].size - Cardinality(es) = 1 THEN retag_as_sen(target_id)
        ELSE target_id

\* The identifier a call returns.
Returned(d, c) ==
    CASE c.call = "add"    -> RawIdentifier(c.entries)
      [] c.call = "insert" -> combine(RawIdentifier(c.entries), c.source)
      [] c.call = "remove" -> after_removal(d, c.source, c.entries)
      [] OTHER             -> c.source

\* The nodes that gain and that lose a reference by a call.
GainsOfChanges(d, c) ==
    IF c.call \in {"add", "insert", "remove"}
    THEN {id \in {Returned(d, c)} : ~empty(id) /\ ~in_place(d, id)}
    ELSE {}

Gains(d, c) ==
    IF c.call \in {"add", "insert", "remove", "keep"}
    THEN {id \in {Returned(d, c)} : ~empty(id) /\ ~in_place(d, id)}
    ELSE {}

Loses(d, c) ==
    IF c.call = "drop" \/ (c.call \in {"insert", "remove"} /\ c.decrement)
    THEN {id \in {c.source} : ~in_place(d, id)}
    ELSE {}

\* The asserts of insert_into_node and remove_from_node.
CallOk(d, c) ==
    /\ c.call = "insert" => ~empty(c.source)
    /\ c.call \in {"insert", "remove"} /\ is_sen(c.source) /\ ~in_place(d, c.source)
       => c.source \in DOMAIN sens[d]
    /\ c.call = "remove" /\ is_sen(c.source) => c.source.es = c.entries
    /\ c.call = "remove" /\ is_fn(c.source) /\ c.source.es # c.entries
       => /\ c.source \in DOMAIN fns[d]
          /\ fns[d][c.source].size > Cardinality(c.entries)

\* The requests r after the calls C.
Requested(d, r, C) ==
    LET gained == UNION {Gains(d, c) : c \in C}
        lost   == UNION {Loses(d, c) : c \in C}
        count(id) == IF id \in DOMAIN r.delta THEN r.delta[id] ELSE 0
    IN  [delta    |-> [id \in DOMAIN r.delta \cup gained \cup lost |->
                          count(id) + Cardinality({c \in C : id \in Gains(d, c)})
                                    - Cardinality({c \in C : id \in Loses(d, c)})],
         entry    |-> r.entry \cup
                      {[id |-> Returned(d, c), entries |-> Returned(d, c).es] :
                          c \in {x \in C : x.call \in {"add", "remove"} /\ is_sen(Returned(d, x))}},
         update   |-> r.update \cup
                      {[source |-> c.source, target |-> Returned(d, c),
                        entries |-> c.entries, mode |-> c.call] :
                          c \in {x \in C : /\ x.call \in {"insert", "remove"}
                                           /\ is_fn(x.source)
                                           /\ is_fn(Returned(d, x))}},
         creation |-> r.creation \cup
                      {[id |-> RawIdentifier(c.entries), entries |-> c.entries] :
                          c \in {x \in C : x.call = "add" /\ Cardinality(x.entries) > 1}} \cup
                      {[id |-> Returned(d, c), entries |-> c.entries \cup c.source.es] :
                          c \in {x \in C : x.call = "insert" /\ is_sen(x.source)}},
         dropped  |-> r.dropped \cup {id \in lost : is_fn(id)},
         fresh    |-> r.fresh \cup {id \in gained : is_fn(id)}]

-----------------------------------------------------------------------------
(* Planning one level.                                                     *)

Idle == lvl = 0

NoPlan ==
    [todo |-> {}, create |-> {}, copy |-> {}, move |-> {}, delete |-> {},
     delta |-> EmptyMap, done |-> {}, request |-> NoRequests]

\* The deletion candidates that nothing refers to any more.
DeletedOld(d, r) == {id \in r.dropped : fns[d][id].ref = 1}

Deleted(d, r) == {id \in r.dropped : fns[d][id].ref + r.delta[id] = 0}

\* UpdatePlan, up to the loop over fn_update_entries_: the nodes that are to
\* be created and deleted, and the deltas that are left to apply.
StartPlan(d, r) ==
    LET deleted == Deleted(d, r)
    IN  [todo    |-> {u.source : u \in r.update},
         create  |-> {id \in r.fresh : id \notin DOMAIN fns[d]},
         copy    |-> {},
         move    |-> {},
         delete  |-> deleted,
         delta   |-> Without(r.delta, deleted \cup {id \in DOMAIN r.delta : r.delta[id] = 0}),
         done    |-> {},
         request |-> r]

\* The asserts on the deletion candidates.
PlanOk(d, r) ==
    \A id \in r.dropped : id \in DOMAIN fns[d] /\ fns[d][id].ref + r.delta[id] >= 0

\* ApplyUpdate of depth d is constructed from the requests r.
StartLevel(d, r) ==
    /\ PlanOk(d, r)
    /\ lvl' = d
    /\ plan' = StartPlan(d, r)
    /\ child' = NoRequests

\* Whether the source of an update is not needed any more.
ReusableAlways(s) == TRUE

Reusable(s) == s \in plan.delete

\* One iteration of that loop: the targets that nobody creates yet are made
\* from the source s.  One of them reuses s if s would be deleted.
PlanSourceStays(s) == s \in plan.todo /\ UNCHANGED vars

PlanSource(s) ==
    LET updates == {u \in plan.request.update : u.source = s /\ u.target \in plan.create}
    IN  /\ s \in plan.todo
        /\ \E moved \in SUBSET updates :
             /\ Cardinality(moved) = IF Reusable(s) /\ updates # {} THEN 1 ELSE 0
             /\ plan' = [plan EXCEPT
                           !.todo   = @ \ {s},
                           !.create = @ \ {u.target : u \in updates},
                           !.copy   = @ \cup (updates \ moved),
                           !.move   = @ \cup moved,
                           !.delete = IF moved = {} THEN @ ELSE @ \ {s}]
        /\ UNCHANGED <<fns, sens, nodec, live, assigned, op, lvl, child>>

-----------------------------------------------------------------------------
(* Executing the plan: consume_and_execute runs fn_create, fn_update_copy, *)
(* fn_update_move and fn_delete in this order.                             *)

\* The call for the child at position pos and key part kp of a node with the
\* given edges.  An edge that the update does not touch is referred to by a
\* further node if the node is a copy.
ChildCall(mode, origin, edges, entries, pos, kp) ==
    LET sub == SubEntries(entries, pos, kp)
        old == kp \in DOMAIN edges[pos]
    IN  [at |-> pos, kp |-> kp,
         call |-> CASE sub = {} -> IF origin = "copied" THEN "keep" ELSE "none"
                    [] sub # {} /\ ~old -> "add"
                    [] OTHER -> mode,
         source |-> IF old THEN edges[pos][kp] ELSE NoId,
         entries |-> sub,
         decrement |-> origin = "moved"]

ChildCalls(d, mode, origin, edges, entries) ==
    UNION {{ChildCall(mode, origin, edges, entries, pos, kp) :
               kp \in DOMAIN edges[pos] \cup PartsAt(entries, pos)} : pos \in 1 .. d}

\* The edges of the node after the calls: the returned identifiers, without
\* the empty ones.
UpdatedEdgesAll(d, mode, origin, edges, entries) ==
    [pos \in 1 .. d |->
        [kp \in DOMAIN edges[pos] \cup PartsAt(entries, pos) |->
            Returned(d - 1, ChildCall(mode, origin, edges, entries, pos, kp))]]

UpdatedEdges(d, mode, origin, edges, entries) ==
    [pos \in 1 .. d |->
        LET child_id(kp) == Returned(d - 1, ChildCall(mode, origin, edges, entries, pos, kp))
        IN  [kp \in {x \in DOMAIN edges[pos] \cup PartsAt(entries, pos) : ~empty(child_id(x))}
                |-> child_id(kp)]]

UpdatedSize(d, mode, size, edges, entries) ==
    IF d = 1 THEN Cardinality(DOMAIN edges[1])
    ELSE IF mode = "insert" THEN size + Cardinality(entries)
    ELSE size - Cardinality(entries)

\* apply_fn_entry_insertion and apply_fn_entry_erasure on a node that has the
\* given size and edges: the node and the child requests afterwards.
UpdatedNode(d, mode, origin, ref, size, edges, entries) ==
    LET after == UpdatedEdges(d, mode, origin, edges, entries)
    IN  [ref |-> ref, size |-> UpdatedSize(d, mode, size, after, entries), edges |-> after]

ApplyToChildren(d, calls) ==
    IF d = 1 THEN child' = child
    ELSE /\ \A c \in calls : CallOk(d - 1, c)
         /\ child' = Requested(d - 1, child, calls)

NoEdges(d) == [pos \in 1 .. d |-> EmptyMap]

create_fn(id) ==
    /\ plan.todo = {} /\ id \in plan.create
    /\ id \in DOMAIN plan.delta /\ plan.delta[id] > 0
    /\ \E c \in plan.request.creation :
         /\ c.id = id
         /\ fns' = [fns EXCEPT ![lvl] =
                      With(@, id, UpdatedNode(lvl, "insert", "created", plan.delta[id],
                                              0, NoEdges(lvl), c.entries))]
         /\ ApplyToChildren(lvl, ChildCalls(lvl, "insert", "created", NoEdges(lvl), c.entries))
    /\ plan' = [plan EXCEPT !.create = @ \ {id}, !.done = @ \cup {id}]
    /\ UNCHANGED <<sens, nodec, live, assigned, op, lvl>>

copy_update_fn_to_fn(u) ==
    LET source == fns[lvl][u.source]
    IN  /\ plan.todo = {} /\ plan.create = {} /\ u \in plan.copy
        /\ u.source \in DOMAIN fns[lvl] /\ u.target \notin DOMAIN fns[lvl]
        /\ u.target \in DOMAIN plan.delta
        /\ fns' = [fns EXCEPT ![lvl] =
                     With(@, u.target,
                          UpdatedNode(lvl, u.mode, "copied", plan.delta[u.target],
                                      source.size, source.edges, u.entries))]
        /\ ApplyToChildren(lvl, ChildCalls(lvl, u.mode, "copied", source.edges, u.entries))
        /\ plan' = [plan EXCEPT !.copy = @ \ {u}, !.done = @ \cup {u.target}]
        /\ UNCHANGED <<sens, nodec, live, assigned, op, lvl>>

move_update_fn_to_fn(u) ==
    LET source == fns[lvl][u.source]
    IN  /\ plan.todo = {} /\ plan.create = {} /\ plan.copy = {} /\ u \in plan.move
        /\ u.source \in DOMAIN fns[lvl] /\ u.target \notin DOMAIN fns[lvl]
        /\ u.target \in DOMAIN plan.delta
        /\ fns' = [fns EXCEPT ![lvl] =
                     With(Without(@, {u.source}), u.target,
                          UpdatedNode(lvl, u.mode, "moved", plan.delta[u.target],
                                      source.size, source.edges, u.entries))]
        /\ ApplyToChildren(lvl, ChildCalls(lvl, u.mode, "moved", source.edges, u.entries))
        /\ plan' = [plan EXCEPT !.move = @ \ {u}, !.done = @ \cup {u.source, u.target}]
        /\ UNCHANGED <<sens, nodec, live, assigned, op, lvl>>

\* Every edge of a deleted node loses a reference.
DropCalls(d, edges) ==
    UNION {{[at |-> pos, kp |-> kp, call |-> "drop", source |-> edges[pos][kp],
             entries |-> {}, decrement |-> TRUE] : kp \in DOMAIN edges[pos]} : pos \in 1 .. d}

delete_fn(id) ==
    /\ plan.todo = {} /\ plan.create = {} /\ plan.copy = {} /\ plan.move = {}
    /\ id \in plan.delete /\ id \in DOMAIN fns[lvl]
    /\ fns' = [fns EXCEPT ![lvl] = Without(@, {id})]
    /\ ApplyToChildren(lvl, DropCalls(lvl, fns[lvl][id].edges))
    /\ plan' = [plan EXCEPT !.delete = @ \ {id}]
    /\ UNCHANGED <<sens, nodec, live, assigned, op, lvl>>

\* The reference counts that no step above has set.
LeftDeltasAll == {id \in DOMAIN plan.delta : is_fn(id)}

LeftDeltas == {id \in DOMAIN plan.delta : is_fn(id) /\ id \notin plan.done}

ApplyDeltas(nodes) ==
    [id \in DOMAIN nodes |->
        IF id \in LeftDeltas THEN [nodes[id] EXCEPT !.ref = @ + plan.delta[id]] ELSE nodes[id]]

\* apply_sen_update for all changed single entries.
apply_sen_update(nodes) ==
    LET changed == {id \in DOMAIN plan.delta : is_sen(id)}
        ref(id) == (IF id \in DOMAIN nodes THEN nodes[id].ref ELSE 0)
                   + (IF id \in changed THEN plan.delta[id] ELSE 0)
        entry(id) == IF id \in DOMAIN nodes THEN nodes[id].entries
                     ELSE (CHOOSE e \in plan.request.entry : e.id = id).entries
    IN  [id \in {x \in DOMAIN nodes \cup changed : ref(x) # 0} |->
            [ref |-> ref(id), entries |-> entry(id)]]

\* The asserts of the last two loops of consume_and_execute.
LevelOk ==
    /\ \A id \in LeftDeltas :
         id \in DOMAIN fns[lvl] /\ fns[lvl][id].ref + plan.delta[id] > 0
    /\ \A id \in DOMAIN plan.delta : is_sen(id) =>
         IF id \in DOMAIN sens[lvl] THEN sens[lvl][id].ref + plan.delta[id] >= 0
         ELSE plan.delta[id] > 0 /\ \E e \in plan.request.entry : e.id = id /\ e.entries = id.es

\* The rest of consume_and_execute, and the return to the caller at depth 1.
FinishLevel ==
    /\ ~Idle
    /\ plan.todo = {} /\ plan.create = {} /\ plan.copy = {} /\ plan.move = {} /\ plan.delete = {}
    /\ LevelOk
    /\ fns' = [fns EXCEPT ![lvl] = ApplyDeltas(@)]
    /\ sens' = [sens EXCEPT ![lvl] = apply_sen_update(@)]
    /\ UNCHANGED assigned
    /\ IF lvl > 1
       THEN StartLevel(lvl - 1, child) /\ UNCHANGED <<nodec, live, op>>
       ELSE /\ nodec' = [nodec EXCEPT ![op.handle] = op.target]
            /\ live' = IF op.kind = "destroy" THEN live \ {op.handle} ELSE live
            /\ op' = [kind |-> "none"]
            /\ lvl' = 0
            /\ plan' = NoPlan
            /\ child' = NoRequests

-----------------------------------------------------------------------------
(* Operations on Hypertries.                                               *)

Call(kind, source, es) ==
    [at |-> 0, kp |-> 0, call |-> kind, source |-> source, entries |-> es, decrement |-> TRUE]

\* apply_update: a single request at the depth of the Hypertrie.
Begin(h, kind, es, call) ==
    LET d == HandleDepth[h]
    IN  /\ CallOk(d, call)
        /\ op' = [kind |-> kind, handle |-> h, entries |-> es,
                  target |-> IF kind = "destroy" THEN NoId ELSE Returned(d, call)]
        /\ StartLevel(d, Requested(d, NoRequests, {call}))
        /\ UNCHANGED <<fns, sens, nodec, live, assigned>>

\* The bulks of the callers: insertions have no entry of the Hypertrie,
\* removals only such entries.
insert(h, es) ==
    /\ Idle /\ h \in live
    /\ es # {} /\ es \cap nodec[h].es = {}
    /\ Begin(h, "insert", es, IF empty(nodec[h]) THEN Call("add", NoId, es)
                              ELSE Call("insert", nodec[h], es))

remove(h, es) ==
    /\ Idle /\ h \in live
    /\ es # {} /\ es \subseteq nodec[h].es
    /\ Begin(h, "remove", es, Call("remove", nodec[h], es))

\* set: one entry is inserted or removed if that changes the value.  (At
\* depth 1 the code first inserts into an empty Hypertrie of a taggable trait,
\* also for the value false, and then removes again what it inserted; both
\* leave the storage alone.)
set(h, k, value) ==
    \/ value /\ k \notin nodec[h].es /\ insert(h, {k})
    \/ ~value /\ k \in nodec[h].es /\ remove(h, {k})

\* A Hypertrie refers to a counted node unless it is empty or in place.
Counted(d, id) == ~empty(id) /\ ~in_place(d, id)

AddToRef(d, id, n) ==
    IF is_fn(id)
    THEN fns' = [fns EXCEPT ![d][id].ref = @ + n] /\ UNCHANGED sens
    ELSE sens' = [sens EXCEPT ![d][id].ref = @ + n] /\ UNCHANGED fns

inc_ref_count_none(d, id) == UNCHANGED storage

inc_ref_count(d, id) ==
    IF Counted(d, id) THEN AddToRef(d, id, 1) ELSE UNCHANGED storage

RefOf(d, id) == IF is_fn(id) THEN fns[d][id].ref ELSE sens[d][id].ref

\* Hypertrie(depth, context).
Construct(h) ==
    /\ Idle /\ h \notin live
    /\ live' = live \cup {h}
    /\ UNCHANGED <<fns, sens, nodec, assigned, update>>

\* Hypertrie g{h}.
CopyConstruct(g, h) ==
    /\ Idle /\ g \notin live /\ h \in live /\ HandleDepth[g] = HandleDepth[h]
    /\ inc_ref_count(HandleDepth[h], nodec[h])
    /\ nodec' = [nodec EXCEPT ![g] = nodec[h]]
    /\ live' = live \cup {g}
    /\ UNCHANGED <<assigned, update>>

\* Hypertrie g{std::move(h)}: h is left without context and depth.
MoveConstruct(g, h) ==
    /\ Idle /\ g \notin live /\ h \in live /\ HandleDepth[g] = HandleDepth[h]
    /\ nodec' = [nodec EXCEPT ![g] = nodec[h], ![h] = NoId]
    /\ live' = (live \ {h}) \cup {g}
    /\ UNCHANGED <<fns, sens, assigned, update>>

\* g = h: the node that g had keeps its reference count.
CopyAssign(g, h) ==
    /\ assigned < MaxAssigns /\ Idle /\ g \in live /\ h \in live /\ HandleDepth[g] = HandleDepth[h]
    /\ inc_ref_count(HandleDepth[h], nodec[h])
    /\ nodec' = [nodec EXCEPT ![g] = nodec[h]]
    /\ assigned' = assigned + 1
    /\ UNCHANGED <<live, update>>

\* g = std::move(h).
MoveAssign(g, h) ==
    /\ assigned < MaxAssigns /\ Idle /\ g # h /\ {g, h} \subseteq live /\ HandleDepth[g] = HandleDepth[h]
    /\ nodec' = [nodec EXCEPT ![g] = nodec[h], ![h] = NoId]
    /\ live' = live \ {h}
    /\ assigned' = assigned + 1
    /\ UNCHANGED <<fns, sens, update>>

\* ~Hypertrie with decr_ref_count: the last reference goes through an update.
Destroy(h) ==
    LET d == HandleDepth[h]
    IN  /\ Idle /\ h \in live
        /\ IF Counted(d, nodec[h]) /\ RefOf(d, nodec[h]) = 1
           THEN Begin(h, "destroy", {}, Call("drop", nodec[h], {}))
           ELSE /\ IF Counted(d, nodec[h]) THEN AddToRef(d, nodec[h], -1) ELSE UNCHANGED storage
                /\ nodec' = [nodec EXCEPT ![h] = NoId]
                /\ live' = live \ {h}
                /\ UNCHANGED <<assigned, update>>

-----------------------------------------------------------------------------

Init ==
    /\ fns = [d \in Depths |-> EmptyMap]
    /\ sens = [d \in Depths |-> EmptyMap]
    /\ nodec = [h \in Handles |-> NoId]
    /\ live = {}
    /\ assigned = 0
    /\ op = [kind |-> "none"]
    /\ lvl = 0
    /\ plan = NoPlan
    /\ child = NoRequests

Bulks(h) == {es \in SUBSET HandleKeys[h] : Cardinality(es) <= MaxBulk}

Step ==
    \/ \E s \in plan.todo : PlanSource(s)
    \/ \E id \in plan.create : create_fn(id)
    \/ \E u \in plan.copy : copy_update_fn_to_fn(u)
    \/ \E u \in plan.move : move_update_fn_to_fn(u)
    \/ \E id \in plan.delete : delete_fn(id)
    \/ FinishLevel

Operation ==
    \/ \E h \in Handles : \E es \in Bulks(h) : insert(h, es)
    \/ \E h \in Handles : \E es \in Bulks(h) : remove(h, es)
    \/ \E h \in Handles : \E k \in HandleKeys[h], value \in BOOLEAN : set(h, k, value)
    \/ \E h \in Handles : Construct(h)
    \/ \E g, h \in Handles : CopyConstruct(g, h)
    \/ \E g, h \in Handles : MoveConstruct(g, h)
    \/ \E g, h \in Handles : CopyAssign(g, h)
    \/ \E g, h \in Handles : MoveAssign(g, h)
    \/ \E h \in Handles : Destroy(h)

Next == Step \/ Operation

Spec == Init /\ [][Next]_vars /\ WF_vars(Step)

-----------------------------------------------------------------------------
(* Properties.                                                             *)

IsMap(f, S, T) ==
    f = [x \in DOMAIN f |-> f[x]] /\ DOMAIN f \subseteq S /\ \A x \in DOMAIN f : f[x] \in T

IsEdges(d, edges) ==
    /\ edges = [pos \in 1 .. d |-> edges[pos]]
    /\ \A pos \in 1 .. d : IsMap(edges[pos], KeyParts, RawIdentifiers(d - 1))

IsFullNode(d, n) ==
    /\ n = [ref |-> n.ref, size |-> n.size, edges |-> n.edges]
    /\ n.ref \in Int /\ n.size \in Int
    /\ IsEdges(d, n.edges)

SingleEntryNodes(d) == [ref : Int, entries : SUBSET Keys(d)]

Updates(d) ==
    [source : RawIdentifiers(d), target : RawIdentifiers(d), entries : SUBSET Keys(d),
     mode : {"insert", "remove"}]

Creations(d) == [id : RawIdentifiers(d), entries : SUBSET Keys(d)]

IsRequests(d, r) ==
    /\ r = [delta |-> r.delta, entry |-> r.entry, update |-> r.update,
            creation |-> r.creation, dropped |-> r.dropped, fresh |-> r.fresh]
    /\ IsMap(r.delta, RawIdentifiers(d), Int)
    /\ r.entry \subseteq Creations(d) /\ r.creation \subseteq Creations(d)
    /\ r.update \subseteq Updates(d)
    /\ r.dropped \subseteq DOMAIN r.delta /\ r.fresh \subseteq DOMAIN r.delta

IsPlan(d, p) ==
    /\ p = [todo |-> p.todo, create |-> p.create, copy |-> p.copy, move |-> p.move,
            delete |-> p.delete, delta |-> p.delta, done |-> p.done, request |-> p.request]
    /\ p.todo \subseteq RawIdentifiers(d) /\ p.create \subseteq RawIdentifiers(d)
    /\ p.copy \subseteq Updates(d) /\ p.move \subseteq Updates(d)
    /\ p.delete \subseteq RawIdentifiers(d) /\ p.done \subseteq RawIdentifiers(d)
    /\ IsMap(p.delta, RawIdentifiers(d), Int)
    /\ IsRequests(d, p.request)

StorageOK ==
    /\ fns = [d \in Depths |-> fns[d]]
    /\ sens = [d \in Depths |-> sens[d]]
    /\ \A d \in Depths :
         /\ fns[d] = [id \in DOMAIN fns[d] |-> fns[d][id]]
         /\ DOMAIN fns[d] \subseteq RawIdentifiers(d)
         /\ \A id \in DOMAIN fns[d] : IsFullNode(d, fns[d][id])
         /\ IsMap(sens[d], RawIdentifiers(d), SingleEntryNodes(d))

HandlesOK ==
    /\ nodec = [h \in Handles |-> nodec[h]]
    /\ \A h \in Handles : nodec[h] \in RawIdentifiers(HandleDepth[h])
    /\ live \subseteq Handles
    /\ assigned \in Nat

OperationOK ==
    /\ op = [kind |-> op.kind, handle |-> op.handle, entries |-> op.entries, target |-> op.target]
    /\ op.kind \in {"insert", "remove", "destroy"} /\ op.handle \in live
    /\ op.entries \subseteq Keys(HandleDepth[op.handle])
    /\ op.target \in RawIdentifiers(HandleDepth[op.handle])

UpdateOK ==
    /\ lvl \in 0 .. MaxDepth
    /\ Idle => op = [kind |-> "none"] /\ plan = NoPlan /\ child = NoRequests
    /\ ~Idle => /\ OperationOK
               /\ IsPlan(lvl, plan)
               /\ IF lvl = 1 THEN child = NoRequests ELSE IsRequests(lvl - 1, child)

\* The storage, the requests and the plan have the types that the classes
\* NodeStorage, UpdateRequests and UpdatePlan declare: identifiers, entries
\* and children always have the depth of the level they are used at.
TypeOK == StorageOK /\ HandlesOK /\ UpdateOK

\* The node that ValidationRawNodeContext::init builds for the entries es.
CanonicalEdges(d, es) ==
    [pos \in 1 .. d |-> [kp \in PartsAt(es, pos) |-> RawIdentifier(SubEntries(es, pos, kp))]]

\* At every moment, also in the middle of an update, each stored node is what
\* its identifier says: however often a full node was copied, moved, grown or
\* shrunk, its size and all its edges are those of a node that is built from
\* scratch from the entries of its identifier (the comparison with a freshly
\* built context in the tests, CHECK(Equal::equal(*node, *other_node))).
NodesCanonical ==
    \A d \in Depths :
        /\ \A id \in DOMAIN fns[d] :
             /\ Cardinality(id.es) > 1 /\ id = RawIdentifier(id.es)
             /\ fns[d][id].size = Cardinality(id.es)
             /\ fns[d][id].edges = CanonicalEdges(d, id.es)
        /\ \A id \in DOMAIN sens[d] :
             Cardinality(id.es) = 1 /\ id = RawIdentifier(id.es) /\ sens[d][id].entries = id.es

\* What refers to a node: edges of full nodes one depth up, and Hypertries.
ParentEdges(d, id) ==
    IF d = MaxDepth THEN {}
    ELSE {e \in (DOMAIN fns[d + 1]) \X (1 .. (d + 1)) \X KeyParts :
             LET edges == fns[d + 1][e[1]].edges[e[2]]
             IN  e[3] \in DOMAIN edges /\ edges[e[3]] = id}

Owners(d, id) == {h \in Handles : HandleDepth[h] = d /\ nodec[h] = id}

References(d, id) == Cardinality(ParentEdges(d, id)) + Cardinality(Owners(d, id))

StoredRefs(d) ==
    [id \in DOMAIN fns[d] \cup DOMAIN sens[d] |->
        IF id \in DOMAIN fns[d] THEN fns[d][id].ref ELSE sens[d][id].ref]

\* As long as no Hypertrie was assigned to, every node counts between
\* operations exactly the edges and Hypertries that refer to it, and no node
\* without a reference is kept
\* (CHECK(node->ref_count() == other_node->ref_count()) in the tests).
RefCountsExact ==
    Idle /\ assigned = 0 =>
        \A d \in Depths : \A id \in DOMAIN StoredRefs(d) :
            StoredRefs(d)[id] > 0 /\ StoredRefs(d)[id] = References(d, id)

\* Assignments of Hypertries leak references but never lose one: a node that
\* is referred to has at least that many references.
RefCountsSufficient ==
    Idle => \A d \in Depths : \A id \in DOMAIN StoredRefs(d) :
                StoredRefs(d)[id] > 0 /\ StoredRefs(d)[id] >= References(d, id)

\* Between operations every edge and every Hypertrie leads to a stored node,
\* so lookup never returns a null pointer.
NoDangling ==
    Idle =>
        /\ \A h \in Handles : Counted(HandleDepth[h], nodec[h])
                => nodec[h] \in DOMAIN StoredRefs(HandleDepth[h])
        /\ \A d \in Depths \ {1} : \A id \in DOMAIN fns[d] : \A pos \in 1 .. d :
             \A kp \in DOMAIN fns[d][id].edges[pos] :
                LET c == fns[d][id].edges[pos][kp]
                IN  Counted(d - 1, c) => c \in DOMAIN StoredRefs(d - 1)

\* Where the next steps of an update assert something: the calls for the
\* children, fn_create, fn_update_copy and fn_update_move, and a new request.
ChildrenOk(calls) == lvl > 1 => \A c \in calls : CallOk(lvl - 1, c)

CreationOk(id) ==
    /\ id \in DOMAIN plan.delta /\ plan.delta[id] > 0
    /\ \E c \in plan.request.creation : c.id = id
    /\ \A c \in plan.request.creation :
         ChildrenOk(ChildCalls(lvl, "insert", "created", NoEdges(lvl), c.entries))

UpdateOfOk(u, origin) ==
    /\ u.source \in DOMAIN fns[lvl] /\ u.target \notin DOMAIN fns[lvl]
    /\ u.target \in DOMAIN plan.delta
    /\ ChildrenOk(ChildCalls(lvl, u.mode, origin, fns[lvl][u.source].edges, u.entries))

StepsOk ==
    plan.todo = {} =>
        /\ \A id \in plan.create : CreationOk(id)
        /\ plan.create = {} => \A u \in plan.copy : UpdateOfOk(u, "copied")
        /\ plan.create = {} /\ plan.copy = {} => \A u \in plan.move : UpdateOfOk(u, "moved")
        /\ plan.delete \subseteq DOMAIN fns[lvl]
        /\ plan.create = {} /\ plan.copy = {} /\ plan.move = {} /\ plan.delete = {}
           => LevelOk /\ (lvl > 1 => PlanOk(lvl - 1, child))

RequestOk(h, call) ==
    LET d == HandleDepth[h]
    IN  CallOk(d, call) /\ PlanOk(d, Requested(d, NoRequests, {call}))

\* No assert of an update fails, at no level and in no order of its steps:
\* every source, deletion candidate and edge that a step looks up is stored,
\* no node is written over another one, every new node has a request that
\* describes it and a positive count, and no count becomes negative; and
\* between operations the asserts hold for every bulk that may come.
AssertsHold ==
    /\ ~Idle => StepsOk
    /\ Idle => \A h \in live :
         /\ \A es \in (SUBSET HandleKeys[h]) \ {{}} :
              /\ empty(nodec[h]) => RequestOk(h, Call("add", NoId, es))
              /\ es \cap nodec[h].es = {} /\ ~empty(nodec[h])
                 => RequestOk(h, Call("insert", nodec[h], es))
              /\ es \subseteq nodec[h].es => RequestOk(h, Call("remove", nodec[h], es))
         /\ Counted(HandleDepth[h], nodec[h]) => RequestOk(h, Call("drop", nodec[h], {}))

\* An update comes to its end, whatever the order of its steps.
UpdateTerminates == ~Idle ~> Idle

=============================================================================

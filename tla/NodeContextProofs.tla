-------------------------- MODULE NodeContextProofs --------------------------
(***************************************************************************)
(* Type correctness of the node storage, the update requests and the plan, *)
(* for all key parts, depths, Hypertries and bulks: whatever the code puts *)
(* into the containers of a depth has that depth.                          *)
(***************************************************************************)
EXTENDS NodeContext, KeyTheorems

-----------------------------------------------------------------------------
(* Calls and requests.                                                     *)

CallNames == {"add", "insert", "remove", "keep", "drop", "none"}

IsCall(d, c) ==
    /\ c.call \in CallNames
    /\ c.source \in RawIdentifiers(d)
    /\ c.entries \in SUBSET Keys(d)

\* Every call returns an identifier of its own depth.
LEMMA ReturnedType ==
    ASSUME NEW d, NEW c, IsCall(d, c)
    PROVE  Returned(d, c) \in RawIdentifiers(d)
BY IdentifierTypes DEF IsCall, Returned, after_removal

LEMMA GainsLosesType ==
    ASSUME NEW d, NEW c, IsCall(d, c)
    PROVE  Gains(d, c) \subseteq RawIdentifiers(d) /\ Loses(d, c) \subseteq RawIdentifiers(d)
BY ReturnedType DEF Gains, Loses, IsCall

\* Requests of a depth stay requests of that depth.
LEMMA RequestedType ==
    ASSUME NEW d, NEW r, IsRequests(d, r),
           NEW C, IsFiniteSet(C), \A c \in C : IsCall(d, c)
    PROVE  IsRequests(d, Requested(d, r, C))
<1> DEFINE gained == UNION {Gains(d, c) : c \in C}
           lost   == UNION {Loses(d, c) : c \in C}
           count(id) == IF id \in DOMAIN r.delta THEN r.delta[id] ELSE 0
           up(id) == Cardinality({c \in C : id \in Gains(d, c)})
           down(id) == Cardinality({c \in C : id \in Loses(d, c)})
           delta == [id \in DOMAIN r.delta \cup gained \cup lost |-> count(id) + up(id) - down(id)]
           new == Requested(d, r, C)
<1>1. gained \subseteq RawIdentifiers(d) /\ lost \subseteq RawIdentifiers(d)
  BY GainsLosesType
<1>2. \A id : up(id) \in Nat /\ down(id) \in Nat
  BY FS_Subset, FS_CardinalityType
<1>3. \A id : count(id) \in Int
  BY DEF IsRequests, IsMap
<1>4. new.delta = delta
  BY DEF Requested
<1>10. IsMap(new.delta, RawIdentifiers(d), Int)
  <2>1. DOMAIN r.delta \subseteq RawIdentifiers(d)
    BY DEF IsRequests, IsMap
  <2> HIDE DEF count, up, down, gained, lost
  <2> QED
    BY <1>1, <1>2, <1>3, <1>4, <2>1 DEF IsMap
<1>5. new.entry \subseteq Creations(d)
  <2>1. \A c \in C : [id |-> Returned(d, c), entries |-> Returned(d, c).es] \in Creations(d)
    BY ReturnedType, IdentifierTypes DEF Creations
  <2> QED
    BY <2>1 DEF Requested, IsRequests
<1>6. new.creation \subseteq Creations(d)
  <2>1. \A c \in C : /\ [id |-> RawIdentifier(c.entries), entries |-> c.entries] \in Creations(d)
                     /\ [id |-> Returned(d, c), entries |-> c.entries \cup c.source.es] \in Creations(d)
    BY ReturnedType, IdentifierTypes DEF Creations, IsCall
  <2> QED
    BY <2>1 DEF Requested, IsRequests
<1>7. new.update \subseteq Updates(d)
  <2>1. \A c \in C : c.call \in {"insert", "remove"} =>
            [source |-> c.source, target |-> Returned(d, c),
             entries |-> c.entries, mode |-> c.call] \in Updates(d)
    BY ReturnedType DEF Updates, IsCall
  <2> QED
    BY <2>1 DEF Requested, IsRequests
<1>8. new.dropped \subseteq DOMAIN new.delta /\ new.fresh \subseteq DOMAIN new.delta
  BY DEF Requested, IsRequests
<1>9. new = [delta |-> new.delta, entry |-> new.entry, update |-> new.update,
             creation |-> new.creation, dropped |-> new.dropped, fresh |-> new.fresh]
  BY DEF Requested
<1>11. IsRequests(d, new)
  <2> HIDE DEF new
  <2> QED
    BY <1>5, <1>6, <1>7, <1>8, <1>9, <1>10, Zenon DEF IsRequests
<1> QED
  BY <1>11

LEMMA NoRequestsType == ASSUME NEW d PROVE IsRequests(d, NoRequests)
BY DEF IsRequests, NoRequests, IsMap, EmptyMap

\* The plan is made of requests of its depth.
LEMMA StartPlanType ==
    ASSUME NEW d, NEW r, IsRequests(d, r)
    PROVE  IsPlan(d, StartPlan(d, r))
<1> DEFINE p == StartPlan(d, r)
<1>1. p.todo \subseteq RawIdentifiers(d)
  BY DEF StartPlan, IsRequests, Updates
<1>2. p.create \subseteq RawIdentifiers(d) /\ p.delete \subseteq RawIdentifiers(d)
  BY DEF StartPlan, IsRequests, IsMap, Deleted
<1>3. IsMap(p.delta, RawIdentifiers(d), Int)
  BY DEF StartPlan, IsRequests, IsMap, Without
<1>4. p.request = r /\ p.copy = {} /\ p.move = {} /\ p.done = {}
  BY DEF StartPlan
<1>5. p = [todo |-> p.todo, create |-> p.create, copy |-> p.copy, move |-> p.move,
           delete |-> p.delete, delta |-> p.delta, done |-> p.done, request |-> p.request]
  BY DEF StartPlan
<1>6. /\ p.copy \subseteq Updates(d) /\ p.move \subseteq Updates(d)
      /\ p.done \subseteq RawIdentifiers(d) /\ IsRequests(d, p.request)
  BY <1>4
<1>7. IsPlan(d, p)
  <2> HIDE DEF p
  <2> QED
    BY <1>1, <1>2, <1>3, <1>5, <1>6, Zenon DEF IsPlan
<1> QED
  BY <1>7

-----------------------------------------------------------------------------
(* Nodes and the calls for their children.                                 *)

LEMMA ChildCallType ==
    ASSUME NEW d \in Depths, NEW mode \in {"insert", "remove"}, NEW origin,
           NEW edges, IsEdges(d, edges), NEW entries \in SUBSET Keys(d),
           NEW pos \in 1 .. d, NEW kp
    PROVE  IsCall(d - 1, ChildCall(mode, origin, edges, entries, pos, kp))
<1> DEFINE c == ChildCall(mode, origin, edges, entries, pos, kp)
<1>1. c.call \in CallNames
  BY DEF ChildCall, CallNames
<1>2. c.entries \in SUBSET Keys(d - 1)
  BY SubEntriesType DEF ChildCall
<1>3. c.source \in RawIdentifiers(d - 1)
  BY IdentifierTypes DEF ChildCall, IsEdges, IsMap
<1> HIDE DEF c
<1>4. IsCall(d - 1, c)
  BY <1>1, <1>2, <1>3 DEF IsCall
<1> QED
  BY <1>4 DEF c

\* The pairs of position and key part that a node has edges or entries for.
LEMMA EdgePositionsFinite ==
    ASSUME NEW d \in Depths, NEW S \in SUBSET ((1 .. d) \X KeyParts)
    PROVE  IsFiniteSet(S)
<1>1. IsFiniteSet(1 .. d)
  BY FS_Interval DEF Depths
<1>2. IsFiniteSet((1 .. d) \X KeyParts)
  BY <1>1, KeyPartsFinite, FS_Product
<1> QED
  BY <1>2, FS_Subset

LEMMA ChildCallsType ==
    ASSUME NEW d \in Depths, NEW mode \in {"insert", "remove"}, NEW origin,
           NEW edges, IsEdges(d, edges), NEW entries \in SUBSET Keys(d)
    PROVE  LET C == ChildCalls(d, mode, origin, edges, entries)
           IN  IsFiniteSet(C) /\ \A c \in C : IsCall(d - 1, c)
<1> DEFINE C == ChildCalls(d, mode, origin, edges, entries)
           call(pos, kp) == ChildCall(mode, origin, edges, entries, pos, kp)
           S == {x \in (1 .. d) \X KeyParts : x[2] \in DOMAIN edges[x[1]] \cup PartsAt(entries, x[1])}
           f == [x \in S |-> call(x[1], x[2])]
<1>1. \A pos \in 1 .. d : DOMAIN edges[pos] \cup PartsAt(entries, pos) \subseteq KeyParts
  BY PartsAtType DEF IsEdges, IsMap
<1>2. \A c \in C : \E pos \in 1 .. d : \E kp \in DOMAIN edges[pos] \cup PartsAt(entries, pos) :
                     c = call(pos, kp)
  BY DEF ChildCalls
<1>3. \A pos \in 1 .. d : \A kp \in DOMAIN edges[pos] \cup PartsAt(entries, pos) : call(pos, kp) \in C
  BY DEF ChildCalls
<1>4. f \in Surjection(S, C)
  <2> HIDE DEF call, C
  <2>1. f \in [S -> C]
    BY <1>3
  <2>2. ASSUME NEW c \in C PROVE \E x \in S : f[x] = c
    <3>0. PICK pos \in 1 .. d : \E kp \in DOMAIN edges[pos] \cup PartsAt(entries, pos) : c = call(pos, kp)
      BY <1>2
    <3>1. PICK kp \in DOMAIN edges[pos] \cup PartsAt(entries, pos) : c = call(pos, kp)
      BY <3>0
    <3>2. <<pos, kp>> \in S /\ f[<<pos, kp>>] = c
      BY <1>1, <3>1
    <3> QED
      BY <3>2
  <2> QED
    BY <2>1, <2>2 DEF Surjection
<1>5. IsFiniteSet(C)
  <2>1. IsFiniteSet(S)
    BY EdgePositionsFinite
  <2> HIDE DEF S, C, f
  <2> QED
    BY <1>4, <2>1, FS_Surjection
<1>6. \A c \in C : IsCall(d - 1, c)
  BY <1>2, ChildCallType
<1> QED
  BY <1>5, <1>6

LEMMA DropCallsType ==
    ASSUME NEW d \in Depths, NEW edges, IsEdges(d, edges)
    PROVE  LET C == DropCalls(d, edges)
           IN  IsFiniteSet(C) /\ \A c \in C : IsCall(d - 1, c)
<1> DEFINE C == DropCalls(d, edges)
           call(pos, kp) == [at |-> pos, kp |-> kp, call |-> "drop", source |-> edges[pos][kp],
                             entries |-> {}, decrement |-> TRUE]
           S == {x \in (1 .. d) \X KeyParts : x[2] \in DOMAIN edges[x[1]]}
           f == [x \in S |-> call(x[1], x[2])]
<1>1. \A pos \in 1 .. d : DOMAIN edges[pos] \subseteq KeyParts
  BY DEF IsEdges, IsMap
<1>0. C = UNION {{call(pos, kp) : kp \in DOMAIN edges[pos]} : pos \in 1 .. d}
  BY DEF DropCalls
<1>2. \A c \in C : \E pos \in 1 .. d : \E kp \in DOMAIN edges[pos] : c = call(pos, kp)
  <2> HIDE DEF call, C
  <2> QED BY <1>0
<1>3. \A pos \in 1 .. d : \A kp \in DOMAIN edges[pos] : call(pos, kp) \in C
  <2> HIDE DEF call, C
  <2> QED BY <1>0
<1>4. f \in Surjection(S, C)
  <2> HIDE DEF call, C
  <2>1. f \in [S -> C]
    BY <1>3
  <2>2. ASSUME NEW c \in C PROVE \E x \in S : f[x] = c
    <3>0. PICK pos \in 1 .. d : \E kp \in DOMAIN edges[pos] : c = call(pos, kp)
      BY <1>2
    <3>1. PICK kp \in DOMAIN edges[pos] : c = call(pos, kp)
      BY <3>0
    <3>2. <<pos, kp>> \in S /\ f[<<pos, kp>>] = c
      BY <1>1, <3>1
    <3> QED
      BY <3>2
  <2> QED
    BY <2>1, <2>2 DEF Surjection
<1>5. IsFiniteSet(C)
  <2>1. IsFiniteSet(S)
    BY EdgePositionsFinite
  <2> HIDE DEF S, C, f
  <2> QED
    BY <1>4, <2>1, FS_Surjection
<1>6. \A c \in C : IsCall(d - 1, c)
  <2>1. ASSUME NEW pos \in 1 .. d, NEW kp \in DOMAIN edges[pos] PROVE IsCall(d - 1, call(pos, kp))
    BY DEF IsCall, CallNames, IsEdges, IsMap
  <2> HIDE DEF call
  <2> QED
    BY <1>2, <2>1
<1> QED
  BY <1>5, <1>6

\* An updated node is a full node of its depth again.
LEMMA UpdatedNodeType ==
    ASSUME NEW d \in Depths, NEW mode \in {"insert", "remove"}, NEW origin,
           NEW ref \in Int, NEW size \in Int,
           NEW edges, IsEdges(d, edges), NEW entries \in SUBSET Keys(d)
    PROVE  IsFullNode(d, UpdatedNode(d, mode, origin, ref, size, edges, entries))
<1> DEFINE after == UpdatedEdges(d, mode, origin, edges, entries)
           n == UpdatedNode(d, mode, origin, ref, size, edges, entries)
           child_id(pos, kp) == Returned(d - 1, ChildCall(mode, origin, edges, entries, pos, kp))
<1>1. \A pos \in 1 .. d : \A kp : child_id(pos, kp) \in RawIdentifiers(d - 1)
  BY ChildCallType, ReturnedType
<1>2. \A pos \in 1 .. d : DOMAIN edges[pos] \cup PartsAt(entries, pos) \subseteq KeyParts
  BY PartsAtType DEF IsEdges, IsMap
<1>3. after = [pos \in 1 .. d |->
                 [kp \in {x \in DOMAIN edges[pos] \cup PartsAt(entries, pos) : ~empty(child_id(pos, x))}
                    |-> child_id(pos, kp)]]
  BY DEF UpdatedEdges
<1>4. IsEdges(d, after)
  <2> HIDE DEF after, child_id
  <2>1. \A pos \in 1 .. d : IsMap(after[pos], KeyParts, RawIdentifiers(d - 1))
    BY <1>1, <1>2, <1>3 DEF IsMap
  <2> QED
    BY <1>3, <2>1 DEF IsEdges
<1>5. UpdatedSize(d, mode, size, after, entries) \in Int
  <2>1. Cardinality(entries) \in Nat
    BY EntriesFinite DEF Depths
  <2>2. CASE d = 1
    <3>1. IsFiniteSet(DOMAIN after[1])
      BY <1>4, <2>2, KeyPartsFinite, FS_Subset DEF IsEdges, IsMap
    <3> QED
      BY <2>2, <3>1, FS_CardinalityType DEF UpdatedSize
  <2> QED
    BY <2>1, <2>2 DEF UpdatedSize
<1>6. /\ n = [ref |-> n.ref, size |-> n.size, edges |-> n.edges]
      /\ n.ref \in Int /\ n.size \in Int /\ IsEdges(d, n.edges)
  <2> HIDE DEF after
  <2>1. n = [ref |-> ref, size |-> UpdatedSize(d, mode, size, after, entries), edges |-> after]
    BY DEF UpdatedNode, after
  <2> QED
    BY <1>4, <1>5, <2>1
<1> QED
  BY <1>6 DEF IsFullNode

-----------------------------------------------------------------------------
(* The steps of an update.                                                 *)

\* What a storage of one depth looks like, for the full nodes.
AreFullNodes(d, nodes) ==
    /\ nodes = [id \in DOMAIN nodes |-> nodes[id]]
    /\ DOMAIN nodes \subseteq RawIdentifiers(d)
    /\ \A id \in DOMAIN nodes : IsFullNode(d, nodes[id])

LEMMA StorageStep ==
    ASSUME StorageOK, NEW l \in Depths, NEW nodes, AreFullNodes(l, nodes),
           fns' = [fns EXCEPT ![l] = nodes], sens' = sens
    PROVE  StorageOK'
<1>1. \A d \in Depths : AreFullNodes(d, fns'[d])
  BY DEF StorageOK, AreFullNodes
<1>2. fns' = [d \in Depths |-> fns'[d]]
  BY DEF StorageOK
<1> QED
  BY <1>1, <1>2 DEF StorageOK, AreFullNodes

LEMMA WithNodesType ==
    ASSUME NEW d \in Depths, NEW nodes, AreFullNodes(d, nodes),
           NEW id \in RawIdentifiers(d), NEW n, IsFullNode(d, n), NEW X
    PROVE  /\ AreFullNodes(d, With(nodes, id, n))
           /\ AreFullNodes(d, Without(nodes, X))
BY DEF AreFullNodes, With, Without

LEMMA ApplyToChildrenType ==
    ASSUME lvl \in Depths,
           IF lvl = 1 THEN child = NoRequests ELSE IsRequests(lvl - 1, child),
           NEW C, IsFiniteSet(C), \A c \in C : IsCall(lvl - 1, c),
           ApplyToChildren(lvl, C)
    PROVE  IF lvl = 1 THEN child' = NoRequests ELSE IsRequests(lvl - 1, child')
BY RequestedType DEF ApplyToChildren

LEMMA NoEdgesType == ASSUME NEW d \in Depths PROVE IsEdges(d, NoEdges(d))
BY DEF IsEdges, NoEdges, IsMap, EmptyMap

\* In the middle of an update everything that is used has the type of lvl.
LEMMA MidUpdate ==
    ASSUME TypeOK, ~Idle
    PROVE  /\ lvl \in Depths
           /\ OperationOK /\ IsPlan(lvl, plan)
           /\ IF lvl = 1 THEN child = NoRequests ELSE IsRequests(lvl - 1, child)
           /\ AreFullNodes(lvl, fns[lvl])
<1>1. lvl \in Depths
  BY MaxDepthAssumption DEF TypeOK, UpdateOK, Idle, Depths
<1> QED
  BY <1>1 DEF TypeOK, UpdateOK, StorageOK, AreFullNodes

\* An executed step of the plan keeps the types if it leaves a typed storage,
\* plan and set of child requests.
LEMMA ExecuteStep ==
    ASSUME TypeOK, ~Idle,
           NEW nodes, AreFullNodes(lvl, nodes), fns' = [fns EXCEPT ![lvl] = nodes],
           IsPlan(lvl, plan'),
           IF lvl = 1 THEN child' = NoRequests ELSE IsRequests(lvl - 1, child'),
           UNCHANGED <<sens, nodec, live, assigned, op, lvl>>
    PROVE  TypeOK'
<1>1. StorageOK'
  BY MidUpdate, StorageStep DEF TypeOK
<1>2. HandlesOK'
  BY DEF TypeOK, HandlesOK
<1>3. UpdateOK'
  BY DEF TypeOK, UpdateOK, OperationOK, Idle
<1> QED
  BY <1>1, <1>2, <1>3 DEF TypeOK

LEMMA PlanSourceType ==
    ASSUME TypeOK, ~Idle, NEW s, PlanSource(s)
    PROVE  TypeOK'
<1> DEFINE updates == {u \in plan.request.update : u.source = s /\ u.target \in plan.create}
<1>1. PICK moved \in SUBSET updates :
        plan' = [plan EXCEPT
                   !.todo   = @ \ {s},
                   !.create = @ \ {u.target : u \in updates},
                   !.copy   = @ \cup (updates \ moved),
                   !.move   = @ \cup moved,
                   !.delete = IF moved = {} THEN @ ELSE @ \ {s}]
  BY DEF PlanSource
<1>2. updates \subseteq Updates(lvl)
  BY MidUpdate DEF IsPlan, IsRequests
<1>3. IsPlan(lvl, plan')
  <2> HIDE DEF updates
  <2> QED BY MidUpdate, <1>1, <1>2 DEF IsPlan
<1>4. UNCHANGED <<fns, sens, nodec, live, assigned, op, lvl, child>>
  BY DEF PlanSource
<1> QED
  BY <1>3, <1>4, MidUpdate DEF TypeOK, StorageOK, HandlesOK, UpdateOK, OperationOK, Idle

LEMMA create_fnType ==
    ASSUME TypeOK, ~Idle, NEW id, create_fn(id)
    PROVE  TypeOK'
<1>1. PICK c \in plan.request.creation :
        /\ fns' = [fns EXCEPT ![lvl] =
                     With(@, id, UpdatedNode(lvl, "insert", "created", plan.delta[id],
                                             0, NoEdges(lvl), c.entries))]
        /\ ApplyToChildren(lvl, ChildCalls(lvl, "insert", "created", NoEdges(lvl), c.entries))
  BY DEF create_fn
<1>2. /\ lvl \in Depths /\ c.entries \in SUBSET Keys(lvl) /\ id \in RawIdentifiers(lvl)
      /\ plan.delta[id] \in Int
  BY MidUpdate DEF IsPlan, IsRequests, Creations, IsMap, create_fn
<1>3. IsFullNode(lvl, UpdatedNode(lvl, "insert", "created", plan.delta[id], 0, NoEdges(lvl), c.entries))
  BY <1>2, NoEdgesType, UpdatedNodeType
<1>4. AreFullNodes(lvl, With(fns[lvl], id, UpdatedNode(lvl, "insert", "created", plan.delta[id],
                                                       0, NoEdges(lvl), c.entries)))
  BY <1>2, <1>3, MidUpdate, WithNodesType
<1>5. IF lvl = 1 THEN child' = NoRequests ELSE IsRequests(lvl - 1, child')
  BY <1>1, <1>2, NoEdgesType, ChildCallsType, ApplyToChildrenType, MidUpdate
<1>6. IsPlan(lvl, plan')
  BY <1>2, MidUpdate DEF IsPlan, create_fn
<1> QED
  BY <1>1, <1>4, <1>5, <1>6, ExecuteStep DEF create_fn

\* The typed parts of an update of the plan.
LEMMA UpdateType ==
    ASSUME TypeOK, ~Idle, NEW u \in Updates(lvl),
           u.source \in DOMAIN fns[lvl], u.target \in DOMAIN plan.delta
    PROVE  /\ plan.delta[u.target] \in Int
           /\ fns[lvl][u.source].size \in Int
           /\ IsEdges(lvl, fns[lvl][u.source].edges)
           /\ u.mode \in {"insert", "remove"}
           /\ u.entries \in SUBSET Keys(lvl)
           /\ u.source \in RawIdentifiers(lvl) /\ u.target \in RawIdentifiers(lvl)
BY MidUpdate DEF IsPlan, IsMap, AreFullNodes, IsFullNode, Updates

LEMMA copy_updateType ==
    ASSUME TypeOK, ~Idle, NEW u, copy_update_fn_to_fn(u)
    PROVE  TypeOK'
<1> DEFINE source == fns[lvl][u.source]
           n == UpdatedNode(lvl, u.mode, "copied", plan.delta[u.target],
                            source.size, source.edges, u.entries)
<1>1. u \in Updates(lvl) /\ u.source \in DOMAIN fns[lvl] /\ u.target \in DOMAIN plan.delta
  BY MidUpdate DEF copy_update_fn_to_fn, IsPlan
<1>2. IsFullNode(lvl, n)
  BY <1>1, UpdateType, MidUpdate, UpdatedNodeType
<1>3. AreFullNodes(lvl, With(fns[lvl], u.target, n))
  <2> HIDE DEF n
  <2> QED BY <1>1, <1>2, UpdateType, MidUpdate, WithNodesType
<1>4. fns' = [fns EXCEPT ![lvl] = With(@, u.target, n)]
  BY DEF copy_update_fn_to_fn
<1>5. IF lvl = 1 THEN child' = NoRequests ELSE IsRequests(lvl - 1, child')
  <2>1. ApplyToChildren(lvl, ChildCalls(lvl, u.mode, "copied", source.edges, u.entries))
    BY DEF copy_update_fn_to_fn
  <2> QED
    BY <1>1, <2>1, UpdateType, ChildCallsType, ApplyToChildrenType, MidUpdate
<1>6. IsPlan(lvl, plan')
  BY <1>1, UpdateType, MidUpdate DEF IsPlan, copy_update_fn_to_fn
<1>7. UNCHANGED <<sens, nodec, live, assigned, op, lvl>>
  BY DEF copy_update_fn_to_fn
<1> QED
  BY <1>3, <1>4, <1>5, <1>6, <1>7, ExecuteStep

LEMMA move_updateType ==
    ASSUME TypeOK, ~Idle, NEW u, move_update_fn_to_fn(u)
    PROVE  TypeOK'
<1> DEFINE source == fns[lvl][u.source]
           n == UpdatedNode(lvl, u.mode, "moved", plan.delta[u.target],
                            source.size, source.edges, u.entries)
           rest == Without(fns[lvl], {u.source})
<1>1. u \in Updates(lvl) /\ u.source \in DOMAIN fns[lvl] /\ u.target \in DOMAIN plan.delta
  BY MidUpdate DEF move_update_fn_to_fn, IsPlan
<1>2. IsFullNode(lvl, n)
  BY <1>1, UpdateType, MidUpdate, UpdatedNodeType
<1>3. AreFullNodes(lvl, With(rest, u.target, n))
  <2> HIDE DEF n
  <2>1. AreFullNodes(lvl, rest)
    BY <1>1, <1>2, UpdateType, MidUpdate, WithNodesType
  <2> HIDE DEF rest
  <2> QED BY <1>1, <1>2, <2>1, UpdateType, MidUpdate, WithNodesType
<1>4. fns' = [fns EXCEPT ![lvl] = With(Without(@, {u.source}), u.target, n)]
  BY DEF move_update_fn_to_fn
<1>5. IF lvl = 1 THEN child' = NoRequests ELSE IsRequests(lvl - 1, child')
  <2>1. ApplyToChildren(lvl, ChildCalls(lvl, u.mode, "moved", source.edges, u.entries))
    BY DEF move_update_fn_to_fn
  <2> QED
    BY <1>1, <2>1, UpdateType, ChildCallsType, ApplyToChildrenType, MidUpdate
<1>6. IsPlan(lvl, plan')
  BY <1>1, UpdateType, MidUpdate DEF IsPlan, move_update_fn_to_fn
<1>7. UNCHANGED <<sens, nodec, live, assigned, op, lvl>>
  BY DEF move_update_fn_to_fn
<1> QED
  BY <1>3, <1>4, <1>5, <1>6, <1>7, ExecuteStep

LEMMA delete_fnType ==
    ASSUME TypeOK, ~Idle, NEW id, delete_fn(id)
    PROVE  TypeOK'
<1>1. id \in DOMAIN fns[lvl] /\ id \in RawIdentifiers(lvl) /\ IsFullNode(lvl, fns[lvl][id])
  BY MidUpdate DEF delete_fn, AreFullNodes
<1>2. IsEdges(lvl, fns[lvl][id].edges)
  BY <1>1 DEF IsFullNode
<1>3. AreFullNodes(lvl, Without(fns[lvl], {id}))
  BY <1>1, MidUpdate, WithNodesType
<1>4. IF lvl = 1 THEN child' = NoRequests ELSE IsRequests(lvl - 1, child')
  BY <1>2, DropCallsType, ApplyToChildrenType, MidUpdate DEF delete_fn
<1>5. IsPlan(lvl, plan')
  BY MidUpdate DEF IsPlan, delete_fn
<1> QED
  BY <1>3, <1>4, <1>5, ExecuteStep DEF delete_fn

\* The single entry nodes after a level have references and entries.
LEMMA SenUpdateType ==
    ASSUME TypeOK, ~Idle, LevelOk
    PROVE  IsMap(apply_sen_update(sens[lvl]), RawIdentifiers(lvl), SingleEntryNodes(lvl))
<1> DEFINE nodes == sens[lvl]
           changed == {id \in DOMAIN plan.delta : is_sen(id)}
           ref(id) == (IF id \in DOMAIN nodes THEN nodes[id].ref ELSE 0)
                      + (IF id \in changed THEN plan.delta[id] ELSE 0)
           entry(id) == IF id \in DOMAIN nodes THEN nodes[id].entries
                        ELSE (CHOOSE e \in plan.request.entry : e.id = id).entries
           D == {x \in DOMAIN nodes \cup changed : ref(x) # 0}
<1>1. lvl \in Depths /\ IsMap(nodes, RawIdentifiers(lvl), SingleEntryNodes(lvl))
  BY MidUpdate DEF TypeOK, StorageOK
<1>2. IsMap(plan.delta, RawIdentifiers(lvl), Int)
  BY MidUpdate DEF IsPlan
<1>3. \A id \in D : ref(id) \in Int
  BY <1>1, <1>2 DEF IsMap, SingleEntryNodes
<1>4. \A id \in D : entry(id) \in SUBSET Keys(lvl)
  <2> SUFFICES ASSUME NEW id \in D PROVE entry(id) \in SUBSET Keys(lvl)
    OBVIOUS
  <2>1. CASE id \in DOMAIN nodes
    BY <1>1, <2>1 DEF IsMap, SingleEntryNodes
  <2>2. CASE id \notin DOMAIN nodes
    <3>1. \E e \in plan.request.entry : e.id = id
      BY <2>2 DEF LevelOk
    <3>2. (CHOOSE e \in plan.request.entry : e.id = id) \in plan.request.entry
      BY <3>1
    <3>3. plan.request.entry \subseteq Creations(lvl)
      BY MidUpdate DEF IsPlan, IsRequests
    <3> QED
      BY <2>2, <3>2, <3>3 DEF Creations
  <2> QED
    BY <2>1, <2>2
<1>5. apply_sen_update(sens[lvl]) = [id \in D |-> [ref |-> ref(id), entries |-> entry(id)]]
  BY DEF apply_sen_update
<1>6. D \subseteq RawIdentifiers(lvl)
  BY <1>1, <1>2 DEF IsMap
<1>7. \A id \in D : [ref |-> ref(id), entries |-> entry(id)] \in SingleEntryNodes(lvl)
  <2> HIDE DEF ref, entry, D
  <2> QED BY <1>3, <1>4 DEF SingleEntryNodes
<1> HIDE DEF D, ref, entry
<1> QED
  BY <1>5, <1>6, <1>7 DEF IsMap

LEMMA FinishLevelType ==
    ASSUME TypeOK, FinishLevel
    PROVE  TypeOK'
<1>0. ~Idle /\ LevelOk
  BY DEF FinishLevel
<1>1. AreFullNodes(lvl, ApplyDeltas(fns[lvl]))
  <2>1. AreFullNodes(lvl, fns[lvl]) /\ IsMap(plan.delta, RawIdentifiers(lvl), Int)
    BY <1>0, MidUpdate DEF IsPlan
  <2>2. ASSUME NEW id \in DOMAIN fns[lvl], id \in LeftDeltas
        PROVE  IsFullNode(lvl, [fns[lvl][id] EXCEPT !.ref = @ + plan.delta[id]])
    <3>1. plan.delta[id] \in Int /\ IsFullNode(lvl, fns[lvl][id])
      BY <2>1, <2>2 DEF AreFullNodes, IsMap, LeftDeltas
    <3> QED
      BY <3>1 DEF IsFullNode
  <2> QED
    BY <2>1, <2>2 DEF AreFullNodes, ApplyDeltas
<1>2. StorageOK'
  <2> DEFINE nodes == ApplyDeltas(fns[lvl])
             senodes == apply_sen_update(sens[lvl])
  <2>1. IsMap(senodes, RawIdentifiers(lvl), SingleEntryNodes(lvl))
    BY <1>0, SenUpdateType
  <2>2. fns' = [fns EXCEPT ![lvl] = nodes] /\ sens' = [sens EXCEPT ![lvl] = senodes]
    BY DEF FinishLevel
  <2>3. lvl \in Depths
    BY <1>0, MidUpdate
  <2> HIDE DEF nodes, senodes
  <2>4. \A d \in Depths : AreFullNodes(d, fns'[d])
    BY <1>1, <2>2, <2>3 DEF TypeOK, StorageOK, AreFullNodes, nodes
  <2>5. \A d \in Depths : IsMap(sens'[d], RawIdentifiers(d), SingleEntryNodes(d))
    BY <2>1, <2>2, <2>3 DEF TypeOK, StorageOK
  <2>6. fns' = [d \in Depths |-> fns'[d]] /\ sens' = [d \in Depths |-> sens'[d]]
    BY <2>2 DEF TypeOK, StorageOK
  <2> QED
    BY <2>4, <2>5, <2>6 DEF StorageOK, AreFullNodes
<1>3. CASE lvl > 1
  <2>1. StartLevel(lvl - 1, child) /\ UNCHANGED <<nodec, live, op, assigned>>
    BY <1>3 DEF FinishLevel
  <2>2. lvl - 1 \in Depths /\ IsRequests(lvl - 1, child)
    BY <1>0, <1>3, MidUpdate, MaxDepthAssumption DEF Depths
  <2>3. IsPlan(lvl', plan') /\ lvl' = lvl - 1 /\ child' = NoRequests
    BY <2>1, <2>2, StartPlanType DEF StartLevel
  <2>4. HandlesOK'
    BY <2>1 DEF TypeOK, HandlesOK
  <2>5. OperationOK'
    BY <1>0, <2>1, MidUpdate DEF OperationOK
  <2>6. UpdateOK'
    BY <2>2, <2>3, <2>5, NoRequestsType DEF UpdateOK, Idle, Depths
  <2> QED
    BY <1>2, <2>4, <2>6 DEF TypeOK
<1>4. CASE ~(lvl > 1)
  <2>1. /\ nodec' = [nodec EXCEPT ![op.handle] = op.target]
        /\ live' = IF op.kind = "destroy" THEN live \ {op.handle} ELSE live
        /\ op' = [kind |-> "none"] /\ lvl' = 0 /\ plan' = NoPlan /\ child' = NoRequests
        /\ UNCHANGED assigned
    BY <1>4 DEF FinishLevel
  <2>2. HandlesOK'
    BY <1>0, <2>1, MidUpdate DEF TypeOK, HandlesOK, OperationOK
  <2>3. UpdateOK'
    BY <2>1, MaxDepthAssumption DEF UpdateOK, Idle
  <2> QED
    BY <1>2, <2>2, <2>3 DEF TypeOK
<1> QED
  BY <1>3, <1>4

-----------------------------------------------------------------------------
(* The operations.                                                         *)

\* An operation that starts an update leaves its first level planned.
LEMMA BeginType ==
    ASSUME TypeOK, NEW h \in live, NEW kind \in {"insert", "remove", "destroy"},
           NEW es \in SUBSET Keys(HandleDepth[h]),
           NEW call, IsCall(HandleDepth[h], call), Begin(h, kind, es, call)
    PROVE  TypeOK'
<1> DEFINE d == HandleDepth[h]
           target == IF kind = "destroy" THEN NoId ELSE Returned(d, call)
           r == Requested(d, NoRequests, {call})
<1>1. h \in Handles /\ d \in Depths
  BY HandleAssumption DEF TypeOK, HandlesOK
<1>2. target \in RawIdentifiers(d)
  BY IdentifierTypes, ReturnedType
<1>3. IsRequests(d, r)
  BY FS_Singleton, NoRequestsType, RequestedType
<1>4. /\ op' = [kind |-> kind, handle |-> h, entries |-> es, target |-> target]
      /\ lvl' = d /\ plan' = StartPlan(d, r) /\ child' = NoRequests
      /\ UNCHANGED <<fns, sens, nodec, live, assigned>>
  BY DEF Begin, StartLevel
<1> HIDE DEF target, r
<1>5. OperationOK'
  BY <1>2, <1>4 DEF OperationOK
<1>6. IsPlan(lvl', plan')
  BY <1>3, <1>4, StartPlanType
<1>7. UpdateOK'
  BY <1>1, <1>4, <1>5, <1>6, NoRequestsType DEF UpdateOK, Idle, Depths
<1> QED
  BY <1>4, <1>7 DEF TypeOK, StorageOK, HandlesOK

LEMMA AddToRefType ==
    ASSUME TypeOK, NEW d \in Depths, NEW id, NEW n \in Int, AddToRef(d, id, n)
    PROVE  StorageOK'
<1>1. CASE is_fn(id)
  <2>1. fns' = [fns EXCEPT ![d][id].ref = @ + n] /\ sens' = sens
    BY <1>1 DEF AddToRef
  <2>2. AreFullNodes(d, fns[d])
    BY DEF TypeOK, StorageOK, AreFullNodes
  <2>3. AreFullNodes(d, [fns[d] EXCEPT ![id].ref = @ + n])
    <3>1. id \in DOMAIN fns[d] => IsFullNode(d, [fns[d][id] EXCEPT !.ref = @ + n])
      <4> SUFFICES ASSUME id \in DOMAIN fns[d]
                   PROVE  IsFullNode(d, [fns[d][id] EXCEPT !.ref = @ + n])
        OBVIOUS
      <4>1. IsFullNode(d, fns[d][id])
        BY <2>2 DEF AreFullNodes
      <4> QED
        BY <4>1 DEF IsFullNode
    <3> QED
      BY <2>2, <3>1 DEF AreFullNodes
  <2>4. fns' = [fns EXCEPT ![d] = [fns[d] EXCEPT ![id].ref = @ + n]]
    BY <2>1
  <2> QED
    BY <2>1, <2>3, <2>4, StorageStep DEF TypeOK
<1>2. CASE ~is_fn(id)
  <2>1. sens' = [sens EXCEPT ![d][id].ref = @ + n] /\ fns' = fns
    BY <1>2 DEF AddToRef
  <2>2. \A l \in Depths : IsMap(sens'[l], RawIdentifiers(l), SingleEntryNodes(l))
    <3>1. ASSUME NEW l \in Depths, l # d PROVE sens'[l] = sens[l]
      BY <2>1, <3>1 DEF TypeOK, StorageOK
    <3>2. sens'[d] = [sens[d] EXCEPT ![id].ref = @ + n]
      BY <2>1 DEF TypeOK, StorageOK
    <3>3. IsMap(sens[d], RawIdentifiers(d), SingleEntryNodes(d))
      BY DEF TypeOK, StorageOK
    <3>4. id \in DOMAIN sens[d] => [sens[d][id] EXCEPT !.ref = @ + n] \in SingleEntryNodes(d)
      BY <3>3 DEF IsMap, SingleEntryNodes
    <3>5. IsMap(sens'[d], RawIdentifiers(d), SingleEntryNodes(d))
      BY <3>2, <3>3, <3>4 DEF IsMap
    <3> QED
      BY <3>1, <3>5 DEF TypeOK, StorageOK
  <2>3. sens' = [l \in Depths |-> sens'[l]]
    BY <2>1 DEF TypeOK, StorageOK
  <2> QED
    BY <2>1, <2>2, <2>3 DEF TypeOK, StorageOK
<1> QED
  BY <1>1, <1>2

LEMMA inc_ref_countType ==
    ASSUME TypeOK, NEW d \in Depths, NEW id, inc_ref_count(d, id)
    PROVE  StorageOK'
BY AddToRefType DEF inc_ref_count, storage, TypeOK, StorageOK

LEMMA insertType ==
    ASSUME TypeOK, NEW h \in Handles, NEW es \in SUBSET Keys(HandleDepth[h]), insert(h, es)
    PROVE  TypeOK'
<1> DEFINE call == IF empty(nodec[h]) THEN Call("add", NoId, es) ELSE Call("insert", nodec[h], es)
<1>1. IsCall(HandleDepth[h], call)
  BY IdentifierTypes DEF IsCall, Call, CallNames, TypeOK, HandlesOK
<1>2. h \in live /\ Begin(h, "insert", es, call)
  BY DEF insert
<1> HIDE DEF call
<1> QED
  BY <1>1, <1>2, BeginType

LEMMA removeType ==
    ASSUME TypeOK, NEW h \in Handles, NEW es \in SUBSET Keys(HandleDepth[h]), remove(h, es)
    PROVE  TypeOK'
<1> DEFINE call == Call("remove", nodec[h], es)
<1>1. IsCall(HandleDepth[h], call)
  BY DEF IsCall, Call, CallNames, TypeOK, HandlesOK
<1>2. h \in live /\ Begin(h, "remove", es, call)
  BY DEF remove
<1> HIDE DEF call
<1> QED
  BY <1>1, <1>2, BeginType

LEMMA DestroyType ==
    ASSUME TypeOK, NEW h \in Handles, Destroy(h)
    PROVE  TypeOK'
<1> DEFINE d == HandleDepth[h]
           call == Call("drop", nodec[h], {})
<1>0. d \in Depths /\ h \in live
  BY HandleAssumption DEF Destroy
<1>1. CASE Begin(h, "destroy", {}, call)
  <2>1. IsCall(d, call)
    BY DEF IsCall, Call, CallNames, TypeOK, HandlesOK
  <2> HIDE DEF call
  <2> QED
    BY <1>0, <1>1, <2>1, BeginType
<1>2. CASE /\ IF Counted(d, nodec[h]) THEN AddToRef(d, nodec[h], -1) ELSE UNCHANGED storage
           /\ nodec' = [nodec EXCEPT ![h] = NoId]
           /\ live' = live \ {h}
           /\ Idle /\ UNCHANGED <<assigned, update>>
  <2>1. StorageOK'
    BY <1>0, <1>2, AddToRefType DEF storage, TypeOK, StorageOK
  <2>2. HandlesOK'
    BY <1>2, IdentifierTypes DEF TypeOK, HandlesOK
  <2>3. UpdateOK'
    BY <1>2 DEF TypeOK, UpdateOK, update, Idle
  <2> QED
    BY <2>1, <2>2, <2>3 DEF TypeOK
<1> QED
  BY <1>1, <1>2 DEF Destroy

\* An operation without update only moves identifiers between Hypertries of
\* the same depth.
LEMMA HandleStep ==
    ASSUME TypeOK, Idle, StorageOK', UNCHANGED update,
           nodec' = [h \in Handles |-> nodec'[h]],
           \A h \in Handles : nodec'[h] \in RawIdentifiers(HandleDepth[h]),
           live' \subseteq Handles, assigned' \in Nat
    PROVE  TypeOK'
<1>1. UpdateOK'
  BY DEF TypeOK, UpdateOK, update, Idle
<1> QED
  BY <1>1 DEF TypeOK, HandlesOK

LEMMA TakeType ==
    ASSUME TypeOK, NEW g \in Handles, NEW h \in Handles,
           \/ CopyConstruct(g, h) \/ MoveConstruct(g, h)
           \/ CopyAssign(g, h)    \/ MoveAssign(g, h)
    PROVE  TypeOK'
<1>1. /\ Idle /\ UNCHANGED update /\ HandleDepth[g] = HandleDepth[h]
      /\ nodec' \in {[nodec EXCEPT ![g] = nodec[h]], [nodec EXCEPT ![g] = nodec[h], ![h] = NoId]}
      /\ live' \subseteq live \cup {g}
      /\ assigned' \in {assigned, assigned + 1}
  BY DEF CopyConstruct, MoveConstruct, CopyAssign, MoveAssign, update
<1>2. StorageOK'
  <2>1. HandleDepth[h] \in Depths
    BY HandleAssumption
  <2>2. CASE inc_ref_count(HandleDepth[h], nodec[h])
    BY <2>1, <2>2, inc_ref_countType
  <2>3. CASE UNCHANGED <<fns, sens>>
    BY <2>3 DEF TypeOK, StorageOK
  <2> QED
    BY <2>2, <2>3 DEF CopyConstruct, MoveConstruct, CopyAssign, MoveAssign
<1>3. nodec' = [x \in Handles |-> nodec'[x]]
  BY <1>1 DEF TypeOK, HandlesOK
<1>4. \A x \in Handles : nodec'[x] \in RawIdentifiers(HandleDepth[x])
  BY <1>1, IdentifierTypes DEF TypeOK, HandlesOK
<1>5. live' \subseteq Handles /\ assigned' \in Nat
  BY <1>1 DEF TypeOK, HandlesOK
<1> QED
  BY <1>1, <1>2, <1>3, <1>4, <1>5, HandleStep

LEMMA ConstructType ==
    ASSUME TypeOK, NEW h \in Handles, Construct(h)
    PROVE  TypeOK'
<1>1. StorageOK'
  BY DEF Construct, TypeOK, StorageOK
<1> QED
  BY <1>1, HandleStep DEF Construct, TypeOK, HandlesOK

\* The steps of Step happen in the middle of an update.
LEMMA StepInUpdate ==
    ASSUME TypeOK, Step
    PROVE  ~Idle
<1>1. Idle => plan = NoPlan
  BY DEF TypeOK, UpdateOK
<1> QED
  BY <1>1 DEF Step, NoPlan, FinishLevel

LEMMA TypeOKInit == Init => TypeOK
<1> SUFFICES ASSUME Init PROVE TypeOK
  OBVIOUS
<1>1. StorageOK
  BY DEF Init, StorageOK, EmptyMap, IsMap
<1>2. HandlesOK
  BY IdentifierTypes DEF Init, HandlesOK
<1>3. UpdateOK
  BY MaxDepthAssumption DEF Init, UpdateOK, Idle
<1> QED
  BY <1>1, <1>2, <1>3 DEF TypeOK

LEMMA TypeOKStep ==
    ASSUME TypeOK, [Next]_vars
    PROVE  TypeOK'
<1>1. CASE Step
  <2>0. ~Idle
    BY <1>1, StepInUpdate
  <2> QED
    BY <1>1, <2>0, PlanSourceType, create_fnType, copy_updateType, move_updateType,
       delete_fnType, FinishLevelType DEF Step
<1>2. CASE Operation
  <2>0. \A h \in Handles : HandleKeys[h] \subseteq Keys(HandleDepth[h])
    BY HandleAssumption
  <2>1. ASSUME NEW h \in Handles, NEW es \in Bulks(h), insert(h, es) \/ remove(h, es) PROVE TypeOK'
    BY <2>0, <2>1, insertType, removeType DEF Bulks
  <2>2. ASSUME NEW h \in Handles, NEW k \in HandleKeys[h], NEW value \in BOOLEAN, set(h, k, value)
        PROVE  TypeOK'
    <3>1. insert(h, {k}) \/ remove(h, {k})
      BY <2>2 DEF set
    <3>2. {k} \in SUBSET Keys(HandleDepth[h])
      BY <2>0
    <3> QED
      BY <3>1, <3>2, insertType, removeType
  <2> QED
    BY <1>2, <2>1, <2>2, ConstructType, TakeType, DestroyType DEF Operation
<1>3. CASE UNCHANGED vars
  BY <1>3 DEF vars, TypeOK, StorageOK, HandlesOK, UpdateOK, OperationOK, Idle
<1> QED
  BY <1>1, <1>2, <1>3 DEF Next

\* Whatever the order of the steps and the contents of the requests, the nodes,
\* requests and plans of each level have the depth of that level, and every
\* Hypertrie keeps a node of its own depth.
THEOREM TypeCorrect == Spec => []TypeOK
<1>1. Init => TypeOK
  BY TypeOKInit
<1>2. TypeOK /\ [Next]_vars => TypeOK'
  BY TypeOKStep
<1> QED
  BY <1>1, <1>2, PTL DEF Spec

-----------------------------------------------------------------------------
(***************************************************************************)
(* Every stored node is what its identifier says (NodesCanonical), for all *)
(* key parts, depths, Hypertries and bulks.                                *)
(*                                                                         *)
(* The argument.  An update grows or shrinks a node from the entries S to  *)
(* T.  The calls for its children return, for every position and key part, *)
(* the identifier of the entries of T below that key part, because xor     *)
(* acts on disjoint sets (insert) or on a subset (remove).  For this the   *)
(* requests must be honest: a request of a level names the entries that    *)
(* its source has and that its target shall have.  That is the             *)
(* strengthening CanonicalInv; it is established by the callers of insert  *)
(* and remove and handed down from level to level.                         *)
(***************************************************************************)

Canonical(id) == id = RawIdentifier(id.es)

\* An update of a full node names what it adds or removes, and its target.
HonestUpdate(u) ==
    /\ Canonical(u.target) /\ is_fn(u.target)
    /\ u.mode = "insert" => u.entries \cap u.source.es = {} /\ u.target.es = u.source.es \cup u.entries
    /\ u.mode = "remove" => u.entries \subseteq u.source.es /\ u.target.es = u.source.es \ u.entries

HonestRequests(r) ==
    /\ \A id \in DOMAIN r.delta : Canonical(id)
    /\ \A e \in r.entry : e.id = RawIdentifier(e.entries)
    /\ \A c \in r.creation : c.id = RawIdentifier(c.entries) /\ Cardinality(c.entries) > 1
    /\ \A u \in r.update : HonestUpdate(u)

HonestPlan(p) ==
    /\ HonestRequests(p.request)
    /\ DOMAIN p.delta \subseteq DOMAIN p.request.delta
    /\ p.copy \subseteq p.request.update /\ p.move \subseteq p.request.update

CanonicalInv ==
    /\ NodesCanonical
    /\ \A h \in Handles : Canonical(nodec[h])
    /\ ~Idle => Canonical(op.target) /\ HonestPlan(plan) /\ HonestRequests(child)

-----------------------------------------------------------------------------
(* What the calls return.                                                  *)

LEMMA RawIdentifierFacts ==
    ASSUME NEW d \in 0 .. MaxDepth, NEW es \in SUBSET Keys(d)
    PROVE  /\ RawIdentifier(es).es = es
           /\ Canonical(RawIdentifier(es))
           /\ empty(RawIdentifier(es)) <=> es = {}
           /\ is_sen(RawIdentifier(es)) <=> Cardinality(es) = 1
           /\ is_fn(RawIdentifier(es)) <=> Cardinality(es) > 1
<1>1. Cardinality(es) \in Nat /\ (Cardinality(es) = 0 <=> es = {})
  BY EntriesFinite, FS_EmptySet
<1> QED
  BY <1>1 DEF RawIdentifier, Canonical, NoId, empty, is_sen, is_fn

\* A call tells the truth about its source and its entries.
HonestCall(c) ==
    /\ Canonical(c.source)
    /\ c.call = "insert" => c.entries # {} /\ c.source.es # {} /\ c.entries \cap c.source.es = {}
    /\ c.call = "remove" => c.entries # {} /\ c.entries \subseteq c.source.es

\* A full node that remains after a removal is stored with its size.
SizeKnown(d, c) ==
    c.call = "remove" /\ is_fn(c.source) /\ c.source.es # c.entries
    => fns[d][c.source].size = Cardinality(c.source.es)

\* The entries of the node that the call returns.
After(c) ==
    CASE c.call = "add"    -> c.entries
      [] c.call = "insert" -> c.entries \cup c.source.es
      [] c.call = "remove" -> c.source.es \ c.entries
      [] OTHER             -> c.source.es

\* The asserts of remove_from_node provide the size.
LEMMA SizeKnownByAssert ==
    ASSUME NodesCanonical, NEW d \in Depths, NEW c, CallOk(d, c)
    PROVE  SizeKnown(d, c)
BY DEF NodesCanonical, CallOk, SizeKnown

\* At depth 0 there is a single key, so no full node.
LEMMA SizeKnownAtZero ==
    ASSUME NEW c, IsCall(0, c), Canonical(c.source)
    PROVE  SizeKnown(0, c)
<1>1. c.source.es \in SUBSET Keys(0)
  BY IdentifierTypes DEF IsCall
<1>2. \A k, l \in Keys(0) : k = l
  BY DEF Keys
<1>3. c.source.es = {} \/ \E k : c.source.es = {k}
  BY <1>1, <1>2
<1>4. ~is_fn(c.source)
  BY <1>3, FS_Singleton DEF Canonical, RawIdentifier, is_fn, empty
<1> QED
  BY <1>4 DEF SizeKnown

\* Sizes of disjoint unions and of differences with a subset.
LEMMA EntryCounts ==
    ASSUME NEW d \in 0 .. MaxDepth, NEW A \in SUBSET Keys(d), NEW B \in SUBSET Keys(d)
    PROVE  /\ A \cap B = {} => Cardinality(A \cup B) = Cardinality(A) + Cardinality(B)
           /\ B \subseteq A => Cardinality(A \ B) = Cardinality(A) - Cardinality(B)
           /\ A # {} => Cardinality(A) > 0
<1>1. IsFiniteSet(A) /\ IsFiniteSet(B) /\ Cardinality(A) \in Nat /\ Cardinality(B) \in Nat
  BY EntriesFinite
<1>2. A \cap B = {} => Cardinality(A \cup B) = Cardinality(A) + Cardinality(B)
  <2>1. Cardinality(A \cup B) = Cardinality(A) + Cardinality(B) - Cardinality(A \cap B)
    BY <1>1, FS_Union
  <2>2. A \cap B = {} => Cardinality(A \cap B) = 0
    BY FS_EmptySet
  <2> QED
    BY <1>1, <2>1, <2>2
<1>3. B \subseteq A => Cardinality(A \ B) = Cardinality(A) - Cardinality(B)
  <2>1. Cardinality(A \ B) = Cardinality(A) - Cardinality(A \cap B)
    BY <1>1, FS_Difference
  <2>2. B \subseteq A => A \cap B = B
    OBVIOUS
  <2> QED
    BY <2>1, <2>2
<1>4. A # {} => Cardinality(A) > 0
  BY <1>1, FS_EmptySet
<1> QED
  BY <1>2, <1>3, <1>4

\* remove_from_node returns the identifier of the remaining entries, with the
\* tag of a single entry node if one entry remains.
LEMMA RemovalReturns ==
    ASSUME NEW d \in 0 .. MaxDepth, NEW source \in RawIdentifiers(d), Canonical(source),
           NEW es \in SUBSET Keys(d), es # {}, es \subseteq source.es,
           is_fn(source) /\ source.es # es => fns[d][source].size = Cardinality(source.es)
    PROVE  after_removal(d, source, es) = RawIdentifier(source.es \ es)
<1> DEFINE rest == source.es \ es
           target_id == combine(RawIdentifier(es), source)
<1>0. source.es \in SUBSET Keys(d) /\ rest \in SUBSET Keys(d) /\ source.es # {}
  BY IdentifierTypes
<1>1. ~empty(RawIdentifier(es)) /\ RawIdentifier(es).es = es
  BY RawIdentifierFacts
<1>2. ~empty(source)
  BY <1>0 DEF empty, NoId
<1>3. target_id = [tag |-> "fn", es |-> rest]
  <2>1. target_id = [tag |-> "fn", es |-> (es \ source.es) \cup (source.es \ es)]
    BY <1>1, <1>2 DEF combine
  <2>2. (es \ source.es) \cup (source.es \ es) = rest
    OBVIOUS
  <2> QED
    BY <2>1, <2>2
<1>4. CASE is_sen(source)
  <2>1. Cardinality(source.es) = 1
    BY <1>0, <1>4, RawIdentifierFacts DEF Canonical
  <2>2. rest = {}
    BY <1>0, <2>1, EntriesFinite, FS_Singleton
  <2> QED
    BY <1>4, <2>2 DEF after_removal, RawIdentifier
<1>5. CASE ~is_sen(source) /\ rest = {}
  BY <1>3, <1>5 DEF after_removal, RawIdentifier, empty, NoId
<1>6. CASE ~is_sen(source) /\ rest # {}
  <2>1. is_fn(source) /\ source.es # es
    BY <1>2, <1>6 DEF is_fn, is_sen, empty, RawIdentifiers, Tags
  <2>2. Cardinality(rest) = fns[d][source].size - Cardinality(es)
    BY <1>0, <2>1, EntryCounts
  <2>3. ~empty(target_id)
    BY <1>3, <1>6 DEF empty, NoId
  <2>4. after_removal(d, source, es) =
          IF Cardinality(rest) = 1 THEN retag_as_sen(target_id) ELSE target_id
    BY <1>6, <2>2, <2>3 DEF after_removal
  <2> QED
    BY <1>3, <1>6, <2>4 DEF retag_as_sen, RawIdentifier
<1> QED
  BY <1>4, <1>5, <1>6

\* insert_into_node returns the identifier of the united entries.
LEMMA InsertionReturns ==
    ASSUME NEW d \in 0 .. MaxDepth, NEW A \in SUBSET Keys(d), NEW source \in RawIdentifiers(d),
           Canonical(source), A # {}, source.es # {}, A \cap source.es = {}
    PROVE  /\ combine(RawIdentifier(A), source) = RawIdentifier(A \cup source.es)
           /\ Cardinality(A \cup source.es) > 1
<1>0. source.es \in SUBSET Keys(d)
  BY IdentifierTypes
<1>1. ~empty(RawIdentifier(A)) /\ RawIdentifier(A).es = A /\ ~empty(source)
  BY RawIdentifierFacts DEF empty, NoId
<1>2. Cardinality(A \cup source.es) > 1
  <2>1. Cardinality(A \cup source.es) = Cardinality(A) + Cardinality(source.es)
    BY <1>0, EntryCounts
  <2>2. Cardinality(A) > 0 /\ Cardinality(source.es) > 0
    BY <1>0, EntryCounts
  <2>3. Cardinality(A) \in Nat /\ Cardinality(source.es) \in Nat
    BY <1>0, EntriesFinite
  <2> QED
    BY <2>1, <2>2, <2>3
<1>3. (A \ source.es) \cup (source.es \ A) = A \cup source.es
  OBVIOUS
<1>4. combine(RawIdentifier(A), source) = [tag |-> "fn", es |-> A \cup source.es]
  BY <1>1, <1>3 DEF combine
<1> QED
  BY <1>2, <1>4 DEF RawIdentifier

\* Every honest call returns the identifier of the entries it promises.
LEMMA ReturnedCanonical ==
    ASSUME NEW d \in 0 .. MaxDepth, NEW c, IsCall(d, c), HonestCall(c), SizeKnown(d, c)
    PROVE  Returned(d, c) = RawIdentifier(After(c)) /\ After(c) \in SUBSET Keys(d)
<1>0. c.source.es \in SUBSET Keys(d) /\ c.entries \in SUBSET Keys(d) /\ c.source \in RawIdentifiers(d)
  BY IdentifierTypes DEF IsCall
<1>1. CASE c.call = "add"
  BY <1>0, <1>1 DEF Returned, After
<1>2. CASE c.call = "insert"
  BY <1>0, <1>2, InsertionReturns DEF Returned, After, HonestCall
<1>3. CASE c.call = "remove"
  <2>1. after_removal(d, c.source, c.entries) = RawIdentifier(c.source.es \ c.entries)
    BY <1>0, <1>3, RemovalReturns DEF HonestCall, SizeKnown
  <2> QED
    BY <1>0, <1>3, <2>1 DEF Returned, After
<1>4. CASE c.call \notin {"add", "insert", "remove"}
  BY <1>0, <1>4 DEF Returned, After, HonestCall, Canonical
<1> QED
  BY <1>1, <1>2, <1>3, <1>4

\* Honest calls leave honest requests.
LEMMA RequestedHonest ==
    ASSUME NEW d \in 0 .. MaxDepth, NEW r, HonestRequests(r),
           NEW C, \A c \in C : IsCall(d, c) /\ HonestCall(c) /\ SizeKnown(d, c)
    PROVE  HonestRequests(Requested(d, r, C))
<1> DEFINE new == Requested(d, r, C)
<1>1. ASSUME NEW c \in C
      PROVE  /\ Returned(d, c) = RawIdentifier(After(c)) /\ After(c) \in SUBSET Keys(d)
             /\ Returned(d, c).es = After(c) /\ Canonical(Returned(d, c)) /\ Canonical(c.source)
  BY ReturnedCanonical, RawIdentifierFacts DEF HonestCall
<1>2. \A id \in DOMAIN new.delta : Canonical(id)
  <2> DEFINE gained == UNION {Gains(d, c) : c \in C}
             lost   == UNION {Loses(d, c) : c \in C}
             count(id) == IF id \in DOMAIN r.delta THEN r.delta[id] ELSE 0
             total(id) == count(id) + Cardinality({c \in C : id \in Gains(d, c)})
                                    - Cardinality({c \in C : id \in Loses(d, c)})
  <2>1. new.delta = [id \in DOMAIN r.delta \cup gained \cup lost |-> total(id)]
    BY DEF Requested
  <2>2. \A c \in C : \A id \in Gains(d, c) \cup Loses(d, c) : Canonical(id)
    BY <1>1 DEF Gains, Loses
  <2>3. \A id \in gained \cup lost : Canonical(id)
    BY <2>2
  <2> HIDE DEF new, total, gained, lost
  <2> QED
    BY <2>1, <2>3 DEF HonestRequests
<1>3. \A e \in new.entry : e.id = RawIdentifier(e.entries)
  <2> DEFINE added == {x \in C : x.call \in {"add", "remove"} /\ is_sen(Returned(d, x))}
  <2>1. new.entry = r.entry \cup {[id |-> Returned(d, c), entries |-> Returned(d, c).es] : c \in added}
    BY DEF Requested
  <2>2. \A c \in C : Returned(d, c) = RawIdentifier(Returned(d, c).es)
    BY <1>1 DEF Canonical
  <2> HIDE DEF new
  <2> QED
    BY <2>1, <2>2 DEF HonestRequests
<1>4. \A x \in new.creation : x.id = RawIdentifier(x.entries) /\ Cardinality(x.entries) > 1
  <2>1. \A x \in new.creation :
          \/ x \in r.creation
          \/ \E c \in C : /\ x = [id |-> RawIdentifier(c.entries), entries |-> c.entries]
                         /\ Cardinality(c.entries) > 1
          \/ \E c \in C : /\ x = [id |-> Returned(d, c), entries |-> c.entries \cup c.source.es]
                         /\ c.call = "insert"
    BY DEF Requested
  <2>2. \A c \in C : c.call = "insert" =>
          /\ Returned(d, c) = RawIdentifier(c.entries \cup c.source.es)
          /\ Cardinality(c.entries \cup c.source.es) > 1
    <3> SUFFICES ASSUME NEW c \in C, c.call = "insert"
                 PROVE  /\ Returned(d, c) = RawIdentifier(c.entries \cup c.source.es)
                        /\ Cardinality(c.entries \cup c.source.es) > 1
      OBVIOUS
    <3>1. After(c) = c.entries \cup c.source.es
      BY DEF After
    <3>2. IsCall(d, c) /\ HonestCall(c)
      OBVIOUS
    <3>3. Cardinality(c.entries \cup c.source.es) > 1
      BY <3>2, InsertionReturns DEF IsCall, HonestCall
    <3> QED
      BY <1>1, <3>1, <3>3
  <2> QED
    BY <2>1, <2>2 DEF HonestRequests
<1>5. \A u \in new.update : HonestUpdate(u)
  <2>1. \A u \in new.update :
          \/ u \in r.update
          \/ \E c \in C : /\ u = [source |-> c.source, target |-> Returned(d, c),
                                entries |-> c.entries, mode |-> c.call]
                         /\ c.call \in {"insert", "remove"} /\ is_fn(Returned(d, c))
    BY DEF Requested
  <2>2. ASSUME NEW c \in C, c.call \in {"insert", "remove"}, is_fn(Returned(d, c))
        PROVE  HonestUpdate([source |-> c.source, target |-> Returned(d, c),
                             entries |-> c.entries, mode |-> c.call])
    <3>1. c.call = "insert" => Returned(d, c).es = c.source.es \cup c.entries
                               /\ c.entries \cap c.source.es = {}
      BY <1>1 DEF After, HonestCall
    <3>2. c.call = "remove" => Returned(d, c).es = c.source.es \ c.entries
                               /\ c.entries \subseteq c.source.es
      BY <1>1 DEF After, HonestCall
    <3> QED
      BY <1>1, <2>2, <3>1, <3>2 DEF HonestUpdate
  <2> QED
    BY <2>1, <2>2 DEF HonestRequests
<1> HIDE DEF new
<1>6. HonestRequests(new)
  BY <1>2, <1>3, <1>4, <1>5 DEF HonestRequests
<1> QED
  BY <1>6 DEF new

LEMMA NoRequestsHonest == HonestRequests(NoRequests)
BY DEF HonestRequests, NoRequests, EmptyMap

LEMMA StartPlanHonest ==
    ASSUME NEW d, NEW r, HonestRequests(r)
    PROVE  HonestPlan(StartPlan(d, r))
BY DEF HonestPlan, StartPlan, Without

-----------------------------------------------------------------------------
(* Updated nodes.                                                          *)

\* The entries T that a node with the entries S has after an update.
Honest(mode, S, entries, T) ==
    \/ mode = "insert" /\ entries \cap S = {} /\ T = S \cup entries
    \/ mode = "remove" /\ entries \subseteq S /\ T = S \ entries

LEMMA ChildCallHonest ==
    ASSUME NEW d \in Depths, NEW mode, NEW origin, NEW S \in SUBSET Keys(d),
           NEW entries \in SUBSET Keys(d), NEW T, Honest(mode, S, entries, T),
           NEW pos \in 1 .. d, NEW kp \in PartsAt(S, pos) \cup PartsAt(entries, pos)
    PROVE  LET c == ChildCall(mode, origin, CanonicalEdges(d, S), entries, pos, kp)
           IN  HonestCall(c) /\ After(c) = SubEntries(T, pos, kp)
<1> DEFINE edges == CanonicalEdges(d, S)
           c == ChildCall(mode, origin, edges, entries, pos, kp)
           sub == SubEntries(entries, pos, kp)
           had == SubEntries(S, pos, kp)
<1>0. d - 1 \in 0 .. MaxDepth /\ sub \in SUBSET Keys(d - 1) /\ had \in SUBSET Keys(d - 1)
  BY SubEntriesType, MaxDepthAssumption DEF Depths
<1>1. DOMAIN edges[pos] = PartsAt(S, pos) /\ (kp \in PartsAt(S, pos) => edges[pos][kp] = RawIdentifier(had))
  BY DEF CanonicalEdges
<1>2. /\ had = {} <=> kp \notin PartsAt(S, pos)
      /\ sub = {} <=> kp \notin PartsAt(entries, pos)
  BY SubEntriesEmpty
<1>3. c.source = RawIdentifier(had) /\ c.entries = sub
  BY <1>1, <1>2 DEF ChildCall, RawIdentifier
<1>4. Canonical(c.source) /\ c.source.es = had
  BY <1>0, <1>3, RawIdentifierFacts
<1>5. c.call = CASE sub = {} -> IF origin = "copied" THEN "keep" ELSE "none"
                 [] sub # {} /\ had = {} -> "add"
                 [] OTHER -> mode
  BY <1>1, <1>2 DEF ChildCall
<1> SUFFICES HonestCall(c) /\ After(c) = SubEntries(T, pos, kp)
  OBVIOUS
<1>6. CASE mode = "insert"
  <2>1. T = S \cup entries /\ entries \cap S = {}
    BY <1>6 DEF Honest
  <2>2. SubEntries(S \cup entries, pos, kp) = had \cup sub
    BY SubEntriesUnion
  <2>7. S \cap entries = {} => had \cap sub = {}
    BY SubEntriesDisjoint
  <2>8. S \cap entries = {}
    BY <2>1
  <2>3. SubEntries(T, pos, kp) = had \cup sub /\ sub \cap had = {}
    <3> HIDE DEF sub, had
    <3> QED BY <2>1, <2>2, <2>7, <2>8
  <2> HIDE DEF c, sub, had, edges
  <2>4. CASE sub = {}
    <3>1. c.call \in {"keep", "none"}
      BY <1>5, <2>4
    <3> QED
      BY <1>4, <2>3, <2>4, <3>1 DEF HonestCall, After
  <2>5. CASE sub # {} /\ had = {}
    <3>1. c.call = "add"
      BY <1>5, <2>5
    <3> QED
      BY <1>3, <1>4, <2>3, <2>5, <3>1 DEF HonestCall, After
  <2>6. CASE sub # {} /\ had # {}
    <3>1. c.call = "insert"
      BY <1>5, <1>6, <2>6
    <3> QED
      BY <1>3, <1>4, <2>3, <2>6, <3>1 DEF HonestCall, After
  <2> QED
    BY <2>4, <2>5, <2>6
<1>7. CASE mode = "remove"
  <2>1. T = S \ entries /\ entries \subseteq S
    BY <1>7 DEF Honest
  <2>2. SubEntries(S \ entries, pos, kp) = had \ sub
    BY SubEntriesDifference
  <2>7. entries \subseteq S => sub \subseteq had
    BY SubEntriesMonotone
  <2>3. SubEntries(T, pos, kp) = had \ sub /\ sub \subseteq had
    BY <2>1, <2>2, <2>7
  <2> HIDE DEF c, sub, had, edges
  <2>4. CASE sub = {}
    <3>1. c.call \in {"keep", "none"}
      BY <1>5, <2>4
    <3> QED
      BY <1>4, <2>3, <2>4, <3>1 DEF HonestCall, After
  <2>5. CASE sub # {}
    <3>1. c.call = "remove"
      BY <1>5, <1>7, <2>3, <2>5
    <3> QED
      BY <1>3, <1>4, <2>3, <2>5, <3>1 DEF HonestCall, After
  <2> QED
    BY <2>4, <2>5
<1> QED
  BY <1>6, <1>7 DEF Honest

LEMMA CanonicalEdgesType ==
    ASSUME NEW d \in Depths, NEW S \in SUBSET Keys(d)
    PROVE  IsEdges(d, CanonicalEdges(d, S))
<1>1. \A pos \in 1 .. d : \A kp : RawIdentifier(SubEntries(S, pos, kp)) \in RawIdentifiers(d - 1)
  BY SubEntriesType, IdentifierTypes
<1> QED
  BY <1>1, PartsAtType DEF IsEdges, IsMap, CanonicalEdges

\* All calls for the children of a canonical node are honest.
LEMMA ChildCallsHonest ==
    ASSUME NodesCanonical, NEW d \in Depths, NEW mode, NEW origin, NEW S \in SUBSET Keys(d),
           NEW entries \in SUBSET Keys(d), NEW T, Honest(mode, S, entries, T),
           ApplyToChildren(d, ChildCalls(d, mode, origin, CanonicalEdges(d, S), entries)),
           NEW pos \in 1 .. d, NEW kp \in PartsAt(S, pos) \cup PartsAt(entries, pos)
    PROVE  LET c == ChildCall(mode, origin, CanonicalEdges(d, S), entries, pos, kp)
           IN  /\ IsCall(d - 1, c) /\ HonestCall(c) /\ SizeKnown(d - 1, c)
               /\ Returned(d - 1, c) = RawIdentifier(SubEntries(T, pos, kp))
<1> DEFINE edges == CanonicalEdges(d, S)
           c == ChildCall(mode, origin, edges, entries, pos, kp)
<1>1. mode \in {"insert", "remove"}
  BY DEF Honest
<1>2. IsCall(d - 1, c)
  BY <1>1, CanonicalEdgesType, ChildCallType
<1>3. HonestCall(c) /\ After(c) = SubEntries(T, pos, kp)
  BY ChildCallHonest
<1>4. SizeKnown(d - 1, c)
  <2>1. CASE d = 1
    <3>1. d - 1 = 0
      BY <2>1
    <3> HIDE DEF c
    <3> QED
      BY <1>2, <1>3, <3>1, SizeKnownAtZero DEF HonestCall
  <2>2. CASE d # 1
    <3>1. d - 1 \in Depths
      BY <2>2, MaxDepthAssumption DEF Depths
    <3>2. c \in ChildCalls(d, mode, origin, edges, entries)
      <4>1. DOMAIN edges[pos] = PartsAt(S, pos)
        BY DEF CanonicalEdges
      <4> HIDE DEF edges
      <4> QED
        BY <4>1 DEF ChildCalls
    <3>3. CallOk(d - 1, c)
      BY <2>2, <3>2 DEF ApplyToChildren
    <3> HIDE DEF c
    <3> QED
      BY <3>1, <3>3, SizeKnownByAssert
  <2> QED
    BY <2>1, <2>2
<1>5. d - 1 \in 0 .. MaxDepth
  BY MaxDepthAssumption DEF Depths
<1>6. Returned(d - 1, c) = RawIdentifier(SubEntries(T, pos, kp))
  <2> HIDE DEF c
  <2> QED BY <1>2, <1>3, <1>4, <1>5, ReturnedCanonical
<1> QED
  BY <1>2, <1>3, <1>4, <1>6

\* An update of a canonical node yields the canonical node of its target, and
\* leaves honest requests for the level below.
LEMMA UpdatedCanonical ==
    ASSUME NodesCanonical, NEW d \in Depths, NEW mode, NEW origin, NEW S \in SUBSET Keys(d),
           NEW entries \in SUBSET Keys(d), NEW T, Honest(mode, S, entries, T), NEW ref,
           ApplyToChildren(d, ChildCalls(d, mode, origin, CanonicalEdges(d, S), entries)),
           HonestRequests(child)
    PROVE  /\ UpdatedNode(d, mode, origin, ref, Cardinality(S), CanonicalEdges(d, S), entries)
              = [ref |-> ref, size |-> Cardinality(T), edges |-> CanonicalEdges(d, T)]
           /\ HonestRequests(child')
<1> DEFINE edges == CanonicalEdges(d, S)
           call(pos, kp) == ChildCall(mode, origin, edges, entries, pos, kp)
           parts(pos) == PartsAt(S, pos) \cup PartsAt(entries, pos)
           after == UpdatedEdges(d, mode, origin, edges, entries)
<1>0. \A pos \in 1 .. d : DOMAIN edges[pos] = PartsAt(S, pos)
  BY DEF CanonicalEdges
<1>1. T \in SUBSET Keys(d)
  BY DEF Honest
<1>2. \A pos \in 1 .. d : \A kp \in parts(pos) :
        /\ IsCall(d - 1, call(pos, kp)) /\ HonestCall(call(pos, kp)) /\ SizeKnown(d - 1, call(pos, kp))
        /\ Returned(d - 1, call(pos, kp)) = RawIdentifier(SubEntries(T, pos, kp))
  BY ChildCallsHonest
<1>3. \A pos \in 1 .. d : \A kp : SubEntries(T, pos, kp) \in SUBSET Keys(d - 1)
                                 /\ (empty(RawIdentifier(SubEntries(T, pos, kp))) <=> kp \notin PartsAt(T, pos))
  <2>1. d - 1 \in 0 .. MaxDepth
    BY MaxDepthAssumption DEF Depths
  <2>2. \A pos \in 1 .. d : \A kp : SubEntries(T, pos, kp) = {} <=> kp \notin PartsAt(T, pos)
    BY SubEntriesEmpty
  <2> QED
    BY <1>1, <2>1, <2>2, SubEntriesType, RawIdentifierFacts
<1>4. \A pos \in 1 .. d : PartsAt(T, pos) \subseteq parts(pos)
  BY DEF Honest, PartsAt
<1>5. after = CanonicalEdges(d, T)
  <2>1. after = [pos \in 1 .. d |->
                  [kp \in {x \in DOMAIN edges[pos] \cup PartsAt(entries, pos) : ~empty(Returned(d - 1, call(pos, x)))}
                     |-> Returned(d - 1, call(pos, kp))]]
    BY DEF UpdatedEdges
  <2> DEFINE row(pos) == [kp \in {x \in DOMAIN edges[pos] \cup PartsAt(entries, pos) : ~empty(Returned(d - 1, call(pos, x)))}
                     |-> Returned(d - 1, call(pos, kp))]
  <2>2. ASSUME NEW pos \in 1 .. d
        PROVE  row(pos) = [kp \in PartsAt(T, pos) |-> RawIdentifier(SubEntries(T, pos, kp))]
    <3> HIDE DEF call, edges
    <3>1. {x \in DOMAIN edges[pos] \cup PartsAt(entries, pos) : ~empty(Returned(d - 1, call(pos, x)))}
          = PartsAt(T, pos)
      BY <1>0, <1>2, <1>3, <1>4
    <3>2. \A kp \in PartsAt(T, pos) : Returned(d - 1, call(pos, kp)) = RawIdentifier(SubEntries(T, pos, kp))
      BY <1>2, <1>4
    <3> QED
      BY <3>1, <3>2
  <2>3. after = [pos \in 1 .. d |-> row(pos)]
    BY <2>1
  <2> HIDE DEF row, after
  <2> QED
    BY <2>2, <2>3 DEF CanonicalEdges
<1>6. UpdatedSize(d, mode, Cardinality(S), after, entries) = Cardinality(T)
  <2>1. CASE d = 1
    <3>1. DOMAIN after[1] = PartsAt(T, 1)
      <4> HIDE DEF after
      <4> QED BY <1>5, <2>1 DEF CanonicalEdges
    <3>2. Cardinality(PartsAt(T, 1)) = Cardinality(T)
      BY <1>1, <2>1, DepthOneParts
    <3> HIDE DEF after
    <3> QED
      BY <2>1, <3>1, <3>2 DEF UpdatedSize
  <2>2. CASE d # 1
    <3>1. d \in 0 .. MaxDepth
      BY DEF Depths
    <3>2. CASE mode = "insert"
      <4>1. S \cap entries = {} /\ T = S \cup entries
        BY <3>2 DEF Honest
      <4>2. Cardinality(T) = Cardinality(S) + Cardinality(entries)
        BY <3>1, <4>1, EntryCounts
      <4> QED
        BY <2>2, <3>2, <4>2 DEF UpdatedSize
    <3>3. CASE mode = "remove"
      <4>1. entries \subseteq S /\ T = S \ entries
        BY <3>3 DEF Honest
      <4>2. Cardinality(T) = Cardinality(S) - Cardinality(entries)
        BY <3>1, <4>1, EntryCounts
      <4> QED
        BY <2>2, <3>3, <4>2 DEF UpdatedSize
    <3> QED
      BY <3>2, <3>3 DEF Honest
  <2> QED
    BY <2>1, <2>2
<1>7. HonestRequests(child')
  <2>1. CASE d = 1
    BY <2>1 DEF ApplyToChildren
  <2>2. CASE d # 1
    <3> DEFINE C == ChildCalls(d, mode, origin, edges, entries)
    <3>1. \A c \in C : \E pos \in 1 .. d : \E kp \in DOMAIN edges[pos] \cup PartsAt(entries, pos) : c = call(pos, kp)
      BY DEF ChildCalls
    <3>2. \A c \in C : IsCall(d - 1, c) /\ HonestCall(c) /\ SizeKnown(d - 1, c)
      <4> HIDE DEF C, call, edges
      <4> QED BY <1>0, <1>2, <3>1
    <3>3. child' = Requested(d - 1, child, C)
      BY <2>2 DEF ApplyToChildren
    <3>4. d - 1 \in 0 .. MaxDepth
      BY MaxDepthAssumption DEF Depths
    <3> HIDE DEF C
    <3> QED
      BY <3>2, <3>3, <3>4, RequestedHonest
  <2> QED
    BY <2>1, <2>2
<1> QED
  BY <1>5, <1>6, <1>7 DEF UpdatedNode

-----------------------------------------------------------------------------
(* The steps of an update.                                                 *)

CanonicalNodes(d, nodes) ==
    \A id \in DOMAIN nodes :
        /\ Cardinality(id.es) > 1 /\ id = RawIdentifier(id.es)
        /\ nodes[id].size = Cardinality(id.es)
        /\ nodes[id].edges = CanonicalEdges(d, id.es)

LEMMA ExecuteCanonical ==
    ASSUME TypeOK, CanonicalInv, ~Idle,
           NEW nodes, CanonicalNodes(lvl, nodes), fns' = [fns EXCEPT ![lvl] = nodes],
           HonestPlan(plan'), HonestRequests(child'),
           UNCHANGED <<sens, nodec, live, assigned, op, lvl>>
    PROVE  CanonicalInv'
<1>1. lvl \in Depths /\ \A d \in Depths : CanonicalNodes(d, fns[d])
  BY MidUpdate DEF CanonicalInv, NodesCanonical, CanonicalNodes
<1>2. \A d \in Depths : CanonicalNodes(d, fns'[d])
  BY <1>1 DEF TypeOK, StorageOK, CanonicalNodes
<1>3. NodesCanonical'
  BY <1>2 DEF CanonicalInv, NodesCanonical, CanonicalNodes
<1> QED
  BY <1>3 DEF CanonicalInv, Idle

LEMMA WithCanonical ==
    ASSUME NEW d, NEW nodes, CanonicalNodes(d, nodes), NEW id, NEW ref, NEW X,
           Cardinality(id.es) > 1, id = RawIdentifier(id.es)
    PROVE  /\ CanonicalNodes(d, With(nodes, id, [ref |-> ref, size |-> Cardinality(id.es),
                                                 edges |-> CanonicalEdges(d, id.es)]))
           /\ CanonicalNodes(d, Without(nodes, X))
BY DEF CanonicalNodes, With, Without

LEMMA MidCanonical ==
    ASSUME TypeOK, CanonicalInv, ~Idle
    PROVE  /\ CanonicalNodes(lvl, fns[lvl]) /\ NodesCanonical
           /\ HonestPlan(plan) /\ HonestRequests(plan.request) /\ HonestRequests(child)
BY MidUpdate DEF CanonicalInv, NodesCanonical, CanonicalNodes, HonestPlan

LEMMA PlanSourceCanonical ==
    ASSUME TypeOK, CanonicalInv, ~Idle, NEW s, PlanSource(s)
    PROVE  CanonicalInv'
<1> DEFINE updates == {u \in plan.request.update : u.source = s /\ u.target \in plan.create}
<1>1. PICK moved \in SUBSET updates :
        plan' = [plan EXCEPT
                   !.todo   = @ \ {s},
                   !.create = @ \ {u.target : u \in updates},
                   !.copy   = @ \cup (updates \ moved),
                   !.move   = @ \cup moved,
                   !.delete = IF moved = {} THEN @ ELSE @ \ {s}]
  BY DEF PlanSource
<1>2. /\ plan'.request = plan.request /\ plan'.delta = plan.delta
      /\ plan'.copy = plan.copy \cup (updates \ moved) /\ plan'.move = plan.move \cup moved
  <2> HIDE DEF updates
  <2> QED BY <1>1, MidUpdate DEF IsPlan
<1>3. HonestPlan(plan')
  BY <1>2, MidCanonical DEF HonestPlan
<1>4. UNCHANGED <<fns, sens, nodec, live, assigned, op, lvl, child>>
  BY DEF PlanSource
<1> QED
  BY <1>3, <1>4 DEF CanonicalInv, NodesCanonical, Idle

LEMMA create_fnCanonical ==
    ASSUME TypeOK, CanonicalInv, ~Idle, NEW id, create_fn(id)
    PROVE  CanonicalInv'
<1>1. PICK c \in plan.request.creation :
        /\ c.id = id
        /\ fns' = [fns EXCEPT ![lvl] =
                     With(@, id, UpdatedNode(lvl, "insert", "created", plan.delta[id],
                                             0, NoEdges(lvl), c.entries))]
        /\ ApplyToChildren(lvl, ChildCalls(lvl, "insert", "created", NoEdges(lvl), c.entries))
  BY DEF create_fn
<1>2. lvl \in Depths /\ c.entries \in SUBSET Keys(lvl) /\ lvl \in 0 .. MaxDepth
  BY MidUpdate DEF IsPlan, IsRequests, Creations, Depths
<1>3. id = RawIdentifier(c.entries) /\ Cardinality(c.entries) > 1
  BY <1>1, MidCanonical DEF HonestRequests
<1>4. id.es = c.entries /\ id = RawIdentifier(id.es)
  BY <1>2, <1>3, RawIdentifierFacts
<1>5. NoEdges(lvl) = CanonicalEdges(lvl, {}) /\ Cardinality({}) = 0
  BY FS_EmptySet DEF NoEdges, CanonicalEdges, EmptyMap, PartsAt
<1>6. Honest("insert", {}, c.entries, c.entries)
  BY DEF Honest
<1>7. /\ UpdatedNode(lvl, "insert", "created", plan.delta[id], 0, NoEdges(lvl), c.entries)
         = [ref |-> plan.delta[id], size |-> Cardinality(id.es), edges |-> CanonicalEdges(lvl, id.es)]
      /\ HonestRequests(child')
  BY <1>1, <1>2, <1>4, <1>5, <1>6, MidCanonical, UpdatedCanonical
<1>8. CanonicalNodes(lvl, With(fns[lvl], id, [ref |-> plan.delta[id], size |-> Cardinality(id.es),
                                              edges |-> CanonicalEdges(lvl, id.es)]))
  BY <1>3, <1>4, MidCanonical, WithCanonical
<1>9. HonestPlan(plan')
  BY MidCanonical, MidUpdate DEF HonestPlan, IsPlan, create_fn
<1> QED
  BY <1>1, <1>7, <1>8, <1>9, ExecuteCanonical DEF create_fn

\* Source and target of an update of the plan, if the source is stored.
LEMMA PlannedUpdate ==
    ASSUME TypeOK, CanonicalInv, ~Idle, NEW u \in plan.request.update, u.source \in DOMAIN fns[lvl]
    PROVE  /\ u \in Updates(lvl) /\ lvl \in Depths
           /\ u.source.es \in SUBSET Keys(lvl) /\ u.entries \in SUBSET Keys(lvl)
           /\ Honest(u.mode, u.source.es, u.entries, u.target.es)
           /\ Cardinality(u.target.es) > 1 /\ u.target = RawIdentifier(u.target.es)
           /\ fns[lvl][u.source].size = Cardinality(u.source.es)
           /\ fns[lvl][u.source].edges = CanonicalEdges(lvl, u.source.es)
<1>1. u \in Updates(lvl) /\ lvl \in Depths /\ lvl \in 0 .. MaxDepth
  BY MidUpdate DEF IsPlan, IsRequests, Depths
<1>2. u.source.es \in SUBSET Keys(lvl) /\ u.entries \in SUBSET Keys(lvl)
      /\ u.target.es \in SUBSET Keys(lvl) /\ u.mode \in {"insert", "remove"}
  BY <1>1, IdentifierTypes DEF Updates
<1>3. HonestUpdate(u)
  BY MidCanonical DEF HonestRequests
<1>4. Cardinality(u.target.es) > 1 /\ u.target = RawIdentifier(u.target.es)
  BY <1>1, <1>2, <1>3, RawIdentifierFacts DEF HonestUpdate, Canonical
<1>5. Honest(u.mode, u.source.es, u.entries, u.target.es)
  BY <1>2, <1>3 DEF HonestUpdate, Honest
<1> QED
  BY <1>1, <1>2, <1>4, <1>5, MidCanonical DEF CanonicalNodes

LEMMA copy_updateCanonical ==
    ASSUME TypeOK, CanonicalInv, ~Idle, NEW u, copy_update_fn_to_fn(u)
    PROVE  CanonicalInv'
<1> DEFINE source == fns[lvl][u.source]
           n == UpdatedNode(lvl, u.mode, "copied", plan.delta[u.target],
                            source.size, source.edges, u.entries)
<1>1. u \in plan.request.update /\ u.source \in DOMAIN fns[lvl]
  BY MidCanonical DEF copy_update_fn_to_fn, HonestPlan
<1>2. /\ fns' = [fns EXCEPT ![lvl] = With(@, u.target, n)]
      /\ ApplyToChildren(lvl, ChildCalls(lvl, u.mode, "copied", source.edges, u.entries))
      /\ UNCHANGED <<sens, nodec, live, assigned, op, lvl>>
  BY DEF copy_update_fn_to_fn
<1>3. /\ n = [ref |-> plan.delta[u.target], size |-> Cardinality(u.target.es),
              edges |-> CanonicalEdges(lvl, u.target.es)]
      /\ HonestRequests(child')
  BY <1>1, <1>2, PlannedUpdate, MidCanonical, UpdatedCanonical
<1>4. CanonicalNodes(lvl, With(fns[lvl], u.target, n))
  <2> HIDE DEF n
  <2> QED BY <1>1, <1>3, PlannedUpdate, MidCanonical, WithCanonical
<1>5. HonestPlan(plan')
  BY MidCanonical, MidUpdate DEF HonestPlan, IsPlan, copy_update_fn_to_fn
<1> HIDE DEF n
<1> QED
  BY <1>2, <1>3, <1>4, <1>5, ExecuteCanonical

LEMMA move_updateCanonical ==
    ASSUME TypeOK, CanonicalInv, ~Idle, NEW u, move_update_fn_to_fn(u)
    PROVE  CanonicalInv'
<1> DEFINE source == fns[lvl][u.source]
           n == UpdatedNode(lvl, u.mode, "moved", plan.delta[u.target],
                            source.size, source.edges, u.entries)
           rest == Without(fns[lvl], {u.source})
<1>1. u \in plan.request.update /\ u.source \in DOMAIN fns[lvl]
  BY MidCanonical DEF move_update_fn_to_fn, HonestPlan
<1>2. /\ fns' = [fns EXCEPT ![lvl] = With(Without(@, {u.source}), u.target, n)]
      /\ ApplyToChildren(lvl, ChildCalls(lvl, u.mode, "moved", source.edges, u.entries))
      /\ UNCHANGED <<sens, nodec, live, assigned, op, lvl>>
  BY DEF move_update_fn_to_fn
<1>3. /\ n = [ref |-> plan.delta[u.target], size |-> Cardinality(u.target.es),
              edges |-> CanonicalEdges(lvl, u.target.es)]
      /\ HonestRequests(child')
  BY <1>1, <1>2, PlannedUpdate, MidCanonical, UpdatedCanonical
<1>4. CanonicalNodes(lvl, With(rest, u.target, n))
  <2> HIDE DEF n
  <2>1. CanonicalNodes(lvl, rest)
    BY <1>1, PlannedUpdate, MidCanonical, WithCanonical
  <2> HIDE DEF rest
  <2> QED BY <1>1, <1>3, <2>1, PlannedUpdate, WithCanonical
<1>5. HonestPlan(plan')
  BY MidCanonical, MidUpdate DEF HonestPlan, IsPlan, move_update_fn_to_fn
<1> HIDE DEF n
<1> QED
  BY <1>2, <1>3, <1>4, <1>5, ExecuteCanonical

\* The calls that delete_fn makes drop references only.
LEMMA delete_fnCanonical ==
    ASSUME TypeOK, CanonicalInv, ~Idle, NEW id, delete_fn(id)
    PROVE  CanonicalInv'
<1> DEFINE C == DropCalls(lvl, fns[lvl][id].edges)
<1>1. id \in DOMAIN fns[lvl] /\ IsFullNode(lvl, fns[lvl][id]) /\ lvl \in Depths
  BY MidUpdate DEF delete_fn, AreFullNodes
<1>2. CanonicalNodes(lvl, Without(fns[lvl], {id}))
  BY MidCanonical DEF CanonicalNodes, Without
<1>3. id.es \in SUBSET Keys(lvl) /\ fns[lvl][id].edges = CanonicalEdges(lvl, id.es)
  BY <1>1, MidCanonical, MidUpdate, IdentifierTypes DEF CanonicalNodes, AreFullNodes
<1>4. \A c \in C : IsCall(lvl - 1, c)
  BY <1>1, DropCallsType DEF IsFullNode
<1>5. \A c \in C : c.call = "drop" /\ \E pos \in 1 .. lvl : \E kp \in PartsAt(id.es, pos) :
                     c.source = RawIdentifier(SubEntries(id.es, pos, kp))
  BY <1>3 DEF DropCalls, CanonicalEdges
<1>6. \A c \in C : HonestCall(c) /\ SizeKnown(lvl - 1, c)
  <2>1. lvl - 1 \in 0 .. MaxDepth
    BY <1>1, MaxDepthAssumption DEF Depths
  <2>2. \A c \in C : Canonical(c.source)
    <3> HIDE DEF C
    <3> QED BY <1>1, <1>3, <1>5, <2>1, SubEntriesType, RawIdentifierFacts
  <2> HIDE DEF C
  <2> QED BY <1>5, <2>2 DEF HonestCall, SizeKnown
<1>7. HonestRequests(child')
  <2>1. lvl - 1 \in 0 .. MaxDepth
    BY <1>1, MaxDepthAssumption DEF Depths
  <2>2. child' = child \/ child' = Requested(lvl - 1, child, C)
    BY DEF delete_fn, ApplyToChildren
  <2> HIDE DEF C
  <2> QED BY <1>4, <1>6, <2>1, <2>2, MidCanonical, RequestedHonest
<1>8. HonestPlan(plan')
  BY MidCanonical, MidUpdate DEF HonestPlan, IsPlan, delete_fn
<1> QED
  BY <1>2, <1>7, <1>8, ExecuteCanonical DEF delete_fn

CanonicalEntries(nodes) ==
    \A id \in DOMAIN nodes :
        Cardinality(id.es) = 1 /\ id = RawIdentifier(id.es) /\ nodes[id].entries = id.es

LEMMA SenUpdateCanonical ==
    ASSUME TypeOK, CanonicalInv, ~Idle, LevelOk
    PROVE  CanonicalEntries(apply_sen_update(sens[lvl]))
<1> DEFINE nodes == sens[lvl]
           changed == {id \in DOMAIN plan.delta : is_sen(id)}
           ref(id) == (IF id \in DOMAIN nodes THEN nodes[id].ref ELSE 0)
                      + (IF id \in changed THEN plan.delta[id] ELSE 0)
           entry(id) == IF id \in DOMAIN nodes THEN nodes[id].entries
                        ELSE (CHOOSE e \in plan.request.entry : e.id = id).entries
           D == {x \in DOMAIN nodes \cup changed : ref(x) # 0}
<1>1. lvl \in Depths /\ lvl \in 0 .. MaxDepth /\ CanonicalEntries(nodes)
  BY MidUpdate DEF CanonicalInv, NodesCanonical, CanonicalEntries, Depths
<1>2. apply_sen_update(sens[lvl]) = [id \in D |-> [ref |-> ref(id), entries |-> entry(id)]]
  BY DEF apply_sen_update
<1>3. ASSUME NEW id \in D
      PROVE  Cardinality(id.es) = 1 /\ id = RawIdentifier(id.es) /\ entry(id) = id.es
  <2>1. CASE id \in DOMAIN nodes
    BY <1>1, <2>1 DEF CanonicalEntries
  <2>2. CASE id \notin DOMAIN nodes
    <3>1. id \in DOMAIN plan.delta /\ is_sen(id)
      BY <2>2
    <3>2. id \in RawIdentifiers(lvl) /\ id.es \in SUBSET Keys(lvl)
      BY <3>1, MidUpdate, IdentifierTypes DEF IsPlan, IsMap
    <3>3. id = RawIdentifier(id.es)
      BY <3>1, MidCanonical DEF HonestPlan, HonestRequests, Canonical
    <3>4. Cardinality(id.es) = 1
      BY <1>1, <3>1, <3>2, <3>3, RawIdentifierFacts
    <3>5. PICK e \in plan.request.entry : e = (CHOOSE x \in plan.request.entry : x.id = id) /\ e.id = id
      BY <2>2, <3>1 DEF LevelOk
    <3>6. e.entries \in SUBSET Keys(lvl) /\ id = RawIdentifier(e.entries)
      BY <3>5, MidUpdate, MidCanonical DEF IsPlan, IsRequests, Creations, HonestRequests
    <3>7. e.entries = id.es
      BY <1>1, <3>6, RawIdentifierFacts
    <3> QED
      BY <2>2, <3>3, <3>4, <3>5, <3>7
  <2> QED
    BY <2>1, <2>2
<1> HIDE DEF D, ref, entry
<1> QED
  BY <1>2, <1>3 DEF CanonicalEntries

LEMMA FinishLevelCanonical ==
    ASSUME TypeOK, CanonicalInv, FinishLevel
    PROVE  CanonicalInv'
<1>0. ~Idle /\ LevelOk /\ lvl \in Depths
  BY MidUpdate DEF FinishLevel
<1>1. NodesCanonical'
  <2> DEFINE nodes == ApplyDeltas(fns[lvl])
             senodes == apply_sen_update(sens[lvl])
  <2>1. CanonicalNodes(lvl, nodes)
    <3>1. ASSUME NEW id \in DOMAIN fns[lvl]
          PROVE  nodes[id].size = fns[lvl][id].size /\ nodes[id].edges = fns[lvl][id].edges
      <4>1. IsFullNode(lvl, fns[lvl][id])
        BY <1>0, MidUpdate DEF AreFullNodes
      <4> QED
        BY <4>1 DEF ApplyDeltas, IsFullNode
    <3>2. DOMAIN nodes = DOMAIN fns[lvl]
      BY DEF ApplyDeltas
    <3> HIDE DEF nodes
    <3> QED
      BY <1>0, <3>1, <3>2, MidCanonical DEF CanonicalNodes
  <2>2. CanonicalEntries(senodes)
    BY <1>0, SenUpdateCanonical
  <2>3. fns' = [fns EXCEPT ![lvl] = nodes] /\ sens' = [sens EXCEPT ![lvl] = senodes]
    BY DEF FinishLevel
  <2> HIDE DEF nodes, senodes
  <2>4. \A d \in Depths : CanonicalNodes(d, fns'[d])
    BY <1>0, <2>1, <2>3 DEF TypeOK, StorageOK, CanonicalInv, NodesCanonical, CanonicalNodes
  <2>5. \A d \in Depths : CanonicalEntries(sens'[d])
    BY <1>0, <2>2, <2>3 DEF TypeOK, StorageOK, CanonicalInv, NodesCanonical, CanonicalEntries
  <2> QED
    BY <2>4, <2>5 DEF NodesCanonical, CanonicalNodes, CanonicalEntries
<1>2. CASE lvl > 1
  <2>1. StartLevel(lvl - 1, child) /\ UNCHANGED <<nodec, op>>
    BY <1>2 DEF FinishLevel
  <2>2. HonestPlan(plan') /\ child' = NoRequests
    BY <1>0, <2>1, MidCanonical, StartPlanHonest DEF StartLevel
  <2> QED
    BY <1>0, <1>1, <2>1, <2>2, NoRequestsHonest DEF CanonicalInv
<1>3. CASE ~(lvl > 1)
  <2>1. nodec' = [nodec EXCEPT ![op.handle] = op.target] /\ lvl' = 0
    BY <1>3 DEF FinishLevel
  <2>2. \A h \in Handles : Canonical(nodec'[h])
    BY <1>0, <2>1 DEF CanonicalInv, TypeOK, HandlesOK
  <2> QED
    BY <1>1, <2>1, <2>2 DEF CanonicalInv, Idle
<1> QED
  BY <1>2, <1>3

-----------------------------------------------------------------------------
(* The operations.                                                         *)

LEMMA BeginCanonical ==
    ASSUME TypeOK, CanonicalInv, NEW h \in Handles, NEW kind, NEW es,
           NEW call, IsCall(HandleDepth[h], call), HonestCall(call), Begin(h, kind, es, call)
    PROVE  CanonicalInv'
<1> DEFINE d == HandleDepth[h]
           r == Requested(d, NoRequests, {call})
<1>1. d \in Depths /\ d \in 0 .. MaxDepth
  BY HandleAssumption DEF Depths
<1>2. SizeKnown(d, call)
  BY <1>1, SizeKnownByAssert DEF Begin, CanonicalInv
<1>3. Canonical(Returned(d, call)) /\ Canonical(NoId)
  <2>1. Canonical(Returned(d, call))
    BY <1>1, <1>2, ReturnedCanonical, RawIdentifierFacts
  <2>2. Canonical(NoId)
    BY DEF Canonical, NoId, RawIdentifier
  <2> QED BY <2>1, <2>2
<1>4. HonestRequests(r)
  BY <1>1, <1>2, NoRequestsHonest, RequestedHonest
<1>5. /\ op'.target = IF kind = "destroy" THEN NoId ELSE Returned(d, call)
      /\ plan' = StartPlan(d, r) /\ child' = NoRequests
      /\ UNCHANGED <<fns, sens, nodec>>
  BY DEF Begin, StartLevel
<1> HIDE DEF r
<1>6. HonestPlan(plan')
  BY <1>4, <1>5, StartPlanHonest
<1> QED
  BY <1>3, <1>5, <1>6, NoRequestsHonest DEF CanonicalInv, NodesCanonical

LEMMA insertCanonical ==
    ASSUME TypeOK, CanonicalInv, NEW h \in Handles, NEW es \in SUBSET Keys(HandleDepth[h]), insert(h, es)
    PROVE  CanonicalInv'
<1>0. /\ nodec[h] \in RawIdentifiers(HandleDepth[h]) /\ Canonical(nodec[h])
      /\ es # {} /\ es \cap nodec[h].es = {}
  BY DEF insert, TypeOK, HandlesOK, CanonicalInv
<1>1. CASE empty(nodec[h])
  <2> DEFINE call == Call("add", NoId, es)
  <2>1. IsCall(HandleDepth[h], call)
    BY IdentifierTypes DEF IsCall, Call, CallNames
  <2>2. HonestCall(call)
    BY DEF HonestCall, Call, Canonical, NoId, RawIdentifier
  <2>3. Begin(h, "insert", es, call)
    BY <1>1 DEF insert
  <2> HIDE DEF call
  <2> QED
    BY <2>1, <2>2, <2>3, BeginCanonical
<1>2. CASE ~empty(nodec[h])
  <2> DEFINE call == Call("insert", nodec[h], es)
  <2>1. IsCall(HandleDepth[h], call)
    BY <1>0 DEF IsCall, Call, CallNames
  <2>2. nodec[h].es # {}
    BY <1>0, <1>2 DEF Canonical, RawIdentifier, empty
  <2>3. HonestCall(call)
    BY <1>0, <2>2 DEF HonestCall, Call
  <2>4. Begin(h, "insert", es, call)
    BY <1>2 DEF insert
  <2> HIDE DEF call
  <2> QED
    BY <2>1, <2>3, <2>4, BeginCanonical
<1> QED
  BY <1>1, <1>2

LEMMA removeCanonical ==
    ASSUME TypeOK, CanonicalInv, NEW h \in Handles, NEW es \in SUBSET Keys(HandleDepth[h]), remove(h, es)
    PROVE  CanonicalInv'
<1> DEFINE call == Call("remove", nodec[h], es)
<1>1. IsCall(HandleDepth[h], call)
  BY DEF IsCall, Call, CallNames, TypeOK, HandlesOK
<1>2. HonestCall(call)
  BY DEF HonestCall, Call, remove, CanonicalInv
<1>3. Begin(h, "remove", es, call)
  BY DEF remove
<1> HIDE DEF call
<1> QED
  BY <1>1, <1>2, <1>3, BeginCanonical

\* Counting a reference changes neither size nor edges nor entries.
LEMMA AddToRefCanonical ==
    ASSUME TypeOK, NodesCanonical, NEW d \in Depths, NEW id, NEW n, AddToRef(d, id, n)
    PROVE  NodesCanonical'
<1>0. (\A l \in Depths : CanonicalNodes(l, fns[l])) /\ (\A l \in Depths : CanonicalEntries(sens[l]))
  BY DEF NodesCanonical, CanonicalNodes, CanonicalEntries
<1>1. CASE is_fn(id)
  <2>1. fns' = [fns EXCEPT ![d][id].ref = @ + n] /\ sens' = sens
    BY <1>1 DEF AddToRef
  <2>2. \A l \in Depths : l # d => fns'[l] = fns[l]
    BY <2>1 DEF TypeOK, StorageOK
  <2>3. fns'[d] = [fns[d] EXCEPT ![id].ref = @ + n]
    BY <2>1 DEF TypeOK, StorageOK
  <2>4. DOMAIN fns'[d] = DOMAIN fns[d] /\ \A x \in DOMAIN fns[d] :
          fns'[d][x].size = fns[d][x].size /\ fns'[d][x].edges = fns[d][x].edges
    <3>1. \A x \in DOMAIN fns[d] : IsFullNode(d, fns[d][x])
      BY DEF TypeOK, StorageOK
    <3>2. \A x \in DOMAIN fns[d] : fns'[d][x] = IF x = id THEN [fns[d][id] EXCEPT !.ref = @ + n] ELSE fns[d][x]
      BY <2>3
    <3> QED
      BY <2>3, <3>1, <3>2 DEF IsFullNode
  <2>5. \A l \in Depths : CanonicalNodes(l, fns'[l])
    BY <1>0, <2>2, <2>4 DEF CanonicalNodes
  <2> QED
    BY <1>0, <2>1, <2>5 DEF NodesCanonical, CanonicalNodes, CanonicalEntries
<1>2. CASE ~is_fn(id)
  <2>1. sens' = [sens EXCEPT ![d][id].ref = @ + n] /\ fns' = fns
    BY <1>2 DEF AddToRef
  <2>2. \A l \in Depths : l # d => sens'[l] = sens[l]
    BY <2>1 DEF TypeOK, StorageOK
  <2>3. sens'[d] = [sens[d] EXCEPT ![id].ref = @ + n]
    BY <2>1 DEF TypeOK, StorageOK
  <2>4. DOMAIN sens'[d] = DOMAIN sens[d] /\ \A x \in DOMAIN sens[d] : sens'[d][x].entries = sens[d][x].entries
    <3>1. \A x \in DOMAIN sens[d] : sens[d][x] \in SingleEntryNodes(d)
      BY DEF TypeOK, StorageOK, IsMap
    <3>2. \A x \in DOMAIN sens[d] : sens'[d][x] = IF x = id THEN [sens[d][id] EXCEPT !.ref = @ + n] ELSE sens[d][x]
      BY <2>3
    <3> QED
      BY <2>3, <3>1, <3>2 DEF SingleEntryNodes
  <2>5. \A l \in Depths : CanonicalEntries(sens'[l])
    BY <1>0, <2>2, <2>4 DEF CanonicalEntries
  <2> QED
    BY <1>0, <2>1, <2>5 DEF NodesCanonical, CanonicalNodes, CanonicalEntries
<1> QED
  BY <1>1, <1>2

LEMMA DestroyCanonical ==
    ASSUME TypeOK, CanonicalInv, NEW h \in Handles, Destroy(h)
    PROVE  CanonicalInv'
<1> DEFINE d == HandleDepth[h]
           call == Call("drop", nodec[h], {})
<1>0. d \in Depths
  BY HandleAssumption
<1>1. CASE Begin(h, "destroy", {}, call)
  <2>1. IsCall(d, call)
    BY DEF IsCall, Call, CallNames, TypeOK, HandlesOK
  <2>2. HonestCall(call)
    BY DEF HonestCall, Call, CanonicalInv
  <2> HIDE DEF call
  <2> QED
    BY <1>1, <2>1, <2>2, BeginCanonical
<1>2. CASE /\ IF Counted(d, nodec[h]) THEN AddToRef(d, nodec[h], -1) ELSE UNCHANGED storage
           /\ nodec' = [nodec EXCEPT ![h] = NoId]
           /\ Idle /\ UNCHANGED update
  <2>1. NodesCanonical'
    BY <1>0, <1>2, AddToRefCanonical DEF storage, CanonicalInv, NodesCanonical
  <2>2. \A x \in Handles : Canonical(nodec'[x])
    BY <1>2 DEF TypeOK, HandlesOK, CanonicalInv, Canonical, NoId, RawIdentifier
  <2> QED
    BY <1>2, <2>1, <2>2 DEF CanonicalInv, Idle, update
<1> QED
  BY <1>1, <1>2 DEF Destroy

LEMMA TakeCanonical ==
    ASSUME TypeOK, CanonicalInv, NEW g \in Handles, NEW h \in Handles,
           \/ CopyConstruct(g, h) \/ MoveConstruct(g, h)
           \/ CopyAssign(g, h)    \/ MoveAssign(g, h)
    PROVE  CanonicalInv'
<1>1. /\ Idle /\ UNCHANGED update
      /\ nodec' \in {[nodec EXCEPT ![g] = nodec[h]], [nodec EXCEPT ![g] = nodec[h], ![h] = NoId]}
  BY DEF CopyConstruct, MoveConstruct, CopyAssign, MoveAssign, update
<1>2. NodesCanonical'
  <2>1. HandleDepth[h] \in Depths
    BY HandleAssumption
  <2>2. CASE inc_ref_count(HandleDepth[h], nodec[h])
    BY <2>1, <2>2, AddToRefCanonical DEF inc_ref_count, storage, CanonicalInv, NodesCanonical
  <2>3. CASE UNCHANGED <<fns, sens>>
    BY <2>3 DEF CanonicalInv, NodesCanonical
  <2> QED
    BY <2>2, <2>3 DEF CopyConstruct, MoveConstruct, CopyAssign, MoveAssign
<1>3. Canonical(NoId)
  BY DEF Canonical, NoId, RawIdentifier
<1>4. \A x \in Handles : Canonical(nodec'[x])
  BY <1>1, <1>3 DEF TypeOK, HandlesOK, CanonicalInv
<1> QED
  BY <1>1, <1>2, <1>4 DEF CanonicalInv, Idle, update

LEMMA CanonicalInit == Init => CanonicalInv
BY DEF Init, CanonicalInv, NodesCanonical, Canonical, RawIdentifier, NoId, EmptyMap, Idle

LEMMA CanonicalStep ==
    ASSUME TypeOK, CanonicalInv, [Next]_vars
    PROVE  CanonicalInv'
<1>1. CASE Step
  <2>0. ~Idle
    BY <1>1, StepInUpdate
  <2> QED
    BY <1>1, <2>0, PlanSourceCanonical, create_fnCanonical, copy_updateCanonical,
       move_updateCanonical, delete_fnCanonical, FinishLevelCanonical DEF Step
<1>2. CASE Operation
  <2>0. \A h \in Handles : HandleKeys[h] \subseteq Keys(HandleDepth[h])
    BY HandleAssumption
  <2>1. ASSUME NEW h \in Handles, NEW es \in Bulks(h), insert(h, es) \/ remove(h, es) PROVE CanonicalInv'
    BY <2>0, <2>1, insertCanonical, removeCanonical DEF Bulks
  <2>2. ASSUME NEW h \in Handles, NEW k \in HandleKeys[h], NEW value \in BOOLEAN, set(h, k, value)
        PROVE  CanonicalInv'
    <3>1. insert(h, {k}) \/ remove(h, {k})
      BY <2>2 DEF set
    <3>2. {k} \in SUBSET Keys(HandleDepth[h])
      BY <2>0
    <3> QED
      BY <3>1, <3>2, insertCanonical, removeCanonical
  <2>3. ASSUME NEW h \in Handles, Construct(h) PROVE CanonicalInv'
    BY <2>3 DEF Construct, update, CanonicalInv, NodesCanonical, Idle
  <2> QED
    BY <1>2, <2>1, <2>2, <2>3, TakeCanonical, DestroyCanonical DEF Operation
<1>3. CASE UNCHANGED vars
  BY <1>3 DEF vars, CanonicalInv, NodesCanonical, Idle
<1> QED
  BY <1>1, <1>2, <1>3 DEF Next

\* At every moment, in the middle of every update and for every order of its
\* steps, each stored node is the node that would be built from scratch from
\* the entries of its identifier: copy_update_fn_to_fn, move_update_fn_to_fn
\* and the level-wise handing down of requests never produce a node with a
\* missing, superfluous or outdated edge or with a wrong size.
THEOREM StoredNodesCanonical == Spec => []NodesCanonical
<1>1. Init => CanonicalInv
  BY CanonicalInit
<1>2. TypeOK /\ CanonicalInv /\ [Next]_vars => CanonicalInv'
  BY CanonicalStep
<1>3. CanonicalInv => NodesCanonical
  BY DEF CanonicalInv
<1> QED
  BY <1>1, <1>2, <1>3, TypeCorrect, PTL DEF Spec

-----------------------------------------------------------------------------
(***************************************************************************)
(* The reference counts are exact, sufficient, and nothing dangles, for    *)
(* all key parts, depths, Hypertries and bulks.                            *)
(*                                                                         *)
(* The argument.  In the middle of an update the stored counts are wrong:  *)
(* at the level that is executed some nodes have their new count and some  *)
(* a delta that is still to be applied, and at the level below the changes *)
(* are still collected in the requests.  Planned is the count a node will  *)
(* have when all of this is done, Referrers what will refer to it once the *)
(* operation returns; every step preserves their difference (RefInv), and  *)
(* only the assignments of Hypertries, which forget a node, increase it.   *)
(***************************************************************************)

\* The reference count a node has in the storage, 0 if it is not stored.
Stored(d, id) ==
    LET nodes == IF is_fn(id) THEN fns[d] ELSE sens[d]
    IN  IF id \in DOMAIN nodes THEN nodes[id].ref ELSE 0

Delta(delta, id) == IF id \in DOMAIN delta THEN delta[id] ELSE 0

\* The nodes that the plan still has to delete or to move away.
Ending == plan.delete \cup {u.source : u \in plan.move}

\* What is left of the plan for a node of its level.
Left(id) == IF is_fn(id) /\ id \in plan.done THEN 0 ELSE Delta(plan.delta, id)

Planned(d, id) ==
    IF d = lvl THEN IF is_fn(id) /\ id \in Ending THEN 0 ELSE Stored(d, id) + Left(id)
    ELSE IF d = lvl - 1 THEN Stored(d, id) + Delta(child.delta, id)
    ELSE Stored(d, id)

\* What refers to a node when the operation has returned.
Held(h) == IF ~Idle /\ h = op.handle THEN op.target ELSE nodec[h]

Holders(d, id) == {h \in Handles : HandleDepth[h] = d /\ Held(h) = id}

Referrers(d, id) == Cardinality(ParentEdges(d, id)) + Cardinality(Holders(d, id))

\* Every node is planned to have a reference for everything that refers to it,
\* and no more as long as no Hypertrie was assigned to.
RefInv ==
    \A d \in Depths : \A id \in RawIdentifiers(d) : Counted(d, id) =>
        /\ Planned(d, id) >= Referrers(d, id)
        /\ assigned = 0 => Planned(d, id) = Referrers(d, id)

\* The nodes that vanish have no delta left, a delta is never zero, and what is
\* to be created is not stored yet.
PlanInv == ~Idle =>
    /\ \A id \in DOMAIN plan.delta : plan.delta[id] # 0 /\ id \notin Ending
    /\ \A id \in plan.done : id \in DOMAIN fns[lvl] \/ id \notin DOMAIN plan.delta
    /\ plan.create \cap DOMAIN fns[lvl] = {}

\* Entries that live in their identifier are neither stored nor counted.
InPlaceInv ==
    /\ \A d \in Depths : \A id \in DOMAIN sens[d] : ~in_place(d, id)
    /\ ~Idle => /\ \A id \in DOMAIN plan.delta : ~in_place(lvl, id)
                /\ \A id \in DOMAIN child.delta : ~in_place(lvl - 1, id)

\* No node without a reference is stored.
PositiveInv == \A d \in Depths :
    /\ \A id \in DOMAIN fns[d] : fns[d][id].ref > 0
    /\ \A id \in DOMAIN sens[d] : sens[d][id].ref > 0

\* Only the Hypertries that exist have a node; they are finitely many.
LiveInv ==
    /\ IsFiniteSet(live)
    /\ \A h \in Handles : h \notin live => nodec[h] = NoId
    /\ ~Idle /\ op.kind = "destroy" => op.target = NoId

CountInv == RefInv /\ PlanInv /\ InPlaceInv /\ PositiveInv /\ LiveInv

-----------------------------------------------------------------------------
(* Counting edges.                                                         *)

\* The edges of one node, and of the nodes of a depth, that lead to id.
EdgesTo(d, edges, id) ==
    {x \in (1 .. d) \X KeyParts : x[2] \in DOMAIN edges[x[1]] /\ edges[x[1]][x[2]] = id}

EdgesInto(d, nodes, id) ==
    {e \in (DOMAIN nodes) \X (1 .. d) \X KeyParts :
        LET edges == nodes[e[1]].edges[e[2]] IN e[3] \in DOMAIN edges /\ edges[e[3]] = id}

\* Identifiers are finitely many, and so are the edges of the nodes of a depth.
LEMMA IdentifiersFinite ==
    ASSUME NEW d \in Depths
    PROVE  IsFiniteSet(RawIdentifiers(d))
<1> DEFINE P == Tags \X SUBSET Keys(d)
           f == [x \in P |-> [tag |-> x[1], es |-> x[2]]]
<1>1. IsFiniteSet(Tags)
  <2>1. Tags = {"sen"} \cup {"fn"}
    BY DEF Tags
  <2> QED
    BY <2>1, FS_Singleton, FS_Union
<1>2. IsFiniteSet(SUBSET Keys(d))
  BY KeysAssumption, FS_SUBSET DEF Depths
<1>3. IsFiniteSet(P)
  BY <1>1, <1>2, FS_Product
<1>4. f \in Surjection(P, RawIdentifiers(d))
  <2>1. f \in [P -> RawIdentifiers(d)]
    BY DEF RawIdentifiers
  <2>2. ASSUME NEW id \in RawIdentifiers(d) PROVE \E x \in P : f[x] = id
    <3>1. <<id.tag, id.es>> \in P /\ id = [tag |-> id.tag, es |-> id.es]
      BY DEF RawIdentifiers
    <3>2. f[<<id.tag, id.es>>] = id
      BY <3>1
    <3> QED
      BY <3>1, <3>2
  <2> QED
    BY <2>1, <2>2 DEF Surjection
<1> QED
  BY <1>3, <1>4, FS_Surjection

LEMMA EdgesFinite ==
    ASSUME NEW d \in Depths, NEW nodes, DOMAIN nodes \subseteq RawIdentifiers(d), NEW id
    PROVE  /\ IsFiniteSet(EdgesInto(d, nodes, id))
           /\ Cardinality(EdgesInto(d, nodes, id)) \in Nat
<1> DEFINE Q == (1 .. d) \X KeyParts
           P == (DOMAIN nodes) \X Q
           T == (DOMAIN nodes) \X (1 .. d) \X KeyParts
           f == [x \in P |-> <<x[1], x[2][1], x[2][2]>>]
<1>1. IsFiniteSet(Q)
  BY EdgePositionsFinite
<1>2. IsFiniteSet(DOMAIN nodes)
  BY IdentifiersFinite, FS_Subset
<1>3. IsFiniteSet(P)
  BY <1>1, <1>2, FS_Product
<1>4. f \in Surjection(P, T)
  <2>1. f \in [P -> T]
    OBVIOUS
  <2>2. ASSUME NEW t \in T PROVE \E x \in P : f[x] = t
    <3>1. <<t[1], <<t[2], t[3]>>>> \in P
      OBVIOUS
    <3>2. f[<<t[1], <<t[2], t[3]>>>>] = t
      BY <3>1
    <3> QED
      BY <3>1, <3>2
  <2> QED
    BY <2>1, <2>2 DEF Surjection
<1>5. IsFiniteSet(T)
  <2> HIDE DEF P, T, f
  <2> QED
    BY <1>3, <1>4, FS_Surjection
<1>6. EdgesInto(d, nodes, id) \subseteq T
  BY DEF EdgesInto
<1> QED
  BY <1>5, <1>6, FS_Subset, FS_CardinalityType

\* The nodes all are the others and s.
Extended(others, s, all) ==
    /\ s \in DOMAIN all
    /\ DOMAIN others = DOMAIN all \ {s}
    /\ \A x \in DOMAIN others : others[x].edges = all[x].edges

\* The edges that a node s adds to those of the other nodes.
LEMMA EdgesSplit ==
    ASSUME NEW d \in Depths, NEW all, NEW others, NEW s, NEW id,
           DOMAIN all \subseteq RawIdentifiers(d),
           Extended(others, s, all)
    PROVE  /\ Cardinality(EdgesTo(d, all[s].edges, id)) \in Nat
           /\ Cardinality(EdgesInto(d, all, id)) =
                  Cardinality(EdgesInto(d, others, id)) + Cardinality(EdgesTo(d, all[s].edges, id))
<1> DEFINE A == EdgesInto(d, all, id)
           B == EdgesInto(d, others, id)
           E == EdgesTo(d, all[s].edges, id)
           M == {e \in A : e[1] = s}
           f == [x \in E |-> <<s, x[1], x[2]>>]
<1>0. /\ s \in DOMAIN all /\ DOMAIN others = DOMAIN all \ {s}
      /\ \A x \in DOMAIN others : others[x].edges = all[x].edges
  BY DEF Extended
<1>1. IsFiniteSet(A) /\ IsFiniteSet(B)
  BY <1>0, EdgesFinite
<1>2. IsFiniteSet(E) /\ Cardinality(E) \in Nat
  BY EdgePositionsFinite, FS_CardinalityType DEF EdgesTo
<1>3. f \in Bijection(E, M)
  <2>1. f \in [E -> M]
    BY <1>0 DEF EdgesTo, EdgesInto
  <2>2. ASSUME NEW e \in M PROVE \E x \in E : f[x] = e
    <3>1. <<e[2], e[3]>> \in E
      BY DEF EdgesTo, EdgesInto
    <3>2. f[<<e[2], e[3]>>] = e
      BY <3>1 DEF EdgesInto
    <3> QED
      BY <3>1, <3>2
  <2>3. ASSUME NEW x \in E, NEW y \in E, f[x] = f[y] PROVE x = y
    BY <2>3 DEF EdgesTo
  <2> QED
    BY <2>1, <2>2, <2>3 DEF Bijection, Injection, Surjection, IsInjective
<1>4. Cardinality(M) = Cardinality(E) /\ IsFiniteSet(M)
  <2> HIDE DEF M, E, f
  <2> QED
    BY <1>2, <1>3, FS_Bijection DEF ExistsBijection
<1>5. A = B \cup M /\ B \cap M = {}
  BY <1>0 DEF EdgesInto
<1> HIDE DEF A, B, E, M
<1>6. Cardinality(B) \in Nat /\ Cardinality(M) \in Nat
  BY <1>1, <1>4, FS_CardinalityType
<1>7. Cardinality(B \cap M) = 0
  BY <1>5, FS_EmptySet
<1>8. Cardinality(B \cup M) = Cardinality(B) + Cardinality(M) - Cardinality(B \cap M)
  BY <1>1, <1>4, FS_Union
<1>9. Cardinality(A) = Cardinality(B) + Cardinality(M)
  BY <1>5, <1>6, <1>7, <1>8
<1> QED
  BY <1>2, <1>4, <1>9 DEF A, B, E

\* Calls that are told apart by position and key part are as many as the
\* positions and key parts they are for.
LEMMA CallsCount ==
    ASSUME NEW d \in Depths, NEW C, NEW S \in SUBSET ((1 .. d) \X KeyParts),
           \A c \in C : <<c.at, c.kp>> \in S,
           \A x \in S : \E c \in C : <<c.at, c.kp>> = x,
           \A c1, c2 \in C : c1.at = c2.at /\ c1.kp = c2.kp => c1 = c2
    PROVE  Cardinality(C) = Cardinality(S) /\ Cardinality(S) \in Nat
<1> DEFINE f == [c \in C |-> <<c.at, c.kp>>]
<1>1. f \in Injection(C, S) /\ f \in Surjection(C, S)
  BY DEF Injection, Surjection, IsInjective
<1>2. IsFiniteSet(S) /\ Cardinality(S) \in Nat
  BY EdgePositionsFinite, FS_CardinalityType
<1> QED
  BY <1>1, <1>2, FS_Injection

-----------------------------------------------------------------------------
(* Counting calls.                                                         *)

Gained(C, d, id) == {c \in C : id \in Gains(d, c)}

Lost(C, d, id) == {c \in C : id \in Loses(d, c)}

\* What the calls change in the requests.
LEMMA RequestedDelta ==
    ASSUME NEW d, NEW r, IsRequests(d, r), NEW C, IsFiniteSet(C), NEW id
    PROVE  /\ Delta(Requested(d, r, C).delta, id) =
                  Delta(r.delta, id) + Cardinality(Gained(C, d, id)) - Cardinality(Lost(C, d, id))
           /\ Delta(r.delta, id) \in Int
           /\ Cardinality(Gained(C, d, id)) \in Nat /\ Cardinality(Lost(C, d, id)) \in Nat
<1> DEFINE gained == UNION {Gains(d, c) : c \in C}
           lost   == UNION {Loses(d, c) : c \in C}
           count(x) == IF x \in DOMAIN r.delta THEN r.delta[x] ELSE 0
           total(x) == count(x) + Cardinality({c \in C : x \in Gains(d, c)})
                                - Cardinality({c \in C : x \in Loses(d, c)})
           D == DOMAIN r.delta \cup gained \cup lost
<1>1. Requested(d, r, C).delta = [x \in D |-> total(x)]
  BY DEF Requested
<1>2. /\ Cardinality(Gained(C, d, id)) \in Nat /\ Cardinality(Lost(C, d, id)) \in Nat
  BY FS_Subset, FS_CardinalityType DEF Gained, Lost
<1>3. Delta(r.delta, id) \in Int
  BY DEF Delta, IsRequests, IsMap
<1>4. count(id) = Delta(r.delta, id)
  BY DEF Delta
<1>5. CASE id \in D
  <2>1. total(id) = Delta(r.delta, id) + Cardinality(Gained(C, d, id)) - Cardinality(Lost(C, d, id))
    BY <1>4 DEF Gained, Lost
  <2>2. Delta(Requested(d, r, C).delta, id) = total(id)
    <3> HIDE DEF total, D
    <3> QED
      BY <1>1, <1>5 DEF Delta
  <2> QED
    BY <1>2, <1>3, <2>1, <2>2
<1>6. CASE id \notin D
  <2>1. Gained(C, d, id) = {} /\ Lost(C, d, id) = {}
    BY <1>6 DEF Gained, Lost
  <2>2. Cardinality(Gained(C, d, id)) = 0 /\ Cardinality(Lost(C, d, id)) = 0
    BY <2>1, FS_EmptySet
  <2>3. Delta(Requested(d, r, C).delta, id) = 0 /\ Delta(r.delta, id) = 0
    <3>1. id \notin DOMAIN r.delta
      BY <1>6
    <3> HIDE DEF total, D
    <3> QED
      BY <1>1, <1>6, <3>1 DEF Delta
  <2> QED
    BY <1>2, <1>3, <2>2, <2>3
<1> QED
  BY <1>5, <1>6

\* The edges that a full node has or that get entries, the call for each, and
\* the calls by which a counted child gains or loses a reference.
Touched(d, edges, entries) ==
    {x \in (1 .. d) \X KeyParts : x[2] \in DOMAIN edges[x[1]] \cup PartsAt(entries, x[1])}

GainingAt(d, mode, origin, edges, entries, id) ==
    {x \in Touched(d, edges, entries) :
        id \in Gains(d - 1, ChildCall(mode, origin, edges, entries, x[1], x[2]))}

LosingAt(d, mode, origin, edges, entries, id) ==
    {x \in Touched(d, edges, entries) :
        id \in Loses(d - 1, ChildCall(mode, origin, edges, entries, x[1], x[2]))}

LEMMA ChildCallCounts ==
    ASSUME NEW d \in Depths, NEW mode \in {"insert", "remove"}, NEW origin,
           NEW edges, IsEdges(d, edges), NEW entries \in SUBSET Keys(d), NEW id
    PROVE  LET C == ChildCalls(d, mode, origin, edges, entries)
           IN  /\ Cardinality(Gained(C, d - 1, id))
                   = Cardinality(GainingAt(d, mode, origin, edges, entries, id))
               /\ Cardinality(Lost(C, d - 1, id))
                   = Cardinality(LosingAt(d, mode, origin, edges, entries, id))
<1> DEFINE C == ChildCalls(d, mode, origin, edges, entries)
           call(x) == ChildCall(mode, origin, edges, entries, x[1], x[2])
           X == Touched(d, edges, entries)
<1>1. \A x \in X : call(x) \in C
  BY DEF Touched, ChildCalls
<1>2. \A c \in C : <<c.at, c.kp>> \in X /\ c = call(<<c.at, c.kp>>)
  <2> SUFFICES ASSUME NEW c \in C PROVE <<c.at, c.kp>> \in X /\ c = call(<<c.at, c.kp>>)
    OBVIOUS
  <2>1. PICK pos \in 1 .. d : \E kp \in DOMAIN edges[pos] \cup PartsAt(entries, pos) :
          c = ChildCall(mode, origin, edges, entries, pos, kp)
    BY DEF ChildCalls
  <2>2. PICK kp \in DOMAIN edges[pos] \cup PartsAt(entries, pos) :
          c = ChildCall(mode, origin, edges, entries, pos, kp)
    BY <2>1
  <2>3. c.at = pos /\ c.kp = kp
    BY <2>2 DEF ChildCall
  <2>4. kp \in KeyParts
    BY PartsAtType DEF IsEdges, IsMap
  <2>5. <<pos, kp>> \in X
    BY <2>4 DEF Touched
  <2> HIDE DEF X
  <2> QED
    BY <2>2, <2>3, <2>5
<1>3. X \in SUBSET ((1 .. d) \X KeyParts)
  BY DEF Touched
<1>4. \A x \in X : call(x).at = x[1] /\ call(x).kp = x[2] /\ x = <<x[1], x[2]>>
  BY DEF ChildCall, Touched
<1> HIDE DEF C, call, X
<1>5. ASSUME NEW Q \in SUBSET C
      PROVE  Cardinality(Q) = Cardinality({x \in X : call(x) \in Q})
  <2> DEFINE XQ == {x \in X : call(x) \in Q}
  <2>1. XQ \in SUBSET ((1 .. d) \X KeyParts)
    BY <1>3
  <2>2. \A c \in Q : <<c.at, c.kp>> \in XQ
    BY <1>2
  <2>3. \A x \in XQ : \E c \in Q : <<c.at, c.kp>> = x
    <3> SUFFICES ASSUME NEW x \in XQ PROVE \E c \in Q : <<c.at, c.kp>> = x
      OBVIOUS
    <3>1. call(x) \in Q /\ <<call(x).at, call(x).kp>> = x
      BY <1>4
    <3> QED
      BY <3>1
  <2>4. \A c1, c2 \in Q : c1.at = c2.at /\ c1.kp = c2.kp => c1 = c2
    BY <1>2
  <2> HIDE DEF XQ
  <2>5. Cardinality(Q) = Cardinality(XQ)
    BY <2>1, <2>2, <2>3, <2>4, CallsCount
  <2> QED
    BY <2>5 DEF XQ
<1>6. Cardinality(Gained(C, d - 1, id)) = Cardinality({x \in X : id \in Gains(d - 1, call(x))})
  <2>1. {x \in X : call(x) \in Gained(C, d - 1, id)} = {x \in X : id \in Gains(d - 1, call(x))}
    BY <1>1 DEF Gained
  <2>2. Gained(C, d - 1, id) \in SUBSET C
    BY DEF Gained
  <2> QED
    BY <1>5, <2>1, <2>2
<1>7. Cardinality(Lost(C, d - 1, id)) = Cardinality({x \in X : id \in Loses(d - 1, call(x))})
  <2>1. {x \in X : call(x) \in Lost(C, d - 1, id)} = {x \in X : id \in Loses(d - 1, call(x))}
    BY <1>1 DEF Lost
  <2>2. Lost(C, d - 1, id) \in SUBSET C
    BY DEF Lost
  <2> QED
    BY <1>5, <2>1, <2>2
<1>8. /\ {x \in X : id \in Gains(d - 1, call(x))} = GainingAt(d, mode, origin, edges, entries, id)
      /\ {x \in X : id \in Loses(d - 1, call(x))} = LosingAt(d, mode, origin, edges, entries, id)
  BY DEF GainingAt, LosingAt, X, call
<1> QED
  BY <1>6, <1>7, <1>8 DEF C

\* What a call for a child that counts does: it gains the reference of the
\* edge that leads to it afterwards, and loses that of the edge before.
LEMMA ChildCallEffect ==
    ASSUME NEW d \in Depths, NEW mode \in {"insert", "remove"}, NEW origin,
           NEW edges, IsEdges(d, edges), NEW entries \in SUBSET Keys(d),
           NEW id, Counted(d - 1, id), NEW x \in Touched(d, edges, entries)
    PROVE  LET untouched == SubEntries(entries, x[1], x[2]) = {}
               after == UpdatedEdges(d, mode, origin, edges, entries)
           IN  /\ x \in GainingAt(d, mode, origin, edges, entries, id) <=>
                      x \in EdgesTo(d, after, id) /\ (~untouched \/ origin = "copied")
               /\ x \in LosingAt(d, mode, origin, edges, entries, id) <=>
                      x \in EdgesTo(d, edges, id) /\ ~untouched /\ origin = "moved"
               /\ untouched => (x \in EdgesTo(d, after, id) <=> x \in EdgesTo(d, edges, id))
<1> DEFINE pos == x[1]
           kp == x[2]
           sub == SubEntries(entries, pos, kp)
           c == ChildCall(mode, origin, edges, entries, pos, kp)
           after == UpdatedEdges(d, mode, origin, edges, entries)
           old == kp \in DOMAIN edges[pos]
<1>1. pos \in 1 .. d /\ kp \in KeyParts /\ kp \in DOMAIN edges[pos] \cup PartsAt(entries, pos)
      /\ x \in (1 .. d) \X KeyParts
  BY DEF Touched
<1>2. after[pos] = [k \in {y \in DOMAIN edges[pos] \cup PartsAt(entries, pos) :
                             ~empty(Returned(d - 1, ChildCall(mode, origin, edges, entries, pos, y)))}
                       |-> Returned(d - 1, ChildCall(mode, origin, edges, entries, pos, k))]
  BY <1>1 DEF UpdatedEdges
<1>3. id # NoId /\ ~empty(id) /\ ~in_place(d - 1, id)
  BY DEF Counted, empty
<1>4. x \in EdgesTo(d, after, id) <=> kp \in DOMAIN after[pos] /\ after[pos][kp] = id
  BY <1>1 DEF EdgesTo
<1>5. x \in EdgesTo(d, after, id) <=> Returned(d - 1, c) = id
  <2> HIDE DEF after
  <2> QED
    BY <1>1, <1>2, <1>3, <1>4
<1>6. /\ c.source = IF old THEN edges[pos][kp] ELSE NoId
      /\ c.decrement = (origin = "moved")
      /\ c.call = CASE sub = {} -> IF origin = "copied" THEN "keep" ELSE "none"
                    [] sub # {} /\ ~old -> "add"
                    [] OTHER -> mode
  BY DEF ChildCall
<1>7. x \in EdgesTo(d, edges, id) <=> c.source = id
  BY <1>1, <1>3, <1>6 DEF EdgesTo
<1>8. sub = {} => c.source = Returned(d - 1, c)
  BY <1>6 DEF Returned
<1> HIDE DEF c, sub, after
<1>9. id \in Gains(d - 1, c) <=> c.call \in {"add", "insert", "remove", "keep"} /\ Returned(d - 1, c) = id
  BY <1>3 DEF Gains
<1>10. id \in Loses(d - 1, c) <=>
         (c.call = "drop" \/ (c.call \in {"insert", "remove"} /\ c.decrement)) /\ c.source = id
  BY <1>3 DEF Loses
<1>11. c.call \in {"add", "insert", "remove", "keep"} <=> sub # {} \/ origin = "copied"
  BY <1>6
<1>12. (c.source = id) => (c.call \in {"insert", "remove"} <=> sub # {})
  BY <1>3, <1>6
<1>13. c.call # "drop"
  BY <1>6
<1>14. id \in Gains(d - 1, c) <=> x \in EdgesTo(d, after, id) /\ (sub # {} \/ origin = "copied")
  BY <1>5, <1>9, <1>11
<1>15. id \in Loses(d - 1, c) <=> x \in EdgesTo(d, edges, id) /\ sub # {} /\ origin = "moved"
  BY <1>6, <1>7, <1>10, <1>12, <1>13
<1>16. /\ x \in GainingAt(d, mode, origin, edges, entries, id) <=> id \in Gains(d - 1, c)
       /\ x \in LosingAt(d, mode, origin, edges, entries, id) <=> id \in Loses(d - 1, c)
  BY DEF GainingAt, LosingAt, c
<1>17. sub = {} => (x \in EdgesTo(d, after, id) <=> x \in EdgesTo(d, edges, id))
  BY <1>5, <1>7, <1>8
<1> QED
  BY <1>14, <1>15, <1>16, <1>17 DEF sub, after

\* No edge leads to a counted node but from a touched position.
LEMMA EdgesTouched ==
    ASSUME NEW d \in Depths, NEW mode, NEW origin, NEW edges, NEW entries,
           NEW id, Counted(d - 1, id)
    PROVE  LET after == UpdatedEdges(d, mode, origin, edges, entries)
               X == Touched(d, edges, entries)
           IN  EdgesTo(d, after, id) \subseteq X /\ EdgesTo(d, edges, id) \subseteq X
<1> DEFINE after == UpdatedEdges(d, mode, origin, edges, entries)
<1>1. \A pos \in 1 .. d : DOMAIN after[pos] \subseteq DOMAIN edges[pos] \cup PartsAt(entries, pos)
  BY DEF UpdatedEdges
<1> HIDE DEF after
<1>2. EdgesTo(d, after, id) \subseteq Touched(d, edges, entries)
  BY <1>1 DEF EdgesTo, Touched
<1>3. EdgesTo(d, edges, id) \subseteq Touched(d, edges, entries)
  BY DEF EdgesTo, Touched
<1> QED
  BY <1>2, <1>3 DEF after

\* A node that is created or copied adds its edges.
LEMMA NewNodeCalls ==
    ASSUME NEW d \in Depths, NEW mode \in {"insert", "remove"}, NEW origin,
           NEW edges, IsEdges(d, edges), NEW entries \in SUBSET Keys(d),
           origin = "copied" \/ (origin = "created" /\ edges = NoEdges(d)),
           NEW id, Counted(d - 1, id)
    PROVE  LET C == ChildCalls(d, mode, origin, edges, entries)
               after == UpdatedEdges(d, mode, origin, edges, entries)
           IN  /\ Cardinality(Gained(C, d - 1, id)) = Cardinality(EdgesTo(d, after, id))
               /\ Cardinality(Lost(C, d - 1, id)) = 0
<1> DEFINE C == ChildCalls(d, mode, origin, edges, entries)
           after == UpdatedEdges(d, mode, origin, edges, entries)
           X == Touched(d, edges, entries)
<1>1. \A x \in X : SubEntries(entries, x[1], x[2]) # {} \/ origin = "copied"
  <2> SUFFICES ASSUME NEW x \in X, origin = "created" PROVE SubEntries(entries, x[1], x[2]) # {}
    OBVIOUS
  <2>1. x[1] \in 1 .. d /\ x[2] \in DOMAIN edges[x[1]] \cup PartsAt(entries, x[1])
    BY DEF Touched
  <2>2. DOMAIN edges[x[1]] = {}
    BY <2>1 DEF NoEdges, EmptyMap
  <2>3. x[2] \in PartsAt(entries, x[1])
    BY <2>1, <2>2
  <2> QED
    BY <2>3, SubEntriesEmpty
<1>2. ASSUME NEW x \in X
      PROVE  /\ x \in GainingAt(d, mode, origin, edges, entries, id) <=> x \in EdgesTo(d, after, id)
             /\ x \notin LosingAt(d, mode, origin, edges, entries, id)
  BY <1>1, ChildCallEffect
<1>3. EdgesTo(d, after, id) \subseteq X
  BY EdgesTouched
<1>4. /\ GainingAt(d, mode, origin, edges, entries, id) \subseteq X
      /\ LosingAt(d, mode, origin, edges, entries, id) \subseteq X
  BY DEF GainingAt, LosingAt
<1> HIDE DEF C, after, X
<1>5. /\ GainingAt(d, mode, origin, edges, entries, id) = EdgesTo(d, after, id)
      /\ LosingAt(d, mode, origin, edges, entries, id) = {}
  BY <1>2, <1>3, <1>4
<1> QED
  BY <1>5, ChildCallCounts, FS_EmptySet DEF C, after

\* A node that is moved exchanges its edges; the edges that the update does
\* not touch keep their references.
LEMMA MovedNodeCalls ==
    ASSUME NEW d \in Depths, NEW mode \in {"insert", "remove"},
           NEW edges, IsEdges(d, edges), NEW entries \in SUBSET Keys(d),
           NEW id, Counted(d - 1, id)
    PROVE  LET C == ChildCalls(d, mode, "moved", edges, entries)
               after == UpdatedEdges(d, mode, "moved", edges, entries)
           IN  Cardinality(Gained(C, d - 1, id)) - Cardinality(Lost(C, d - 1, id))
               = Cardinality(EdgesTo(d, after, id)) - Cardinality(EdgesTo(d, edges, id))
<1> DEFINE C == ChildCalls(d, mode, "moved", edges, entries)
           after == UpdatedEdges(d, mode, "moved", edges, entries)
           X == Touched(d, edges, entries)
           A == EdgesTo(d, after, id)
           B == EdgesTo(d, edges, id)
           U == {x \in X : SubEntries(entries, x[1], x[2]) = {}}
           G == GainingAt(d, mode, "moved", edges, entries, id)
           L == LosingAt(d, mode, "moved", edges, entries, id)
<1>1. ASSUME NEW x \in X
      PROVE  /\ x \in G <=> x \in A /\ SubEntries(entries, x[1], x[2]) # {}
             /\ x \in L <=> x \in B /\ SubEntries(entries, x[1], x[2]) # {}
             /\ SubEntries(entries, x[1], x[2]) = {} => (x \in A <=> x \in B)
  <2>1. x \in G <=> x \in A /\ (SubEntries(entries, x[1], x[2]) # {} \/ "moved" = "copied")
    BY ChildCallEffect
  <2>2. x \in L <=> x \in B /\ SubEntries(entries, x[1], x[2]) # {} /\ "moved" = "moved"
    BY ChildCallEffect
  <2>3. SubEntries(entries, x[1], x[2]) = {} => (x \in A <=> x \in B)
    BY ChildCallEffect
  <2> HIDE DEF U, A, B, G, L
  <2> QED
    BY <2>1, <2>2, <2>3
<1>2. A \subseteq X /\ B \subseteq X
  BY EdgesTouched
<1>3. IsFiniteSet(A) /\ IsFiniteSet(B) /\ Cardinality(A) \in Nat /\ Cardinality(B) \in Nat
  BY EdgePositionsFinite, FS_CardinalityType DEF EdgesTo
<1>4. Cardinality(Gained(C, d - 1, id)) = Cardinality(G) /\ Cardinality(Lost(C, d - 1, id)) = Cardinality(L)
  BY ChildCallCounts
<1>5. G \subseteq X /\ L \subseteq X
  BY DEF GainingAt, LosingAt
<1>6. \A x \in X : x \in U <=> SubEntries(entries, x[1], x[2]) = {}
  OBVIOUS
<1> HIDE DEF C, after, X, A, B, U, G, L
<1>7. G = A \ U /\ L = B \ U /\ A \cap U = B \cap U
  BY <1>1, <1>2, <1>5, <1>6
<1>8. /\ Cardinality(A \ U) = Cardinality(A) - Cardinality(A \cap U)
      /\ Cardinality(B \ U) = Cardinality(B) - Cardinality(B \cap U)
  BY <1>3, FS_Difference
<1>9. Cardinality(A \cap U) \in Nat /\ Cardinality(A \cap U) = Cardinality(B \cap U)
  BY <1>3, <1>7, FS_Intersection, FS_CardinalityType
<1>10. Cardinality(A \ U) - Cardinality(B \ U) = Cardinality(A) - Cardinality(B)
  BY <1>3, <1>8, <1>9
<1> QED
  BY <1>4, <1>7, <1>10 DEF C, A, B, after

\* A node that is deleted takes its edges away.
LEMMA DroppedNodeCalls ==
    ASSUME NEW d \in Depths, NEW edges, IsEdges(d, edges), NEW id, Counted(d - 1, id)
    PROVE  LET C == DropCalls(d, edges)
           IN  /\ Cardinality(Gained(C, d - 1, id)) = 0
               /\ Cardinality(Lost(C, d - 1, id)) = Cardinality(EdgesTo(d, edges, id))
<1> DEFINE C == DropCalls(d, edges)
           call(x) == [at |-> x[1], kp |-> x[2], call |-> "drop", source |-> edges[x[1]][x[2]],
                       entries |-> {}, decrement |-> TRUE]
           S == EdgesTo(d, edges, id)
           L == Lost(C, d - 1, id)
<1>1. \A c \in C : \E pos \in 1 .. d : \E kp \in DOMAIN edges[pos] :
         c = [at |-> pos, kp |-> kp, call |-> "drop", source |-> edges[pos][kp],
              entries |-> {}, decrement |-> TRUE]
  BY DEF DropCalls
<1>2. \A c \in C : /\ c.at \in 1 .. d /\ c.kp \in DOMAIN edges[c.at] /\ c.kp \in KeyParts
                   /\ c = call(<<c.at, c.kp>>) /\ c.call = "drop" /\ c.source = edges[c.at][c.kp]
  BY <1>1 DEF IsEdges, IsMap
<1>3. \A x \in S : call(x) \in C /\ call(x).source = id /\ call(x).at = x[1] /\ call(x).kp = x[2]
                   /\ x = <<x[1], x[2]>>
  <2> SUFFICES ASSUME NEW x \in S
               PROVE  call(x) \in C /\ call(x).source = id /\ call(x).at = x[1] /\ call(x).kp = x[2]
                      /\ x = <<x[1], x[2]>>
    OBVIOUS
  <2>1. x[1] \in 1 .. d /\ x[2] \in DOMAIN edges[x[1]] /\ edges[x[1]][x[2]] = id /\ x = <<x[1], x[2]>>
    BY DEF EdgesTo
  <2>2. call(x).source = id /\ call(x).at = x[1] /\ call(x).kp = x[2]
    BY <2>1
  <2>3. call(x) \in C
    <3>1. call(x) \in {[at |-> x[1], kp |-> kp, call |-> "drop", source |-> edges[x[1]][kp],
                       entries |-> {}, decrement |-> TRUE] : kp \in DOMAIN edges[x[1]]}
      BY <2>1
    <3> HIDE DEF call
    <3> QED
      BY <2>1, <3>1 DEF DropCalls
  <2> QED
    BY <2>1, <2>2, <2>3
<1>4. S \in SUBSET ((1 .. d) \X KeyParts)
  BY DEF EdgesTo
<1>5. ~in_place(d - 1, id)
  BY DEF Counted
<1>6. \A c \in C : <<c.at, c.kp>> \in S <=> c.source = id
  <2> HIDE DEF C, call
  <2> QED
    BY <1>2 DEF EdgesTo
<1> HIDE DEF C, call, S
<1>7. \A c \in C : (id \in Loses(d - 1, c) <=> c.source = id) /\ id \notin Gains(d - 1, c)
  BY <1>2, <1>5 DEF Loses, Gains
<1>8. \A c \in L : <<c.at, c.kp>> \in S
  BY <1>6, <1>7 DEF Lost
<1>9. \A x \in S : \E c \in L : <<c.at, c.kp>> = x
  <2> SUFFICES ASSUME NEW x \in S PROVE \E c \in L : <<c.at, c.kp>> = x
    OBVIOUS
  <2>1. call(x) \in L /\ <<call(x).at, call(x).kp>> = x
    BY <1>3, <1>7 DEF Lost
  <2> QED
    BY <2>1
<1>10. \A c1, c2 \in L : c1.at = c2.at /\ c1.kp = c2.kp => c1 = c2
  BY <1>2 DEF Lost
<1>11. Cardinality(L) = Cardinality(S)
  <2> HIDE DEF L
  <2> QED
    BY <1>4, <1>8, <1>9, <1>10, CallsCount
<1>12. Gained(C, d - 1, id) = {}
  BY <1>7 DEF Gained
<1> QED
  BY <1>11, <1>12, FS_EmptySet DEF S, C

-----------------------------------------------------------------------------
(* Storage and referrers.                                                  *)

LEMMA ParentEdgesInto ==
    ASSUME NEW d \in Depths, NEW id
    PROVE  /\ d = MaxDepth => ParentEdges(d, id) = {}
           /\ d # MaxDepth => d + 1 \in Depths /\ ParentEdges(d, id) = EdgesInto(d + 1, fns[d + 1], id)
BY MaxDepthAssumption DEF ParentEdges, EdgesInto, Depths

\* Counts are numbers.
LEMMA CountTypes ==
    ASSUME TypeOK, LiveInv, NEW d \in Depths, NEW id, id # NoId
    PROVE  /\ Stored(d, id) \in Int
           /\ IsFiniteSet(Holders(d, id)) /\ Cardinality(Holders(d, id)) \in Nat
           /\ IsFiniteSet(ParentEdges(d, id)) /\ Cardinality(ParentEdges(d, id)) \in Nat
           /\ Referrers(d, id) \in Nat
<1>1. Stored(d, id) \in Int
  BY DEF TypeOK, StorageOK, IsFullNode, IsMap, SingleEntryNodes, Stored
<1>2. Holders(d, id) \subseteq live
  <2>1. ~Idle => op.handle \in live
    BY MidUpdate DEF OperationOK
  <2> QED
    BY <2>1 DEF Holders, Held, LiveInv
<1>3. IsFiniteSet(Holders(d, id)) /\ Cardinality(Holders(d, id)) \in Nat
  BY <1>2, FS_Subset, FS_CardinalityType DEF LiveInv
<1>4. IsFiniteSet(ParentEdges(d, id)) /\ Cardinality(ParentEdges(d, id)) \in Nat
  <2>1. CASE d = MaxDepth
    <3>1. ParentEdges(d, id) = {}
      BY <2>1, ParentEdgesInto
    <3>2. IsFiniteSet({}) /\ Cardinality({}) = 0
      BY FS_EmptySet
    <3> QED
      BY <3>1, <3>2
  <2>2. CASE d # MaxDepth
    <3>1. d + 1 \in Depths /\ ParentEdges(d, id) = EdgesInto(d + 1, fns[d + 1], id)
      BY <2>2, ParentEdgesInto
    <3>2. DOMAIN fns[d + 1] \subseteq RawIdentifiers(d + 1)
      BY <3>1 DEF TypeOK, StorageOK
    <3> QED
      BY <3>1, <3>2, EdgesFinite
  <2> QED
    BY <2>1, <2>2
<1> QED
  BY <1>1, <1>3, <1>4 DEF Referrers

\* The parents of a depth are unchanged if the full nodes above are.
LEMMA ParentEdgesSame ==
    ASSUME NEW d \in Depths, NEW id,
           d # MaxDepth => EdgesInto(d + 1, fns'[d + 1], id) = EdgesInto(d + 1, fns[d + 1], id)
    PROVE  ParentEdges(d, id)' = ParentEdges(d, id)
<1>1. CASE d = MaxDepth
  BY <1>1 DEF ParentEdges
<1>2. CASE d # MaxDepth
  <2>1. ParentEdges(d, id) = EdgesInto(d + 1, fns[d + 1], id)
    BY <1>2 DEF ParentEdges, EdgesInto
  <2>2. ParentEdges(d, id)' = EdgesInto(d + 1, fns'[d + 1], id)
    BY <1>2 DEF ParentEdges, EdgesInto
  <2> QED
    BY <1>2, <2>1, <2>2
<1> QED
  BY <1>1, <1>2

\* Deltas are numbers, and during an update so are the planned counts.
LEMMA PlannedTypes ==
    ASSUME TypeOK, LiveInv, NEW d \in Depths, NEW id, id # NoId
    PROVE  /\ Planned(d, id) \in Int
           /\ ~Idle => Delta(plan.delta, id) \in Int /\ Left(id) \in Int
           /\ ~Idle /\ lvl > 1 => Delta(child.delta, id) \in Int
<1>1. Stored(d, id) \in Int
  BY CountTypes
<1>2. ~Idle => Delta(plan.delta, id) \in Int /\ Left(id) \in Int
  BY MidUpdate DEF IsPlan, IsMap, Delta, Left
<1>3. ~Idle /\ lvl > 1 => Delta(child.delta, id) \in Int
  BY MidUpdate DEF IsRequests, IsMap, Delta
<1>4. d = lvl => ~Idle
  BY DEF Depths, Idle
<1>5. d = lvl - 1 => ~Idle /\ lvl > 1
  BY DEF Depths, Idle, TypeOK, UpdateOK
<1> QED
  BY <1>1, <1>2, <1>3, <1>4, <1>5 DEF Planned

\* A step of the plan preserves the balance if it leaves the planned counts of
\* its level alone, and collects for the level below what its edges change.
LEMMA ExecuteCounts ==
    ASSUME TypeOK, CountInv, ~Idle,
           UNCHANGED <<sens, nodec, live, assigned, op, lvl>>,
           \A d \in Depths \ {lvl} : fns'[d] = fns[d],
           \A id \in RawIdentifiers(lvl) : Counted(lvl, id) => Planned(lvl, id)' = Planned(lvl, id),
           DOMAIN fns'[lvl] \subseteq RawIdentifiers(lvl),
           lvl > 1 => \A id \in RawIdentifiers(lvl - 1) : Counted(lvl - 1, id) =>
               Delta(child'.delta, id) = Delta(child.delta, id)
                   + Cardinality(EdgesInto(lvl, fns'[lvl], id)) - Cardinality(EdgesInto(lvl, fns[lvl], id))
    PROVE  RefInv'
<1> SUFFICES ASSUME NEW d \in Depths, NEW id \in RawIdentifiers(d), Counted(d, id)
             PROVE  /\ Planned(d, id)' >= Referrers(d, id)'
                    /\ assigned' = 0 => Planned(d, id)' = Referrers(d, id)'
  BY DEF RefInv, Counted, in_place, empty
<1>0. id # NoId /\ lvl \in Depths /\ lvl' = lvl /\ assigned' = assigned
  BY MidUpdate DEF Counted, empty
<1>1. /\ Planned(d, id) >= Referrers(d, id)
      /\ assigned = 0 => Planned(d, id) = Referrers(d, id)
  BY DEF CountInv, RefInv
<1>2. Holders(d, id)' = Holders(d, id)
  BY DEF Holders, Held, Idle
<1>3. /\ Planned(d, id) \in Int /\ Stored(d, id) \in Int /\ Cardinality(ParentEdges(d, id)) \in Nat
      /\ Cardinality(Holders(d, id)) \in Nat
  BY <1>0, CountTypes, PlannedTypes DEF CountInv
<1>4. CASE d # lvl - 1
  <2>1. ParentEdges(d, id)' = ParentEdges(d, id)
    <3>1. d # MaxDepth => d + 1 \in Depths \ {lvl}
      BY <1>0, <1>4, MaxDepthAssumption DEF Depths
    <3> QED
      BY <3>1, ParentEdgesSame
  <2>2. Planned(d, id)' = Planned(d, id)
    <3>1. CASE d = lvl
      BY <3>1
    <3>2. CASE d # lvl
      <4>1. Stored(d, id)' = Stored(d, id)
        BY <3>2 DEF Stored
      <4> QED
        BY <1>0, <1>4, <3>2, <4>1 DEF Planned
    <3> QED
      BY <3>1, <3>2
  <2> QED
    BY <1>0, <1>1, <1>2, <2>1, <2>2 DEF Referrers
<1>5. CASE d = lvl - 1
  <2>0. lvl > 1 /\ d # MaxDepth /\ d + 1 = lvl /\ d # lvl
    BY <1>0, <1>5 DEF Depths
  <2>1. ParentEdges(d, id) = EdgesInto(lvl, fns[lvl], id)
    BY <2>0 DEF ParentEdges, EdgesInto
  <2>2. ParentEdges(d, id)' = EdgesInto(lvl, fns'[lvl], id)
    BY <2>0 DEF ParentEdges, EdgesInto
  <2>3. Cardinality(EdgesInto(lvl, fns'[lvl], id)) \in Nat
    BY <1>0, EdgesFinite
  <2>4. Stored(d, id)' = Stored(d, id)
    BY <2>0 DEF Stored
  <2>5. Planned(d, id) = Stored(d, id) + Delta(child.delta, id)
    BY <1>5, <2>0 DEF Planned
  <2>6. Planned(d, id)' = Stored(d, id) + Delta(child'.delta, id)
    BY <1>0, <1>5, <2>0, <2>4 DEF Planned
  <2>7. Delta(child.delta, id) \in Int
    BY <1>0, <2>0, PlannedTypes DEF CountInv
  <2>8. Delta(child'.delta, id) = Delta(child.delta, id)
           + Cardinality(ParentEdges(d, id)') - Cardinality(ParentEdges(d, id))
    BY <1>5, <2>0, <2>1, <2>2
  <2>9. Planned(d, id)' = Planned(d, id)
           + Cardinality(ParentEdges(d, id)') - Cardinality(ParentEdges(d, id))
    BY <1>3, <2>2, <2>3, <2>5, <2>6, <2>7, <2>8
  <2>10. Referrers(d, id)' = Referrers(d, id)
           + Cardinality(ParentEdges(d, id)') - Cardinality(ParentEdges(d, id))
    BY <1>2, <1>3, <2>2, <2>3 DEF Referrers
  <2>11. Referrers(d, id) \in Int /\ Cardinality(ParentEdges(d, id)') \in Nat
    BY <1>3, <2>2, <2>3 DEF Referrers
  <2> QED
    BY <1>0, <1>1, <1>3, <2>9, <2>10, <2>11
<1> QED
  BY <1>4, <1>5

-----------------------------------------------------------------------------
(* The steps of the plan.                                                  *)

\* Calls request nothing for entries that live in their identifier.
LEMMA RequestedInPlace ==
    ASSUME NEW d, NEW r, NEW C, \A x \in DOMAIN r.delta : ~in_place(d, x)
    PROVE  \A x \in DOMAIN Requested(d, r, C).delta : ~in_place(d, x)
<1> DEFINE gained == UNION {Gains(d, c) : c \in C}
           lost   == UNION {Loses(d, c) : c \in C}
           count(id) == IF id \in DOMAIN r.delta THEN r.delta[id] ELSE 0
           total(id) == count(id) + Cardinality({c \in C : id \in Gains(d, c)})
                                  - Cardinality({c \in C : id \in Loses(d, c)})
<1>1. Requested(d, r, C).delta = [id \in DOMAIN r.delta \cup gained \cup lost |-> total(id)]
  BY DEF Requested
<1>2. \A c \in C : \A x \in Gains(d, c) \cup Loses(d, c) : ~in_place(d, x)
  BY DEF Gains, Loses
<1>3. \A x \in gained \cup lost : ~in_place(d, x)
  BY <1>2
<1> HIDE DEF total, gained, lost
<1>4. DOMAIN Requested(d, r, C).delta = DOMAIN r.delta \cup gained \cup lost
  BY <1>1
<1> QED
  BY <1>3, <1>4

\* What the calls for the children of a node change in the child requests.
LEMMA CollectedDelta ==
    ASSUME TypeOK, ~Idle, NEW C, IsFiniteSet(C), ApplyToChildren(lvl, C), NEW id
    PROVE  /\ lvl > 1 =>
               /\ Delta(child'.delta, id) = Delta(child.delta, id)
                      + Cardinality(Gained(C, lvl - 1, id)) - Cardinality(Lost(C, lvl - 1, id))
               /\ Delta(child.delta, id) \in Int
               /\ Cardinality(Gained(C, lvl - 1, id)) \in Nat /\ Cardinality(Lost(C, lvl - 1, id)) \in Nat
           /\ CountInv => \A x \in DOMAIN child'.delta : ~in_place(lvl - 1, x)
<1>1. CASE lvl > 1
  <2>1. child' = Requested(lvl - 1, child, C) /\ IsRequests(lvl - 1, child)
    BY <1>1, MidUpdate DEF ApplyToChildren
  <2>6. CountInv => \A x \in DOMAIN child'.delta : ~in_place(lvl - 1, x)
    BY <2>1, RequestedInPlace DEF CountInv, InPlaceInv
  <2> QED
    BY <2>1, <2>6, RequestedDelta
<1>2. CASE ~(lvl > 1)
  <2>1. child' = child
    BY <1>2, MidUpdate DEF ApplyToChildren, Depths
  <2> QED
    BY <1>2, <2>1 DEF CountInv, InPlaceInv
<1> QED
  BY <1>1, <1>2

\* Placing nodes with their new count and taking nodes away that the plan ends
\* leaves the balance alone.
LEMMA ReplaceNodes ==
    ASSUME TypeOK, CountInv, ~Idle,
           NEW placed \in SUBSET DOMAIN plan.delta, \A t \in placed : is_fn(t) /\ t \notin DOMAIN fns[lvl],
           NEW gone \in SUBSET Ending,
           UNCHANGED <<sens, nodec, live, assigned, op, lvl>>,
           \A d \in Depths \ {lvl} : fns'[d] = fns[d],
           DOMAIN fns'[lvl] = (DOMAIN fns[lvl] \ gone) \cup placed,
           \A id \in DOMAIN fns[lvl] \ gone : fns'[lvl][id] = fns[lvl][id],
           \A t \in placed : fns'[lvl][t].ref = plan.delta[t],
           plan'.delta = plan.delta,
           plan.done \cup placed \subseteq plan'.done,
           plan'.done \subseteq plan.done \cup gone \cup placed,
           Ending' \cup gone = Ending,
           plan'.create \subseteq plan.create \ placed,
           \A x \in DOMAIN child'.delta : ~in_place(lvl - 1, x),
           lvl > 1 => \A id \in RawIdentifiers(lvl - 1) : Counted(lvl - 1, id) =>
               Delta(child'.delta, id) = Delta(child.delta, id)
                   + Cardinality(EdgesInto(lvl, fns'[lvl], id)) - Cardinality(EdgesInto(lvl, fns[lvl], id))
    PROVE  CountInv'
<1>0. lvl \in Depths /\ lvl' = lvl /\ ~Idle' /\ lvl # lvl - 1
  BY MidUpdate DEF Idle, Depths
<1>1. /\ \A id \in DOMAIN plan.delta : plan.delta[id] # 0 /\ id \notin Ending
      /\ \A id \in plan.done : id \in DOMAIN fns[lvl] \/ id \notin DOMAIN plan.delta
      /\ plan.create \cap DOMAIN fns[lvl] = {}
  BY DEF CountInv, PlanInv
<1>2. \A id \in DOMAIN plan.delta : plan.delta[id] \in Int /\ id \in RawIdentifiers(lvl)
  BY MidUpdate DEF IsPlan, IsMap
<1>3. ASSUME NEW t \in placed
      PROVE  t \notin Ending /\ t \notin plan.done /\ Stored(lvl, t) = 0 /\ Planned(lvl, t) = plan.delta[t]
  <2>1. t \notin Ending /\ t \notin plan.done /\ is_fn(t) /\ t \in DOMAIN plan.delta
    BY <1>1
  <2>2. Stored(lvl, t) = 0 /\ Left(t) = plan.delta[t]
    BY <2>1 DEF Stored, Left, Delta
  <2> QED
    BY <1>2, <2>1, <2>2 DEF Planned
<1>4. ASSUME NEW id \in RawIdentifiers(lvl), Counted(lvl, id)
      PROVE  Planned(lvl, id)' = Planned(lvl, id)
  <2>0. Stored(lvl, id) \in Int /\ Left(id) \in Int
    <3>1. id # NoId /\ LiveInv
      BY <1>4 DEF CountInv, Counted, empty
    <3> QED
      BY <1>0, <3>1, CountTypes, PlannedTypes
  <2>1. CASE ~is_fn(id)
    BY <2>1, <1>0 DEF Planned, Stored, Left
  <2>2. CASE is_fn(id) /\ id \in Ending
    <3>1. Planned(lvl, id) = 0
      BY <2>2 DEF Planned
    <3>2. id \notin DOMAIN plan.delta /\ id \notin placed
      BY <1>1, <2>2
    <3>3. id \in gone => Stored(lvl, id)' = 0
      BY <1>0, <2>2, <3>2 DEF Stored
    <3>4. Left(id)' = 0
      BY <2>2, <3>2 DEF Left, Delta
    <3>5. id \in Ending' \/ id \in gone
      BY <2>2
    <3> QED
      BY <1>0, <2>2, <3>1, <3>3, <3>4, <3>5 DEF Planned
  <2>3. CASE is_fn(id) /\ id \notin Ending /\ id \in placed
    <3>1. Stored(lvl, id)' = plan.delta[id] /\ Left(id)' = 0
      BY <1>0, <2>3 DEF Stored, Left
    <3>2. id \notin Ending'
      BY <2>3
    <3> QED
      BY <1>0, <1>2, <1>3, <2>3, <3>1, <3>2 DEF Planned
  <2>4. CASE is_fn(id) /\ id \notin Ending /\ id \notin placed
    <3>1. Stored(lvl, id)' = Stored(lvl, id)
      BY <1>0, <2>4 DEF Stored
    <3>2. id \in plan'.done <=> id \in plan.done
      BY <2>4
    <3>3. Left(id)' = Left(id) /\ id \notin Ending'
      BY <2>4, <3>2 DEF Left
    <3> QED
      BY <1>0, <2>4, <3>1, <3>3 DEF Planned
  <2> QED
    BY <2>1, <2>2, <2>3, <2>4
<1>5. RefInv'
  <2>1. DOMAIN fns'[lvl] \subseteq RawIdentifiers(lvl)
    BY <1>0, <1>2 DEF TypeOK, StorageOK
  <2> QED
    BY <1>4, <2>1, ExecuteCounts
<1>6. PlanInv'
  <2>1. \A id \in DOMAIN plan'.delta : plan'.delta[id] # 0 /\ id \notin Ending'
    BY <1>1
  <2>2. \A id \in plan'.done : id \in DOMAIN fns'[lvl] \/ id \notin DOMAIN plan'.delta
    BY <1>1
  <2>3. plan'.create \cap DOMAIN fns'[lvl] = {}
    BY <1>1
  <2> QED
    BY <1>0, <2>1, <2>2, <2>3 DEF PlanInv
<1>7. PositiveInv'
  <2>1. ASSUME NEW t \in placed PROVE fns'[lvl][t].ref > 0
    <3>1. t \in RawIdentifiers(lvl) /\ Counted(lvl, t) /\ t # NoId
      BY <1>2 DEF Counted, in_place, is_fn, is_sen, empty
    <3>2. Planned(lvl, t) >= Referrers(lvl, t) /\ Referrers(lvl, t) \in Nat
      BY <1>0, <3>1, CountTypes DEF CountInv, RefInv
    <3>3. plan.delta[t] # 0 /\ plan.delta[t] \in Int
      BY <1>1, <1>2
    <3> QED
      BY <1>3, <3>2, <3>3
  <2>2. \A id \in DOMAIN fns'[lvl] : fns'[lvl][id].ref > 0
    BY <1>0, <2>1 DEF CountInv, PositiveInv
  <2>3. \A d \in Depths : \A id \in DOMAIN fns'[d] : fns'[d][id].ref > 0
    BY <2>2 DEF CountInv, PositiveInv
  <2> QED
    BY <2>3 DEF CountInv, PositiveInv
<1>8. InPlaceInv'
  BY <1>0 DEF CountInv, InPlaceInv
<1>9. LiveInv'
  BY <1>0 DEF CountInv, LiveInv
<1> QED
  BY <1>5, <1>6, <1>7, <1>8, <1>9 DEF CountInv

\* A node that is created or copied: the child requests follow its edges.
LEMMA NewNodeBalance ==
    ASSUME TypeOK, ~Idle, lvl > 1,
           NEW mode \in {"insert", "remove"}, NEW origin, NEW edges, IsEdges(lvl, edges),
           NEW entries \in SUBSET Keys(lvl),
           origin = "copied" \/ (origin = "created" /\ edges = NoEdges(lvl)),
           ApplyToChildren(lvl, ChildCalls(lvl, mode, origin, edges, entries)),
           NEW t \in RawIdentifiers(lvl), t \notin DOMAIN fns[lvl],
           DOMAIN fns'[lvl] = DOMAIN fns[lvl] \cup {t},
           \A x \in DOMAIN fns[lvl] : fns'[lvl][x] = fns[lvl][x],
           fns'[lvl][t].edges = UpdatedEdges(lvl, mode, origin, edges, entries),
           NEW id, Counted(lvl - 1, id)
    PROVE  Delta(child'.delta, id) = Delta(child.delta, id)
               + Cardinality(EdgesInto(lvl, fns'[lvl], id)) - Cardinality(EdgesInto(lvl, fns[lvl], id))
<1> DEFINE C == ChildCalls(lvl, mode, origin, edges, entries)
           after == UpdatedEdges(lvl, mode, origin, edges, entries)
<1>1. lvl \in Depths /\ DOMAIN fns[lvl] \subseteq RawIdentifiers(lvl)
  BY MidUpdate DEF AreFullNodes
<1>2. IsFiniteSet(C)
  BY <1>1, ChildCallsType
<1>3. /\ Cardinality(Gained(C, lvl - 1, id)) = Cardinality(EdgesTo(lvl, after, id))
      /\ Cardinality(Lost(C, lvl - 1, id)) = 0
  BY <1>1, NewNodeCalls
<1> HIDE DEF C, after
<1>4. /\ Cardinality(EdgesTo(lvl, after, id)) \in Nat
      /\ Cardinality(EdgesInto(lvl, fns'[lvl], id)) =
           Cardinality(EdgesInto(lvl, fns[lvl], id)) + Cardinality(EdgesTo(lvl, after, id))
  <2>1. DOMAIN fns'[lvl] \subseteq RawIdentifiers(lvl) /\ Extended(fns[lvl], t, fns'[lvl])
    BY <1>1 DEF Extended
  <2>2. fns'[lvl][t].edges = after
    BY DEF after
  <2> QED
    BY <1>1, <2>1, <2>2, EdgesSplit
<1>5. Cardinality(EdgesInto(lvl, fns[lvl], id)) \in Nat
  BY <1>1, EdgesFinite
<1>6. /\ Delta(child'.delta, id) = Delta(child.delta, id)
             + Cardinality(Gained(C, lvl - 1, id)) - Cardinality(Lost(C, lvl - 1, id))
      /\ Delta(child.delta, id) \in Int
  BY <1>2, CollectedDelta DEF C
<1> QED
  BY <1>3, <1>4, <1>5, <1>6

LEMMA create_fnCounts ==
    ASSUME TypeOK, CanonicalInv, CountInv, ~Idle, NEW t \in plan.create, create_fn(t)
    PROVE  CountInv'
<1>1. PICK c \in plan.request.creation :
        /\ c.id = t
        /\ fns' = [fns EXCEPT ![lvl] =
                     With(@, t, UpdatedNode(lvl, "insert", "created", plan.delta[t],
                                            0, NoEdges(lvl), c.entries))]
        /\ ApplyToChildren(lvl, ChildCalls(lvl, "insert", "created", NoEdges(lvl), c.entries))
  BY DEF create_fn
<1> DEFINE n == UpdatedNode(lvl, "insert", "created", plan.delta[t], 0, NoEdges(lvl), c.entries)
<1>2. lvl \in Depths /\ c.entries \in SUBSET Keys(lvl) /\ t \in RawIdentifiers(lvl)
  BY MidUpdate DEF IsPlan, IsRequests, Creations
<1>3. is_fn(t)
  <2>1. t = RawIdentifier(c.entries) /\ Cardinality(c.entries) > 1
    BY <1>1, MidCanonical DEF HonestRequests
  <2> QED
    BY <1>2, <2>1, RawIdentifierFacts DEF Depths
<1>4. t \in DOMAIN plan.delta /\ t \notin DOMAIN fns[lvl]
  BY DEF create_fn, CountInv, PlanInv
<1>5. fns'[lvl] = With(fns[lvl], t, n) /\ \A d \in Depths \ {lvl} : fns'[d] = fns[d]
  BY <1>1, <1>2 DEF TypeOK, StorageOK
<1>6. n.ref = plan.delta[t] /\ n.edges = UpdatedEdges(lvl, "insert", "created", NoEdges(lvl), c.entries)
  BY DEF UpdatedNode
<1> HIDE DEF n
<1>7. /\ DOMAIN fns'[lvl] = DOMAIN fns[lvl] \cup {t} /\ fns'[lvl][t] = n
      /\ \A x \in DOMAIN fns[lvl] : fns'[lvl][x] = fns[lvl][x]
  BY <1>4, <1>5 DEF With
<1>8. IsEdges(lvl, NoEdges(lvl)) /\ IsFiniteSet(ChildCalls(lvl, "insert", "created", NoEdges(lvl), c.entries))
  BY <1>2, NoEdgesType, ChildCallsType
<1>9. lvl > 1 => \A id \in RawIdentifiers(lvl - 1) : Counted(lvl - 1, id) =>
               Delta(child'.delta, id) = Delta(child.delta, id)
                   + Cardinality(EdgesInto(lvl, fns'[lvl], id)) - Cardinality(EdgesInto(lvl, fns[lvl], id))
  BY <1>1, <1>2, <1>4, <1>6, <1>7, <1>8, NewNodeBalance
<1>10. \A x \in DOMAIN child'.delta : ~in_place(lvl - 1, x)
  BY <1>1, <1>8, CollectedDelta
<1>11. plan' = [plan EXCEPT !.create = @ \ {t}, !.done = @ \cup {t}]
       /\ UNCHANGED <<sens, nodec, live, assigned, op, lvl>>
  BY DEF create_fn
<1>12. /\ plan'.delta = plan.delta /\ plan'.done = plan.done \cup {t}
       /\ plan'.create = plan.create \ {t} /\ Ending' = Ending
  BY <1>11, MidUpdate DEF IsPlan, Ending
<1> QED
  <2>1. {t} \in SUBSET DOMAIN plan.delta /\ {} \in SUBSET Ending
    BY <1>4
  <2> QED
    BY <1>3, <1>4, <1>5, <1>6, <1>7, <1>9, <1>10, <1>11, <1>12, <2>1, ReplaceNodes

LEMMA copy_updateCounts ==
    ASSUME TypeOK, CanonicalInv, CountInv, ~Idle, NEW u \in plan.copy, copy_update_fn_to_fn(u)
    PROVE  CountInv'
<1> DEFINE source == fns[lvl][u.source]
           t == u.target
           n == UpdatedNode(lvl, u.mode, "copied", plan.delta[t], source.size, source.edges, u.entries)
<1>1. u \in plan.request.update /\ u.source \in DOMAIN fns[lvl] /\ u \in Updates(lvl)
  BY MidCanonical, MidUpdate DEF copy_update_fn_to_fn, HonestPlan, IsPlan
<1>2. /\ fns' = [fns EXCEPT ![lvl] = With(@, t, n)]
      /\ ApplyToChildren(lvl, ChildCalls(lvl, u.mode, "copied", source.edges, u.entries))
      /\ plan' = [plan EXCEPT !.copy = @ \ {u}, !.done = @ \cup {t}]
      /\ UNCHANGED <<sens, nodec, live, assigned, op, lvl>>
      /\ t \notin DOMAIN fns[lvl] /\ t \in DOMAIN plan.delta /\ plan.create = {}
  BY DEF copy_update_fn_to_fn
<1>3. lvl \in Depths /\ u.entries \in SUBSET Keys(lvl) /\ t \in RawIdentifiers(lvl)
      /\ IsEdges(lvl, source.edges) /\ u.mode \in {"insert", "remove"}
  BY <1>1, <1>2, UpdateType, MidUpdate
<1>4. is_fn(t)
  <2>1. t = RawIdentifier(t.es) /\ Cardinality(t.es) > 1
    BY <1>1, PlannedUpdate
  <2>2. t.es \in SUBSET Keys(lvl) /\ lvl \in 0 .. MaxDepth
    BY <1>3, IdentifierTypes DEF Depths
  <2> QED
    BY <2>1, <2>2, RawIdentifierFacts
<1>5. fns'[lvl] = With(fns[lvl], t, n) /\ \A d \in Depths \ {lvl} : fns'[d] = fns[d]
  BY <1>2, <1>3 DEF TypeOK, StorageOK
<1>6. n.ref = plan.delta[t] /\ n.edges = UpdatedEdges(lvl, u.mode, "copied", source.edges, u.entries)
  BY DEF UpdatedNode
<1> HIDE DEF n, source, t
<1>7. /\ DOMAIN fns'[lvl] = DOMAIN fns[lvl] \cup {t} /\ fns'[lvl][t] = n
      /\ \A x \in DOMAIN fns[lvl] : fns'[lvl][x] = fns[lvl][x]
  BY <1>2, <1>5 DEF With
<1>8. IsFiniteSet(ChildCalls(lvl, u.mode, "copied", source.edges, u.entries))
  BY <1>3, ChildCallsType
<1>9. lvl > 1 => \A id \in RawIdentifiers(lvl - 1) : Counted(lvl - 1, id) =>
               Delta(child'.delta, id) = Delta(child.delta, id)
                   + Cardinality(EdgesInto(lvl, fns'[lvl], id)) - Cardinality(EdgesInto(lvl, fns[lvl], id))
  BY <1>2, <1>3, <1>6, <1>7, NewNodeBalance
<1>10. \A x \in DOMAIN child'.delta : ~in_place(lvl - 1, x)
  BY <1>2, <1>8, CollectedDelta
<1>11. /\ plan'.delta = plan.delta /\ plan'.done = plan.done \cup {t}
       /\ plan'.create = plan.create /\ Ending' = Ending
  BY <1>2, MidUpdate DEF IsPlan, Ending
<1> QED
  <2> DEFINE placed == {t}
             gone == {}
  <2>1. placed \in SUBSET DOMAIN plan.delta /\ gone \in SUBSET Ending
    BY <1>2
  <2>2. \A x \in placed : is_fn(x) /\ x \notin DOMAIN fns[lvl] /\ fns'[lvl][x].ref = plan.delta[x]
    BY <1>2, <1>4, <1>6, <1>7
  <2>3. DOMAIN fns'[lvl] = (DOMAIN fns[lvl] \ gone) \cup placed
        /\ \A x \in DOMAIN fns[lvl] \ gone : fns'[lvl][x] = fns[lvl][x]
    BY <1>7
  <2>4. /\ plan.done \cup placed \subseteq plan'.done /\ plan'.done \subseteq plan.done \cup gone \cup placed
        /\ plan'.create \subseteq plan.create \ placed /\ Ending' \cup gone = Ending
    BY <1>2, <1>11
  <2> HIDE DEF placed, gone
  <2> QED
    BY <1>2, <1>5, <1>9, <1>10, <1>11, <2>1, <2>2, <2>3, <2>4, ReplaceNodes

LEMMA move_updateCounts ==
    ASSUME TypeOK, CanonicalInv, CountInv, ~Idle, NEW u \in plan.move, move_update_fn_to_fn(u)
    PROVE  CountInv'
<1> DEFINE source == fns[lvl][u.source]
           s == u.source
           t == u.target
           n == UpdatedNode(lvl, u.mode, "moved", plan.delta[t], source.size, source.edges, u.entries)
           C == ChildCalls(lvl, u.mode, "moved", source.edges, u.entries)
           rest == Without(fns[lvl], {s})
           after == UpdatedEdges(lvl, u.mode, "moved", source.edges, u.entries)
<1>1. u \in plan.request.update /\ s \in DOMAIN fns[lvl] /\ u \in Updates(lvl)
  BY MidCanonical, MidUpdate DEF move_update_fn_to_fn, HonestPlan, IsPlan
<1>2. /\ fns' = [fns EXCEPT ![lvl] = With(Without(@, {s}), t, n)]
      /\ ApplyToChildren(lvl, C)
      /\ plan' = [plan EXCEPT !.move = @ \ {u}, !.done = @ \cup {s, t}]
      /\ UNCHANGED <<sens, nodec, live, assigned, op, lvl>>
      /\ t \notin DOMAIN fns[lvl] /\ t \in DOMAIN plan.delta /\ plan.create = {}
  BY DEF move_update_fn_to_fn
<1>3. lvl \in Depths /\ u.entries \in SUBSET Keys(lvl) /\ t \in RawIdentifiers(lvl)
      /\ IsEdges(lvl, source.edges) /\ u.mode \in {"insert", "remove"}
      /\ DOMAIN fns[lvl] \subseteq RawIdentifiers(lvl)
  BY <1>1, <1>2, UpdateType, MidUpdate DEF AreFullNodes
<1>4. is_fn(t)
  <2>1. t = RawIdentifier(t.es) /\ Cardinality(t.es) > 1
    BY <1>1, PlannedUpdate
  <2>2. t.es \in SUBSET Keys(lvl) /\ lvl \in 0 .. MaxDepth
    BY <1>3, IdentifierTypes DEF Depths
  <2> QED
    BY <2>1, <2>2, RawIdentifierFacts
<1>5. fns'[lvl] = With(rest, t, n) /\ \A d \in Depths \ {lvl} : fns'[d] = fns[d]
  BY <1>2, <1>3 DEF TypeOK, StorageOK
<1>6. n.ref = plan.delta[t] /\ n.edges = after
  BY DEF UpdatedNode
<1>7. s \in Ending /\ IsFiniteSet(C)
  BY <1>3, ChildCallsType DEF Ending
<1> HIDE DEF n, source, t, s, C, after
<1>8. /\ DOMAIN fns'[lvl] = (DOMAIN fns[lvl] \ {s}) \cup {t} /\ fns'[lvl][t] = n
      /\ \A x \in DOMAIN fns[lvl] \ {s} : fns'[lvl][x] = fns[lvl][x]
  BY <1>2, <1>5 DEF With, Without
<1>9. Extended(rest, s, fns[lvl]) /\ Extended(rest, t, fns'[lvl])
  <2>1. DOMAIN rest = DOMAIN fns[lvl] \ {s} /\ \A x \in DOMAIN rest : rest[x] = fns[lvl][x]
    BY DEF Without
  <2> HIDE DEF rest
  <2> QED
    BY <1>1, <1>2, <1>8, <2>1 DEF Extended
<1>10. lvl > 1 => \A id \in RawIdentifiers(lvl - 1) : Counted(lvl - 1, id) =>
               Delta(child'.delta, id) = Delta(child.delta, id)
                   + Cardinality(EdgesInto(lvl, fns'[lvl], id)) - Cardinality(EdgesInto(lvl, fns[lvl], id))
  <2> SUFFICES ASSUME lvl > 1, NEW id \in RawIdentifiers(lvl - 1), Counted(lvl - 1, id)
               PROVE  Delta(child'.delta, id) = Delta(child.delta, id)
                   + Cardinality(EdgesInto(lvl, fns'[lvl], id)) - Cardinality(EdgesInto(lvl, fns[lvl], id))
    OBVIOUS
  <2>1. DOMAIN fns'[lvl] \subseteq RawIdentifiers(lvl) /\ DOMAIN rest \subseteq RawIdentifiers(lvl)
    BY <1>3, <1>8 DEF Without
  <2>2. fns'[lvl][t].edges = after /\ fns[lvl][s].edges = source.edges
    BY <1>6, <1>8 DEF source, s
  <2> HIDE DEF rest
  <2>3. /\ Cardinality(EdgesTo(lvl, after, id)) \in Nat
        /\ Cardinality(EdgesInto(lvl, fns'[lvl], id)) =
             Cardinality(EdgesInto(lvl, rest, id)) + Cardinality(EdgesTo(lvl, after, id))
    BY <1>3, <1>9, <2>1, <2>2, EdgesSplit
  <2>4. /\ Cardinality(EdgesTo(lvl, source.edges, id)) \in Nat
        /\ Cardinality(EdgesInto(lvl, fns[lvl], id)) =
             Cardinality(EdgesInto(lvl, rest, id)) + Cardinality(EdgesTo(lvl, source.edges, id))
    <3>1. /\ Cardinality(EdgesTo(lvl, fns[lvl][s].edges, id)) \in Nat
          /\ Cardinality(EdgesInto(lvl, fns[lvl], id)) =
               Cardinality(EdgesInto(lvl, rest, id)) + Cardinality(EdgesTo(lvl, fns[lvl][s].edges, id))
      BY <1>3, <1>9, EdgesSplit
    <3> QED
      BY <2>2, <3>1
  <2>5. Cardinality(EdgesInto(lvl, rest, id)) \in Nat
    BY <1>3, <2>1, EdgesFinite
  <2>6. Cardinality(Gained(C, lvl - 1, id)) - Cardinality(Lost(C, lvl - 1, id))
          = Cardinality(EdgesTo(lvl, after, id)) - Cardinality(EdgesTo(lvl, source.edges, id))
    BY <1>3, MovedNodeCalls DEF C, after
  <2>7. /\ Delta(child'.delta, id) = Delta(child.delta, id)
               + Cardinality(Gained(C, lvl - 1, id)) - Cardinality(Lost(C, lvl - 1, id))
        /\ Delta(child.delta, id) \in Int
        /\ Cardinality(Gained(C, lvl - 1, id)) \in Nat /\ Cardinality(Lost(C, lvl - 1, id)) \in Nat
    BY <1>2, <1>7, CollectedDelta
  <2> QED
    BY <2>3, <2>4, <2>5, <2>6, <2>7
<1>11. \A x \in DOMAIN child'.delta : ~in_place(lvl - 1, x)
  BY <1>2, <1>7, CollectedDelta
<1>12. /\ plan'.delta = plan.delta /\ plan'.done = plan.done \cup {s, t}
       /\ plan'.create = plan.create /\ Ending' \cup {s} = Ending
  <2>1. /\ plan'.delta = plan.delta /\ plan'.done = plan.done \cup {s, t}
        /\ plan'.create = plan.create /\ plan'.delete = plan.delete /\ plan'.move = plan.move \ {u}
    BY <1>2, MidUpdate DEF IsPlan
  <2> QED
    BY <2>1 DEF Ending, s
<1> QED
  <2> DEFINE placed == {t}
             gone == {s}
  <2>1. placed \in SUBSET DOMAIN plan.delta /\ gone \in SUBSET Ending
    BY <1>2, <1>7
  <2>2. \A x \in placed : is_fn(x) /\ x \notin DOMAIN fns[lvl] /\ fns'[lvl][x].ref = plan.delta[x]
    BY <1>2, <1>4, <1>6, <1>8
  <2>3. DOMAIN fns'[lvl] = (DOMAIN fns[lvl] \ gone) \cup placed
        /\ \A x \in DOMAIN fns[lvl] \ gone : fns'[lvl][x] = fns[lvl][x]
    BY <1>8
  <2>4. /\ plan.done \cup placed \subseteq plan'.done /\ plan'.done \subseteq plan.done \cup gone \cup placed
        /\ plan'.create \subseteq plan.create \ placed /\ Ending' \cup gone = Ending
    BY <1>2, <1>12
  <2> HIDE DEF placed, gone
  <2> QED
    BY <1>2, <1>5, <1>10, <1>11, <1>12, <2>1, <2>2, <2>3, <2>4, ReplaceNodes

LEMMA delete_fnCounts ==
    ASSUME TypeOK, CanonicalInv, CountInv, ~Idle, NEW s \in plan.delete, delete_fn(s)
    PROVE  CountInv'
<1> DEFINE edges == fns[lvl][s].edges
           C == DropCalls(lvl, edges)
           rest == Without(fns[lvl], {s})
<1>1. /\ plan.create = {} /\ plan.move = {} /\ s \in DOMAIN fns[lvl]
      /\ fns' = [fns EXCEPT ![lvl] = Without(@, {s})]
      /\ ApplyToChildren(lvl, C)
      /\ plan' = [plan EXCEPT !.delete = @ \ {s}]
      /\ UNCHANGED <<sens, nodec, live, assigned, op, lvl>>
  BY DEF delete_fn
<1>2. lvl \in Depths /\ DOMAIN fns[lvl] \subseteq RawIdentifiers(lvl) /\ IsEdges(lvl, edges)
  BY <1>1, MidUpdate DEF AreFullNodes, IsFullNode
<1>3. IsFiniteSet(C)
  BY <1>2, DropCallsType
<1>4. fns'[lvl] = rest /\ \A d \in Depths \ {lvl} : fns'[d] = fns[d]
  BY <1>1, <1>2 DEF TypeOK, StorageOK
<1>5. DOMAIN rest = DOMAIN fns[lvl] \ {s} /\ \A x \in DOMAIN rest : rest[x] = fns[lvl][x]
  BY DEF Without
<1> HIDE DEF edges, C, rest
<1>6. Extended(rest, s, fns[lvl])
  BY <1>1, <1>5 DEF Extended
<1>7. lvl > 1 => \A id \in RawIdentifiers(lvl - 1) : Counted(lvl - 1, id) =>
               Delta(child'.delta, id) = Delta(child.delta, id)
                   + Cardinality(EdgesInto(lvl, fns'[lvl], id)) - Cardinality(EdgesInto(lvl, fns[lvl], id))
  <2> SUFFICES ASSUME lvl > 1, NEW id \in RawIdentifiers(lvl - 1), Counted(lvl - 1, id)
               PROVE  Delta(child'.delta, id) = Delta(child.delta, id)
                   + Cardinality(EdgesInto(lvl, fns'[lvl], id)) - Cardinality(EdgesInto(lvl, fns[lvl], id))
    OBVIOUS
  <2>1. /\ Cardinality(EdgesTo(lvl, edges, id)) \in Nat
        /\ Cardinality(EdgesInto(lvl, fns[lvl], id)) =
             Cardinality(EdgesInto(lvl, rest, id)) + Cardinality(EdgesTo(lvl, edges, id))
    BY <1>2, <1>6, EdgesSplit DEF edges
  <2>2. Cardinality(EdgesInto(lvl, rest, id)) \in Nat
    BY <1>2, <1>5, EdgesFinite
  <2>3. /\ Cardinality(Gained(C, lvl - 1, id)) = 0
        /\ Cardinality(Lost(C, lvl - 1, id)) = Cardinality(EdgesTo(lvl, edges, id))
    BY <1>2, DroppedNodeCalls DEF C
  <2>4. /\ Delta(child'.delta, id) = Delta(child.delta, id)
               + Cardinality(Gained(C, lvl - 1, id)) - Cardinality(Lost(C, lvl - 1, id))
        /\ Delta(child.delta, id) \in Int
    BY <1>1, <1>3, CollectedDelta
  <2> QED
    BY <1>4, <2>1, <2>2, <2>3, <2>4
<1>8. \A x \in DOMAIN child'.delta : ~in_place(lvl - 1, x)
  BY <1>1, <1>3, CollectedDelta
<1>9. /\ plan'.delta = plan.delta /\ plan'.done = plan.done
      /\ plan'.create = plan.create /\ Ending' \cup {s} = Ending /\ s \in Ending
  <2>1. /\ plan'.delta = plan.delta /\ plan'.done = plan.done
        /\ plan'.create = plan.create /\ plan'.delete = plan.delete \ {s} /\ plan'.move = plan.move
    BY <1>1, MidUpdate DEF IsPlan
  <2> QED
    BY <2>1 DEF Ending
<1> QED
  <2> DEFINE placed == {}
             gone == {s}
  <2>1. placed \in SUBSET DOMAIN plan.delta /\ gone \in SUBSET Ending
    BY <1>9
  <2>2. \A x \in placed : is_fn(x) /\ x \notin DOMAIN fns[lvl] /\ fns'[lvl][x].ref = plan.delta[x]
    OBVIOUS
  <2>3. DOMAIN fns'[lvl] = (DOMAIN fns[lvl] \ gone) \cup placed
        /\ \A x \in DOMAIN fns[lvl] \ gone : fns'[lvl][x] = fns[lvl][x]
    BY <1>4, <1>5
  <2>4. /\ plan.done \cup placed \subseteq plan'.done /\ plan'.done \subseteq plan.done \cup gone \cup placed
        /\ plan'.create \subseteq plan.create \ placed /\ Ending' \cup gone = Ending
    BY <1>9
  <2> HIDE DEF placed, gone
  <2> QED
    BY <1>1, <1>4, <1>7, <1>8, <1>9, <2>1, <2>2, <2>3, <2>4, ReplaceNodes

\* The updates of a depth are finitely many.
LEMMA UpdatesFinite ==
    ASSUME NEW d \in Depths
    PROVE  IsFiniteSet(Updates(d))
<1> DEFINE M == {"insert", "remove"}
           P == RawIdentifiers(d) \X RawIdentifiers(d)
           Q == (SUBSET Keys(d)) \X M
           f == [x \in P \X Q |-> [source |-> x[1][1], target |-> x[1][2],
                                   entries |-> x[2][1], mode |-> x[2][2]]]
<1>1. IsFiniteSet(P)
  BY IdentifiersFinite, FS_Product
<1>2. IsFiniteSet(Q)
  <2>1. IsFiniteSet(SUBSET Keys(d))
    BY KeysAssumption, FS_SUBSET DEF Depths
  <2>2. IsFiniteSet(M)
    <3>1. M = {"insert"} \cup {"remove"}
      OBVIOUS
    <3>2. IsFiniteSet({"insert"} \cup {"remove"})
      BY FS_Singleton, FS_Union
    <3> QED
      BY <3>1, <3>2
  <2> QED
    BY <2>1, <2>2, FS_Product
<1>3. IsFiniteSet(P \X Q)
  BY <1>1, <1>2, FS_Product
<1>4. f \in Surjection(P \X Q, Updates(d))
  <2>1. f \in [P \X Q -> Updates(d)]
    BY DEF Updates
  <2>2. ASSUME NEW u \in Updates(d) PROVE \E x \in P \X Q : f[x] = u
    <3>1. <<<<u.source, u.target>>, <<u.entries, u.mode>>>> \in P \X Q
      BY DEF Updates
    <3>2. f[<<<<u.source, u.target>>, <<u.entries, u.mode>>>>] = u
      BY <3>1 DEF Updates
    <3> QED
      BY <3>1, <3>2
  <2> QED
    BY <2>1, <2>2 DEF Surjection
<1> QED
  <2> HIDE DEF f, P, Q
  <2> QED
    BY <1>3, <1>4, FS_Surjection

\* Reusing a node moves it from the nodes to delete to those to move.
LEMMA PlanSourceCounts ==
    ASSUME TypeOK, CountInv, ~Idle, NEW s, PlanSource(s)
    PROVE  CountInv'
<1> DEFINE updates == {u \in plan.request.update : u.source = s /\ u.target \in plan.create}
<1>0. lvl \in Depths
  BY MidUpdate
<1>1. PICK moved \in SUBSET updates :
        /\ Cardinality(moved) = IF Reusable(s) /\ updates # {} THEN 1 ELSE 0
        /\ plan' = [plan EXCEPT
                   !.todo   = @ \ {s},
                   !.create = @ \ {u.target : u \in updates},
                   !.copy   = @ \cup (updates \ moved),
                   !.move   = @ \cup moved,
                   !.delete = IF moved = {} THEN @ ELSE @ \ {s}]
  BY DEF PlanSource
<1>2. UNCHANGED <<fns, sens, nodec, live, assigned, op, lvl, child>>
  BY DEF PlanSource
<1>3. /\ plan'.delta = plan.delta /\ plan'.done = plan.done /\ plan'.create \subseteq plan.create
      /\ plan'.move = plan.move \cup moved
      /\ plan'.delete = IF moved = {} THEN plan.delete ELSE plan.delete \ {s}
  <2> HIDE DEF updates
  <2> QED
    BY <1>1, MidUpdate DEF IsPlan
<1>4. moved # {} => s \in plan.delete
  <2>1. IsFiniteSet(moved)
    <3>1. moved \subseteq Updates(lvl)
      BY MidUpdate DEF IsPlan, IsRequests
    <3> QED
      BY <1>0, <3>1, UpdatesFinite, FS_Subset
  <2>2. moved # {} => Cardinality(moved) # 0
    BY <2>1, FS_EmptySet
  <2> QED
    BY <1>1, <2>2 DEF Reusable
<1>5. \A u \in moved : u.source = s
  OBVIOUS
<1>6. Ending' = Ending
  <2> HIDE DEF updates
  <2>1. CASE moved = {}
    BY <1>3, <2>1 DEF Ending
  <2>2. CASE moved # {}
    <3>1. {u.source : u \in plan'.move} = {u.source : u \in plan.move} \cup {s}
      BY <1>3, <1>5, <2>2
    <3> QED
      BY <1>3, <1>4, <2>2, <3>1 DEF Ending
  <2> QED
    BY <2>1, <2>2
<1>7. \A d, id : Planned(d, id)' = Planned(d, id) /\ Referrers(d, id)' = Referrers(d, id)
  BY <1>2, <1>3, <1>6 DEF Planned, Stored, Left, Referrers, ParentEdges, Holders, Held, Idle
<1>8. RefInv'
  BY <1>2, <1>7 DEF CountInv, RefInv, Counted, in_place
<1>9. PlanInv'
  BY <1>2, <1>3, <1>6 DEF CountInv, PlanInv, Idle
<1>10. InPlaceInv' /\ PositiveInv' /\ LiveInv'
  BY <1>2, <1>3 DEF CountInv, InPlaceInv, PositiveInv, LiveInv, Idle
<1> QED
  BY <1>8, <1>9, <1>10 DEF CountInv

\* A level starts with the counts that its requests ask for.
LEMMA StartLevelCounts ==
    ASSUME CanonicalInv, NEW d \in Depths, NEW r, IsRequests(d, r), StartLevel(d, r),
           StorageOK, fns'[d] = fns[d], sens'[d] = sens[d],
           \A id \in DOMAIN r.delta : ~in_place(d, id)
    PROVE  /\ \A id : Planned(d, id)' = Stored(d, id) + Delta(r.delta, id)
           /\ \A x, id : x # d => Planned(x, id)' = IF x = d - 1 THEN Stored(x, id)' + 0 ELSE Stored(x, id)'
           /\ PlanInv'
           /\ \A id \in DOMAIN plan'.delta : ~in_place(d, id)
           /\ DOMAIN child'.delta = {}
<1>1. lvl' = d /\ plan' = StartPlan(d, r) /\ child' = NoRequests /\ PlanOk(d, r) /\ d # d - 1
  BY DEF StartLevel, Depths
<1>2. /\ plan'.delta = Without(r.delta, Deleted(d, r) \cup {id \in DOMAIN r.delta : r.delta[id] = 0})
      /\ plan'.delete = Deleted(d, r) /\ plan'.move = {} /\ plan'.done = {}
      /\ plan'.create = {id \in r.fresh : id \notin DOMAIN fns[d]}
  BY <1>1 DEF StartPlan
<1>3. Ending' = Deleted(d, r)
  BY <1>2 DEF Ending
<1>4. \A id \in Deleted(d, r) : id \in DOMAIN fns[d] /\ is_fn(id) /\ id \in DOMAIN r.delta
                                /\ fns[d][id].ref + r.delta[id] = 0
  <2>1. \A id \in DOMAIN fns[d] : is_fn(id)
    <3>1. \A id \in DOMAIN fns[d] : Cardinality(id.es) > 1 /\ id = RawIdentifier(id.es) /\ id.es \in SUBSET Keys(d)
      BY IdentifierTypes DEF CanonicalInv, NodesCanonical, StorageOK
    <3> QED
      BY <3>1, RawIdentifierFacts DEF Depths
  <2> QED
    BY <1>1, <2>1 DEF Deleted, PlanOk, IsRequests
<1>5. ASSUME NEW id
      PROVE  Planned(d, id)' = Stored(d, id) + Delta(r.delta, id)
  <2>1. Stored(d, id)' = Stored(d, id)
    BY DEF Stored
  <2>2. CASE id \in Deleted(d, r)
    <3>1. Planned(d, id)' = 0
      BY <1>1, <1>3, <1>4, <2>2 DEF Planned
    <3>2. Stored(d, id) = fns[d][id].ref /\ Delta(r.delta, id) = r.delta[id]
      BY <1>4, <2>2 DEF Stored, Delta
    <3> QED
      BY <1>4, <2>2, <3>1, <3>2
  <2>3. CASE id \notin Deleted(d, r)
    <3>1. Left(id)' = Delta(r.delta, id)
      BY <1>2, <2>3 DEF Left, Delta, Without
    <3> QED
      BY <1>1, <1>3, <2>1, <2>3, <3>1 DEF Planned
  <2> QED
    BY <2>2, <2>3
<1>6. DOMAIN child'.delta = {}
  BY <1>1 DEF NoRequests, EmptyMap
<1>7. ASSUME NEW x, NEW id, x # d
      PROVE  Planned(x, id)' = IF x = d - 1 THEN Stored(x, id)' + 0 ELSE Stored(x, id)'
  BY <1>1, <1>6, <1>7 DEF Planned, Delta
<1>8. PlanInv'
  BY <1>1, <1>2, <1>3 DEF PlanInv, Without
<1>9. \A id \in DOMAIN plan'.delta : ~in_place(d, id)
  BY <1>2 DEF Without
<1> QED
  BY <1>5, <1>6, <1>7, <1>8, <1>9

\* At the end of a level every node has the count that was planned.
LEMMA FinishStored ==
    ASSUME TypeOK, CanonicalInv, CountInv, FinishLevel, NEW l, l = lvl
    PROVE  /\ \A id \in RawIdentifiers(lvl) : Counted(lvl, id) => Stored(l, id)' = Planned(lvl, id)
           /\ DOMAIN fns'[lvl] = DOMAIN fns[lvl]
           /\ \A id \in DOMAIN fns[lvl] : fns'[lvl][id].edges = fns[lvl][id].edges
           /\ \A d \in Depths \ {lvl} : fns'[d] = fns[d] /\ sens'[d] = sens[d]
           /\ PositiveInv'
           /\ \A id \in DOMAIN sens'[lvl] : ~in_place(lvl, id)
<1> DEFINE nodes == sens[lvl]
           changed == {id \in DOMAIN plan.delta : is_sen(id)}
           ref(id) == (IF id \in DOMAIN nodes THEN nodes[id].ref ELSE 0)
                      + (IF id \in changed THEN plan.delta[id] ELSE 0)
           entry(id) == IF id \in DOMAIN nodes THEN nodes[id].entries
                        ELSE (CHOOSE e \in plan.request.entry : e.id = id).entries
           D == {x \in DOMAIN nodes \cup changed : ref(x) # 0}
<1>0. ~Idle /\ LevelOk /\ lvl \in Depths /\ Ending = {} /\ l = lvl
  BY MidUpdate DEF FinishLevel, Ending
<1>1. /\ \A id \in DOMAIN plan.delta : plan.delta[id] \in Int
      /\ \A id \in DOMAIN fns[lvl] : IsFullNode(lvl, fns[lvl][id])
      /\ \A id \in DOMAIN nodes : nodes[id].ref \in Int
  BY <1>0, MidUpdate DEF IsPlan, IsMap, AreFullNodes, TypeOK, StorageOK, SingleEntryNodes
<1>2. fns'[lvl] = ApplyDeltas(fns[lvl]) /\ sens'[lvl] = apply_sen_update(sens[lvl])
      /\ \A d \in Depths \ {lvl} : fns'[d] = fns[d] /\ sens'[d] = sens[d]
  BY <1>0 DEF FinishLevel, TypeOK, StorageOK
<1>3. /\ DOMAIN fns'[lvl] = DOMAIN fns[lvl]
      /\ \A id \in DOMAIN fns[lvl] :
           /\ fns'[lvl][id].edges = fns[lvl][id].edges
           /\ fns'[lvl][id].ref = IF id \in LeftDeltas THEN fns[lvl][id].ref + plan.delta[id]
                                  ELSE fns[lvl][id].ref
  <2>1. /\ DOMAIN fns'[lvl] = DOMAIN fns[lvl]
        /\ \A id \in DOMAIN fns[lvl] : fns'[lvl][id] =
             IF id \in LeftDeltas THEN [fns[lvl][id] EXCEPT !.ref = @ + plan.delta[id]] ELSE fns[lvl][id]
    BY <1>2 DEF ApplyDeltas
  <2> QED
    BY <1>1, <2>1 DEF IsFullNode
<1>4. sens'[lvl] = [id \in D |-> [ref |-> ref(id), entries |-> entry(id)]]
  BY <1>2 DEF apply_sen_update
<1>5. DOMAIN sens'[lvl] = D /\ \A id \in D : sens'[lvl][id].ref = ref(id)
  <2> HIDE DEF D, ref, entry
  <2> QED
    BY <1>4
<1>6. \A id : ref(id) \in Int
  BY <1>1
<1>7. ASSUME NEW id \in RawIdentifiers(lvl), Counted(lvl, id)
      PROVE  Stored(l, id)' = Planned(lvl, id)
  <2>0. Stored(lvl, id) \in Int /\ Left(id) \in Int
    <3>1. id # NoId /\ LiveInv
      BY <1>7 DEF CountInv, Counted, empty
    <3> QED
      BY <1>0, <3>1, CountTypes, PlannedTypes
  <2>1. CASE is_fn(id)
    <3>1. Planned(lvl, id) = Stored(lvl, id) + Left(id)
      BY <1>0, <2>1 DEF Planned
    <3>2. id \in LeftDeltas => id \in DOMAIN fns[lvl]
      BY <1>0 DEF LevelOk
    <3>3. Left(id) = IF id \in LeftDeltas THEN plan.delta[id] ELSE 0
      BY <2>1 DEF Left, LeftDeltas, Delta
    <3>4. id \in DOMAIN fns[lvl] =>
            Stored(lvl, id) = fns[lvl][id].ref /\ Stored(l, id)' = fns'[lvl][id].ref
      BY <1>3, <2>1, <1>0 DEF Stored
    <3>5. id \notin DOMAIN fns[lvl] => Stored(lvl, id) = 0 /\ Stored(l, id)' = 0
      BY <1>3, <2>1, <1>0 DEF Stored
    <3> QED
      BY <1>3, <2>0, <3>1, <3>2, <3>3, <3>4, <3>5
  <2>2. CASE ~is_fn(id)
    <3>1. is_sen(id)
      BY <1>7, <2>2 DEF Counted, is_fn, is_sen, RawIdentifiers, Tags
    <3>2. Planned(lvl, id) = Stored(lvl, id) + Left(id) /\ Left(id) = Delta(plan.delta, id)
      BY <2>2 DEF Planned, Left
    <3>3. ref(id) = Stored(lvl, id) + Delta(plan.delta, id)
      BY <2>2, <3>1 DEF Stored, Delta
    <3>4. Stored(l, id)' = IF id \in D THEN ref(id) ELSE 0
      <4> HIDE DEF D, ref
      <4> QED
        BY <1>0, <1>5, <2>2 DEF Stored
    <3>5. id \notin D => ref(id) = 0
      OBVIOUS
    <3> QED
      BY <3>2, <3>3, <3>4, <3>5
  <2> QED
    BY <2>1, <2>2
<1>8. \A id \in DOMAIN fns[lvl] : fns'[lvl][id].ref > 0
  BY <1>0, <1>3 DEF LevelOk, CountInv, PositiveInv
<1>9. ASSUME NEW id \in D PROVE ref(id) > 0
  <2>1. id \in DOMAIN nodes => nodes[id].ref > 0
    BY <1>0 DEF CountInv, PositiveInv
  <2>2. id \in changed => plan.delta[id] \in Int
                          /\ IF id \in DOMAIN nodes THEN nodes[id].ref + plan.delta[id] >= 0
                             ELSE plan.delta[id] > 0
    BY <1>0, <1>1 DEF LevelOk
  <2>3. ref(id) # 0 /\ (id \in DOMAIN nodes \/ id \in changed)
    OBVIOUS
  <2>4. id \in DOMAIN nodes => nodes[id].ref \in Int
    BY <1>1
  <2> HIDE DEF nodes, changed, D
  <2> QED
    BY <2>1, <2>2, <2>3, <2>4
<1>10. PositiveInv'
  <2>1. \A id \in DOMAIN sens'[lvl] : sens'[lvl][id].ref > 0
    <3> HIDE DEF D, ref
    <3> QED
      BY <1>5, <1>9
  <2>2. \A d \in Depths : (\A id \in DOMAIN fns'[d] : fns'[d][id].ref > 0)
                          /\ (\A id \in DOMAIN sens'[d] : sens'[d][id].ref > 0)
    BY <1>2, <1>3, <1>8, <2>1 DEF CountInv, PositiveInv
  <2> QED
    BY <2>2 DEF PositiveInv
<1>11. \A id \in D : ~in_place(lvl, id)
  BY <1>0 DEF CountInv, InPlaceInv
<1> HIDE DEF D
<1> QED
  BY <1>2, <1>3, <1>5, <1>7, <1>10, <1>11

\* The parents of a level are the same when its counts are applied.
LEMMA SameEdges ==
    ASSUME NEW d, NEW old, NEW new, DOMAIN new = DOMAIN old,
           \A x \in DOMAIN old : new[x].edges = old[x].edges, NEW id
    PROVE  EdgesInto(d, new, id) = EdgesInto(d, old, id)
BY DEF EdgesInto

LEMMA FinishParents ==
    ASSUME TypeOK, CanonicalInv, CountInv, FinishLevel, NEW d \in Depths, NEW id
    PROVE  ParentEdges(d, id)' = ParentEdges(d, id)
<1>1. /\ DOMAIN fns'[lvl] = DOMAIN fns[lvl]
      /\ \A x \in DOMAIN fns[lvl] : fns'[lvl][x].edges = fns[lvl][x].edges
      /\ \A x \in Depths \ {lvl} : fns'[x] = fns[x]
  BY FinishStored
<1>2. EdgesInto(lvl, fns'[lvl], id) = EdgesInto(lvl, fns[lvl], id)
  BY <1>1, SameEdges
<1>3. d # MaxDepth => d + 1 \in Depths
  BY ParentEdgesInto
<1>4. d # MaxDepth => EdgesInto(d + 1, fns'[d + 1], id) = EdgesInto(d + 1, fns[d + 1], id)
  <2>1. CASE d + 1 = lvl
    BY <1>2, <2>1
  <2>2. CASE d + 1 # lvl
    BY <1>1, <1>3, <2>2
  <2> QED
    BY <2>1, <2>2
<1> QED
  BY <1>4, ParentEdgesSame

\* The end of one level is the start of the next, or the return to the caller.
LEMMA FinishLevelCounts ==
    ASSUME TypeOK, CanonicalInv, CountInv, FinishLevel
    PROVE  CountInv'
<1> SUFFICES ASSUME NEW m, m = lvl PROVE CountInv'
  OBVIOUS
<1>0. /\ ~Idle /\ m \in Depths /\ m = lvl /\ assigned' = assigned /\ LiveInv
      /\ OperationOK
  BY MidUpdate DEF FinishLevel, CountInv
<1>1. /\ \A id \in RawIdentifiers(m) : Counted(m, id) => Stored(m, id)' = Planned(m, id)
      /\ \A d \in Depths \ {m} : fns'[d] = fns[d] /\ sens'[d] = sens[d]
      /\ PositiveInv'
      /\ \A id \in DOMAIN sens'[m] : ~in_place(m, id)
  BY <1>0, FinishStored
<1>2. \A d \in Depths \ {m} : \A id : Stored(d, id)' = Stored(d, id)
  BY <1>1 DEF Stored
<1>3. \A d \in Depths : \A id \in DOMAIN sens'[d] : ~in_place(d, id)
  BY <1>1 DEF CountInv, InPlaceInv
<1>4. ASSUME NEW d \in Depths, NEW id \in RawIdentifiers(d), Counted(d, id)
      PROVE  /\ Planned(d, id) >= Referrers(d, id)
             /\ assigned = 0 => Planned(d, id) = Referrers(d, id)
             /\ Stored(d, id) \in Int /\ Planned(d, id) \in Int
             /\ ParentEdges(d, id)' = ParentEdges(d, id)
  <2>1. id # NoId
    BY <1>4 DEF Counted, empty
  <2>2. Stored(d, id) \in Int /\ Planned(d, id) \in Int
    BY <1>0, <2>1, CountTypes, PlannedTypes
  <2>3. ParentEdges(d, id)' = ParentEdges(d, id)
    BY FinishParents
  <2> QED
    BY <1>4, <2>2, <2>3 DEF CountInv, RefInv
<1>5. CASE m > 1
  <2> DEFINE e == m - 1
  <2>1. e \in Depths /\ e = lvl - 1 /\ m # e /\ StartLevel(e, child) /\ UNCHANGED <<nodec, live, op>>
    <3>1. StartLevel(lvl - 1, child) /\ UNCHANGED <<nodec, live, op>>
      BY <1>0, <1>5 DEF FinishLevel
    <3>2. e \in Depths /\ m # e
      BY <1>0, <1>5, MaxDepthAssumption DEF Depths
    <3> QED
      BY <1>0, <3>1, <3>2
  <2>2. IsRequests(e, child) /\ StorageOK /\ \A id \in DOMAIN child.delta : ~in_place(e, id)
    BY <1>0, <1>5, MidUpdate DEF CountInv, InPlaceInv, TypeOK
  <2> HIDE DEF e
  <2>3. fns'[e] = fns[e] /\ sens'[e] = sens[e]
    BY <1>1, <2>1
  <2>4. /\ \A id : Planned(e, id)' = Stored(e, id) + Delta(child.delta, id)
        /\ \A x, id : x # e => Planned(x, id)' = IF x = e - 1 THEN Stored(x, id)' + 0 ELSE Stored(x, id)'
        /\ PlanInv'
        /\ \A id \in DOMAIN plan'.delta : ~in_place(e, id)
        /\ DOMAIN child'.delta = {}
    BY <2>1, <2>2, <2>3, StartLevelCounts
  <2>5. lvl' = e /\ ~Idle'
    BY <2>1 DEF StartLevel, Idle, Depths
  <2>6. ASSUME NEW d \in Depths, NEW id \in RawIdentifiers(d), Counted(d, id)
        PROVE  Planned(d, id)' = Planned(d, id) /\ Referrers(d, id)' = Referrers(d, id)
    <3>1. Holders(d, id)' = Holders(d, id)
      BY <1>0, <2>1, <2>5 DEF Holders, Held
    <3>2. Referrers(d, id)' = Referrers(d, id)
      BY <1>4, <2>6, <3>1 DEF Referrers
    <3>3. CASE d = e
      <4>1. Planned(e, id) = Stored(e, id) + Delta(child.delta, id)
        BY <1>0, <2>1 DEF Planned
      <4> QED
        BY <2>4, <3>2, <3>3, <4>1
    <3>4. CASE d = m
      <4>1. Stored(d, id)' = Planned(d, id)
        BY <1>1, <2>6, <3>4
      <4>2. d # e - 1 /\ d # e
        BY <1>0, <2>1, <3>4 DEF Depths
      <4>3. Planned(d, id)' = Stored(d, id)'
        BY <2>4, <4>2
      <4> QED
        BY <3>2, <4>1, <4>3
    <3>5. CASE d # m /\ d # e
      <4>1. Stored(d, id)' = Stored(d, id)
        BY <1>2, <3>5
      <4>2. Planned(d, id) = Stored(d, id) /\ Stored(d, id) \in Int
        BY <1>0, <1>4, <2>1, <2>6, <3>5 DEF Planned
      <4>3. Planned(d, id)' = Stored(d, id)
        BY <2>4, <3>5, <4>1, <4>2
      <4> QED
        BY <3>2, <4>2, <4>3
    <3> QED
      BY <3>3, <3>4, <3>5
  <2>7. RefInv'
    BY <1>0, <1>4, <2>6 DEF RefInv, Counted, in_place
  <2>8. InPlaceInv'
    BY <1>3, <2>4, <2>5 DEF InPlaceInv
  <2>9. LiveInv'
    BY <1>0, <2>1, <2>5 DEF LiveInv
  <2> QED
    BY <1>1, <2>4, <2>7, <2>8, <2>9 DEF CountInv
<1>6. CASE ~(m > 1)
  <2>1. /\ nodec' = [nodec EXCEPT ![op.handle] = op.target]
        /\ live' = IF op.kind = "destroy" THEN live \ {op.handle} ELSE live
        /\ lvl' = 0 /\ Idle' /\ m = 1
    BY <1>0, <1>6 DEF FinishLevel, Idle, Depths
  <2>2. nodec = [h \in Handles |-> nodec[h]] /\ op.handle \in live /\ live \subseteq Handles
    BY <1>0 DEF OperationOK, TypeOK, HandlesOK
  <2>3. \A h \in Handles : Held(h)' = Held(h)
    BY <1>0, <2>1, <2>2 DEF Held
  <2>4. \A d, id : Holders(d, id)' = Holders(d, id)
    BY <2>3 DEF Holders
  <2>5. ASSUME NEW d \in Depths, NEW id \in RawIdentifiers(d), Counted(d, id)
        PROVE  Planned(d, id)' = Planned(d, id) /\ Referrers(d, id)' = Referrers(d, id)
    <3>1. Referrers(d, id)' = Referrers(d, id)
      BY <1>4, <2>4, <2>5 DEF Referrers
    <3>2. Planned(d, id)' = Stored(d, id)'
      BY <2>1 DEF Planned, Depths
    <3>3. CASE d = m
      BY <1>1, <2>5, <3>1, <3>2, <3>3
    <3>4. CASE d # m
      <4>1. Planned(d, id) = Stored(d, id)
        BY <1>0, <2>1, <3>4 DEF Planned, Depths
      <4> QED
        BY <1>2, <3>1, <3>2, <3>4, <4>1
    <3> QED
      BY <3>3, <3>4
  <2>6. RefInv'
    BY <1>0, <1>4, <2>5 DEF RefInv, Counted, in_place
  <2>7. PlanInv' /\ InPlaceInv'
    BY <1>3, <2>1 DEF PlanInv, InPlaceInv
  <2>8. LiveInv'
    <3>1. IsFiniteSet(live')
      BY <1>0, <2>1, FS_Subset DEF LiveInv
    <3>2. \A h \in Handles : h \notin live' => nodec'[h] = NoId
      BY <1>0, <2>1, <2>2 DEF LiveInv
    <3> QED
      BY <2>1, <3>1, <3>2 DEF LiveInv
  <2> QED
    BY <1>1, <2>6, <2>7, <2>8 DEF CountInv
<1> QED
  BY <1>5, <1>6

-----------------------------------------------------------------------------
(* The operations.                                                         *)

\* Two sets that differ in at most one element.
LEMMA DifferInOne ==
    ASSUME NEW A, NEW B, IsFiniteSet(A), NEW g, A \ {g} = B \ {g}
    PROVE  /\ IsFiniteSet(B) /\ Cardinality(A) \in Nat /\ Cardinality(B) \in Nat
           /\ Cardinality(B) = Cardinality(A) - (IF g \in A THEN 1 ELSE 0) + (IF g \in B THEN 1 ELSE 0)
<1>1. IsFiniteSet(A \cup {g}) /\ B \subseteq A \cup {g}
  BY FS_AddElement
<1>2. IsFiniteSet(B)
  BY <1>1, FS_Subset
<1>3. Cardinality(A) \in Nat /\ Cardinality(B) \in Nat
  BY <1>2, FS_CardinalityType
<1>4. Cardinality(A \ {g}) = IF g \in A THEN Cardinality(A) - 1 ELSE Cardinality(A)
  BY FS_RemoveElement
<1>5. Cardinality(B \ {g}) = IF g \in B THEN Cardinality(B) - 1 ELSE Cardinality(B)
  BY <1>2, FS_RemoveElement
<1> QED
  BY <1>2, <1>3, <1>4, <1>5

\* Between operations the planned count is the stored one.
LEMMA IdlePlanned ==
    ASSUME Idle, NEW d \in Depths, NEW id
    PROVE  Planned(d, id) = Stored(d, id)
BY DEF Idle, Planned, Depths

\* An operation that starts an update requests one reference for the node that
\* its Hypertrie will have, and gives up the one for the node it has.
LEMMA BeginCounts ==
    ASSUME TypeOK, CanonicalInv, CountInv, Idle, NEW h \in live, NEW kind, NEW es, NEW call,
           IsCall(HandleDepth[h], call), Begin(h, kind, es, call),
           \A id : Counted(HandleDepth[h], id) =>
               /\ id \in Gains(HandleDepth[h], call) <=>
                      kind # "destroy" /\ id = Returned(HandleDepth[h], call)
               /\ id \in Loses(HandleDepth[h], call) <=> id = nodec[h]
    PROVE  CountInv'
<1> DEFINE d == HandleDepth[h]
           r == Requested(d, NoRequests, {call})
           target == IF kind = "destroy" THEN NoId ELSE Returned(d, call)
<1>0. h \in Handles /\ d \in Depths /\ LiveInv /\ StorageOK
  BY HandleAssumption DEF TypeOK, HandlesOK, CountInv
<1>1. /\ op' = [kind |-> kind, handle |-> h, entries |-> es, target |-> target]
      /\ StartLevel(d, r) /\ UNCHANGED <<fns, sens, nodec, live, assigned>>
  BY DEF Begin
<1>2. IsFiniteSet({call}) /\ IsRequests(d, NoRequests)
  BY NoRequestsType, FS_Singleton
<1>3. IsRequests(d, r)
  BY <1>2, RequestedType
<1>4. \A x \in DOMAIN r.delta : ~in_place(d, x)
  <2>1. \A x \in DOMAIN NoRequests.delta : ~in_place(d, x)
    BY DEF NoRequests, EmptyMap
  <2> QED
    BY <2>1, RequestedInPlace
<1>5. ASSUME NEW id, Counted(d, id)
      PROVE  Delta(r.delta, id) = (IF id = target THEN 1 ELSE 0) - (IF id = nodec[h] THEN 1 ELSE 0)
  <2>0. id # NoId
    BY <1>5 DEF Counted, empty
  <2>1. Delta(NoRequests.delta, id) = 0
    BY DEF Delta, NoRequests, EmptyMap
  <2>2. Delta(r.delta, id) = 0 + Cardinality(Gained({call}, d, id)) - Cardinality(Lost({call}, d, id))
    BY <1>2, <2>1, RequestedDelta
  <2>3. Gained({call}, d, id) = IF id = target THEN {call} ELSE {}
    BY <1>5, <2>0 DEF Gained
  <2>4. Lost({call}, d, id) = IF id = nodec[h] THEN {call} ELSE {}
    BY <1>5 DEF Lost
  <2>5. Cardinality({call}) = 1 /\ Cardinality({}) = 0
    BY FS_Singleton, FS_EmptySet
  <2>6. Cardinality(Gained({call}, d, id)) = IF id = target THEN 1 ELSE 0
    BY <2>3, <2>5
  <2>7. Cardinality(Lost({call}, d, id)) = IF id = nodec[h] THEN 1 ELSE 0
    BY <2>4, <2>5
  <2> HIDE DEF r, target
  <2> QED
    BY <2>2, <2>6, <2>7
<1> HIDE DEF r, target
<1>6. /\ \A id : Planned(d, id)' = Stored(d, id) + Delta(r.delta, id)
      /\ \A x, id : x # d => Planned(x, id)' = IF x = d - 1 THEN Stored(x, id)' + 0 ELSE Stored(x, id)'
      /\ PlanInv'
      /\ \A id \in DOMAIN plan'.delta : ~in_place(d, id)
      /\ DOMAIN child'.delta = {}
  <2>1. fns'[d] = fns[d] /\ sens'[d] = sens[d]
    BY <1>1
  <2> HIDE DEF d
  <2> QED
    BY <1>0, <1>1, <1>3, <1>4, <2>1, StartLevelCounts
<1>7. lvl' = d /\ ~Idle' /\ op'.handle = h /\ op'.target = target /\ op'.kind = kind
  BY <1>0, <1>1 DEF StartLevel, Idle, Depths
<1>8. \A x, id : Stored(x, id)' = Stored(x, id) /\ ParentEdges(x, id)' = ParentEdges(x, id)
  BY <1>1 DEF Stored, ParentEdges
<1>9. \A g \in Handles : Held(g) = nodec[g] /\ Held(g)' = IF g = h THEN target ELSE nodec[g]
  BY <1>1, <1>7 DEF Held
<1>10. RefInv'
  <2> SUFFICES ASSUME NEW x \in Depths, NEW id \in RawIdentifiers(x), Counted(x, id)
               PROVE  /\ Planned(x, id)' >= Referrers(x, id)'
                      /\ assigned = 0 => Planned(x, id)' = Referrers(x, id)'
    BY <1>1 DEF RefInv, Counted, in_place
  <2>0. id # NoId
    BY DEF Counted, empty
  <2>1. /\ Stored(x, id) >= Referrers(x, id)
        /\ assigned = 0 => Stored(x, id) = Referrers(x, id)
    BY IdlePlanned DEF CountInv, RefInv
  <2>2. /\ Stored(x, id) \in Int /\ IsFiniteSet(Holders(x, id)) /\ Cardinality(Holders(x, id)) \in Nat
        /\ Cardinality(ParentEdges(x, id)) \in Nat
    BY <1>0, <2>0, CountTypes
  <2>3. CASE x # d
    <3>1. Planned(x, id)' = Stored(x, id)
      BY <1>6, <1>8, <2>2, <2>3
    <3>2. Holders(x, id)' = Holders(x, id)
      BY <1>9, <2>3 DEF Holders
    <3>3. Referrers(x, id)' = Referrers(x, id)
      BY <1>8, <3>2 DEF Referrers
    <3> QED
      BY <2>1, <3>1, <3>3
  <2>4. CASE x = d
    <3>1. Planned(x, id)' = Stored(x, id) + (IF id = target THEN 1 ELSE 0) - (IF id = nodec[h] THEN 1 ELSE 0)
      <4>1. Planned(x, id)' = Stored(x, id) + Delta(r.delta, id)
        BY <1>6, <2>4
      <4>2. Delta(r.delta, id) = (IF id = target THEN 1 ELSE 0) - (IF id = nodec[h] THEN 1 ELSE 0)
        BY <1>5, <2>4
      <4> QED
        BY <2>2, <4>1, <4>2
    <3> DEFINE A == Holders(x, id)
               B == {g \in Handles : HandleDepth[g] = x /\ Held(g)' = id}
    <3>2. B = Holders(x, id)'
      BY DEF Holders
    <3>3. A \ {h} = B \ {h}
      BY <1>9 DEF Holders
    <3>4. (h \in A <=> id = nodec[h]) /\ (h \in B <=> id = target)
      BY <1>0, <1>9, <2>4 DEF Holders
    <3> HIDE DEF A, B
    <3>5. Cardinality(B) = Cardinality(A) - (IF h \in A THEN 1 ELSE 0) + (IF h \in B THEN 1 ELSE 0)
      BY <2>2, <3>3, DifferInOne DEF A
    <3>6. Cardinality(B) = Cardinality(A) - (IF id = nodec[h] THEN 1 ELSE 0) + (IF id = target THEN 1 ELSE 0)
      BY <3>4, <3>5
    <3>7. Referrers(x, id) = Cardinality(ParentEdges(x, id)) + Cardinality(A)
      BY DEF Referrers, A
    <3>8. Referrers(x, id)' = Cardinality(ParentEdges(x, id)) + Cardinality(B)
      BY <1>8, <3>2 DEF Referrers
    <3>9. Cardinality(A) \in Nat
      BY <2>2 DEF A
    <3> QED
      BY <2>1, <2>2, <3>1, <3>6, <3>7, <3>8, <3>9
  <2> QED
    BY <2>3, <2>4
<1>11. InPlaceInv'
  BY <1>1, <1>6, <1>7 DEF InPlaceInv, CountInv
<1>12. PositiveInv'
  BY <1>1 DEF PositiveInv, CountInv
<1>13. LiveInv'
  BY <1>0, <1>1, <1>7 DEF LiveInv, target
<1> QED
  BY <1>6, <1>10, <1>11, <1>12, <1>13 DEF CountInv

LEMMA CallEffect ==
    ASSUME NEW d, NEW id, Counted(d, id), NEW source, NEW es
    PROVE  /\ id \in Gains(d, Call("add", NoId, es)) <=> id = Returned(d, Call("add", NoId, es))
           /\ id \notin Loses(d, Call("add", NoId, es))
           /\ \A kind \in {"insert", "remove"} :
                /\ id \in Gains(d, Call(kind, source, es)) <=> id = Returned(d, Call(kind, source, es))
                /\ id \in Loses(d, Call(kind, source, es)) <=> id = source
           /\ id \notin Gains(d, Call("drop", source, es))
           /\ id \in Loses(d, Call("drop", source, es)) <=> id = source
<1>0. ~empty(id) /\ ~in_place(d, id)
  BY DEF Counted
<1>1. /\ id \in Gains(d, Call("add", NoId, es)) <=> id = Returned(d, Call("add", NoId, es))
      /\ id \notin Loses(d, Call("add", NoId, es))
  BY <1>0 DEF Gains, Loses, Call
<1>2. ASSUME NEW kind \in {"insert", "remove"}
      PROVE  /\ id \in Gains(d, Call(kind, source, es)) <=> id = Returned(d, Call(kind, source, es))
             /\ id \in Loses(d, Call(kind, source, es)) <=> id = source
  <2> DEFINE c == Call(kind, source, es)
  <2>1. c.call = kind /\ c.source = source /\ c.decrement = TRUE
    BY DEF Call
  <2> HIDE DEF c
  <2>2. id \in Gains(d, c) <=> id = Returned(d, c)
    BY <1>0, <2>1 DEF Gains
  <2>3. id \in Loses(d, c) <=> id = source
    BY <1>0, <2>1 DEF Loses
  <2> QED
    BY <2>2, <2>3 DEF c
<1>3. /\ id \notin Gains(d, Call("drop", source, es))
      /\ id \in Loses(d, Call("drop", source, es)) <=> id = source
  BY <1>0 DEF Gains, Loses, Call
<1> QED
  BY <1>1, <1>2, <1>3

LEMMA insertCounts ==
    ASSUME TypeOK, CanonicalInv, CountInv, NEW h \in Handles, NEW es \in SUBSET Keys(HandleDepth[h]),
           insert(h, es)
    PROVE  CountInv'
<1> DEFINE d == HandleDepth[h]
<1>0. Idle /\ h \in live /\ nodec[h] \in RawIdentifiers(d)
  BY DEF insert, TypeOK, HandlesOK
<1>1. CASE empty(nodec[h])
  <2> DEFINE call == Call("add", NoId, es)
  <2>1. Begin(h, "insert", es, call) /\ IsCall(d, call)
    BY <1>1, IdentifierTypes DEF insert, IsCall, Call, CallNames
  <2>2. \A id : Counted(d, id) => /\ id \in Gains(d, call) <=> id = Returned(d, call)
                                  /\ id \in Loses(d, call) <=> id = nodec[h]
    BY <1>1, CallEffect DEF Counted, empty
  <2> HIDE DEF call
  <2> QED
    BY <1>0, <2>1, <2>2, BeginCounts
<1>2. CASE ~empty(nodec[h])
  <2> DEFINE call == Call("insert", nodec[h], es)
  <2>1. Begin(h, "insert", es, call) /\ IsCall(d, call)
    BY <1>0, <1>2 DEF insert, IsCall, Call, CallNames
  <2>2. \A id : Counted(d, id) => /\ id \in Gains(d, call) <=> id = Returned(d, call)
                                  /\ id \in Loses(d, call) <=> id = nodec[h]
    BY CallEffect
  <2> HIDE DEF call
  <2> QED
    BY <1>0, <2>1, <2>2, BeginCounts
<1> QED
  BY <1>1, <1>2

LEMMA removeCounts ==
    ASSUME TypeOK, CanonicalInv, CountInv, NEW h \in Handles, NEW es \in SUBSET Keys(HandleDepth[h]),
           remove(h, es)
    PROVE  CountInv'
<1> DEFINE d == HandleDepth[h]
           call == Call("remove", nodec[h], es)
<1>0. Idle /\ h \in live /\ nodec[h] \in RawIdentifiers(d)
  BY DEF remove, TypeOK, HandlesOK
<1>1. Begin(h, "remove", es, call) /\ IsCall(d, call)
  BY <1>0 DEF remove, IsCall, Call, CallNames
<1>2. \A id : Counted(d, id) => /\ id \in Gains(d, call) <=> id = Returned(d, call)
                                /\ id \in Loses(d, call) <=> id = nodec[h]
  BY CallEffect
<1> HIDE DEF call
<1> QED
  BY <1>0, <1>1, <1>2, BeginCounts

\* Between operations what is referred to is stored.
LEMMA ReferredStored ==
    ASSUME TypeOK, CountInv, Idle, NEW d \in Depths, NEW id \in RawIdentifiers(d), Counted(d, id),
           Holders(d, id) # {} \/ ParentEdges(d, id) # {}
    PROVE  /\ Stored(d, id) >= 1
           /\ id \in IF is_fn(id) THEN DOMAIN fns[d] ELSE DOMAIN sens[d]
<1>0. id # NoId /\ LiveInv
  BY DEF Counted, empty, CountInv
<1>1. Stored(d, id) >= Referrers(d, id)
  BY IdlePlanned DEF CountInv, RefInv
<1>2. /\ IsFiniteSet(Holders(d, id)) /\ Cardinality(Holders(d, id)) \in Nat
      /\ IsFiniteSet(ParentEdges(d, id)) /\ Cardinality(ParentEdges(d, id)) \in Nat
      /\ Stored(d, id) \in Int
  BY <1>0, CountTypes
<1>3. Cardinality(Holders(d, id)) # 0 \/ Cardinality(ParentEdges(d, id)) # 0
  BY <1>2, FS_EmptySet
<1>4. Stored(d, id) >= 1
  BY <1>1, <1>2, <1>3 DEF Referrers
<1> QED
  BY <1>4 DEF Stored

\* The stored counts are numbers.
LEMMA StoredInt ==
    ASSUME TypeOK, NEW d \in Depths, NEW id
    PROVE  Stored(d, id) \in Int
<1>1. \A x \in DOMAIN fns[d] : fns[d][x].ref \in Int
  BY DEF TypeOK, StorageOK, IsFullNode
<1>2. \A x \in DOMAIN sens[d] : sens[d][x].ref \in Int
  BY DEF TypeOK, StorageOK, IsMap, SingleEntryNodes
<1> QED
  BY <1>1, <1>2 DEF Stored

\* Counting one more or one less reference of a node that is referred to.
LEMMA AddToRefCounts ==
    ASSUME TypeOK, CountInv, Idle, NEW h \in Handles, Counted(HandleDepth[h], nodec[h]),
           NEW n \in Int, AddToRef(HandleDepth[h], nodec[h], n),
           RefOf(HandleDepth[h], nodec[h]) + n > 0
    PROVE  /\ \A d \in Depths : \A id : Stored(d, id)' =
                  Stored(d, id) + (IF d = HandleDepth[h] /\ id = nodec[h] THEN n ELSE 0)
           /\ \A d \in Depths : \A id : ParentEdges(d, id)' = ParentEdges(d, id)
           /\ PositiveInv'
           /\ \A d \in Depths : DOMAIN sens'[d] = DOMAIN sens[d]
<1> DEFINE e == HandleDepth[h]
           t == nodec[h]
<1>0. e \in Depths /\ t \in RawIdentifiers(e) /\ t # NoId /\ Counted(e, t)
  BY HandleAssumption DEF TypeOK, HandlesOK, Counted, empty
<1>1. h \in Holders(e, t)
  BY DEF Holders, Held
<1>2. t \in IF is_fn(t) THEN DOMAIN fns[e] ELSE DOMAIN sens[e]
  BY <1>0, <1>1, ReferredStored
<1>3. /\ \A d \in Depths : \A id \in DOMAIN fns[d] : IsFullNode(d, fns[d][id])
      /\ \A d \in Depths : \A id \in DOMAIN sens[d] : sens[d][id] \in SingleEntryNodes(d)
  BY DEF TypeOK, StorageOK, IsMap
<1>30. /\ \A d \in Depths : \A id \in DOMAIN fns[d] : fns[d][id].ref \in Int
       /\ \A d \in Depths : \A id \in DOMAIN sens[d] : sens[d][id].ref \in Int
  <2>1. \A d \in Depths : \A id \in DOMAIN fns[d] : fns[d][id].ref \in Int
    BY <1>3 DEF IsFullNode
  <2>2. \A d \in Depths : \A id \in DOMAIN sens[d] : sens[d][id].ref \in Int
    BY <1>3 DEF SingleEntryNodes
  <2> QED
    BY <2>1, <2>2
<1>4. AddToRef(e, t, n) /\ RefOf(e, t) + n > 0
  OBVIOUS
<1> HIDE DEF e, t
<1>5. CASE is_fn(t)
  <2>1. /\ sens' = sens /\ \A d \in Depths \ {e} : fns'[d] = fns[d]
        /\ fns'[e] = [fns[e] EXCEPT ![t].ref = @ + n]
    BY <1>0, <1>4, <1>5 DEF AddToRef, TypeOK, StorageOK
  <2>2. /\ DOMAIN fns'[e] = DOMAIN fns[e]
        /\ \A id \in DOMAIN fns[e] : fns'[e][id] = IF id = t THEN [fns[e][t] EXCEPT !.ref = @ + n] ELSE fns[e][id]
    BY <2>1
  <2>3. \A id \in DOMAIN fns[e] : /\ fns'[e][id].edges = fns[e][id].edges
                                  /\ fns'[e][id].ref = IF id = t THEN fns[e][id].ref + n ELSE fns[e][id].ref
                                  /\ fns[e][id].ref \in Int
    <3> SUFFICES ASSUME NEW id \in DOMAIN fns[e]
                 PROVE  /\ fns'[e][id].edges = fns[e][id].edges
                        /\ fns'[e][id].ref = IF id = t THEN fns[e][id].ref + n ELSE fns[e][id].ref
      BY <1>0, <1>30
    <3>1. CASE id # t
      BY <2>2, <3>1
    <3>2. CASE id = t
      <4> DEFINE node == fns[e][t]
      <4>1. node = [ref |-> node.ref, size |-> node.size, edges |-> node.edges]
        BY <1>0, <1>3, <3>2 DEF IsFullNode
      <4>2. fns'[e][t] = [node EXCEPT !.ref = @ + n]
        BY <2>2, <3>2
      <4> HIDE DEF node
      <4>3. fns'[e][t].edges = node.edges /\ fns'[e][t].ref = node.ref + n
        BY <4>1, <4>2
      <4> QED
        BY <3>2, <4>3 DEF node
    <3> QED
      BY <3>1, <3>2
  <2>4. ASSUME NEW d \in Depths, NEW id
        PROVE  Stored(d, id)' = Stored(d, id) + (IF d = e /\ id = t THEN n ELSE 0)
    <3>0. Stored(d, id) \in Int
      BY StoredInt
    <3>1. CASE d # e \/ ~is_fn(id) \/ id \notin DOMAIN fns[e]
      <4>1. Stored(d, id)' = Stored(d, id) /\ ~(d = e /\ id = t)
        BY <1>2, <1>5, <2>1, <2>2, <3>1 DEF Stored
      <4> QED
        BY <3>0, <4>1
    <3>2. CASE d = e /\ is_fn(id) /\ id \in DOMAIN fns[e]
      <4>1. Stored(d, id) = fns[e][id].ref /\ Stored(d, id)' = fns'[e][id].ref
        BY <2>2, <3>2 DEF Stored
      <4> QED
        BY <2>3, <3>0, <3>2, <4>1
    <3> QED
      BY <3>1, <3>2
  <2>5. ASSUME NEW d \in Depths, NEW id PROVE ParentEdges(d, id)' = ParentEdges(d, id)
    <3>1. EdgesInto(e, fns'[e], id) = EdgesInto(e, fns[e], id)
      BY <2>2, <2>3, SameEdges
    <3>2. d # MaxDepth => EdgesInto(d + 1, fns'[d + 1], id) = EdgesInto(d + 1, fns[d + 1], id)
      BY <2>1, <3>1, ParentEdgesInto
    <3> QED
      BY <3>2, ParentEdgesSame
  <2>6. PositiveInv'
    <3>1. \A id \in DOMAIN fns'[e] : fns'[e][id].ref > 0
      BY <1>0, <1>4, <1>5, <2>2, <2>3 DEF RefOf, CountInv, PositiveInv
    <3> QED
      BY <2>1, <3>1 DEF CountInv, PositiveInv
  <2> QED
    BY <2>1, <2>4, <2>5, <2>6 DEF e, t
<1>6. CASE ~is_fn(t)
  <2>1. /\ fns' = fns /\ \A d \in Depths \ {e} : sens'[d] = sens[d]
        /\ sens'[e] = [sens[e] EXCEPT ![t].ref = @ + n]
    BY <1>0, <1>4, <1>6 DEF AddToRef, TypeOK, StorageOK
  <2>2. /\ DOMAIN sens'[e] = DOMAIN sens[e]
        /\ \A id \in DOMAIN sens[e] : sens'[e][id] = IF id = t THEN [sens[e][t] EXCEPT !.ref = @ + n] ELSE sens[e][id]
    BY <2>1
  <2>3. \A id \in DOMAIN sens[e] : /\ sens'[e][id].ref = IF id = t THEN sens[e][id].ref + n ELSE sens[e][id].ref
                                   /\ sens[e][id].ref \in Int
    BY <1>0, <1>3, <1>30, <2>2 DEF SingleEntryNodes
  <2>4. ASSUME NEW d \in Depths, NEW id
        PROVE  Stored(d, id)' = Stored(d, id) + (IF d = e /\ id = t THEN n ELSE 0)
    <3>0. Stored(d, id) \in Int
      BY StoredInt
    <3>1. CASE d # e \/ is_fn(id) \/ id \notin DOMAIN sens[e]
      <4>1. Stored(d, id)' = Stored(d, id) /\ ~(d = e /\ id = t)
        BY <1>2, <1>6, <2>1, <2>2, <3>1 DEF Stored
      <4> QED
        BY <3>0, <4>1
    <3>2. CASE d = e /\ ~is_fn(id) /\ id \in DOMAIN sens[e]
      <4>1. Stored(d, id) = sens[e][id].ref /\ Stored(d, id)' = sens'[e][id].ref
        BY <2>2, <3>2 DEF Stored
      <4> QED
        BY <2>3, <3>0, <3>2, <4>1
    <3> QED
      BY <3>1, <3>2
  <2>5. \A d \in Depths : \A id : ParentEdges(d, id)' = ParentEdges(d, id)
    BY <2>1 DEF ParentEdges
  <2>6. PositiveInv'
    <3>1. \A id \in DOMAIN sens'[e] : sens'[e][id].ref > 0
      BY <1>0, <1>4, <1>6, <2>2, <2>3 DEF RefOf, CountInv, PositiveInv
    <3> QED
      BY <2>1, <3>1 DEF CountInv, PositiveInv
  <2> QED
    BY <2>1, <2>2, <2>4, <2>5, <2>6 DEF e, t
<1> QED
  BY <1>5, <1>6

\* Between operations Hypertries may come, go and change hands, if every node
\* that is counted gets a count for each Hypertrie that comes to hold it.
LEMMA HandleCounts ==
    ASSUME TypeOK, CountInv, Idle, UNCHANGED update,
           \A d \in Depths : \A id : ParentEdges(d, id)' = ParentEdges(d, id),
           \A d \in Depths : \A id \in RawIdentifiers(d) : Counted(d, id) =>
               /\ Stored(d, id)' \in Int /\ Cardinality(Holders(d, id)') \in Nat
               /\ Stored(d, id)' - Cardinality(Holders(d, id)') >= Stored(d, id) - Cardinality(Holders(d, id))
               /\ assigned' = 0 =>
                    /\ assigned = 0
                    /\ Stored(d, id)' - Cardinality(Holders(d, id)') = Stored(d, id) - Cardinality(Holders(d, id)),
           PositiveInv', \A d \in Depths : DOMAIN sens'[d] = DOMAIN sens[d],
           IsFiniteSet(live'), \A h \in Handles : h \notin live' => nodec'[h] = NoId
    PROVE  CountInv'
<1>0. Idle' /\ LiveInv
  BY DEF update, Idle, CountInv
<1>1. RefInv'
  <2> SUFFICES ASSUME NEW d \in Depths, NEW id \in RawIdentifiers(d), Counted(d, id)
               PROVE  /\ Planned(d, id)' >= Referrers(d, id)'
                      /\ assigned' = 0 => Planned(d, id)' = Referrers(d, id)'
    BY DEF RefInv, Counted, in_place
  <2>1. /\ Stored(d, id) >= Referrers(d, id)
        /\ assigned = 0 => Stored(d, id) = Referrers(d, id)
    BY IdlePlanned DEF CountInv, RefInv
  <2>2. Planned(d, id)' = Stored(d, id)'
    BY <1>0 DEF Planned, Idle, Depths
  <2>3. id # NoId
    BY DEF Counted, empty
  <2>4. /\ Stored(d, id) \in Int /\ Cardinality(Holders(d, id)) \in Nat
        /\ Cardinality(ParentEdges(d, id)) \in Nat
    BY <1>0, <2>3, CountTypes
  <2>5. Referrers(d, id)' = Cardinality(ParentEdges(d, id)) + Cardinality(Holders(d, id)')
    BY DEF Referrers
  <2>6. Referrers(d, id) = Cardinality(ParentEdges(d, id)) + Cardinality(Holders(d, id))
    BY DEF Referrers
  <2>7. /\ Stored(d, id)' \in Int /\ Cardinality(Holders(d, id)') \in Nat
        /\ Stored(d, id)' - Cardinality(Holders(d, id)') >= Stored(d, id) - Cardinality(Holders(d, id))
        /\ assigned' = 0 =>
             /\ assigned = 0
             /\ Stored(d, id)' - Cardinality(Holders(d, id)') = Stored(d, id) - Cardinality(Holders(d, id))
    OBVIOUS
  <2> QED
    BY <2>1, <2>2, <2>4, <2>5, <2>6, <2>7
<1>2. PlanInv'
  BY <1>0 DEF PlanInv
<1>3. InPlaceInv'
  BY <1>0 DEF InPlaceInv, CountInv, in_place
<1>4. LiveInv'
  BY <1>0 DEF LiveInv
<1> QED
  BY <1>1, <1>2, <1>3, <1>4 DEF CountInv

\* The Hypertries that hold a node when one of them gets another node.
Holding(f, d, id) == {h \in Handles : HandleDepth[h] = d /\ f[h] = id}

DifferAt(f, f2, g) == \A h \in Handles \ {g} : f2[h] = f[h]

LEMMA HoldingChange ==
    ASSUME NEW f, NEW f2, NEW g \in Handles, DifferAt(f, f2, g),
           NEW d, NEW id, IsFiniteSet(Holding(f, d, id))
    PROVE  /\ IsFiniteSet(Holding(f2, d, id)) /\ Cardinality(Holding(f2, d, id)) \in Nat
           /\ Cardinality(Holding(f2, d, id)) =
                  Cardinality(Holding(f, d, id)) - (IF HandleDepth[g] = d /\ f[g] = id THEN 1 ELSE 0)
                                                 + (IF HandleDepth[g] = d /\ f2[g] = id THEN 1 ELSE 0)
<1> DEFINE A == Holding(f, d, id)
           B == Holding(f2, d, id)
<1>1. A \ {g} = B \ {g}
  BY DEF Holding, DifferAt
<1>2. (g \in A <=> HandleDepth[g] = d /\ f[g] = id) /\ (g \in B <=> HandleDepth[g] = d /\ f2[g] = id)
  BY DEF Holding
<1> HIDE DEF A, B
<1>3. /\ IsFiniteSet(B) /\ Cardinality(A) \in Nat /\ Cardinality(B) \in Nat
      /\ Cardinality(B) = Cardinality(A) - (IF g \in A THEN 1 ELSE 0) + (IF g \in B THEN 1 ELSE 0)
  BY <1>1, DifferInOne DEF A
<1>4. /\ IsFiniteSet(B) /\ Cardinality(B) \in Nat
      /\ Cardinality(B) = Cardinality(A) - (IF HandleDepth[g] = d /\ f[g] = id THEN 1 ELSE 0)
                                         + (IF HandleDepth[g] = d /\ f2[g] = id THEN 1 ELSE 0)
  BY <1>2, <1>3
<1> QED
  BY <1>4 DEF A, B

LEMMA HoldingMove ==
    ASSUME NEW f, f = [h \in Handles |-> f[h]], NEW d, NEW id, id # NoId, IsFiniteSet(Holding(f, d, id)),
           NEW g \in Handles, NEW h \in Handles, g # h, HandleDepth[g] = HandleDepth[h],
           NEW f2, f2 = [f EXCEPT ![g] = f[h], ![h] = NoId]
    PROVE  /\ Cardinality(Holding(f2, d, id)) \in Nat
           /\ Cardinality(Holding(f2, d, id)) =
                  Cardinality(Holding(f, d, id)) - (IF HandleDepth[g] = d /\ f[g] = id THEN 1 ELSE 0)
<1> DEFINE k == [f EXCEPT ![g] = f[h]]
           lost == IF HandleDepth[g] = d /\ f[g] = id THEN 1 ELSE 0
           won == IF HandleDepth[g] = d /\ k[g] = id THEN 1 ELSE 0
           moved == IF HandleDepth[h] = d /\ k[h] = id THEN 1 ELSE 0
           none == IF HandleDepth[h] = d /\ f2[h] = id THEN 1 ELSE 0
<1>1. DifferAt(f, k, g) /\ DifferAt(k, f2, h)
  BY DEF DifferAt
<1>2. /\ Cardinality(Holding(f, d, id)) \in Nat /\ lost \in {0, 1} /\ won \in {0, 1}
      /\ won = moved /\ none = 0
  BY FS_CardinalityType
<1> HIDE DEF k
<1>4. /\ IsFiniteSet(Holding(k, d, id)) /\ Cardinality(Holding(k, d, id)) \in Nat
      /\ Cardinality(Holding(k, d, id)) = Cardinality(Holding(f, d, id)) - lost + won
  BY <1>1, HoldingChange
<1>5. /\ Cardinality(Holding(f2, d, id)) \in Nat
      /\ Cardinality(Holding(f2, d, id)) = Cardinality(Holding(k, d, id)) - moved + none
  BY <1>1, <1>4, HoldingChange
<1> HIDE DEF lost, won, moved, none
<1>6. Cardinality(Holding(f2, d, id)) = Cardinality(Holding(f, d, id)) - lost
  BY <1>2, <1>4, <1>5
<1> QED
  BY <1>5, <1>6 DEF lost

\* Between operations the nodes are held by the Hypertries that have them.
LEMMA IdleHolders ==
    ASSUME TypeOK, CountInv, Idle, UNCHANGED update, NEW d \in Depths, NEW id \in RawIdentifiers(d),
           Counted(d, id)
    PROVE  /\ Holders(d, id) = Holding(nodec, d, id)
           /\ Holders(d, id)' = Holding(nodec', d, id)
           /\ IsFiniteSet(Holding(nodec, d, id)) /\ Cardinality(Holding(nodec, d, id)) \in Nat
           /\ nodec = [h \in Handles |-> nodec[h]]
           /\ Stored(d, id) \in Int /\ id # NoId
<1>1. Idle' /\ id # NoId /\ LiveInv
  BY DEF update, Idle, Counted, empty, CountInv
<1>2. Holders(d, id) = Holding(nodec, d, id)
  BY DEF Holders, Held, Holding
<1>3. Holders(d, id)' = Holding(nodec', d, id)
  BY <1>1 DEF Holders, Held, Holding
<1>4. IsFiniteSet(Holders(d, id)) /\ Cardinality(Holders(d, id)) \in Nat /\ Stored(d, id) \in Int
  BY <1>1, CountTypes
<1> QED
  BY <1>1, <1>2, <1>3, <1>4 DEF TypeOK, HandlesOK

\* inc_ref_count.
LEMMA IncRefCounts ==
    ASSUME TypeOK, CountInv, Idle, NEW h \in Handles, inc_ref_count(HandleDepth[h], nodec[h])
    PROVE  /\ \A d \in Depths : \A id : Counted(d, id) => Stored(d, id)' =
                  Stored(d, id) + (IF d = HandleDepth[h] /\ id = nodec[h] THEN 1 ELSE 0)
           /\ \A d \in Depths : \A id : ParentEdges(d, id)' = ParentEdges(d, id)
           /\ PositiveInv'
           /\ \A d \in Depths : DOMAIN sens'[d] = DOMAIN sens[d]
<1> DEFINE e == HandleDepth[h]
           t == nodec[h]
<1>0. e \in Depths /\ t \in RawIdentifiers(e)
  BY HandleAssumption DEF TypeOK, HandlesOK
<1>1. CASE Counted(e, t)
  <2>1. h \in Holders(e, t)
    BY DEF Holders, Held
  <2>2. Stored(e, t) >= 1 /\ t \in IF is_fn(t) THEN DOMAIN fns[e] ELSE DOMAIN sens[e]
    BY <1>0, <1>1, <2>1, ReferredStored
  <2>3. Stored(e, t) = RefOf(e, t)
    BY <2>2 DEF Stored, RefOf
  <2>4. Stored(e, t) \in Int
    <3>1. t # NoId /\ LiveInv
      BY <1>1 DEF Counted, empty, CountInv
    <3> QED
      BY <1>0, <3>1, CountTypes
  <2>5. RefOf(e, t) + 1 > 0
    BY <2>2, <2>3, <2>4
  <2>6. AddToRef(e, t, 1)
    BY <1>1 DEF inc_ref_count
  <2> QED
    BY <1>1, <2>5, <2>6, AddToRefCounts
<1>2. CASE ~Counted(e, t)
  <2>1. UNCHANGED <<fns, sens>>
    BY <1>2 DEF inc_ref_count, storage
  <2>2. \A d \in Depths : \A id : Stored(d, id)' = Stored(d, id) /\ ParentEdges(d, id)' = ParentEdges(d, id)
    BY <2>1 DEF Stored, ParentEdges
  <2>3. PositiveInv' /\ \A d \in Depths : DOMAIN sens'[d] = DOMAIN sens[d]
    BY <2>1 DEF CountInv, PositiveInv
  <2>4. ASSUME NEW d \in Depths, NEW id, Counted(d, id)
        PROVE  Stored(d, id)' = Stored(d, id) + (IF d = e /\ id = t THEN 1 ELSE 0)
    <3>1. ~(d = e /\ id = t)
      BY <1>2, <2>4
    <3>2. Stored(d, id) \in Int
      BY StoredInt
    <3> QED
      BY <2>2, <3>1, <3>2
  <2> QED
    BY <2>2, <2>3, <2>4
<1> QED
  BY <1>1, <1>2

LEMMA ConstructCounts ==
    ASSUME TypeOK, CountInv, NEW h \in Handles, Construct(h)
    PROVE  CountInv'
<1>0. /\ Idle /\ live' = live \cup {h} /\ UNCHANGED <<fns, sens, nodec, assigned, update>> /\ LiveInv
  BY DEF Construct, CountInv
<1>1. \A d, id : Stored(d, id)' = Stored(d, id) /\ ParentEdges(d, id)' = ParentEdges(d, id)
  BY <1>0 DEF Stored, ParentEdges
<1>2. ASSUME NEW d \in Depths, NEW id \in RawIdentifiers(d), Counted(d, id)
      PROVE  /\ Stored(d, id)' \in Int /\ Cardinality(Holders(d, id)') \in Nat
             /\ Stored(d, id)' - Cardinality(Holders(d, id)') = Stored(d, id) - Cardinality(Holders(d, id))
  <2>1. /\ Holders(d, id) = Holding(nodec, d, id) /\ Holders(d, id)' = Holding(nodec', d, id)
        /\ Cardinality(Holding(nodec, d, id)) \in Nat /\ Stored(d, id) \in Int
    BY <1>0, <1>2, IdleHolders
  <2>2. Holders(d, id)' = Holders(d, id)
    BY <1>0, <2>1
  <2> QED
    BY <1>1, <2>1, <2>2
<1>3. ASSUME NEW d \in Depths, NEW id \in RawIdentifiers(d), Counted(d, id)
      PROVE  Stored(d, id)' - Cardinality(Holders(d, id)') >= Stored(d, id) - Cardinality(Holders(d, id))
  BY <1>2, <1>3
<1>4. PositiveInv' /\ \A d \in Depths : DOMAIN sens'[d] = DOMAIN sens[d]
  BY <1>0 DEF CountInv, PositiveInv
<1>5. IsFiniteSet(live') /\ \A g \in Handles : g \notin live' => nodec'[g] = NoId
  BY <1>0, FS_AddElement DEF LiveInv
<1> QED
  BY <1>0, <1>1, <1>2, <1>3, <1>4, <1>5, HandleCounts

\* A Hypertrie that exists gives its node to another one as well.
LEMMA CopyCounts ==
    ASSUME TypeOK, CountInv, NEW g \in Handles, NEW h \in Handles, Idle, UNCHANGED update,
           h \in live, HandleDepth[g] = HandleDepth[h],
           inc_ref_count(HandleDepth[h], nodec[h]), nodec' = [nodec EXCEPT ![g] = nodec[h]],
           live' = live \cup {g},
           (g \notin live /\ assigned' = assigned) \/ assigned' # 0
    PROVE  CountInv'
<1> DEFINE e == HandleDepth[h]
           t == nodec[h]
<1>0. LiveInv /\ e \in Depths
  BY HandleAssumption DEF CountInv
<1>1. /\ \A d \in Depths : \A id : Counted(d, id) => Stored(d, id)' =
             Stored(d, id) + (IF d = e /\ id = t THEN 1 ELSE 0)
      /\ \A d \in Depths : \A id : ParentEdges(d, id)' = ParentEdges(d, id)
      /\ PositiveInv'
      /\ \A d \in Depths : DOMAIN sens'[d] = DOMAIN sens[d]
  BY IncRefCounts
<1>2. ASSUME NEW d \in Depths, NEW id \in RawIdentifiers(d), Counted(d, id)
      PROVE  /\ Stored(d, id)' \in Int /\ Cardinality(Holders(d, id)') \in Nat
             /\ Stored(d, id)' - Cardinality(Holders(d, id)') >= Stored(d, id) - Cardinality(Holders(d, id))
             /\ assigned' = 0 =>
                  /\ assigned = 0
                  /\ Stored(d, id)' - Cardinality(Holders(d, id)') = Stored(d, id) - Cardinality(Holders(d, id))
  <2>1. /\ Holders(d, id) = Holding(nodec, d, id) /\ Holders(d, id)' = Holding(nodec', d, id)
        /\ IsFiniteSet(Holding(nodec, d, id)) /\ Cardinality(Holding(nodec, d, id)) \in Nat
        /\ nodec = [x \in Handles |-> nodec[x]]
        /\ Stored(d, id) \in Int /\ id # NoId
    BY <1>2, IdleHolders
  <2>2. /\ Cardinality(Holding(nodec', d, id)) \in Nat
        /\ Cardinality(Holding(nodec', d, id)) =
               Cardinality(Holding(nodec, d, id)) - (IF HandleDepth[g] = d /\ nodec[g] = id THEN 1 ELSE 0)
                                                  + (IF HandleDepth[g] = d /\ t = id THEN 1 ELSE 0)
    <3>1. DifferAt(nodec, nodec', g) /\ nodec'[g] = t
      BY <2>1 DEF DifferAt
    <3> QED
      BY <2>1, <3>1, HoldingChange
  <2>4. Stored(d, id)' = Stored(d, id) + (IF d = e /\ id = t THEN 1 ELSE 0)
    BY <1>1, <1>2
  <2>5. g \notin live => nodec[g] # id
    BY <1>0, <2>1 DEF LiveInv
  <2> DEFINE s == Stored(d, id)
             s2 == Stored(d, id)'
             c == Cardinality(Holders(d, id))
             c2 == Cardinality(Holders(d, id)')
             lost == IF HandleDepth[g] = d /\ nodec[g] = id THEN 1 ELSE 0
             won == IF d = e /\ id = t THEN 1 ELSE 0
  <2>6. /\ s \in Int /\ c \in Nat /\ c2 \in Nat /\ lost \in {0, 1} /\ won \in {0, 1}
        /\ s2 = s + won /\ c2 = c - lost + won /\ (g \notin live => lost = 0)
    <3>1. won = IF HandleDepth[g] = d /\ t = id THEN 1 ELSE 0
      OBVIOUS
    <3>2. c2 = c - lost + won /\ c2 \in Nat
      BY <2>1, <2>2, <3>1
    <3> QED
      BY <2>1, <2>4, <2>5, <3>2
  <2> HIDE DEF s, s2, c, c2, lost, won
  <2>7. /\ s2 \in Int /\ c2 \in Nat /\ s2 - c2 >= s - c
        /\ assigned' = 0 => assigned = 0 /\ s2 - c2 = s - c
    BY <2>6
  <2> QED
    BY <2>7 DEF s, s2, c, c2
<1>3. IsFiniteSet(live') /\ \A x \in Handles : x \notin live' => nodec'[x] = NoId
  BY <1>0, FS_AddElement DEF LiveInv, TypeOK, HandlesOK
<1> QED
  BY <1>1, <1>2, <1>3, HandleCounts

\* A Hypertrie that exists gives its node away.
LEMMA MoveCounts ==
    ASSUME TypeOK, CountInv, NEW g \in Handles, NEW h \in Handles, Idle, UNCHANGED <<fns, sens, update>>,
           h \in live, g # h, HandleDepth[g] = HandleDepth[h],
           nodec' = [nodec EXCEPT ![g] = nodec[h], ![h] = NoId],
           live' = (live \ {h}) \cup {g},
           (g \notin live /\ assigned' = assigned) \/ assigned' # 0
    PROVE  CountInv'
<1>0. LiveInv
  BY DEF CountInv
<1>1. \A d, id : Stored(d, id)' = Stored(d, id) /\ ParentEdges(d, id)' = ParentEdges(d, id)
  BY DEF Stored, ParentEdges
<1>2. ASSUME NEW d \in Depths, NEW id \in RawIdentifiers(d), Counted(d, id)
      PROVE  /\ Stored(d, id)' \in Int /\ Cardinality(Holders(d, id)') \in Nat
             /\ Stored(d, id)' - Cardinality(Holders(d, id)') >= Stored(d, id) - Cardinality(Holders(d, id))
             /\ assigned' = 0 =>
                  /\ assigned = 0
                  /\ Stored(d, id)' - Cardinality(Holders(d, id)') = Stored(d, id) - Cardinality(Holders(d, id))
  <2>1. /\ Holders(d, id) = Holding(nodec, d, id) /\ Holders(d, id)' = Holding(nodec', d, id)
        /\ IsFiniteSet(Holding(nodec, d, id)) /\ Cardinality(Holding(nodec, d, id)) \in Nat
        /\ nodec = [x \in Handles |-> nodec[x]]
        /\ Stored(d, id) \in Int /\ id # NoId
    BY <1>2, IdleHolders
  <2>2. /\ Cardinality(Holding(nodec', d, id)) \in Nat
        /\ Cardinality(Holding(nodec', d, id)) =
               Cardinality(Holding(nodec, d, id)) - (IF HandleDepth[g] = d /\ nodec[g] = id THEN 1 ELSE 0)
    BY <2>1, HoldingMove
  <2>6. g \notin live => nodec[g] # id
    BY <1>0, <2>1 DEF LiveInv
  <2> DEFINE s == Stored(d, id)
             c == Cardinality(Holders(d, id))
             c2 == Cardinality(Holders(d, id)')
             lost == IF HandleDepth[g] = d /\ nodec[g] = id THEN 1 ELSE 0
  <2>7. /\ s \in Int /\ c \in Nat /\ c2 \in Nat /\ lost \in {0, 1}
        /\ c2 = c - lost /\ (g \notin live => lost = 0)
    BY <2>1, <2>2, <2>6
  <2> HIDE DEF s, c, c2, lost
  <2>8. Stored(d, id)' = s
    BY <1>1 DEF s
  <2>9. /\ s \in Int /\ c2 \in Nat /\ s - c2 >= s - c
        /\ assigned' = 0 => assigned = 0 /\ s - c2 = s - c
    BY <2>7
  <2> QED
    BY <2>8, <2>9 DEF s, c, c2
<1>3. PositiveInv' /\ \A d \in Depths : DOMAIN sens'[d] = DOMAIN sens[d]
  BY DEF CountInv, PositiveInv
<1>4. IsFiniteSet(live')
  BY <1>0, FS_Subset, FS_AddElement DEF LiveInv
<1>5. \A x \in Handles : x \notin live' => nodec'[x] = NoId
  BY <1>0 DEF LiveInv, TypeOK, HandlesOK
<1>6. UNCHANGED update
  OBVIOUS
<1> QED
  BY <1>1, <1>2, <1>3, <1>4, <1>5, <1>6, HandleCounts

LEMMA DestroyCounts ==
    ASSUME TypeOK, CanonicalInv, CountInv, NEW h \in Handles, Destroy(h)
    PROVE  CountInv'
<1> DEFINE e == HandleDepth[h]
           t == nodec[h]
           call == Call("drop", t, {})
<1>0. Idle /\ h \in live /\ LiveInv /\ e \in Depths /\ t \in RawIdentifiers(e)
  BY HandleAssumption DEF Destroy, CountInv, TypeOK, HandlesOK
<1>1. CASE Begin(h, "destroy", {}, call)
  <2>1. IsCall(e, call)
    BY <1>0 DEF IsCall, Call, CallNames
  <2>2. \A id : Counted(e, id) => id \notin Gains(e, call) /\ (id \in Loses(e, call) <=> id = t)
    BY CallEffect
  <2> HIDE DEF call
  <2> QED
    BY <1>0, <1>1, <2>1, <2>2, BeginCounts
<1>2. CASE /\ IF Counted(e, t) THEN AddToRef(e, t, -1) ELSE UNCHANGED storage
           /\ Counted(e, t) => RefOf(e, t) # 1
           /\ nodec' = [nodec EXCEPT ![h] = NoId]
           /\ live' = live \ {h}
           /\ UNCHANGED <<assigned, update>>
  <2>1. /\ \A d \in Depths : \A id : Counted(d, id) => Stored(d, id)' =
                Stored(d, id) - (IF d = e /\ id = t THEN 1 ELSE 0)
        /\ \A d \in Depths : \A id : ParentEdges(d, id)' = ParentEdges(d, id)
        /\ PositiveInv'
        /\ \A d \in Depths : DOMAIN sens'[d] = DOMAIN sens[d]
    <3>1. CASE Counted(e, t)
      <4>1. h \in Holders(e, t)
        BY <1>0 DEF Holders, Held
      <4>2. Stored(e, t) >= 1 /\ t \in IF is_fn(t) THEN DOMAIN fns[e] ELSE DOMAIN sens[e]
        BY <1>0, <3>1, <4>1, ReferredStored
      <4>3. Stored(e, t) = RefOf(e, t) /\ Stored(e, t) \in Int
        BY <1>0, <4>2, StoredInt DEF Stored, RefOf
      <4>4. RefOf(e, t) + (-1) > 0
        BY <1>2, <3>1, <4>2, <4>3
      <4>5. /\ \A d \in Depths : \A id : Stored(d, id)' =
                    Stored(d, id) + (IF d = e /\ id = t THEN -1 ELSE 0)
            /\ \A d \in Depths : \A id : ParentEdges(d, id)' = ParentEdges(d, id)
            /\ PositiveInv'
            /\ \A d \in Depths : DOMAIN sens'[d] = DOMAIN sens[d]
        BY <1>0, <1>2, <3>1, <4>4, AddToRefCounts
      <4>6. ASSUME NEW d \in Depths, NEW id
            PROVE  Stored(d, id)' = Stored(d, id) - (IF d = e /\ id = t THEN 1 ELSE 0)
        <5>1. Stored(d, id)' = Stored(d, id) + (IF d = e /\ id = t THEN -1 ELSE 0) /\ Stored(d, id) \in Int
          BY <4>5, StoredInt
        <5> QED
          BY <5>1
      <4> QED
        BY <4>5, <4>6
    <3>2. CASE ~Counted(e, t)
      <4>1. UNCHANGED <<fns, sens>>
        BY <1>2, <3>2 DEF storage
      <4>2. \A d \in Depths : \A id : Stored(d, id)' = Stored(d, id) /\ ParentEdges(d, id)' = ParentEdges(d, id)
        BY <4>1 DEF Stored, ParentEdges
      <4>3. PositiveInv' /\ \A d \in Depths : DOMAIN sens'[d] = DOMAIN sens[d]
        BY <4>1 DEF CountInv, PositiveInv
      <4>4. ASSUME NEW d \in Depths, NEW id, Counted(d, id)
            PROVE  Stored(d, id)' = Stored(d, id) - (IF d = e /\ id = t THEN 1 ELSE 0)
        <5>1. ~(d = e /\ id = t) /\ Stored(d, id) \in Int
          BY <3>2, <4>4, StoredInt
        <5> QED
          BY <4>2, <5>1
      <4> QED
        BY <4>2, <4>3, <4>4
    <3> QED
      BY <3>1, <3>2
  <2>2. ASSUME NEW d \in Depths, NEW id \in RawIdentifiers(d), Counted(d, id)
        PROVE  /\ Stored(d, id)' \in Int /\ Cardinality(Holders(d, id)') \in Nat
               /\ Stored(d, id)' - Cardinality(Holders(d, id)') = Stored(d, id) - Cardinality(Holders(d, id))
    <3>1. /\ Holders(d, id) = Holding(nodec, d, id) /\ Holders(d, id)' = Holding(nodec', d, id)
          /\ IsFiniteSet(Holding(nodec, d, id)) /\ Cardinality(Holding(nodec, d, id)) \in Nat
          /\ nodec = [x \in Handles |-> nodec[x]]
          /\ Stored(d, id) \in Int /\ id # NoId
      BY <1>0, <1>2, <2>2, IdleHolders
    <3>2. DifferAt(nodec, nodec', h) /\ nodec'[h] = NoId
      BY <1>2, <3>1 DEF DifferAt
    <3>3. /\ Cardinality(Holding(nodec', d, id)) \in Nat
          /\ Cardinality(Holding(nodec', d, id)) =
                 Cardinality(Holding(nodec, d, id)) - (IF e = d /\ nodec[h] = id THEN 1 ELSE 0)
                                                    + (IF e = d /\ nodec'[h] = id THEN 1 ELSE 0)
      BY <3>1, <3>2, HoldingChange
    <3>4. (IF e = d /\ nodec'[h] = id THEN 1 ELSE 0) = 0
      BY <3>1, <3>2
    <3>5. Stored(d, id)' = Stored(d, id) - (IF d = e /\ id = t THEN 1 ELSE 0)
      BY <2>1, <2>2
    <3>6. (IF d = e /\ id = t THEN 1 ELSE 0) = (IF e = d /\ nodec[h] = id THEN 1 ELSE 0)
      OBVIOUS
    <3> DEFINE one == IF d = e /\ id = t THEN 1 ELSE 0
    <3>7. one \in {0, 1} /\ Stored(d, id)' = Stored(d, id) - one
      BY <3>5
    <3>8. Cardinality(Holders(d, id)') = Cardinality(Holders(d, id)) - one
      BY <3>1, <3>3, <3>4, <3>6, <3>7
    <3> HIDE DEF one
    <3> QED
      BY <3>1, <3>3, <3>7, <3>8
  <2>3. ASSUME NEW d \in Depths, NEW id \in RawIdentifiers(d), Counted(d, id)
        PROVE  Stored(d, id)' - Cardinality(Holders(d, id)') >= Stored(d, id) - Cardinality(Holders(d, id))
    <3>1. /\ Stored(d, id) \in Int /\ Cardinality(Holders(d, id)) \in Nat
      BY <1>0, <1>2, <2>3, IdleHolders
    <3> QED
      BY <2>2, <2>3, <3>1
  <2>4. IsFiniteSet(live')
    BY <1>0, <1>2, FS_Subset DEF LiveInv
  <2>5. \A x \in Handles : x \notin live' => nodec'[x] = NoId
    BY <1>0, <1>2 DEF LiveInv, TypeOK, HandlesOK
  <2>6. UNCHANGED update /\ assigned' = assigned
    BY <1>2
  <2> HIDE DEF e, t
  <2> QED
    BY <1>0, <2>1, <2>2, <2>3, <2>4, <2>5, <2>6, HandleCounts
<1> QED
  BY <1>1, <1>2 DEF Destroy

LEMMA CountInit == Init => CountInv
<1> SUFFICES ASSUME Init PROVE CountInv
  OBVIOUS
<1>1. /\ Idle /\ live = {} /\ \A h \in Handles : nodec[h] = NoId
      /\ \A d \in Depths : DOMAIN fns[d] = {} /\ DOMAIN sens[d] = {}
  BY DEF Init, Idle, EmptyMap
<1>2. ASSUME NEW d \in Depths, NEW id \in RawIdentifiers(d), Counted(d, id)
      PROVE  Planned(d, id) = 0 /\ Referrers(d, id) = 0
  <2>1. id # NoId
    BY <1>2 DEF Counted, empty
  <2>2. Planned(d, id) = 0
    BY <1>1, IdlePlanned DEF Stored
  <2>3. Holders(d, id) = {}
    BY <1>1, <2>1 DEF Holders, Held
  <2>4. ParentEdges(d, id) = {}
    <3>1. d = MaxDepth \/ DOMAIN fns[d + 1] = {}
      BY <1>1, MaxDepthAssumption DEF Depths
    <3> QED
      BY <3>1 DEF ParentEdges
  <2> QED
    BY <2>2, <2>3, <2>4, FS_EmptySet DEF Referrers
<1>3. RefInv
  BY <1>2 DEF RefInv
<1>4. PlanInv /\ InPlaceInv /\ PositiveInv
  BY <1>1 DEF PlanInv, InPlaceInv, PositiveInv
<1>5. LiveInv
  BY <1>1, FS_EmptySet DEF LiveInv
<1> QED
  BY <1>3, <1>4, <1>5 DEF CountInv

LEMMA CountStep ==
    ASSUME TypeOK, CanonicalInv, CountInv, [Next]_vars
    PROVE  CountInv'
<1>1. CASE Step
  <2>0. ~Idle
    BY <1>1, StepInUpdate
  <2> QED
    BY <1>1, <2>0, PlanSourceCounts, create_fnCounts, copy_updateCounts,
       move_updateCounts, delete_fnCounts, FinishLevelCounts DEF Step
<1>2. CASE Operation
  <2>0. \A h \in Handles : HandleKeys[h] \subseteq Keys(HandleDepth[h])
    BY HandleAssumption
  <2>1. ASSUME NEW h \in Handles, NEW es \in Bulks(h), insert(h, es) \/ remove(h, es) PROVE CountInv'
    BY <2>0, <2>1, insertCounts, removeCounts DEF Bulks
  <2>2. ASSUME NEW h \in Handles, NEW k \in HandleKeys[h], NEW value \in BOOLEAN, set(h, k, value)
        PROVE  CountInv'
    <3>1. insert(h, {k}) \/ remove(h, {k})
      BY <2>2 DEF set
    <3>2. {k} \in SUBSET Keys(HandleDepth[h])
      BY <2>0
    <3> QED
      BY <3>1, <3>2, insertCounts, removeCounts
  <2>3. ASSUME NEW g \in Handles, NEW h \in Handles, CopyConstruct(g, h) PROVE CountInv'
    BY <2>3, CopyCounts DEF CopyConstruct
  <2>4. ASSUME NEW g \in Handles, NEW h \in Handles, MoveConstruct(g, h) PROVE CountInv'
    BY <2>4, MoveCounts DEF MoveConstruct
  <2>5. assigned \in Nat
    BY DEF TypeOK, HandlesOK
  <2>6. ASSUME NEW g \in Handles, NEW h \in Handles, CopyAssign(g, h) PROVE CountInv'
    <3>1. assigned' # 0 /\ live' = live \cup {g}
      BY <2>5, <2>6 DEF CopyAssign
    <3> QED
      BY <2>6, <3>1, CopyCounts DEF CopyAssign
  <2>7. ASSUME NEW g \in Handles, NEW h \in Handles, MoveAssign(g, h) PROVE CountInv'
    <3>1. assigned' # 0 /\ live' = (live \ {h}) \cup {g} /\ h \in live
      BY <2>5, <2>7 DEF MoveAssign
    <3> QED
      BY <2>7, <3>1, MoveCounts DEF MoveAssign
  <2> QED
    BY <1>2, <2>1, <2>2, <2>3, <2>4, <2>6, <2>7, ConstructCounts, DestroyCounts DEF Operation
<1>3. CASE UNCHANGED vars
  <2>1. /\ UNCHANGED <<fns, sens, nodec, live, assigned, op, lvl, plan, child>>
    BY <1>3 DEF vars
  <2>2. \A d, id : Planned(d, id)' = Planned(d, id)
    BY <2>1 DEF Planned, Stored, Left, Ending
  <2>3. \A d, id : Referrers(d, id)' = Referrers(d, id)
    BY <2>1 DEF Referrers, ParentEdges, Holders, Held, Idle
  <2>4. RefInv'
    BY <2>1, <2>2, <2>3 DEF CountInv, RefInv, Counted, in_place
  <2>5. PlanInv' /\ InPlaceInv'
    BY <2>1 DEF CountInv, PlanInv, InPlaceInv, Idle, Ending
  <2>6. PositiveInv' /\ LiveInv'
    BY <2>1 DEF CountInv, PositiveInv, LiveInv, Idle
  <2> QED
    BY <2>4, <2>5, <2>6 DEF CountInv
<1> QED
  BY <1>1, <1>2, <1>3 DEF Next

-----------------------------------------------------------------------------
(* The theorems.                                                           *)

\* A node that is stored is counted, and found where its tag says.
LEMMA StoredRefsAre ==
    ASSUME TypeOK, CanonicalInv, CountInv, NEW d \in Depths
    PROVE  /\ DOMAIN StoredRefs(d) = DOMAIN fns[d] \cup DOMAIN sens[d]
           /\ \A id \in DOMAIN StoredRefs(d) :
                /\ id \in RawIdentifiers(d) /\ Counted(d, id)
                /\ StoredRefs(d)[id] = Stored(d, id) /\ Stored(d, id) > 0
<1>1. DOMAIN StoredRefs(d) = DOMAIN fns[d] \cup DOMAIN sens[d]
  BY DEF StoredRefs
<1>2. d \in 0 .. MaxDepth
  BY MaxDepthAssumption DEF Depths
<1>3. ASSUME NEW id \in DOMAIN fns[d]
      PROVE  /\ id \in RawIdentifiers(d) /\ is_fn(id) /\ ~is_sen(id) /\ ~empty(id)
  <2>1. id \in RawIdentifiers(d) /\ id.es \in SUBSET Keys(d)
    BY IdentifierTypes DEF TypeOK, StorageOK
  <2>2. Cardinality(id.es) > 1 /\ id = RawIdentifier(id.es)
    BY DEF CanonicalInv, NodesCanonical
  <2>3. is_fn(id)
    BY <1>2, <2>1, <2>2, RawIdentifierFacts
  <2> QED
    BY <2>1, <2>3 DEF is_fn, is_sen
<1>4. ASSUME NEW id \in DOMAIN sens[d]
      PROVE  /\ id \in RawIdentifiers(d) /\ is_sen(id) /\ ~is_fn(id) /\ ~empty(id) /\ ~in_place(d, id)
  <2>1. id \in RawIdentifiers(d) /\ id.es \in SUBSET Keys(d)
    BY IdentifierTypes DEF TypeOK, StorageOK, IsMap
  <2>2. Cardinality(id.es) = 1 /\ id = RawIdentifier(id.es)
    BY DEF CanonicalInv, NodesCanonical
  <2>3. is_sen(id)
    BY <1>2, <2>1, <2>2, RawIdentifierFacts
  <2>4. ~in_place(d, id)
    BY DEF CountInv, InPlaceInv
  <2> QED
    BY <2>1, <2>3, <2>4 DEF is_fn, is_sen
<1>5. ASSUME NEW id \in DOMAIN fns[d]
      PROVE  /\ id \in RawIdentifiers(d) /\ Counted(d, id)
             /\ StoredRefs(d)[id] = Stored(d, id) /\ Stored(d, id) > 0
  BY <1>3 DEF Counted, in_place, StoredRefs, Stored, CountInv, PositiveInv
<1>6. ASSUME NEW id \in DOMAIN sens[d]
      PROVE  /\ id \in RawIdentifiers(d) /\ Counted(d, id)
             /\ StoredRefs(d)[id] = Stored(d, id) /\ Stored(d, id) > 0
  <2>1. id \notin DOMAIN fns[d]
    BY <1>3, <1>4
  <2> QED
    BY <1>4, <2>1 DEF Counted, StoredRefs, Stored, CountInv, PositiveInv
<1> QED
  BY <1>1, <1>5, <1>6

\* Between operations the planned counts are the stored ones.
LEMMA CountsImply ==
    ASSUME TypeOK, CanonicalInv, CountInv
    PROVE  RefCountsExact /\ RefCountsSufficient
<1>1. ASSUME Idle, NEW d \in Depths, NEW id \in DOMAIN StoredRefs(d)
      PROVE  /\ StoredRefs(d)[id] > 0 /\ StoredRefs(d)[id] >= References(d, id)
             /\ assigned = 0 => StoredRefs(d)[id] = References(d, id)
  <2>1. /\ id \in RawIdentifiers(d) /\ Counted(d, id)
        /\ StoredRefs(d)[id] = Stored(d, id) /\ Stored(d, id) > 0
    BY StoredRefsAre
  <2>2. References(d, id) = Referrers(d, id)
    BY <1>1 DEF References, Referrers, Owners, Holders, Held
  <2>3. Planned(d, id) = Stored(d, id)
    BY <1>1, IdlePlanned
  <2> QED
    BY <2>1, <2>2, <2>3 DEF CountInv, RefInv
<1> QED
  BY <1>1 DEF RefCountsExact, RefCountsSufficient

LEMMA CountsReach ==
    ASSUME TypeOK, CanonicalInv, CountInv
    PROVE  NoDangling
<1> SUFFICES ASSUME Idle PROVE NoDangling
  BY DEF NoDangling
<1>1. ASSUME NEW h \in Handles, Counted(HandleDepth[h], nodec[h])
      PROVE  nodec[h] \in DOMAIN StoredRefs(HandleDepth[h])
  <2>1. HandleDepth[h] \in Depths /\ nodec[h] \in RawIdentifiers(HandleDepth[h])
    BY HandleAssumption DEF TypeOK, HandlesOK
  <2>2. h \in Holders(HandleDepth[h], nodec[h])
    BY DEF Holders, Held
  <2>3. nodec[h] \in DOMAIN fns[HandleDepth[h]] \cup DOMAIN sens[HandleDepth[h]]
    BY <1>1, <2>1, <2>2, ReferredStored
  <2> QED
    BY <2>1, <2>3, StoredRefsAre
<1>2. ASSUME NEW d \in Depths \ {1}, NEW id \in DOMAIN fns[d], NEW pos \in 1 .. d,
             NEW kp \in DOMAIN fns[d][id].edges[pos], Counted(d - 1, fns[d][id].edges[pos][kp])
      PROVE  fns[d][id].edges[pos][kp] \in DOMAIN StoredRefs(d - 1)
  <2> DEFINE c == fns[d][id].edges[pos][kp]
  <2>1. d - 1 \in Depths /\ d - 1 # MaxDepth /\ (d - 1) + 1 = d
    BY MaxDepthAssumption DEF Depths
  <2>2. c \in RawIdentifiers(d - 1) /\ kp \in KeyParts
    BY DEF TypeOK, StorageOK, IsFullNode, IsEdges, IsMap
  <2>3. <<id, pos, kp>> \in ParentEdges(d - 1, c)
    BY <2>1, <2>2 DEF ParentEdges
  <2> HIDE DEF c
  <2>4. c \in DOMAIN fns[d - 1] \cup DOMAIN sens[d - 1]
    BY <1>2, <2>1, <2>2, <2>3, ReferredStored DEF c
  <2> QED
    BY <2>1, <2>4, StoredRefsAre DEF c
<1> QED
  BY <1>1, <1>2 DEF NoDangling

LEMMA CountsAlways == Spec => [](TypeOK /\ CanonicalInv /\ CountInv)
<1>1. Init => CanonicalInv /\ CountInv
  BY CanonicalInit, CountInit
<1>2. TypeOK /\ CanonicalInv /\ CountInv /\ [Next]_vars => CanonicalInv' /\ CountInv'
  BY CanonicalStep, CountStep
<1> QED
  BY <1>1, <1>2, TypeCorrect, PTL DEF Spec

\* Between operations, as long as no Hypertrie was assigned to, every stored
\* node has exactly as many references as there are edges of stored nodes and
\* Hypertries that lead to it: the deltas that UpdateRequests collects, the
\* counts that create_fn, copy_update_fn_to_fn and move_update_fn_to_fn give a
\* new node, and the in-place decrements of ~Hypertrie add up for every bulk,
\* every order of the steps and any number of Hypertries.
THEOREM ReferencesCounted == Spec => []RefCountsExact
BY CountsAlways, CountsImply, PTL

\* The assignments of Hypertries, which forget to give up the reference to the
\* node they overwrite, never make a count too small: decr_ref_count never
\* frees a node that an edge or a Hypertrie still leads to.
THEOREM ReferencesNeverLost == Spec => []RefCountsSufficient
BY CountsAlways, CountsImply, PTL

\* Between operations, every node that an edge or a Hypertrie leads to is
\* stored, so NodeStorage::lookup never returns a null pointer to a reader.
THEOREM NothingDangles == Spec => []NoDangling
BY CountsAlways, CountsReach, PTL

-----------------------------------------------------------------------------
(***************************************************************************)
(* No assert fails.                                                        *)
(*                                                                         *)
(* The argument.  When an operation begins, every edge leads to a stored   *)
(* node (NoDangling).  An update changes the storage from the top down: at *)
(* the level that is executed the nodes that the plan has not dealt with   *)
(* yet are still there, and the levels below are untouched, so the edges   *)
(* of such a node lead to nodes that are stored until the level below is   *)
(* executed (UnderInv).  Hence what the calls for the children ask of the  *)
(* level below can be served by it (ServedRequests): a source is stored, a *)
(* new node comes with the request that makes it, and an identifier that   *)
(* loses references is the one of a stored node.  A plan made of such      *)
(* requests stays executable (SourcesInv, TargetsInv, DeltasInv): every    *)
(* source is there until its last use, and no two steps make one node.     *)
(* That no count becomes negative is RefInv: what is planned is at least   *)
(* the number of referrers.                                                *)
(***************************************************************************)

IsStored(d, id) == id \in DOMAIN fns[d] \cup DOMAIN sens[d]

EdgesStored(d, edges) ==
    \A pos \in 1 .. d : \A kp \in DOMAIN edges[pos] :
        Counted(d - 1, edges[pos][kp]) => IsStored(d - 1, edges[pos][kp])

\* A call tells the truth, and what it looks up or counts is stored.
ServedCall(d, c) ==
    /\ IsCall(d, c) /\ HonestCall(c)
    /\ c.call \in {"insert", "remove", "keep", "drop"} /\ Counted(d, c.source)
       => IsStored(d, c.source)

\* A new node has a request that makes it.
Made(r, id) == (\E c \in r.creation : c.id = id) \/ \E u \in r.update : u.target = id

Described(r, id) == \E e \in r.entry : e.id = id /\ e.entries = id.es

\* The requests r can be served by the nodes that depth d has.
ServedRequests(d, r) ==
    /\ \A u \in r.update : u.source \in DOMAIN fns[d]
    /\ r.dropped \subseteq DOMAIN fns[d]
    /\ \A id \in DOMAIN r.delta :
         /\ is_fn(id) => id \in r.dropped \/ (id \in r.fresh /\ r.delta[id] > 0)
         /\ is_sen(id) => id \in DOMAIN sens[d] \/ Described(r, id)
    /\ \A id \in r.fresh : is_fn(id) /\ (id \in DOMAIN fns[d] \/ Made(r, id))

-----------------------------------------------------------------------------
(* Calls.                                                                  *)

LEMMA TagsDisjoint == ASSUME NEW id PROVE ~(is_fn(id) /\ is_sen(id)) /\ (is_fn(id) \/ is_sen(id) => ~empty(id))
BY DEF is_fn, is_sen

\* The tag of an identifier says where it is stored.
LEMMA StoredByTag ==
    ASSUME TypeOK, NodesCanonical, NEW d \in Depths, NEW id
    PROVE  /\ id \in DOMAIN fns[d] => is_fn(id) /\ ~is_sen(id)
           /\ id \in DOMAIN sens[d] => is_sen(id) /\ ~is_fn(id)
           /\ IsStored(d, id) /\ is_fn(id) => id \in DOMAIN fns[d]
           /\ IsStored(d, id) /\ is_sen(id) => id \in DOMAIN sens[d]
<1>0. d \in 0 .. MaxDepth
  BY MaxDepthAssumption DEF Depths
<1>1. ASSUME id \in DOMAIN fns[d] PROVE is_fn(id)
  <2>1. id \in RawIdentifiers(d) /\ Cardinality(id.es) > 1 /\ id = RawIdentifier(id.es)
    BY <1>1 DEF TypeOK, StorageOK, NodesCanonical
  <2>2. id.es \in SUBSET Keys(d)
    BY <2>1, IdentifierTypes
  <2> QED
    BY <1>0, <2>1, <2>2, RawIdentifierFacts
<1>2. ASSUME id \in DOMAIN sens[d] PROVE is_sen(id)
  <2>1. id \in RawIdentifiers(d) /\ Cardinality(id.es) = 1 /\ id = RawIdentifier(id.es)
    BY <1>2 DEF TypeOK, StorageOK, NodesCanonical, IsMap
  <2>2. id.es \in SUBSET Keys(d)
    BY <2>1, IdentifierTypes
  <2> QED
    BY <1>0, <2>1, <2>2, RawIdentifierFacts
<1> QED
  BY <1>1, <1>2, TagsDisjoint DEF IsStored

\* The asserts of insert_into_node and remove_from_node hold for such a call.
LEMMA ServedCallOk ==
    ASSUME TypeOK, NodesCanonical, NEW d \in Depths, NEW c, ServedCall(d, c)
    PROVE  CallOk(d, c)
<1>0. d \in 0 .. MaxDepth
  BY MaxDepthAssumption DEF Depths
<1>1. /\ HonestCall(c) /\ c.source = RawIdentifier(c.source.es)
      /\ c.source.es \in SUBSET Keys(d) /\ c.entries \in SUBSET Keys(d)
  BY IdentifierTypes DEF ServedCall, IsCall, HonestCall, Canonical
<1>2. c.call = "insert" => ~empty(c.source)
  BY <1>1 DEF HonestCall, empty, NoId
<1>3. ASSUME c.call \in {"insert", "remove"}, is_sen(c.source), ~in_place(d, c.source)
      PROVE  c.source \in DOMAIN sens[d]
  <2>1. Counted(d, c.source)
    BY <1>3, TagsDisjoint DEF Counted
  <2> QED
    BY <1>3, <2>1, StoredByTag DEF ServedCall
<1>4. ASSUME c.call = "remove", is_sen(c.source) PROVE c.source.es = c.entries
  <2>1. Cardinality(c.source.es) = 1
    BY <1>0, <1>1, <1>4, RawIdentifierFacts
  <2>2. c.entries # {} /\ c.entries \subseteq c.source.es
    BY <1>1, <1>4 DEF HonestCall
  <2>3. \E k : c.source.es = {k}
    BY <1>0, <1>1, <2>1, EntriesFinite, FS_Singleton
  <2> QED
    BY <2>2, <2>3
<1>5. ASSUME c.call = "remove", is_fn(c.source), c.source.es # c.entries
      PROVE  /\ c.source \in DOMAIN fns[d]
             /\ fns[d][c.source].size > Cardinality(c.entries)
  <2>1. Counted(d, c.source)
    BY <1>5, TagsDisjoint DEF Counted, in_place
  <2>2. c.source \in DOMAIN fns[d]
    BY <1>5, <2>1, StoredByTag DEF ServedCall
  <2>3. fns[d][c.source].size = Cardinality(c.source.es)
    BY <2>2 DEF NodesCanonical
  <2>4. c.entries \subseteq c.source.es
    BY <1>1, <1>5 DEF HonestCall
  <2>5. Cardinality(c.source.es \ c.entries) = Cardinality(c.source.es) - Cardinality(c.entries)
    BY <1>0, <1>1, <2>4, EntryCounts
  <2>6. Cardinality(c.source.es \ c.entries) > 0
    <3>1. c.source.es \ c.entries # {} /\ c.source.es \ c.entries \in SUBSET Keys(d)
      BY <1>1, <1>5, <2>4
    <3> QED
      BY <1>0, <3>1, EntryCounts
  <2>7. Cardinality(c.source.es) \in Nat /\ Cardinality(c.entries) \in Nat
    BY <1>0, <1>1, EntriesFinite
  <2> QED
    BY <2>2, <2>3, <2>5, <2>6, <2>7
<1> QED
  BY <1>2, <1>3, <1>4, <1>5 DEF CallOk

\* The node that a call refers to from now on is stored, or the call leaves a
\* request that makes it.
LEMMA ServedGain ==
    ASSUME TypeOK, NodesCanonical, NEW d \in Depths, NEW r, NEW C, NEW c \in C, ServedCall(d, c),
           NEW id \in Gains(d, c)
    PROVE  LET new == Requested(d, r, C)
           IN  /\ is_fn(id) => id \in DOMAIN fns[d] \/ Made(new, id)
               /\ is_sen(id) => id \in DOMAIN sens[d] \/ Described(new, id)
<1> DEFINE new == Requested(d, r, C)
<1>0. d \in 0 .. MaxDepth
  BY MaxDepthAssumption DEF Depths
<1>1. /\ HonestCall(c) /\ c.source = RawIdentifier(c.source.es) /\ c.source \in RawIdentifiers(d)
      /\ c.source.es \in SUBSET Keys(d) /\ c.entries \in SUBSET Keys(d)
  BY IdentifierTypes DEF ServedCall, IsCall, HonestCall, Canonical
<1>2. /\ c.call \in {"add", "insert", "remove", "keep"} /\ id = Returned(d, c)
      /\ ~empty(id) /\ ~in_place(d, id)
  BY DEF Gains
<1>3. c.call \in {"add", "remove"} /\ is_sen(id)
      => [id |-> id, entries |-> id.es] \in new.entry
  BY <1>2 DEF Requested
<1>4. c.call \in {"add", "remove"} /\ is_sen(id) => Described(new, id)
  <2> HIDE DEF new
  <2> QED
    BY <1>3 DEF Described
<1>5. CASE c.call = "add"
  <2>1. id = RawIdentifier(c.entries)
    BY <1>2, <1>5 DEF Returned
  <2>2. is_fn(id) => Cardinality(c.entries) > 1
    BY <1>0, <1>1, <2>1, RawIdentifierFacts
  <2>3. is_fn(id) => [id |-> id, entries |-> c.entries] \in new.creation
    BY <1>5, <2>1, <2>2 DEF Requested
  <2>4. is_fn(id) => Made(new, id)
    <3> HIDE DEF new
    <3> QED
      BY <2>3 DEF Made
  <2> QED
    BY <1>4, <1>5, <2>4
<1>6. CASE c.call = "insert"
  <2>1. c.source.es # {} /\ c.entries # {} /\ c.entries \cap c.source.es = {}
    BY <1>1, <1>6 DEF HonestCall
  <2>2. id = combine(RawIdentifier(c.entries), c.source)
    BY <1>2, <1>6 DEF Returned
  <2>3. id = RawIdentifier(c.entries \cup c.source.es) /\ Cardinality(c.entries \cup c.source.es) > 1
    BY <1>0, <1>1, <2>1, <2>2, InsertionReturns DEF Canonical
  <2>4. is_fn(id) /\ ~is_sen(id)
    <3>1. c.entries \cup c.source.es \in SUBSET Keys(d)
      BY <1>1
    <3> QED
      BY <1>0, <2>3, <3>1, RawIdentifierFacts, TagsDisjoint
  <2>5. is_sen(c.source) \/ is_fn(c.source)
    BY <1>1, <2>1 DEF is_sen, is_fn, empty, NoId, RawIdentifiers, Tags
  <2>6. is_sen(c.source) => [id |-> id, entries |-> c.entries \cup c.source.es] \in new.creation
    BY <1>2, <1>6 DEF Requested
  <2>7. is_fn(c.source) => [source |-> c.source, target |-> id, entries |-> c.entries,
                            mode |-> c.call] \in new.update
    BY <1>2, <1>6, <2>4 DEF Requested
  <2>8. Made(new, id)
    <3> HIDE DEF new
    <3> QED
      BY <2>5, <2>6, <2>7 DEF Made
  <2> QED
    BY <2>4, <2>8
<1>7. CASE c.call = "remove"
  <2>1. c.entries # {} /\ c.entries \subseteq c.source.es
    BY <1>1, <1>7 DEF HonestCall
  <2>2. id = after_removal(d, c.source, c.entries)
    BY <1>2, <1>7 DEF Returned
  <2>3. ~is_sen(c.source)
    BY <1>2, <2>2 DEF after_removal, empty
  <2>4. is_fn(c.source)
    BY <1>1, <2>1, <2>3 DEF is_sen, is_fn, empty, NoId, RawIdentifiers, Tags
  <2>5. is_fn(id) => [source |-> c.source, target |-> id, entries |-> c.entries,
                      mode |-> c.call] \in new.update
    BY <1>2, <1>7, <2>4 DEF Requested
  <2>6. is_fn(id) => Made(new, id)
    <3> HIDE DEF new
    <3> QED
      BY <2>5 DEF Made
  <2> QED
    BY <1>4, <1>7, <2>6
<1>8. CASE c.call = "keep"
  <2>1. id = c.source /\ Counted(d, c.source)
    BY <1>2, <1>8 DEF Returned, Counted
  <2>2. IsStored(d, id)
    BY <1>8, <2>1 DEF ServedCall
  <2> QED
    BY <2>2, StoredByTag
<1> QED
  BY <1>2, <1>5, <1>6, <1>7, <1>8

LEMMA ServedLoss ==
    ASSUME TypeOK, NodesCanonical, NEW d \in Depths, NEW c, ServedCall(d, c), NEW id \in Loses(d, c)
    PROVE  /\ is_fn(id) => id \in DOMAIN fns[d]
           /\ is_sen(id) => id \in DOMAIN sens[d]
<1>1. id = c.source /\ ~in_place(d, id) /\ c.call \in {"drop", "insert", "remove"}
  BY DEF Loses
<1>2. ~empty(id) => IsStored(d, id)
  BY <1>1 DEF ServedCall, Counted
<1> QED
  BY <1>2, StoredByTag, TagsDisjoint

\* Such calls leave requests that can be served.
LEMMA RequestedServed ==
    ASSUME TypeOK, NodesCanonical, NEW d \in Depths, NEW r, IsRequests(d, r), ServedRequests(d, r),
           NEW C, IsFiniteSet(C), \A c \in C : ServedCall(d, c)
    PROVE  ServedRequests(d, Requested(d, r, C))
<1> DEFINE new == Requested(d, r, C)
           gained == UNION {Gains(d, c) : c \in C}
           lost   == UNION {Loses(d, c) : c \in C}
<1>1. /\ new.dropped = r.dropped \cup {id \in lost : is_fn(id)}
      /\ new.fresh = r.fresh \cup {id \in gained : is_fn(id)}
      /\ DOMAIN new.delta = DOMAIN r.delta \cup gained \cup lost
  BY DEF Requested
<1>2. r.entry \subseteq new.entry /\ r.creation \subseteq new.creation /\ r.update \subseteq new.update
  BY DEF Requested
<1>3. ASSUME NEW u \in new.update PROVE u.source \in DOMAIN fns[d]
  <2>1. CASE u \in r.update
    BY <2>1 DEF ServedRequests
  <2>2. CASE u \notin r.update
    <3>1. PICK c \in C : c.call \in {"insert", "remove"} /\ is_fn(c.source) /\ u.source = c.source
      BY <2>2 DEF Requested
    <3>2. IsStored(d, c.source)
      BY <3>1, TagsDisjoint DEF ServedCall, Counted, in_place
    <3> QED
      BY <3>1, <3>2, StoredByTag
  <2> QED
    BY <2>1, <2>2
<1>4. ASSUME NEW id \in lost
      PROVE  (is_fn(id) => id \in DOMAIN fns[d]) /\ (is_sen(id) => id \in DOMAIN sens[d])
  BY ServedLoss
<1>5. ASSUME NEW id \in gained
      PROVE  /\ is_fn(id) => id \in DOMAIN fns[d] \/ Made(new, id)
             /\ is_sen(id) => id \in DOMAIN sens[d] \/ Described(new, id)
  BY ServedGain
<1>6. \A id : (Made(r, id) => Made(new, id)) /\ (Described(r, id) => Described(new, id))
  <2> HIDE DEF new
  <2> QED
    BY <1>2 DEF Made, Described
<1>7. ASSUME NEW id \in DOMAIN new.delta, is_fn(id), id \notin new.dropped
      PROVE  id \in new.fresh /\ new.delta[id] > 0
  <2>1. Lost(C, d, id) = {}
    BY <1>1, <1>7 DEF Lost
  <2>2. Cardinality(Lost(C, d, id)) = 0
    BY <2>1, FS_EmptySet
  <2>3. /\ new.delta[id] = Delta(r.delta, id) + Cardinality(Gained(C, d, id))
        /\ Cardinality(Gained(C, d, id)) \in Nat /\ Delta(r.delta, id) \in Int
    <3>1. Delta(new.delta, id) = Delta(r.delta, id) + Cardinality(Gained(C, d, id)) - Cardinality(Lost(C, d, id))
          /\ Cardinality(Gained(C, d, id)) \in Nat /\ Delta(r.delta, id) \in Int
      BY RequestedDelta
    <3>2. Delta(new.delta, id) = new.delta[id]
      BY <1>7 DEF Delta
    <3> HIDE DEF new
    <3> QED
      BY <2>2, <3>1, <3>2
  <2>4. CASE id \in DOMAIN r.delta
    <3>1. id \in r.fresh /\ r.delta[id] > 0
      BY <1>1, <1>7, <2>4 DEF ServedRequests
    <3>2. Delta(r.delta, id) > 0
      BY <2>4, <3>1 DEF Delta
    <3> HIDE DEF new
    <3> QED
      BY <1>1, <2>3, <3>1, <3>2
  <2>5. CASE id \notin DOMAIN r.delta
    <3>1. id \in gained
      BY <1>1, <1>7, <2>5
    <3>2. Gained(C, d, id) # {} /\ IsFiniteSet(Gained(C, d, id))
      BY <3>1, FS_Subset DEF Gained
    <3>3. Cardinality(Gained(C, d, id)) # 0
      BY <3>2, FS_EmptySet
    <3>4. Delta(r.delta, id) = 0
      BY <2>5 DEF Delta
    <3> HIDE DEF new
    <3> QED
      BY <1>1, <1>7, <2>3, <3>1, <3>3, <3>4
  <2> QED
    BY <2>4, <2>5
<1>8. ASSUME NEW id \in DOMAIN new.delta, is_sen(id)
      PROVE  id \in DOMAIN sens[d] \/ Described(new, id)
  <2>1. id \in DOMAIN r.delta \/ id \in gained \/ id \in lost
    BY <1>1
  <2> HIDE DEF new, gained, lost
  <2> QED
    BY <1>4, <1>5, <1>6, <1>8, <2>1 DEF ServedRequests
<1>9. ASSUME NEW id \in new.fresh
      PROVE  is_fn(id) /\ (id \in DOMAIN fns[d] \/ Made(new, id))
  <2>1. id \in r.fresh \/ (id \in gained /\ is_fn(id))
    BY <1>1
  <2> HIDE DEF new, gained, lost
  <2> QED
    BY <1>5, <1>6, <2>1 DEF ServedRequests
<1>10. new.dropped \subseteq DOMAIN fns[d]
  <2> HIDE DEF new, gained, lost
  <2> QED
    BY <1>1, <1>4 DEF ServedRequests
<1> HIDE DEF new, gained, lost
<1>11. ServedRequests(d, new)
  BY <1>3, <1>7, <1>8, <1>9, <1>10 DEF ServedRequests
<1> QED
  BY <1>11 DEF new

LEMMA NoRequestsServed == ASSUME NEW d PROVE ServedRequests(d, NoRequests)
BY DEF ServedRequests, NoRequests, EmptyMap

\* The calls for the children of a node whose edges lead to stored nodes.
LEMMA ChildrenServed ==
    ASSUME TypeOK, NodesCanonical, NEW d \in Depths, d > 1, NEW mode, NEW origin,
           NEW S \in SUBSET Keys(d), NEW entries \in SUBSET Keys(d), NEW T, Honest(mode, S, entries, T),
           EdgesStored(d, CanonicalEdges(d, S)),
           NEW c \in ChildCalls(d, mode, origin, CanonicalEdges(d, S), entries)
    PROVE  ServedCall(d - 1, c)
<1> DEFINE edges == CanonicalEdges(d, S)
<1>1. mode \in {"insert", "remove"}
  BY DEF Honest
<1>2. \A pos \in 1 .. d : DOMAIN edges[pos] = PartsAt(S, pos)
  BY DEF CanonicalEdges
<1>3. PICK pos \in 1 .. d : \E kp \in DOMAIN edges[pos] \cup PartsAt(entries, pos) :
        c = ChildCall(mode, origin, edges, entries, pos, kp)
  BY DEF ChildCalls
<1>4. PICK kp \in DOMAIN edges[pos] \cup PartsAt(entries, pos) :
        c = ChildCall(mode, origin, edges, entries, pos, kp)
  BY <1>3
<1>5. kp \in PartsAt(S, pos) \cup PartsAt(entries, pos)
  BY <1>2, <1>4
<1>6. HonestCall(c)
  BY <1>4, <1>5, ChildCallHonest
<1>7. IsCall(d - 1, c)
  BY <1>1, <1>4, CanonicalEdgesType, ChildCallType
<1>8. ASSUME Counted(d - 1, c.source) PROVE IsStored(d - 1, c.source)
  <2>1. kp \in DOMAIN edges[pos] => c.source = edges[pos][kp]
    BY <1>4 DEF ChildCall
  <2>2. kp \notin DOMAIN edges[pos] => c.source = NoId
    BY <1>4 DEF ChildCall
  <2> HIDE DEF edges
  <2> QED
    BY <1>4, <1>8, <2>1, <2>2 DEF EdgesStored, Counted, empty, edges
<1> QED
  BY <1>6, <1>7, <1>8 DEF ServedCall

LEMMA DropsServed ==
    ASSUME TypeOK, NEW d \in Depths, d > 1, NEW S \in SUBSET Keys(d),
           EdgesStored(d, CanonicalEdges(d, S)), NEW c \in DropCalls(d, CanonicalEdges(d, S))
    PROVE  ServedCall(d - 1, c)
<1> DEFINE edges == CanonicalEdges(d, S)
<1>1. PICK pos \in 1 .. d : \E kp \in DOMAIN edges[pos] : c =
        [at |-> pos, kp |-> kp, call |-> "drop", source |-> edges[pos][kp],
         entries |-> {}, decrement |-> TRUE]
  BY DEF DropCalls
<1>2. PICK kp \in DOMAIN edges[pos] : c =
        [at |-> pos, kp |-> kp, call |-> "drop", source |-> edges[pos][kp],
         entries |-> {}, decrement |-> TRUE]
  BY <1>1
<1>3. c.call = "drop" /\ c.source = edges[pos][kp]
  BY <1>2
<1>4. edges[pos][kp] = RawIdentifier(SubEntries(S, pos, kp)) /\ SubEntries(S, pos, kp) \in SUBSET Keys(d - 1)
  BY SubEntriesType DEF CanonicalEdges
<1>5. d - 1 \in 0 .. MaxDepth
  BY MaxDepthAssumption DEF Depths
<1>6. HonestCall(c)
  BY <1>3, <1>4, <1>5, RawIdentifierFacts DEF HonestCall
<1>7. IsCall(d - 1, c)
  BY CanonicalEdgesType, DropCallsType
<1> HIDE DEF edges
<1> QED
  BY <1>3, <1>6, <1>7 DEF ServedCall, EdgesStored, edges

-----------------------------------------------------------------------------
(* The invariant.                                                          *)

\* The nodes of the level that the plan has not dealt with yet.
Old == DOMAIN fns[lvl] \ plan.done

Targets == {u.target : u \in plan.copy \cup plan.move}

\* The edges of the old nodes, of this level and of those below, lead to
\* stored nodes.
UnderInv ==
    \A d \in Depths : 1 < d /\ d <= lvl =>
        \A id \in DOMAIN fns[d] : (d = lvl => id \notin plan.done) => EdgesStored(d, fns[d][id].edges)

\* A source is there until its last use.
SourcesInv ==
    /\ plan.todo \subseteq Old /\ plan.delete \subseteq Old
    /\ \A u \in plan.copy \cup plan.move : u.source \in Old
    /\ \A u \in plan.move : u.source \notin plan.delete /\ u.source \notin plan.todo
    /\ \A u, v \in plan.move : u.source = v.source => u = v

\* Every node that is to be made is new, made once, and has a positive count.
TargetsInv ==
    /\ plan.copy \cap plan.move = {}
    /\ \A u, v \in plan.copy \cup plan.move : u.target = v.target => u = v
    /\ Targets \cap plan.create = {}
    /\ \A id \in Targets \cup plan.create :
         id \notin DOMAIN fns[lvl] /\ is_fn(id) /\ id \in DOMAIN plan.delta /\ plan.delta[id] > 0
    /\ \A id \in plan.create :
         \/ \E c \in plan.request.creation : c.id = id
         \/ \E u \in plan.request.update : u.target = id /\ u.source \in plan.todo

\* A delta that is left is the one of an old node or of one that is to be made.
DeltasInv ==
    /\ LeftDeltas \subseteq Old \cup plan.create \cup Targets
    /\ \A id \in Old : id \in DOMAIN plan.delta => fns[lvl][id].ref + plan.delta[id] > 0
    /\ \A id \in DOMAIN plan.delta :
         is_sen(id) => id \in DOMAIN sens[lvl] \/ Described(plan.request, id)
    /\ plan.delete \cap DOMAIN plan.delta = {}

ServeInv ==
    ~Idle => /\ UnderInv /\ SourcesInv /\ TargetsInv /\ DeltasInv
             /\ lvl > 1 => ServedRequests(lvl - 1, child)

\* Between the plan and the nodes of its level, source and target determine
\* an update.
LEMMA UpdateKnown ==
    ASSUME TypeOK, CanonicalInv, ~Idle,
           NEW u \in plan.request.update, NEW v \in plan.request.update,
           u.source = v.source, u.target = v.target,
           u.source \in DOMAIN fns[lvl], u.target \notin DOMAIN fns[lvl]
    PROVE  u = v
<1>1. /\ u \in Updates(lvl) /\ v \in Updates(lvl)
      /\ Honest(u.mode, u.source.es, u.entries, u.target.es)
      /\ Honest(v.mode, u.source.es, v.entries, u.target.es)
      /\ u.target = RawIdentifier(u.target.es)
  BY PlannedUpdate
<1>2. u.source = RawIdentifier(u.source.es)
  BY MidCanonical DEF CanonicalNodes
<1>3. u.source.es # u.target.es
  BY <1>1, <1>2
<1>4. u.mode = v.mode /\ u.entries = v.entries
  <2> DEFINE S == u.source.es
             T == u.target.es
  <2>1. Honest(u.mode, S, u.entries, T) /\ Honest(v.mode, S, v.entries, T) /\ S # T
    BY <1>1, <1>3
  <2> HIDE DEF S, T
  <2>2. CASE u.mode = "insert"
    <3>1. S \subseteq T /\ u.entries = T \ S
      BY <2>1, <2>2 DEF Honest
    <3>2. v.mode = "insert"
      BY <2>1, <3>1 DEF Honest
    <3>3. v.entries = T \ S
      BY <2>1, <3>2 DEF Honest
    <3> QED
      BY <2>2, <3>1, <3>2, <3>3
  <2>3. CASE u.mode = "remove"
    <3>1. T \subseteq S /\ u.entries = S \ T
      BY <2>1, <2>3 DEF Honest
    <3>2. v.mode = "remove"
      BY <2>1, <3>1 DEF Honest
    <3>3. v.entries = S \ T
      BY <2>1, <3>2 DEF Honest
    <3> QED
      BY <2>3, <3>1, <3>2, <3>3
  <2> QED
    BY <2>1, <2>2, <2>3 DEF Honest
<1> QED
  BY <1>1, <1>4 DEF Updates

-----------------------------------------------------------------------------
(* The steps of an update.                                                 *)

\* A level that starts with requests that it can serve.
LEMMA StartServed ==
    ASSUME TypeOK, NodesCanonical, PositiveInv, NEW d \in Depths, NEW r, IsRequests(d, r),
           ServedRequests(d, r), StartLevel(d, r),
           \A x \in Depths : x <= d => fns'[x] = fns[x] /\ sens'[x] = sens[x],
           \A x \in Depths : 1 < x /\ x <= d => \A id \in DOMAIN fns[x] : EdgesStored(x, fns[x][id].edges)
    PROVE  ServeInv'
<1>1. lvl' = d /\ plan' = StartPlan(d, r) /\ child' = NoRequests /\ PlanOk(d, r)
  BY DEF StartLevel
<1>2. /\ plan'.delta = Without(r.delta, Deleted(d, r) \cup {id \in DOMAIN r.delta : r.delta[id] = 0})
      /\ plan'.delete = Deleted(d, r) /\ plan'.copy = {} /\ plan'.move = {} /\ plan'.done = {}
      /\ plan'.create = {id \in r.fresh : id \notin DOMAIN fns[d]}
      /\ plan'.todo = {u.source : u \in r.update} /\ plan'.request = r
  BY <1>1 DEF StartPlan
<1>3. /\ DOMAIN plan'.delta = {id \in DOMAIN r.delta : id \notin Deleted(d, r) /\ r.delta[id] # 0}
      /\ \A id \in DOMAIN plan'.delta : plan'.delta[id] = r.delta[id]
  BY <1>2 DEF Without
<1>4. d \in Nat /\ fns'[d] = fns[d] /\ sens'[d] = sens[d]
  BY DEF Depths
<1>5. Old' = DOMAIN fns[d] /\ Targets' = {}
  BY <1>1, <1>2, <1>4 DEF Old, Targets
<1>6. Deleted(d, r) \subseteq r.dropped /\ r.dropped \subseteq DOMAIN fns[d] /\ r.dropped \subseteq DOMAIN r.delta
  BY DEF Deleted, ServedRequests, IsRequests
<1>7. \A id \in DOMAIN fns[d] : fns[d][id].ref \in Int /\ fns[d][id].ref > 0
  BY DEF TypeOK, StorageOK, IsFullNode, PositiveInv
<1>8. \A id \in DOMAIN r.delta : r.delta[id] \in Int
  BY DEF IsRequests, IsMap
<1>9. SourcesInv'
  BY <1>2, <1>5, <1>6 DEF SourcesInv, ServedRequests
<1>10. ASSUME NEW id \in plan'.create
       PROVE  /\ id \notin DOMAIN fns[d] /\ is_fn(id) /\ id \in DOMAIN plan'.delta /\ plan'.delta[id] > 0
              /\ \/ \E c \in r.creation : c.id = id
                 \/ \E u \in r.update : u.target = id /\ u.source \in plan'.todo
  <2>1. id \in r.fresh /\ id \notin DOMAIN fns[d] /\ id \in DOMAIN r.delta
    BY <1>2, <1>10 DEF IsRequests
  <2>2. is_fn(id) /\ Made(r, id) /\ id \notin r.dropped
    BY <1>6, <2>1 DEF ServedRequests
  <2>3. r.delta[id] > 0
    BY <2>1, <2>2 DEF ServedRequests
  <2>4. id \in DOMAIN plan'.delta /\ plan'.delta[id] > 0
    BY <1>3, <1>6, <2>1, <2>2, <2>3
  <2>5. \A u \in r.update : u.source \in plan'.todo
    BY <1>2
  <2> QED
    BY <2>1, <2>2, <2>4, <2>5 DEF Made
<1>11. TargetsInv'
  <2>1. plan'.create \cap DOMAIN fns[d] = {}
    BY <1>2
  <2> QED
    BY <1>1, <1>2, <1>4, <1>5, <1>10, <2>1 DEF TargetsInv
<1>12. ASSUME NEW id \in DOMAIN plan'.delta, is_fn(id)
       PROVE  /\ id \in DOMAIN fns[d] \/ id \in plan'.create
              /\ id \in DOMAIN fns[d] => fns[d][id].ref + plan'.delta[id] > 0
  <2>1. id \in DOMAIN r.delta /\ plan'.delta[id] = r.delta[id] /\ id \notin Deleted(d, r)
    BY <1>3, <1>12
  <2>2. CASE id \in r.dropped
    <3>1. id \in DOMAIN fns[d] /\ fns[d][id].ref + r.delta[id] >= 0
      BY <1>1, <2>2 DEF PlanOk
    <3>2. fns[d][id].ref + r.delta[id] # 0
      BY <2>1, <2>2 DEF Deleted
    <3> QED
      BY <1>7, <1>8, <2>1, <3>1, <3>2
  <2>3. CASE id \notin r.dropped
    <3>1. id \in r.fresh /\ r.delta[id] > 0
      BY <1>12, <2>1, <2>3 DEF ServedRequests
    <3>2. id \in DOMAIN fns[d] \/ id \in plan'.create
      BY <1>2, <3>1
    <3> QED
      BY <1>7, <1>8, <2>1, <3>1, <3>2
  <2> QED
    BY <2>2, <2>3
<1>13. DeltasInv'
  <2>1. LeftDeltas' \subseteq DOMAIN fns[d] \cup plan'.create
    BY <1>12 DEF LeftDeltas
  <2>2. \A id \in DOMAIN fns[d] : is_fn(id)
    BY StoredByTag
  <2>3. \A id \in DOMAIN plan'.delta : is_sen(id) => id \in DOMAIN sens[d] \/ Described(r, id)
    BY <1>3 DEF ServedRequests
  <2>4. plan'.delete \cap DOMAIN plan'.delta = {}
    BY <1>2, <1>3
  <2> QED
    BY <1>1, <1>2, <1>4, <1>5, <1>12, <2>1, <2>2, <2>3, <2>4 DEF DeltasInv
<1>14. UnderInv'
  <2> SUFFICES ASSUME NEW x \in Depths, 1 < x, x <= d, NEW id \in DOMAIN fns[x]
               PROVE  EdgesStored(x, fns[x][id].edges)'
    BY <1>1 DEF UnderInv
  <2>1. EdgesStored(x, fns[x][id].edges) /\ x - 1 \in Depths /\ x - 1 <= d
    BY MaxDepthAssumption DEF Depths
  <2>2. fns'[x] = fns[x] /\ fns'[x - 1] = fns[x - 1] /\ sens'[x - 1] = sens[x - 1]
    BY <2>1
  <2> QED
    BY <2>1, <2>2 DEF EdgesStored, IsStored, Counted, in_place
<1>15. d > 1 => ServedRequests(d - 1, child)'
  <2>1. child' = NoRequests
    BY <1>1
  <2> QED
    BY <2>1 DEF ServedRequests, NoRequests, EmptyMap
<1> QED
  BY <1>1, <1>9, <1>11, <1>13, <1>14, <1>15 DEF ServeInv

\* Distributing the targets of one source.
LEMMA PlanSourceServed ==
    ASSUME TypeOK, CanonicalInv, ServeInv, ~Idle, NEW s, PlanSource(s)
    PROVE  ServeInv'
<1> DEFINE updates == {u \in plan.request.update : u.source = s /\ u.target \in plan.create}
           new == {u.target : u \in updates}
<1>1. PICK moved \in SUBSET updates :
        /\ Cardinality(moved) = IF Reusable(s) /\ updates # {} THEN 1 ELSE 0
        /\ plan' = [plan EXCEPT
                   !.todo   = @ \ {s},
                   !.create = @ \ {u.target : u \in updates},
                   !.copy   = @ \cup (updates \ moved),
                   !.move   = @ \cup moved,
                   !.delete = IF moved = {} THEN @ ELSE @ \ {s}]
  BY DEF PlanSource
<1>2. s \in plan.todo /\ UNCHANGED <<fns, sens, nodec, live, assigned, op, lvl, child>>
  BY DEF PlanSource
<1>3. /\ plan'.todo = plan.todo \ {s} /\ plan'.create = plan.create \ new
      /\ plan'.copy = plan.copy \cup (updates \ moved) /\ plan'.move = plan.move \cup moved
      /\ plan'.delete = IF moved = {} THEN plan.delete ELSE plan.delete \ {s}
      /\ plan'.delta = plan.delta /\ plan'.done = plan.done /\ plan'.request = plan.request
  <2> HIDE DEF updates
  <2> QED
    BY <1>1, MidUpdate DEF IsPlan
<1>4. moved = {} \/ \E u : moved = {u}
  <2>1. IsFiniteSet(moved)
    <3>1. moved \subseteq Updates(lvl) /\ lvl \in Depths
      BY MidUpdate DEF IsPlan, IsRequests
    <3> QED
      BY <3>1, UpdatesFinite, FS_Subset
  <2>2. Cardinality(moved) \in {0, 1}
    BY <1>1
  <2> HIDE DEF updates
  <2> QED
    BY <2>1, <2>2, FS_EmptySet, FS_Singleton
<1>5. /\ UnderInv /\ SourcesInv /\ TargetsInv /\ DeltasInv
      /\ lvl > 1 => ServedRequests(lvl - 1, child)
  BY DEF ServeInv
<1>6. Old' = Old /\ s \in Old
  BY <1>2, <1>3, <1>5 DEF Old, SourcesInv
<1>7. \A u \in updates : u.source = s /\ u.target \in plan.create /\ u \in plan.request.update
  OBVIOUS
<1>8. \A u, v \in updates : u.target = v.target => u = v
  <2>1. \A u \in updates : u.source \in DOMAIN fns[lvl] /\ u.target \notin DOMAIN fns[lvl]
    BY <1>5, <1>6, <1>7 DEF Old, TargetsInv
  <2> QED
    BY <1>7, <2>1, UpdateKnown
<1>9. /\ plan.create = plan'.create \cup new /\ Targets' = Targets \cup new
      /\ plan'.copy \cup plan'.move = plan.copy \cup plan.move \cup updates
  <2>1. new \subseteq plan.create
    BY <1>7
  <2>2. plan'.copy \cup plan'.move = plan.copy \cup plan.move \cup updates
    <3> HIDE DEF updates
    <3> QED
      BY <1>1, <1>3
  <2> QED
    BY <1>3, <2>1, <2>2 DEF Targets
<1> HIDE DEF updates
<1>10. SourcesInv'
  <2>1. plan'.todo \subseteq Old /\ plan'.delete \subseteq Old
    BY <1>3, <1>5 DEF SourcesInv
  <2>2. \A u \in plan'.copy \cup plan'.move : u.source \in Old
    BY <1>5, <1>6, <1>7, <1>9 DEF SourcesInv
  <2>3. ASSUME NEW u \in plan'.move
        PROVE  u.source \notin plan'.delete /\ u.source \notin plan'.todo
    <3>1. CASE u \in plan.move
      BY <1>3, <1>5, <3>1 DEF SourcesInv
    <3>2. CASE u \in moved
      BY <1>1, <1>3, <1>7, <3>2
    <3> QED
      BY <1>3, <3>1, <3>2
  <2>4. ASSUME NEW u \in plan'.move, NEW v \in plan'.move, u.source = v.source PROVE u = v
    <3>1. \A x \in plan.move : x.source # s
      BY <1>2, <1>5 DEF SourcesInv
    <3>2. \A x \in moved : x.source = s
      BY <1>1, <1>7
    <3> QED
      BY <1>3, <1>4, <1>5, <2>4, <3>1, <3>2 DEF SourcesInv
  <2> QED
    BY <1>6, <2>1, <2>2, <2>3, <2>4 DEF SourcesInv
<1>11. TargetsInv'
  <2>1. \A u \in plan.copy \cup plan.move : u.target \notin plan.create
    BY <1>5 DEF TargetsInv, Targets
  <2>2. plan'.copy \cap plan'.move = {}
    BY <1>1, <1>3, <1>5, <1>7, <2>1 DEF TargetsInv
  <2>3. ASSUME NEW u \in plan'.copy \cup plan'.move, NEW v \in plan'.copy \cup plan'.move,
               u.target = v.target
        PROVE  u = v
    BY <1>5, <1>7, <1>8, <1>9, <2>1, <2>3 DEF TargetsInv
  <2>4. Targets' \cap plan'.create = {}
    BY <1>3, <1>5, <1>9 DEF TargetsInv
  <2>5. Targets' \cup plan'.create = Targets \cup plan.create
    BY <1>9
  <2>6. ASSUME NEW id \in plan'.create
        PROVE  \/ \E c \in plan.request.creation : c.id = id
               \/ \E u \in plan.request.update : u.target = id /\ u.source \in plan'.todo
    <3>1. id \in plan.create /\ id \notin new
      BY <1>3
    <3>2. ASSUME NEW u \in plan.request.update, u.target = id, u.source \in plan.todo
          PROVE  u.source \in plan'.todo
      <4>1. u.source # s
        BY <3>1, <3>2 DEF updates
      <4> QED
        BY <1>3, <3>2, <4>1
    <3> QED
      BY <1>5, <3>1, <3>2 DEF TargetsInv
  <2> QED
    BY <1>2, <1>3, <1>5, <2>2, <2>3, <2>4, <2>5, <2>6 DEF TargetsInv
<1>12. DeltasInv'
  <2>1. LeftDeltas' = LeftDeltas
    BY <1>3 DEF LeftDeltas
  <2>2. LeftDeltas' \subseteq Old' \cup plan'.create \cup Targets'
    BY <1>5, <1>6, <1>9, <2>1 DEF DeltasInv
  <2>3. plan'.delete \cap DOMAIN plan'.delta = {}
    BY <1>3, <1>5 DEF DeltasInv
  <2> QED
    BY <1>2, <1>3, <1>5, <1>6, <2>2, <2>3 DEF DeltasInv
<1>13. UnderInv'
  BY <1>2, <1>3, <1>5 DEF UnderInv, EdgesStored, IsStored, Counted, in_place
<1>14. (lvl > 1 => ServedRequests(lvl - 1, child))'
  BY <1>2, <1>5 DEF ServedRequests
<1> QED
  BY <1>10, <1>11, <1>12, <1>13, <1>14 DEF ServeInv

\* A step that makes the nodes made and takes the old nodes gone away, and
\* whose calls C the level below can serve.
PlanMoves(made, gone) ==
    /\ made \subseteq plan.create \cup Targets /\ gone \subseteq Old
    /\ plan.todo = {} /\ plan'.todo = {} /\ plan'.create = plan.create \ made
    /\ plan'.copy \subseteq plan.copy /\ plan'.move \subseteq plan.move /\ Targets' = Targets \ made
    /\ plan'.delete \subseteq plan.delete /\ plan'.delta = plan.delta /\ plan'.request = plan.request
    /\ plan.done \cup made \subseteq plan'.done /\ plan'.done \subseteq plan.done \cup made \cup gone
    /\ gone \cap DOMAIN plan.delta \subseteq plan'.done
    /\ gone \cap plan'.delete = {} /\ \A u \in plan'.copy \cup plan'.move : u.source \notin gone

NodesMove(made, gone, nodes) ==
    /\ fns' = [fns EXCEPT ![lvl] = nodes]
    /\ DOMAIN nodes = (DOMAIN fns[lvl] \ gone) \cup made
    /\ \A x \in DOMAIN fns[lvl] \ gone : nodes[x] = fns[lvl][x]
    /\ UNCHANGED <<sens, nodec, live, assigned, op, lvl>>

ServedCalls(C) ==
    IsFiniteSet(C) /\ ApplyToChildren(lvl, C) /\ (lvl > 1 => \A c \in C : ServedCall(lvl - 1, c))

LEMMA ExecuteServed ==
    ASSUME TypeOK, CanonicalInv, ServeInv, ~Idle, NEW made, NEW gone, NEW nodes, NEW C,
           PlanMoves(made, gone), NodesMove(made, gone, nodes), ServedCalls(C)
    PROVE  ServeInv'
<1> USE DEF PlanMoves, NodesMove, ServedCalls
<1>1. /\ UnderInv /\ SourcesInv /\ TargetsInv /\ DeltasInv
      /\ lvl > 1 => ServedRequests(lvl - 1, child)
  BY DEF ServeInv
<1>2. lvl \in Depths /\ lvl' = lvl /\ sens' = sens
  BY MidUpdate
<1>3. fns'[lvl] = nodes /\ \A d \in Depths : d # lvl => fns'[d] = fns[d]
  BY <1>2 DEF TypeOK, StorageOK
<1>4. made \cap DOMAIN fns[lvl] = {} /\ \A id \in made : is_fn(id)
  BY <1>1 DEF TargetsInv
<1>5. Old' = Old \ gone /\ Old \ gone = Old \ (gone \cup made)
  BY <1>2, <1>3, <1>4 DEF Old
<1>6. \A id \in Old \ gone : fns'[lvl][id] = fns[lvl][id] /\ id \in DOMAIN nodes
  BY <1>3 DEF Old
<1>7. SourcesInv'
  <2>1. plan'.delete \subseteq Old \ gone
    BY <1>1 DEF SourcesInv
  <2>2. \A u \in plan'.copy \cup plan'.move : u.source \in Old \ gone
    BY <1>1 DEF SourcesInv
  <2> QED
    BY <1>1, <1>5, <2>1, <2>2 DEF SourcesInv
<1>8. TargetsInv'
  <2>1. Targets' \cup plan'.create \subseteq (Targets \cup plan.create) \ made
    OBVIOUS
  <2>2. \A id \in Targets' \cup plan'.create : id \notin DOMAIN nodes
    BY <1>1, <2>1 DEF TargetsInv
  <2>3. \A id \in plan'.create :
         \/ \E c \in plan'.request.creation : c.id = id
         \/ \E u \in plan'.request.update : u.target = id /\ u.source \in plan'.todo
    BY <1>1 DEF TargetsInv
  <2>4. plan'.copy \cap plan'.move = {} /\ Targets' \cap plan'.create = {}
    BY <1>1 DEF TargetsInv
  <2>5. \A u, v \in plan'.copy \cup plan'.move : u.target = v.target => u = v
    BY <1>1 DEF TargetsInv
  <2>6. \A id \in Targets' \cup plan'.create : is_fn(id) /\ id \in DOMAIN plan.delta /\ plan.delta[id] > 0
    BY <1>1, <2>1 DEF TargetsInv
  <2> QED
    BY <1>2, <1>3, <2>2, <2>3, <2>4, <2>5, <2>6 DEF TargetsInv
<1>9. DeltasInv'
  <2>1. LeftDeltas' \subseteq Old' \cup plan'.create \cup Targets'
    <3>1. \A id \in LeftDeltas' : id \in LeftDeltas /\ id \notin made /\ id \notin gone
      BY DEF LeftDeltas
    <3> QED
      BY <1>1, <1>5, <3>1 DEF DeltasInv
  <2>2. \A id \in Old' : id \in DOMAIN plan'.delta => fns'[lvl][id].ref + plan'.delta[id] > 0
    BY <1>1, <1>5, <1>6 DEF DeltasInv
  <2>3. \A id \in DOMAIN plan'.delta : is_sen(id) => id \in DOMAIN sens'[lvl] \/ Described(plan'.request, id)
    BY <1>1 DEF DeltasInv
  <2>4. plan'.delete \cap DOMAIN plan'.delta = {}
    BY <1>1 DEF DeltasInv
  <2> QED
    BY <1>2, <2>1, <2>2, <2>3, <2>4 DEF DeltasInv
<1>10. UnderInv'
  <2> SUFFICES ASSUME NEW d \in Depths, 1 < d, d <= lvl, NEW id \in DOMAIN fns'[d],
                      d = lvl => id \notin plan'.done
               PROVE  EdgesStored(d, fns[d][id].edges)'
    BY <1>2 DEF UnderInv
  <2>1. d - 1 \in Depths /\ d - 1 # lvl
    BY <1>2, MaxDepthAssumption DEF Depths
  <2>2. fns'[d - 1] = fns[d - 1]
    BY <1>3, <2>1
  <2>3. id \in DOMAIN fns[d] /\ fns'[d][id] = fns[d][id] /\ (d = lvl => id \notin plan.done)
    <3>1. CASE d = lvl
      BY <1>3, <3>1
    <3>2. CASE d # lvl
      BY <1>3, <3>2
    <3> QED
      BY <3>1, <3>2
  <2>4. EdgesStored(d, fns[d][id].edges)
    BY <1>1, <2>3 DEF UnderInv
  <2> DEFINE edges == fns[d][id].edges
  <2>5. fns'[d][id].edges = edges
    BY <2>3
  <2>6. \A c : (IsStored(d - 1, c) => IsStored(d - 1, c)') /\ (Counted(d - 1, c) <=> Counted(d - 1, c)')
    BY <1>2, <2>2 DEF IsStored, Counted, in_place
  <2>7. EdgesStored(d, edges)'
    <3> HIDE DEF edges
    <3>1. EdgesStored(d, edges)
      BY <2>4 DEF edges
    <3>2. edges' = edges
      BY <2>5 DEF edges
    <3> QED
      BY <2>6, <3>1, <3>2 DEF EdgesStored
  <2> QED
    BY <2>7
<1>11. ASSUME lvl > 1 PROVE ServedRequests(lvl - 1, child)'
  <2>1. lvl - 1 \in Depths /\ lvl # 1 /\ lvl - 1 # lvl
    BY <1>2, <1>11, MaxDepthAssumption DEF Depths
  <2>2. child' = Requested(lvl - 1, child, C) /\ IsRequests(lvl - 1, child)
    BY <2>1, MidUpdate DEF ApplyToChildren
  <2>3. NodesCanonical
    BY DEF CanonicalInv
  <2>4. ServedRequests(lvl - 1, child')
    BY <1>1, <1>11, <2>1, <2>2, <2>3, RequestedServed
  <2>5. fns'[lvl - 1] = fns[lvl - 1]
    BY <1>3, <2>1
  <2> QED
    BY <1>2, <2>4, <2>5 DEF ServedRequests
<1>12. lvl' > 1 => ServedRequests(lvl - 1, child)'
  BY <1>2, <1>11
<1> QED
  BY <1>2, <1>7, <1>8, <1>9, <1>10, <1>12 DEF ServeInv

\* The calls for the children of the nodes that a step builds from.
LEMMA CreationServed ==
    ASSUME TypeOK, CanonicalInv, ~Idle, NEW c \in plan.request.creation,
           NEW C, C = ChildCalls(lvl, "insert", "created", NoEdges(lvl), c.entries)
    PROVE  IsFiniteSet(C) /\ (lvl > 1 => \A x \in C : ServedCall(lvl - 1, x))
<1>1. lvl \in Depths /\ c.entries \in SUBSET Keys(lvl) /\ NodesCanonical
  BY MidUpdate DEF IsPlan, IsRequests, Creations, CanonicalInv
<1>2. IsFiniteSet(C)
  BY <1>1, NoEdgesType, ChildCallsType
<1>3. NoEdges(lvl) = CanonicalEdges(lvl, {})
  BY DEF NoEdges, CanonicalEdges, EmptyMap, PartsAt
<1>4. Honest("insert", {}, c.entries, c.entries)
  BY DEF Honest
<1>5. EdgesStored(lvl, CanonicalEdges(lvl, {}))
  BY DEF EdgesStored, CanonicalEdges, PartsAt
<1> QED
  BY <1>1, <1>2, <1>3, <1>4, <1>5, ChildrenServed

LEMMA UpdateServed ==
    ASSUME TypeOK, CanonicalInv, ServeInv, ~Idle, NEW u \in plan.copy \cup plan.move, NEW origin,
           NEW C, C = ChildCalls(lvl, u.mode, origin, fns[lvl][u.source].edges, u.entries)
    PROVE  IsFiniteSet(C) /\ (lvl > 1 => \A x \in C : ServedCall(lvl - 1, x))
<1>1. u \in plan.request.update /\ NodesCanonical
  BY MidCanonical DEF HonestPlan
<1>2. u.source \in DOMAIN fns[lvl] /\ u.source \notin plan.done
  BY DEF ServeInv, SourcesInv, Old
<1>3. /\ u \in Updates(lvl) /\ lvl \in Depths
      /\ u.source.es \in SUBSET Keys(lvl) /\ u.entries \in SUBSET Keys(lvl)
      /\ Honest(u.mode, u.source.es, u.entries, u.target.es)
      /\ fns[lvl][u.source].edges = CanonicalEdges(lvl, u.source.es)
  BY <1>1, <1>2, PlannedUpdate
<1>4. u.mode \in {"insert", "remove"}
  BY <1>3 DEF Updates
<1>5. IsFiniteSet(C)
  BY <1>3, <1>4, CanonicalEdgesType, ChildCallsType
<1>6. lvl > 1 => EdgesStored(lvl, CanonicalEdges(lvl, u.source.es))
  <2>1. lvl > 1 => EdgesStored(lvl, fns[lvl][u.source].edges)
    BY <1>2, <1>3 DEF ServeInv, UnderInv, Depths
  <2> QED
    BY <1>3, <2>1
<1> QED
  BY <1>1, <1>3, <1>5, <1>6, ChildrenServed

LEMMA DeletionServed ==
    ASSUME TypeOK, CanonicalInv, ServeInv, ~Idle, NEW id \in plan.delete,
           NEW C, C = DropCalls(lvl, fns[lvl][id].edges)
    PROVE  IsFiniteSet(C) /\ (lvl > 1 => \A x \in C : ServedCall(lvl - 1, x))
<1>1. id \in DOMAIN fns[lvl] /\ id \notin plan.done
  BY DEF ServeInv, SourcesInv, Old
<1>2. lvl \in Depths /\ IsFullNode(lvl, fns[lvl][id]) /\ id \in RawIdentifiers(lvl)
  BY <1>1, MidUpdate DEF AreFullNodes
<1>3. id.es \in SUBSET Keys(lvl) /\ fns[lvl][id].edges = CanonicalEdges(lvl, id.es)
  BY <1>1, <1>2, MidCanonical, IdentifierTypes DEF CanonicalNodes
<1>4. IsFiniteSet(C)
  BY <1>2, DropCallsType DEF IsFullNode
<1>5. lvl > 1 => EdgesStored(lvl, fns[lvl][id].edges)
  BY <1>1, <1>2 DEF ServeInv, UnderInv, Depths
<1> QED
  BY <1>2, <1>3, <1>4, <1>5, DropsServed

LEMMA create_fnServed ==
    ASSUME TypeOK, CanonicalInv, ServeInv, ~Idle, NEW id, create_fn(id)
    PROVE  ServeInv'
<1>1. PICK c \in plan.request.creation :
        /\ fns' = [fns EXCEPT ![lvl] =
                     With(@, id, UpdatedNode(lvl, "insert", "created", plan.delta[id],
                                             0, NoEdges(lvl), c.entries))]
        /\ ApplyToChildren(lvl, ChildCalls(lvl, "insert", "created", NoEdges(lvl), c.entries))
  BY DEF create_fn
<1> DEFINE n == UpdatedNode(lvl, "insert", "created", plan.delta[id], 0, NoEdges(lvl), c.entries)
           nodes == With(fns[lvl], id, n)
           C == ChildCalls(lvl, "insert", "created", NoEdges(lvl), c.entries)
<1>2. plan' = [plan EXCEPT !.create = @ \ {id}, !.done = @ \cup {id}]
  BY DEF create_fn
<1>3. plan.todo = {} /\ id \in plan.create /\ UNCHANGED <<sens, nodec, live, assigned, op, lvl>>
  BY DEF create_fn
<1>4. /\ plan'.create = plan.create \ {id} /\ plan'.done = plan.done \cup {id}
      /\ plan'.todo = plan.todo /\ plan'.copy = plan.copy /\ plan'.move = plan.move
      /\ plan'.delete = plan.delete /\ plan'.delta = plan.delta /\ plan'.request = plan.request
  BY <1>2, MidUpdate DEF IsPlan
<1>5. id \notin DOMAIN fns[lvl] /\ id \notin Targets
  BY <1>3 DEF ServeInv, TargetsInv
<1>6. PlanMoves({id}, {})
  <2>1. Targets' = Targets \ {id}
    BY <1>4, <1>5 DEF Targets
  <2> QED
    BY <1>3, <1>4, <2>1 DEF PlanMoves
<1>7. NodesMove({id}, {}, nodes)
  <2>1. fns' = [fns EXCEPT ![lvl] = nodes]
    BY <1>1
  <2> HIDE DEF n
  <2>2. DOMAIN nodes = DOMAIN fns[lvl] \cup {id} /\ \A x \in DOMAIN fns[lvl] : nodes[x] = fns[lvl][x]
    BY <1>5 DEF With
  <2> HIDE DEF nodes
  <2> QED
    BY <1>3, <2>1, <2>2 DEF NodesMove
<1>8. ServedCalls(C)
  <2>1. ApplyToChildren(lvl, C)
    BY <1>1
  <2>2. IsFiniteSet(C) /\ (lvl > 1 => \A x \in C : ServedCall(lvl - 1, x))
    BY CreationServed
  <2> HIDE DEF C
  <2> QED
    BY <2>1, <2>2 DEF ServedCalls
<1> HIDE DEF n, nodes, C
<1> QED
  BY <1>6, <1>7, <1>8, ExecuteServed

\* The target of an update is made by no other step.
LEMMA OtherTargets ==
    ASSUME ServeInv, ~Idle, NEW u \in plan.copy \cup plan.move,
           plan'.copy \cup plan'.move = (plan.copy \cup plan.move) \ {u}
    PROVE  /\ Targets' = Targets \ {u.target} /\ u.target \in Targets
           /\ u.target \notin DOMAIN fns[lvl] /\ u.target \notin plan.create
<1>1. TargetsInv
  BY DEF ServeInv
<1>2. u.target \in Targets
  BY DEF Targets
<1>3. Targets' = Targets \ {u.target}
  <2>1. \A v \in plan.copy \cup plan.move : v.target = u.target => v = u
    BY <1>1 DEF TargetsInv
  <2> QED
    BY <2>1 DEF Targets
<1> QED
  BY <1>1, <1>2, <1>3 DEF TargetsInv

LEMMA copy_updateServed ==
    ASSUME TypeOK, CanonicalInv, ServeInv, ~Idle, NEW u, copy_update_fn_to_fn(u)
    PROVE  ServeInv'
<1> DEFINE source == fns[lvl][u.source]
           n == UpdatedNode(lvl, u.mode, "copied", plan.delta[u.target],
                            source.size, source.edges, u.entries)
           nodes == With(fns[lvl], u.target, n)
           C == ChildCalls(lvl, u.mode, "copied", source.edges, u.entries)
<1>1. plan' = [plan EXCEPT !.copy = @ \ {u}, !.done = @ \cup {u.target}]
  BY DEF copy_update_fn_to_fn
<1>2. plan.todo = {} /\ plan.create = {} /\ u \in plan.copy /\ UNCHANGED <<sens, nodec, live, assigned, op, lvl>>
  BY DEF copy_update_fn_to_fn
<1>3. fns' = [fns EXCEPT ![lvl] = nodes] /\ ApplyToChildren(lvl, C)
  BY DEF copy_update_fn_to_fn
<1>4. /\ plan'.copy = plan.copy \ {u} /\ plan'.done = plan.done \cup {u.target}
      /\ plan'.todo = plan.todo /\ plan'.create = plan.create /\ plan'.move = plan.move
      /\ plan'.delete = plan.delete /\ plan'.delta = plan.delta /\ plan'.request = plan.request
  BY <1>1, MidUpdate DEF IsPlan
<1>5. plan'.copy \cup plan'.move = (plan.copy \cup plan.move) \ {u}
  BY <1>2, <1>4 DEF ServeInv, TargetsInv
<1>6. /\ Targets' = Targets \ {u.target} /\ u.target \in Targets
      /\ u.target \notin DOMAIN fns[lvl] /\ u.target \notin plan.create
  BY <1>2, <1>5, OtherTargets
<1>7. PlanMoves({u.target}, {})
  BY <1>2, <1>4, <1>6 DEF PlanMoves
<1>8. NodesMove({u.target}, {}, nodes)
  <2> HIDE DEF n
  <2>1. DOMAIN nodes = DOMAIN fns[lvl] \cup {u.target} /\ \A x \in DOMAIN fns[lvl] : nodes[x] = fns[lvl][x]
    BY <1>6 DEF With
  <2> HIDE DEF nodes
  <2> QED
    BY <1>2, <1>3, <2>1 DEF NodesMove
<1>9. ServedCalls(C)
  <2>1. IsFiniteSet(C) /\ (lvl > 1 => \A x \in C : ServedCall(lvl - 1, x))
    BY <1>2, UpdateServed
  <2> HIDE DEF C
  <2> QED
    BY <1>3, <2>1 DEF ServedCalls
<1> HIDE DEF n, nodes, C
<1> QED
  BY <1>7, <1>8, <1>9, ExecuteServed

LEMMA move_updateServed ==
    ASSUME TypeOK, CanonicalInv, ServeInv, ~Idle, NEW u, move_update_fn_to_fn(u)
    PROVE  ServeInv'
<1> DEFINE source == fns[lvl][u.source]
           n == UpdatedNode(lvl, u.mode, "moved", plan.delta[u.target],
                            source.size, source.edges, u.entries)
           nodes == With(Without(fns[lvl], {u.source}), u.target, n)
           C == ChildCalls(lvl, u.mode, "moved", source.edges, u.entries)
<1>1. plan' = [plan EXCEPT !.move = @ \ {u}, !.done = @ \cup {u.source, u.target}]
  BY DEF move_update_fn_to_fn
<1>2. /\ plan.todo = {} /\ plan.create = {} /\ plan.copy = {} /\ u \in plan.move
      /\ UNCHANGED <<sens, nodec, live, assigned, op, lvl>>
  BY DEF move_update_fn_to_fn
<1>3. fns' = [fns EXCEPT ![lvl] = nodes] /\ ApplyToChildren(lvl, C)
  BY DEF move_update_fn_to_fn
<1>4. /\ plan'.move = plan.move \ {u} /\ plan'.done = plan.done \cup {u.source, u.target}
      /\ plan'.todo = plan.todo /\ plan'.create = plan.create /\ plan'.copy = plan.copy
      /\ plan'.delete = plan.delete /\ plan'.delta = plan.delta /\ plan'.request = plan.request
  BY <1>1, MidUpdate DEF IsPlan
<1>5. plan'.copy \cup plan'.move = (plan.copy \cup plan.move) \ {u}
  BY <1>2, <1>4
<1>6. /\ Targets' = Targets \ {u.target} /\ u.target \in Targets
      /\ u.target \notin DOMAIN fns[lvl] /\ u.target \notin plan.create
  BY <1>2, <1>5, OtherTargets
<1>7. /\ u.source \in Old /\ u.source \notin plan.delete
      /\ \A v \in plan.move : v.source = u.source => v = u
  BY <1>2 DEF ServeInv, SourcesInv
<1>8. PlanMoves({u.target}, {u.source})
  BY <1>2, <1>4, <1>6, <1>7 DEF PlanMoves
<1>9. NodesMove({u.target}, {u.source}, nodes)
  <2> HIDE DEF n
  <2>1. /\ DOMAIN nodes = (DOMAIN fns[lvl] \ {u.source}) \cup {u.target}
        /\ \A x \in DOMAIN fns[lvl] \ {u.source} : nodes[x] = fns[lvl][x]
    BY <1>6 DEF With, Without
  <2> HIDE DEF nodes
  <2> QED
    BY <1>2, <1>3, <2>1 DEF NodesMove
<1>10. ServedCalls(C)
  <2>1. IsFiniteSet(C) /\ (lvl > 1 => \A x \in C : ServedCall(lvl - 1, x))
    BY <1>2, UpdateServed
  <2> HIDE DEF C
  <2> QED
    BY <1>3, <2>1 DEF ServedCalls
<1> HIDE DEF n, nodes, C
<1> QED
  BY <1>8, <1>9, <1>10, ExecuteServed

LEMMA delete_fnServed ==
    ASSUME TypeOK, CanonicalInv, ServeInv, ~Idle, NEW id, delete_fn(id)
    PROVE  ServeInv'
<1> DEFINE nodes == Without(fns[lvl], {id})
           C == DropCalls(lvl, fns[lvl][id].edges)
<1>1. plan' = [plan EXCEPT !.delete = @ \ {id}]
  BY DEF delete_fn
<1>2. /\ plan.todo = {} /\ plan.create = {} /\ plan.copy = {} /\ plan.move = {} /\ id \in plan.delete
      /\ UNCHANGED <<sens, nodec, live, assigned, op, lvl>>
  BY DEF delete_fn
<1>3. fns' = [fns EXCEPT ![lvl] = nodes] /\ ApplyToChildren(lvl, C)
  BY DEF delete_fn
<1>4. /\ plan'.delete = plan.delete \ {id} /\ plan'.done = plan.done
      /\ plan'.todo = plan.todo /\ plan'.create = plan.create /\ plan'.copy = plan.copy
      /\ plan'.move = plan.move /\ plan'.delta = plan.delta /\ plan'.request = plan.request
  BY <1>1, MidUpdate DEF IsPlan
<1>5. id \in Old /\ id \notin DOMAIN plan.delta
  BY <1>2 DEF ServeInv, SourcesInv, DeltasInv
<1>6. PlanMoves({}, {id})
  <2>1. Targets' = Targets
    BY <1>4 DEF Targets
  <2> QED
    BY <1>2, <1>4, <1>5, <2>1 DEF PlanMoves
<1>7. NodesMove({}, {id}, nodes)
  <2>1. DOMAIN nodes = DOMAIN fns[lvl] \ {id} /\ \A x \in DOMAIN fns[lvl] \ {id} : nodes[x] = fns[lvl][x]
    BY DEF Without
  <2> HIDE DEF nodes
  <2> QED
    BY <1>2, <1>3, <2>1 DEF NodesMove
<1>8. ServedCalls(C)
  <2>1. IsFiniteSet(C) /\ (lvl > 1 => \A x \in C : ServedCall(lvl - 1, x))
    BY <1>2, DeletionServed
  <2> HIDE DEF C
  <2> QED
    BY <1>3, <2>1 DEF ServedCalls
<1> HIDE DEF nodes, C
<1> QED
  BY <1>6, <1>7, <1>8, ExecuteServed

LEMMA FinishLevelServed ==
    ASSUME TypeOK, CanonicalInv, CountInv, ServeInv, FinishLevel
    PROVE  ServeInv'
<1>0. ~Idle /\ lvl \in Depths
  BY MidUpdate DEF FinishLevel
<1>1. CASE lvl > 1
  <2>0. lvl - 1 \in Depths /\ lvl # 1
    BY <1>0, <1>1, MaxDepthAssumption DEF Depths
  <2>1. StartLevel(lvl - 1, child)
    BY <1>1 DEF FinishLevel
  <2>2. IsRequests(lvl - 1, child) /\ ServedRequests(lvl - 1, child) /\ UnderInv
    BY <1>0, <1>1, <2>0, MidUpdate DEF ServeInv
  <2>3. \A x \in Depths : x <= lvl - 1 => fns'[x] = fns[x] /\ sens'[x] = sens[x]
    <3>1. /\ fns' = [fns EXCEPT ![lvl] = ApplyDeltas(@)]
          /\ sens' = [sens EXCEPT ![lvl] = apply_sen_update(@)]
      BY DEF FinishLevel
    <3>2. \A x \in Depths : x <= lvl - 1 => x # lvl
      BY <1>0 DEF Depths
    <3> QED
      BY <3>1, <3>2 DEF TypeOK, StorageOK
  <2>4. \A x \in Depths : 1 < x /\ x <= lvl - 1 =>
          \A id \in DOMAIN fns[x] : EdgesStored(x, fns[x][id].edges)
    <3>1. \A x \in Depths : x <= lvl - 1 => x <= lvl /\ x # lvl
      BY <1>0 DEF Depths
    <3> QED
      BY <2>2, <3>1 DEF UnderInv
  <2>5. NodesCanonical /\ PositiveInv
    BY DEF CanonicalInv, CountInv
  <2> QED
    BY <2>0, <2>1, <2>2, <2>3, <2>4, <2>5, StartServed
<1>2. CASE ~(lvl > 1)
  <2>1. lvl' = 0
    BY <1>2 DEF FinishLevel
  <2> QED
    BY <2>1 DEF ServeInv, Idle
<1> QED
  BY <1>1, <1>2

\* Between operations every edge leads to a stored node.
LEMMA IdleEdgesStored ==
    ASSUME TypeOK, CanonicalInv, CountInv, Idle,
           NEW d \in Depths, 1 < d, NEW id \in DOMAIN fns[d]
    PROVE  EdgesStored(d, fns[d][id].edges)
<1>1. d \in Depths \ {1} /\ d - 1 \in Depths
  BY MaxDepthAssumption DEF Depths
<1>2. NoDangling
  BY CountsReach
<1>3. DOMAIN StoredRefs(d - 1) = DOMAIN fns[d - 1] \cup DOMAIN sens[d - 1]
  BY <1>1, StoredRefsAre
<1> QED
  BY <1>1, <1>2, <1>3 DEF NoDangling, EdgesStored, IsStored

\* Between operations an honest call for the node of a Hypertrie can be
\* served, and so can the request that it leaves.
LEMMA CallServed ==
    ASSUME TypeOK, CanonicalInv, CountInv, Idle, NEW h \in Handles, NEW call,
           IsCall(HandleDepth[h], call), HonestCall(call), call.source \in {nodec[h], NoId}
    PROVE  LET d == HandleDepth[h]
               r == Requested(d, NoRequests, {call})
           IN  ServedCall(d, call) /\ IsRequests(d, r) /\ ServedRequests(d, r)
<1> DEFINE d == HandleDepth[h]
           r == Requested(d, NoRequests, {call})
<1>1. d \in Depths /\ NodesCanonical
  BY HandleAssumption DEF CanonicalInv
<1>2. ASSUME Counted(d, call.source) PROVE IsStored(d, call.source)
  <2>1. call.source = nodec[h]
    BY <1>2 DEF Counted, empty
  <2>2. NoDangling
    BY CountsReach
  <2>3. nodec[h] \in DOMAIN StoredRefs(d)
    BY <1>2, <2>1, <2>2 DEF NoDangling
  <2> QED
    BY <1>1, <2>1, <2>3, StoredRefsAre DEF IsStored
<1>3. ServedCall(d, call)
  BY <1>2 DEF ServedCall
<1>4. IsFiniteSet({call}) /\ IsRequests(d, NoRequests) /\ ServedRequests(d, NoRequests)
  BY NoRequestsType, NoRequestsServed, FS_Singleton
<1>5. IsRequests(d, r)
  BY <1>4, RequestedType
<1>6. ServedRequests(d, r)
  BY <1>1, <1>3, <1>4, RequestedServed
<1> QED
  BY <1>3, <1>5, <1>6

LEMMA BeginServed ==
    ASSUME TypeOK, CanonicalInv, CountInv, Idle, NEW h \in Handles, NEW kind, NEW es, NEW call,
           IsCall(HandleDepth[h], call), HonestCall(call), call.source \in {nodec[h], NoId},
           Begin(h, kind, es, call)
    PROVE  ServeInv'
<1> DEFINE d == HandleDepth[h]
           r == Requested(d, NoRequests, {call})
<1>1. d \in Depths /\ NodesCanonical /\ PositiveInv
  BY HandleAssumption DEF CanonicalInv, CountInv
<1>2. IsRequests(d, r) /\ ServedRequests(d, r)
  BY CallServed
<1>3. StartLevel(d, r) /\ UNCHANGED <<fns, sens>>
  BY DEF Begin
<1>4. \A x \in Depths : 1 < x /\ x <= d => \A id \in DOMAIN fns[x] : EdgesStored(x, fns[x][id].edges)
  BY IdleEdgesStored
<1> HIDE DEF d, r
<1> QED
  BY <1>1, <1>2, <1>3, <1>4, StartServed

\* The calls of the operations.
LEMMA HandleCalls ==
    ASSUME TypeOK, CanonicalInv, NEW h \in Handles, NEW es \in SUBSET Keys(HandleDepth[h])
    PROVE  LET add    == Call("add", NoId, es)
               insert_call == Call("insert", nodec[h], es)
               remove_call == Call("remove", nodec[h], es)
               drop   == Call("drop", nodec[h], {})
           IN  /\ IsCall(HandleDepth[h], add) /\ HonestCall(add)
               /\ IsCall(HandleDepth[h], insert_call)
               /\ es # {} /\ es \cap nodec[h].es = {} /\ ~empty(nodec[h]) => HonestCall(insert_call)
               /\ IsCall(HandleDepth[h], remove_call)
               /\ es # {} /\ es \subseteq nodec[h].es => HonestCall(remove_call)
               /\ IsCall(HandleDepth[h], drop) /\ HonestCall(drop)
<1>1. nodec[h] \in RawIdentifiers(HandleDepth[h]) /\ Canonical(nodec[h])
  BY DEF TypeOK, HandlesOK, CanonicalInv
<1>2. Canonical(NoId)
  BY DEF Canonical, NoId, RawIdentifier
<1>3. ~empty(nodec[h]) => nodec[h].es # {}
  BY <1>1 DEF Canonical, RawIdentifier, empty
<1> QED
  BY <1>1, <1>2, <1>3, IdentifierTypes DEF IsCall, HonestCall, Call, CallNames

LEMMA insertServed ==
    ASSUME TypeOK, CanonicalInv, CountInv, NEW h \in Handles, NEW es \in SUBSET Keys(HandleDepth[h]),
           insert(h, es)
    PROVE  ServeInv'
<1>1. Idle /\ es # {} /\ es \cap nodec[h].es = {}
  BY DEF insert
<1>2. CASE empty(nodec[h])
  <2> DEFINE call == Call("add", NoId, es)
  <2>1. Begin(h, "insert", es, call) /\ call.source = NoId
    BY <1>2 DEF insert, Call
  <2>2. IsCall(HandleDepth[h], call) /\ HonestCall(call)
    BY HandleCalls
  <2> HIDE DEF call
  <2> QED
    BY <1>1, <2>1, <2>2, BeginServed
<1>3. CASE ~empty(nodec[h])
  <2> DEFINE call == Call("insert", nodec[h], es)
  <2>1. Begin(h, "insert", es, call) /\ call.source = nodec[h]
    BY <1>3 DEF insert, Call
  <2>2. IsCall(HandleDepth[h], call) /\ HonestCall(call)
    BY <1>1, <1>3, HandleCalls
  <2> HIDE DEF call
  <2> QED
    BY <1>1, <2>1, <2>2, BeginServed
<1> QED
  BY <1>2, <1>3

LEMMA removeServed ==
    ASSUME TypeOK, CanonicalInv, CountInv, NEW h \in Handles, NEW es \in SUBSET Keys(HandleDepth[h]),
           remove(h, es)
    PROVE  ServeInv'
<1> DEFINE call == Call("remove", nodec[h], es)
<1>1. Idle /\ es # {} /\ es \subseteq nodec[h].es
  BY DEF remove
<1>2. Begin(h, "remove", es, call) /\ call.source = nodec[h]
  BY DEF remove, Call
<1>3. IsCall(HandleDepth[h], call) /\ HonestCall(call)
  BY <1>1, HandleCalls
<1> HIDE DEF call
<1> QED
  BY <1>1, <1>2, <1>3, BeginServed

LEMMA DestroyServed ==
    ASSUME TypeOK, CanonicalInv, CountInv, NEW h \in Handles, Destroy(h)
    PROVE  ServeInv'
<1> DEFINE call == Call("drop", nodec[h], {})
<1>1. Idle /\ {} \in SUBSET Keys(HandleDepth[h])
  BY DEF Destroy
<1>2. CASE Begin(h, "destroy", {}, call)
  <2>1. call.source = nodec[h]
    BY DEF Call
  <2>2. IsCall(HandleDepth[h], call) /\ HonestCall(call)
    BY <1>1, HandleCalls
  <2> HIDE DEF call
  <2> QED
    BY <1>1, <1>2, <2>1, <2>2, BeginServed
<1>3. CASE UNCHANGED update
  BY <1>1, <1>3 DEF update, Idle, ServeInv
<1> QED
  BY <1>2, <1>3 DEF Destroy

LEMMA ServeInit == Init => ServeInv
BY DEF Init, ServeInv, Idle

LEMMA ServeStep ==
    ASSUME TypeOK, CanonicalInv, CountInv, ServeInv, [Next]_vars
    PROVE  ServeInv'
<1>1. CASE Step
  <2>0. ~Idle
    BY <1>1, StepInUpdate
  <2> QED
    BY <1>1, <2>0, PlanSourceServed, create_fnServed, copy_updateServed,
       move_updateServed, delete_fnServed, FinishLevelServed DEF Step
<1>2. CASE Operation
  <2>0. \A h \in Handles : HandleKeys[h] \subseteq Keys(HandleDepth[h])
    BY HandleAssumption
  <2>1. ASSUME NEW h \in Handles, NEW es \in Bulks(h), insert(h, es) \/ remove(h, es) PROVE ServeInv'
    BY <2>0, <2>1, insertServed, removeServed DEF Bulks
  <2>2. ASSUME NEW h \in Handles, NEW k \in HandleKeys[h], NEW value \in BOOLEAN, set(h, k, value)
        PROVE  ServeInv'
    <3>1. insert(h, {k}) \/ remove(h, {k})
      BY <2>2 DEF set
    <3>2. {k} \in SUBSET Keys(HandleDepth[h])
      BY <2>0
    <3> QED
      BY <3>1, <3>2, insertServed, removeServed
  <2>3. ASSUME Idle, UNCHANGED update PROVE ServeInv'
    BY <2>3 DEF update, Idle, ServeInv
  <2>4. ASSUME NEW g \in Handles, NEW h \in Handles,
               \/ Construct(h) \/ CopyConstruct(g, h) \/ MoveConstruct(g, h)
               \/ CopyAssign(g, h) \/ MoveAssign(g, h)
        PROVE  ServeInv'
    BY <2>3, <2>4 DEF Construct, CopyConstruct, MoveConstruct, CopyAssign, MoveAssign
  <2> QED
    BY <1>2, <2>1, <2>2, <2>4, DestroyServed DEF Operation
<1>3. CASE UNCHANGED vars
  <2>1. UNCHANGED <<fns, sens, lvl, plan, child>>
    BY <1>3 DEF vars
  <2>2. UnderInv => UnderInv'
    BY <2>1 DEF UnderInv, EdgesStored, IsStored, Counted, in_place
  <2>3. SourcesInv => SourcesInv'
    BY <2>1 DEF SourcesInv, Old
  <2>4. TargetsInv => TargetsInv'
    BY <2>1 DEF TargetsInv, Targets
  <2>5. DeltasInv => DeltasInv'
    BY <2>1 DEF DeltasInv, Old, Targets, LeftDeltas, Described
  <2>6. ServedRequests(lvl - 1, child) => ServedRequests(lvl - 1, child)'
    BY <2>1 DEF ServedRequests, Described, Made
  <2> QED
    BY <2>1, <2>2, <2>3, <2>4, <2>5, <2>6 DEF ServeInv, Idle
<1> QED
  BY <1>1, <1>2, <1>3 DEF Next

-----------------------------------------------------------------------------
(* What the invariants say of the next asserts.                            *)

LEMMA ServedChildrenOk ==
    ASSUME TypeOK, CanonicalInv, ~Idle, NEW C, lvl > 1 => \A c \in C : ServedCall(lvl - 1, c)
    PROVE  ChildrenOk(C)
<1>1. NodesCanonical /\ (lvl > 1 => lvl - 1 \in Depths)
  BY MidUpdate, MaxDepthAssumption DEF CanonicalInv, Depths
<1> QED
  BY <1>1, ServedCallOk DEF ChildrenOk

LEMMA CreationsOk ==
    ASSUME TypeOK, CanonicalInv, ServeInv, ~Idle, plan.todo = {}, NEW id \in plan.create
    PROVE  CreationOk(id)
<1>1. id \in DOMAIN plan.delta /\ plan.delta[id] > 0 /\ \E c \in plan.request.creation : c.id = id
  BY DEF ServeInv, TargetsInv
<1>2. ASSUME NEW c \in plan.request.creation
      PROVE  ChildrenOk(ChildCalls(lvl, "insert", "created", NoEdges(lvl), c.entries))
  <2> DEFINE C == ChildCalls(lvl, "insert", "created", NoEdges(lvl), c.entries)
  <2>1. lvl > 1 => \A x \in C : ServedCall(lvl - 1, x)
    BY CreationServed
  <2> HIDE DEF C
  <2>2. ChildrenOk(C)
    BY <2>1, ServedChildrenOk
  <2> QED
    BY <2>2 DEF C
<1> QED
  BY <1>1, <1>2 DEF CreationOk

LEMMA UpdatesOk ==
    ASSUME TypeOK, CanonicalInv, ServeInv, ~Idle, NEW u \in plan.copy \cup plan.move, NEW origin
    PROVE  UpdateOfOk(u, origin)
<1>1. u.source \in DOMAIN fns[lvl]
  BY DEF ServeInv, SourcesInv, Old
<1>2. u.target \notin DOMAIN fns[lvl] /\ u.target \in DOMAIN plan.delta
  BY DEF ServeInv, TargetsInv, Targets
<1> DEFINE C == ChildCalls(lvl, u.mode, origin, fns[lvl][u.source].edges, u.entries)
<1>3. lvl > 1 => \A x \in C : ServedCall(lvl - 1, x)
  BY UpdateServed
<1> HIDE DEF C
<1>4. ChildrenOk(C)
  BY <1>3, ServedChildrenOk
<1> QED
  BY <1>1, <1>2, <1>4 DEF UpdateOfOk, C

\* What is planned for a node is never negative.
LEMMA PlannedPositive ==
    ASSUME TypeOK, CountInv, NEW d \in Depths, NEW id \in RawIdentifiers(d), Counted(d, id)
    PROVE  Planned(d, id) \in Int /\ Planned(d, id) >= 0
<1>1. id # NoId /\ LiveInv
  BY DEF Counted, empty, CountInv
<1>2. Planned(d, id) >= Referrers(d, id)
  BY DEF CountInv, RefInv
<1>3. Planned(d, id) \in Int /\ Referrers(d, id) \in Nat
  BY <1>1, CountTypes, PlannedTypes
<1> QED
  BY <1>2, <1>3

LEMMA LastLoopsOk ==
    ASSUME TypeOK, CanonicalInv, CountInv, ServeInv, ~Idle,
           plan.create = {}, plan.copy = {}, plan.move = {}
    PROVE  LevelOk
<1>0. lvl \in Depths /\ IsMap(plan.delta, RawIdentifiers(lvl), Int)
  BY MidUpdate DEF IsPlan
<1>1. Targets = {}
  BY DEF Targets
<1>2. \A id \in LeftDeltas : id \in DOMAIN fns[lvl] /\ fns[lvl][id].ref + plan.delta[id] > 0
  BY <1>1 DEF ServeInv, DeltasInv, Old, LeftDeltas
<1>3. ASSUME NEW id \in DOMAIN plan.delta, is_sen(id)
      PROVE  IF id \in DOMAIN sens[lvl] THEN sens[lvl][id].ref + plan.delta[id] >= 0
             ELSE plan.delta[id] > 0 /\ \E e \in plan.request.entry : e.id = id /\ e.entries = id.es
  <2>1. id \in RawIdentifiers(lvl) /\ plan.delta[id] \in Int /\ plan.delta[id] # 0
    BY <1>0 DEF IsMap, CountInv, PlanInv
  <2>2. Counted(lvl, id) /\ ~is_fn(id)
    BY <1>3, TagsDisjoint DEF Counted, CountInv, InPlaceInv
  <2>3. Planned(lvl, id) = Stored(lvl, id) + plan.delta[id]
    BY <2>2 DEF Planned, Left, Delta
  <2>4. Stored(lvl, id) = IF id \in DOMAIN sens[lvl] THEN sens[lvl][id].ref ELSE 0
    BY <2>2 DEF Stored
  <2>5. Planned(lvl, id) >= 0
    BY <1>0, <2>1, <2>2, PlannedPositive
  <2>6. id \in DOMAIN sens[lvl] \/ \E e \in plan.request.entry : e.id = id /\ e.entries = id.es
    BY <1>3 DEF ServeInv, DeltasInv, Described
  <2> QED
    BY <2>1, <2>3, <2>4, <2>5, <2>6
<1> QED
  BY <1>2, <1>3 DEF LevelOk

LEMMA NextPlanOk ==
    ASSUME TypeOK, CanonicalInv, CountInv, ServeInv, ~Idle, lvl > 1
    PROVE  PlanOk(lvl - 1, child)
<1>0. lvl - 1 \in Depths /\ lvl # lvl - 1 /\ IsRequests(lvl - 1, child)
  BY MidUpdate, MaxDepthAssumption DEF Depths
<1>1. ASSUME NEW id \in child.dropped
      PROVE  id \in DOMAIN fns[lvl - 1] /\ fns[lvl - 1][id].ref + child.delta[id] >= 0
  <2>1. id \in DOMAIN fns[lvl - 1]
    BY DEF ServeInv, ServedRequests
  <2>2. is_fn(id) /\ ~is_sen(id) /\ id \in RawIdentifiers(lvl - 1)
    BY <1>0, <2>1, StoredByTag DEF CanonicalInv, TypeOK, StorageOK
  <2>3. Counted(lvl - 1, id)
    BY <2>2, TagsDisjoint DEF Counted, in_place
  <2>4. id \in DOMAIN child.delta
    BY <1>0 DEF IsRequests
  <2>5. Planned(lvl - 1, id) = fns[lvl - 1][id].ref + child.delta[id]
    BY <1>0, <2>1, <2>2, <2>4 DEF Planned, Stored, Delta
  <2>6. Planned(lvl - 1, id) >= 0
    BY <1>0, <2>2, <2>3, PlannedPositive
  <2> QED
    BY <2>1, <2>5, <2>6
<1> QED
  BY <1>1 DEF PlanOk

LEMMA ServedStepsOk ==
    ASSUME TypeOK, CanonicalInv, CountInv, ServeInv, ~Idle
    PROVE  StepsOk
<1>1. plan.delete \subseteq DOMAIN fns[lvl]
  BY DEF ServeInv, SourcesInv, Old
<1>2. plan.todo = {} => \A id \in plan.create : CreationOk(id)
  BY CreationsOk
<1>3. \A u \in plan.copy : UpdateOfOk(u, "copied")
  BY UpdatesOk
<1>4. \A u \in plan.move : UpdateOfOk(u, "moved")
  BY UpdatesOk
<1>5. plan.create = {} /\ plan.copy = {} /\ plan.move = {} => LevelOk
  BY LastLoopsOk
<1>6. lvl > 1 => PlanOk(lvl - 1, child)
  BY NextPlanOk
<1> QED
  BY <1>1, <1>2, <1>3, <1>4, <1>5, <1>6 DEF StepsOk

LEMMA RequestsOk ==
    ASSUME TypeOK, CanonicalInv, CountInv, Idle, NEW h \in Handles, NEW call,
           IsCall(HandleDepth[h], call), HonestCall(call), call.source \in {nodec[h], NoId}
    PROVE  RequestOk(h, call)
<1> DEFINE d == HandleDepth[h]
           r == Requested(d, NoRequests, {call})
<1>0. d \in Depths /\ NodesCanonical
  BY HandleAssumption DEF CanonicalInv
<1>1. ServedCall(d, call) /\ IsRequests(d, r) /\ ServedRequests(d, r)
  BY CallServed
<1>2. CallOk(d, call)
  BY <1>0, <1>1, ServedCallOk
<1>3. ASSUME NEW id \in r.dropped
      PROVE  id \in DOMAIN fns[d] /\ fns[d][id].ref + r.delta[id] >= 0
  <2>1. id \in DOMAIN fns[d] /\ id \in DOMAIN r.delta
    BY <1>1 DEF ServedRequests, IsRequests
  <2>2. fns[d][id].ref \in Int /\ fns[d][id].ref > 0
    BY <1>0, <2>1 DEF TypeOK, StorageOK, IsFullNode, CountInv, PositiveInv
  <2>3. Delta(NoRequests.delta, id) = 0
    BY DEF Delta, NoRequests, EmptyMap
  <2>4. IsFiniteSet({call}) /\ IsRequests(d, NoRequests)
    BY NoRequestsType, FS_Singleton
  <2>5. /\ Delta(r.delta, id) = 0 + Cardinality(Gained({call}, d, id)) - Cardinality(Lost({call}, d, id))
        /\ Cardinality(Gained({call}, d, id)) \in Nat
    BY <2>3, <2>4, RequestedDelta
  <2>6. Lost({call}, d, id) = {} \/ Lost({call}, d, id) = {call}
    BY DEF Lost
  <2>7. Cardinality(Lost({call}, d, id)) \in {0, 1}
    BY <2>6, FS_EmptySet, FS_Singleton
  <2> HIDE DEF r
  <2>8. Delta(r.delta, id) = r.delta[id]
    BY <2>1 DEF Delta
  <2> QED
    BY <2>1, <2>2, <2>5, <2>7, <2>8
<1>4. PlanOk(d, r)
  BY <1>3 DEF PlanOk
<1> QED
  BY <1>2, <1>4 DEF RequestOk

LEMMA AssertsImplied ==
    ASSUME TypeOK, CanonicalInv, CountInv, ServeInv
    PROVE  AssertsHold
<1>1. ~Idle => StepsOk
  BY ServedStepsOk
<1>2. ASSUME Idle, NEW h \in live
      PROVE  /\ \A es \in (SUBSET HandleKeys[h]) \ {{}} :
                  /\ empty(nodec[h]) => RequestOk(h, Call("add", NoId, es))
                  /\ es \cap nodec[h].es = {} /\ ~empty(nodec[h])
                     => RequestOk(h, Call("insert", nodec[h], es))
                  /\ es \subseteq nodec[h].es => RequestOk(h, Call("remove", nodec[h], es))
             /\ Counted(HandleDepth[h], nodec[h]) => RequestOk(h, Call("drop", nodec[h], {}))
  <2>1. h \in Handles /\ HandleKeys[h] \subseteq Keys(HandleDepth[h])
    BY HandleAssumption DEF TypeOK, HandlesOK
  <2>2. /\ \A kind, es : Call(kind, nodec[h], es).source = nodec[h]
        /\ \A es : Call("add", NoId, es).source = NoId
    BY DEF Call
  <2>6. ASSUME NEW es \in (SUBSET HandleKeys[h]) \ {{}}
        PROVE  RequestOk(h, Call("add", NoId, es))
    <3>1. IsCall(HandleDepth[h], Call("add", NoId, es)) /\ HonestCall(Call("add", NoId, es))
      BY <2>1, HandleCalls
    <3> QED
      BY <1>2, <2>1, <2>2, <3>1, RequestsOk
  <2>3. ASSUME NEW es \in (SUBSET HandleKeys[h]) \ {{}}, es \cap nodec[h].es = {}, ~empty(nodec[h])
        PROVE  RequestOk(h, Call("insert", nodec[h], es))
    <3>1. /\ IsCall(HandleDepth[h], Call("insert", nodec[h], es))
          /\ HonestCall(Call("insert", nodec[h], es))
      BY <2>1, <2>3, HandleCalls
    <3> QED
      BY <1>2, <2>1, <2>2, <3>1, RequestsOk
  <2>4. ASSUME NEW es \in (SUBSET HandleKeys[h]) \ {{}}, es \subseteq nodec[h].es
        PROVE  RequestOk(h, Call("remove", nodec[h], es))
    <3>1. /\ IsCall(HandleDepth[h], Call("remove", nodec[h], es))
          /\ HonestCall(Call("remove", nodec[h], es))
      BY <2>1, <2>4, HandleCalls
    <3> QED
      BY <1>2, <2>1, <2>2, <3>1, RequestsOk
  <2>5. RequestOk(h, Call("drop", nodec[h], {}))
    <3>1. {} \in SUBSET Keys(HandleDepth[h])
      OBVIOUS
    <3>2. /\ IsCall(HandleDepth[h], Call("drop", nodec[h], {}))
          /\ HonestCall(Call("drop", nodec[h], {}))
      BY <2>1, <3>1, HandleCalls
    <3> QED
      BY <1>2, <2>1, <2>2, <3>2, RequestsOk
  <2> QED
    BY <2>3, <2>4, <2>5, <2>6
<1> QED
  BY <1>1, <1>2 DEF AssertsHold

LEMMA ServeAlways == Spec => [](TypeOK /\ CanonicalInv /\ CountInv /\ ServeInv)
<1>1. TypeOK /\ CanonicalInv /\ CountInv /\ ServeInv /\ [Next]_vars => ServeInv'
  BY ServeStep
<1> QED
  BY <1>1, ServeInit, CountsAlways, PTL DEF Spec

\* No assert of an update ever fails, at any level, in any order of its steps
\* and for any Hypertries and bulks: what insert_into_node, remove_from_node,
\* UpdatePlan and consume_and_execute look up is stored, no node overwrites
\* another, every new node is described by a request and has a positive count,
\* and no count becomes negative.
THEOREM AssertsNeverFail == Spec => []AssertsHold
BY ServeAlways, AssertsImplied, PTL

-----------------------------------------------------------------------------
(* Every update comes to its end.  TLAPS knows no liveness; what it can    *)
(* prove is that every step of an update makes a measure smaller, and that *)
(* (AssertsNeverFail) no assert stops it on the way.                       *)

\* The nodes that the plan still has to create, copy, move and delete.
NodesLeft ==
    Cardinality(plan.create) + Cardinality(plan.copy) + Cardinality(plan.move) + Cardinality(plan.delete)

\* The levels, the sources and the nodes that are left are a descending triple.
Progress ==
    \/ lvl' < lvl
    \/ lvl' = lvl /\ Cardinality(plan.todo)' < Cardinality(plan.todo)
    \/ lvl' = lvl /\ plan'.todo = plan.todo /\ NodesLeft' < NodesLeft

MeasureOK == lvl \in Nat /\ (~Idle => Cardinality(plan.todo) \in Nat /\ NodesLeft \in Nat)

\* One element less.
LEMMA OneLess ==
    ASSUME NEW S, IsFiniteSet(S), NEW x \in S
    PROVE  Cardinality(S \ {x}) \in Nat /\ Cardinality(S) \in Nat /\ Cardinality(S \ {x}) < Cardinality(S)
<1>1. Cardinality(S) \in Nat /\ Cardinality(S \ {x}) = Cardinality(S) - 1 /\ IsFiniteSet(S \ {x})
  BY FS_RemoveElement, FS_CardinalityType
<1>2. Cardinality(S \ {x}) \in Nat
  BY <1>1, FS_CardinalityType
<1> QED
  BY <1>1, <1>2

LEMMA PlanFinite ==
    ASSUME TypeOK, ~Idle
    PROVE  /\ \A S \in {plan.todo, plan.create, plan.copy, plan.move, plan.delete} : IsFiniteSet(S)
           /\ Cardinality(plan.todo) \in Nat
           /\ Cardinality(plan.create) \in Nat /\ Cardinality(plan.copy) \in Nat
           /\ Cardinality(plan.move) \in Nat /\ Cardinality(plan.delete) \in Nat
<1>1. /\ plan.todo \subseteq RawIdentifiers(lvl) /\ plan.create \subseteq RawIdentifiers(lvl)
      /\ plan.copy \subseteq Updates(lvl) /\ plan.move \subseteq Updates(lvl)
      /\ plan.delete \subseteq RawIdentifiers(lvl) /\ lvl \in Depths
  BY MidUpdate DEF IsPlan
<1>2. IsFiniteSet(RawIdentifiers(lvl)) /\ IsFiniteSet(Updates(lvl))
  BY <1>1, IdentifiersFinite, UpdatesFinite
<1>3. /\ IsFiniteSet(plan.todo) /\ IsFiniteSet(plan.create) /\ IsFiniteSet(plan.copy)
      /\ IsFiniteSet(plan.move) /\ IsFiniteSet(plan.delete)
  BY <1>1, <1>2, FS_Subset
<1> QED
  BY <1>3, FS_CardinalityType

LEMMA StepProgress ==
    ASSUME TypeOK, ~Idle, Step
    PROVE  Progress
<1>0. lvl \in Nat /\ lvl > 0
  BY MidUpdate DEF Depths, IsPlan
<1>1. ASSUME NEW s \in plan.todo, PlanSource(s) PROVE Progress
  <2>1. lvl' = lvl /\ plan'.todo = plan.todo \ {s}
    BY <1>1, MidUpdate DEF PlanSource, IsPlan
  <2> QED
    BY <2>1, PlanFinite, OneLess DEF Progress
<1>2. ASSUME NEW id \in plan.create, create_fn(id) PROVE Progress
  <2>1. /\ lvl' = lvl /\ plan'.todo = plan.todo /\ plan'.create = plan.create \ {id}
        /\ plan'.copy = plan.copy /\ plan'.move = plan.move /\ plan'.delete = plan.delete
    BY <1>2, MidUpdate DEF create_fn, IsPlan
  <2>2. Cardinality(plan.create \ {id}) \in Nat /\ Cardinality(plan.create \ {id}) < Cardinality(plan.create)
    BY PlanFinite, OneLess
  <2> QED
    BY <2>1, <2>2, PlanFinite DEF Progress, NodesLeft
<1>3. ASSUME NEW u \in plan.copy, copy_update_fn_to_fn(u) PROVE Progress
  <2>1. /\ lvl' = lvl /\ plan'.todo = plan.todo /\ plan'.create = plan.create
        /\ plan'.copy = plan.copy \ {u} /\ plan'.move = plan.move /\ plan'.delete = plan.delete
    BY <1>3, MidUpdate DEF copy_update_fn_to_fn, IsPlan
  <2>2. Cardinality(plan.copy \ {u}) \in Nat /\ Cardinality(plan.copy \ {u}) < Cardinality(plan.copy)
    BY PlanFinite, OneLess
  <2> QED
    BY <2>1, <2>2, PlanFinite DEF Progress, NodesLeft
<1>4. ASSUME NEW u \in plan.move, move_update_fn_to_fn(u) PROVE Progress
  <2>1. /\ lvl' = lvl /\ plan'.todo = plan.todo /\ plan'.create = plan.create
        /\ plan'.copy = plan.copy /\ plan'.move = plan.move \ {u} /\ plan'.delete = plan.delete
    BY <1>4, MidUpdate DEF move_update_fn_to_fn, IsPlan
  <2>2. Cardinality(plan.move \ {u}) \in Nat /\ Cardinality(plan.move \ {u}) < Cardinality(plan.move)
    BY PlanFinite, OneLess
  <2> QED
    BY <2>1, <2>2, PlanFinite DEF Progress, NodesLeft
<1>5. ASSUME NEW id \in plan.delete, delete_fn(id) PROVE Progress
  <2>1. /\ lvl' = lvl /\ plan'.todo = plan.todo /\ plan'.create = plan.create
        /\ plan'.copy = plan.copy /\ plan'.move = plan.move /\ plan'.delete = plan.delete \ {id}
    BY <1>5, MidUpdate DEF delete_fn, IsPlan
  <2>2. Cardinality(plan.delete \ {id}) \in Nat /\ Cardinality(plan.delete \ {id}) < Cardinality(plan.delete)
    BY PlanFinite, OneLess
  <2> QED
    BY <2>1, <2>2, PlanFinite DEF Progress, NodesLeft
<1>6. ASSUME FinishLevel PROVE Progress
  <2>1. lvl' = lvl - 1 \/ lvl' = 0
    BY <1>6 DEF FinishLevel, StartLevel
  <2> QED
    BY <1>0, <2>1 DEF Progress
<1> QED
  BY <1>1, <1>2, <1>3, <1>4, <1>5, <1>6 DEF Step

\* Whatever an update of a context does next, it comes nearer to its end: it
\* finishes a level (ApplyUpdate calls itself for depth - 1), or deals with
\* another source of fn_update_entries_, or with another planned node.  So no
\* order of the hash maps makes apply_update run forever, without any
\* assumption of fairness between its steps, and no operation starts in its
\* middle.
THEOREM UpdatesProgress == Spec => []MeasureOK /\ [][~Idle => Progress]_vars
<1>1. TypeOK => MeasureOK
  <2> SUFFICES ASSUME TypeOK PROVE MeasureOK
    OBVIOUS
  <2>1. lvl \in Nat
    BY DEF TypeOK, UpdateOK
  <2> QED
    BY <2>1, PlanFinite DEF MeasureOK, NodesLeft
<1>2. TypeOK /\ [Next]_vars => [~Idle => Progress]_vars
  <2> SUFFICES ASSUME TypeOK, ~Idle, Next PROVE Progress
    OBVIOUS
  <2>1. ~Operation
    BY DEF Operation, insert, remove, set, Construct, CopyConstruct, MoveConstruct, CopyAssign,
           MoveAssign, Destroy
  <2> QED
    BY <2>1, StepProgress DEF Next
<1> QED
  BY <1>1, <1>2, TypeCorrect, PTL DEF Spec

=============================================================================

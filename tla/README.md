# A TLA+ model of the hypertrie

A hypertrie stores sets of d-tuples of key parts so that they can be sliced by
every position. All hypertries of a context share their nodes. This project
models the shared node storage and the algorithm that updates it, the objects
that own nodes, the bulk updaters that feed the updates, and what reads the
storage: slices, joins, Einstein summation and queries. The modules are
model-checked with TLC on small instances, and the central safety properties
are proved with TLAPS for all instances.

## 1. The system

| component | state | operations | interacts with |
|---|---|---|---|
| keys, entries, identifiers (`RawKey.hpp`, `Identifier.hpp`, `EntrySubsetForPos.hpp`) | none | `subkey`, `combine`, `retag_as_sen`, `entry_subset_for_pos` | used by everything below |
| node storage (`NodeStorage.hpp`, `FullNode.hpp`, `WithEdges.hpp`, `SingleEntryNode.hpp`) | per depth, full nodes and single entry nodes by identifier, each with a reference count | lookup, creation, deletion | changed by `ApplyUpdate` and by reference counting only |
| update (`UpdateRequests.hpp`, `UpdatePlan.hpp`, `ApplyUpdate.hpp`) | the requests and the plan of one depth | `add_node`, `insert_into_node`, `remove_from_node`, `apply_ref_count_delta`; the plan; `create_fn`, `copy_update_fn_to_fn`, `move_update_fn_to_fn`, `delete_fn`, `apply_sen_update` | collects requests for the next depth while it changes the present one |
| context and Hypertrie (`RawHypertrieContext.hpp`, `Hypertrie.hpp`) | the identifier of each Hypertrie | `insert`, `remove`, `set`, construction, copy, move, assignment, destruction | start updates, own references |
| reads (`RawHypertrieContext.hpp`, `RawIterator.hpp`, `RawKey.hpp`) | position of an iterator | `get`, `slice`, `diagonal_slice`, iteration | walk the storage between updates |
| asynchronous bulk updater (`RawBulkUpdater.hpp`, `BulkUpdater.hpp`) | queue, current bulk, deduplication set, flag, stop token | `add`, `flush`, destructor; worker thread | the worker is the only one that touches the hypertrie |
| synchronous bulk updater (`SynchronousRawBulkUpdater.hpp`) | current bulk, deduplication set | `add`, `flush`, destructor | calls `get` and `insert` |
| queue (`folly_ProducerConsumerQueue.hpp`) | ring of slots, two atomic indices | `write`, `read`, `sizeGuess` | between the caller and the worker |
| diagonals and joins (`HashDiagonal.hpp`, `RawHashDiagonal.hpp`, `HashJoin.hpp`, `PermutationSort.hpp`) | per diagonal: remaining edges, value, cache of a single entry; per iterator: sorted diagonals and outputs | `begin`, `++`, `find`, `next`, copy | read the storage; used by the operators below |
| Einstein summation (`libs/einsum`) | subscript, entry, deadline | `einsum`; Join, Cartesian, Resolve, Count; estimates | loops over joins of the operands |
| query (`libs/query`) | operand dependency graph, entry, deadline | `evaluate`, distinct evaluation, `evaluate_ask`; Join, LeftJoin, Union, Cartesian, Resolve, Count; estimates | loops over inner and left joins |

What is hard to get right, and hard to test:

* A node is shared by everything that has the same entries. An update of one
  Hypertrie copies what is shared, reuses in place what would be deleted, and
  counts references for both. A mistake shows up later, in another Hypertrie.
* The plan of a level depends on the iteration order of hash maps.
* A full node may shrink to a single entry, which is a node of another kind; at
  depth 1 it may not be a node at all.
* Caller and worker of the asynchronous updater synchronise with two indices, a
  flag and a stop token, each tested at one place only.
* Deduplication sets are bounded and forget.
* A slice with a single entry is stored nowhere: it lives in a cache of the
  diagonal that found it, and diagonals are sorted, moved and copied while
  slices point to them.
* The operators of a query share one entry and write to it in place, in an order
  that estimates choose from the data. Operands and graph are pruned separately
  and are matched by position.

What makes the components correct: storage nodes are what their identifiers say
(`NodesCanonical`); counts equal the references (`RefCountsExact`) and no
reference dangles (`NoDangling`); the Hypertries behave as independent sets
(`ImplementsSets`) and reads see those sets (`GetAgrees`, `SliceAgrees`); the
queue is a FIFO without races; nothing that was added to a bulk updater is lost
or applied twice, and its calls return. A loop over a join sees every joint key
part once (`YieldsExact`), with the right slices (`ValueExact`), and ends
(`LoopsProgress`, `DeadlineObserved`); a query has the solutions of the algebra
(`SolutionsExact`, `DistinctExact`, `AskExact`), an Einstein summation is the sum
of products (`EinsumExact`).

## 2. The modules

* **Identifier**: keys are tuples, an entry is its key (Boolean hypertries
  store only `true`), an identifier is the set of its entries plus the tag,
  which is written separately as in the code. `combine` is the symmetric
  difference, as xor is on hashes without collisions. Positions start at 1.
* **SliceKey**: slice keys, their shift when a position is resolved, diagonal
  positions, and the entries of a slice.
* **NodeContext**: `fns`, `sens` are the storage, `nodec` and `live` the
  Hypertries; `op`, `lvl`, `plan`, `child` are the update in progress, at depth
  `lvl`. One action per step:

  | action | code |
  |---|---|
  | `insert`, `remove`, `set` | `RawHypertrieContext`, down to the first request in `apply_update` |
  | `Construct`, `CopyConstruct`, `MoveConstruct`, `CopyAssign`, `MoveAssign`, `Destroy` | the special members of `Hypertrie`, with `inc_ref_count` and `decr_ref_count` |
  | `PlanSource(s)` | one iteration of the loop over `fn_update_entries_` in `UpdatePlan`; the choice of what is moved is free |
  | `create_fn`, `copy_update_fn_to_fn`, `move_update_fn_to_fn`, `delete_fn` | the functions of the same names, in the order of `consume_and_execute` |
  | `FinishLevel` | the remaining deltas and `apply_sen_update`, then the next depth or the return to the caller |

  The requests that a step makes for the children of a node are given in closed
  form (`Requested`), because the calls for different edges commute. Asserts of
  the code are guards (`CallOk`, `PlanOk`, `LevelOk`) and the property
  `AssertsHold`: every guard holds where the code would evaluate the assert,
  between operations for every bulk that may come.
* **HypertrieSet**: the abstract specification. Every Hypertrie is a set of its
  own; an operation is requested and takes effect in one step.
* **NodeContextReads**: `get`, `slice`, the keys that an iterator yields and
  `retrieve_remaining_single_entry` as recursive functions (`Get`, `Slice`,
  `Iterated`, `Remaining`) of the depth on the stored nodes, and the refinement `ImplementsSets`. The mapping takes the content of a
  Hypertrie to be what an iterator would yield, in the middle of an update also
  for all Hypertries but the one being changed.
* **ProducerConsumerQueue**: `write` and `read`, split at their accesses to
  shared memory.
* **BoundedFifo**: the abstract specification of the queue. A call of `write` is
  accepted or refused, and an accepted one takes effect, each in one step; the
  same for `read`. The mapping in `ImplementsFifo` places the decision at the
  load of the other index and the effect at the store of one's own.
* **AsyncBulkUpdater**: the caller (`add`/`Write`, `flush`/`FlushReturns`,
  `Destroy`/`Join`) and the worker (`Check`, `Read`, `CheckStop`, `Apply`,
  `Reset`, one action per test of shared state). The queue is the FIFO that
  ProducerConsumerQueue implements, the hypertrie is a set as in HypertrieSet.
* **SyncBulkUpdater**: `add`, `flush` and the destructor, with the call of
  `insert` as a step of its own.
* **Bulk**: what a bulk, a sequence of entries, does to a set of keys. Used by
  both updaters.
* **JoinValues**: what a join promises, as operators on operands (a depth and a
  set of keys): the joint key parts, and per key part the slices. `Query` and
  `Einsum` use the promise, HashJoin shows that the iterators keep it.
* **HashDiagonal**: the two raw diagonals and `diagonal_slice`. The nodes below an
  operand are the canonical ones, as NodeContext establishes. A diagonal is a
  record with an address; a slice of a single entry node is written to its
  `cache`, and the value says which address it points to.
* **HashJoin**: the state machine of the loops over joins. `Begin` is `begin()`
  with the constructor of the iterator, `Hit`, `Miss` and `Exhausted` are the
  rounds of `next`, `Next` is `operator++`, `Copy` the copy that
  `operator++(int)` returns, `Body` the loop body of an operator with its
  `check_time_out`, `Throw` the exception, `Leave` the end of the loop or a body
  that returns early, `NewContext` the next evaluation; the clock is external.
  The order of edges in a hash map is free.
* **OperandDependencyGraph**: the graph of a query's operands, its subgraphs,
  pruning, the independent strong component and the components of unions and
  Cartesian products.
* **Outcomes**: what the operators of both libraries share. A call is the set of
  its outcomes: the bag of yielded solutions, the entry that it leaves, and
  whether all assertions held and every operand had its place (`defined`).
* **Query**: `get_sub_operator` with all operators of `libs/query` and the
  functions of `Evaluation`. **Einsum**: the same for `libs/einsum`. Both are
  recursive operators: with each call a variable or an operand is gone.
* **QueryEvaluation**: a query with any operands is evaluated in one of the
  ways its callers have, one action each; the algebra of bags of bindings
  (`Solutions`) is the reference. A query of joins only is also an Einstein
  summation.
* **KeyTheorems** (lemmas on keys, entries and slices), **NodeContextProofs** and
  **NodeContextReadsProofs** (the second extends the first),
  **HashJoinProofs**, **ProducerConsumerQueueProofs**, **BulkTheorems**,
  **AsyncBulkUpdaterProofs**, **SyncBulkUpdaterProofs**: theorems and proofs.
* **MCNodeContext**, **MCAsyncBulkUpdater**, **MCHashJoin**,
  **MCQueryEvaluation**: instances for TLC.

Definitions that end in a hint at a mistake (`ReusableAlways`, `StartReadLate`,
...) precede the definition that they are a faulty variant of. They are used by
nothing; each violates the property that it is listed with in PROJECT.json and
so shows that the property is able to fail.

## 3. The runs

| run | instance | shows |
|---|---|---|
| `depth2` | two Hypertries of depth 2, all four keys over two key parts, no in-place entries, bulks of at most 2, at most one assignment | types, exact counts (never too low after an assignment), termination, refinement of HypertrieSet |
| `depth3` | a Hypertrie of depth 3 with six keys and one of depth 2 with three, bulks of at most 3, in-place entries | canonical nodes, no assert fails, no dangling reference, the remaining entry is found, `get`, slices, refinement |
| `queue` | three slots, two records, six writes | no race, intact slots, capacity, refinement of BoundedFifo, delivery |
| `async` | inserter and remover, three entries, none or two of them stored, bulk size 2 (the minimum), five adds, two flushes | types, nothing lost before the end, relevant bulks, callback, what flush and the destructor guarantee, calls return |
| `sync_insert` | eight entries, six stored, bulk size 2, ten adds: the deduplication set reaches its limit of 8 and is cleared | contract of `insert`; everything applied within the limit; beyond it only entries that were twice in one bulk are lost |
| `joins` | two iterators; 75 joins of two to four operands of depth 1 to 3 over two key parts, inner and left, `MaxCounter` 1 | types, exact key parts and values, owned caches, the smallest operand first, deadline, progress |
| `queries` | 38 queries over up to four operands of depth 0 to 2 and up to four variables, every content at depth 2 over two key parts, none, one or both at depth 1 | solutions, distinct solutions, ASK and Einstein sums are those of the algebra, all calls defined |
| `async_destroy`, `async_flush`, `async_duplicates`, `query_count`, `einsum_stale` | see section 4 | counterexamples |

Why the bounds are enough to see the interesting cases. Two key parts give
nodes with one and with two edges at a position, and children that are equal at
different positions and so shared within one node; three depths are the least
with a middle level that has parents and full node children at once. Bulks of
three entries grow a single entry node and a full node, create, copy and move
on the same level. Two Hypertries are enough for a node to be shared and not to
be shared. A ring of three slots has room for two records, and six writes wrap
its indices twice. Deduplication sets hold 4 times the bulk size and at least
8 entries; the run `async` stays below that, the run
`async_duplicates` reaches it (with symmetry under exchange of the entries that
are alike), and so does `sync_insert`: an entry is collected twice and lost with
the ninth call of `add`. The joins have operands that end up as slices of the storage, as
cached single entries and as scalars, operands without the label, and diagonals
over one, two and three positions with edges that have no slice; with three
diagonals the sort makes cycles of every length. A context that reads the clock
after two steps behaves like one that does so after 512. The queries are those of
`tests_Query.cpp` up to the number of operands: with two key parts and every
content at depth 2, operands have none, one and several matches for each binding, and the
estimates choose different variables for different contents.

The named bounds are `MaxBulk`, `MaxAssigns`, `MaxWrites`, `MaxAdds`,
`MaxFlushes` and `MaxCounter` (512 in the code). `MaxBulk` and the key sets bound the states of NodeContext;
apart from assignments, which leak references, operations follow each other
without a limit.

Fairness. An update runs to its end in the caller's thread: weak fairness of
`Step`. Both threads of a bulk updater are scheduled again and again (weak
fairness of the worker, and of the return from a call that may return); that
the caller makes further calls is not assumed. The worker polls the queue and
a caller of `add` repeats a failed write: weak fairness of producer and consumer
in the queue. Loops over joins need no fairness to be seen to end:
`LoopsProgress` says that every step of a loop makes less of what remains.

Queries and Einstein sums are functions of their operands; `Queries.cfg`,
`QueryCount.cfg` and `EinsumStale.cfg` turn deadlock checking off because a run
stops when it has the answer.

## 4. Where the code and its documentation disagree

1. `async_duplicates`: when the deduplication set of the asynchronous updater
   reaches its limit it is refilled from the current bulk, before the entry that
   was just read is part of it. That entry can enter the bulk twice, which the
   comment there excludes.
2. `async_destroy`: an entry that is written between a failed read of the worker
   and the destructor's `request_stop` is lost. The tests destroy an updater and
   expect everything to be stored. What does hold is `OnlyQueueLost`.
3. `async_flush`: `flush` "flushes the queued entries" according to
   `BulkUpdater.hpp`; it applies only what the worker has already taken from the
   queue (`FlushAppliesCollected`).
4. `query_count`: a left join asked for a single result prunes its graph but
   not the operands that it passes on with it (`generator` passes the pruned
   ones). The next operator then works on operands of other variables, against
   the assertion of `CountOperator` that one operand is left; without assertions
   it counts the wrong one.
5. `einsum_stale`: all operators of an evaluation write to one entry. The
   generator of a Cartesian product in `libs/einsum` sets its value only if the
   type is not `bool`, and then asserts that it is true. In the sum of abd and dc
   over d and c, the estimates take b before d for the first key part of a, and the
   last key part of b has no solution, which leaves the entry false; for the next
   key part of a they take d first, and the product of b and c yields its
   solutions with that false value. Cartesian products below a join are in the run
   `queries` too (J(ab, ac)); there no result without solutions comes before one
   in the same evaluation.

Met on the way, without a run that shows them:

* The synchronous updater in mode `Remove` calls `insert` with entries that are
  stored, against "Entries must not yet be contained in nodec"
  (`RawHypertrieContext.hpp`). `SyncRemoverInserts` proves that every call does.
* Assignments of Hypertries do not release the node of the left-hand side (the
  counts are then too high; `RefCountsSufficient` shows that they are never too
  low).
* `set` at depth 1 with in-place entries inserts before it reads the old value
  and so returns a wrong one.
* The synchronous updater never counts `no_seen_entries`, and clears a full
  deduplication set without refilling it, so that an entry of the bulk can be
  collected twice. It then cancels itself in the identifier of the bulk and is
  lost; `OnlyRepeatedLost` says that this is the only loss, and
  `AllAppliedAfterDestroy` which callers are safe from it.
* An optional Cartesian product whose iterated component has no solutions yields
  each combination of the stored ones with the value that the entry had, which is 1
  at the top of a query. If the projection makes several of them equal, their
  number is lost. The run `queries` has the product of J(ab, bc) and d, each
  optional for the other, with all variables projected, and not its projection to
  a, b and c.
* A Boolean left join returns the result of its first key part, also when that
  is false, so ASK can be wrong for a left join below a join.
* A left join is asked for a single result whenever its projected variables are
  bound before it is evaluated, and then point 4 applies. For this reason the
  run `queries` has no left join without a projected variable, and not the
  projections of LJ(ab, bc) to a or to b, of LJ(a, LJ(ab, bc)) and
  LJ(J(a, ab), bc) to a, and of LJ(LJ(a, ab), ac) to c.
* The sort of the operands of a left join compares pointers and so changes
  nothing.

## 5. The proofs

The theorems hold for all sets of key parts, depths, Hypertries, bulks and
queue sizes; the assumptions are that there are finitely many keys
(`KeysAssumption`, key parts are machine words), that depths and bounds are
natural numbers (`MaxDepthAssumption`, `HandleAssumption`,
`MaxWritesAssumption`), that the ring has at least two slots
(`SizeAssumption`, asserted by the constructor), that an empty slot is not a
record (`ItemAssumption`), that the value of a diagonal that has ended is not a
key part (`NoPartAssumption`), and that the operands of a join are hypertries
that are not empty, one of which has the label (`JoinAssumption`; the operators
construct only such joins).

* `TypeCorrect` (NodeContextProofs): `TypeOK` is inductive as it stands. The work
  is in the lemmas on the operators: what `subkey`, `combine`, the child calls,
  `Requested` and the updated edges return, by depth.
* `StoredNodesCanonical` (NodeContextProofs): `NodesCanonical` is not
  inductive, since a step builds a node from what a request says. `CanonicalInv`
  adds that the requests are honest: every request for an update names entries
  that its source lacks (has) and a target with exactly the entries that result,
  every creation and every changed single entry has the identifier of its
  entries, and the identifiers of the Hypertries are canonical. Callers of
  `insert` and `remove` establish it, and the calls that a step makes for the
  children of a node hand it down: taking the entries below a key part commutes
  with union and difference (`SubEntriesUnion`, `SubEntriesDifference`), so the identifiers that come
  back are those of the children that the changed node ought to have. The asserts
  of the code (the guards `CallOk` and `LevelOk`) are used where a size decides
  whether a node has become a single entry; that they never fail is
  `AssertsNeverFail`.
* `ReferencesCounted`, `ReferencesNeverLost`, `NothingDangles`
  (NodeContextProofs): `RefCountsExact`, `RefCountsSufficient` and `NoDangling`
  speak of the time between operations only; in the middle of an update stored
  counts are wrong. The invariant `CountInv` compares two quantities that are
  right at every step: `Planned`, the count that a node will have once the deltas
  of the plan and of the requests for the level below are applied and the plan's
  deletions are done, and `Referrers`, the edges of stored nodes and the Hypertries
  that will refer to it when the operation returns. Each step preserves their
  difference, which is zero unless a Hypertrie was assigned to: a step that
  creates, changes or deletes a node adds to the collected deltas what its edges
  contribute, and `FinishLevel` moves deltas into the storage. The rest of
  `CountInv` says which nodes the plan may touch, that no stored node has count
  zero, and that in-place entries are neither stored nor counted. Edges are
  counted as sets of triples of node, position and key part, so the proof needs
  that identifiers are finitely many (`IdentifiersFinite`).
* `AssertsNeverFail` (NodeContextProofs): the guards say what the code looks up
  and writes over; `CanonicalInv` and `CountInv` say what the nodes and counts
  are, but not that the requests and the storage fit together. `ServeInv` adds
  that: the edges of the nodes that are still to be changed, and of those below,
  lead to stored nodes (`UnderInv`); a source is there until its last use, and a
  node that is moved is neither deleted nor planned again (`SourcesInv`); a node
  that is to be made is not stored, is made once and has a positive count
  (`TargetsInv`); a delta that is left belongs to a node that is stored or that
  will be made, and never takes a count to zero or below without deleting the
  node (`DeltasInv`); and the requests collected for the next depth can be served
  (`ServedRequests`), from which `PlanOk` of that depth follows.
* `UpdatesProgress` (NodeContextProofs): every step of an update lowers, in
  lexicographic order, the depth, the number of sources that are not planned
  and the number of planned nodes that are not written (`NodesLeft`); all three
  are natural numbers (`MeasureOK`). So an update has finitely many steps in every
  order of the plan, without fairness, and together with `AssertsNeverFail` it
  can only end by `FinishLevel` at the lowest depth.
* `ContextImplementsSets` (NodeContextReadsProofs): the refinement of
  HypertrieSet. In the middle of an update the storage is broken for the
  Hypertrie being changed, and must not be for any other one. `KeptInv` names what
  the others depend on: the nodes that can be reached from the other Hypertries
  (`Needed`) are stored throughout, because whatever the update deletes or moves
  away has no reference left when the update is over (`CountInv`), while a needed
  node keeps one; that they are intact is `NodesCanonical`. `TargetInv` follows the identifier
  that the update is to produce, so that the Hypertrie has the requested content
  in the step that ends the update, and no other step changes what an iterator
  yields (`IteratedExact`).
* `GetFindsWhatWasPut`, `SlicesExact`, `LastEntryFound` (NodeContextReadsProofs):
  the walks are exact on canonical nodes (`GetExact`, `SliceExact`,
  `RemainingExact`), whichever position `min_card_pos` and `max_card_pos` choose.
  A walk is a function of the depth; `DepthInduction` rests on the least element
  of a set of naturals (`LeastNumber`, from the well-founded subset ordering of
  finite sets), since the induction theorems of the library cannot be instantiated
  by the provers. For slices, `RankFacts` and `FreeShift` show that resolving a
  position renumbers the free positions and keeps their order, so that the
  projections by two routes agree.
* `QueueTypeCorrect`, `QueueNoSlotRace`, `QueueSlotsIntact`, `QueueCapacity`,
  `QueueFifo`, `QueueImplementsFifo` (ProducerConsumerQueueProofs): the invariant `QueueInv` says what
  each thread knows between its comparison of the indices and its publication
  (`IndexInv`), that the slots outside the queue are empty (`SlotInv`), and that
  the slot at distance n from the read index holds the n-th record that was not
  yet received (`OrderInv`). For the refinement of BoundedFifo, the records that
  are written and not received (`Pending`) are the abstract queue: their number is
  the distance of the indices (`PendingLength`), publishing appends one
  (`PublishAppends`), and releasing a slot takes the first (`ReleaseTakes`). Each
  thread sees the index of the other one as it is at its load; between that and
  its own store the other thread can only make room, or add records, so the
  decision stays right.
* `AsyncTypeCorrect`, `AsyncBulkIsRelevant` (AsyncBulkUpdaterProofs) hold for
  every execution, from `UpdaterInv`: what the two threads know of each other at
  each place, and that the bulk has only entries that would change the
  hypertrie. `AsyncNothingLost`, `AsyncNoDuplicates`, `AsyncOnlyQueueLost`,
  `AsyncFlushAppliesCollected` and `AsyncStatsExact` are stated for executions in
  which the deduplication set does not reach its limit within a bulk
  (`[]SetNotFull`). They need that assumption: once the set is refilled, an
  entry can enter the bulk twice, which is point 1 of section 4, and cancels
  itself in the identifier of the bulk. `DeduplicationInv` adds that the set
  contains the bulk, and that what it contains besides is settled.
  `AsyncFewEntries` discharges the assumption for a caller with fewer than
  `deduplication_max_size` different entries, as in the run `async`.
* `SyncInsertContract` (SyncBulkUpdaterProofs) holds for every execution in mode
  Insert, and `SyncRemoverInserts` for every one in mode Remove.
  `SyncOnlyRepeatedLost` holds for every execution in mode Insert too: a seen
  entry was added (`SeenInv`), so a call of `add` loses nothing, and `insert`
  drops only what its bulk has more than once (`DroppedRepeated`).
  `SyncNoDuplicates` and `SyncAllApplied` say which callers lose nothing: those
  that call `add` at most `deduplication_max_size` times, that have fewer different
  entries, or whose bulks have one entry (`WithinLimit`, which is part of the two
  properties). A call of `add` that does not reach the limit remembers its entry
  (`AddRemembers`, as the set has at most one entry per call); the call that does
  still finds the bulk without repetitions (`DistinctInv`), and only a later one
  can repeat an entry. Nothing is claimed of callers beyond the limit but
  `OnlyRepeatedLost`, since for them the two properties fail in the code.

* `LoopsObserveDeadline` (HashJoinProofs): what has been counted since the last
  test of the clock bounds what was done since the deadline (`DeadlineInv`). It
  needs no more than the counter; the other theorems on joins rest on lemmas on
  the operators: following the cycles of a permutation with swaps applies it
  (`ApplyIs`, by an invariant on the rounds of the loops: each round leaves one
  cycle less or one element more in its place), and every way to compute a slice
  of a diagonal returns the slice, as a node of the storage or as a single entry
  in the cache of the diagonal that asked (`DiagonalSliceExact`, `RetrieveExact`).
* `JoinTypeCorrect`, `DiagonalsOwnCaches`, `SmallestIsIterated`,
  `JointKeyPartsOnce`, `ValuesAreSlices`, `LoopsEnd` (HashJoinProofs): none of
  these properties is inductive, for a value is right only because of what the
  diagonals hold, and the yielded key parts are complete only because of what the
  first diagonal has yet to visit. `LoopInv` says of every iterator in a loop
  (`IteratorInv`): each diagonal is a correct state of a diagonal at its own
  address (`GoodDiagonal`, which speaks of the form of its value and of its
  cache); the diagonals, in whatever order, and the outputs that none of them
  fills in make up the join (`ServesJoin`, which relates each output to the one
  diagonal that is its source); the joint key parts are those that were returned,
  the one that the first diagonal is at, and some of those that it has yet to
  visit (`KeysVisited`); and while the body runs, each output is what its source
  returned for the key part of the iterator (`HoldsValue`). The constructor
  establishes this for every permutation that the sort may produce
  (`BeginIterator`); advancing, probing and copying preserve it (`ForwardStep`,
  `FindStep`, `ServiceKept`, and one lemma per action). A copy keeps everything
  but `HoldsValue`, since its value still points to the caches of the original:
  `mine` is false until its next hit, and `ValueExact` claims nothing of it until
  then. `LoopsEnd` counts the edges that the first diagonal has yet to visit
  (`FurtherCounts`); it is an action property and needs no fairness.

The invariants that the proofs of the node context and of the joins rest on
(`CanonicalInv`, `CountInv`, `ServeInv`, `KeptInv`, `TargetInv`, `LoopInv`) were found with
TLC on the instances of section 3 before they were proved.

Only model-checked: the liveness properties (`UpdateTerminates`, `AllReceived`,
`CallsReturn`), for the prover does not reason about fairness (for
`UpdateTerminates`, what does not depend on fairness is `AssertsNeverFail` and
`UpdatesProgress`; that some step is enabled while the asserts hold is left to TLC,
since it is a statement about ENABLED); queries and Einstein sums, whose operators are recursive over the shape of the query, which
the prover cannot follow. What the joins contribute to them is proved.

## 6. Not modelled

Values other than Booleans (removal is an `assert(false)` for them), depth-0
hypertries as objects of a context, hash collisions (of identifiers and of the
hashes by which distinct solutions are told apart), several contexts, allocators
and containers, the data race in `size()` of the asynchronous updater,
`const_Hypertrie`s that outlive an update, the parsing of subscripts, the caches
of subgraphs and sub-subscripts.

Abstractions of what is modelled: estimates are exact fractions instead of
doubles; generators yield all their solutions at once, so a caller that stops
early or changes an entry between two solutions is not considered. Preconditions
that assertions of the code state: the operands of an Einstein summation are
neither empty nor scalars (`HashJoin`, `CountOperator`, `ResolveOperator`), and
`evaluate_ask` is called without projected variables
(`ResolveOperator::single_result`). One assert of an update is not a guard of its
own, that a moved node has an edge for each key part of the entries to remove
(`ApplyUpdate.hpp`): it follows from the requests being honest (`CanonicalInv`).
Of the asserts on the values of entries in a Cartesian product, `defined` has
those on the value that is yielded. The run `depth2` has no in-place entries and
`depth3` no assignments; the theorems on reference counts and on dangling
references cover both with everything else. PROJECT.json gives the reason for each
component, and under "hazards" what could go wrong there.

## 7. Plan

1. Reads in detail: the stepwise `RawIterator`; ownership of slice results; the
   value that `set` returns.
2. The asynchronous updater composed with the queue at the granularity of its
   memory accesses, as an implementation of AsyncBulkUpdater.

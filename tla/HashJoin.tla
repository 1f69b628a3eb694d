------------------------------ MODULE HashJoin ------------------------------
(***************************************************************************)
(* Joins of hypertries (HashJoin.hpp) as the loops of the query and einsum *)
(* operators use them, with the deadline that the loops observe            *)
(* (check_time_out of einsum's Context and of Query).                      *)
(*                                                                         *)
(* A join is given by its operands and the positions of the join label in  *)
(* each of them.  An iterator owns one diagonal per operand that has the   *)
(* label.  It iterates the first one and looks its key parts up in the     *)
(* others.  Its value is a key part and, per operand, a const_Hypertrie;   *)
(* one that is a single entry of a diagonal's cache is a pointer to it.    *)
(* Diagonal n of iterator i has the address <<i, n>>.                      *)
(***************************************************************************)
EXTENDS HashDiagonal

CONSTANTS Iterators,    \* names of iterators
          Joins,        \* the joins that a run constructs
          MaxCounter    \* max_counter_, 512 in the code

ASSUME JoinAssumption ==
    /\ MaxCounter \in Nat
    /\ \A j \in Joins :
          /\ j.optional \in BOOLEAN
          /\ j.operands \in Seq(Operands)
          /\ DOMAIN j.positions = DOMAIN j.operands
          /\ \A p \in DOMAIN j.operands : /\ j.positions[p] \in SUBSET (1 .. j.operands[p].depth)
                                          /\ j.operands[p].es # {}
          /\ \E p \in DOMAIN j.operands : HasLabel(j, p)

VARIABLES
    join,      \* the HashJoin
    its,       \* the iterators
    pc,        \* what is done with each: none, probing, ready, body, ended
    yielded,   \* the key parts each of them has returned
    counter,   \* counter_ of the Context
    late,      \* whether the deadline has passed
    overrun    \* how many tests of the deadline have returned since then

deadline == <<counter, late, overrun>>
vars == <<join, its, pc, yielded, counter, late, overrun>>

-----------------------------------------------------------------------------
(* sort_permutation: the swaps by which apply brings element p[i] to i.    *)

IsPermutation(p) == \A x \in DOMAIN p : \E y \in DOMAIN p : p[y] = x

Swapped(s, x, y) == [s EXCEPT ![x] = s[y], ![y] = s[x]]

\* One round of the loops of apply, which follow the cycles of p.  prev is 0
\* between two cycles.  vec tells the place that each element comes from.
ApplyRound(p, s) ==
    LET j == p[s.prev]
    IN  IF s.i > Len(p) THEN s
        ELSE IF s.prev = 0 /\ s.i \notin s.done THEN [s EXCEPT !.done = @ \cup {s.i}, !.prev = s.i]
        ELSE IF s.prev = 0 \/ j = s.i THEN [s EXCEPT !.i = @ + 1, !.prev = 0]
        ELSE [s EXCEPT !.vec = Swapped(@, s.prev, j), !.done = @ \cup {j}, !.prev = j]

ApplyStart(p) == [vec |-> [n \in DOMAIN p |-> n], done |-> {}, i |-> 1, prev |-> 0]

\* apply: which element of a vector ends up at each place.
apply(p) ==
    LET run[m \in 0 .. 2 * Len(p)] ==
            IF m = 0 THEN ApplyStart(p) ELSE ApplyRound(p, run[m - 1])
    IN  run[2 * Len(p)].vec

\* Mutant: any permutation.
get_any(sizes) == {p \in [DOMAIN sizes -> DOMAIN sizes] : IsPermutation(p)}

\* get: a permutation that sorts by size; std::sort may return any of them.
get(sizes) ==
    {p \in [DOMAIN sizes -> DOMAIN sizes] :
        /\ IsPermutation(p)
        /\ \A x, y \in DOMAIN sizes : x < y => sizes[p[x]] <= sizes[p[y]]}

-----------------------------------------------------------------------------
(* The constructor of iterator.                                            *)

\* The operands that have the join label, in order.
Labelled(j) == InOrder({p \in DOMAIN j.operands : HasLabel(j, p)})

\* A const_Hypertrie that is no slice of a cache.
NodeOutput(o) == [depth |-> o.depth, slice |-> SliceResult("node", NoAddress, o.es)]

NoOutput == [depth |-> 0, slice |-> EmptySlice]

\* The diagonals in the order of the operands.
Diagonals(j, i) ==
    LET src == Labelled(j)
    IN  [n \in DOMAIN src |-> NewDiagonal(j.operands[src[n]], j.positions[src[n]], <<i, n>>)]

\* The operands without the label are passed on as they are.
InitialOutputs(j) ==
    [o \in 1 .. Outputs(j) |->
        LET p == CHOOSE q \in DOMAIN j.operands : HasOutput(j, q) /\ OutPos(j, q) = o
        IN  IF HasLabel(j, p) THEN NoOutput ELSE NodeOutput(j.operands[p])]

\* optimizeOperandOrder.  The variant for left joins sorts pointers, which
\* leaves the operands in their order.
OperandOrders(j, ops) ==
    IF j.optional THEN {[n \in DOMAIN ops |-> n]}
    ELSE {apply(p) : p \in get([n \in DOMAIN ops |-> diagonal_size(ops[n])])}

\* Swapping diagonals moves them to other addresses.
Settled(i, ops) == [n \in DOMAIN ops |-> update_sen_cache_ptr(ops[n], <<i, n>>)]

IteratorIn(j, i, ops, order) ==
    LET src == Labelled(j)
    IN  [ops |-> Settled(i, [n \in DOMAIN ops |-> ops[order[n]]]),
         pos_in_out |-> [n \in DOMAIN ops |->
                            IF HasOutput(j, src[order[n]]) THEN OutPos(j, src[order[n]]) ELSE 0],
         non_optional |-> {n \in DOMAIN ops : src[n] \in j.non_optional},
         first |-> NoPart, second |-> InitialOutputs(j), mine |-> TRUE]

NewIterators(j, i) ==
    LET ops == Diagonals(j, i)
    IN  UNION {{[it EXCEPT !.ops[1] = g] : g \in begin(it.ops[1], <<i, 1>>)} :
                  it \in {IteratorIn(j, i, ops, order) : order \in OperandOrders(j, ops)}}

-----------------------------------------------------------------------------
(* next.  One step tries one key part of the first operand.                *)

\* current_hypertrie, and current_scalar_as_tensor for left joins.
CurrentHypertrie(g) ==
    [depth |-> result_depth(g),
     slice |-> IF g.value.at = "scalar" THEN SliceResult("node", NoAddress, {<<>>}) ELSE g.value]

\* The diagonals 2 .. n probed for kp; none is probed behind a failure.
FirstMiss(it, i, kp) ==
    LET needed == IF join.optional THEN it.non_optional ELSE DOMAIN it.ops
        misses == {n \in needed \ {1} : ~found(it.ops[n], kp, <<i, n>>)}
    IN  IF misses = {} THEN Len(it.ops) + 1 ELSE first_pos(misses)

Probed(it, i, kp) ==
    [n \in DOMAIN it.ops |-> IF n = 1 \/ n > FirstMiss(it, i, kp) THEN it.ops[n]
                             ELSE find(it.ops[n], kp, <<i, n>>)]

\* The outputs of the operands ops for kp; a diagonal keeps an old value_
\* when an optional operand has no slice.
OutputOf(it, ops, kp, i, n) ==
    IF n > 1 /\ ~found(it.ops[n], kp, <<i, n>>) THEN NoOutput ELSE CurrentHypertrie(ops[n])

Filled(it, i, kp, upto) ==
    LET ops == Probed(it, i, kp)
        source(o) == {n \in 1 .. upto : it.pos_in_out[n] = o}
    IN  [o \in DOMAIN it.second |->
            IF source(o) = {} THEN it.second[o]
            ELSE OutputOf(it, ops, kp, i, CHOOSE n \in source(o) : TRUE)]

\* The key part that the first operand is at has a slice in all of them.
\* A left join fills in the outputs while it probes, also in vain.
Hit(i) ==
    LET it == its[i]
        kp == it.ops[1].kp
    IN  /\ pc[i] = "probing"
        /\ ~ended(it.ops[1])
        /\ FirstMiss(it, i, kp) > Len(it.ops)
        /\ its' = [its EXCEPT ![i] = [it EXCEPT !.ops = Probed(it, i, kp), !.first = kp,
                                          !.second = Filled(it, i, kp, Len(it.ops)),
                                          !.mine = TRUE]]
        /\ pc' = [pc EXCEPT ![i] = "ready"]
        /\ yielded' = [yielded EXCEPT ![i] = Append(@, kp)]
        /\ UNCHANGED <<join, deadline>>

Miss(i) ==
    LET it == its[i]
        kp == it.ops[1].kp
        miss == FirstMiss(it, i, kp)
    IN  /\ pc[i] = "probing"
        /\ ~ended(it.ops[1])
        /\ miss <= Len(it.ops)
        /\ \E g \in inc(it.ops[1], <<i, 1>>) :
              its' = [its EXCEPT ![i] =
                         [it EXCEPT !.ops = [Probed(it, i, kp) EXCEPT ![1] = g], !.first = kp,
                             !.second = IF join.optional
                                        THEN [o \in DOMAIN @ |->
                                                 IF it.pos_in_out[1] = o THEN @[o]
                                                 ELSE Filled(it, i, kp, miss - 1)[o]]
                                        ELSE @]]
        /\ UNCHANGED <<join, pc, yielded, deadline>>

Exhausted(i) ==
    /\ pc[i] = "probing"
    /\ ended(its[i].ops[1])
    /\ pc' = [pc EXCEPT ![i] = "ended"]
    /\ UNCHANGED <<join, its, yielded, deadline>>

-----------------------------------------------------------------------------
(* The loop over a join.                                                   *)

NoIterator == [ops |-> <<>>]

\* The operators run one loop over a join at a time.
Begin(i) ==
    /\ \A x \in Iterators : pc[x] = "none"
    /\ \E it \in NewIterators(join, i) : its' = [its EXCEPT ![i] = it]
    /\ pc' = [pc EXCEPT ![i] = "probing"]
    /\ yielded' = [yielded EXCEPT ![i] = <<>>]
    /\ UNCHANGED <<join, deadline>>

\* check_time_out throws only when the counter has passed its maximum
\* (mutant: one call later, when it has been reset).
TimedOutLate == counter > MaxCounter + 1 /\ late

TimedOut == counter > MaxCounter /\ late

\* Mutant: the counter is not reset.
BodyNoReset(i) ==
    /\ pc[i] = "ready"
    /\ ~TimedOut
    /\ counter' = counter + 1
    /\ overrun' = IF late THEN overrun + 1 ELSE overrun
    /\ pc' = [pc EXCEPT ![i] = "body"]
    /\ UNCHANGED <<join, its, yielded, late>>

\* The body of the loop: check_time_out, then the evaluation of the slices.
Body(i) ==
    /\ pc[i] = "ready"
    /\ ~TimedOut
    /\ counter' = IF counter > MaxCounter THEN 0 ELSE counter + 1
    /\ overrun' = IF late THEN overrun + 1 ELSE overrun
    /\ pc' = [pc EXCEPT ![i] = "body"]
    /\ UNCHANGED <<join, its, yielded, late>>

\* The exception ends all loops.
Throw(i) ==
    /\ pc[i] = "ready"
    /\ TimedOut
    /\ counter' = counter + 1
    /\ its' = [x \in Iterators |-> NoIterator]
    /\ pc' = [x \in Iterators |-> "thrown"]
    /\ UNCHANGED <<join, yielded, late, overrun>>

\* operator++
Next(i) ==
    /\ pc[i] = "body"
    /\ \E g \in inc(its[i].ops[1], <<i, 1>>) : its' = [its EXCEPT ![i].ops[1] = g]
    /\ pc' = [pc EXCEPT ![i] = "probing"]
    /\ UNCHANGED <<join, yielded, deadline>>

\* A copy of an iterator (the result of operator++(int)).  Its diagonals
\* point to their own caches, its value still to those of the original.
Copy(i, j) ==
    /\ pc[i] = "body"
    /\ pc[j] = "none"
    /\ its' = [its EXCEPT ![j] = [its[i] EXCEPT !.ops = Settled(j, @), !.mine = FALSE]]
    /\ pc' = [pc EXCEPT ![j] = "body"]
    /\ yielded' = [yielded EXCEPT ![j] = yielded[i]]
    /\ UNCHANGED <<join, deadline>>

\* The end of the loop, or its body returns early.
Leave(i) ==
    /\ pc[i] \in {"body", "ended"}
    /\ its' = [its EXCEPT ![i] = NoIterator]
    /\ pc' = [pc EXCEPT ![i] = "none"]
    /\ yielded' = [yielded EXCEPT ![i] = <<>>]
    /\ UNCHANGED <<join, deadline>>

\* The next evaluation has a Context of its own.
NewContext ==
    /\ \A i \in Iterators : pc[i] \in {"none", "thrown"}
    /\ pc' = [i \in Iterators |-> "none"]
    /\ yielded' = [i \in Iterators |-> <<>>]
    /\ counter' = 0
    /\ late' = FALSE
    /\ overrun' = 0
    /\ UNCHANGED <<join, its>>

ClockPasses ==
    /\ ~late
    /\ late' = TRUE
    /\ UNCHANGED <<join, its, pc, yielded, counter, overrun>>

Init ==
    /\ join \in Joins
    /\ its = [i \in Iterators |-> NoIterator]
    /\ pc = [i \in Iterators |-> "none"]
    /\ yielded = [i \in Iterators |-> <<>>]
    /\ counter = 0
    /\ late = FALSE
    /\ overrun = 0

Search(i) == Hit(i) \/ Miss(i) \/ Exhausted(i)

Loop(i) == Search(i) \/ Body(i) \/ Throw(i) \/ Next(i)

JoinNext ==
    \/ \E i \in Iterators : Begin(i) \/ Loop(i) \/ Leave(i)
    \/ \E i, j \in Iterators : Copy(i, j)
    \/ ClockPasses
    \/ NewContext

Spec == Init /\ [][JoinNext]_vars

-----------------------------------------------------------------------------

Live(i) == pc[i] \in {"probing", "ready", "body", "ended"}

TypeOK ==
    /\ join \in Joins
    /\ pc \in [Iterators -> {"none", "probing", "ready", "body", "ended", "thrown"}]
    /\ counter \in 0 .. MaxCounter + 2
    /\ \A i \in Iterators : Live(i) =>
           /\ Len(its[i].ops) = Len(Labelled(join))
           /\ Len(its[i].second) = Outputs(join)
           /\ \A n \in DOMAIN its[i].ops : its[i].ops[n].rest \subseteq KeyParts

\* The const_Hypertrie h as it reads now: a pointer to a cache is followed.
Content(h) ==
    IF h.slice.at = "cache" /\ ~(Taggable /\ h.depth = 1)
    THEN its[h.slice.address[1]].ops[h.slice.address[2]].cache
    ELSE h.slice.es

\* While the body of a loop runs, the value holds, for every operand with an
\* output, exactly the entries of its slice, whichever order the operands
\* were sorted into, although they were swapped, and single entries are only
\* pointers to a cache that later probes overwrite (next, update_sen_cache_ptr).
ValueExact ==
    \A i \in Iterators : pc[i] \in {"ready", "body"} /\ its[i].mine =>
        /\ its[i].first \in JoinKeys(join)
        /\ [o \in DOMAIN its[i].second |->
              Operand(its[i].second[o].depth, Content(its[i].second[o]))]
           = JoinValue(join, its[i].first)

\* A loop that ends has seen every joint key part once, in whatever order
\* and with whichever operand first; a copied iterator continues the loop
\* of its original.
YieldsExact ==
    \A i \in Iterators : Live(i) =>
        /\ \A x, y \in DOMAIN yielded[i] : x # y => yielded[i][x] # yielded[i][y]
        /\ pc[i] = "ended" => {yielded[i][x] : x \in DOMAIN yielded[i]} = JoinKeys(join)

\* No diagonal points to the cache of another one, after swaps and copies.
CachesOwned ==
    \A i \in Iterators : Live(i) => \A n \in DOMAIN its[i].ops :
        LET g == its[i].ops[n]
        IN  g.value.at = "cache" /\ ~(Taggable /\ result_depth(g) = 1)
            => g.value.address = <<i, n>> /\ g.value.es = g.cache

\* The operand that is iterated has the least upper bound, and the bound of
\* size() is one: no operand has more slices than it says.
SmallestFirst ==
    \A i \in Iterators : Live(i) => \A n \in DOMAIN its[i].ops :
        LET g == its[i].ops[n]
        IN  /\ ~join.optional => diagonal_size(its[i].ops[1]) <= diagonal_size(g)
            /\ Cardinality({kp \in KeyParts : SliceOf(g.op.es, Diagonal(g.poss, kp)) # {}})
               <= diagonal_size(g)

\* After the deadline an evaluation makes at most MaxCounter + 1 more steps.
DeadlineObserved == overrun <= MaxCounter + 1

\* What is left of a loop: the edges still to visit, and the phase.
Phase == [probing |-> 3, ready |-> 2, body |-> 1, ended |-> 0]

Remaining(i) ==
    LET g == its[i].ops[1]
    IN  4 * (Cardinality(g.rest) + (IF ended(g) THEN 0 ELSE 1)) + Phase[pc[i]]

\* Loops over a join end: every step of next, operator++ and the body makes
\* less of what remains, so that none can search or repeat forever.
LoopsProgress ==
    [][\A i \in Iterators :
          /\ Live(i) /\ Live(i)'
          /\ its'[i] # its[i] \/ pc'[i] # pc[i]
          => Remaining(i)' < Remaining(i)]_vars

=============================================================================

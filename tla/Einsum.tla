------------------------------- MODULE Einsum -------------------------------
(***************************************************************************)
(* Einstein summation (libs/einsum: Subscript, RawSubscript,               *)
(* EinsumOperator and the operators).                                      *)
(*                                                                         *)
(* A subscript is the sequence of the operands' labels and the labels of   *)
(* the result.  An operator is called with a subscript, one operand per    *)
(* sequence of labels and an entry; Outcomes says what a call is.  The     *)
(* caches of sub-subscripts, which hold what is computed here, are left    *)
(* out, and the deadline is in HashJoin.                                   *)
(***************************************************************************)
EXTENDS Outcomes, Graphs

Subscript(operands, result) == [operands |-> operands, result |-> result]

operands_label_set(sc) == UNION {Range(sc.operands[n]) : n \in DOMAIN sc.operands}

result_label_set(sc) == Range(sc.result)

\* Every label of the result is in an operand.
valid(sc) == result_label_set(sc) \subseteq operands_label_set(sc)

used_result_poss(sc) == {pos \in DOMAIN sc.result : sc.result[pos] \in operands_label_set(sc)}

all_result_done(sc) == used_result_poss(sc) = {}

clear(sc, e) == clear_used_entry_poss(e, used_result_poss(sc))

\* RawSubscript::removeLabel drops the operands without another label.
removeLabel(sc, label) ==
    LET others(op) == SelectSeq(op, LAMBDA l : l # label)
        remaining == [n \in DOMAIN sc.operands |-> others(sc.operands[n])]
    IN  Subscript(SelectSeq(remaining, LAMBDA op : op # <<>>), sc.result)

getLabelPossInOperands(sc, label) ==
    [n \in DOMAIN sc.operands |-> {pos \in DOMAIN sc.operands[n] : sc.operands[n][pos] = label}]

\* An operand with several positions of the label is listed as often.
getPossOfOperandsWithLabel(sc, label) ==
    LET poss == getLabelPossInOperands(sc, label)
    IN  FlattenSeq([n \in DOMAIN sc.operands |-> [i \in 1 .. Cardinality(poss[n]) |-> n]])

lonely_non_result_labels(sc) ==
    {l \in operands_label_set(sc) \ result_label_set(sc) :
        Cardinality(UNION {{n} \X getLabelPossInOperands(sc, l)[n] : n \in DOMAIN sc.operands}) = 1}

-----------------------------------------------------------------------------
(* Components and types of subscripts.                                     *)

\* calcDependencyGraph: labels of an operand are connected.
connected_components(sc) ==
    LET labels == operands_label_set(sc)
        together == UNION {Range(sc.operands[n]) \X Range(sc.operands[n]) : n \in DOMAIN sc.operands}
        connected == ConnectionsIn([node |-> labels, edge |-> together])
    IN  SetToSeq({{l \in labels : connected[m, l]} : m \in labels})

\* extractCartesianSubSubscript: the operands and the part of the result.
Within(seq, labels) == {n \in DOMAIN seq : Range(seq[n]) \cap labels # {}}

Restricted(f, poss) == LET ps == SetToSortSeq(poss, <) IN [n \in DOMAIN ps |-> f[ps[n]]]

result_poss(sc, component) == {pos \in DOMAIN sc.result : sc.result[pos] \in component}

extractCartesianSubSubscript(sc, component) ==
    Subscript(Restricted(sc.operands, Within(sc.operands, component)),
              Restricted(sc.result, result_poss(sc, component)))

calcState(sc) ==
    LET labels == operands_label_set(sc)
        distinct == Len(sc.operands[1]) = Cardinality(labels)
    IN  IF sc.operands = <<>> THEN "EntryGenerator"
        ELSE IF Len(sc.operands) = 1
        THEN IF distinct /\ labels \subseteq result_label_set(sc) THEN "Resolve"
             ELSE IF distinct /\ labels \cap result_label_set(sc) = {} THEN "Count" ELSE "Join"
        ELSE IF Len(connected_components(sc)) > 1 THEN "Cartesian" ELSE "Join"

-----------------------------------------------------------------------------
(* CardinalityEstimation                                                   *)

Cards(sc, ops) ==
    [l \in operands_label_set(sc) \ lonely_non_result_labels(sc) |->
        calcCard(ops, getPossOfOperandsWithLabel(sc, l), getLabelPossInOperands(sc, l))]

\* The labels that getMinCardLabel may return: sets of labels are iterated.
getMinCardLabel(sc, ops) ==
    LET labels == operands_label_set(sc)
        least == Least(Cards(sc, ops))
    IN  IF Cardinality(labels) = 1 \/ least = {} THEN labels ELSE least

estimate(sc, ops) ==
    estimated_size([n \in DOMAIN ops |-> Cardinality(ops[n].es)], Cards(sc, ops))

-----------------------------------------------------------------------------
RECURSIVE get_sub_operator(_, _, _, _, _)

SubSolutions(b, sc, ops, e) ==
    LET done == all_result_done(sc)
    IN  {IF done THEN YieldIfTrue(o) ELSE o : o \in get_sub_operator(b, sc, ops, e, done)}

(* JoinOperator.  The loops end with the key parts kps.                    *)

JoinOn(sc, ops, label) == InnerJoin(ops, getLabelPossInOperands(sc, label))

RECURSIVE JoinLoop(_, _, _, _, _, _)
JoinLoop(b, sc, join, label, kps, e) ==
    IF kps = {} THEN {Result(e)}
    ELSE UNION {UNION {{Then(o, p) : p \in JoinLoop(b, sc, join, label, kps \ {kp}, o.entry)} :
            o \in SubSolutions(b, removeLabel(sc, label), JoinValue(join, kp), Bind(sc.result, label, kp, e))} :
            kp \in kps}

\* Mutant: only one key part counts.
JoinLast(b, sc, join, label, kps, sum, e) ==
    IF kps = {} THEN {Result(Value(e, sum))}
    ELSE UNION {get_sub_operator(b, removeLabel(sc, label), JoinValue(join, kp), e, TRUE) : kp \in kps}

\* A bool is true with the first key part for which it is, other values are
\* summed up.
RECURSIVE JoinSum(_, _, _, _, _, _, _)
JoinSum(b, sc, join, label, kps, sum, e) ==
    IF kps = {} THEN {Result(Value(e, sum))}
    ELSE UNION {UNION {
            IF b /\ o.entry.value # 0 THEN {o}
            ELSE {Then(o, p) :
                    p \in JoinSum(b, sc, join, label, kps \ {kp}, sum + o.entry.value, o.entry)} :
            o \in get_sub_operator(b, removeLabel(sc, label), JoinValue(join, kp), e, TRUE)} :
            kp \in kps}

Join(b, sc, ops, e, single) ==
    UNION {LET join == JoinOn(sc, ops, label)
           IN  IF single THEN JoinSum(b, sc, join, label, JoinKeys(join), 0, clear(sc, e))
               ELSE JoinLoop(b, sc, join, label, JoinKeys(join), clear(sc, e)) :
           label \in getMinCardLabel(sc, ops)}

-----------------------------------------------------------------------------
(* CartesianOperator                                                       *)

\* Sub-results, with keys of the whole result.  Those that are stored add up
\* by their keys, and a value of type bool is true.
Spread(sc, component, bag) ==
    LET poss == SetToSortSeq(result_poss(sc, component), <)
        key(k) == [pos \in DOMAIN sc.result |->
                      IF pos \in Range(poss) THEN k[CHOOSE n \in DOMAIN poss : poss[n] = pos] ELSE Unbound]
    IN  [K \in {key(k) : k \in DOMAIN bag} |->
            MapThenSumSet(LAMBDA k : bag[k], {k \in DOMAIN bag : key(k) = K})]

SubSubscripts(sc) ==
    LET comps == connected_components(sc)
    IN  [c \in DOMAIN comps |->
            [subscript |-> extractCartesianSubSubscript(sc, comps[c]), labels |-> comps[c],
             operand_poss |-> Within(sc.operands, comps[c]), poss |-> result_poss(sc, comps[c])]]

extract_operands(sub, ops) == Restricted(ops, sub.operand_poss)

\* A component that is expected to have most solutions is iterated, the
\* others are stored.
iterated_poss(subs, ops) ==
    Greatest([c \in DOMAIN subs |-> estimate(subs[c].subscript, extract_operands(subs[c], ops))])

Components(b, sc, ops, subs) ==
    LET spread(c, o) == [o EXCEPT !.sols = LET all == Spread(sc, subs[c].labels, @)
                                           IN  IF b THEN SetToBag(DOMAIN all) ELSE all]
        solutions(sub) == SubSolutions(b, sub.subscript, extract_operands(sub, ops),
                                       make_filled(sub.subscript.result))
        found == [c \in DOMAIN subs |-> {spread(c, o) : o \in solutions(subs[c])}]
    IN  {outcomes \in [DOMAIN subs -> UNION Range(found)] : \A c \in DOMAIN subs : outcomes[c] \in found[c]}

\* Without solutions of one component there is none.
CartesianOf(sc, outcomes, subs, e, single) ==
    LET none == \E c \in DOMAIN subs : outcomes[c].sols = EmptyBag
        poss == [c \in DOMAIN subs |-> subs[c].poss]
        sols == IF none THEN EmptyBag ELSE Combinations(e.key, outcomes, poss)
    IN  CartesianResults(e, sols, \A c \in DOMAIN subs : outcomes[c].defined, single)

\* The generator writes no value of type bool while it iterates solutions with
\* labels of the result: the entry has the value that it was called with.
value_kept(b, sub, single) == b /\ ~single /\ ~all_result_done(sub.subscript)

Cartesian(b, sc, ops, e, single) ==
    LET subs == SubSubscripts(sc)
        kept(it, o) == IF value_kept(b, subs[it], single) THEN KeptValue(e.value, o) ELSE o
    IN  UNION {{kept(it, o) : o \in CartesianOf(sc, outcomes, subs, clear(sc, e), single)} :
               outcomes \in Components(b, sc, ops, subs), it \in iterated_poss(subs, ops)}

-----------------------------------------------------------------------------

Resolve(sc, ops, e) == ResolveEntries(sc.result, sc.operands[1], ops[1].es, clear(sc, e))

\* Single results of Resolve and solutions of Count and EntryGenerator are
\* never asked for, Resolve and Count have one operand, and an entry of it
\* (assertions of the operators).
get_sub_operator(b, sc, ops, e, single) ==
    LET type == calcState(sc)
        asserted == /\ type = "Resolve" => ~single /\ ops[1].es # {}
                    /\ type = "Count" => single /\ ops[1].es # {}
    IN  IF type = "EntryGenerator" THEN {IF single THEN Result(Value(e, 1)) ELSE Undefined(e)}
        ELSE IF ~Aligned(sc.operands, ops) \/ ~asserted THEN {Undefined(e)}
        ELSE CASE type = "Count" -> Count(b, ops, e)
               [] type = "Resolve" -> Resolve(sc, ops, e)
               [] type = "Cartesian" -> Cartesian(b, sc, ops, e, single)
               [] type = "Join" -> Join(b, sc, ops, e, single)

\* Entries of type bool are yielded once each.
einsum(b, sc, ops) ==
    LET distinct(o) == IF b THEN [o EXCEPT !.sols = SetToBag(DOMAIN @)] ELSE o
    IN  {distinct(o) : o \in SubSolutions(b, sc, ops, make_filled(sc.result))}

=============================================================================

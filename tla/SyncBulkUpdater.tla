-------------------------- MODULE SyncBulkUpdater --------------------------
(***************************************************************************)
(* The synchronous bulk updater (SynchronousRawBulkUpdater.hpp): add       *)
(* collects entries in the caller's thread and applies a full bulk.  In    *)
(* contrast to the asynchronous one the set of seen entries lives as long  *)
(* as the updater, and a full set is cleared without a reinsertion.  The   *)
(* caller leaves the hypertrie alone while the updater exists.             *)
(***************************************************************************)
EXTENDS Bulk, SequencesExt

CONSTANTS Entries,    \* the entries the caller may add
          Initial,    \* the entries of the hypertrie at construction
          Mode,       \* BulkUpdaterMode: "insert" or "remove"
          Requested,  \* the argument bulk_size
          MaxAdds     \* bound on the calls of add

ASSUME SyncAssumption ==
    /\ Initial \subseteq Entries /\ IsFiniteSet(Entries)
    /\ Mode \in {"insert", "remove"}
    /\ {Requested, MaxAdds} \subseteq Nat

VARIABLES
    content,         \* the entries of the hypertrie
    new_entries,     \* the current bulk
    de_duplication,
    flushing,        \* TRUE: flush is about to call insert
    alive,           \* the updater exists
    expected,        \* the entries the hypertrie has once all adds took effect
    adds             \* calls of add so far

svars == <<content, new_entries, de_duplication, flushing, alive, expected, adds>>

\* The limit is computed from the argument, before a zero is corrected.
deduplication_max_size == 4 * Requested

bulk_size == IF Requested = 0 THEN 1 ELSE Requested

Init ==
    /\ content = Initial /\ expected = Initial
    /\ new_entries = <<>> /\ de_duplication = {}
    /\ flushing = FALSE /\ alive = TRUE
    /\ adds = 0

\* A set that reaches its limit is cleared.
Remember(e) ==
    IF Cardinality(de_duplication \cup {e}) = deduplication_max_size THEN {}
    ELSE de_duplication \cup {e}

already_stored(e) == e \in content

RelevantAlways(e) == TRUE

Relevant(e) == IF Mode = "insert" THEN ~already_stored(e) ELSE already_stored(e)

Full(bulk) == Len(bulk) >= bulk_size

add(e) ==
    LET after == IF e \notin de_duplication /\ Relevant(e)
                 THEN Append(new_entries, e) ELSE new_entries
    IN  /\ alive /\ ~flushing /\ adds < MaxAdds
        /\ adds' = adds + 1
        /\ de_duplication' = Remember(e)
        /\ new_entries' = after
        /\ flushing' = (after # new_entries /\ Full(after))
        /\ expected' = IF Mode = "insert" THEN expected \cup {e} ELSE expected \ {e}
        /\ UNCHANGED <<content, alive>>

\* flush by the caller or by the destructor.
flush_not_at_end(destroys) ==
    /\ alive /\ ~flushing
    /\ flushing' = (new_entries # <<>> /\ ~destroys)
    /\ alive' = ~destroys
    /\ new_entries # <<>> \/ destroys
    /\ UNCHANGED <<content, new_entries, de_duplication, expected, adds>>

flush(destroys) ==
    /\ alive /\ ~flushing
    /\ flushing' = (new_entries # <<>>)
    /\ alive' = ~destroys
    /\ new_entries # <<>> \/ destroys
    /\ UNCHANGED <<content, new_entries, de_duplication, expected, adds>>

\* flush calls insert, in both modes (mutant: the new root is not stored).
InsertForgotten ==
    /\ flushing
    /\ new_entries' = <<>>
    /\ flushing' = FALSE
    /\ UNCHANGED <<content, de_duplication, alive, expected, adds>>

Insert ==
    /\ flushing
    /\ content' = content \cup Odd(new_entries)
    /\ new_entries' = <<>>
    /\ flushing' = FALSE
    /\ UNCHANGED <<de_duplication, alive, expected, adds>>

Terminated == ~alive /\ ~flushing /\ UNCHANGED svars

Next ==
    \/ \E e \in Entries : add(e)
    \/ \E destroys \in BOOLEAN : flush(destroys)
    \/ Insert
    \/ Terminated

Spec == Init /\ [][Next]_svars /\ WF_svars(Insert)

-----------------------------------------------------------------------------

\* The contract of insert: "Entries must not yet be contained in nodec".
InsertContract == flushing => Elements(new_entries) \cap content = {}

\* Callers for whom a cleared set makes no difference: add is called no more
\* often than its limit, or there are fewer entries than that, or the bulk has
\* one entry.
WithinLimit ==
    \/ adds <= deduplication_max_size
    \/ Cardinality(Entries) < deduplication_max_size
    \/ bulk_size = 1

\* Identifiers are built from entries that "MUST NOT contain duplicates".
NoDuplicatesInBulk == WithinLimit => IsInjective(new_entries)

\* After the destructor the hypertrie has every entry that such a caller added,
\* whether it was applied by a full bulk, by flush or by the destructor, and is
\* otherwise as before.
AllAppliedAfterDestroy == WithinLimit /\ ~alive /\ ~flushing => content = expected

\* What was added and is neither collected nor stored.
Lost == expected \ (content \cup Elements(new_entries))

\* For every caller, also after the set was cleared: an entry is only lost when
\* flush passes it to insert more than once in one bulk.
OnlyRepeatedLost == [][Lost' \subseteq Lost \cup Repeated(new_entries)]_svars

=============================================================================

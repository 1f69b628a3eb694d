-------------------------- MODULE AsyncBulkUpdater --------------------------
(***************************************************************************)
(* The asynchronous bulk updater (RawBulkUpdater.hpp, BulkUpdater.hpp): a  *)
(* caller thread hands entries through a bounded queue to a worker thread, *)
(* which drops duplicates and entries that change nothing, collects a bulk *)
(* and applies it to the hypertrie.  flush and the destructor talk to the  *)
(* worker through an atomic flag and a stop token.                         *)
(*                                                                         *)
(* The queue is the bounded FIFO that ProducerConsumerQueue implements.    *)
(* The hypertrie is the set of its keys, as in HypertrieSet; only the      *)
(* worker touches it while the updater exists.  An insertion or removal    *)
(* combines identifiers with xor, so of an entry that occurs twice in a    *)
(* bulk nothing remains in the identifier.                                 *)
(***************************************************************************)
EXTENDS Bulk, SequencesExt

CONSTANTS Entries,     \* the entries the caller may add
          Initials,    \* the contents the hypertrie may have at construction
          Modes,       \* the BulkUpdaterModes: "insert", "remove"
          Requested,   \* the argument bulk_size
          MaxAdds,     \* bound on the calls of add
          MaxFlushes   \* bound on the calls of flush

ASSUME UpdaterAssumption ==
    /\ Initials \subseteq SUBSET Entries /\ IsFiniteSet(Entries)
    /\ Modes \subseteq {"insert", "remove"}
    /\ {Requested, MaxAdds, MaxFlushes} \subseteq Nat

VARIABLES
    mode,          \* the BulkUpdaterMode of the updater
    queue,         \* entry_queue_
    please_flush,
    stop,          \* stop requested
    content,       \* the entries of the hypertrie
    new_entries,   \* the current bulk
    de_duplication,
    seen,          \* no_seen_entries
    done,
    worker,        \* where the worker thread is
    caller,        \* where the caller's thread is
    argument,      \* the entry that add writes
    added,         \* the entries that were added
    adds,          \* how often add was called
    flushes,       \* how often flush was called
    collected,     \* the bulk when flush was called
    stats          \* the last arguments of get_stats_

local == <<content, new_entries, de_duplication, seen, done, stats>>
vars == <<mode, queue, please_flush, stop, content, new_entries, de_duplication, seen, done,
          worker, caller, argument, added, adds, flushes, collected, stats>>
calls == <<adds, flushes, collected>>

bulk_size == IF Requested > 2 THEN Requested ELSE 2

deduplication_max_size == 4 * bulk_size

Init ==
    /\ mode \in Modes
    /\ queue = <<>> /\ please_flush = FALSE /\ stop = FALSE
    /\ content \in Initials
    /\ new_entries = <<>> /\ de_duplication = {} /\ seen = 0 /\ done = FALSE
    /\ worker = "collect"
    /\ caller = "ready" /\ argument = <<>> /\ added = {}
    /\ adds = 0 /\ flushes = 0 /\ collected = {}
    /\ stats = <<0, 0, Cardinality(content)>>

-----------------------------------------------------------------------------
(* The caller.                                                             *)

add(e) ==
    /\ caller = "ready" /\ adds < MaxAdds
    /\ caller' = "adding" /\ argument' = <<e>>
    /\ adds' = adds + 1
    /\ UNCHANGED <<mode, queue, please_flush, stop, worker, added, flushes, collected, local>>

\* A write that succeeds; until then the caller spins.
Write ==
    /\ caller = "adding" /\ Len(queue) < bulk_size - 1
    /\ queue' = queue \o argument
    /\ added' = added \cup Elements(argument)
    /\ caller' = "ready" /\ argument' = <<>>
    /\ UNCHANGED <<mode, please_flush, stop, worker, calls, local>>

flush ==
    /\ caller = "ready" /\ flushes < MaxFlushes
    /\ please_flush' = TRUE
    /\ caller' = "flushing"
    /\ flushes' = flushes + 1 /\ collected' = Elements(new_entries)
    /\ UNCHANGED <<mode, queue, stop, worker, argument, added, adds, local>>

FlushReturns ==
    /\ caller = "flushing" /\ ~please_flush
    /\ caller' = "ready"
    /\ UNCHANGED <<mode, queue, please_flush, stop, worker, argument, added, calls, local>>

\* The destructor: request_stop and join.
Destroy ==
    /\ caller = "ready"
    /\ stop' = TRUE
    /\ caller' = "joining"
    /\ UNCHANGED <<mode, queue, please_flush, worker, argument, added, calls, local>>

Join ==
    /\ caller = "joining" /\ worker = "ended"
    /\ caller' = "destroyed"
    /\ UNCHANGED <<mode, queue, please_flush, stop, worker, argument, added, calls, local>>

-----------------------------------------------------------------------------
(* The worker.                                                             *)

\* The condition of the inner loop.
CheckOneMore ==
    /\ worker = "collect"
    /\ worker' = IF Len(new_entries) <= bulk_size /\ ~please_flush THEN "read" ELSE "apply"
    /\ UNCHANGED <<mode, queue, please_flush, stop, caller, argument, added, calls, local>>

CheckLowersFlag ==
    /\ worker = "collect"
    /\ worker' = IF Len(new_entries) < bulk_size /\ ~please_flush THEN "read" ELSE "apply"
    /\ please_flush' = FALSE
    /\ UNCHANGED <<mode, queue, stop, caller, argument, added, calls, local>>

Check ==
    /\ worker = "collect"
    /\ worker' = IF Len(new_entries) < bulk_size /\ ~please_flush THEN "read" ELSE "apply"
    /\ UNCHANGED <<mode, queue, please_flush, stop, caller, argument, added, calls, local>>

\* The set of seen entries after entry e: a full set is cleared, and the
\* entries of the current bulk are inserted again.
Remember(e) ==
    LET inserted == de_duplication \cup {e}
    IN  IF Cardinality(inserted) = deduplication_max_size
        THEN Elements(new_entries)
        ELSE inserted

\* Entries that change something are collected.
RelevantAlways(e) == TRUE

RelevantSwapped(e) == IF mode = "insert" THEN e \in content ELSE e \notin content

Relevant(e) == IF mode = "insert" THEN e \notin content ELSE e \in content

Read ==
    /\ worker = "read"
    /\ IF queue = <<>>
       THEN worker' = "empty" /\ UNCHANGED <<queue, new_entries, de_duplication, seen>>
       ELSE LET e == Head(queue)
            IN  /\ queue' = Tail(queue)
                /\ seen' = seen + 1
                /\ de_duplication' = Remember(e)
                /\ new_entries' = IF e \notin de_duplication /\ Relevant(e)
                                  THEN Append(new_entries, e) ELSE new_entries
                /\ worker' = "collect"
    /\ UNCHANGED <<mode, please_flush, stop, caller, argument, added, calls, content, done, stats>>

\* Only after a failed read the worker looks at the stop token.
CheckStopDiscards ==
    /\ worker = "empty"
    /\ done' = stop
    /\ worker' = IF stop THEN "ended" ELSE "collect"
    /\ UNCHANGED <<mode, queue, please_flush, stop, caller, argument, added, calls,
                   content, new_entries, de_duplication, seen, stats>>

CheckStop ==
    /\ worker = "empty"
    /\ done' = stop
    /\ worker' = IF stop THEN "apply" ELSE "collect"
    /\ UNCHANGED <<mode, queue, please_flush, stop, caller, argument, added, calls,
                   content, new_entries, de_duplication, seen, stats>>

\* insert or remove of the bulk, and the callback.
Apply ==
    /\ worker = "apply"
    /\ content' = IF mode = "insert" THEN content \cup Odd(new_entries)
                  ELSE content \ Odd(new_entries)
    /\ stats' = <<seen, Len(new_entries), Cardinality(content')>>
    /\ new_entries' = <<>>
    /\ worker' = "reset"
    /\ UNCHANGED <<mode, queue, please_flush, stop, caller, argument, added, calls,
                   de_duplication, seen, done>>

\* The flag is lowered; the next bulk starts with an empty set of seen entries.
ResetKeepsFlag ==
    /\ worker = "reset"
    /\ de_duplication' = {} /\ seen' = 0
    /\ worker' = IF done THEN "ended" ELSE "collect"
    /\ UNCHANGED <<mode, queue, please_flush, stop, caller, argument, added, calls,
                   content, new_entries, done, stats>>

Reset ==
    /\ worker = "reset"
    /\ please_flush' = FALSE
    /\ de_duplication' = {} /\ seen' = 0
    /\ worker' = IF done THEN "ended" ELSE "collect"
    /\ UNCHANGED <<mode, queue, stop, caller, argument, added, calls, content, new_entries, done, stats>>

-----------------------------------------------------------------------------

Worker == Check \/ Read \/ CheckStop \/ Apply \/ Reset

Caller == (\E e \in Entries : add(e)) \/ flush \/ Destroy

\* The steps that a call of the caller waits for.
Return == Write \/ FlushReturns \/ Join

Terminated == caller = "destroyed" /\ UNCHANGED vars

Next == Worker \/ Caller \/ Return \/ Terminated

\* Both threads are scheduled again and again; the caller may stop calling.
Spec == Init /\ [][Next]_vars /\ WF_vars(Worker) /\ WF_vars(Return)

-----------------------------------------------------------------------------

\* The variables have their types, and neither the queue nor the bulk exceeds
\* the size that the constructor reserves for it.
TypeOK ==
    /\ mode \in Modes
    /\ queue \in Seq(Entries) /\ new_entries \in Seq(Entries) /\ added \subseteq Entries
    /\ Len(queue) < bulk_size /\ Len(new_entries) <= bulk_size
    /\ please_flush \in BOOLEAN /\ stop \in BOOLEAN /\ done \in BOOLEAN
    /\ content \subseteq Entries /\ de_duplication \subseteq Entries
    /\ seen \in Nat /\ adds \in 0 .. MaxAdds /\ flushes \in 0 .. MaxFlushes
    /\ collected \subseteq Entries /\ stats \in Nat \X Nat \X Nat
    /\ worker \in {"collect", "read", "empty", "apply", "reset", "ended"}
    /\ caller \in {"ready", "adding", "flushing", "joining", "destroyed"}
    /\ argument \in Seq(Entries)

\* The entries on which an add has had its effect.
Settled == IF mode = "insert" THEN content ELSE Entries \ content

\* Until the worker ends, an added entry is in the queue or in the bulk or has
\* had its effect: the deduplication never forgets an entry that it drops.  It
\* holds for callers with fewer entries than the limit of the deduplication
\* set: one that is full forgets the entry that was just read.
NothingLost == added \subseteq Settled \cup Elements(new_entries) \cup Elements(queue)

\* The contract of RawHypertrieContext::insert, "Entries must not yet be
\* contained in nodec", and its counterpart for remove: whenever a bulk is
\* applied, each of its entries changes the hypertrie.
BulkIsRelevant == worker = "apply" =>
    IF mode = "insert" THEN Elements(new_entries) \cap content = {}
    ELSE Elements(new_entries) \subseteq content

\* "to prevent duplicates in current bulk" (the comment on the reinsertion).
NoDuplicatesInBulk == IsInjective(new_entries)

\* The callback reports how many entries the bulk really inserted or removed,
\* and the size of the hypertrie afterwards ("how many unique new entries were
\* inserted/removed and how many entries the hypertrie contains now").
StatsExact ==
    [][Apply => /\ stats'[2] = Cardinality((content' \ content) \cup (content \ content'))
                /\ stats'[3] = Cardinality(content')]_vars

\* No call blocks for ever: the queue is drained, flush is answered and the
\* destructor joins.
CallsReturn == caller \in {"adding", "flushing", "joining"} ~> caller \in {"ready", "destroyed"}

\* After the destructor every added entry has had its effect: the tests
\* destroy a bulk inserter and then CHECK(hypertrie2.size() == 3).
AllAppliedAfterDestroy == caller = "destroyed" => added \subseteq Settled

\* When the destructor returns, the added entries that had no effect are those
\* that are still in the queue: a bulk that was begun is always applied.
OnlyQueueLost == caller = "destroyed" => added \subseteq Settled \cup Elements(queue)

\* flush "Flushes the queued entries": when it returns, the entries that were
\* added before the call have had their effect.
FlushApplies ==
    [][FlushReturns => added \subseteq Settled]_vars

\* What flush does guarantee: the bulk that the worker had collected when the
\* flag was raised has been applied when flush returns, also if a bulk was just
\* being finished and lowered the flag.
FlushAppliesCollected == [][FlushReturns => collected \subseteq Settled]_vars

=============================================================================

----------------------- MODULE AsyncBulkUpdaterProofs -----------------------
(***************************************************************************)
(* Safety of the asynchronous bulk updater for every set of entries, every *)
(* bulk size and any number of calls.                                      *)
(*                                                                         *)
(* What the worker collects is relevant, whatever the deduplication does   *)
(* (BulkInv).  That nothing is lost or counted twice rests on the set of   *)
(* seen entries, and the code forgets the entry it has just read when that *)
(* set reaches deduplication_max_size: those theorems hold of executions   *)
(* in which no bulk sees that many entries (SetNotFull).                   *)
(***************************************************************************)
EXTENDS AsyncBulkUpdater, BulkTheorems

\* What each thread knows at the point where it is.
ThreadsInv ==
    /\ worker = "read" => Len(new_entries) < bulk_size
    /\ worker \in {"reset", "ended"} => new_entries = <<>>
    /\ Len(argument) <= 1
    /\ caller = "destroyed" => worker = "ended"

\* Every entry that is collected changes something.
BulkInv == \A e \in Elements(new_entries) : Relevant(e)

\* The invariant that holds of every execution.
UpdaterInv == TypeOK /\ ThreadsInv /\ BulkInv

\* The entries a bulk has seen are collected or need no change; each of those
\* that are collected is collected once.
SeenInv ==
    /\ IsInjective(new_entries)
    /\ Elements(new_entries) \subseteq de_duplication
    /\ de_duplication \subseteq Settled \cup Elements(new_entries)

\* What was collected when the flag was raised is applied before it is lowered.
FlushInv == caller = "flushing" =>
    /\ collected \subseteq Settled \cup Elements(new_entries)
    /\ ~please_flush => collected \subseteq Settled

\* The invariant of executions whose set of seen entries never gets full.
DeduplicationInv == UpdaterInv /\ SeenInv /\ FlushInv /\ NothingLost

\* The set of seen entries does not reach its limit with the entry that the
\* worker reads next: the negation of the condition that clears the set.
SetNotFull ==
    worker = "read" /\ queue # <<>> =>
        Cardinality(de_duplication \cup {Head(queue)}) # deduplication_max_size

-----------------------------------------------------------------------------
(* Every execution.                                                        *)

LEMMA BulkSize == bulk_size \in Nat /\ bulk_size >= 2
BY UpdaterAssumption DEF bulk_size

LEMMA Triple ==
    ASSUME NEW a \in Nat, NEW b \in Nat, NEW c \in Nat
    PROVE  <<a, b, c>> \in Nat \X Nat \X Nat
OBVIOUS

LEMMA InitUpdater == Init => UpdaterInv
<1> SUFFICES ASSUME Init
             PROVE  UpdaterInv
  OBVIOUS
<1>1. content \subseteq Entries /\ Cardinality(content) \in Nat
  BY UpdaterAssumption, FS_Subset, FS_CardinalityType DEF Init
<1>2. TypeOK
  <2>1. stats \in Nat \X Nat \X Nat
    BY <1>1, Triple DEF Init
  <2>2. MaxAdds \in Nat /\ MaxFlushes \in Nat
    BY UpdaterAssumption
  <2>3. <<>> \in Seq(Entries) /\ Len(<<>>) < bulk_size
    BY BulkSize
  <2>4. /\ queue \in Seq(Entries) /\ new_entries \in Seq(Entries) /\ argument \in Seq(Entries)
        /\ Len(queue) < bulk_size /\ Len(new_entries) <= bulk_size
    BY <2>3, BulkSize DEF Init
  <2>5. adds \in 0 .. MaxAdds /\ flushes \in 0 .. MaxFlushes /\ seen \in Nat
    BY <2>2 DEF Init
  <2> QED
    BY <1>1, <2>1, <2>4, <2>5 DEF Init, TypeOK
<1>3. ThreadsInv
  BY DEF Init, ThreadsInv
<1>4. BulkInv
  BY DEF Init, BulkInv, Elements
<1> QED
  BY <1>2, <1>3, <1>4 DEF UpdaterInv

\* add, flush, FlushReturns, Destroy and Join leave the hypertrie alone.
LEMMA CallerUpdater ==
    ASSUME UpdaterInv, Caller \/ FlushReturns \/ Join
    PROVE  UpdaterInv'
<1>1. /\ UNCHANGED <<mode, queue, content, new_entries, de_duplication, seen, done, stats>>
      /\ UNCHANGED <<worker, added>>
  BY DEF Caller, add, flush, FlushReturns, Destroy, Join, local, calls
<1>2. TypeOK'
  <2> USE DEF UpdaterInv, TypeOK
  <2>1. /\ please_flush' \in BOOLEAN /\ stop' \in BOOLEAN
        /\ caller' \in {"ready", "adding", "flushing", "joining", "destroyed"}
        /\ argument' \in Seq(Entries) /\ Len(argument') <= 1
    <3>1. CASE \E e \in Entries : add(e)
      BY <3>1 DEF add
    <3>2. CASE flush \/ Destroy \/ FlushReturns \/ Join
      BY <3>2 DEF flush, FlushReturns, Destroy, Join, ThreadsInv
    <3> QED
      BY <3>1, <3>2 DEF Caller
  <2>2. adds' \in 0 .. MaxAdds /\ flushes' \in 0 .. MaxFlushes
    BY UpdaterAssumption DEF Caller, add, flush, FlushReturns, Destroy, Join, local, calls
  <2>3. collected' \subseteq Entries
    <3>1. CASE flush
      BY <3>1, ElementsOf DEF flush
    <3>2. CASE (\E e \in Entries : add(e)) \/ FlushReturns \/ Destroy \/ Join
      BY <3>2 DEF add, FlushReturns, Destroy, Join, calls
    <3> QED
      BY <3>1, <3>2 DEF Caller
  <2> QED
    BY <1>1, <2>1, <2>2, <2>3
<1>3. ThreadsInv'
  <2>1. CASE \E e \in Entries : add(e)
    BY <1>1, <2>1 DEF UpdaterInv, ThreadsInv, add
  <2>2. CASE flush \/ Destroy \/ FlushReturns \/ Join
    BY <1>1, <2>2 DEF UpdaterInv, ThreadsInv, flush, FlushReturns, Destroy, Join
  <2> QED
    BY <2>1, <2>2 DEF Caller
<1>4. BulkInv'
  BY <1>1 DEF UpdaterInv, BulkInv, Relevant
<1> QED
  BY <1>2, <1>3, <1>4 DEF UpdaterInv

\* Write puts its argument into the queue, which has room for it.
LEMMA WriteUpdater ==
    ASSUME UpdaterInv, Write
    PROVE  UpdaterInv'
<1>1. TypeOK'
  BY ElementsOf, BulkSize DEF UpdaterInv, TypeOK, ThreadsInv, Write, local, calls
<1>2. ThreadsInv'
  BY DEF UpdaterInv, TypeOK, ThreadsInv, Write, local, calls
<1>3. BulkInv'
  BY DEF UpdaterInv, BulkInv, Relevant, Write, local, calls
<1> QED
  BY <1>1, <1>2, <1>3 DEF UpdaterInv

LEMMA CheckUpdater ==
    ASSUME UpdaterInv, Check
    PROVE  UpdaterInv'
<1>1. TypeOK' /\ ThreadsInv'
  BY DEF UpdaterInv, TypeOK, ThreadsInv, Check, local, calls
<1>2. BulkInv'
  BY DEF UpdaterInv, BulkInv, Relevant, Check, local, calls
<1> QED
  BY <1>1, <1>2 DEF UpdaterInv

LEMMA CheckStopUpdater ==
    ASSUME UpdaterInv, CheckStop
    PROVE  UpdaterInv'
<1>1. TypeOK' /\ ThreadsInv'
  BY DEF UpdaterInv, TypeOK, ThreadsInv, CheckStop, local, calls
<1>2. BulkInv'
  BY DEF UpdaterInv, BulkInv, Relevant, CheckStop, local, calls
<1> QED
  BY <1>1, <1>2 DEF UpdaterInv

\* What Read does with an entry, in terms of the elements of the sequences.
LEMMA ReadEntry ==
    ASSUME TypeOK, Read, queue # <<>>
    PROVE  LET e == Head(queue)
           IN  /\ e \in Entries
               /\ queue' \in Seq(Entries) /\ Len(queue') < Len(queue)
               /\ Elements(queue) = {e} \cup Elements(queue')
               /\ de_duplication' = Remember(e)
               /\ \/ /\ e \notin de_duplication /\ Relevant(e)
                     /\ new_entries' = Append(new_entries, e)
                     /\ Elements(new_entries') = Elements(new_entries) \cup {e}
                  \/ /\ e \in de_duplication \/ ~Relevant(e)
                     /\ new_entries' = new_entries
               /\ seen' = seen + 1 /\ worker' = "collect"
<1>1. /\ Head(queue) \in Entries
      /\ Tail(queue) \in Seq(Entries) /\ Len(Tail(queue)) < Len(queue)
  BY DEF TypeOK
<1>2. Elements(queue) = {Head(queue)} \cup Elements(Tail(queue))
  BY ElementsOf DEF TypeOK
<1>3. Elements(Append(new_entries, Head(queue))) = Elements(new_entries) \cup {Head(queue)}
  BY <1>1, ElementsOf DEF TypeOK
<1> QED
  BY <1>1, <1>2, <1>3 DEF Read

LEMMA ReadUpdater ==
    ASSUME UpdaterInv, Read
    PROVE  UpdaterInv'
<1>1. CASE queue = <<>>
  <2>1. TypeOK' /\ ThreadsInv'
    BY <1>1 DEF UpdaterInv, TypeOK, ThreadsInv, Read, calls
  <2>2. BulkInv'
    BY <1>1 DEF UpdaterInv, BulkInv, Relevant, Read, calls
  <2> QED
    BY <2>1, <2>2 DEF UpdaterInv
<1>2. CASE queue # <<>>
  <2> DEFINE e == Head(queue)
  <2>1. /\ e \in Entries
        /\ queue' \in Seq(Entries) /\ Len(queue') < Len(queue)
        /\ de_duplication' = Remember(e)
        /\ \/ /\ Relevant(e)
              /\ new_entries' = Append(new_entries, e)
              /\ Elements(new_entries') = Elements(new_entries) \cup {e}
           \/ new_entries' = new_entries
        /\ seen' = seen + 1 /\ worker' = "collect"
    BY <1>2, ReadEntry DEF UpdaterInv
  <2> HIDE DEF e
  <2>2. UNCHANGED <<mode, please_flush, stop, caller, argument, added, content, done, stats,
                    adds, flushes, collected>>
    BY DEF Read, calls
  <2>3. de_duplication' \subseteq Entries
    BY <2>1, ElementsOf DEF UpdaterInv, TypeOK, Remember
  <2>4. new_entries' \in Seq(Entries) /\ Len(new_entries') <= bulk_size
    <3>1. new_entries \in Seq(Entries) /\ Len(new_entries) < bulk_size
      BY DEF UpdaterInv, TypeOK, ThreadsInv, Read
    <3>2. CASE new_entries' = Append(new_entries, e)
      BY <2>1, <3>1, <3>2, BulkSize
    <3>3. CASE new_entries' = new_entries
      BY <3>1, <3>3, BulkSize
    <3> QED
      BY <2>1, <3>2, <3>3
  <2>5. TypeOK'
    BY <2>1, <2>2, <2>3, <2>4, BulkSize DEF UpdaterInv, TypeOK
  <2>6. ThreadsInv'
    BY <2>1, <2>2, BulkSize DEF UpdaterInv, TypeOK, ThreadsInv, Read
  <2>7. BulkInv'
    BY <2>1, <2>2 DEF UpdaterInv, BulkInv, Relevant
  <2> QED
    BY <2>5, <2>6, <2>7 DEF UpdaterInv
<1> QED
  BY <1>1, <1>2

LEMMA ApplyUpdater ==
    ASSUME UpdaterInv, Apply
    PROVE  UpdaterInv'
<1>1. Odd(new_entries) \subseteq Entries
  BY OddSubset, ElementsOf DEF UpdaterInv, TypeOK
<1>2. content' \subseteq Entries
  BY <1>1 DEF UpdaterInv, TypeOK, Apply
<1>3. Cardinality(content') \in Nat
  BY <1>2, UpdaterAssumption, FS_Subset, FS_CardinalityType
<1>4. stats' \in Nat \X Nat \X Nat
  <2>1. seen \in Nat /\ Len(new_entries) \in Nat
    BY DEF UpdaterInv, TypeOK
  <2> QED
    BY <1>3, <2>1, Triple DEF Apply
<1>5. TypeOK'
  BY <1>2, <1>4, BulkSize DEF UpdaterInv, TypeOK, Apply, calls
<1>6. ThreadsInv'
  BY DEF UpdaterInv, ThreadsInv, TypeOK, Apply, calls
<1>7. BulkInv'
  BY DEF BulkInv, Apply, Elements
<1> QED
  BY <1>5, <1>6, <1>7 DEF UpdaterInv

LEMMA ResetUpdater ==
    ASSUME UpdaterInv, Reset
    PROVE  UpdaterInv'
<1>1. TypeOK' /\ ThreadsInv'
  BY DEF UpdaterInv, TypeOK, ThreadsInv, Reset, calls
<1>2. BulkInv'
  BY DEF UpdaterInv, BulkInv, Relevant, Reset, calls
<1> QED
  BY <1>1, <1>2 DEF UpdaterInv

LEMMA StepUpdater ==
    ASSUME UpdaterInv, [Next]_vars
    PROVE  UpdaterInv'
<1>1. CASE UNCHANGED vars
  <2>1. TypeOK' /\ ThreadsInv'
    BY <1>1 DEF UpdaterInv, TypeOK, ThreadsInv, vars
  <2>2. BulkInv'
    BY <1>1 DEF UpdaterInv, BulkInv, Relevant, vars
  <2> QED
    BY <2>1, <2>2 DEF UpdaterInv
<1> QED
  BY <1>1, CallerUpdater, WriteUpdater, CheckUpdater, CheckStopUpdater, ReadUpdater,
     ApplyUpdater, ResetUpdater DEF Next, Worker, Return, Terminated

LEMMA UpdaterInvariant == Spec => []UpdaterInv
<1>1. UpdaterInv /\ [Next]_vars => UpdaterInv'
  BY StepUpdater
<1> QED
  BY InitUpdater, <1>1, PTL DEF Spec

\* The variables of the updater have their types in every reachable state; the
\* queue and the bulk never exceed what the constructor reserves.
THEOREM AsyncTypeCorrect == Spec => []TypeOK
<1>1. UpdaterInv => TypeOK
  BY DEF UpdaterInv
<1> QED
  BY UpdaterInvariant, <1>1, PTL

\* Whenever the worker applies a bulk, each of its entries changes the
\* hypertrie: the contract of RawHypertrieContext::insert and remove, for every
\* bulk size and also when the set of seen entries was cleared in between.
THEOREM AsyncBulkIsRelevant == Spec => []BulkIsRelevant
<1>1. UpdaterInv => BulkIsRelevant
  BY UpdaterAssumption DEF UpdaterInv, BulkInv, BulkIsRelevant, Relevant
<1> QED
  BY UpdaterInvariant, <1>1, PTL

-----------------------------------------------------------------------------
(* Executions in which the set of seen entries never gets full.            *)

\* An entry is settled if and only if it is not relevant.
LEMMA SettledIrrelevant ==
    ASSUME TypeOK, NEW e \in Entries
    PROVE  e \in Settled <=> ~Relevant(e)
BY UpdaterAssumption DEF TypeOK, Settled, Relevant

LEMMA InitDeduplication == Init => DeduplicationInv
<1> SUFFICES ASSUME Init
             PROVE  DeduplicationInv
  OBVIOUS
<1>1. SeenInv
  BY DEF Init, SeenInv, IsInjective, Elements
<1>2. FlushInv /\ NothingLost
  BY DEF Init, FlushInv, NothingLost
<1> QED
  BY <1>1, <1>2, InitUpdater DEF DeduplicationInv

\* Steps that leave the bulk, the seen entries and the hypertrie as they are.
LEMMA QuietDeduplication ==
    ASSUME DeduplicationInv,
           UNCHANGED <<mode, content, new_entries, de_duplication, queue, added>>
    PROVE  SeenInv' /\ NothingLost' /\ Settled' = Settled
<1>1. Settled' = Settled
  BY DEF Settled
<1> QED
  BY <1>1 DEF DeduplicationInv, SeenInv, NothingLost

\* flush raises the flag after it has looked at the bulk; the other calls do
\* not wait for the flag.
LEMMA CallerDeduplication ==
    ASSUME DeduplicationInv, Caller \/ FlushReturns \/ Join
    PROVE  SeenInv' /\ FlushInv' /\ NothingLost'
<1>1. UNCHANGED <<mode, content, new_entries, de_duplication, queue, added>>
  BY DEF Caller, add, flush, FlushReturns, Destroy, Join, local
<1>2. SeenInv' /\ NothingLost' /\ Settled' = Settled
  BY <1>1, QuietDeduplication
<1>3. CASE flush
  BY <1>1, <1>2, <1>3 DEF flush, FlushInv
<1>4. CASE (\E e \in Entries : add(e)) \/ Destroy \/ FlushReturns \/ Join
  <2>1. caller' # "flushing"
    BY <1>4 DEF add, Destroy, FlushReturns, Join
  <2> QED
    BY <1>2, <2>1 DEF FlushInv
<1> QED
  BY <1>3, <1>4 DEF Caller

LEMMA WriteDeduplication ==
    ASSUME DeduplicationInv, Write
    PROVE  SeenInv' /\ FlushInv' /\ NothingLost'
<1>1. Elements(queue') = Elements(queue) \cup Elements(argument)
  BY ElementsOf DEF DeduplicationInv, UpdaterInv, TypeOK, Write
<1>2. Settled' = Settled
  BY DEF Settled, Write, local
<1>3. SeenInv' /\ FlushInv'
  BY <1>2 DEF DeduplicationInv, SeenInv, FlushInv, Write, local
<1>4. NothingLost'
  BY <1>1, <1>2 DEF DeduplicationInv, NothingLost, Write, local
<1> QED
  BY <1>3, <1>4

LEMMA CheckDeduplication ==
    ASSUME DeduplicationInv, Check \/ CheckStop
    PROVE  SeenInv' /\ FlushInv' /\ NothingLost'
<1>1. /\ UNCHANGED <<mode, content, new_entries, de_duplication, queue, added>>
      /\ UNCHANGED <<caller, collected, please_flush>>
  BY DEF Check, CheckStop, calls, local
<1> QED
  BY <1>1, QuietDeduplication DEF DeduplicationInv, FlushInv

\* An entry that Read drops was seen, and then it is collected or settled, or
\* it changes nothing, and then it is settled.
LEMMA ReadDeduplication ==
    ASSUME DeduplicationInv, SetNotFull, Read
    PROVE  SeenInv' /\ FlushInv' /\ NothingLost'
<1>1. CASE queue = <<>>
  <2>1. /\ UNCHANGED <<mode, content, new_entries, de_duplication, queue, added>>
        /\ UNCHANGED <<caller, collected, please_flush>>
    BY <1>1 DEF Read, calls
  <2> QED
    BY <2>1, QuietDeduplication DEF DeduplicationInv, FlushInv
<1>2. CASE queue # <<>>
  <2> DEFINE e == Head(queue)
  <2>1. /\ e \in Entries
        /\ Elements(queue) = {e} \cup Elements(queue')
        /\ de_duplication' = Remember(e)
        /\ \/ /\ e \notin de_duplication /\ Relevant(e)
              /\ new_entries' = Append(new_entries, e)
              /\ Elements(new_entries') = Elements(new_entries) \cup {e}
           \/ /\ e \in de_duplication \/ ~Relevant(e)
              /\ new_entries' = new_entries
    BY <1>2, ReadEntry DEF DeduplicationInv, UpdaterInv
  <2>2. de_duplication' = de_duplication \cup {e}
    BY <1>2, <2>1 DEF SetNotFull, Read, Remember
  <2> HIDE DEF e
  <2>3. /\ UNCHANGED <<mode, content, added, caller, collected, please_flush>>
        /\ Settled' = Settled
    BY DEF Read, calls, Settled
  <2>4. /\ Elements(new_entries) \subseteq Elements(new_entries')
        /\ Elements(new_entries') \subseteq de_duplication'
    BY <2>1, <2>2 DEF DeduplicationInv, SeenInv
  <2>5. e \in Settled \cup Elements(new_entries')
    <3>1. TypeOK
      BY DEF DeduplicationInv, UpdaterInv
    <3> QED
      BY <2>1, <3>1, SettledIrrelevant DEF DeduplicationInv, SeenInv
  <2>6. IsInjective(new_entries')
    <3>1. /\ new_entries \in Seq(Entries) /\ IsInjective(new_entries)
          /\ Elements(new_entries) \subseteq de_duplication
      BY DEF DeduplicationInv, UpdaterInv, TypeOK, SeenInv
    <3>2. CASE e \notin de_duplication /\ new_entries' = Append(new_entries, e)
      BY <2>1, <3>1, <3>2, AppendDistinct
    <3>3. CASE new_entries' = new_entries
      BY <3>1, <3>3
    <3> QED
      BY <2>1, <3>2, <3>3
  <2>7. SeenInv'
    BY <2>2, <2>3, <2>4, <2>5, <2>6 DEF DeduplicationInv, SeenInv
  <2>8. FlushInv'
    BY <2>3, <2>4 DEF DeduplicationInv, FlushInv
  <2>9. NothingLost'
    BY <2>1, <2>3, <2>4, <2>5 DEF DeduplicationInv, NothingLost
  <2> QED
    BY <2>7, <2>8, <2>9
<1> QED
  BY <1>1, <1>2

\* All of the bulk is settled when it has been applied.
LEMMA ApplySettles ==
    ASSUME DeduplicationInv, Apply
    PROVE  /\ Odd(new_entries) = Elements(new_entries)
           /\ Settled' = Settled \cup Elements(new_entries)
           /\ Elements(new_entries') = {}
<1>1. /\ new_entries \in Seq(Entries) /\ IsInjective(new_entries)
      /\ Elements(new_entries) \subseteq Entries
  BY ElementsOf DEF DeduplicationInv, UpdaterInv, TypeOK, SeenInv
<1>2. Odd(new_entries) = Elements(new_entries)
  BY <1>1, OddInjective
<1>3. Settled' = Settled \cup Elements(new_entries)
  BY <1>1, <1>2 DEF Apply, Settled
<1>4. Elements(new_entries') = {}
  BY DEF Apply, Elements
<1> QED
  BY <1>2, <1>3, <1>4

LEMMA ApplyDeduplication ==
    ASSUME DeduplicationInv, Apply
    PROVE  SeenInv' /\ FlushInv' /\ NothingLost'
<1>1. /\ UNCHANGED <<queue, de_duplication, added, caller, collected, please_flush>>
      /\ new_entries' = <<>>
  BY DEF Apply, calls
<1>2. IsInjective(new_entries')
  BY <1>1 DEF IsInjective
<1>3. SeenInv'
  BY <1>1, <1>2, ApplySettles DEF DeduplicationInv, SeenInv
<1>4. FlushInv' /\ NothingLost'
  BY <1>1, ApplySettles DEF DeduplicationInv, FlushInv, NothingLost
<1> QED
  BY <1>3, <1>4

\* The flag is lowered after the bulk was applied.
LEMMA ResetDeduplication ==
    ASSUME DeduplicationInv, Reset
    PROVE  SeenInv' /\ FlushInv' /\ NothingLost'
<1>1. /\ new_entries = <<>> /\ Elements(new_entries) = {}
      /\ UNCHANGED <<mode, content, new_entries, queue, added, caller, collected>>
      /\ de_duplication' = {} /\ Settled' = Settled
  BY DEF DeduplicationInv, UpdaterInv, ThreadsInv, Reset, calls, Elements, Settled
<1> QED
  BY <1>1 DEF DeduplicationInv, SeenInv, FlushInv, NothingLost

LEMMA StepDeduplication ==
    ASSUME DeduplicationInv, SetNotFull, [Next]_vars
    PROVE  DeduplicationInv'
<1>1. UpdaterInv'
  BY StepUpdater DEF DeduplicationInv
<1>2. CASE UNCHANGED vars
  BY <1>1, <1>2, QuietDeduplication DEF DeduplicationInv, FlushInv, vars
<1> QED
  BY <1>1, <1>2, CallerDeduplication, WriteDeduplication, CheckDeduplication, ReadDeduplication,
     ApplyDeduplication, ResetDeduplication
     DEF DeduplicationInv, Next, Worker, Return, Terminated

LEMMA DeduplicationInvariant == Spec /\ []SetNotFull => []DeduplicationInv
<1>1. DeduplicationInv /\ SetNotFull /\ [Next]_vars => DeduplicationInv'
  BY StepDeduplication
<1> QED
  BY InitDeduplication, <1>1, PTL DEF Spec

-----------------------------------------------------------------------------

\* As long as no bulk sees deduplication_max_size entries, no added entry gets
\* lost: it is in the queue or in the bulk or has had its effect, whatever the
\* threads do in between.
THEOREM AsyncNothingLost == Spec /\ []SetNotFull => []NothingLost
<1>1. DeduplicationInv => NothingLost
  BY DEF DeduplicationInv
<1> QED
  BY DeduplicationInvariant, <1>1, PTL

\* Under the same condition the comment on the reinsertion is right: the bulk
\* never contains an entry twice.
THEOREM AsyncNoDuplicates == Spec /\ []SetNotFull => []NoDuplicatesInBulk
<1>1. DeduplicationInv => NoDuplicatesInBulk
  BY DEF DeduplicationInv, SeenInv, NoDuplicatesInBulk
<1> QED
  BY DeduplicationInvariant, <1>1, PTL

\* The destructor leaves nothing behind but what is in the queue.
THEOREM AsyncOnlyQueueLost == Spec /\ []SetNotFull => []OnlyQueueLost
<1>1. DeduplicationInv => OnlyQueueLost
  <2> SUFFICES ASSUME DeduplicationInv, caller = "destroyed"
               PROVE  added \subseteq Settled \cup Elements(queue)
    BY DEF OnlyQueueLost
  <2>1. Elements(new_entries) = {}
    BY DEF DeduplicationInv, UpdaterInv, ThreadsInv, Elements
  <2> QED
    BY <2>1 DEF DeduplicationInv, NothingLost
<1> QED
  BY DeduplicationInvariant, <1>1, PTL

\* When flush returns, the bulk that was collected when it was called has been
\* applied, also if the flag was raised while a bulk was being finished.
THEOREM AsyncFlushAppliesCollected == Spec /\ []SetNotFull => FlushAppliesCollected
<1>1. DeduplicationInv => (FlushReturns => collected \subseteq Settled)
  BY DEF DeduplicationInv, FlushInv, FlushReturns
<1> QED
  BY DeduplicationInvariant, <1>1, PTL DEF FlushAppliesCollected

\* The statistics are exact: as many entries as the bulk has are new to, or
\* vanish from, the hypertrie.
THEOREM AsyncStatsExact == Spec /\ []SetNotFull => StatsExact
<1>1. DeduplicationInv =>
        (Apply => /\ stats'[2] = Cardinality((content' \ content) \cup (content \ content'))
                  /\ stats'[3] = Cardinality(content'))
  <2> SUFFICES ASSUME DeduplicationInv, Apply
               PROVE  /\ stats'[2] = Cardinality((content' \ content) \cup (content \ content'))
                      /\ stats'[3] = Cardinality(content')
    OBVIOUS
  <2>1. Cardinality(Elements(new_entries)) = Len(new_entries)
    BY InjectiveCardinality DEF DeduplicationInv, UpdaterInv, TypeOK, SeenInv
  <2>2. (content' \ content) \cup (content \ content') = Elements(new_entries)
    BY ApplySettles DEF DeduplicationInv, UpdaterInv, BulkInv, Relevant, Apply
  <2>3. stats' = <<seen, Len(new_entries), Cardinality(content')>>
    BY DEF Apply
  <2> QED
    BY <2>1, <2>2, <2>3
<1> QED
  BY DeduplicationInvariant, <1>1, PTL DEF StatsExact

\* A caller with fewer entries than the set of seen entries may hold never
\* fills it.
LEMMA FewEntries ==
    ASSUME Cardinality(Entries) < deduplication_max_size, TypeOK
    PROVE  SetNotFull
<1> SUFFICES ASSUME queue # <<>>
             PROVE  Cardinality(de_duplication \cup {Head(queue)}) # deduplication_max_size
  BY DEF SetNotFull
<1>1. de_duplication \cup {Head(queue)} \subseteq Entries
  BY DEF TypeOK
<1>2. /\ Cardinality(de_duplication \cup {Head(queue)}) <= Cardinality(Entries)
      /\ Cardinality(de_duplication \cup {Head(queue)}) \in Nat
      /\ Cardinality(Entries) \in Nat
  BY <1>1, UpdaterAssumption, FS_Subset, FS_CardinalityType
<1>3. deduplication_max_size \in Nat
  BY BulkSize DEF deduplication_max_size
<1> QED
  BY <1>2, <1>3

\* For such a caller all of this holds in every execution.
THEOREM AsyncFewEntries ==
    ASSUME Cardinality(Entries) < deduplication_max_size
    PROVE  Spec => /\ []NothingLost /\ []NoDuplicatesInBulk /\ []OnlyQueueLost
                   /\ FlushAppliesCollected /\ StatsExact
<1>1. TypeOK => SetNotFull
  BY FewEntries
<1>2. Spec => []SetNotFull
  BY AsyncTypeCorrect, <1>1, PTL
<1> QED
  BY <1>2, AsyncNothingLost, AsyncNoDuplicates, AsyncOnlyQueueLost, AsyncFlushAppliesCollected,
     AsyncStatsExact, PTL

=============================================================================

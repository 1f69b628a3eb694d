------------------------ MODULE SyncBulkUpdaterProofs ------------------------
(***************************************************************************)
(* Safety of the synchronous bulk updater for every set of entries, every  *)
(* bulk size and any number of calls.  The contract of insert rests on the *)
(* test whether the entry is stored and on nothing else.  The results      *)
(* about duplicates rest on the set of seen entries; its first clearing    *)
(* comes with a call of add whose number is its limit, and what holds of   *)
(* the callers that stay within it is proved next to what a cleared set    *)
(* can lose.                                                               *)
(***************************************************************************)
EXTENDS SyncBulkUpdater, BulkTheorems

TypeInv ==
    /\ content \subseteq Entries /\ new_entries \in Seq(Entries)
    /\ de_duplication \subseteq Entries
    /\ flushing \in BOOLEAN /\ alive \in BOOLEAN /\ adds \in Nat

\* What is collected is not stored yet.
NewInv == Elements(new_entries) \cap content = {}

FewEntries == Cardinality(Entries) < deduplication_max_size

\* The set of seen entries has not been cleared: fewer calls than its limit.
NotCleared == FewEntries \/ adds < deduplication_max_size

\* Until then each entry of the bulk was seen.  The bulk has no entry twice
\* with one more call; a bulk of one entry is applied by the call that adds it.
DistinctInv ==
    /\ adds < deduplication_max_size => Cardinality(de_duplication) <= adds
    /\ NotCleared => Elements(new_entries) \subseteq de_duplication
    /\ FewEntries \/ adds <= deduplication_max_size => IsInjective(new_entries)
    /\ bulk_size = 1 => Len(new_entries) <= 1 /\ (~flushing => new_entries = <<>>)

\* A seen entry is stored or collected; nothing else is missing, and nothing is
\* left in the bulk when the destructor has returned.
AppliedInv ==
    /\ NotCleared \/ bulk_size = 1 => de_duplication \subseteq content \cup Elements(new_entries)
    /\ WithinLimit => expected = content \cup Elements(new_entries)
    /\ ~alive /\ ~flushing => new_entries = <<>>

-----------------------------------------------------------------------------

LEMMA InitType == Init => TypeInv
<1> SUFFICES ASSUME Init
             PROVE  TypeInv
  OBVIOUS
<1>1. content \subseteq Entries
  BY SyncAssumption DEF Init
<1>2. new_entries \in Seq(Entries) /\ adds \in Nat /\ de_duplication \subseteq Entries
  BY DEF Init
<1> QED
  BY <1>1, <1>2 DEF Init, TypeInv

LEMMA StepType ==
    ASSUME TypeInv, [Next]_svars
    PROVE  TypeInv'
<1>1. ASSUME NEW e \in Entries, add(e)
      PROVE  TypeInv'
  BY <1>1 DEF add, Remember, TypeInv
<1>2. ASSUME NEW destroys \in BOOLEAN, flush(destroys)
      PROVE  TypeInv'
  BY <1>2 DEF flush, TypeInv
<1>3. CASE Insert
  <2>1. Odd(new_entries) \subseteq Entries
    BY OddSubset, ElementsOf DEF TypeInv
  <2>2. <<>> \in Seq(Entries)
    OBVIOUS
  <2> QED
    BY <1>3, <2>1, <2>2 DEF Insert, TypeInv
<1>4. CASE UNCHANGED svars
  BY <1>4 DEF svars, TypeInv
<1> QED
  BY <1>1, <1>2, <1>3, <1>4 DEF Next, Terminated

\* add either appends the entry, which was neither seen nor without effect, or
\* leaves the bulk as it is.
LEMMA AddEntry ==
    ASSUME TypeInv, NEW e \in Entries, add(e)
    PROVE  \/ /\ e \notin de_duplication /\ Relevant(e)
              /\ new_entries' = Append(new_entries, e)
              /\ Elements(new_entries') = Elements(new_entries) \cup {e}
           \/ /\ e \in de_duplication \/ ~Relevant(e)
              /\ new_entries' = new_entries
<1>1. Elements(Append(new_entries, e)) = Elements(new_entries) \cup {e}
  BY ElementsOf DEF TypeInv
<1> QED
  BY <1>1 DEF add

-----------------------------------------------------------------------------
(* The contract of insert.                                                 *)

LEMMA StepNew ==
    ASSUME Mode = "insert", TypeInv, NewInv, [Next]_svars
    PROVE  NewInv'
<1>1. ASSUME NEW e \in Entries, add(e)
      PROVE  NewInv'
  BY <1>1, AddEntry DEF add, NewInv, Relevant, already_stored
<1>2. ASSUME NEW destroys \in BOOLEAN, flush(destroys)
      PROVE  NewInv'
  BY <1>2 DEF flush, NewInv
<1>3. CASE Insert
  BY <1>3 DEF Insert, NewInv, Elements
<1>4. CASE UNCHANGED svars
  BY <1>4 DEF svars, NewInv
<1> QED
  BY <1>1, <1>2, <1>3, <1>4 DEF Next, Terminated

\* In the mode "insert" every bulk that flush passes to insert consists of
\* entries that the hypertrie does not contain, for every bulk size and also
\* after the set of seen entries was cleared.
THEOREM SyncInsertContract ==
    ASSUME Mode = "insert"
    PROVE  Spec => []InsertContract
<1>1. Init => TypeInv /\ NewInv
  BY InitType DEF Init, NewInv, Elements
<1>2. TypeInv /\ NewInv /\ [Next]_svars => (TypeInv /\ NewInv)'
  BY StepType, StepNew
<1>3. NewInv => InsertContract
  BY DEF NewInv, InsertContract
<1> QED
  BY <1>1, <1>2, <1>3, PTL DEF Spec

\* In the mode "remove" every bulk that flush passes to insert breaks the
\* contract: add has selected its entries because they are stored.
RemoveInv == Elements(new_entries) \subseteq content /\ (flushing => new_entries # <<>>)

LEMMA StepRemove ==
    ASSUME Mode = "remove", TypeInv, RemoveInv, [Next]_svars
    PROVE  RemoveInv'
<1>1. ASSUME NEW e \in Entries, add(e)
      PROVE  RemoveInv'
  <2>1. Append(new_entries, e) # <<>>
    BY DEF TypeInv
  <2>2. Mode # "insert"
    OBVIOUS
  <2> QED
    BY <1>1, <2>1, <2>2, AddEntry DEF add, RemoveInv, Relevant, already_stored
<1>2. ASSUME NEW destroys \in BOOLEAN, flush(destroys)
      PROVE  RemoveInv'
  BY <1>2 DEF flush, RemoveInv
<1>3. CASE Insert
  BY <1>3 DEF Insert, RemoveInv, Elements
<1>4. CASE UNCHANGED svars
  BY <1>4 DEF svars, RemoveInv
<1> QED
  BY <1>1, <1>2, <1>3, <1>4 DEF Next, Terminated

\* A synchronous remover never keeps the contract of insert: flush calls insert
\* in both modes, and a remover has selected the entries that are stored.
THEOREM SyncRemoverInserts ==
    ASSUME Mode = "remove"
    PROVE  Spec => [](flushing => Elements(new_entries) \cap content # {})
<1>1. Init => TypeInv /\ RemoveInv
  BY InitType DEF Init, RemoveInv, Elements
<1>2. TypeInv /\ RemoveInv /\ [Next]_svars => (TypeInv /\ RemoveInv)'
  BY StepType, StepRemove
<1>3. TypeInv /\ RemoveInv => (flushing => Elements(new_entries) \cap content # {})
  <2>1. TypeInv /\ new_entries # <<>> => Elements(new_entries) # {}
    BY ElementsOf DEF TypeInv
  <2> QED
    BY <2>1 DEF RemoveInv
<1> QED
  BY <1>1, <1>2, <1>3, PTL DEF Spec

-----------------------------------------------------------------------------
(* Callers that stay within the limit of the set of seen entries.          *)

LEMMA LimitIsNat == deduplication_max_size \in Nat /\ Cardinality(Entries) \in Nat
BY SyncAssumption, FS_CardinalityType DEF deduplication_max_size

\* A call of add with a number below the limit, or of a caller with fewer
\* entries, does not clear the set.
LEMMA AddRemembers ==
    ASSUME TypeInv, DistinctInv, NEW e \in Entries, add(e), NotCleared'
    PROVE  /\ NotCleared
           /\ de_duplication' = de_duplication \cup {e}
           /\ adds' < deduplication_max_size => Cardinality(de_duplication') <= adds'
<1> DEFINE seen == de_duplication \cup {e}
<1>1. adds' = adds + 1 /\ adds \in Nat /\ de_duplication' = Remember(e)
  BY DEF add, TypeInv
<1>2. /\ IsFiniteSet(de_duplication) /\ Cardinality(de_duplication) \in Nat
      /\ IsFiniteSet(seen) /\ Cardinality(seen) \in Nat /\ Cardinality(seen) <= Cardinality(Entries)
  BY SyncAssumption, FS_Subset, FS_CardinalityType DEF TypeInv
<1>3. Cardinality(seen) <= Cardinality(de_duplication) + 1
  BY <1>2, FS_AddElement
<1>4. NotCleared
  BY <1>1, LimitIsNat DEF NotCleared, FewEntries
<1>5. adds' < deduplication_max_size => Cardinality(seen) <= adds'
  BY <1>1, <1>2, <1>3, LimitIsNat DEF DistinctInv
<1>6. Cardinality(seen) < deduplication_max_size
  <2>1. CASE FewEntries
    BY <2>1, <1>2, LimitIsNat DEF FewEntries
  <2>2. CASE adds' < deduplication_max_size
    BY <2>2, <1>1, <1>2, <1>5, LimitIsNat
  <2> QED
    BY <2>1, <2>2 DEF NotCleared, FewEntries
<1>7. Remember(e) = seen
  BY <1>2, <1>6, LimitIsNat DEF Remember
<1> QED
  BY <1>1, <1>4, <1>5, <1>7

LEMMA InitDistinct == Init => DistinctInv
<1> SUFFICES ASSUME Init
             PROVE  DistinctInv
  OBVIOUS
<1>1. Cardinality(de_duplication) = 0 /\ adds = 0
  BY FS_EmptySet DEF Init
<1>2. IsInjective(new_entries) /\ Elements(new_entries) = {} /\ Len(new_entries) = 0
  BY DEF Init, IsInjective, Elements
<1> QED
  BY <1>1, <1>2 DEF Init, DistinctInv

LEMMA StepDistinct ==
    ASSUME TypeInv, DistinctInv, [Next]_svars
    PROVE  DistinctInv'
<1>1. ASSUME NEW e \in Entries, add(e)
      PROVE  DistinctInv'
  <2>1. adds' = adds + 1 /\ adds \in Nat
    BY <1>1 DEF add, TypeInv
  <2>2. adds' < deduplication_max_size => Cardinality(de_duplication') <= adds'
    BY <1>1, AddRemembers DEF NotCleared, FewEntries
  <2>3. NotCleared' => Elements(new_entries') \subseteq de_duplication'
    <3> SUFFICES ASSUME NotCleared'
                 PROVE  Elements(new_entries') \subseteq de_duplication'
      OBVIOUS
    <3>1. NotCleared /\ de_duplication' = de_duplication \cup {e}
      BY <1>1, AddRemembers
    <3> QED
      BY <1>1, <3>1, AddEntry DEF DistinctInv
  <2>4. FewEntries \/ adds' <= deduplication_max_size => IsInjective(new_entries')
    <3> SUFFICES ASSUME FewEntries \/ adds' <= deduplication_max_size
                 PROVE  IsInjective(new_entries')
      OBVIOUS
    <3>1. NotCleared /\ IsInjective(new_entries)
      BY <2>1, LimitIsNat DEF NotCleared, DistinctInv
    <3>2. CASE e \notin de_duplication /\ new_entries' = Append(new_entries, e)
      BY <3>1, <3>2, AppendDistinct DEF TypeInv, DistinctInv
    <3> QED
      BY <1>1, <3>1, <3>2, AddEntry
  <2>5. bulk_size = 1 => Len(new_entries') <= 1 /\ (~flushing' => new_entries' = <<>>)
    <3> SUFFICES ASSUME bulk_size = 1
                 PROVE  Len(new_entries') <= 1 /\ (~flushing' => new_entries' = <<>>)
      OBVIOUS
    <3>1. new_entries = <<>>
      BY <1>1 DEF add, DistinctInv
    <3>2. CASE new_entries' = new_entries
      BY <3>1, <3>2
    <3>3. CASE new_entries' = Append(new_entries, e)
      <4>1. Len(new_entries') = 1 /\ new_entries' # new_entries
        BY <3>1, <3>3
      <4>2. flushing' = (new_entries' # new_entries /\ Full(new_entries'))
        BY <1>1, Zenon DEF add
      <4>3. Full(new_entries')
        BY <4>1 DEF Full
      <4>4. flushing'
        BY <4>1, <4>2, <4>3
      <4> QED
        BY <4>1, <4>4
    <3> QED
      BY <1>1, <3>2, <3>3, AddEntry
  <2> QED
    BY <2>2, <2>3, <2>4, <2>5 DEF DistinctInv, FewEntries
<1>2. ASSUME NEW destroys \in BOOLEAN, flush(destroys)
      PROVE  DistinctInv'
  BY <1>2 DEF flush, DistinctInv, NotCleared, FewEntries
<1>3. CASE Insert
  <2>1. Elements(new_entries') = {} /\ IsInjective(new_entries') /\ Len(new_entries') = 0
    BY <1>3 DEF Insert, Elements, IsInjective
  <2> QED
    BY <1>3, <2>1 DEF Insert, DistinctInv, NotCleared, FewEntries
<1>4. CASE UNCHANGED svars
  BY <1>4 DEF svars, DistinctInv, NotCleared, FewEntries
<1> QED
  BY <1>1, <1>2, <1>3, <1>4 DEF Next, Terminated

LEMMA LimitDistinct ==
    ASSUME TypeInv, DistinctInv, WithinLimit
    PROVE  IsInjective(new_entries)
<1>1. CASE bulk_size = 1
  BY <1>1, ShortDistinct DEF TypeInv, DistinctInv
<1>2. CASE FewEntries \/ adds <= deduplication_max_size
  BY <1>2 DEF DistinctInv
<1> QED
  BY <1>1, <1>2 DEF WithinLimit, FewEntries

\* What was added is stored or collected.
LEMMA StepApplied ==
    ASSUME Mode = "insert", TypeInv, DistinctInv, AppliedInv, [Next]_svars
    PROVE  AppliedInv'
<1>1. ASSUME NEW e \in Entries, add(e)
      PROVE  AppliedInv'
  <2>1. adds' = adds + 1 /\ adds \in Nat
    BY <1>1 DEF add, TypeInv
  <2>2. expected' = expected \cup {e} /\ content' = content /\ alive' /\ adds' = adds + 1
    BY <1>1 DEF add
  <2>3. Elements(new_entries) \subseteq Elements(new_entries')
        /\ Elements(new_entries') \subseteq Elements(new_entries) \cup {e}
    BY <1>1, AddEntry
  <2>4. e \in de_duplication \/ e \in content \cup Elements(new_entries')
    BY <1>1, AddEntry DEF Relevant, already_stored
  <2>5. (NotCleared \/ bulk_size = 1)' => NotCleared \/ bulk_size = 1
    BY <2>1, LimitIsNat DEF NotCleared, FewEntries
  <2>6. WithinLimit' => WithinLimit /\ (NotCleared \/ bulk_size = 1)
    BY <2>1, LimitIsNat DEF WithinLimit, NotCleared, FewEntries
  <2>7. de_duplication' \subseteq de_duplication \cup {e}
    BY <1>1 DEF add, Remember
  <2>8. NotCleared \/ bulk_size = 1 => e \in content \cup Elements(new_entries')
    BY <2>3, <2>4 DEF AppliedInv
  <2>9. (NotCleared \/ bulk_size = 1)' => de_duplication' \subseteq content' \cup Elements(new_entries')
    BY <2>2, <2>3, <2>5, <2>7, <2>8 DEF AppliedInv
  <2>10. WithinLimit' => expected' = content' \cup Elements(new_entries')
    BY <2>2, <2>3, <2>6, <2>8 DEF AppliedInv
  <2> QED
    BY <2>2, <2>9, <2>10 DEF AppliedInv
<1>2. ASSUME NEW destroys \in BOOLEAN, flush(destroys)
      PROVE  AppliedInv'
  BY <1>2 DEF flush, AppliedInv, WithinLimit, NotCleared, FewEntries
<1>3. CASE Insert
  <2>1. WithinLimit' = WithinLimit /\ NotCleared' = NotCleared
    BY <1>3 DEF Insert, WithinLimit, NotCleared, FewEntries
  <2>2. NotCleared \/ bulk_size = 1 => WithinLimit
    BY LimitIsNat DEF TypeInv, WithinLimit, NotCleared, FewEntries
  <2>3. WithinLimit => content' = content \cup Elements(new_entries)
    BY <1>3, LimitDistinct, OddInjective DEF TypeInv, Insert
  <2>4. new_entries' = <<>> /\ Elements(new_entries') = {}
    BY <1>3 DEF Insert, Elements
  <2> QED
    BY <1>3, <2>1, <2>2, <2>3, <2>4 DEF Insert, AppliedInv
<1>4. CASE UNCHANGED svars
  BY <1>4 DEF svars, AppliedInv, WithinLimit, NotCleared, FewEntries
<1> QED
  BY <1>1, <1>2, <1>3, <1>4 DEF Next, Terminated

\* In both modes no bulk has an entry twice, if add is called at most four
\* times as often as the argument bulk_size says, if there are fewer entries
\* than that, or if the bulk has one entry: identifiers are built from entries
\* that "MUST NOT contain duplicates".  One more call can break it.
THEOREM SyncNoDuplicates == Spec => []NoDuplicatesInBulk
<1>1. Init => TypeInv /\ DistinctInv
  BY InitType, InitDistinct
<1>2. TypeInv /\ DistinctInv /\ [Next]_svars => (TypeInv /\ DistinctInv)'
  BY StepType, StepDistinct
<1>3. TypeInv /\ DistinctInv => NoDuplicatesInBulk
  BY LimitDistinct DEF NoDuplicatesInBulk
<1> QED
  BY <1>1, <1>2, <1>3, PTL DEF Spec

\* For the same callers, once the destructor has returned, the hypertrie has
\* exactly the entries it had before and those that were added, whether they
\* were applied by a full bulk, by flush or by the destructor.
THEOREM SyncAllApplied ==
    ASSUME Mode = "insert"
    PROVE  Spec => []AllAppliedAfterDestroy
<1> DEFINE Inv == TypeInv /\ DistinctInv /\ AppliedInv
<1>1. Init => Inv
  <2>1. Init => AppliedInv
    BY DEF Init, AppliedInv, Elements
  <2> QED
    BY <2>1, InitType, InitDistinct
<1>2. Inv /\ [Next]_svars => Inv'
  BY StepType, StepDistinct, StepApplied
<1>3. Inv => AllAppliedAfterDestroy
  <2>1. Elements(<<>>) = {}
    BY DEF Elements
  <2> QED
    BY <2>1 DEF AppliedInv, AllAppliedAfterDestroy
<1> QED
  BY <1>1, <1>2, <1>3, PTL DEF Spec

-----------------------------------------------------------------------------
(* What a cleared set can lose.                                            *)

SeenInv == de_duplication \subseteq expected

LEMMA StepSeen ==
    ASSUME Mode = "insert", SeenInv, [Next]_svars
    PROVE  SeenInv'
<1>1. ASSUME NEW e \in Entries, add(e)
      PROVE  SeenInv'
  BY <1>1 DEF add, Remember, SeenInv
<1>2. ASSUME NEW destroys \in BOOLEAN, flush(destroys)
      PROVE  SeenInv'
  BY <1>2 DEF flush, SeenInv
<1>3. CASE Insert
  BY <1>3 DEF Insert, SeenInv
<1>4. CASE UNCHANGED svars
  BY <1>4 DEF svars, SeenInv
<1> QED
  BY <1>1, <1>2, <1>3, <1>4 DEF Next, Terminated

LEMMA StepLost ==
    ASSUME Mode = "insert", TypeInv, SeenInv, [Next]_svars
    PROVE  Lost' \subseteq Lost \cup Repeated(new_entries)
<1>1. ASSUME NEW e \in Entries, add(e)
      PROVE  Lost' \subseteq Lost
  <2>1. expected' = expected \cup {e} /\ content' = content
    BY <1>1 DEF add
  <2>2. e \in expected \/ e \in content \cup Elements(new_entries')
    BY <1>1, AddEntry DEF SeenInv, Relevant, already_stored
  <2>3. Elements(new_entries) \subseteq Elements(new_entries')
    BY <1>1, AddEntry
  <2> QED
    BY <2>1, <2>2, <2>3 DEF Lost
<1>2. ASSUME NEW destroys \in BOOLEAN, flush(destroys)
      PROVE  Lost' = Lost
  BY <1>2 DEF flush, Lost
<1>3. CASE Insert
  <2>1. Elements(new_entries) \subseteq Odd(new_entries) \cup Repeated(new_entries)
    BY DroppedRepeated DEF TypeInv
  <2> QED
    BY <1>3, <2>1 DEF Insert, Lost
<1>4. CASE UNCHANGED svars
  BY <1>4 DEF svars, Lost
<1> QED
  BY <1>1, <1>2, <1>3, <1>4 DEF Next, Terminated

\* For every caller, after any number of calls and clearings: an entry that was
\* added is lost only by an insert that gets it more than once in one bulk.
THEOREM SyncOnlyRepeatedLost ==
    ASSUME Mode = "insert"
    PROVE  Spec => OnlyRepeatedLost
<1>1. Init => TypeInv /\ SeenInv
  BY InitType DEF Init, SeenInv
<1>2. TypeInv /\ SeenInv /\ [Next]_svars => (TypeInv /\ SeenInv)'
  BY StepType, StepSeen
<1>3. TypeInv /\ SeenInv /\ [Next]_svars => [Lost' \subseteq Lost \cup Repeated(new_entries)]_svars
  BY StepLost
<1> QED
  BY <1>1, <1>2, <1>3, PTL DEF Spec, OnlyRepeatedLost

=============================================================================

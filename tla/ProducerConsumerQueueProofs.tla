-------------------- MODULE ProducerConsumerQueueProofs --------------------
(***************************************************************************)
(* Safety of the ring buffer for every size, every set of records and any  *)
(* number of writes.  The argument: each thread has established, before it *)
(* touches its slot, that the two indices are apart (IndexInv), and the    *)
(* other thread can only move its own index away from it.  On top of that  *)
(* the occupied slots hold, in order, the records that are still to be     *)
(* received (SlotInv, OrderInv).                                           *)
(***************************************************************************)
EXTENDS ProducerConsumerQueue, SequenceTheorems, TLAPS

\* What each thread knows between its comparison and its publication.
IndexInv ==
    /\ producer \in {"construct", "publish"} => nextRecord(writeIndex) # readIndex
    /\ consumer \in {"take", "release"} => readIndex # writeIndex

\* The slots outside the queue are empty, but for the one under construction.
SlotInv ==
    /\ producer = "publish" => records[writeIndex] = record
    /\ consumer = "release" => records[readIndex] = NoItem
    /\ \A i \in Slots :
         ~InQueue(i) => records[i] = NoItem \/ (producer = "publish" /\ i = writeIndex)

\* How far slot i is behind the next slot to be read.
Distance(i) == IF i >= readIndex THEN i - readIndex ELSE i - readIndex + Size

\* The slots of the queue hold the records that are not yet received, in order.
OrderInv ==
    /\ sizeGuess = Len(written) - Len(received)
    /\ \A i \in Slots : InQueue(i) =>
         \/ consumer = "release" /\ i = readIndex
         \/ records[i] = written[Len(received) + 1 + Distance(i)]
    /\ consumer = "release" => out = written[Len(received) + 1]
    /\ \A n \in 1 .. Len(received) : received[n] = written[n]

QueueInv == TypeOK /\ IndexInv /\ SlotInv /\ OrderInv

-----------------------------------------------------------------------------

\* nextRecord stays in the ring and never maps two slots to one.
LEMMA NextRecord ==
    /\ \A i \in Slots : nextRecord(i) \in Slots /\ nextRecord(i) # i
    /\ \A i, j \in Slots : nextRecord(i) = nextRecord(j) => i = j
BY SizeAssumption DEF Slots, nextRecord

\* A slot is in the queue if and only if it is closer to the read index than
\* the queue is long.
LEMMA QueueDistance ==
    ASSUME readIndex \in Slots, writeIndex \in Slots
    PROVE  /\ \A i \in Slots : InQueue(i) <=> Distance(i) < sizeGuess
           /\ \A i \in Slots : Distance(i) \in 0 .. (Size - 1)
           /\ sizeGuess \in 0 .. (Size - 1)
           /\ sizeGuess = 0 <=> readIndex = writeIndex
BY SizeAssumption DEF Slots, InQueue, Distance, sizeGuess

\* The variables of the queue have their types in every reachable state: the
\* indices never leave the ring (write, read and their wrap at size_).
THEOREM QueueTypeCorrect == Spec => []TypeOK
<1>1. Init => TypeOK
  BY SizeAssumption, ItemAssumption DEF Init, TypeOK, Slots
<1>2. TypeOK /\ [Next]_qvars => TypeOK'
  <2> SUFFICES ASSUME TypeOK, [Next]_qvars PROVE TypeOK'
    OBVIOUS
  <2>1. ASSUME NEW item \in Items, StartWrite(item) PROVE TypeOK'
    BY <2>1 DEF TypeOK, StartWrite, cvars
  <2>2. CASE ConstructRecord
    BY <2>2 DEF TypeOK, ConstructRecord, cvars
  <2>3. CASE PublishWrite
    BY <2>3, NextRecord DEF TypeOK, PublishWrite, cvars
  <2>4. CASE StartRead
    BY <2>4 DEF TypeOK, StartRead, pvars
  <2>5. CASE TakeRecord
    BY <2>5 DEF TypeOK, TakeRecord, pvars
  <2>6. CASE ReleaseRead
    BY <2>6, NextRecord DEF TypeOK, ReleaseRead, pvars
  <2>7. CASE UNCHANGED qvars
    BY <2>7 DEF TypeOK, qvars
  <2> QED
    BY <2>1, <2>2, <2>3, <2>4, <2>5, <2>6, <2>7 DEF Next, Produce, Consume
<1> QED
  BY <1>1, <1>2, PTL DEF Spec

\* What the two threads know about the indices is stable: the other thread's
\* step can only move its index away.
LEMMA IndexInvInductive ==
    /\ Init => IndexInv
    /\ TypeOK /\ IndexInv /\ [Next]_qvars => IndexInv'
<1>1. Init => IndexInv
  BY DEF Init, IndexInv
<1>2. ASSUME TypeOK, IndexInv, [Next]_qvars PROVE IndexInv'
  <2>1. ASSUME NEW item \in Items, StartWrite(item) PROVE IndexInv'
    BY <1>2, <2>1 DEF IndexInv, StartWrite, cvars
  <2>2. CASE ConstructRecord
    BY <1>2, <2>2 DEF IndexInv, ConstructRecord, cvars
  <2>3. CASE PublishWrite
    BY <1>2, <2>3 DEF IndexInv, PublishWrite, cvars
  <2>4. CASE StartRead
    BY <1>2, <2>4 DEF IndexInv, StartRead, pvars
  <2>5. CASE TakeRecord
    BY <1>2, <2>5 DEF IndexInv, TakeRecord, pvars
  <2>6. CASE ReleaseRead
    BY <1>2, <2>6, NextRecord DEF TypeOK, IndexInv, ReleaseRead, pvars
  <2>7. CASE UNCHANGED qvars
    BY <1>2, <2>7 DEF IndexInv, qvars
  <2> QED
    BY <1>2, <2>1, <2>2, <2>3, <2>4, <2>5, <2>6, <2>7 DEF Next, Produce, Consume
<1> QED
  BY <1>1, <1>2

\* The caller of write and the worker that reads never touch the same slot,
\* although both decide on an index that the other thread may have moved since.
THEOREM QueueNoSlotRace == Spec => []NoSlotRace
<1>1. TypeOK /\ IndexInv => NoSlotRace
  BY DEF IndexInv, NoSlotRace
<1> QED
  BY <1>1, QueueTypeCorrect, IndexInvInductive, PTL DEF Spec

\* Each step of a thread changes one index or one slot and keeps the order of
\* the records between the indices.
LEMMA SlotInvStep ==
    ASSUME TypeOK, IndexInv, SlotInv, [Next]_qvars
    PROVE  SlotInv'
<1>1. ASSUME NEW item \in Items, StartWrite(item) PROVE SlotInv'
  BY <1>1 DEF SlotInv, TypeOK, StartWrite, cvars, InQueue
<1>2. CASE ConstructRecord
  BY <1>2 DEF SlotInv, IndexInv, TypeOK, ConstructRecord, cvars, InQueue
<1>3. CASE PublishWrite
  BY <1>3, SizeAssumption DEF SlotInv, IndexInv, TypeOK, PublishWrite, cvars, InQueue, nextRecord, Slots
<1>4. CASE StartRead
  BY <1>4 DEF SlotInv, StartRead, pvars, InQueue
<1>5. CASE TakeRecord
  BY <1>5 DEF SlotInv, IndexInv, TypeOK, TakeRecord, pvars, InQueue
<1>6. CASE ReleaseRead
  BY <1>6, SizeAssumption DEF SlotInv, IndexInv, TypeOK, ReleaseRead, pvars, InQueue, nextRecord, Slots
<1>7. CASE UNCHANGED qvars
  BY <1>7 DEF SlotInv, qvars, InQueue
<1> QED
  BY <1>1, <1>2, <1>3, <1>4, <1>5, <1>6, <1>7 DEF Next, Produce, Consume

LEMMA OrderInvStep ==
    ASSUME TypeOK, TypeOK', IndexInv, SlotInv, OrderInv, [Next]_qvars
    PROVE  OrderInv'
<1> USE SizeAssumption
<1>1. ASSUME NEW item \in Items, StartWrite(item) PROVE OrderInv'
  BY <1>1 DEF OrderInv, TypeOK, StartWrite, cvars, InQueue, Distance, sizeGuess
<1>2. CASE ConstructRecord
  <2>1. ~InQueue(writeIndex)
    BY DEF InQueue, TypeOK, Slots
  <2>2. \A i \in Slots : i # writeIndex => records'[i] = records[i]
    BY <1>2 DEF ConstructRecord, TypeOK
  <2> QED
    BY <1>2, <2>1, <2>2 DEF OrderInv, ConstructRecord, cvars, InQueue, Distance, sizeGuess
<1>3. CASE PublishWrite
  <2>1. sizeGuess' = sizeGuess + 1 /\ Distance(writeIndex) = sizeGuess
    BY <1>3 DEF PublishWrite, cvars, sizeGuess, Distance, nextRecord, TypeOK, IndexInv, Slots
  <2>2. \A i \in Slots : InQueue(i)' => InQueue(i) \/ i = writeIndex
    BY <1>3 DEF PublishWrite, cvars, InQueue, nextRecord, TypeOK, IndexInv, Slots
  <2>3. /\ Len(written') = Len(written) + 1
        /\ written'[Len(written) + 1] = record
        /\ \A n \in 1 .. Len(written) : written'[n] = written[n]
    BY <1>3 DEF PublishWrite, TypeOK
  <2>4. Len(received) \in Nat /\ Len(written) \in Nat /\ sizeGuess \in Nat
    BY QueueDistance DEF TypeOK
  <2>5. \A i \in Slots : InQueue(i) => Len(received) + 1 + Distance(i) \in 1 .. Len(written)
    BY <2>4, QueueDistance DEF OrderInv, TypeOK
  <2>6. ASSUME NEW i \in Slots, InQueue(i)'
        PROVE  \/ consumer' = "release" /\ i = readIndex'
               \/ records'[i] = written'[Len(received') + 1 + Distance(i)']
    <3>1. CASE InQueue(i)
      BY <1>3, <2>3, <2>5, <3>1 DEF PublishWrite, cvars, OrderInv, Distance
    <3>2. CASE i = writeIndex
      BY <1>3, <2>1, <2>3, <2>4, <3>2 DEF PublishWrite, cvars, OrderInv, SlotInv, Distance
    <3> QED
      BY <2>2, <2>6, <3>1, <3>2
  <2>7. consumer = "release" => Len(received) + 1 \in 1 .. Len(written)
    BY <2>4, QueueDistance DEF OrderInv, IndexInv, TypeOK
  <2>8. (consumer = "release" => out = written[Len(received) + 1])'
    BY <1>3, <2>3, <2>7 DEF PublishWrite, cvars, OrderInv
  <2>9. (\A n \in 1 .. Len(received) : received[n] = written[n])'
    BY <1>3, <2>3, <2>4 DEF PublishWrite, cvars, OrderInv
  <2>10. (sizeGuess = Len(written) - Len(received))'
    BY <1>3, <2>1, <2>3, <2>4 DEF PublishWrite, cvars, OrderInv
  <2> QED
    BY <2>6, <2>8, <2>9, <2>10 DEF OrderInv
<1>4. CASE StartRead
  BY <1>4 DEF OrderInv, StartRead, pvars, InQueue, Distance, sizeGuess
<1>5. CASE TakeRecord
  <2>1. InQueue(readIndex) /\ Distance(readIndex) = 0
    BY <1>5 DEF TakeRecord, InQueue, Distance, IndexInv, TypeOK, Slots
  <2>2. out' = written[Len(received) + 1]
    BY <1>5, <2>1 DEF TakeRecord, OrderInv, TypeOK
  <2> QED
    BY <1>5, <2>2 DEF TakeRecord, pvars, OrderInv, TypeOK, InQueue, Distance, sizeGuess
<1>6. CASE ReleaseRead
  <2>1. sizeGuess' = sizeGuess - 1
    BY <1>6 DEF ReleaseRead, pvars, sizeGuess, nextRecord, TypeOK, IndexInv, Slots
  <2>2. \A i \in Slots : InQueue(i)' => InQueue(i) /\ i # readIndex /\ Distance(i)' = Distance(i) - 1
    BY <1>6 DEF ReleaseRead, pvars, InQueue, Distance, nextRecord, TypeOK, IndexInv, Slots
  <2>3. Len(received) \in Nat /\ Len(written) \in Nat /\ sizeGuess \in Nat
    BY QueueDistance DEF TypeOK
  <2>4. /\ Len(received') = Len(received) + 1
        /\ received'[Len(received) + 1] = out
        /\ \A n \in 1 .. Len(received) : received'[n] = received[n]
    BY <1>6 DEF ReleaseRead, TypeOK
  <2>5. \A i \in Slots : InQueue(i)' => records'[i] = written'[Len(received') + 1 + Distance(i)']
    <3> SUFFICES ASSUME NEW i \in Slots, InQueue(i)'
                 PROVE  records'[i] = written'[Len(received') + 1 + Distance(i)']
      OBVIOUS
    <3>1. Distance(i) \in Int /\ Distance(i)' = Distance(i) - 1
      BY <2>2, QueueDistance DEF TypeOK
    <3>2. Len(received') + 1 + Distance(i)' = Len(received) + 1 + Distance(i)
      BY <2>3, <2>4, <3>1
    <3> QED
      BY <1>6, <2>2, <3>2 DEF ReleaseRead, pvars, OrderInv
  <2>6. \A n \in 1 .. Len(received') : received'[n] = written'[n]
    BY <1>6, <2>3, <2>4 DEF ReleaseRead, pvars, OrderInv
  <2> QED
    BY <1>6, <2>1, <2>3, <2>4, <2>5, <2>6 DEF ReleaseRead, pvars, OrderInv
<1>7. CASE UNCHANGED qvars
  BY <1>7 DEF OrderInv, qvars, InQueue, Distance, sizeGuess
<1> QED
  BY <1>1, <1>2, <1>3, <1>4, <1>5, <1>6, <1>7 DEF Next, Produce, Consume

\* The inductive invariant of the queue holds in every reachable state.
THEOREM QueueInvariant == Spec => []QueueInv
<1>1. Init => IndexInv /\ SlotInv /\ OrderInv
  BY SizeAssumption DEF Init, IndexInv, SlotInv, OrderInv, InQueue, Distance, sizeGuess, Slots
<1>2. TypeOK /\ TypeOK' /\ IndexInv /\ SlotInv /\ OrderInv /\ [Next]_qvars
      => IndexInv' /\ SlotInv' /\ OrderInv'
  BY IndexInvInductive, SlotInvStep, OrderInvStep
<1>3. QueueInv <=> TypeOK /\ IndexInv /\ SlotInv /\ OrderInv
  BY DEF QueueInv
<1> QED
  BY <1>1, <1>2, <1>3, QueueTypeCorrect, PTL DEF Spec

\* No slot is overwritten before its record is read, or read before the record
\* is complete (the order of construction, publication, move and release).
THEOREM QueueSlotsIntact == Spec => []SlotsIntact
<1>1. QueueInv => SlotsIntact
  <2> SUFFICES ASSUME QueueInv, NEW i \in Slots
               PROVE  IF InQueue(i) THEN records[i] \in Items \/ (consumer = "release" /\ i = readIndex)
                      ELSE records[i] = NoItem \/ (producer = "publish" /\ i = writeIndex)
    BY DEF SlotsIntact
  <2>1. CASE InQueue(i)
    <3>1. Len(received) + 1 + Distance(i) \in 1 .. Len(written)
      BY <2>1, QueueDistance DEF QueueInv, TypeOK, OrderInv
    <3> QED
      BY <2>1, <3>1 DEF QueueInv, TypeOK, OrderInv
  <2>2. CASE ~InQueue(i)
    BY <2>2 DEF QueueInv, SlotInv
  <2> QED
    BY <2>1, <2>2
<1> QED
  BY <1>1, QueueInvariant, PTL

\* At most size_ - 1 slots are in use, and sizeGuess counts the records that
\* were written and not yet read ("the number of usable slots").
THEOREM QueueCapacity == Spec => []CapacityRespected
<1>1. QueueInv => CapacityRespected
  BY QueueDistance, SizeAssumption DEF QueueInv, TypeOK, OrderInv, CapacityRespected
<1> QED
  BY <1>1, QueueInvariant, PTL

\* Records are received complete, once and in the order of the writes, for
\* every interleaving of the caller's and the worker's steps.
THEOREM QueueFifo == Spec => []Fifo
<1>1. QueueInv => Fifo
  <2> SUFFICES ASSUME QueueInv PROVE received = SubSeq(written, 1, Len(received))
    BY DEF Fifo
  <2>1. Len(received) \in Nat /\ Len(received) <= Len(written)
    BY QueueDistance DEF QueueInv, TypeOK, OrderInv
  <2> QED
    BY <2>1 DEF QueueInv, TypeOK, OrderInv
<1> QED
  BY <1>1, QueueInvariant, PTL

(***************************************************************************)
(* The ring implements the bounded queue.                                  *)
(***************************************************************************)

\* The records in the queue.
Pending == SubSeq(written, Len(received) + 1, Len(written))

\* They are as many as sizeGuess says.
LEMMA PendingLength ==
    ASSUME QueueInv
    PROVE  /\ Pending \in Seq(Items) /\ Len(Pending) = sizeGuess
           /\ \A n \in 1 .. Len(Pending) : Pending[n] = written[Len(received) + n]
           /\ Len(received) \in Nat /\ Len(written) \in Nat
           /\ Len(written) = Len(received) + Len(Pending)
           /\ Pending = <<>> <=> readIndex = writeIndex
           /\ Len(Pending) = Size - 1 <=> nextRecord(writeIndex) = readIndex
           /\ Len(Pending) <= Size - 1
<1>1. Len(received) \in Nat /\ Len(written) \in Nat /\ written \in Seq(Items)
  BY DEF QueueInv, TypeOK
<1>2. sizeGuess \in 0 .. (Size - 1) /\ (sizeGuess = 0 <=> readIndex = writeIndex)
  BY QueueDistance DEF QueueInv, TypeOK
<1>3. sizeGuess = Len(written) - Len(received)
  BY DEF QueueInv, OrderInv
<1>4. /\ Pending \in Seq(Items) /\ Len(Pending) = Len(written) - Len(received)
      /\ \A n \in 1 .. Len(Pending) : Pending[n] = written[Len(received) + n]
  BY <1>1, <1>2, <1>3 DEF Pending
<1>5. Pending = <<>> <=> Len(Pending) = 0
  BY <1>4
<1>6. sizeGuess = Size - 1 <=> nextRecord(writeIndex) = readIndex
  BY SizeAssumption DEF QueueInv, TypeOK, Slots, sizeGuess, nextRecord
<1> QED
  BY <1>1, <1>2, <1>3, <1>4, <1>5, <1>6, SizeAssumption

\* Publishing a record appends it, and releasing a slot takes the first one.
LEMMA PublishAppends ==
    ASSUME QueueInv, PublishWrite
    PROVE  Pending' = Append(Pending, record)
<1>1. /\ written' = Append(written, record) /\ received' = received /\ record \in Items
      /\ written \in Seq(Items)
  BY DEF PublishWrite, cvars, QueueInv, TypeOK
<1>2. /\ Len(received) \in Nat /\ Len(written) \in Nat /\ Pending \in Seq(Items)
      /\ Len(written) = Len(received) + Len(Pending)
      /\ \A n \in 1 .. Len(Pending) : Pending[n] = written[Len(received) + n]
  BY PendingLength
<1> DEFINE new == SubSeq(Append(written, record), Len(received) + 1, Len(written) + 1)
<1>3. Pending' = new
  <2>1. Len(Append(written, record)) = Len(written) + 1
    BY <1>1, AppendProperties
  <2>2. Pending' = SubSeq(written', Len(received') + 1, Len(written'))
    BY DEF Pending
  <2> QED
    BY <1>1, <2>1, <2>2, Zenon
<1>4. /\ new \in Seq(Items) /\ Len(new) = Len(Pending) + 1
      /\ \A n \in 1 .. Len(new) : new[n] = Append(written, record)[Len(received) + n]
  BY <1>1, <1>2
<1> HIDE DEF new
<1>5. /\ Append(Pending, record) \in Seq(Items) /\ Len(Append(Pending, record)) = Len(Pending) + 1
      /\ \A n \in 1 .. Len(Pending) : Append(Pending, record)[n] = Pending[n]
      /\ Append(Pending, record)[Len(Pending) + 1] = record
      /\ \A n \in 1 .. Len(written) : Append(written, record)[n] = written[n]
      /\ Append(written, record)[Len(written) + 1] = record
  BY <1>1, <1>2, AppendProperties
<1>6. ASSUME NEW n \in 1 .. (Len(Pending) + 1) PROVE new[n] = Append(Pending, record)[n]
  <2>1. new[n] = Append(written, record)[Len(received) + n]
    BY <1>4, <1>6
  <2>2. CASE n = Len(Pending) + 1
    <3>1. Len(received) + n = Len(written) + 1
      BY <1>2, <2>2
    <3> QED
      BY <1>5, <2>1, <2>2, <3>1
  <2>3. CASE n # Len(Pending) + 1
    <3>1. n \in 1 .. Len(Pending) /\ Len(received) + n \in 1 .. Len(written)
      BY <1>2, <1>6, <2>3
    <3> QED
      BY <1>2, <1>5, <2>1, <3>1
  <2> QED
    BY <2>2, <2>3
<1>7. new = Append(Pending, record)
  BY <1>4, <1>5, <1>6
<1> QED
  BY <1>3, <1>7

LEMMA ReleaseTakes ==
    ASSUME QueueInv, ReleaseRead
    PROVE  Pending # <<>> /\ out = Head(Pending) /\ Pending' = Tail(Pending)
<1>1. /\ written' = written /\ received' = Append(received, out) /\ written \in Seq(Items)
      /\ received \in Seq(Items \cup {NoItem}) /\ out \in Items \cup {NoItem}
  BY DEF ReleaseRead, pvars, QueueInv, TypeOK
<1>2. Pending # <<>> /\ out = written[Len(received) + 1]
  BY PendingLength DEF ReleaseRead, QueueInv, IndexInv, OrderInv
<1>3. /\ Len(received) + 1 \in 1 .. Len(written) /\ Len(written) \in (Len(received) + 1) .. Len(written)
      /\ Len(received) \in Nat
  <2>1. /\ Len(received) \in Nat /\ Len(written) \in Nat /\ Len(Pending) \in Nat
        /\ Len(written) = Len(received) + Len(Pending) /\ Len(Pending) # 0
    BY <1>2, PendingLength
  <2> QED
    BY <2>1
<1>4. /\ Head(Pending) = written[Len(received) + 1]
      /\ Tail(Pending) = SubSeq(written, (Len(received) + 1) + 1, Len(written))
  BY <1>1, <1>3, HeadTailOfSubSeq DEF Pending
<1>5. Len(received') = Len(received) + 1
  BY <1>1
<1> QED
  BY <1>1, <1>2, <1>4, <1>5 DEF Pending

\* Every step of a thread is a step of the queue, or none.
LEMMA FifoStep ==
    ASSUME QueueInv, [Next]_qvars
    PROVE  [Abstract!FifoNext]_(Abstract!fvars)
<1> USE DEF Abstract!fvars
<1>0. /\ producer \in {"ready", "full", "construct", "publish"}
      /\ consumer \in {"ready", "empty", "take", "release"}
  BY DEF QueueInv, TypeOK
<1>1. ASSUME NEW item \in Items, StartWrite(item) PROVE Abstract!FifoNext
  <2>1. /\ UNCHANGED <<written, received, consumer>> /\ producer \in {"ready", "full"}
        /\ IF nextRecord(writeIndex) # readIndex
           THEN producer' = "construct" /\ record' = item
           ELSE producer' = "full" /\ UNCHANGED record
    BY <1>1 DEF StartWrite, cvars
  <2>2. Len(Pending) < Size - 1 <=> nextRecord(writeIndex) # readIndex
    BY PendingLength, SizeAssumption
  <2>3. Len(Pending) = Size - 1 <=> nextRecord(writeIndex) = readIndex
    BY PendingLength
  <2>4. CASE nextRecord(writeIndex) # readIndex
    <3>1. Abstract!AcceptWrite(item)
      BY <2>1, <2>2, <2>4 DEF Abstract!AcceptWrite, Pending
    <3> QED
      BY <3>1 DEF Abstract!FifoNext
  <2>5. CASE nextRecord(writeIndex) = readIndex
    <3>1. Abstract!RefuseWrite
      BY <2>1, <2>3, <2>5 DEF Abstract!RefuseWrite, Pending
    <3> QED
      BY <3>1 DEF Abstract!FifoNext
  <2> QED
    BY <2>4, <2>5
<1>2. CASE ConstructRecord
  BY <1>2 DEF ConstructRecord, cvars
<1>3. CASE PublishWrite
  <2>1. /\ producer = "publish" /\ producer' = "ready" /\ record' = NoItem
        /\ UNCHANGED <<received, consumer>>
    BY <1>3 DEF PublishWrite, cvars
  <2>2. Pending' = Append(Pending, record)
    BY <1>3, PublishAppends
  <2>3. Len(Pending) < Size - 1
    <3>1. nextRecord(writeIndex) # readIndex
      BY <2>1 DEF QueueInv, IndexInv
    <3> QED
      BY <3>1, PendingLength, SizeAssumption
  <2>4. Abstract!Enqueue
    BY <2>1, <2>2, <2>3 DEF Abstract!Enqueue, Pending
  <2> QED
    BY <2>4 DEF Abstract!FifoNext
<1>4. CASE StartRead
  <2>1. /\ UNCHANGED <<written, received, producer, record>> /\ consumer \in {"ready", "empty"}
        /\ consumer' = IF readIndex # writeIndex THEN "take" ELSE "empty"
    BY <1>4 DEF StartRead, pvars
  <2>2. Pending = <<>> <=> readIndex = writeIndex
    BY PendingLength
  <2>3. CASE readIndex # writeIndex
    <3>1. Abstract!AcceptRead
      BY <2>1, <2>2, <2>3 DEF Abstract!AcceptRead, Pending
    <3> QED
      BY <3>1 DEF Abstract!FifoNext
  <2>4. CASE readIndex = writeIndex
    <3>1. Abstract!RefuseRead
      BY <2>1, <2>2, <2>4 DEF Abstract!RefuseRead, Pending
    <3> QED
      BY <3>1 DEF Abstract!FifoNext
  <2> QED
    BY <2>3, <2>4
<1>5. CASE TakeRecord
  BY <1>5 DEF TakeRecord, pvars
<1>6. CASE ReleaseRead
  <2>1. /\ consumer = "release" /\ consumer' = "ready" /\ received' = Append(received, out)
        /\ UNCHANGED <<producer, record>>
    BY <1>6 DEF ReleaseRead, pvars
  <2>2. Pending # <<>> /\ out = Head(Pending) /\ Pending' = Tail(Pending)
    BY <1>6, ReleaseTakes
  <2>3. Abstract!Dequeue
    BY <2>1, <2>2 DEF Abstract!Dequeue, Pending
  <2> QED
    BY <2>3 DEF Abstract!FifoNext
<1>7. CASE UNCHANGED qvars
  BY <1>7 DEF qvars
<1> QED
  BY <1>1, <1>2, <1>3, <1>4, <1>5, <1>6, <1>7 DEF Next, Produce, Consume

\* The ring buffer is the bounded queue that the bulk updater relies on: for
\* every size, write fails only when size_ - 1 records are in the queue and
\* read only when there is none, although each looks at an index of the other
\* thread that may have moved since, and every accepted call takes effect at
\* one moment, in order.
THEOREM QueueImplementsFifo == Spec => ImplementsFifo
<1>1. Init => Abstract!FifoInit
  BY DEF Init, Abstract!FifoInit
<1>2. QueueInv /\ [Next]_qvars => [Abstract!FifoNext]_(Abstract!fvars)
  BY FifoStep
<1> QED
  BY <1>1, <1>2, QueueInvariant, PTL DEF Spec, ImplementsFifo, Abstract!FifoSpec

=============================================================================

----------------------- MODULE ProducerConsumerQueue -----------------------
(***************************************************************************)
(* The single-producer single-consumer ring buffer between the caller of   *)
(* an asynchronous bulk updater and its worker thread                      *)
(* (folly_ProducerConsumerQueue.hpp).  write and read are split at their   *)
(* accesses to shared memory: the load of the other side's index, the      *)
(* access to the record, and the store that publishes the own index.  With *)
(* the acquire loads and release stores of the code each of these is one   *)
(* step of a sequentially consistent interleaving.                         *)
(***************************************************************************)
EXTENDS Integers, Sequences

CONSTANTS Size,      \* size_: number of slots
          Items,     \* the records that are written
          NoItem,    \* a slot without constructed record
          MaxWrites  \* bound on the calls of write that succeed

ASSUME SizeAssumption == Size \in Nat /\ Size >= 2
ASSUME ItemAssumption == NoItem \notin Items
ASSUME MaxWritesAssumption == MaxWrites \in Nat

VARIABLES
    records,      \* the slots
    readIndex, writeIndex,
    producer,     \* where the producer is: "ready", "full", "construct", "publish"
    consumer,     \* where the consumer is: "ready", "empty", "take", "release"
    record,       \* the argument of write
    out,          \* the record that read has taken
    written,      \* all records written so far, in order
    received      \* all records read so far, in order

pvars == <<writeIndex, producer, record, written>>
cvars == <<readIndex, consumer, out, received>>
qvars == <<records, readIndex, writeIndex, producer, consumer, record, out, written, received>>

Slots == 0 .. (Size - 1)

nextRecordNoWrap(i) == i + 1

nextRecord(i) == IF i + 1 = Size THEN 0 ELSE i + 1

Init ==
    /\ records = [i \in Slots |-> NoItem]
    /\ readIndex = 0 /\ writeIndex = 0
    /\ producer = "ready" /\ consumer = "ready"
    /\ record = NoItem /\ out = NoItem
    /\ written = <<>> /\ received = <<>>

-----------------------------------------------------------------------------

\* write(item): the comparison with readIndex_.  A failed write returns.
StartWriteUnchecked(item) ==
    /\ producer \in {"ready", "full"} /\ Len(written) < MaxWrites
    /\ producer' = "construct" /\ record' = item
    /\ UNCHANGED <<records, writeIndex, written, cvars>>

StartWrite(item) ==
    /\ producer \in {"ready", "full"} /\ Len(written) < MaxWrites
    /\ IF nextRecord(writeIndex) # readIndex
       THEN producer' = "construct" /\ record' = item
       ELSE producer' = "full" /\ UNCHANGED record
    /\ UNCHANGED <<records, writeIndex, written, cvars>>

\* The record is constructed in its slot, and then published.
ConstructRecord ==
    /\ producer = "construct"
    /\ records' = [records EXCEPT ![writeIndex] = record]
    /\ producer' = "publish"
    /\ UNCHANGED <<writeIndex, record, written, cvars>>

PublishWrite ==
    /\ producer = "publish"
    /\ writeIndex' = nextRecord(writeIndex)
    /\ written' = Append(written, record)
    /\ record' = NoItem
    /\ producer' = "ready"
    /\ UNCHANGED <<records, cvars>>

\* read: the comparison with writeIndex_.  A failed read returns.
StartReadUnchecked ==
    /\ consumer \in {"ready", "empty"}
    /\ consumer' = "take"
    /\ UNCHANGED <<records, readIndex, out, received, pvars>>

StartReadLate ==
    /\ consumer \in {"ready", "empty"}
    /\ consumer' = IF readIndex # writeIndex /\ nextRecord(readIndex) # writeIndex
                   THEN "take" ELSE "empty"
    /\ UNCHANGED <<records, readIndex, out, received, pvars>>

StartRead ==
    /\ consumer \in {"ready", "empty"}
    /\ consumer' = IF readIndex # writeIndex THEN "take" ELSE "empty"
    /\ UNCHANGED <<records, readIndex, out, received, pvars>>

\* The record is moved out and its slot destructed.
TakeRecordNoDestruct ==
    /\ consumer = "take"
    /\ out' = records[readIndex]
    /\ consumer' = "release"
    /\ UNCHANGED <<records, readIndex, received, pvars>>

TakeRecord ==
    /\ consumer = "take"
    /\ out' = records[readIndex]
    /\ records' = [records EXCEPT ![readIndex] = NoItem]
    /\ consumer' = "release"
    /\ UNCHANGED <<readIndex, received, pvars>>

ReleaseRead ==
    /\ consumer = "release"
    /\ readIndex' = nextRecord(readIndex)
    /\ received' = Append(received, out)
    /\ out' = NoItem
    /\ consumer' = "ready"
    /\ UNCHANGED <<records, pvars>>

Produce == (\E item \in Items : StartWrite(item)) \/ ConstructRecord \/ PublishWrite

Consume == StartRead \/ TakeRecord \/ ReleaseRead

Next == Produce \/ Consume

\* The worker thread polls the queue for as long as it runs, and the caller of
\* add repeats a failed write.
Spec == Init /\ [][Next]_qvars /\ WF_qvars(Produce) /\ WF_qvars(Consume)

-----------------------------------------------------------------------------

\* sizeGuess, and the number of records that it is a guess of.
sizeGuess == IF writeIndex >= readIndex THEN writeIndex - readIndex
             ELSE writeIndex - readIndex + Size

\* The variables have their types; in particular the indices stay in the ring,
\* and a record that is being constructed is one that was passed to write.
TypeOK ==
    /\ records \in [Slots -> Items \cup {NoItem}]
    /\ readIndex \in Slots /\ writeIndex \in Slots
    /\ producer \in {"ready", "full", "construct", "publish"}
    /\ consumer \in {"ready", "empty", "take", "release"}
    /\ record \in Items \cup {NoItem}
    /\ producer \in {"construct", "publish"} => record \in Items
    /\ out \in Items \cup {NoItem}
    /\ written \in Seq(Items)
    /\ received \in Seq(Items \cup {NoItem})

\* The two threads never touch the same slot at the same time, although
\* neither holds a lock and both decide on an index that may be outdated.
NoSlotRace ==
    ~(producer \in {"construct", "publish"} /\ consumer \in {"take", "release"}
      /\ writeIndex = readIndex)

\* The slots between the indices hold constructed records and no other slot
\* does, apart from the slots the two threads are working on: no record is
\* overwritten before it is read, or read before it is complete.
InQueue(i) ==
    IF readIndex <= writeIndex THEN readIndex <= i /\ i < writeIndex
    ELSE readIndex <= i \/ i < writeIndex

SlotsIntact ==
    \A i \in Slots :
        IF InQueue(i) THEN records[i] \in Items \/ (consumer = "release" /\ i = readIndex)
        ELSE records[i] = NoItem \/ (producer = "publish" /\ i = writeIndex)

\* isFull: at most size_ - 1 slots are used, "the number of usable slots in the
\* queue at any given time is actually (size-1)".
CapacityRespected == sizeGuess <= Size - 1 /\ sizeGuess = Len(written) - Len(received)

\* Records arrive complete, once and in the order in which they were written.
Fifo == received = SubSeq(written, 1, Len(received))

\* The ring behaves as a queue of size_ - 1 records: a write fails only when
\* that many records are in it ("queue is full"), a read only when there is
\* none ("queue is empty"), whatever the other thread has done since; a write
\* takes effect when it publishes its index, and a read when it releases its
\* slot.
Abstract == INSTANCE BoundedFifo WITH
    Capacity <- Size - 1, Records <- Items, None <- NoItem,
    queue    <- SubSeq(written, Len(received) + 1, Len(written)),
    taken    <- received,
    writer   <- IF producer \in {"construct", "publish"} THEN "writing" ELSE producer,
    argument <- record,
    reader   <- IF consumer \in {"take", "release"} THEN "reading" ELSE consumer

ImplementsFifo == Abstract!FifoSpec

\* Every record that was written is read.
AllReceived == \A n \in 1 .. MaxWrites : Len(written) >= n ~> Len(received) >= n

=============================================================================

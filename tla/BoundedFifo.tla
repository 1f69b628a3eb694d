---------------------------- MODULE BoundedFifo ----------------------------
(***************************************************************************)
(* What a queue of bounded capacity promises to one writer and one reader. *)
(* A call of write decides at one moment whether there is room, a call of  *)
(* read whether there is a record; the decision is right at that moment,   *)
(* and a call that is accepted takes effect.                               *)
(***************************************************************************)
EXTENDS Integers, Sequences

CONSTANTS Capacity,  \* the number of records there is room for
          Records,   \* what may be written
          None       \* no record

VARIABLES queue,     \* the records in the queue
          taken,     \* all records that were read, in order
          writer,    \* "ready", "full" after a failed write, "writing"
          argument,  \* the record that is being written
          reader     \* "ready", "empty" after a failed read, "reading"

fvars == <<queue, taken, writer, argument, reader>>

FifoInit ==
    /\ queue = <<>> /\ taken = <<>>
    /\ writer = "ready" /\ argument = None /\ reader = "ready"

AcceptWrite(r) ==
    /\ writer # "writing" /\ Len(queue) < Capacity
    /\ writer' = "writing" /\ argument' = r
    /\ UNCHANGED <<queue, taken, reader>>

RefuseWrite ==
    /\ writer # "writing" /\ Len(queue) = Capacity
    /\ writer' = "full"
    /\ UNCHANGED <<queue, taken, argument, reader>>

Enqueue ==
    /\ writer = "writing" /\ Len(queue) < Capacity
    /\ queue' = Append(queue, argument)
    /\ writer' = "ready" /\ argument' = None
    /\ UNCHANGED <<taken, reader>>

AcceptRead ==
    /\ reader # "reading" /\ queue # <<>>
    /\ reader' = "reading"
    /\ UNCHANGED <<queue, taken, writer, argument>>

RefuseRead ==
    /\ reader # "reading" /\ queue = <<>>
    /\ reader' = "empty"
    /\ UNCHANGED <<queue, taken, writer, argument>>

Dequeue ==
    /\ reader = "reading" /\ queue # <<>>
    /\ taken' = Append(taken, Head(queue)) /\ queue' = Tail(queue)
    /\ reader' = "ready"
    /\ UNCHANGED <<writer, argument>>

FifoNext ==
    \/ \E r \in Records : AcceptWrite(r)
    \/ RefuseWrite \/ Enqueue
    \/ AcceptRead \/ RefuseRead \/ Dequeue

FifoSpec == FifoInit /\ [][FifoNext]_fvars

=============================================================================

----------------------------- MODULE ByteQueue -----------------------------
(***************************************************************************)
(* my_lib/queue_lib.c: the circular byte queue under the transmit and the  *)
(* receive path.  One action per function; the functions run to completion *)
(* because every user of a queue either owns a mutex or is its only user   *)
(* (modules TransmitPath and Pairing).                                     *)
(*                                                                         *)
(* front = rear means empty, so the array of Size slots holds Size - 1     *)
(* bytes.  Indices are uint16_t and Size is at most 2^16 - 1, so the sums  *)
(* of the code, done in int, never wrap.                                   *)
(***************************************************************************)
EXTENDS Integers, Sequences

CONSTANTS
  Size,       \* S_Queue.size: 256 for both queues of the remote
  Item,       \* the values stored; 0, which clears a slot, is one of them
  MaxBulk     \* bound on the length argument of the *Large functions

ASSUME SizeAssumption == Size \in 1..65535
ASSUME ItemAssumption == 0 \in Item
ASSUME BulkAssumption == MaxBulk \in Nat

VARIABLES pArr, front, rear, reply

vars == <<pArr, front, rear, reply>>

Slots == 0 .. Size - 1

\* The arrays a caller can pass to EnQueueLarge.
Block == UNION {[1..n -> Item] : n \in 0..MaxBulk}

Answer(op, ret, n, got) == [op |-> op, ret |-> ret, n |-> n, got |-> got]

\* An index carried past the end of the array goes back to its start.
Wrap(i) == i % Size

QueueLength == Wrap(rear + (Size - front))

IsFull == Wrap(rear + 1) = front

IsEmpty == front = rear

\* The struct is zero-initialised and QueueInit clears the slot at its ends.
QueueInit ==
  /\ pArr = [i \in Slots |-> 0]
  /\ front = 0
  /\ rear = 0
  /\ reply = Answer("QueueInit", 0, 0, <<>>)

\* Mutant of EnQueue: full only when the indices would cross, so the last
\* free slot is used and a full queue looks empty.
EnQueue_NoSpareSlot(data) ==
  \/ /\ QueueLength = Size
     /\ reply' = Answer("EnQueue", 1, 1, <<>>)
     /\ UNCHANGED <<pArr, front, rear>>
  \/ /\ QueueLength < Size
     /\ pArr' = [pArr EXCEPT ![rear] = data]
     /\ rear' = Wrap(rear + 1)
     /\ reply' = Answer("EnQueue", 0, 1, <<>>)
     /\ UNCHANGED front

\* Mutant of EnQueue: rear moves on without going round the array.
EnQueue_NoWrap(data) ==
  \/ /\ IsFull
     /\ reply' = Answer("EnQueue", 1, 1, <<>>)
     /\ UNCHANGED <<pArr, front, rear>>
  \/ /\ ~IsFull
     /\ pArr' = [pArr EXCEPT ![rear] = data]
     /\ rear' = rear + 1
     /\ reply' = Answer("EnQueue", 0, 1, <<>>)
     /\ UNCHANGED front

EnQueue(data) ==
  \/ /\ IsFull
     /\ reply' = Answer("EnQueue", 1, 1, <<>>)
     /\ UNCHANGED <<pArr, front, rear>>
  \/ /\ ~IsFull
     /\ pArr' = [pArr EXCEPT ![rear] = data]
     /\ rear' = Wrap(rear + 1)
     /\ reply' = Answer("EnQueue", 0, 1, <<>>)
     /\ UNCHANGED front

DeQueue ==
  \/ /\ IsEmpty
     /\ reply' = Answer("DeQueue", 1, 1, <<>>)
     /\ UNCHANGED <<pArr, front, rear>>
  \/ /\ ~IsEmpty
     /\ reply' = Answer("DeQueue", 0, 1, <<pArr[front]>>)
     /\ pArr' = [pArr EXCEPT ![front] = 0]
     /\ front' = Wrap(front + 1)
     /\ UNCHANGED rear

\* How far slot i lies behind the index from, going round the array.
Ahead(i, from) == Wrap(i + (Size - from))

\* The loop of EnQueueLarge ignores the result of EnQueue: it stores what fits.
Fits(arr) == IF Len(arr) <= Size - 1 - QueueLength
             THEN Len(arr) ELSE Size - 1 - QueueLength

EnQueueLarge(arr) ==
  \/ /\ Size - QueueLength < Len(arr)
     /\ reply' = Answer("EnQueueLarge", 1, Len(arr), <<>>)
     /\ UNCHANGED <<pArr, front, rear>>
  \/ /\ Size - QueueLength >= Len(arr)
     /\ pArr' = [i \in Slots |-> IF Ahead(i, rear) < Fits(arr)
                                 THEN arr[Ahead(i, rear) + 1] ELSE pArr[i]]
     /\ rear' = Wrap(rear + Fits(arr))
     /\ reply' = Answer("EnQueueLarge", 0, Len(arr), <<>>)
     /\ UNCHANGED front

DeQueueLarge(n) ==
  \/ /\ QueueLength < n
     /\ reply' = Answer("DeQueueLarge", 1, n, <<>>)
     /\ UNCHANGED <<pArr, front, rear>>
  \/ /\ QueueLength >= n
     /\ reply' = Answer("DeQueueLarge", 0, n,
                        [i \in 1..n |-> pArr[Wrap(front + i - 1)]])
     /\ pArr' = [i \in Slots |-> IF Ahead(i, front) < n THEN 0 ELSE pArr[i]]
     /\ front' = Wrap(front + n)
     /\ UNCHANGED rear

Next ==
  \/ \E b \in Item : EnQueue(b)
  \/ DeQueue
  \/ \E arr \in Block : EnQueueLarge(arr)
  \/ \E n \in 0..MaxBulk : DeQueueLarge(n)

Spec == QueueInit /\ [][Next]_vars

-----------------------------------------------------------------------------
\* The bytes held, oldest first: what the array and the indices stand for.
Contents == [i \in 1..QueueLength |-> pArr[Wrap(front + i - 1)]]

Reply == [op : {"QueueInit", "EnQueue", "DeQueue", "EnQueueLarge",
                "DeQueueLarge"},
          ret : {0, 1}, n : Nat, got : Seq(Item)]

\* The shape of the queue structure and of the answers.
TypeOK ==
  /\ pArr \in [Slots -> Item]
  /\ front \in Slots
  /\ rear \in Slots
  /\ reply \in Reply

Fifo == INSTANCE BoundedFifo
        WITH items <- Contents, Capacity <- Size - 1

\* The array and its two indices behave as a bounded FIFO, in every call.
ImplementsFifo == Fifo!Spec

\* queue_lib.c:73,77 says EnQueueLarge answers 0 only after checking that the
\* free space is enough: a successful bulk store has stored every byte of it.
BulkStoreIsComplete ==
  [][reply'.op = "EnQueueLarge" /\ reply'.ret = 0
       => QueueLength' = QueueLength + reply'.n]_vars
=============================================================================

---------------------------- MODULE BoundedFifo ----------------------------
(***************************************************************************)
(* What my_lib/queue_lib.c promises its callers, with no array and no      *)
(* indices: a first-in first-out sequence of at most Capacity bytes, every *)
(* operation answering 0 for success and 1 for failure.                    *)
(*                                                                         *)
(* The promise is the one the code keeps: a bulk store that is one byte    *)
(* too long is accepted and loses its last byte (PutAllButLast).           *)
(***************************************************************************)
EXTENDS Integers, Sequences

CONSTANTS
  Item,       \* the bytes a caller may store
  Capacity,   \* the most bytes held at once
  MaxBulk     \* bound on the length of a bulk call

VARIABLES
  items,      \* the bytes held, oldest first
  reply       \* the last call: its name, result, length argument and output

fifoVars == <<items, reply>>

\* The arrays a caller may store at once.
Block == UNION {[1..n -> Item] : n \in 0..MaxBulk}

Answer(op, ret, n, got) == [op |-> op, ret |-> ret, n |-> n, got |-> got]

Init ==
  /\ items = <<>>
  /\ reply = Answer("QueueInit", 0, 0, <<>>)

Put(b) ==
  /\ Len(items) < Capacity
  /\ items' = Append(items, b)
  /\ reply' = Answer("EnQueue", 0, 1, <<>>)

PutRefused ==
  /\ Len(items) = Capacity
  /\ reply' = Answer("EnQueue", 1, 1, <<>>)
  /\ UNCHANGED items

Get ==
  /\ items # <<>>
  /\ items' = Tail(items)
  /\ reply' = Answer("DeQueue", 0, 1, <<Head(items)>>)

GetRefused ==
  /\ items = <<>>
  /\ reply' = Answer("DeQueue", 1, 1, <<>>)
  /\ UNCHANGED items

PutAll(s) ==
  /\ Len(items) + Len(s) <= Capacity
  /\ items' = items \o s
  /\ reply' = Answer("EnQueueLarge", 0, Len(s), <<>>)

PutAllButLast(s) ==
  /\ Len(items) + Len(s) = Capacity + 1
  /\ items' = items \o SubSeq(s, 1, Len(s) - 1)
  /\ reply' = Answer("EnQueueLarge", 0, Len(s), <<>>)

PutAllRefused(s) ==
  /\ Len(items) + Len(s) > Capacity + 1
  /\ reply' = Answer("EnQueueLarge", 1, Len(s), <<>>)
  /\ UNCHANGED items

GetAll(n) ==
  /\ n <= Len(items)
  /\ items' = SubSeq(items, n + 1, Len(items))
  /\ reply' = Answer("DeQueueLarge", 0, n, SubSeq(items, 1, n))

GetAllRefused(n) ==
  /\ n > Len(items)
  /\ reply' = Answer("DeQueueLarge", 1, n, <<>>)
  /\ UNCHANGED items

Next ==
  \/ \E b \in Item : Put(b)
  \/ PutRefused
  \/ Get
  \/ GetRefused
  \/ \E s \in Block : PutAll(s) \/ PutAllButLast(s) \/ PutAllRefused(s)
  \/ \E n \in 0..MaxBulk : GetAll(n) \/ GetAllRefused(n)

Spec == Init /\ [][Next]_fifoVars
=============================================================================

-------------------------- MODULE ByteQueueProofs --------------------------
(***************************************************************************)
(* Proofs about the circular queue for every size, byte set and bulk       *)
(* length: its shape is kept, and it implements the bounded FIFO.          *)
(***************************************************************************)
EXTENDS ByteQueue, TLAPS

\* What the index arithmetic of queue_lib.c computes: an index stays in the
\* array, and one that passes the end once comes back by the array's size.
LEMMA WrapFacts ==
  /\ Size \in Nat /\ Size >= 1
  /\ \A x \in Nat : Wrap(x) \in Slots
  /\ \A x \in Slots : Wrap(x) = x
  /\ \A x \in Nat : Size <= x /\ x < 2 * Size => Wrap(x) = x - Size
<1>1. Size \in Nat /\ Size >= 1
  BY SizeAssumption
<1>2. \A x \in Nat : x % Size \in 0..Size-1
  BY <1>1
<1>3. \A x \in 0..Size-1 : x % Size = x
  BY <1>1
<1>4. \A x \in Size..2*Size-1 : x % Size = x - Size
  BY <1>1
<1>5. \A x \in Nat : Wrap(x) \in Slots
  BY <1>2 DEF Wrap, Slots
<1>6. \A x \in Slots : Wrap(x) = x
  BY <1>3 DEF Wrap, Slots
<1>7. \A x \in Nat : Size <= x /\ x < 2 * Size => Wrap(x) = x - Size
  BY <1>1, <1>4 DEF Wrap
<1>8. QED
  BY <1>1, <1>5, <1>6, <1>7

\* QueueLength (queue_lib.c:24-28) is at most one less than the size, and
\* Ahead, the same arithmetic, ranges over the slots.
LEMMA LengthBounds ==
  ASSUME front \in Slots, rear \in Slots
  PROVE  /\ QueueLength \in Slots
         /\ QueueLength = IF front <= rear THEN rear - front
                                           ELSE rear + Size - front
  BY WrapFacts DEF QueueLength, Slots

\* Ahead is the distance from one slot to another, going up round the array.
LEMMA AheadValue ==
  ASSUME NEW i \in Slots, NEW j \in Slots
  PROVE  /\ Ahead(i, j) \in Slots
         /\ Ahead(i, j) = IF j <= i THEN i - j ELSE i + Size - j
  BY WrapFacts DEF Ahead, Slots

\* What the loop of EnQueueLarge stores never exceeds the free capacity.
LEMMA FitsBounds ==
  ASSUME front \in Slots, rear \in Slots, NEW arr \in Block
  PROVE  /\ Len(arr) \in Nat
         /\ arr \in [1..Len(arr) -> Item]
         /\ Fits(arr) \in 0..Len(arr)
         /\ QueueLength + Fits(arr) \in Slots
<1>1. PICK n \in 0..MaxBulk : arr \in [1..n -> Item]
  BY DEF Block
<1>2. Len(arr) = n /\ n \in Nat
  BY <1>1, BulkAssumption
<1>3. QueueLength \in 0 .. Size - 1 /\ Size \in Nat
  BY LengthBounds, WrapFacts DEF Slots
<1>4. /\ Fits(arr) \in 0..Len(arr)
      /\ QueueLength + Fits(arr) \in 0 .. Size - 1
  BY <1>2, <1>3 DEF Fits
<1>5. QED
  BY <1>1, <1>2, <1>4 DEF Slots

\* Every answer an operation builds has the shape of an answer.
LEMMA AnswerType ==
  ASSUME NEW op \in {"QueueInit", "EnQueue", "DeQueue", "EnQueueLarge",
                     "DeQueueLarge"},
         NEW ret \in {0, 1}, NEW n \in Nat, NEW got \in Seq(Item)
  PROVE  Answer(op, ret, n, got) \in Reply
  BY DEF Answer, Reply

\* The shape of the structure is kept by every call: front and rear stay
\* inside the array whatever the sequence of calls.
THEOREM TypeCorrect == Spec => []TypeOK
<1>1. QueueInit => TypeOK
  <2>1. <<>> \in Seq(Item) /\ 0 \in Slots /\ 0 \in Nat
    BY WrapFacts DEF Slots
  <2>2. QED
    BY <2>1, ItemAssumption, AnswerType DEF QueueInit, TypeOK
<1>2. TypeOK /\ [Next]_vars => TypeOK'
  <2> SUFFICES ASSUME TypeOK, [Next]_vars
               PROVE  TypeOK'
    OBVIOUS
  <2>0. /\ pArr \in [Slots -> Item] /\ front \in Slots /\ rear \in Slots
        /\ front \in Nat /\ rear \in Nat
        /\ <<>> \in Seq(Item) /\ 1 \in Nat
    BY WrapFacts DEF TypeOK, Slots
  <2>1. ASSUME NEW b \in Item, EnQueue(b)
        PROVE  TypeOK'
    <3>1. front' \in Slots /\ rear' \in Slots /\ pArr' \in [Slots -> Item]
      BY <2>0, <2>1, WrapFacts DEF EnQueue
    <3>2. QED
      BY <2>0, <2>1, <3>1, AnswerType DEF EnQueue, TypeOK
  <2>2. ASSUME DeQueue
        PROVE  TypeOK'
    <3>1. front' \in Slots /\ rear' \in Slots
      BY <2>0, <2>2, WrapFacts DEF DeQueue
    <3>2. pArr' \in [Slots -> Item]
      BY <2>0, <2>2, ItemAssumption DEF DeQueue
    <3>3. <<pArr[front]>> \in Seq(Item)
      BY <2>0
    <3>4. QED
      BY <2>0, <2>2, <3>1, <3>2, <3>3, AnswerType DEF DeQueue, TypeOK
  <2>3. ASSUME NEW arr \in Block, EnQueueLarge(arr)
        PROVE  TypeOK'
    <3>1. ASSUME NEW i \in Slots, Ahead(i, rear) < Fits(arr)
          PROVE  arr[Ahead(i, rear) + 1] \in Item
      <4>1. Ahead(i, rear) \in Nat /\ Fits(arr) \in Nat /\ Fits(arr) <= Len(arr)
        BY <2>0, AheadValue, FitsBounds DEF Slots
      <4>2. Ahead(i, rear) + 1 \in 1..Len(arr)
        BY <3>1, <4>1, FitsBounds, <2>0
      <4>3. QED
        BY <4>2, FitsBounds, <2>0
    <3>2. pArr' \in [Slots -> Item]
      BY <2>0, <2>3, <3>1 DEF EnQueueLarge
    <3>3. rear + Fits(arr) \in Nat
      BY <2>0, FitsBounds
    <3>4. front' \in Slots /\ rear' \in Slots
      BY <2>0, <2>3, <3>3, WrapFacts DEF EnQueueLarge
    <3>5. QED
      BY <2>0, <2>3, <3>2, <3>4, FitsBounds, AnswerType
      DEF EnQueueLarge, TypeOK
  <2>4. ASSUME NEW n \in 0..MaxBulk, DeQueueLarge(n)
        PROVE  TypeOK'
    <3>1. n \in Nat
      BY BulkAssumption
    <3>2. \A i \in 1..n : front + i - 1 \in Nat
      BY <3>1, <2>0
    <3>3. \A i \in 1..n : pArr[Wrap(front + i - 1)] \in Item
      BY <2>0, <3>2, WrapFacts
    <3>4. [i \in 1..n |-> pArr[Wrap(front + i - 1)]] \in Seq(Item)
      BY <3>1, <3>3
    <3>5. front' \in Slots /\ rear' \in Slots
      BY <2>0, <2>4, <3>1, WrapFacts DEF DeQueueLarge
    <3>6. pArr' \in [Slots -> Item]
      BY <2>0, <2>4, ItemAssumption DEF DeQueueLarge
    <3>7. QED
      BY <2>0, <2>4, <3>1, <3>4, <3>5, <3>6, AnswerType
      DEF DeQueueLarge, TypeOK
  <2>5. CASE UNCHANGED vars
    BY <2>5 DEF vars, TypeOK
  <2>6. QED
    BY <2>1, <2>2, <2>3, <2>4, <2>5 DEF Next
<1>3. QED
  BY <1>1, <1>2, PTL DEF Spec

-----------------------------------------------------------------------------
\* The slots that hold the queue, counted from front: the first QueueLength
\* of them precede rear, and slot QueueLength is rear itself.
LEMMA SlotFromFront ==
  ASSUME front \in Slots, rear \in Slots, NEW k \in Slots
  PROVE  /\ Wrap(front + k) \in Slots
         /\ Ahead(Wrap(front + k), front) = k
         /\ Ahead(Wrap(front + k), rear) = IF k < QueueLength
                                           THEN k + Size - QueueLength
                                           ELSE k - QueueLength
         /\ k = QueueLength => Wrap(front + k) = rear
         /\ k < QueueLength => Wrap(front + k) # rear
<1>1. Wrap(front + k) = IF front + k < Size THEN front + k
                                            ELSE front + k - Size
  BY WrapFacts DEF Slots
<1>2. Wrap(front + k) \in Slots
  BY <1>1, WrapFacts DEF Slots
<1>3. /\ front \in Nat /\ rear \in Nat /\ k \in Nat /\ Size \in Nat
      /\ front < Size /\ rear < Size /\ k < Size
  BY WrapFacts DEF Slots
<1>4. Ahead(Wrap(front + k), front) = k
  BY <1>1, <1>2, <1>3, AheadValue
<1>5. /\ k = QueueLength => Wrap(front + k) = rear
      /\ k < QueueLength => Wrap(front + k) # rear
  BY <1>1, <1>3, LengthBounds
<1>6. Ahead(Wrap(front + k), rear) = IF k < QueueLength
                                     THEN k + Size - QueueLength
                                     ELSE k - QueueLength
  BY <1>1, <1>2, <1>3, AheadValue, LengthBounds
<1>7. QED
  BY <1>2, <1>4, <1>5, <1>6

\* Moving front forward by n renumbers the slots by n.
LEMMA WrapAfterMove ==
  ASSUME front \in Slots, NEW n \in Slots, NEW k \in Slots, n + k < Size
  PROVE  Wrap(Wrap(front + n) + k) = Wrap(front + (n + k))
<1>1. Wrap(front + n) = IF front + n < Size THEN front + n
                                            ELSE front + n - Size
  BY WrapFacts DEF Slots
<1>2. QED
  BY <1>1, WrapFacts DEF Slots

\* Contents is the sequence of QueueLength bytes read off the array.
LEMMA ContentsFacts ==
  TypeOK => /\ QueueLength \in Slots
            /\ Contents \in Seq(Item)
            /\ Len(Contents) = QueueLength
            /\ \A i \in 1..QueueLength :
                 Contents[i] = pArr[Wrap(front + (i - 1))]
<1> SUFFICES ASSUME TypeOK
             PROVE  /\ QueueLength \in Slots
                    /\ Contents \in Seq(Item)
                    /\ Len(Contents) = QueueLength
                    /\ \A i \in 1..QueueLength :
                         Contents[i] = pArr[Wrap(front + (i - 1))]
  OBVIOUS
<1>0. QueueLength \in Slots
  BY LengthBounds DEF TypeOK
<1>1. QueueLength \in Nat
  BY LengthBounds, WrapFacts DEF TypeOK, Slots
<1>2. ASSUME NEW i \in 1..QueueLength
      PROVE  /\ i - 1 \in Slots
             /\ Wrap(front + i - 1) = Wrap(front + (i - 1))
             /\ pArr[Wrap(front + (i - 1))] \in Item
  <2>1. i - 1 \in Slots
    BY <1>1, LengthBounds, WrapFacts DEF TypeOK, Slots
  <2>2. front + i - 1 = front + (i - 1)
    BY WrapFacts DEF TypeOK, Slots
  <2>3. QED
    BY <2>1, <2>2, SlotFromFront DEF TypeOK
<1>3. QED
  BY <1>0, <1>1, <1>2 DEF Contents

\* The same of the state after a call.
LEMMA ContentsFactsNext ==
  (TypeOK => /\ QueueLength \in Slots
             /\ Contents \in Seq(Item)
             /\ Len(Contents) = QueueLength
             /\ \A i \in 1..QueueLength :
                  Contents[i] = pArr[Wrap(front + (i - 1))])'
  BY ContentsFacts, PTL

\* Sequences with the same elements at the same places are equal.
LEMMA SameSequence ==
  ASSUME NEW s \in Seq(Item), NEW t \in Seq(Item), Len(s) = Len(t),
         \A i \in 1..Len(s) : s[i] = t[i]
  PROVE  s = t
  OBVIOUS

\* QueueLength after a call, from the indices after it.
LEMMA LengthNext ==
  (TypeOK => QueueLength = IF front <= rear THEN rear - front
                                            ELSE rear + Size - front)'
<1>1. TypeOK => QueueLength = IF front <= rear THEN rear - front
                                               ELSE rear + Size - front
  BY LengthBounds DEF TypeOK
<1>2. QED
  BY <1>1, PTL

\* The indices as numbers.
LEMMA IndexFacts ==
  ASSUME TypeOK
  PROVE  /\ front \in Nat /\ rear \in Nat /\ Size \in Nat /\ Size >= 1
         /\ front < Size /\ rear < Size
         /\ QueueLength \in Nat /\ QueueLength < Size
  BY WrapFacts, LengthBounds DEF TypeOK, Slots

\* EnQueue stores at slot rear, behind everything held.
LEMMA EnQueueStep ==
  ASSUME TypeOK, TypeOK', NEW b \in Item, EnQueue(b)
  PROVE  Fifo!Put(b) \/ Fifo!PutRefused
<1>1. Wrap(rear + 1) = IF rear + 1 < Size THEN rear + 1 ELSE 0
  BY IndexFacts, WrapFacts DEF Slots
<1>2. IsFull <=> QueueLength = Size - 1
  BY <1>1, IndexFacts, LengthBounds DEF IsFull, TypeOK
<1>3. CASE IsFull
  <2>1. Contents' = Contents
    BY <1>3 DEF EnQueue, Contents, QueueLength
  <2>2. QED
    BY <1>2, <1>3, <2>1, ContentsFacts
    DEF EnQueue, Fifo!PutRefused, Answer, Fifo!Answer
<1>4. CASE ~IsFull
  <2>1. /\ pArr' = [pArr EXCEPT ![rear] = b]
        /\ rear' = Wrap(rear + 1) /\ front' = front
        /\ reply' = Answer("EnQueue", 0, 1, <<>>)
    BY <1>4 DEF EnQueue
  <2>2. QueueLength' = QueueLength + 1
    BY <1>1, <1>2, <1>4, <2>1, IndexFacts, LengthNext, LengthBounds DEF TypeOK
  <2>3. ASSUME NEW i \in 1..QueueLength'
        PROVE  Contents'[i] = Append(Contents, b)[i]
    <3>1. i - 1 \in Slots /\ i - 1 <= QueueLength
      BY <1>2, <1>4, <2>2, IndexFacts DEF Slots
    <3>2. CASE i - 1 = QueueLength
      <4>1. pArr'[Wrap(front' + (i - 1))] = b
        BY <2>1, <3>1, <3>2, SlotFromFront DEF TypeOK
      <4>2. i = Len(Contents) + 1
        BY <3>2, IndexFacts, ContentsFacts
      <4>3. QED
        BY <4>1, <4>2, ContentsFacts, ContentsFactsNext
    <3>3. CASE i - 1 # QueueLength
      <4>1. i \in 1..QueueLength /\ i - 1 < QueueLength
        BY <3>1, <3>3, IndexFacts
      <4>2. pArr'[Wrap(front' + (i - 1))] = pArr[Wrap(front + (i - 1))]
        BY <2>1, <3>1, <4>1, SlotFromFront DEF TypeOK
      <4>3. Append(Contents, b)[i] = Contents[i]
        BY <4>1, ContentsFacts
      <4>4. QED
        BY <4>1, <4>2, <4>3, ContentsFacts, ContentsFactsNext
    <3>4. QED
      BY <3>2, <3>3
  <2>4. /\ Append(Contents, b) \in Seq(Item)
        /\ Len(Append(Contents, b)) = QueueLength'
    BY <2>2, ContentsFacts
  <2>5. Contents' = Append(Contents, b)
    BY <2>3, <2>4, ContentsFactsNext, SameSequence
  <2>6. Len(Contents) < Size - 1
    BY <1>2, <1>4, IndexFacts, ContentsFacts
  <2>7. QED
    BY <2>1, <2>5, <2>6 DEF Fifo!Put, Answer, Fifo!Answer
<1>5. QED
  BY <1>3, <1>4

\* DeQueue takes the byte at slot front, the oldest one.
LEMMA DeQueueStep ==
  ASSUME TypeOK, TypeOK', DeQueue
  PROVE  Fifo!Get \/ Fifo!GetRefused
<1>1. IsEmpty <=> QueueLength = 0
  BY IndexFacts, LengthBounds DEF IsEmpty, TypeOK
<1>2. CASE IsEmpty
  <2>1. Contents' = Contents
    BY <1>2 DEF DeQueue, Contents, QueueLength
  <2>2. Contents = <<>>
    BY <1>1, <1>2, ContentsFacts
  <2>3. QED
    BY <1>2, <2>1, <2>2 DEF DeQueue, Fifo!GetRefused, Answer, Fifo!Answer
<1>3. CASE ~IsEmpty
  <2>1. /\ pArr' = [pArr EXCEPT ![front] = 0]
        /\ front' = Wrap(front + 1) /\ rear' = rear
        /\ reply' = Answer("DeQueue", 0, 1, <<pArr[front]>>)
    BY <1>3 DEF DeQueue
  <2>2. QueueLength >= 1 /\ 1 \in Slots /\ 0 \in Slots
    BY <1>1, <1>3, IndexFacts DEF Slots
  <2>3. Wrap(front + 1) = IF front + 1 < Size THEN front + 1 ELSE 0
    BY IndexFacts, WrapFacts DEF Slots
  <2>4. QueueLength' = QueueLength - 1
    BY <2>1, <2>2, <2>3, IndexFacts, LengthNext, LengthBounds DEF TypeOK
  <2>5. Wrap(front + 0) = front
    BY IndexFacts, WrapFacts DEF Slots
  <2>6. Head(Contents) = pArr[front] /\ Contents # <<>>
    BY <2>2, <2>5, IndexFacts, ContentsFacts
  <2>7. ASSUME NEW i \in 1..QueueLength'
        PROVE  Contents'[i] = Tail(Contents)[i]
    <3>1. /\ i - 1 \in Slots /\ i \in Slots /\ 1 + (i - 1) = i
          /\ i + 1 \in 1..QueueLength /\ (i + 1) - 1 = i
          /\ i < QueueLength
      BY <2>4, IndexFacts DEF Slots
    <3>2. Wrap(front' + (i - 1)) = Wrap(front + i)
      BY <2>1, <2>2, <3>1, IndexFacts, WrapAfterMove DEF TypeOK
    <3>3. Wrap(front + i) # front /\ Wrap(front + i) \in Slots
      <4>1. Ahead(Wrap(front + i), front) = i /\ Ahead(front, front) = 0
        BY <2>2, <2>5, <3>1, SlotFromFront DEF TypeOK
      <4>2. QED
        BY <3>1, <4>1, SlotFromFront DEF TypeOK
    <3>4. Contents'[i] = pArr[Wrap(front + i)]
      BY <2>1, <3>2, <3>3, ContentsFactsNext DEF TypeOK
    <3>5. Contents[i + 1] = pArr[Wrap(front + i)]
      BY <3>1, ContentsFacts
    <3>6. Tail(Contents)[i] = Contents[i + 1]
      BY <2>4, <2>6, IndexFacts, ContentsFacts
    <3>7. QED
      BY <3>4, <3>5, <3>6
  <2>8. Tail(Contents) \in Seq(Item) /\ Len(Tail(Contents)) = QueueLength'
    BY <2>4, <2>6, ContentsFacts
  <2>9. Contents' = Tail(Contents)
    BY <2>7, <2>8, ContentsFactsNext, SameSequence
  <2>10. QED
    BY <2>1, <2>6, <2>9 DEF Fifo!Get, Answer, Fifo!Answer
<1>4. QED
  BY <1>2, <1>3

\* EnQueueLarge appends the part of the array that fits.
LEMMA EnQueueLargeStep ==
  ASSUME TypeOK, TypeOK', NEW arr \in Block, EnQueueLarge(arr)
  PROVE  Fifo!PutAll(arr) \/ Fifo!PutAllButLast(arr) \/ Fifo!PutAllRefused(arr)
<1>1. /\ Len(arr) \in Nat /\ arr \in Seq(Item)
      /\ Fits(arr) \in 0..Len(arr) /\ QueueLength + Fits(arr) < Size
  <2>1. /\ Len(arr) \in Nat /\ arr \in [1..Len(arr) -> Item]
        /\ Fits(arr) \in 0..Len(arr) /\ QueueLength + Fits(arr) \in Slots
    BY FitsBounds DEF TypeOK
  <2>2. QED
    BY <2>1, IndexFacts DEF Slots
<1>2. CASE Size - QueueLength < Len(arr)
  <2>1. /\ Contents' = Contents
        /\ reply' = Answer("EnQueueLarge", 1, Len(arr), <<>>)
    BY <1>1, <1>2, IndexFacts DEF EnQueueLarge, Contents, QueueLength
  <2>2. Len(Contents) + Len(arr) > (Size - 1) + 1
    BY <1>1, <1>2, IndexFacts, ContentsFacts
  <2>3. QED
    BY <2>1, <2>2 DEF Fifo!PutAllRefused, Answer, Fifo!Answer
<1>3. CASE Size - QueueLength >= Len(arr)
  <2> DEFINE k == Fits(arr)
             part == SubSeq(arr, 1, k)
  <2>1. /\ pArr' = [i \in Slots |-> IF Ahead(i, rear) < k
                                    THEN arr[Ahead(i, rear) + 1] ELSE pArr[i]]
        /\ rear' = Wrap(rear + k) /\ front' = front
        /\ reply' = Answer("EnQueueLarge", 0, Len(arr), <<>>)
    BY <1>1, <1>3, IndexFacts DEF EnQueueLarge
  <2>2. k \in Nat /\ k < Size /\ k <= Len(arr) /\ QueueLength + k < Size
    BY <1>1, IndexFacts
  <2>3. /\ part \in Seq(Item) /\ Len(part) = k
        /\ \A i \in 1..k : part[i] = arr[i]
    BY <1>1, <2>2
  <2> HIDE DEF k, part
  <2>4. Wrap(rear + k) = IF rear + k < Size THEN rear + k ELSE rear + k - Size
    BY <2>2, IndexFacts, WrapFacts DEF Slots
  <2>5. QueueLength' = QueueLength + k
    BY <2>1, <2>2, <2>4, IndexFacts, LengthNext, LengthBounds DEF TypeOK
  <2>6. /\ Contents \o part \in Seq(Item)
        /\ Len(Contents \o part) = QueueLength'
    BY <2>2, <2>3, <2>5, IndexFacts, ContentsFacts
  <2>7. ASSUME NEW i \in 1..QueueLength'
        PROVE  Contents'[i] = (Contents \o part)[i]
    <3>1. i - 1 \in Slots /\ i - 1 < QueueLength + k
      BY <2>2, <2>5, IndexFacts DEF Slots
    <3>2. /\ Wrap(front + (i - 1)) \in Slots
          /\ Ahead(Wrap(front + (i - 1)), rear) =
               IF i - 1 < QueueLength THEN (i - 1) + Size - QueueLength
                                      ELSE (i - 1) - QueueLength
      BY <3>1, SlotFromFront DEF TypeOK
    <3>3. CASE i - 1 < QueueLength
      <4>1. i \in 1..QueueLength
        BY <3>3, IndexFacts
      <4>2. ~(Ahead(Wrap(front + (i - 1)), rear) < k)
        BY <2>2, <3>2, <3>3, <4>1, IndexFacts
      <4>3. pArr'[Wrap(front + (i - 1))] = pArr[Wrap(front + (i - 1))]
        BY <2>1, <3>2, <4>2
      <4>4. (Contents \o part)[i] = Contents[i]
        BY <2>3, <4>1, ContentsFacts
      <4>5. QED
        BY <2>1, <4>1, <4>3, <4>4, ContentsFacts, ContentsFactsNext
    <3>4. CASE ~(i - 1 < QueueLength)
      <4>1. /\ Ahead(Wrap(front + (i - 1)), rear) = (i - 1) - QueueLength
            /\ (i - 1) - QueueLength < k
            /\ i - QueueLength \in 1..k
            /\ ((i - 1) - QueueLength) + 1 = i - QueueLength
        BY <2>2, <3>1, <3>2, <3>4, IndexFacts
      <4>2. pArr'[Wrap(front + (i - 1))] = arr[i - QueueLength]
        BY <2>1, <3>2, <4>1
      <4>3. (Contents \o part)[i] = part[i - QueueLength]
        BY <2>3, <2>5, <2>6, <3>4, <4>1, IndexFacts, ContentsFacts
      <4>4. QED
        BY <2>1, <2>3, <4>1, <4>2, <4>3, ContentsFactsNext
    <3>5. QED
      BY <3>3, <3>4
  <2>8. Contents' = Contents \o part
    BY <2>6, <2>7, ContentsFactsNext, SameSequence
  <2>9. CASE Len(Contents) + Len(arr) <= Size - 1
    <3>1. k = Len(arr)
      BY <1>1, <2>9, IndexFacts, ContentsFacts DEF k, Fits
    <3>2. part = arr
      BY <1>1, <2>3, <3>1, SameSequence
    <3>3. QED
      BY <2>1, <2>8, <2>9, <3>2 DEF Fifo!PutAll, Answer, Fifo!Answer
  <2>10. CASE ~(Len(Contents) + Len(arr) <= Size - 1)
    <3>1. /\ Len(Contents) + Len(arr) = (Size - 1) + 1
          /\ k = Len(arr) - 1
      BY <1>1, <1>3, <2>10, IndexFacts, ContentsFacts DEF k, Fits
    <3>2. part = SubSeq(arr, 1, Len(arr) - 1)
      BY <3>1 DEF part
    <3>3. QED
      BY <2>1, <2>8, <3>1, <3>2 DEF Fifo!PutAllButLast, Answer, Fifo!Answer
  <2>11. QED
    BY <2>9, <2>10
<1>4. QED
  BY <1>1, <1>2, <1>3, IndexFacts

\* DeQueueLarge takes the n oldest bytes.
LEMMA DeQueueLargeStep ==
  ASSUME TypeOK, TypeOK', NEW n \in 0..MaxBulk, DeQueueLarge(n)
  PROVE  Fifo!GetAll(n) \/ Fifo!GetAllRefused(n)
<1>1. n \in Nat
  BY BulkAssumption
<1>2. CASE QueueLength < n
  <2>1. /\ Contents' = Contents
        /\ reply' = Answer("DeQueueLarge", 1, n, <<>>)
    BY <1>1, <1>2, IndexFacts DEF DeQueueLarge, Contents, QueueLength
  <2>2. n > Len(Contents)
    BY <1>1, <1>2, IndexFacts, ContentsFacts
  <2>3. QED
    BY <2>1, <2>2 DEF Fifo!GetAllRefused, Answer, Fifo!Answer
<1>3. CASE QueueLength >= n
  <2> DEFINE out  == [i \in 1..n |-> pArr[Wrap(front + i - 1)]]
             rest == SubSeq(Contents, n + 1, Len(Contents))
  <2>1. /\ pArr' = [i \in Slots |-> IF Ahead(i, front) < n THEN 0 ELSE pArr[i]]
        /\ front' = Wrap(front + n) /\ rear' = rear
        /\ reply' = Answer("DeQueueLarge", 0, n, out)
    BY <1>1, <1>3, IndexFacts DEF DeQueueLarge
  <2>2. n < Size /\ n \in Slots /\ n <= QueueLength
    BY <1>1, <1>3, IndexFacts DEF Slots
  <2>3. out = SubSeq(Contents, 1, n)
    <3>1. /\ SubSeq(Contents, 1, n) \in Seq(Item)
          /\ Len(SubSeq(Contents, 1, n)) = n
          /\ \A i \in 1..n : SubSeq(Contents, 1, n)[i] = Contents[i]
      BY <1>1, <2>2, IndexFacts, ContentsFacts
    <3>2. ASSUME NEW i \in 1..n
          PROVE  /\ i \in 1..QueueLength
                 /\ pArr[Wrap(front + i - 1)] = Contents[i]
                 /\ Contents[i] \in Item
      <4>1. i \in 1..QueueLength /\ front + i - 1 = front + (i - 1)
        BY <1>1, <2>2, IndexFacts
      <4>2. QED
        BY <4>1, ContentsFacts
    <3>3. out \in Seq(Item) /\ Len(out) = n
      BY <1>1, <3>2
    <3>4. QED
      BY <3>1, <3>2, <3>3, SameSequence
  <2>4. /\ rest \in Seq(Item)
        /\ Len(rest) = QueueLength - n
        /\ \A i \in 1..(QueueLength - n) : rest[i] = Contents[n + i]
    BY <1>1, <2>2, IndexFacts, ContentsFacts
  <2> HIDE DEF out, rest
  <2>5. Wrap(front + n) = IF front + n < Size THEN front + n
                                              ELSE front + n - Size
    BY <1>1, <2>2, IndexFacts, WrapFacts DEF Slots
  <2>6. QueueLength' = QueueLength - n
    BY <1>1, <2>1, <2>2, <2>5, IndexFacts, LengthNext, LengthBounds DEF TypeOK
  <2>7. ASSUME NEW i \in 1..QueueLength'
        PROVE  Contents'[i] = rest[i]
    <3>1. /\ i - 1 \in Slots /\ n + (i - 1) \in Slots /\ n + (i - 1) < Size
          /\ n + i \in 1..QueueLength /\ (n + i) - 1 = n + (i - 1)
          /\ n + (i - 1) < QueueLength /\ ~(n + (i - 1) < n)
      BY <1>1, <2>2, <2>6, IndexFacts DEF Slots
    <3>2. Wrap(front' + (i - 1)) = Wrap(front + (n + (i - 1)))
      BY <2>1, <2>2, <3>1, IndexFacts, WrapAfterMove DEF TypeOK
    <3>3. /\ Wrap(front + (n + (i - 1))) \in Slots
          /\ Ahead(Wrap(front + (n + (i - 1))), front) = n + (i - 1)
      BY <3>1, SlotFromFront DEF TypeOK
    <3>4. Contents'[i] = pArr[Wrap(front + (n + (i - 1)))]
      BY <2>1, <3>1, <3>2, <3>3, ContentsFactsNext
    <3>5. Contents[n + i] = pArr[Wrap(front + (n + (i - 1)))]
      BY <3>1, ContentsFacts
    <3>6. QED
      BY <2>4, <2>6, <3>4, <3>5
  <2>8. Contents' = rest
    BY <2>4, <2>6, <2>7, ContentsFactsNext, SameSequence
  <2>9. QED
    BY <1>1, <2>1, <2>2, <2>3, <2>8, IndexFacts, ContentsFacts
    DEF Fifo!GetAll, Answer, Fifo!Answer, rest
<1>4. QED
  BY <1>1, <1>2, <1>3, IndexFacts

\* The circular array behaves as a bounded FIFO of Size - 1 bytes in every
\* sequence of calls: the empty structure is the empty sequence, and every
\* function does to Contents what the FIFO does to its items.
THEOREM QueueImplementsFifo == Spec => ImplementsFifo
<1>1. QueueInit => Fifo!Init
  <2> SUFFICES ASSUME QueueInit
               PROVE  Fifo!Init
    OBVIOUS
  <2>1. front \in Slots /\ rear \in Slots /\ front = 0 /\ rear = 0
    BY WrapFacts DEF QueueInit, Slots
  <2>2. QueueLength = 0
    BY <2>1, LengthBounds
  <2>3. Contents = <<>>
    BY <2>2 DEF Contents
  <2>4. QED
    BY <2>3 DEF QueueInit, Fifo!Init, Answer, Fifo!Answer
<1>2. TypeOK /\ TypeOK' /\ [Next]_vars => [Fifo!Next]_Fifo!fifoVars
  <2> SUFFICES ASSUME TypeOK, TypeOK', [Next]_vars
               PROVE  [Fifo!Next]_Fifo!fifoVars
    OBVIOUS
  <2>1. ASSUME NEW b \in Item, EnQueue(b)
        PROVE  Fifo!Next
    BY <2>1, EnQueueStep DEF Fifo!Next
  <2>2. ASSUME DeQueue
        PROVE  Fifo!Next
    BY <2>2, DeQueueStep DEF Fifo!Next
  <2>3. ASSUME NEW arr \in Block, EnQueueLarge(arr)
        PROVE  Fifo!Next
    BY <2>3, EnQueueLargeStep DEF Fifo!Next, Fifo!Block, Block
  <2>4. ASSUME NEW n \in 0..MaxBulk, DeQueueLarge(n)
        PROVE  Fifo!Next
    BY <2>4, DeQueueLargeStep DEF Fifo!Next
  <2>5. CASE UNCHANGED vars
    BY <2>5 DEF vars, Fifo!fifoVars, Contents, QueueLength
  <2>6. QED
    BY <2>1, <2>2, <2>3, <2>4, <2>5 DEF Next
<1>3. QED
  BY <1>1, <1>2, TypeCorrect, PTL DEF Spec, ImplementsFifo, Fifo!Spec
=============================================================================

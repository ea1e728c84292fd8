------------------------- MODULE TransmitPathProofs -------------------------
(***************************************************************************)
(* Proofs about the transmit path for any set of producers, any priorities, *)
(* frame lengths, queue and packet sizes.  Without any assumption on the    *)
(* timers: one thread at a time uses the queue, the stream is one of whole  *)
(* frames, and the signal status is exact.  If what is stored between two   *)
(* drains fits a packet (Capacity): the mutex is always given back, and     *)
(* packets hold whole frames.                                               *)
(***************************************************************************)
EXTENDS TransmitPath, RtMutexProofs, SequenceTheorems, FiniteSetTheorems

LEMMA Threads ==
  /\ Master \in Thread /\ Producer \subseteq Thread
  /\ \A p \in Producer : p # Master
  /\ \A t \in Thread : t = Master \/ t \in Producer
BY ThreadsAssumption

\* Of the mutex, a thread of this module calls take, release and mdelay, and
\* only when it runs; so every step is a step of the kernel or none.
LEMMA KernelStep ==
  [Next]_vars => [KernelNext]_kernelVars
<1> SUFFICES ASSUME [Next]_vars PROVE [KernelNext]_kernelVars
  OBVIOUS
<1>1. CASE UNCHANGED vars
  BY <1>1 DEF vars
<1>2. ASSUME NEW p \in Producer, ProducerStep(p) PROVE [KernelNext]_kernelVars
  <2>1. CASE StoreTake(p)
    BY <2>1, Threads DEF StoreTake, KernelNext, ThreadStep
  <2>2. CASE StoreRelease(p)
    BY <2>2, Threads DEF StoreRelease, KernelNext, ThreadStep
  <2>3. CASE Rest(p)
    BY <2>3, Threads DEF Rest, KernelNext, ThreadStep
  <2>4. CASE StoreByte(p) \/ NothingToStore(p)
    BY <2>4 DEF StoreByte, NothingToStore
  <2> QED
    BY <1>2, <2>1, <2>2, <2>3, <2>4 DEF ProducerStep
<1>3. CASE MasterStep
  <2>1. CASE TransmitTake
    BY <2>1, Threads DEF TransmitTake, KernelNext, ThreadStep
  <2>2. CASE DrainEnd
    BY <2>2, Threads DEF DrainEnd, KernelNext, ThreadStep
  <2>3. CASE Rest(Master)
    BY <2>3, Threads DEF Rest, KernelNext, ThreadStep
  <2>4. CASE TxPoll
    BY <2>4, Threads DEF TxPoll, KernelNext, ThreadStep
  <2>5. CASE TransmitNotPaired \/ DrainByte \/ TxStart \/ TxDone
    BY <2>5 DEF TransmitNotPaired, DrainByte, TxStart, TxDone
  <2> QED
    BY <1>3, <2>1, <2>2, <2>3, <2>4, <2>5 DEF MasterStep
<1>4. ASSUME NEW t \in Thread, Wakes(t) PROVE [KernelNext]_kernelVars
  BY <1>4 DEF Wakes, KernelNext, TimerStep
<1>5. CASE RadioEnds \/ PairDone
  BY <1>5 DEF RadioEnds, PairDone
<1> QED
  BY <1>1, <1>2, <1>3, <1>4, <1>5 DEF Next

\* So the threads of the remote use the mutex as its own specification says.
THEOREM UsesKernel == Spec => KernelSpec
<1>1. Init => rt_mutex_init
  BY DEF Init
<1> QED
  BY <1>1, KernelStep, PTL DEF Spec, KernelSpec

\* What a take changes: the caller owns the mutex, or it waits.
LEMMA TakeEffect ==
  ASSUME KernelInv, NEW t \in Thread, Ready(t), TakeForever(t)
  PROVE  \/ owner \in {t, NoThread} /\ owner' = t /\ Waiting' = Waiting
         \/ owner # t /\ owner' = owner /\ Waiting' = Waiting \cup {t}
<1>1. CASE TakeAgain(t) \/ TakeFull(t)
  BY <1>1 DEF TakeAgain, TakeFull, Waiting, mutexVars
<1>2. CASE TakeFree(t)
  BY <1>2 DEF TakeFree, Waiting, KernelInv, OwnershipConsistent, KernelTypeOK
<1>3. CASE TakeWait(t, FALSE)
  <2>1. PICK n \in 1 .. Len(suspend_thread) + 1 :
             suspend_thread' = InsertAt(suspend_thread, n, t)
    BY <1>3 DEF TakeWait
  <2>2. Waiting' = Waiting \cup {t}
    BY <2>1, InsertWaiter DEF KernelInv
  <2> QED
    BY <1>3, <2>2 DEF TakeWait
<1> QED
  BY <1>1, <1>2, <1>3 DEF TakeForever

\* What a release by the owner changes: nothing, or the mutex goes to nobody,
\* or to a thread that waited for it.
LEMMA ReleaseEffect ==
  ASSUME KernelInv, NEW t \in Thread, owner = t, Release(t)
  PROVE  \/ owner' \in {t, NoThread} /\ Waiting' = Waiting
         \/ owner' \in Waiting /\ Waiting' = Waiting \ {owner'}
<1>1. CASE ReleaseNested(t)
  BY <1>1 DEF ReleaseNested, Waiting
<1>2. CASE ReleaseFree(t)
  BY <1>2 DEF ReleaseFree, Waiting
<1>3. CASE ReleaseHandOver(t)
  <2>1. /\ suspend_thread # <<>> /\ owner' = suspend_thread[1]
        /\ suspend_thread' = RemoveAt(suspend_thread, 1)
    BY <1>3 DEF ReleaseHandOver
  <2>2. 1 \in DOMAIN suspend_thread /\ owner' \in Waiting
    BY <2>1, FirstIsBest DEF KernelInv
  <2>3. Waiting' = Waiting \ {owner'}
    BY <2>1, <2>2, RemoveWaiter DEF KernelInv
  <2> QED
    BY <2>2, <2>3
<1> QED
  BY <1>1, <1>2, <1>3 DEF Release, ReleaseNotOwner

\* Whoever waits does so inside StoreToTransmitQueue or TransmitHandle, so the
\* thread a release hands the mutex to is one that is about to use the queue.
LockInv ==
  /\ pc \in [Thread -> Place]
  /\ \A t \in Waiting : pc[t] \in {"store", "drain"}
  /\ QueueExclusive

\* Steps that leave the mutex alone and enter no critical section.
LEMMA OutsideStep ==
  ASSUME LockInv, UNCHANGED <<owner, suspend_thread>>,
         \/ pc' = pc
         \/ \E t \in Thread \ Waiting, l \in Place \ {"store", "drain"} :
              pc' = [pc EXCEPT ![t] = l]
  PROVE  LockInv'
<1>1. Waiting' = Waiting
  BY DEF Waiting
<1>2. CASE pc' = pc
  BY <1>1, <1>2 DEF LockInv, QueueExclusive, InQueue
<1>3. ASSUME NEW t \in Thread \ Waiting, NEW l \in Place \ {"store", "drain"},
             pc' = [pc EXCEPT ![t] = l]
      PROVE  LockInv'
  <2>1. pc' \in [Thread -> Place]
    BY <1>3 DEF LockInv
  <2>2. \A u \in Thread : u # t => pc'[u] = pc[u]
    BY <1>3 DEF LockInv
  <2>3. pc'[t] = l
    BY <1>3 DEF LockInv
  <2>4. \A u \in Waiting' : pc'[u] \in {"store", "drain"}
    <3>1. \A u \in Waiting : u # t /\ pc'[u] = pc[u]
      BY <1>3 DEF LockInv
    <3> QED
      BY <1>1, <3>1 DEF LockInv
  <2>5. QueueExclusive'
    BY <1>1, <2>2, <2>3 DEF LockInv, QueueExclusive, InQueue
  <2> QED
    BY <2>1, <2>4, <2>5 DEF LockInv
<1> QED
  BY <1>2, <1>3

LEMMA EnterStep ==
  ASSUME KernelInv, LockInv, NEW t \in Thread, Ready(t), TakeForever(t),
         NEW l \in {"store", "drain"}, pc' = [pc EXCEPT ![t] = l]
  PROVE  LockInv'
<1>1. \/ owner \in {t, NoThread} /\ owner' = t /\ Waiting' = Waiting
      \/ owner # t /\ owner' = owner /\ Waiting' = Waiting \cup {t}
  BY TakeEffect
<1>2. /\ pc' \in [Thread -> Place] /\ pc'[t] = l
      /\ \A u \in Thread : u # t => pc'[u] = pc[u]
  BY DEF LockInv, Place
<1>3. Waiting \subseteq Thread
  BY DEF KernelInv, KernelTypeOK, Waiting
<1>4. \A u \in Waiting' : pc'[u] \in {"store", "drain"}
  BY <1>1, <1>2, <1>3 DEF LockInv
<1>5. QueueExclusive'
  <2> SUFFICES ASSUME NEW u \in Thread, InQueue(u)' PROVE owner' = u
    BY DEF QueueExclusive
  <2>1. CASE u = t
    BY <1>1, <2>1 DEF InQueue
  <2>2. CASE u # t
    <3>1. InQueue(u)
      BY <1>1, <1>2, <2>2 DEF InQueue
    <3>2. owner = u
      BY <3>1 DEF LockInv, QueueExclusive
    <3> QED
      BY <1>1, <2>2, <3>2, ThreadAssumption
  <2> QED
    BY <2>1, <2>2
<1> QED
  BY <1>2, <1>4, <1>5 DEF LockInv

LEMMA LeaveStep ==
  ASSUME KernelInv, LockInv, NEW t \in Thread, Ready(t), Release(t),
         pc[t] \in {"store", "drain"},
         NEW l \in Place \ {"store", "drain"}, pc' = [pc EXCEPT ![t] = l]
  PROVE  LockInv'
<1>1. owner = t
  BY DEF LockInv, QueueExclusive, InQueue, Ready
<1>2. \/ owner' \in {t, NoThread} /\ Waiting' = Waiting
      \/ owner' \in Waiting /\ Waiting' = Waiting \ {owner'}
  BY <1>1, ReleaseEffect
<1>3. /\ pc' \in [Thread -> Place] /\ pc'[t] = l
      /\ \A u \in Thread : u # t => pc'[u] = pc[u]
  BY DEF LockInv
<1>4. Waiting \subseteq Thread /\ t \notin Waiting
  BY DEF KernelInv, KernelTypeOK, Waiting, Ready
<1>5. \A u \in Waiting' : pc'[u] \in {"store", "drain"}
  BY <1>2, <1>3, <1>4 DEF LockInv
<1>6. QueueExclusive'
  <2> SUFFICES ASSUME NEW u \in Thread, InQueue(u)' PROVE owner' = u
    BY DEF QueueExclusive
  <2>1. u # t
    BY <1>3 DEF InQueue
  <2>2. u \notin Waiting => owner = u
    BY <1>3, <2>1 DEF LockInv, QueueExclusive, InQueue
  <2>3. u \in Waiting /\ u \notin Waiting'
    BY <1>1, <2>1, <2>2 DEF InQueue
  <2> QED
    BY <1>2, <2>3
<1> QED
  BY <1>3, <1>5, <1>6 DEF LockInv

LEMMA LockStep ==
  ASSUME KernelInv, LockInv, [Next]_vars
  PROVE  LockInv'
<1>1. CASE UNCHANGED vars
  BY <1>1, OutsideStep DEF vars, kernelVars, mutexVars
<1>2. ASSUME NEW p \in Producer, ProducerStep(p) PROVE LockInv'
  <2>1. p \in Thread
    BY Threads
  <2>2. Ready(p)
    BY <1>2 DEF ProducerStep, StoreTake, StoreByte, StoreRelease, NothingToStore,
                Rest, Runs
  <2>3. p \notin Waiting
    BY <2>2 DEF Ready
  <2>4. CASE StoreTake(p)
    BY <2>1, <2>2, <2>4, EnterStep DEF StoreTake, Goto
  <2>5. CASE StoreRelease(p)
    <3>1. Release(p) /\ pc[p] \in {"store", "drain"} /\ pc' = [pc EXCEPT ![p] = "rest"]
      BY <2>5 DEF StoreRelease, Goto
    <3>2. "rest" \in Place \ {"store", "drain"}
      BY DEF Place
    <3> QED
      BY <2>1, <2>2, <3>1, <3>2, LeaveStep
  <2>6. CASE StoreByte(p) \/ NothingToStore(p) \/ Rest(p)
    <3>1. UNCHANGED <<owner, suspend_thread>>
      BY <2>6 DEF StoreByte, NothingToStore, Rest, Sleep, kernelVars, mutexVars
    <3>2. \/ pc' = pc \/ pc' = [pc EXCEPT ![p] = "rest"]
          \/ pc' = [pc EXCEPT ![p] = "round"]
      BY <2>6 DEF StoreByte, NothingToStore, Rest, Goto
    <3>3. "rest" \in Place \ {"store", "drain"} /\ "round" \in Place \ {"store", "drain"}
      BY DEF Place
    <3> QED
      BY <2>1, <2>3, <3>1, <3>2, <3>3, OutsideStep
  <2> QED
    BY <1>2, <2>4, <2>5, <2>6 DEF ProducerStep
<1>3. CASE MasterStep
  <2>1. Master \in Thread
    BY Threads
  <2>2. Ready(Master)
    BY <1>3 DEF MasterStep, TransmitNotPaired, TransmitTake, DrainByte, DrainEnd,
                TxStart, TxPoll, TxDone, Rest, Runs
  <2>3. Master \notin Waiting
    BY <2>2 DEF Ready
  <2>4. CASE TransmitTake
    BY <2>1, <2>2, <2>4, EnterStep DEF TransmitTake, Goto
  <2>5. CASE DrainEnd
    <3>1. /\ Release(Master) /\ pc[Master] \in {"store", "drain"}
          /\ pc' = [pc EXCEPT ![Master] = "send"]
      BY <2>5 DEF DrainEnd, Goto
    <3>2. "send" \in Place \ {"store", "drain"}
      BY DEF Place
    <3> QED
      BY <2>1, <2>2, <3>1, <3>2, LeaveStep
  <2>6. CASE \/ TransmitNotPaired \/ DrainByte \/ TxStart \/ TxPoll \/ TxDone
             \/ Rest(Master)
    <3>1. UNCHANGED <<owner, suspend_thread>>
      BY <2>6 DEF TransmitNotPaired, DrainByte, TxStart, TxPoll, TxDone, Rest,
                  Sleep, kernelVars, mutexVars
    <3>2. \/ pc' = pc
          \/ \E l \in {"rest", "irq", "round"} : pc' = [pc EXCEPT ![Master] = l]
      BY <2>6 DEF TransmitNotPaired, DrainByte, TxStart, TxPoll, TxDone, Rest, Goto
    <3>3. {"rest", "irq", "round"} \subseteq Place \ {"store", "drain"}
      BY DEF Place
    <3> QED
      BY <2>1, <2>3, <3>1, <3>2, <3>3, OutsideStep
  <2> QED
    BY <1>3, <2>4, <2>5, <2>6 DEF MasterStep
<1>4. ASSUME NEW t \in Thread, Wakes(t) PROVE LockInv'
  <2>1. UNCHANGED <<owner, suspend_thread, pc>>
    BY <1>4 DEF Wakes, Wake, mutexVars
  <2> QED
    BY <2>1, OutsideStep
<1>5. CASE RadioEnds \/ PairDone
  <2>1. UNCHANGED <<owner, suspend_thread, pc>>
    BY <1>5 DEF RadioEnds, PairDone, kernelVars, mutexVars
  <2> QED
    BY <2>1, OutsideStep
<1> QED
  BY <1>1, <1>2, <1>3, <1>4, <1>5 DEF Next

LEMMA KernelInvHere == Spec => []KernelInv
<1>1. Init => KernelInv
  BY KernelInitInv DEF Init
<1>2. KernelInv /\ [Next]_vars => KernelInv'
  BY KernelStep, KernelNextInv
<1> QED
  BY <1>1, <1>2, PTL DEF Spec

LEMMA LockInvariance == Spec => []LockInv
<1>1. Init => LockInv
  <2> SUFFICES ASSUME Init PROVE LockInv
    OBVIOUS
  <2>1. pc = [t \in Thread |-> "round"] /\ Waiting = {}
    BY DEF Init, rt_mutex_init, Waiting
  <2> QED
    BY <2>1 DEF LockInv, QueueExclusive, InQueue, Place
<1>2. KernelInv /\ LockInv /\ [Next]_vars => LockInv'
  BY LockStep
<1> QED
  BY <1>1, <1>2, KernelInvHere, PTL DEF Spec

\* At most one thread is between its take and its release of transmit_mutex,
\* also after a full queue made one of them keep it.
THEOREM QueueIsExclusive == Spec => []QueueExclusive
<1>1. LockInv => QueueExclusive
  BY DEF LockInv
<1> QED
  BY <1>1, LockInvariance, PTL

-----------------------------------------------------------------------------
\* Sequences: appending to the last part, moving the head of one part to the
\* end of the part before it.
LEMMA AppendLast ==
  ASSUME NEW S, NEW x \in Seq(S), NEW y \in Seq(S), NEW e \in S
  PROVE  x \o Append(y, e) = Append(x \o y, e)
<1> DEFINE l == x \o Append(y, e)
           r == Append(x \o y, e)
<1>1. l \in Seq(S) /\ r \in Seq(S)
  OBVIOUS
<1>2. Len(l) = Len(r)
  OBVIOUS
<1>3. \A i \in 1..Len(l) : l[i] = r[i]
  OBVIOUS
<1> HIDE DEF l, r
<1>4. l = r
  BY <1>1, <1>2, <1>3, SeqEqual
<1> QED
  BY <1>4 DEF l, r

LEMMA MoveHead ==
  ASSUME NEW S, NEW x \in Seq(S), NEW y \in Seq(S), y # <<>>
  PROVE  Append(x, Head(y)) \o Tail(y) = x \o y
<1> DEFINE l == Append(x, Head(y)) \o Tail(y)
           r == x \o y
<1>1. /\ Head(y) \in S /\ Tail(y) \in Seq(S) /\ Len(Tail(y)) = Len(y) - 1
      /\ \A i \in 1 .. Len(y) - 1 : Tail(y)[i] = y[i + 1]
      /\ Head(y) = y[1] /\ Len(y) \in Nat /\ Len(y) > 0
  OBVIOUS
<1>2. l \in Seq(S) /\ r \in Seq(S) /\ Len(l) = Len(r)
  BY <1>1
<1>3. \A i \in 1..Len(l) : l[i] = r[i]
  BY <1>1
<1> HIDE DEF l, r
<1>4. l = r
  BY <1>2, <1>3, SeqEqual
<1> QED
  BY <1>4 DEF l, r

-----------------------------------------------------------------------------
\* The stream ends with the last byte of a frame, or inside p's frame.
Whole == Stream = <<>> \/ LET b == Stream[Len(Stream)] IN b[2] = FrameLen[b[1]]
EndsIn(p) == Stream # <<>> /\ Stream[Len(Stream)] = <<p, stored[p]>>

StreamTypes ==
  /\ items \in Seq(Byte) /\ sendBuff \in Seq(Byte) /\ last \in Byte \cup {<<>>}
  /\ stored \in [Producer -> Nat]
  /\ \A p \in Producer : stored[p] <= FrameLen[p]

\* A stream that ends inside a frame belongs to the owner of the mutex, who
\* either goes on with that frame or has met a full queue; then it never lets
\* go of the mutex, and the queue stays full.
StreamInv ==
  /\ StreamTypes
  /\ pc[Master] # "store" /\ \A p \in Producer : pc[p] # "drain"
  /\ \A p \in Producer : p \in Waiting => stored[p] = 0
  /\ \A p \in Producer :
       InQueue(p) => IF stored[p] = 0 THEN Whole \/ Len(items) >= QCap ELSE EndsIn(p)
  /\ Whole \/ \E p \in Producer :
       owner = p /\ (Len(items) >= QCap \/ (pc[p] = "store" /\ stored[p] > 0))
  /\ StreamWellFormed

LEMMA StreamIsSeq ==
  StreamTypes => Stream \in Seq(Byte)
<1> SUFFICES ASSUME StreamTypes PROVE Stream \in Seq(Byte)
  OBVIOUS
<1> DEFINE pre == IF last = <<>> THEN <<>> ELSE <<last>>
<1>1. pre \in Seq(Byte)
  BY DEF StreamTypes
<1>2. items \in Seq(Byte) /\ sendBuff \in Seq(Byte)
  BY DEF StreamTypes
<1> QED
  BY <1>1, <1>2 DEF Stream

\* Steps that move no byte and leave the mutex alone; one of them is the return
\* on a full queue.
LEMMA QuietStep ==
  ASSUME LockInv, StreamInv,
         UNCHANGED <<items, sendBuff, last, stored, owner, suspend_thread>>,
         \/ pc' = pc
         \/ \E t \in Thread \ Waiting, l \in {"rest", "irq", "round"} :
              /\ pc[t] # "store" \/ (owner = t /\ Len(items) >= QCap)
              /\ pc' = [pc EXCEPT ![t] = l]
  PROVE  StreamInv'
<1>1. Waiting' = Waiting /\ Stream' = Stream /\ Whole' = Whole
  BY DEF Waiting, Stream, Whole
<1>2. StreamTypes' /\ StreamWellFormed'
  BY <1>1 DEF StreamInv, StreamTypes, StreamWellFormed
<1>3. \A p \in Producer : EndsIn(p)' = EndsIn(p)
  BY <1>1 DEF EndsIn
<1>4. CASE pc' = pc
  BY <1>1, <1>2, <1>3, <1>4 DEF StreamInv, InQueue
<1>5. ASSUME NEW t \in Thread \ Waiting, NEW l \in {"rest", "irq", "round"},
             pc[t] # "store" \/ (owner = t /\ Len(items) >= QCap),
             pc' = [pc EXCEPT ![t] = l]
      PROVE  StreamInv'
  <2>1. pc'[t] = l /\ \A u \in Thread : u # t => pc'[u] = pc[u]
    BY <1>5 DEF LockInv
  <2>2. pc'[Master] # "store" /\ \A p \in Producer : pc'[p] # "drain"
    BY <2>1, Threads DEF StreamInv
  <2>3. \A p \in Producer : InQueue(p)' => InQueue(p)
    BY <1>1, <2>1, <2>2, Threads DEF InQueue
  <2>4. Whole \/ \E p \in Producer :
           owner = p /\ (Len(items) >= QCap \/ (pc'[p] = "store" /\ stored[p] > 0))
    <3>1. SUFFICES ASSUME NEW p \in Producer, owner = p, pc[p] = "store",
                          stored[p] > 0, ~(Len(items) >= QCap)
                   PROVE  pc'[p] = "store"
      BY <3>1 DEF StreamInv
    <3> QED
      BY <1>5, <2>1, <3>1, Threads
  <2> QED
    BY <1>1, <1>2, <1>3, <2>2, <2>3, <2>4 DEF StreamInv
<1> QED
  BY <1>4, <1>5

\* A take, after which stored[t] is 0 if t is a producer.
LEMMA TakeStep ==
  ASSUME KernelInv, LockInv, StreamInv, NEW t \in Thread, Ready(t), TakeForever(t),
         pc[t] = "round", NEW l \in {"store", "drain"}, l = "drain" <=> t = Master,
         pc' = [pc EXCEPT ![t] = l],
         stored' = IF t \in Producer THEN [stored EXCEPT ![t] = 0] ELSE stored,
         UNCHANGED <<items, sendBuff, last>>
  PROVE  StreamInv'
<1>1. \/ owner \in {t, NoThread} /\ owner' = t /\ Waiting' = Waiting
      \/ owner # t /\ owner' = owner /\ Waiting' = Waiting \cup {t}
  BY TakeEffect
<1>2. pc'[t] = l /\ \A u \in Thread : u # t => pc'[u] = pc[u]
  BY DEF LockInv
<1>3. Stream' = Stream /\ Whole' = Whole /\ StreamWellFormed'
  BY DEF Stream, Whole, StreamInv, StreamWellFormed
<1>4. /\ stored' \in [Producer -> Nat]
      /\ t \in Producer => stored'[t] = 0
      /\ \A p \in Producer : p # t => stored'[p] = stored[p]
  BY DEF StreamInv, StreamTypes
<1>5. StreamTypes'
  BY <1>4, SizesAssumption DEF StreamInv, StreamTypes
<1>6. pc'[Master] # "store" /\ \A p \in Producer : pc'[p] # "drain"
  BY <1>2, Threads DEF StreamInv
<1>7. \A p \in Producer : p \in Waiting' => stored'[p] = 0
  BY <1>1, <1>4 DEF StreamInv
<1>8. owner' = t => Whole \/ (t \in Producer /\ Len(items) >= QCap)
  BY <1>1, Threads, ThreadAssumption DEF StreamInv
<1>9. ASSUME NEW p \in Producer, InQueue(p)'
      PROVE  IF stored'[p] = 0 THEN Whole \/ Len(items) >= QCap ELSE EndsIn(p)'
  <2>1. CASE p = t
    BY <1>1, <1>4, <1>8, <1>9, <2>1 DEF InQueue
  <2>2. CASE p # t
    <3>1. InQueue(p)
      BY <1>1, <1>2, <1>9, <2>2, Threads DEF InQueue
    <3> QED
      BY <1>3, <1>4, <2>2, <3>1 DEF StreamInv, EndsIn
  <2> QED
    BY <2>1, <2>2
<1>10. Whole \/ \E p \in Producer :
         owner' = p /\ (Len(items) >= QCap \/ (pc'[p] = "store" /\ stored'[p] > 0))
  <2>1. CASE owner' = t
    BY <1>8, <2>1
  <2>2. CASE owner' # t
    BY <1>1, <1>2, <1>4, <2>2, Threads DEF StreamInv
  <2> QED
    BY <2>1, <2>2
<1> QED
  BY <1>3, <1>5, <1>6, <1>7, <1>9, <1>10 DEF StreamInv

\* A release by the owner, at the end of a frame.
LEMMA ReleaseStep ==
  ASSUME KernelInv, LockInv, StreamInv, NEW t \in Thread, Ready(t), Release(t),
         owner = t, Whole, NEW l \in {"rest", "send"}, pc' = [pc EXCEPT ![t] = l],
         UNCHANGED <<items, sendBuff, last, stored>>
  PROVE  StreamInv'
<1>1. \/ owner' \in {t, NoThread} /\ Waiting' = Waiting
      \/ owner' \in Waiting /\ Waiting' = Waiting \ {owner'}
  BY ReleaseEffect
<1>2. pc'[t] = l /\ \A u \in Thread : u # t => pc'[u] = pc[u]
  BY DEF LockInv
<1>3. Stream' = Stream /\ Whole' /\ StreamWellFormed' /\ StreamTypes'
  BY DEF Stream, Whole, StreamInv, StreamWellFormed, StreamTypes
<1>4. pc'[Master] # "store" /\ \A p \in Producer : pc'[p] # "drain"
  BY <1>2, Threads DEF StreamInv
<1>5. \A p \in Producer : p \in Waiting' => stored'[p] = 0
  BY <1>1 DEF StreamInv
<1>6. ASSUME NEW p \in Producer, InQueue(p)' PROVE stored'[p] = 0
  <2>1. p # t /\ p \in Thread /\ pc'[p] = pc[p]
    BY <1>2, <1>6, Threads DEF InQueue
  <2>2. p \notin Waiting => owner = p
    BY <1>6, <2>1 DEF InQueue, LockInv, QueueExclusive
  <2> QED
    BY <2>1, <2>2 DEF StreamInv
<1> QED
  BY <1>3, <1>4, <1>5, <1>6 DEF StreamInv

\* A byte stored by the owner continues its frame or starts one where the
\* frame before it ended.
LEMMA AppendStep ==
  ASSUME LockInv, StreamInv, NEW p \in Producer, p \notin Waiting,
         StoreByte(p), Len(items) < QCap
  PROVE  StreamInv'
<1> DEFINE n == Len(Stream)
           b == <<p, stored[p] + 1>>
<1>1. /\ pc[p] = "store" /\ stored[p] < FrameLen[p] /\ items' = Append(items, b)
      /\ stored' = [stored EXCEPT ![p] = stored[p] + 1]
      /\ UNCHANGED <<pc, sendBuff, last, owner, suspend_thread>>
  BY DEF StoreByte, kernelVars, mutexVars
<1>2. owner = p /\ InQueue(p)
  BY <1>1, Threads DEF LockInv, QueueExclusive, InQueue
<1>3. /\ stored \in [Producer -> Nat] /\ FrameLen \in [Producer -> Nat]
      /\ stored[p] \in Nat /\ FrameLen[p] \in Nat
  BY SizesAssumption DEF StreamInv, StreamTypes
<1>4. b \in Byte
  <2>1. stored[p] + 1 \in 1..FrameLen[p]
    BY <1>1, <1>3
  <2> QED
    BY <2>1 DEF Byte
<1>5. StreamTypes'
  <2>1. items' \in Seq(Byte) /\ sendBuff' \in Seq(Byte) /\ last' \in Byte \cup {<<>>}
    BY <1>1, <1>4 DEF StreamInv, StreamTypes
  <2>2. stored' \in [Producer -> Nat] /\ \A q \in Producer : stored'[q] <= FrameLen[q]
    BY <1>1, <1>3 DEF StreamInv, StreamTypes
  <2> QED
    BY <2>1, <2>2 DEF StreamTypes
<1>6. Stream \in Seq(Byte) /\ n \in Nat
  BY StreamIsSeq DEF StreamInv
<1>7. Stream' = Append(Stream, b)
  <2> DEFINE pre == (IF last = <<>> THEN <<>> ELSE <<last>>) \o sendBuff
  <2>1. pre \in Seq(Byte) /\ items \in Seq(Byte)
    BY DEF StreamInv, StreamTypes
  <2>2. Stream = pre \o items /\ Stream' = pre \o Append(items, b)
    BY <1>1 DEF Stream
  <2> HIDE DEF pre
  <2> QED
    BY <1>4, <2>1, <2>2, AppendLast
<1>8. /\ Len(Stream') = n + 1 /\ Stream'[n + 1] = b /\ Stream' # <<>>
      /\ \A k \in 1..n : Stream'[k] = Stream[k]
  BY <1>4, <1>6, <1>7
<1>9. n = 0 \/ Follows(Stream[n], b)
  <2>1. CASE stored[p] = 0
    <3>1. Whole
      <4>1. ~(Len(items) >= QCap)
        BY SizesAssumption DEF StreamInv, StreamTypes
      <4> QED
        BY <1>2, <2>1, <4>1 DEF StreamInv
    <3>2. Stream = <<>> => n = 0
      OBVIOUS
    <3> QED
      BY <2>1, <3>1, <3>2 DEF Whole, Follows
  <2>2. CASE stored[p] # 0
    <3>1. Stream[n] = <<p, stored[p]>>
      BY <1>2, <2>2 DEF StreamInv, EndsIn
    <3> QED
      BY <1>1, <1>3, <3>1 DEF Follows
  <2> QED
    BY <2>1, <2>2
<1>10. StreamWellFormed'
  <2> SUFFICES ASSUME NEW k \in 1 .. n PROVE Follows(Stream'[k], Stream'[k + 1])
    BY <1>6, <1>8 DEF StreamWellFormed, Follows
  <2>1. CASE k = n
    BY <1>6, <1>8, <1>9, <2>1
  <2>2. CASE k < n
    <3>1. k \in 1 .. n - 1 /\ k + 1 \in 1..n
      BY <1>6, <2>2
    <3>2. Follows(Stream[k], Stream[k + 1])
      BY <3>1 DEF StreamInv, StreamWellFormed
    <3> QED
      BY <1>8, <3>1, <3>2
  <2> QED
    BY <1>6, <2>1, <2>2
<1>11. EndsIn(p)' /\ stored'[p] > 0
  BY <1>1, <1>3, <1>8 DEF EndsIn
<1>12. \A q \in Producer : InQueue(q)' => q = p
  <2>1. \A q \in Producer : InQueue(q)' => InQueue(q)
    BY <1>1 DEF InQueue, Waiting
  <2> QED
    BY <1>2, <2>1, Threads DEF LockInv, QueueExclusive
<1>13. \A q \in Producer : q \in Waiting' => stored'[q] = 0
  <2>1. \A q \in Producer : q \in Waiting' => q \in Waiting /\ q # p
    BY <1>1 DEF Waiting
  <2> QED
    BY <1>1, <1>3, <2>1 DEF StreamInv
<1>14. /\ pc'[Master] # "store" /\ \A q \in Producer : pc'[q] # "drain"
       /\ owner' = p /\ pc'[p] = "store"
  BY <1>1, <1>2 DEF StreamInv
<1>15. \A q \in Producer :
         InQueue(q)' => IF stored'[q] = 0 THEN Whole' \/ Len(items') >= QCap
                                          ELSE EndsIn(q)'
  BY <1>11, <1>12
<1> QED
  BY <1>5, <1>10, <1>11, <1>13, <1>14, <1>15 DEF StreamInv

\* The master moves the first byte of the queue to the end of the packet.
LEMMA DrainStep ==
  ASSUME LockInv, StreamInv, Master \notin Waiting, DrainByte
  PROVE  StreamInv'
<1>1. /\ pc[Master] = "drain" /\ Len(items) > 0
      /\ sendBuff' = Append(sendBuff, Head(items)) /\ items' = Tail(items)
      /\ UNCHANGED <<pc, stored, last, owner, suspend_thread>>
  BY DEF DrainByte, MoreToDrain, kernelVars, mutexVars
<1>2. owner = Master
  BY <1>1, Threads DEF LockInv, QueueExclusive, InQueue
<1>3. Whole
  BY <1>2, Threads DEF StreamInv
<1>4. items \in Seq(Byte) /\ sendBuff \in Seq(Byte) /\ items # <<>>
  BY <1>1 DEF StreamInv, StreamTypes
<1>5. Stream' = Stream
  <2> DEFINE pre == IF last = <<>> THEN <<>> ELSE <<last>>
  <2>1. pre \in Seq(Byte)
    BY DEF StreamInv, StreamTypes
  <2>2. Stream = (pre \o sendBuff) \o items
    BY DEF Stream
  <2>3. Stream' = (pre \o Append(sendBuff, Head(items))) \o Tail(items)
    BY <1>1 DEF Stream
  <2> HIDE DEF pre
  <2>4. Head(items) \in Byte
    BY <1>4
  <2>5. pre \o Append(sendBuff, Head(items)) = Append(pre \o sendBuff, Head(items))
    BY <1>4, <2>1, <2>4, AppendLast
  <2>6. pre \o sendBuff \in Seq(Byte)
    BY <1>4, <2>1
  <2> QED
    BY <1>4, <2>2, <2>3, <2>5, <2>6, MoveHead
<1>6. StreamTypes'
  <2>1. Head(items) \in Byte /\ Tail(items) \in Seq(Byte)
    BY <1>4
  <2> QED
    BY <1>1, <2>1 DEF StreamInv, StreamTypes
<1>7. Whole' /\ StreamWellFormed'
  BY <1>3, <1>5 DEF Whole, StreamWellFormed, StreamInv
<1>8. \A p \in Producer : ~InQueue(p)'
  <2>1. \A p \in Producer : InQueue(p)' => InQueue(p)
    BY <1>1 DEF InQueue, Waiting
  <2> QED
    BY <1>2, <2>1, Threads DEF LockInv, QueueExclusive
<1>9. /\ \A p \in Producer : p \in Waiting' => stored'[p] = 0
      /\ pc'[Master] # "store" /\ \A p \in Producer : pc'[p] # "drain"
  BY <1>1 DEF StreamInv, Waiting
<1> QED
  BY <1>6, <1>7, <1>8, <1>9 DEF StreamInv

\* The packet leaves the stream, all but its last byte.
LEMMA SentStep ==
  ASSUME LockInv, StreamInv, TxDone
  PROVE  StreamInv'
<1> DEFINE pre == IF last = <<>> THEN <<>> ELSE <<last>>
           m == Len(sendBuff)
           n == Len(Stream)
           d == n - Len(Stream')
<1>1. /\ pc[Master] = "irq" /\ pc' = [pc EXCEPT ![Master] = "rest"]
      /\ sendBuff' = <<>>
      /\ last' = IF sendBuff = <<>> THEN last ELSE sendBuff[m]
      /\ UNCHANGED <<items, stored, owner, suspend_thread>>
  BY DEF TxDone, Goto, kernelVars, mutexVars
<1>2. items \in Seq(Byte) /\ sendBuff \in Seq(Byte) /\ pre \in Seq(Byte)
  BY DEF StreamInv, StreamTypes
<1>3. Stream = (pre \o sendBuff) \o items
  BY DEF Stream
<1>4. StreamTypes'
  <2>1. sendBuff # <<>> => sendBuff[m] \in Byte
    BY <1>2
  <2> QED
    BY <1>1, <2>1 DEF StreamInv, StreamTypes
<1>5. Stream \in Seq(Byte) /\ Stream' \in Seq(Byte)
  <2>1. (StreamTypes => Stream \in Seq(Byte))'
    BY StreamIsSeq, PTL
  <2> QED
    BY <1>4, <2>1, StreamIsSeq DEF StreamInv
<1>6. /\ d \in Nat /\ n \in Nat /\ Len(Stream') \in Nat
      /\ \A k \in 1..Len(Stream') : Stream'[k] = Stream[k + d]
      /\ Stream = <<>> <=> Stream' = <<>>
  <2>1. CASE sendBuff = <<>>
    <3>1. Stream' = Stream
      BY <1>1, <2>1 DEF Stream
    <3> QED
      BY <1>5, <3>1
  <2>2. CASE sendBuff # <<>>
    <3>1. /\ m \in Nat /\ m > 0 /\ sendBuff[m] \in Byte
          /\ Len(items) \in Nat /\ Len(pre) \in Nat
      BY <1>2, <2>2
    <3>2. last' = sendBuff[m] /\ last' # <<>>
      BY <1>1, <2>2, <3>1 DEF Byte
    <3>3. Stream' = (<<sendBuff[m]>> \o <<>>) \o items
      BY <1>1, <3>2 DEF Stream
    <3>4. /\ Len(Stream') = 1 + Len(items) /\ Stream'[1] = sendBuff[m]
          /\ \A k \in 1..Len(items) : Stream'[k + 1] = items[k]
      BY <1>2, <3>1, <3>3
    <3> HIDE DEF pre
    <3>5. /\ n = Len(pre) + m + Len(items)
          /\ Stream[Len(pre) + m] = sendBuff[m]
          /\ \A k \in 1..Len(items) : Stream[Len(pre) + m + k] = items[k]
      BY <1>2, <1>3, <3>1
    <3>6. d = Len(pre) + m - 1
      BY <3>1, <3>4, <3>5
    <3> HIDE DEF d, n, m
    <3>7. \A k \in 1..Len(Stream') : Stream'[k] = Stream[k + d]
      <4> SUFFICES ASSUME NEW k \in 1..Len(Stream') PROVE Stream'[k] = Stream[k + d]
        OBVIOUS
      <4>1. CASE k = 1
        BY <3>1, <3>4, <3>5, <3>6, <4>1
      <4>2. CASE k > 1
        <5>1. k - 1 \in 1..Len(items) /\ k = (k - 1) + 1 /\ k + d = Len(pre) + m + (k - 1)
          BY <3>1, <3>4, <3>6, <4>2
        <5> QED
          BY <3>4, <3>5, <5>1
      <4> QED
        BY <3>4, <4>1, <4>2
    <3>8. Stream # <<>> /\ Stream' # <<>>
      BY <1>5, <3>1, <3>4, <3>5 DEF n
    <3> QED
      BY <1>5, <3>1, <3>4, <3>5, <3>6, <3>7, <3>8
  <2> QED
    BY <2>1, <2>2
<1> HIDE DEF d
<1>7. Stream # <<>> => Stream'[Len(Stream')] = Stream[n]
  <2> SUFFICES ASSUME Stream # <<>> PROVE Stream'[Len(Stream')] = Stream[n]
    OBVIOUS
  <2>1. Len(Stream') > 0 /\ Len(Stream') + d = n
    BY <1>5, <1>6 DEF d
  <2>2. Len(Stream') \in 1..Len(Stream')
    BY <1>6, <2>1
  <2>3. Stream'[Len(Stream')] = Stream[Len(Stream') + d]
    BY <1>6, <2>2
  <2> QED
    BY <2>1, <2>3
<1>8. StreamWellFormed'
  <2> SUFFICES ASSUME NEW k \in 1 .. Len(Stream') - 1
               PROVE  Follows(Stream'[k], Stream'[k + 1])
    BY DEF StreamWellFormed, Follows
  <2>1. k + d \in 1 .. n - 1 /\ (k + 1) + d = (k + d) + 1
    BY <1>6 DEF d
  <2>2. Follows(Stream[k + d], Stream[(k + d) + 1])
    BY <2>1 DEF StreamInv, StreamWellFormed
  <2>3. Stream'[k] = Stream[k + d] /\ Stream'[k + 1] = Stream[(k + d) + 1]
    BY <1>6, <2>1
  <2> QED
    BY <2>2, <2>3
<1>9. Whole' = Whole
  BY <1>6, <1>7 DEF Whole
<1>10. \A p \in Producer : EndsIn(p) => EndsIn(p)'
  BY <1>1, <1>6, <1>7 DEF EndsIn
<1>11. pc'[Master] = "rest" /\ \A p \in Producer : pc'[p] = pc[p]
  BY <1>1, Threads DEF LockInv
<1>12. Waiting' = Waiting /\ \A p \in Producer : InQueue(p)' => InQueue(p)
  BY <1>1, <1>11 DEF InQueue, Waiting
<1> QED
  BY <1>1, <1>4, <1>8, <1>9, <1>10, <1>11, <1>12 DEF StreamInv

-----------------------------------------------------------------------------
LEMMA StreamStep ==
  ASSUME KernelInv, LockInv, StreamInv, [Next]_vars
  PROVE  StreamInv'
<1>1. CASE UNCHANGED vars
  BY <1>1, QuietStep DEF vars, kernelVars, mutexVars
<1>2. ASSUME NEW p \in Producer, ProducerStep(p) PROVE StreamInv'
  <2>1. p \in Thread /\ p # Master
    BY Threads
  <2>2. Ready(p)
    BY <1>2 DEF ProducerStep, StoreTake, StoreByte, StoreRelease, NothingToStore,
                Rest, Runs
  <2>3. p \in Thread \ Waiting
    BY <2>1, <2>2 DEF Ready
  <2>4. CASE StoreTake(p)
    <3>1. /\ TakeForever(p) /\ pc[p] = "round" /\ pc' = [pc EXCEPT ![p] = "store"]
          /\ stored' = IF p \in Producer THEN [stored EXCEPT ![p] = 0] ELSE stored
          /\ UNCHANGED <<items, sendBuff, last>>
      BY <2>4 DEF StoreTake, Goto
    <3> QED
      BY <2>1, <2>2, <3>1, TakeStep
  <2>5. CASE StoreByte(p) /\ Len(items) < QCap
    BY <2>3, <2>5, AppendStep
  <2>6. CASE StoreByte(p) /\ ~(Len(items) < QCap)
    <3>1. /\ pc[p] = "store" /\ pc' = [pc EXCEPT ![p] = "rest"]
          /\ UNCHANGED <<items, sendBuff, last, stored, owner, suspend_thread>>
      BY <2>6 DEF StoreByte, Goto, kernelVars, mutexVars
    <3>2. owner = p
      BY <2>3, <3>1 DEF LockInv, QueueExclusive, InQueue
    <3>3. Len(items) >= QCap
      BY <2>6, SizesAssumption DEF StreamInv, StreamTypes
    <3> QED
      BY <2>3, <3>1, <3>2, <3>3, QuietStep
  <2>7. CASE StoreRelease(p)
    <3>1. /\ pc[p] = "store" /\ stored[p] = FrameLen[p] /\ Release(p)
          /\ pc' = [pc EXCEPT ![p] = "rest"]
          /\ UNCHANGED <<items, sendBuff, last, stored>>
      BY <2>7 DEF StoreRelease, Goto
    <3>2. InQueue(p) /\ owner = p
      BY <2>3, <3>1 DEF LockInv, QueueExclusive, InQueue
    <3>3. stored[p] # 0
      BY <3>1, SizesAssumption
    <3>4. Whole
      <4>1. EndsIn(p)
        BY <3>2, <3>3 DEF StreamInv
      <4> QED
        BY <3>1, <4>1 DEF EndsIn, Whole
    <3> QED
      BY <2>1, <2>2, <3>1, <3>2, <3>4, ReleaseStep
  <2>8. CASE NothingToStore(p) \/ Rest(p)
    <3>1. /\ pc[p] # "store"
          /\ pc' = [pc EXCEPT ![p] = "rest"] \/ pc' = [pc EXCEPT ![p] = "round"]
          /\ UNCHANGED <<items, sendBuff, last, stored, owner, suspend_thread>>
      BY <2>8 DEF NothingToStore, Rest, Sleep, Goto, kernelVars, mutexVars
    <3> QED
      BY <2>3, <3>1, QuietStep
  <2> QED
    BY <1>2, <2>4, <2>5, <2>6, <2>7, <2>8 DEF ProducerStep
<1>3. CASE MasterStep
  <2>1. Master \in Thread /\ Master \notin Producer
    BY Threads
  <2>2. Ready(Master)
    BY <1>3 DEF MasterStep, TransmitNotPaired, TransmitTake, DrainByte, DrainEnd,
                TxStart, TxPoll, TxDone, Rest, Runs
  <2>3. Master \in Thread \ Waiting
    BY <2>1, <2>2 DEF Ready
  <2>4. CASE TransmitTake
    <3>1. /\ TakeForever(Master) /\ pc[Master] = "round"
          /\ pc' = [pc EXCEPT ![Master] = "drain"]
          /\ stored' = IF Master \in Producer THEN [stored EXCEPT ![Master] = 0]
                                              ELSE stored
          /\ UNCHANGED <<items, sendBuff, last>>
      BY <2>1, <2>4 DEF TransmitTake, Goto
    <3> QED
      BY <2>1, <2>2, <3>1, TakeStep
  <2>5. CASE DrainByte
    BY <2>3, <2>5, DrainStep
  <2>6. CASE DrainEnd
    <3>1. /\ pc[Master] = "drain" /\ Release(Master)
          /\ pc' = [pc EXCEPT ![Master] = "send"]
          /\ UNCHANGED <<items, sendBuff, last, stored>>
      BY <2>6 DEF DrainEnd, Goto
    <3>2. owner = Master
      BY <2>3, <3>1 DEF LockInv, QueueExclusive, InQueue
    <3>3. Whole
      BY <2>1, <3>2 DEF StreamInv
    <3> QED
      BY <2>1, <2>2, <3>1, <3>2, <3>3, ReleaseStep
  <2>7. CASE TxDone
    BY <2>7, SentStep
  <2>8. CASE TransmitNotPaired \/ TxStart \/ TxPoll \/ Rest(Master)
    <3>1. /\ pc[Master] # "store"
          /\ \/ pc' = pc
             \/ \E l \in {"rest", "irq", "round"} : pc' = [pc EXCEPT ![Master] = l]
          /\ UNCHANGED <<items, sendBuff, last, stored, owner, suspend_thread>>
      BY <2>8 DEF TransmitNotPaired, TxStart, TxPoll, Rest, Sleep, Goto,
                  kernelVars, mutexVars
    <3> QED
      BY <2>3, <3>1, QuietStep
  <2> QED
    BY <1>3, <2>4, <2>5, <2>6, <2>7, <2>8 DEF MasterStep
<1>4. CASE (\E t \in Thread : Wakes(t)) \/ RadioEnds \/ PairDone
  <2>1. /\ pc' = pc
        /\ UNCHANGED <<items, sendBuff, last, stored, owner, suspend_thread>>
    BY <1>4 DEF Wakes, Wake, RadioEnds, PairDone, kernelVars, mutexVars
  <2> QED
    BY <2>1, QuietStep
<1> QED
  BY <1>1, <1>2, <1>3, <1>4 DEF Next

LEMMA StreamInit == Init => StreamInv
<1> SUFFICES ASSUME Init PROVE StreamInv
  OBVIOUS
<1>1. /\ items = <<>> /\ sendBuff = <<>> /\ last = <<>>
      /\ stored = [p \in Producer |-> 0] /\ pc = [t \in Thread |-> "round"]
      /\ Waiting = {}
  BY DEF Init, rt_mutex_init, Waiting
<1>2. Stream = <<>>
  BY <1>1 DEF Stream
<1>3. StreamTypes
  BY <1>1, SizesAssumption DEF StreamTypes
<1>4. Whole /\ StreamWellFormed
  BY <1>2 DEF Whole, StreamWellFormed
<1> QED
  BY <1>1, <1>3, <1>4, Threads DEF StreamInv, InQueue

\* What was sent, is being sent and is queued is always a sequence of whole
\* frames, the last possibly unfinished: a full queue, a stalled radio or a
\* hand-over of the mutex never tears a frame and never mixes two.
THEOREM StreamIsWellFormed == Spec => []StreamWellFormed
<1>1. StreamInv => StreamWellFormed
  BY DEF StreamInv
<1>2. KernelInv /\ LockInv /\ StreamInv /\ [Next]_vars => StreamInv'
  BY StreamStep
<1> QED
  BY <1>1, <1>2, StreamInit, KernelInvHere, LockInvariance, PTL DEF Spec

-----------------------------------------------------------------------------
\* The count follows the failures up to its limit, and the status the history.
SignalInv ==
  /\ fails \in 0 .. LostMax + 1 /\ heard \in BOOLEAN
  /\ signalStatus \in {"SIGNAL_LOST", "SIGNAL_NORMAL"}
  /\ signalLostCount = IF fails <= LostMax THEN fails ELSE LostMax
  /\ SignalExact

\* The answer of the chip is the only step that touches the signal.
LEMMA SignalStep == SignalInv /\ [Next]_vars => SignalInv'
<1> SUFFICES ASSUME SignalInv, [Next]_vars PROVE SignalInv'
  OBVIOUS
<1>1. LostMax \in Nat
  BY SizesAssumption
<1>2. ASSUME UNCHANGED signalVars PROVE SignalInv'
  BY <1>2 DEF SignalInv, SignalExact, signalVars
<1>3. CASE TxDone
  <2>1. SignalUpdate(radio = "ok") /\ heard' = (heard \/ radio = "ok")
    BY <1>3 DEF TxDone
  <2>2. fails' = IF radio = "ok" THEN 0
                 ELSE IF fails <= LostMax THEN fails + 1 ELSE fails
    BY <1>3 DEF TxDone
  <2>3. CASE radio = "ok"
    <3>1. /\ signalLostCount' = 0 /\ signalStatus' = "SIGNAL_NORMAL"
          /\ fails' = 0 /\ heard' = TRUE
      BY <2>1, <2>2, <2>3 DEF SignalUpdate
    <3> QED
      BY <1>1, <3>1 DEF SignalInv, SignalExact
  <2>4. CASE radio # "ok" /\ signalLostCount < LostMax
    <3>1. /\ signalLostCount' = signalLostCount + 1
          /\ signalStatus' = signalStatus
      BY <2>1, <2>4 DEF SignalUpdate
    <3>2. fails < LostMax /\ fails' = fails + 1
      BY <1>1, <2>2, <2>4 DEF SignalInv
    <3>3. heard' = heard
      BY <2>1, <2>4 DEF SignalInv
    <3> QED
      BY <1>1, <3>1, <3>2, <3>3 DEF SignalInv, SignalExact
  <2>5. CASE radio # "ok" /\ ~(signalLostCount < LostMax)
    <3>1. signalLostCount' = signalLostCount /\ signalStatus' = "SIGNAL_LOST"
      BY <2>1, <2>5 DEF SignalUpdate
    <3>2. signalLostCount = LostMax /\ fails' = LostMax + 1
      BY <1>1, <2>2, <2>5 DEF SignalInv
    <3>3. heard' = heard
      BY <2>1, <2>5 DEF SignalInv
    <3> QED
      BY <1>1, <3>1, <3>2, <3>3 DEF SignalInv, SignalExact
  <2> QED
    BY <2>3, <2>4, <2>5
<1>4. ASSUME ~TxDone PROVE UNCHANGED signalVars
  <2>1. CASE UNCHANGED vars
    BY <2>1 DEF vars
  <2>2. ASSUME NEW p \in Producer, ProducerStep(p) PROVE UNCHANGED signalVars
    BY <2>2 DEF ProducerStep, StoreTake, StoreByte, StoreRelease,
                NothingToStore, Rest
  <2>3. CASE MasterStep
    BY <1>4, <2>3 DEF MasterStep, TransmitNotPaired, TransmitTake, DrainByte,
                      DrainEnd, TxStart, TxPoll, Rest
  <2>4. CASE (\E t \in Thread : Wakes(t)) \/ RadioEnds \/ PairDone
    BY <2>4 DEF Wakes, RadioEnds, PairDone
  <2> QED
    BY <2>1, <2>2, <2>3, <2>4 DEF Next
<1> QED
  BY <1>2, <1>3, <1>4

LEMMA SignalInit == Init => SignalInv
<1> SUFFICES ASSUME Init PROVE SignalInv
  OBVIOUS
<1>1. /\ signalLostCount = 0 /\ signalStatus = "SIGNAL_LOST"
      /\ fails = 0 /\ heard = FALSE
  BY DEF Init
<1>2. fails \in 0 .. LostMax + 1 /\ fails <= LostMax
  BY <1>1, SizesAssumption
<1>3. SignalExact
  BY <1>1 DEF SignalExact
<1> QED
  BY <1>1, <1>2, <1>3 DEF SignalInv

\* For every limit and every run of acknowledged and failed packets, the signal
\* counts as normal exactly while the last LostMax + 1 packets are not all
\* failures and some packet was ever acknowledged.
THEOREM SignalIsExact == Spec => []SignalExact
<1>1. SignalInv => SignalExact
  BY DEF SignalInv
<1> QED
  BY <1>1, SignalInit, SignalStep, PTL DEF Spec

-----------------------------------------------------------------------------
\* What the other invariants leave out of the type invariant.
BoundsInv ==
  /\ Len(items) <= QCap /\ Len(sendBuff) <= ChunkMax
  /\ paired \in BOOLEAN
  /\ radio \in {"idle", "busy", "ok", "failed"}
  /\ lag \in [Producer -> Nat]

LEMMA BoundsStep == StreamTypes /\ BoundsInv /\ [Next]_vars => BoundsInv'
<1> SUFFICES ASSUME StreamTypes, BoundsInv, [Next]_vars PROVE BoundsInv'
  OBVIOUS
<1>1. QCap \in Nat /\ ChunkMax \in Nat
  BY SizesAssumption
<1>2. items \in Seq(Byte) /\ sendBuff \in Seq(Byte)
  BY DEF StreamTypes
<1>3. CASE UNCHANGED vars
  BY <1>3 DEF vars, BoundsInv
<1>4. ASSUME NEW p \in Producer, ProducerStep(p) PROVE BoundsInv'
  <2>1. CASE StoreByte(p)
    <3>1. UNCHANGED <<sendBuff, paired, radio, lag>>
      BY <2>1 DEF StoreByte
    <3>2. CASE Len(items) < QCap
      <4>1. items' = Append(items, <<p, stored[p] + 1>>)
        BY <2>1, <3>2 DEF StoreByte
      <4>2. Len(items') = Len(items) + 1
        BY <1>2, <4>1
      <4> QED
        BY <1>1, <1>2, <3>1, <3>2, <4>2 DEF BoundsInv
    <3>3. CASE ~(Len(items) < QCap)
      <4>1. items' = items
        BY <2>1, <3>3 DEF StoreByte
      <4> QED
        BY <3>1, <4>1 DEF BoundsInv
    <3> QED
      BY <3>2, <3>3
  <2>2. CASE StoreRelease(p)
    BY <2>2 DEF StoreRelease, BoundsInv
  <2>3. CASE StoreTake(p) \/ NothingToStore(p) \/ Rest(p)
    BY <2>3 DEF StoreTake, NothingToStore, Rest, BoundsInv
  <2> QED
    BY <1>4, <2>1, <2>2, <2>3 DEF ProducerStep
<1>5. CASE MasterStep
  <2>1. CASE DrainByte
    <3>1. /\ sendBuff' = Append(sendBuff, Head(items)) /\ items' = Tail(items)
          /\ Len(sendBuff) < ChunkMax /\ Len(items) > 0
          /\ UNCHANGED <<paired, radio, lag>>
      BY <2>1 DEF DrainByte, MoreToDrain
    <3>2. items # <<>> /\ Head(items) \in Byte
      BY <1>2, <3>1
    <3>3. Len(sendBuff') = Len(sendBuff) + 1 /\ Len(items') = Len(items) - 1
      BY <1>2, <3>1, <3>2
    <3> QED
      BY <1>1, <1>2, <3>1, <3>3 DEF BoundsInv
  <2>2. CASE DrainEnd
    BY <2>2 DEF DrainEnd, BoundsInv
  <2>3. CASE TxStart
    BY <2>3 DEF TxStart, BoundsInv
  <2>4. CASE TxDone
    <3>1. sendBuff' = <<>> /\ radio' = "idle" /\ UNCHANGED <<items, paired, lag>>
      BY <2>4 DEF TxDone
    <3> QED
      BY <1>1, <3>1 DEF BoundsInv
  <2>5. CASE TransmitNotPaired \/ TransmitTake \/ TxPoll \/ Rest(Master)
    BY <2>5 DEF TransmitNotPaired, TransmitTake, TxPoll, Rest, BoundsInv
  <2> QED
    BY <1>5, <2>1, <2>2, <2>3, <2>4, <2>5 DEF MasterStep
<1>6. CASE (\E t \in Thread : Wakes(t)) \/ RadioEnds \/ PairDone
  BY <1>6 DEF Wakes, RadioEnds, PairDone, BoundsInv
<1> QED
  BY <1>3, <1>4, <1>5, <1>6 DEF Next

LEMMA BoundsInit == Init => BoundsInv
<1> SUFFICES ASSUME Init PROVE BoundsInv
  OBVIOUS
<1>1. items = <<>> /\ sendBuff = <<>> /\ paired = FALSE /\ radio = "idle"
      /\ lag = [p \in Producer |-> 0]
  BY DEF Init
<1>2. Len(items) = 0 /\ Len(sendBuff) = 0
  BY <1>1
<1>3. Len(items) <= QCap /\ Len(sendBuff) <= ChunkMax
  BY <1>2, SizesAssumption
<1>4. lag \in [Producer -> Nat]
  BY <1>1
<1> QED
  BY <1>1, <1>3, <1>4 DEF BoundsInv

\* Type correctness of the transmit path: neither the queue nor a radio packet
\* ever grows past its array, and the failure count stays within its limit.
THEOREM TransmitTypes == Spec => []TypeOK
<1>1. Init => BoundsInv
  BY BoundsInit
<1>2. StreamInv => StreamTypes
  BY DEF StreamInv
<1>3. KernelInv /\ LockInv /\ StreamInv /\ [Next]_vars => StreamInv'
  BY StreamStep
<1>4. KernelInv /\ LockInv /\ StreamTypes /\ BoundsInv /\ SignalInv => TypeOK
  <2> SUFFICES ASSUME KernelInv, LockInv, StreamTypes, BoundsInv, SignalInv
               PROVE  TypeOK
    OBVIOUS
  <2>1. signalLostCount \in 0..LostMax
    BY SizesAssumption DEF SignalInv
  <2> QED
    BY <2>1 DEF KernelInv, LockInv, StreamTypes, BoundsInv, SignalInv, TypeOK
<1> QED
  BY <1>1, <1>2, <1>3, <1>4, StreamInit, KernelInvHere, LockInvariance,
     BoundsStep, SignalInit, SignalStep, PTL DEF Spec


-----------------------------------------------------------------------------
\* The timing under which nothing is leaked or cut: all that the producers may
\* store between two drains has room in one packet and in the queue.
MostLag(p) == IF MaxLag[p] < StallLag[p] THEN StallLag[p] ELSE MaxLag[p]
Load == UNION {{<<p, f, k>> : f \in 1..MostLag(p), k \in 1..FrameLen[p]} : p \in Producer}
Capacity ==
  IsFiniteSet(Load) /\ Cardinality(Load) <= ChunkMax /\ Cardinality(Load) <= QCap

LEMMA LagFacts ==
  ASSUME NEW p \in Producer
  PROVE  /\ MostLag(p) \in Nat /\ MostLag(p) >= 1
         /\ MaxLag[p] \in Nat /\ MaxLag[p] <= MostLag(p)
         /\ StallLag[p] \in Nat /\ StallLag[p] <= MostLag(p)
         /\ FrameLen[p] \in Nat
BY SizesAssumption DEF MostLag

LEMMA ByteParts ==
  ASSUME NEW b \in Byte
  PROVE  b[1] \in Producer /\ b[2] \in 1..FrameLen[b[1]] /\ b = <<b[1], b[2]>>
BY DEF Byte

\* A thread that may begin a frame has one left before the next drain.
LagInv ==
  /\ lag \in [Producer -> Nat]
  /\ \A p \in Producer : lag[p] <= MostLag(p)
  /\ \A p \in Producer : pc[p] = "store" => lag[p] < MostLag(p)
  /\ \A p \in Producer : pc[p] = "round" /\ p \notin asleep => lag[p] < MostLag(p)

\* What was stored since the last drain began.
Backlog == IF pc[Master] = "drain" THEN sendBuff \o items ELSE items

\* g numbers the frames its bytes belong to, for each producer from 1.
Numbering(g, q, s) ==
  /\ g \in [1..Len(q) -> Nat]
  /\ \A i \in 1..Len(q) :
       LET p == q[i][1]
       IN  /\ g[i] >= 1
           /\ g[i] <= lag[p] \/ (g[i] = lag[p] + 1 /\ pc[p] = "store" /\ q[i][2] <= s[p])
  /\ \A i, j \in 1..Len(q) : q[i] = q[j] /\ g[i] = g[j] => i = j
Numbered == \E g \in [1..Len(Backlog) -> Nat] : Numbering(g, Backlog, stored)

\* The owner is in its critical section and holds the mutex once.
OwnedInv ==
  /\ \A t \in Thread : owner = t => InQueue(t)
  /\ owner # NoThread => hold = 1

\* The packet is empty until a drain has begun.
EmptyInv ==
  /\ pc[Master] \in {"round", "rest"} => sendBuff = <<>>
  /\ Master \in Waiting => sendBuff = <<>>

\* Distinct bytes of distinct frames: there are no more than the load has.
LEMMA Bounded ==
  ASSUME Capacity, NEW q \in Seq(Byte), NEW g \in [1..Len(q) -> Nat],
         \A i \in 1..Len(q) : g[i] \in 1..MostLag(q[i][1]),
         \A i, j \in 1..Len(q) : q[i] = q[j] /\ g[i] = g[j] => i = j
  PROVE  Len(q) <= ChunkMax /\ Len(q) <= QCap
<1> DEFINE n == Len(q)
           h == [i \in 1..n |-> <<q[i][1], g[i], q[i][2]>>]
<1>1. n \in Nat /\ \A i \in 1..n : q[i] \in Byte
  OBVIOUS
<1>2. \A i \in 1..n : h[i] \in Load
  <2> SUFFICES ASSUME NEW i \in 1..n PROVE h[i] \in Load
    OBVIOUS
  <2>1. /\ q[i][1] \in Producer /\ q[i][2] \in 1..FrameLen[q[i][1]]
        /\ g[i] \in 1..MostLag(q[i][1])
    BY <1>1, ByteParts
  <2>2. h[i] = <<q[i][1], g[i], q[i][2]>>
    OBVIOUS
  <2> QED
    BY <2>1, <2>2 DEF Load
<1>3. ASSUME NEW i \in 1..n, NEW j \in 1..n, h[i] = h[j] PROVE i = j
  <2>1. q[i][1] = q[j][1] /\ g[i] = g[j] /\ q[i][2] = q[j][2]
    BY <1>3
  <2>2. q[i] = <<q[i][1], q[i][2]>> /\ q[j] = <<q[j][1], q[j][2]>>
    BY <1>1, ByteParts
  <2>3. q[i] = q[j]
    BY <2>1, <2>2
  <2> QED
    BY <2>1, <2>3
<1>4. h \in Injection(1..n, Load)
  <2>1. h \in [1..n -> Load]
    BY <1>2
  <2>2. DOMAIN h = 1..n
    OBVIOUS
  <2> HIDE DEF h
  <2> QED
    BY <1>3, <2>1, <2>2 DEF Injection, IsInjective
<1>5. Cardinality(1..n) <= Cardinality(Load) /\ Cardinality(Load) \in Nat
  <2> HIDE DEF h
  <2> QED
    BY <1>4, FS_Injection, FS_CardinalityType DEF Capacity
<1>6. Cardinality(1..n) = n
  <2> HIDE DEF n
  <2>1. Cardinality(1..n) = IF 1 > n THEN 0 ELSE n - 1 + 1
    BY <1>1, FS_Interval
  <2> QED
    BY <1>1, <2>1
<1> QED
  BY <1>1, <1>5, <1>6, SizesAssumption DEF Capacity

\* The next byte of a frame gets the number of that frame.
LEMMA NextNumber ==
  ASSUME StreamTypes, LagInv, NEW q \in Seq(Byte), NEW g, Numbering(g, q, stored),
         NEW p \in Producer, pc[p] = "store", stored[p] < FrameLen[p],
         NEW s, s = [stored EXCEPT ![p] = stored[p] + 1]
  PROVE  \E h : Numbering(h, Append(q, <<p, stored[p] + 1>>), s)
<1> DEFINE n == Len(q)
           b == <<p, stored[p] + 1>>
           r == Append(q, b)
           h == [i \in 1 .. n + 1 |-> IF i <= n THEN g[i] ELSE lag[p] + 1]
<1>1. /\ stored \in [Producer -> Nat] /\ lag \in [Producer -> Nat]
      /\ n \in Nat /\ g \in [1..n -> Nat] /\ b \in Byte
  <2>1. stored[p] + 1 \in 1..FrameLen[p]
    BY LagFacts DEF StreamTypes
  <2> QED
    BY <2>1 DEF StreamTypes, LagInv, Numbering, Byte
<1>2. /\ r \in Seq(Byte) /\ Len(r) = n + 1 /\ r[n + 1] = b
      /\ \A i \in 1..n : r[i] = q[i] /\ q[i] \in Byte
  BY <1>1
<1>3. /\ h \in [1 .. n + 1 -> Nat] /\ h[n + 1] = lag[p] + 1
      /\ \A i \in 1..n : h[i] = g[i]
  BY <1>1
<1>4. /\ s[p] = stored[p] + 1 /\ \A u \in Producer : stored[u] <= s[u] /\ s[u] \in Nat
  BY <1>1
<1>5. b[1] = p /\ b[2] = stored[p] + 1
  OBVIOUS
<1> HIDE DEF r, h, b
<1>6. \A i \in 1 .. n + 1 :
        /\ h[i] >= 1
        /\ \/ h[i] <= lag[r[i][1]]
           \/ h[i] = lag[r[i][1]] + 1 /\ pc[r[i][1]] = "store" /\ r[i][2] <= s[r[i][1]]
  <2> SUFFICES ASSUME NEW i \in 1 .. n + 1
               PROVE  /\ h[i] >= 1
                      /\ \/ h[i] <= lag[r[i][1]]
                         \/ /\ h[i] = lag[r[i][1]] + 1 /\ pc[r[i][1]] = "store"
                            /\ r[i][2] <= s[r[i][1]]
    OBVIOUS
  <2>1. CASE i = n + 1
    BY <1>1, <1>2, <1>3, <1>4, <1>5, <2>1
  <2>2. CASE i # n + 1
    <3>1. i \in 1..n /\ h[i] = g[i] /\ r[i] = q[i]
      BY <1>1, <1>2, <1>3, <2>2
    <3>2. q[i][1] \in Producer /\ q[i][2] \in Nat
      <4>1. q[i][1] \in Producer /\ q[i][2] \in 1..FrameLen[q[i][1]]
        BY <1>2, <3>1, ByteParts
      <4> QED
        BY <4>1, LagFacts
    <3>3. /\ g[i] >= 1
          /\ \/ g[i] <= lag[q[i][1]]
             \/ /\ g[i] = lag[q[i][1]] + 1 /\ pc[q[i][1]] = "store"
                /\ q[i][2] <= stored[q[i][1]]
      BY <3>1 DEF Numbering
    <3>4. stored[q[i][1]] <= s[q[i][1]] /\ s[q[i][1]] \in Nat /\ stored[q[i][1]] \in Nat
      BY <1>1, <1>4, <3>2
    <3> QED
      BY <3>1, <3>2, <3>3, <3>4
  <2> QED
    BY <2>1, <2>2
<1>7. ASSUME NEW i \in 1..n PROVE ~(r[i] = b /\ h[i] = lag[p] + 1)
  <2> SUFFICES ASSUME q[i] = b, g[i] = lag[p] + 1 PROVE FALSE
    BY <1>2, <1>3
  <2>1. q[i][1] = p /\ q[i][2] = stored[p] + 1
    BY <1>5
  <2>2. g[i] <= lag[p] \/ q[i][2] <= stored[p]
    BY <2>1 DEF Numbering
  <2> QED
    BY <1>1, <2>1, <2>2
<1>8. \A i, j \in 1 .. n + 1 : r[i] = r[j] /\ h[i] = h[j] => i = j
  <2> SUFFICES ASSUME NEW i \in 1 .. n + 1, NEW j \in 1 .. n + 1,
                      r[i] = r[j], h[i] = h[j]
               PROVE  i = j
    OBVIOUS
  <2>1. i \in 1..n \/ i = n + 1
    BY <1>1
  <2>2. j \in 1..n \/ j = n + 1
    BY <1>1
  <2>3. CASE i \in 1..n /\ j \in 1..n
    <3>1. q[i] = q[j] /\ g[i] = g[j]
      BY <1>2, <1>3, <2>3
    <3> QED
      BY <2>3, <3>1 DEF Numbering
  <2> QED
    BY <1>2, <1>3, <1>7, <2>1, <2>2, <2>3
<1>9. Numbering(h, r, s)
  BY <1>2, <1>3, <1>6, <1>8 DEF Numbering
<1> QED
  BY <1>9 DEF r, b


LEMMA NumberingBound ==
  ASSUME Capacity, LagInv, NEW q \in Seq(Byte), NEW g, NEW s, Numbering(g, q, s)
  PROVE  Len(q) <= ChunkMax /\ Len(q) <= QCap
<1>1. g \in [1..Len(q) -> Nat]
  BY DEF Numbering
<1>2. ASSUME NEW i \in 1..Len(q) PROVE g[i] \in 1..MostLag(q[i][1])
  <2>1. q[i][1] \in Producer
    BY <1>2, ByteParts
  <2>2. /\ lag[q[i][1]] \in Nat /\ MostLag(q[i][1]) \in Nat /\ g[i] \in Nat
        /\ lag[q[i][1]] <= MostLag(q[i][1])
        /\ pc[q[i][1]] = "store" => lag[q[i][1]] < MostLag(q[i][1])
    BY <1>1, <2>1, LagFacts DEF LagInv
  <2>3. /\ g[i] >= 1
        /\ g[i] <= lag[q[i][1]] \/ (g[i] = lag[q[i][1]] + 1 /\ pc[q[i][1]] = "store")
    BY DEF Numbering
  <2> QED
    BY <2>2, <2>3
<1>3. \A i, j \in 1..Len(q) : q[i] = q[j] /\ g[i] = g[j] => i = j
  BY DEF Numbering
<1> QED
  BY <1>1, <1>2, <1>3, Bounded

LEMMA BacklogFacts ==
  ASSUME StreamTypes
  PROVE  /\ Backlog \in Seq(Byte) /\ Len(Backlog) \in Nat
         /\ items \in Seq(Byte) /\ sendBuff \in Seq(Byte)
         /\ Len(items) \in Nat /\ Len(sendBuff) \in Nat
         /\ Len(Backlog) = Len(items) + (IF pc[Master] = "drain" THEN Len(sendBuff) ELSE 0)
BY DEF StreamTypes, Backlog

\* So a producer never meets a full queue,
LEMMA RoomForByte ==
  ASSUME Capacity, StreamTypes, LagInv, Numbered, NEW p \in Producer,
         pc[p] = "store", stored[p] < FrameLen[p]
  PROVE  Len(items) < QCap
<1>1. PICK g : Numbering(g, Backlog, stored)
  BY DEF Numbered
<1> DEFINE b == <<p, stored[p] + 1>>
<1>2. Backlog \in Seq(Byte) /\ b \in Byte
  <2>1. stored[p] + 1 \in 1..FrameLen[p]
    BY LagFacts DEF StreamTypes
  <2> QED
    BY <2>1, BacklogFacts DEF Byte
<1>3. PICK h : Numbering(h, Append(Backlog, b), [stored EXCEPT ![p] = stored[p] + 1])
  BY <1>1, <1>2, NextNumber
<1> HIDE DEF b
<1>4. Append(Backlog, b) \in Seq(Byte) /\ Len(Append(Backlog, b)) = Len(Backlog) + 1
  BY <1>2
<1>5. Len(Append(Backlog, b)) <= QCap
  BY <1>3, <1>4, NumberingBound
<1> QED
  BY <1>4, <1>5, BacklogFacts, SizesAssumption

\* and one packet takes all there is.
LEMMA DrainsAll ==
  ASSUME Capacity, StreamTypes, LagInv, Numbered, pc[Master] = "drain", ~MoreToDrain
  PROVE  items = <<>>
<1>1. PICK g : Numbering(g, Backlog, stored)
  BY DEF Numbered
<1>2. Len(sendBuff) + Len(items) <= ChunkMax
  BY <1>1, BacklogFacts, NumberingBound
<1>3. Len(items) = 0
  BY <1>2, BacklogFacts, SizesAssumption DEF MoreToDrain
<1> QED
  BY <1>3, BacklogFacts

\* The numbers stay right when no byte is stored: a frame that ends is counted.
LEMMA NumberedKept ==
  ASSUME StreamTypes, LagInv, Numbered, Backlog' = Backlog,
         \A p \in Producer :
           \/ lag'[p] = lag[p] + 1
           \/ /\ lag'[p] = lag[p]
              /\ pc[p] = "store" => pc'[p] = "store" /\ stored'[p] = stored[p]
  PROVE  Numbered'
<1>1. PICK g \in [1..Len(Backlog) -> Nat] : Numbering(g, Backlog, stored)
  BY DEF Numbered
<1>2. ASSUME NEW i \in 1..Len(Backlog)
      PROVE  LET p == Backlog[i][1]
             IN  \/ g[i] <= lag'[p]
                 \/ g[i] = lag'[p] + 1 /\ pc'[p] = "store" /\ Backlog[i][2] <= stored'[p]
  <2> DEFINE p == Backlog[i][1]
  <2>1. p \in Producer
    BY BacklogFacts, ByteParts
  <2>2. lag[p] \in Nat /\ g[i] \in Nat
    BY <2>1 DEF LagInv
  <2>3. g[i] <= lag[p] \/ (g[i] = lag[p] + 1 /\ pc[p] = "store" /\ Backlog[i][2] <= stored[p])
    BY <1>1 DEF Numbering
  <2> HIDE DEF p
  <2>4. \/ lag'[p] = lag[p] + 1
        \/ /\ lag'[p] = lag[p]
           /\ pc[p] = "store" => pc'[p] = "store" /\ stored'[p] = stored[p]
    BY <2>1
  <2>5. \/ g[i] <= lag'[p]
        \/ g[i] = lag'[p] + 1 /\ pc'[p] = "store" /\ Backlog[i][2] <= stored'[p]
    BY <2>2, <2>3, <2>4
  <2> QED
    BY <2>5 DEF p
<1>3. Numbering(g, Backlog, stored)'
  BY <1>1, <1>2 DEF Numbering
<1> QED
  BY <1>1, <1>3 DEF Numbered

-----------------------------------------------------------------------------
\* What the steps do to the owner: a take outside of the queue, the release at
\* the end of a critical section, everything else.
LEMMA OwnedTake ==
  ASSUME KernelInv, LockInv, OwnedInv, NEW t \in Thread, Ready(t), TakeForever(t),
         pc[t] = "round", NEW l \in {"store", "drain"}, pc' = [pc EXCEPT ![t] = l]
  PROVE  OwnedInv'
<1>1. pc'[t] = l /\ \A u \in Thread : u # t => pc'[u] = pc[u]
  BY DEF LockInv
<1>2. owner # t /\ t \notin Waiting
  BY DEF OwnedInv, InQueue, Ready
<1>3. \/ owner = NoThread /\ owner' = t /\ Waiting' = Waiting
      \/ owner' = owner /\ Waiting' = Waiting \cup {t}
  BY <1>2, TakeEffect
<1>4. hold' = IF owner' = owner THEN hold ELSE hold + 1
  BY <1>2 DEF TakeForever, TakeAgain, TakeFull, TakeFree, TakeWait
<1>5. owner = NoThread => hold = 0
  BY DEF KernelInv, OwnershipConsistent
<1>6. owner' # NoThread => hold' = 1
  BY <1>3, <1>4, <1>5 DEF OwnedInv
<1>7. ASSUME NEW u \in Thread, owner' = u PROVE InQueue(u)'
  BY <1>1, <1>2, <1>3, <1>7 DEF OwnedInv, InQueue
<1> QED
  BY <1>6, <1>7 DEF OwnedInv

LEMMA OwnedRelease ==
  ASSUME KernelInv, LockInv, OwnedInv, NEW t \in Thread, Ready(t), Release(t),
         pc[t] \in {"store", "drain"}, NEW l, pc' = [pc EXCEPT ![t] = l]
  PROVE  OwnedInv' /\ Waiting' \subseteq Waiting
<1>1. owner = t /\ t # NoThread /\ hold = 1 /\ t \notin Waiting
  BY ThreadAssumption DEF LockInv, QueueExclusive, InQueue, OwnedInv, Ready
<1>2. \A u \in Thread : u # t => pc'[u] = pc[u]
  BY DEF LockInv
<1>3. ReleaseFree(t) \/ ReleaseHandOver(t)
  BY <1>1 DEF Release, ReleaseNotOwner, ReleaseNested
<1>4. \/ owner' = NoThread /\ Waiting' = Waiting
      \/ owner' \in Waiting /\ Waiting' = Waiting \ {owner'} /\ hold' = hold
  <2>1. \/ owner' \in {t, NoThread} /\ Waiting' = Waiting
        \/ owner' \in Waiting /\ Waiting' = Waiting \ {owner'}
    BY <1>1, ReleaseEffect
  <2>2. CASE ReleaseFree(t)
    BY <2>2 DEF ReleaseFree, Waiting
  <2>3. CASE ReleaseHandOver(t)
    <3>1. owner' = suspend_thread[1] /\ suspend_thread # <<>> /\ hold' = hold
      BY <2>3 DEF ReleaseHandOver
    <3>2. owner' \in Waiting
      BY <3>1, FirstIsBest DEF KernelInv
    <3>3. owner' # t /\ owner' # NoThread
      <4>1. Waiting \subseteq Thread
        BY DEF Waiting, KernelInv, KernelTypeOK
      <4> QED
        BY <1>1, <3>2, <4>1, ThreadAssumption
    <3> QED
      BY <2>1, <3>1, <3>3
  <2> QED
    BY <1>3, <2>2, <2>3
<1>5. owner' # NoThread => hold' = 1
  BY <1>1, <1>4
<1>6. ASSUME NEW u \in Thread, owner' = u PROVE InQueue(u)'
  BY <1>1, <1>2, <1>4, <1>6, ThreadAssumption DEF LockInv, InQueue
<1> QED
  BY <1>4, <1>5, <1>6 DEF OwnedInv

LEMMA OwnedKept ==
  ASSUME OwnedInv, UNCHANGED <<owner, hold, suspend_thread>>,
         \A t \in Thread : InQueue(t) => pc'[t] = pc[t]
  PROVE  OwnedInv'
<1>1. Waiting' = Waiting
  BY DEF Waiting
<1> QED
  BY <1>1 DEF OwnedInv, InQueue


-----------------------------------------------------------------------------
FlowInv == LagInv /\ Numbered /\ OwnedInv /\ EmptyInv

LEMMA FlowInit == Init => FlowInv
<1> SUFFICES ASSUME Init PROVE FlowInv
  OBVIOUS
<1>1. /\ pc = [t \in Thread |-> "round"] /\ lag = [p \in Producer |-> 0]
      /\ items = <<>> /\ sendBuff = <<>> /\ owner = NoThread /\ Waiting = {}
  BY DEF Init, rt_mutex_init, Waiting
<1>2. LagInv
  BY <1>1, Threads, LagFacts DEF LagInv
<1>3. Numbered
  <2>1. Backlog = <<>> /\ Len(Backlog) = 0
    BY <1>1, Threads DEF Backlog
  <2>2. 1..0 = {}
    OBVIOUS
  <2>3. [i \in {} |-> 0] \in [{} -> Nat]
    OBVIOUS
  <2>4. Numbering([i \in {} |-> 0], Backlog, stored)
    BY <2>1, <2>2, <2>3 DEF Numbering
  <2> QED
    BY <2>1, <2>2, <2>3, <2>4 DEF Numbered
<1>4. OwnedInv
  BY <1>1, ThreadAssumption DEF OwnedInv
<1>5. EmptyInv
  BY <1>1 DEF EmptyInv
<1> QED
  BY <1>2, <1>3, <1>4, <1>5 DEF FlowInv

\* One producer's steps.
LEMMA FlowProducer ==
  ASSUME Capacity, KernelInv, LockInv, StreamInv, FlowInv,
         NEW p \in Producer, ProducerStep(p)
  PROVE  FlowInv'
<1> LagInv /\ Numbered /\ OwnedInv /\ EmptyInv /\ StreamTypes
  BY DEF FlowInv, StreamInv
<1>1. Ready(p) /\ p \in Thread /\ p # Master
  BY Threads DEF ProducerStep, StoreTake, StoreByte, StoreRelease, NothingToStore,
                 Rest, Runs
<1>2. p \notin asleep /\ p \notin Waiting
  BY <1>1 DEF Ready
<1>3. /\ lag \in [Producer -> Nat] /\ lag[p] \in Nat /\ pc \in [Thread -> Place]
      /\ stored \in [Producer -> Nat]
  BY DEF LagInv, LockInv, StreamTypes
<1>4. CASE StoreTake(p)
  <2>1. /\ pc[p] = "round" /\ pc' = [pc EXCEPT ![p] = "store"] /\ TakeForever(p)
        /\ stored' = [stored EXCEPT ![p] = 0]
        /\ UNCHANGED <<items, sendBuff, lag>>
    BY <1>4 DEF StoreTake, Goto
  <2>2. pc'[p] = "store" /\ \A u \in Thread : u # p => pc'[u] = pc[u]
    BY <1>1, <1>3, <2>1
  <2>3. asleep' = asleep
    BY <2>1 DEF TakeForever, TakeAgain, TakeFull, TakeFree, TakeWait
  <2>4. LagInv'
    BY <1>2, <2>1, <2>2, <2>3, Threads DEF LagInv
  <2>5. Numbered'
    <3>1. Backlog' = Backlog
      BY <1>1, <2>1, <2>2, Threads DEF Backlog
    <3>2. \A q \in Producer :
            /\ lag'[q] = lag[q]
            /\ pc[q] = "store" => pc'[q] = "store" /\ stored'[q] = stored[q]
      BY <1>3, <2>1, <2>2, Threads
    <3> QED
      BY <3>1, <3>2, NumberedKept
  <2>6. OwnedInv'
    BY <1>1, <2>1, OwnedTake
  <2>7. Waiting' \subseteq Waiting \cup {p}
    BY <1>1, <2>1, TakeEffect
  <2>8. EmptyInv'
    BY <1>1, <2>1, <2>2, <2>7, Threads DEF EmptyInv
  <2> QED
    BY <2>4, <2>5, <2>6, <2>8 DEF FlowInv
<1>5. CASE StoreByte(p)
  <2>1. pc[p] = "store" /\ stored[p] < FrameLen[p]
    BY <1>5 DEF StoreByte
  <2>2. Len(items) < QCap
    BY <2>1, RoomForByte
  <2>3. /\ items' = Append(items, <<p, stored[p] + 1>>)
        /\ stored' = [stored EXCEPT ![p] = stored[p] + 1]
        /\ UNCHANGED <<pc, sendBuff, lag, owner, hold, suspend_thread, asleep>>
    BY <1>5, <2>2 DEF StoreByte, kernelVars, mutexVars
  <2>4. LagInv'
    BY <2>3 DEF LagInv
  <2>5. Numbered'
    <3> DEFINE b == <<p, stored[p] + 1>>
    <3>1. b \in Byte
      <4>1. stored[p] + 1 \in 1..FrameLen[p]
        BY <1>3, <2>1, LagFacts
      <4> QED
        BY <4>1 DEF Byte
    <3>2. Backlog' = Append(Backlog, b)
      <4>1. items \in Seq(Byte) /\ sendBuff \in Seq(Byte)
        BY DEF StreamTypes
      <4>2. sendBuff \o Append(items, b) = Append(sendBuff \o items, b)
        BY <3>1, <4>1, AppendLast
      <4> QED
        BY <2>3, <4>2 DEF Backlog
    <3>3. PICK g : Numbering(g, Backlog, stored)
      BY DEF Numbered
    <3>4. PICK h : Numbering(h, Append(Backlog, b), stored')
      BY <2>1, <2>3, <3>3, BacklogFacts, NextNumber
    <3>5. Numbering(h, Backlog, stored)'
      <4> HIDE DEF b
      <4> QED
        BY <2>3, <3>2, <3>4 DEF Numbering
    <3> QED
      BY <3>5 DEF Numbered, Numbering
  <2>6. OwnedInv'
    BY <2>3, OwnedKept
  <2>7. EmptyInv'
    BY <2>3 DEF EmptyInv, Waiting
  <2> QED
    BY <2>4, <2>5, <2>6, <2>7 DEF FlowInv
<1>6. CASE StoreRelease(p)
  <2>1. /\ pc[p] = "store" /\ pc' = [pc EXCEPT ![p] = "rest"] /\ Release(p)
        /\ lag' = [lag EXCEPT ![p] = lag[p] + 1]
        /\ UNCHANGED <<stored, items, sendBuff>>
    BY <1>6 DEF StoreRelease, Goto
  <2>2. pc'[p] = "rest" /\ \A u \in Thread : u # p => pc'[u] = pc[u]
    BY <1>1, <1>3, <2>1
  <2>3. asleep' = asleep
    BY <2>1 DEF Release, ReleaseNotOwner, ReleaseNested, ReleaseFree, ReleaseHandOver
  <2>4. /\ lag' \in [Producer -> Nat] /\ lag'[p] = lag[p] + 1
        /\ \A q \in Producer : q # p => lag'[q] = lag[q]
    BY <1>3, <2>1
  <2>5. LagInv'
    <3>1. lag'[p] <= MostLag(p)
      BY <1>3, <2>1, <2>4, LagFacts DEF LagInv
    <3> QED
      BY <2>2, <2>3, <2>4, <3>1, Threads DEF LagInv
  <2>6. Numbered'
    <3>1. Backlog' = Backlog
      BY <1>1, <2>1, <2>2, Threads DEF Backlog
    <3>2. \A q \in Producer :
            \/ lag'[q] = lag[q] + 1
            \/ /\ lag'[q] = lag[q]
               /\ pc[q] = "store" => pc'[q] = "store" /\ stored'[q] = stored[q]
      BY <2>1, <2>2, <2>4, Threads
    <3> QED
      BY <3>1, <3>2, NumberedKept
  <2>7. OwnedInv' /\ Waiting' \subseteq Waiting
    BY <1>1, <2>1, OwnedRelease
  <2>8. EmptyInv'
    BY <1>1, <2>1, <2>2, <2>7, Threads DEF EmptyInv
  <2> QED
    BY <2>5, <2>6, <2>7, <2>8 DEF FlowInv
<1>7. CASE NothingToStore(p) \/ Rest(p)
  <2>1. PICK l \in {"rest", "round"} : pc' = [pc EXCEPT ![p] = l]
    BY <1>7 DEF NothingToStore, Rest, Goto
  <2>2. /\ pc[p] \in {"round", "rest"} /\ (l = "round" => p \in asleep')
        /\ asleep \subseteq asleep'
        /\ UNCHANGED <<stored, items, sendBuff, lag, owner, hold, suspend_thread>>
    <3>1. CASE NothingToStore(p)
      <4>1. pc' = [pc EXCEPT ![p] = "rest"] /\ pc'[p] = "rest" /\ pc'[p] = l
        BY <1>3, <1>1, <2>1, <3>1 DEF NothingToStore, Goto
      <4> QED
        BY <3>1, <4>1 DEF NothingToStore, kernelVars, mutexVars
    <3>2. CASE Rest(p)
      BY <3>2 DEF Rest, Sleep, mutexVars
    <3> QED
      BY <1>7, <3>1, <3>2
  <2>3. pc'[p] = l /\ \A u \in Thread : u # p => pc'[u] = pc[u]
    BY <1>1, <1>3, <2>1
  <2>4. LagInv'
    BY <2>2, <2>3, Threads DEF LagInv
  <2>5. Numbered'
    <3>1. Backlog' = Backlog
      BY <1>1, <2>2, <2>3, Threads DEF Backlog
    <3>2. \A q \in Producer :
            /\ lag'[q] = lag[q]
            /\ pc[q] = "store" => pc'[q] = "store" /\ stored'[q] = stored[q]
      BY <2>2, <2>3, Threads
    <3> QED
      BY <3>1, <3>2, NumberedKept
  <2>6. OwnedInv'
    <3>1. \A t \in Thread : InQueue(t) => pc'[t] = pc[t]
      BY <2>2, <2>3 DEF InQueue
    <3> QED
      BY <2>2, <3>1, OwnedKept
  <2>7. EmptyInv'
    BY <1>1, <2>2, <2>3, Threads DEF EmptyInv, Waiting
  <2> QED
    BY <2>4, <2>5, <2>6, <2>7 DEF FlowInv
<1> QED
  BY <1>4, <1>5, <1>6, <1>7 DEF ProducerStep


\* The master's steps.
LEMMA FlowMaster ==
  ASSUME Capacity, KernelInv, LockInv, StreamInv, FlowInv, MasterStep
  PROVE  FlowInv'
<1> LagInv /\ Numbered /\ OwnedInv /\ EmptyInv /\ StreamTypes
  BY DEF FlowInv, StreamInv
<1>1. Ready(Master) /\ Master \in Thread
  BY Threads DEF MasterStep, TransmitNotPaired, TransmitTake, DrainByte, DrainEnd,
                 TxStart, TxPoll, TxDone, Rest, Runs
<1>2. Master \notin asleep /\ Master \notin Waiting
  BY <1>1 DEF Ready
<1>3. lag \in [Producer -> Nat] /\ pc \in [Thread -> Place]
  BY DEF LagInv, LockInv
<1>4. ASSUME NEW l, pc' = [pc EXCEPT ![Master] = l]
      PROVE  /\ pc'[Master] = l
             /\ \A u \in Thread : u # Master => pc'[u] = pc[u]
             /\ \A p \in Producer : pc'[p] = pc[p]
  BY <1>1, <1>3, <1>4, Threads
<1>5. CASE TransmitTake
  <2>1. /\ pc[Master] = "round" /\ pc' = [pc EXCEPT ![Master] = "drain"]
        /\ TakeForever(Master)
        /\ UNCHANGED <<stored, items, sendBuff, lag>>
    BY <1>5 DEF TransmitTake, Goto
  <2>2. pc'[Master] = "drain" /\ \A p \in Producer : pc'[p] = pc[p]
    BY <1>4, <2>1
  <2>3. asleep' = asleep
    BY <2>1 DEF TakeForever, TakeAgain, TakeFull, TakeFree, TakeWait
  <2>4. sendBuff = <<>> /\ sendBuff' = <<>>
    BY <2>1 DEF EmptyInv
  <2>5. LagInv'
    BY <2>1, <2>2, <2>3 DEF LagInv
  <2>6. Numbered'
    <3>1. Backlog' = Backlog
      <4>1. <<>> \o items = items
        BY DEF StreamTypes
      <4> QED
        BY <2>1, <2>2, <2>4, <4>1 DEF Backlog
    <3> QED
      BY <2>1, <2>2, <3>1, NumberedKept
  <2>7. OwnedInv'
    BY <1>1, <2>1, OwnedTake
  <2> QED
    BY <2>4, <2>5, <2>6, <2>7 DEF FlowInv, EmptyInv
<1>6. CASE DrainByte
  <2>1. /\ pc[Master] = "drain" /\ Len(items) > 0
        /\ sendBuff' = Append(sendBuff, Head(items)) /\ items' = Tail(items)
        /\ UNCHANGED <<pc, stored, lag, owner, hold, suspend_thread, asleep>>
    BY <1>6 DEF DrainByte, MoreToDrain, kernelVars, mutexVars
  <2>2. LagInv'
    BY <2>1 DEF LagInv
  <2>3. Numbered'
    <3>1. Backlog' = Backlog
      <4>1. items \in Seq(Byte) /\ sendBuff \in Seq(Byte) /\ items # <<>>
        BY <2>1 DEF StreamTypes
      <4>2. Append(sendBuff, Head(items)) \o Tail(items) = sendBuff \o items
        BY <4>1, MoveHead
      <4> QED
        BY <2>1, <4>2 DEF Backlog
    <3> QED
      BY <2>1, <3>1, NumberedKept
  <2>4. OwnedInv'
    BY <2>1, OwnedKept
  <2>5. EmptyInv'
    BY <1>2, <2>1 DEF EmptyInv, Waiting
  <2> QED
    BY <2>2, <2>3, <2>4, <2>5 DEF FlowInv
<1>7. CASE DrainEnd
  <2>1. /\ pc[Master] = "drain" /\ ~MoreToDrain /\ Release(Master)
        /\ pc' = [pc EXCEPT ![Master] = "send"]
        /\ lag' = [p \in Producer |-> 0]
        /\ UNCHANGED <<stored, items, sendBuff>>
    BY <1>7 DEF DrainEnd, Goto
  <2>2. pc'[Master] = "send" /\ \A p \in Producer : pc'[p] = pc[p]
    BY <1>4, <2>1
  <2>3. LagInv'
    BY <2>1, LagFacts DEF LagInv
  <2>4. Numbered'
    <3>1. Backlog' = <<>> /\ Len(<<>>) = 0
      BY <2>1, <2>2, DrainsAll DEF Backlog
    <3>2. 1..0 = {} /\ [i \in {} |-> 0] \in [{} -> Nat]
      OBVIOUS
    <3>3. Numbering([i \in {} |-> 0], Backlog, stored)'
      BY <3>1, <3>2 DEF Numbering
    <3> QED
      BY <3>1, <3>2, <3>3 DEF Numbered
  <2>5. OwnedInv' /\ Waiting' \subseteq Waiting
    BY <1>1, <2>1, OwnedRelease
  <2>6. EmptyInv'
    BY <1>2, <2>2, <2>5 DEF EmptyInv
  <2> QED
    BY <2>3, <2>4, <2>5, <2>6 DEF FlowInv
<1>8. CASE TransmitNotPaired \/ TxStart \/ TxPoll \/ TxDone \/ Rest(Master)
  <2>1. /\ pc[Master] \in {"round", "send", "irq", "rest"}
        /\ pc'[Master] \in {"round", "irq", "rest"}
        /\ \A u \in Thread : u # Master => pc'[u] = pc[u]
    BY <1>3, <1>4, <1>8 DEF TransmitNotPaired, TxStart, TxPoll, TxDone, Rest, Goto
  <2>2. /\ UNCHANGED <<stored, items, lag, owner, hold, suspend_thread>>
        /\ asleep' \in {asleep, asleep \cup {Master}}
    BY <1>8 DEF TransmitNotPaired, TxStart, TxPoll, TxDone, Rest, Sleep,
                kernelVars, mutexVars
  <2>3. pc'[Master] \in {"round", "rest"} => sendBuff' = <<>>
    BY <1>4, <1>8 DEF TransmitNotPaired, TxStart, TxPoll, TxDone, Rest, Goto, EmptyInv
  <2>4. LagInv'
    BY <2>1, <2>2, Threads DEF LagInv
  <2>5. Numbered'
    <3>1. Backlog' = Backlog
      BY <2>1, <2>2 DEF Backlog
    <3> QED
      BY <2>1, <2>2, <3>1, Threads, NumberedKept
  <2>6. OwnedInv'
    <3>1. \A t \in Thread : InQueue(t) => pc'[t] = pc[t]
      BY <2>1 DEF InQueue
    <3> QED
      BY <2>2, <3>1, OwnedKept
  <2>7. EmptyInv'
    BY <1>2, <2>2, <2>3 DEF EmptyInv, Waiting
  <2> QED
    BY <2>4, <2>5, <2>6, <2>7 DEF FlowInv
<1> QED
  BY <1>5, <1>6, <1>7, <1>8 DEF MasterStep

LEMMA FlowStep ==
  ASSUME Capacity, KernelInv, LockInv, StreamInv, FlowInv, [Next]_vars
  PROVE  FlowInv'
<1>1. ASSUME UNCHANGED <<pc, items, sendBuff, stored, lag, owner, hold, suspend_thread, asleep>>
      PROVE  FlowInv'
  <2>1. LagInv' /\ EmptyInv'
    BY <1>1 DEF FlowInv, LagInv, EmptyInv, Waiting
  <2>2. OwnedInv'
    BY <1>1, OwnedKept DEF FlowInv
  <2>3. Numbered'
    <3>1. Backlog' = Backlog
      BY <1>1 DEF Backlog
    <3> QED
      BY <1>1, <3>1, NumberedKept DEF FlowInv, StreamInv
  <2> QED
    BY <2>1, <2>2, <2>3 DEF FlowInv
<1>2. CASE UNCHANGED vars \/ RadioEnds \/ PairDone
  BY <1>1, <1>2 DEF vars, kernelVars, mutexVars, RadioEnds, PairDone
<1>3. ASSUME NEW t \in Thread, Wakes(t) PROVE FlowInv'
  <2>1. /\ asleep' = asleep \ {t} /\ t \in asleep
        /\ UNCHANGED <<pc, items, sendBuff, stored, lag, owner, hold, suspend_thread>>
    BY <1>3 DEF Wakes, Wake, mutexVars
  <2>2. t \in Producer => lag[t] < StallLag[t] \/ lag[t] < MaxLag[t]
    BY <1>3 DEF Wakes
  <2>3. t \in Producer => lag[t] < MostLag(t)
    BY <2>2, LagFacts DEF FlowInv, LagInv
  <2>4. LagInv'
    BY <2>1, <2>3 DEF FlowInv, LagInv
  <2>5. Numbered' /\ OwnedInv' /\ EmptyInv'
    BY <2>1 DEF FlowInv, Numbered, Numbering, Backlog, OwnedInv, EmptyInv, InQueue, Waiting
  <2> QED
    BY <2>4, <2>5 DEF FlowInv
<1> QED
  BY <1>2, <1>3, FlowProducer, FlowMaster DEF Next

LEMMA FlowInvariance ==
  ASSUME Capacity
  PROVE  Spec => [](KernelInv /\ LockInv /\ StreamInv /\ FlowInv)
<1>1. KernelInv /\ LockInv /\ StreamInv /\ [Next]_vars => StreamInv'
  BY StreamStep
<1>2. KernelInv /\ LockInv /\ StreamInv /\ FlowInv /\ [Next]_vars => FlowInv'
  BY FlowStep
<1> QED
  BY <1>1, <1>2, FlowInit, StreamInit, KernelInvHere, LockInvariance, PTL DEF Spec

\* If one packet takes all that the producers store between two drains, no thread
\* ever returns from StoreToTransmitQueue or TransmitHandle with the mutex: the
\* leak on a full queue is out of reach, for any threads and frames.
THEOREM NothingLeaks ==
  ASSUME Capacity
  PROVE  Spec => []NoLeak
<1>1. LockInv /\ FlowInv => NoLeak
  BY DEF LockInv, QueueExclusive, FlowInv, OwnedInv, NoLeak
<1> QED
  BY <1>1, FlowInvariance, PTL


-----------------------------------------------------------------------------
\* Between two packets the stream is cut where a frame ends.
PacketInv ==
  /\ PacketsOfWholeFrames
  /\ last # <<>> => last[2] = FrameLen[last[1]]
  /\ last = <<>> /\ Stream # <<>> => Stream[1][2] = 1

LEMMA PacketKept ==
  ASSUME PacketInv, UNCHANGED <<last, sendBuff>>, Stream' = Stream,
         pc'[Master] \in {"send", "irq"} => pc[Master] \in {"send", "irq"}
  PROVE  PacketInv'
BY DEF PacketInv, PacketsOfWholeFrames

\* The first byte ever stored begins a frame.
LEMMA PacketByte ==
  ASSUME LockInv, StreamInv, PacketInv, NEW p \in Producer, p \notin Waiting, StoreByte(p)
  PROVE  PacketInv'
<1>1. /\ pc[p] = "store" /\ stored[p] < FrameLen[p] /\ stored \in [Producer -> Nat]
      /\ UNCHANGED <<last, sendBuff>>
  BY DEF StoreByte, StreamInv, StreamTypes
<1>2. /\ items \in Seq(Byte) /\ sendBuff \in Seq(Byte) /\ Stream \in Seq(Byte)
  BY StreamIsSeq DEF StreamInv, StreamTypes
<1>3. p # Master /\ pc'[Master] = pc[Master]
  BY Threads DEF StoreByte, Goto, LockInv
<1>4. CASE ~(Len(items) < QCap)
  <2>1. items' = items
    BY <1>4 DEF StoreByte
  <2> QED
    BY <1>1, <1>3, <2>1, PacketKept DEF Stream
<1>5. CASE Len(items) < QCap
  <2> DEFINE b == <<p, stored[p] + 1>>
             pre == (IF last = <<>> THEN <<>> ELSE <<last>>) \o sendBuff
  <2>1. items' = Append(items, b)
    BY <1>5 DEF StoreByte
  <2>2. b \in Byte
    <3>1. stored[p] + 1 \in 1..FrameLen[p]
      BY <1>1, SizesAssumption
    <3> QED
      BY <3>1 DEF Byte
  <2>3. pre \in Seq(Byte)
    BY <1>2 DEF StreamInv, StreamTypes
  <2>4. Stream' = Append(Stream, b)
    <3>1. Stream = pre \o items /\ Stream' = pre \o Append(items, b)
      BY <1>1, <2>1 DEF Stream
    <3> HIDE DEF pre, b
    <3> QED
      BY <1>2, <2>2, <2>3, <3>1, AppendLast
  <2>5. last = <<>> => Stream'[1][2] = 1
    <3> SUFFICES ASSUME last = <<>> PROVE Stream'[1][2] = 1
      OBVIOUS
    <3>1. CASE Stream # <<>>
      <4>1. Stream'[1] = Stream[1]
        BY <1>2, <2>2, <2>4, <3>1
      <4> QED
        BY <3>1, <4>1 DEF PacketInv
    <3>2. CASE Stream = <<>>
      <4>1. InQueue(p)
        BY <1>1 DEF InQueue
      <4>2. stored[p] = 0
        BY <3>2, <4>1 DEF StreamInv, EndsIn
      <4>3. Stream'[1] = b
        BY <2>2, <2>4, <3>2
      <4> QED
        BY <4>2, <4>3
    <3> QED
      BY <3>1, <3>2
  <2> QED
    BY <1>1, <1>3, <2>5 DEF PacketInv, PacketsOfWholeFrames
<1> QED
  BY <1>4, <1>5

\* A drain ends with an empty queue and no frame begun: the packet ends with a
\* frame, and the one before ended with one too.
LEMMA PacketEnds ==
  ASSUME Capacity, LockInv, StreamInv, FlowInv, PacketInv, Master \notin Waiting, DrainEnd
  PROVE  PacketInv'
<1>1. /\ pc[Master] = "drain" /\ ~MoreToDrain /\ UNCHANGED <<last, sendBuff, items>>
  BY DEF DrainEnd
<1>2. items = <<>>
  BY <1>1, DrainsAll DEF StreamInv, FlowInv
<1>3. owner = Master
  BY <1>1, Threads DEF LockInv, QueueExclusive, InQueue
<1>4. Whole /\ StreamWellFormed
  BY <1>3, Threads DEF StreamInv
<1>5. sendBuff \in Seq(Byte) /\ last \in Byte \cup {<<>>}
  BY DEF StreamInv, StreamTypes
<1>6. Stream' = Stream
  BY <1>1 DEF Stream
<1>7. ASSUME sendBuff # <<>>
      PROVE  /\ sendBuff[1][2] = 1
             /\ sendBuff[Len(sendBuff)][2] = FrameLen[sendBuff[Len(sendBuff)][1]]
  <2> DEFINE m == Len(sendBuff)
  <2>1. m \in Nat /\ m > 0
    BY <1>5, <1>7
  <2>2. CASE last = <<>>
    <3>1. Stream = sendBuff
      BY <1>2, <1>5, <2>2 DEF Stream
    <3> QED
      BY <1>4, <1>7, <2>2, <3>1 DEF PacketInv, Whole
  <2>3. CASE last # <<>>
    <3>1. /\ Len(Stream) = m + 1 /\ Stream[1] = last /\ Stream[2] = sendBuff[1]
          /\ Stream[m + 1] = sendBuff[m] /\ Stream # <<>>
      <4>1. Stream = <<last>> \o sendBuff
        BY <1>2, <1>5, <2>3 DEF Stream
      <4>2. <<last>> \in Seq(Byte)
        BY <1>5, <2>3
      <4> QED
        BY <1>5, <2>1, <4>1, <4>2
    <3>2. Follows(Stream[1], Stream[2])
      <4>1. 1 \in 1 .. Len(Stream) - 1
        BY <2>1, <3>1
      <4>2. Follows(Stream[1], Stream[1 + 1])
        BY <1>4, <4>1 DEF StreamWellFormed
      <4> QED
        BY <4>2
    <3>3. last[2] = FrameLen[last[1]]
      BY <2>3 DEF PacketInv
    <3> QED
      BY <1>4, <3>1, <3>2, <3>3 DEF Follows, Whole
  <2> QED
    BY <2>2, <2>3
<1>8. PacketsOfWholeFrames'
  BY <1>1, <1>7 DEF PacketsOfWholeFrames
<1> QED
  BY <1>1, <1>6, <1>8 DEF PacketInv

LEMMA PacketSent ==
  ASSUME LockInv, StreamInv, PacketInv, TxDone
  PROVE  PacketInv'
<1>1. /\ pc[Master] = "irq" /\ sendBuff' = <<>> /\ items' = items
      /\ last' = IF sendBuff = <<>> THEN last ELSE sendBuff[Len(sendBuff)]
  BY DEF TxDone
<1>2. sendBuff \in Seq(Byte)
  BY DEF StreamInv, StreamTypes
<1>3. CASE sendBuff = <<>>
  <2>1. Stream' = Stream /\ last' = last
    BY <1>1, <1>3 DEF Stream
  <2> QED
    BY <1>1, <2>1 DEF PacketInv, PacketsOfWholeFrames
<1>4. CASE sendBuff # <<>>
  <2> DEFINE b == sendBuff[Len(sendBuff)]
  <2>1. last' = b /\ b \in Byte
    BY <1>1, <1>2, <1>4
  <2>2. b # <<>>
    <3>1. b = <<b[1], b[2]>>
      BY <2>1, ByteParts
    <3>2. \A x, y : <<x, y>> # <<>>
      OBVIOUS
    <3> HIDE DEF b
    <3> QED
      BY <3>1, <3>2
  <2>3. b[2] = FrameLen[b[1]]
    BY <1>1, <1>4 DEF PacketInv, PacketsOfWholeFrames
  <2> QED
    BY <1>1, <2>1, <2>2, <2>3 DEF PacketInv, PacketsOfWholeFrames
<1> QED
  BY <1>3, <1>4

LEMMA PacketStep ==
  ASSUME Capacity, KernelInv, LockInv, StreamInv, FlowInv, PacketInv, [Next]_vars
  PROVE  PacketInv'
<1>1. pc \in [Thread -> Place] /\ Master \in Thread
  BY Threads DEF LockInv
<1>2. ASSUME UNCHANGED <<items, sendBuff, last>>,
             pc'[Master] \in {"send", "irq"} => pc[Master] \in {"send", "irq"}
      PROVE  PacketInv'
  BY <1>2, PacketKept DEF Stream
<1>3. CASE UNCHANGED vars
  BY <1>2, <1>3 DEF vars
<1>4. ASSUME NEW p \in Producer, ProducerStep(p) PROVE PacketInv'
  <2>1. CASE StoreByte(p)
    <3>1. p \notin Waiting
      BY <2>1 DEF StoreByte, Runs, Ready
    <3> QED
      BY <2>1, <3>1, PacketByte
  <2>2. CASE StoreTake(p) \/ StoreRelease(p) \/ NothingToStore(p) \/ Rest(p)
    <3>1. UNCHANGED <<items, sendBuff, last>>
      BY <2>2 DEF StoreTake, StoreRelease, NothingToStore, Rest
    <3>2. pc'[Master] = pc[Master]
      BY <1>1, <2>2, Threads DEF StoreTake, StoreRelease, NothingToStore, Rest, Goto
    <3> QED
      BY <1>2, <3>1, <3>2
  <2> QED
    BY <1>4, <2>1, <2>2 DEF ProducerStep
<1>5. CASE MasterStep
  <2>1. CASE DrainByte
    <3>1. /\ pc[Master] = "drain" /\ Len(items) > 0 /\ UNCHANGED <<pc, last>>
          /\ sendBuff' = Append(sendBuff, Head(items)) /\ items' = Tail(items)
      BY <2>1 DEF DrainByte, MoreToDrain
    <3>2. Stream' = Stream
      <4> DEFINE pre == IF last = <<>> THEN <<>> ELSE <<last>>
      <4>1. /\ pre \in Seq(Byte) /\ items \in Seq(Byte) /\ sendBuff \in Seq(Byte)
            /\ items # <<>> /\ pre \o sendBuff \in Seq(Byte)
        BY <3>1 DEF StreamInv, StreamTypes
      <4>2. Head(items) \in Byte /\ Tail(items) \in Seq(Byte)
        BY <4>1
      <4>3. Stream = (pre \o sendBuff) \o items
        BY DEF Stream
      <4>4. Stream' = (pre \o Append(sendBuff, Head(items))) \o Tail(items)
        BY <3>1 DEF Stream
      <4> HIDE DEF pre
      <4>5. pre \o Append(sendBuff, Head(items)) = Append(pre \o sendBuff, Head(items))
        BY <4>1, <4>2, AppendLast
      <4>6. Append(pre \o sendBuff, Head(items)) \o Tail(items) = (pre \o sendBuff) \o items
        BY <4>1, MoveHead
      <4> QED
        BY <4>3, <4>4, <4>5, <4>6
    <3> QED
      BY <3>1, <3>2 DEF PacketInv, PacketsOfWholeFrames
  <2>2. CASE DrainEnd
    <3>1. Master \notin Waiting
      BY <2>2 DEF DrainEnd, Runs, Ready
    <3> QED
      BY <2>2, <3>1, PacketEnds
  <2>3. CASE TxDone
    BY <2>3, PacketSent
  <2>4. CASE TransmitNotPaired \/ TransmitTake \/ TxStart \/ TxPoll \/ Rest(Master)
    <3>1. UNCHANGED <<items, sendBuff, last>>
      BY <2>4 DEF TransmitNotPaired, TransmitTake, TxStart, TxPoll, Rest
    <3>2. pc'[Master] \in {"send", "irq"} => pc[Master] \in {"send", "irq"}
      BY <1>1, <2>4 DEF TransmitNotPaired, TransmitTake, TxStart, TxPoll, Rest, Goto
    <3> QED
      BY <1>2, <3>1, <3>2
  <2> QED
    BY <1>5, <2>1, <2>2, <2>3, <2>4 DEF MasterStep
<1>6. CASE (\E t \in Thread : Wakes(t)) \/ RadioEnds \/ PairDone
  BY <1>2, <1>6 DEF Wakes, RadioEnds, PairDone
<1> QED
  BY <1>3, <1>4, <1>5, <1>6 DEF Next

\* Under the same timing no packet is cut inside a frame: what goes on the air
\* begins with the first byte of a frame and ends with the last byte of one.
THEOREM PacketsAreWhole ==
  ASSUME Capacity
  PROVE  Spec => []PacketsOfWholeFrames
<1>1. Init => PacketInv
  <2> SUFFICES ASSUME Init PROVE PacketInv
    OBVIOUS
  <2>1. sendBuff = <<>> /\ last = <<>> /\ items = <<>>
    BY DEF Init
  <2>2. Stream = <<>>
    BY <2>1 DEF Stream
  <2> QED
    BY <2>1, <2>2 DEF PacketInv, PacketsOfWholeFrames
<1>2. KernelInv /\ LockInv /\ StreamInv /\ FlowInv /\ PacketInv /\ [Next]_vars => PacketInv'
  BY PacketStep
<1>3. PacketInv => PacketsOfWholeFrames
  BY DEF PacketInv
<1> QED
  BY <1>1, <1>2, <1>3, FlowInvariance, PTL DEF Spec


-----------------------------------------------------------------------------
\* The premise in numbers: a producer's share of Load is its frames times their
\* bytes.
Share(p) == {<<p, f, k>> : f \in 1..MostLag(p), k \in 1..FrameLen[p]}

LEMMA ShareSize ==
  ASSUME NEW p \in Producer
  PROVE  IsFiniteSet(Share(p)) /\ Cardinality(Share(p)) = MostLag(p) * FrameLen[p]
<1> DEFINE m == MostLag(p)
           n == FrameLen[p]
           grid == (1..m) \X (1..n)
           h == [g \in grid |-> <<p, g[1], g[2]>>]
<1>1. m \in Nat /\ n \in Nat
  BY LagFacts, SizesAssumption
<1>2. /\ IsFiniteSet(1..m) /\ Cardinality(1..m) = m
      /\ IsFiniteSet(1..n) /\ Cardinality(1..n) = n
  <2> HIDE DEF m, n
  <2> QED
    BY <1>1, FS_Interval
<1>3. IsFiniteSet(grid) /\ Cardinality(grid) = m * n
  <2> HIDE DEF m, n
  <2> QED
    BY <1>2, FS_Product
<1>4. h \in Bijection(grid, Share(p))
  <2>1. h \in [grid -> Share(p)]
    BY DEF Share
  <2>2. \A x, y \in grid : h[x] = h[y] => x = y
    OBVIOUS
  <2>3. \A s \in Share(p) : \E x \in grid : h[x] = s
    <3>1. TAKE s \in Share(p)
    <3>2. PICK f \in 1..m, k \in 1..n : s = <<p, f, k>>
      BY DEF Share
    <3>3. <<f, k>> \in grid /\ h[<<f, k>>] = <<p, f, k>>
      OBVIOUS
    <3> QED
      BY <3>2, <3>3
  <2>4. DOMAIN h = grid
    OBVIOUS
  <2> HIDE DEF h, grid
  <2> QED
    BY <2>1, <2>2, <2>3, <2>4 DEF Bijection, Injection, Surjection, IsInjective
<1>5. ExistsBijection(grid, Share(p))
  BY <1>4 DEF ExistsBijection
<1> QED
  BY <1>3, <1>5, FS_Bijection

\* With two producers all that they store between two drains is the sum of what
\* each does.
LEMMA CapacityOfTwo ==
  ASSUME NEW a, NEW b, a # b, Producer = {a, b},
         MostLag(a) * FrameLen[a] + MostLag(b) * FrameLen[b] <= ChunkMax,
         MostLag(a) * FrameLen[a] + MostLag(b) * FrameLen[b] <= QCap
  PROVE  Capacity
<1> DEFINE x == MostLag(a) * FrameLen[a]
           y == MostLag(b) * FrameLen[b]
<1>1. /\ IsFiniteSet(Share(a)) /\ Cardinality(Share(a)) = x
      /\ IsFiniteSet(Share(b)) /\ Cardinality(Share(b)) = y
  BY ShareSize
<1>2. x \in Nat /\ y \in Nat
  BY LagFacts, SizesAssumption
<1>3. Load = Share(a) \cup Share(b)
  BY DEF Load, Share
<1>4. Share(a) \cap Share(b) = {}
  BY DEF Share
<1>5. Cardinality(Share(a) \cap Share(b)) = 0
  BY <1>4, FS_EmptySet
<1>6. /\ IsFiniteSet(Load)
      /\ Cardinality(Load) =
           Cardinality(Share(a)) + Cardinality(Share(b)) - Cardinality(Share(a) \cap Share(b))
  BY <1>1, <1>3, FS_Union
<1> HIDE DEF x, y
<1>7. Cardinality(Load) = x + y
  BY <1>1, <1>2, <1>5, <1>6
<1>8. x + y <= ChunkMax /\ x + y <= QCap
  BY DEF x, y
<1> QED
  BY <1>6, <1>7, <1>8 DEF Capacity

\* The remote as built: second_task wakes twice between two drains for frames of
\* 13 bytes, the display once for one of 6; a packet takes 32 bytes and the queue
\* 255 (src/module/remote.c:135, src/module/transmit_packet.c:23 and 52).  Nothing is leaked or cut.
THEOREM TheRemoteHasRoom ==
  ASSUME NEW display, NEW second, display # second, Producer = {display, second},
         FrameLen[second] = 13, MaxLag[second] = 2, StallLag[second] <= 2,
         FrameLen[display] = 6, MaxLag[display] = 1, StallLag[display] <= 1,
         ChunkMax = 32, QCap = 255
  PROVE  Spec => [](NoLeak /\ PacketsOfWholeFrames)
<1>1. MostLag(second) = 2 /\ MostLag(display) = 1
  BY SizesAssumption DEF MostLag
<1>2. Capacity
  BY <1>1, CapacityOfTwo
<1> QED
  BY <1>2, NothingLeaks, PacketsAreWhole, PTL


-----------------------------------------------------------------------------
\* StoreToTransmitQueue and TransmitHandle implement the queue of whole frames,
\* whatever the timers do.

\* The last bytes of the queue are the part stored of the frame they belong to.
BegunInv ==
  /\ Begun <= Len(items)
  /\ \A i \in 1..Begun : items[Len(items) - Begun + i] = <<items[Len(items)][1], i>>
  /\ \A p \in Producer : InQueue(p) /\ stored[p] > 0 => items # <<>>

\* While the master drains, a packet and the queue hold what the queue held.
RoomInv ==
  /\ pc[Master] \notin {"drain", "send", "irq"} => sendBuff = <<>>
  /\ Master \in Waiting => sendBuff = <<>>
  /\ pc[Master] = "drain" /\ Master \notin Waiting => Len(items) + Len(sendBuff) <= QCap

AtomicInv == BegunInv /\ RoomInv /\ BoundsInv

LEMMA ItemsFacts ==
  ASSUME StreamTypes
  PROVE  /\ items \in Seq(Byte) /\ Len(items) \in Nat
         /\ sendBuff \in Seq(Byte) /\ Len(sendBuff) \in Nat
         /\ items # <<>> => /\ Len(items) \in 1..Len(items) /\ items[Len(items)] \in Byte
         /\ items = <<>> => Len(items) = 0
BY DEF StreamTypes

\* How many bytes of a frame the queue ends with is less than the frame has.
LEMMA BegunFacts ==
  ASSUME StreamTypes
  PROVE  /\ Begun \in Nat
         /\ Begun > 0 => /\ items # <<>> /\ items[Len(items)][1] \in Producer
                         /\ items[Len(items)][2] = Begun
                         /\ Begun < FrameLen[items[Len(items)][1]]
<1>1. CASE items = <<>>
  BY <1>1 DEF Begun
<1>2. CASE items # <<>>
  <2> DEFINE b == items[Len(items)]
  <2>1. b[1] \in Producer /\ b[2] \in 1..FrameLen[b[1]] /\ FrameLen[b[1]] \in Nat
    BY <1>2, ItemsFacts, ByteParts, SizesAssumption
  <2>2. Begun = IF b[2] = FrameLen[b[1]] THEN 0 ELSE b[2]
    BY <1>2 DEF Begun
  <2> HIDE DEF b
  <2>3. Begun \in Nat /\ (Begun > 0 => b[2] = Begun /\ Begun < FrameLen[b[1]])
    BY <2>1, <2>2
  <2> QED
    BY <1>2, <2>1, <2>3 DEF b
<1> QED
  BY <1>1, <1>2

LEMMA CompleteFacts ==
  ASSUME StreamTypes, BegunInv
  PROVE  /\ Complete \in Seq(Byte) /\ Len(Complete) = Len(items) - Begun
         /\ \A i \in 1 .. Len(items) - Begun : Complete[i] = items[i]
         /\ Begun = 0 => Complete = items
<1>1. /\ items \in Seq(Byte) /\ Len(items) \in Nat /\ Begun \in Nat
      /\ Begun <= Len(items)
  BY ItemsFacts, BegunFacts DEF BegunInv
<1>2. Len(items) - Begun \in 0..Len(items)
  BY <1>1
<1> DEFINE n == Len(items) - Begun
<1>3. SubSeq(items, 1, n) = [i \in 1..n |-> items[i]]
  BY <1>1, <1>2
<1>4. Complete = [i \in 1..n |-> items[i]] /\ n \in Nat
  BY <1>2, <1>3 DEF Complete
<1>5. \A i \in 1..n : items[i] \in Byte
  BY <1>1, <1>2
<1> HIDE DEF n
<1>6. Complete \in Seq(Byte) /\ Len(Complete) = n /\ \A i \in 1..n : Complete[i] = items[i]
  BY <1>4, <1>5
<1>7. ASSUME Begun = 0 PROVE Complete = items
  <2>1. n = Len(items)
    BY <1>1, <1>7 DEF n
  <2> QED
    BY <1>1, <1>6, <2>1, SeqEqual
<1> QED
  BY <1>6, <1>7 DEF n

\* The end of the stream is the end of the queue, if it holds anything.
LEMMA WholeItems ==
  ASSUME StreamTypes, items # <<>>
  PROVE  /\ Stream # <<>> /\ Stream[Len(Stream)] = items[Len(items)]
         /\ Whole => Begun = 0
<1> DEFINE pre == IF last = <<>> THEN <<>> ELSE <<last>>
           x == pre \o sendBuff
<1>1. x \in Seq(Byte) /\ items \in Seq(Byte) /\ Len(items) \in Nat /\ Len(items) > 0
  BY ItemsFacts DEF StreamTypes
<1>2. Stream = x \o items
  BY DEF Stream
<1> HIDE DEF x
<1>3. Len(Stream) = Len(x) + Len(items) /\ Len(x) \in Nat
  BY <1>1, <1>2
<1>4. Stream[Len(Stream)] = items[Len(items)] /\ Stream # <<>>
  BY <1>1, <1>2, <1>3
<1> QED
  BY <1>4 DEF Whole, Begun

-----------------------------------------------------------------------------
\* When the master owns the mutex, or nobody does, no frame is begun.
LEMMA NotBegun ==
  ASSUME StreamInv, owner \notin Producer
  PROVE  Begun = 0
<1>1. CASE items = <<>>
  BY <1>1 DEF Begun
<1>2. CASE items # <<>>
  BY <1>2, WholeItems DEF StreamInv
<1> QED
  BY <1>1, <1>2

\* A full queue has no room for some frame.
LEMMA NoRoom ==
  ASSUME StreamTypes, BegunInv, Len(items) = QCap, NEW q \in Producer
  PROVE  \E p \in Producer : Len(Complete) + Len(FrameOf(p)) > QCap
<1>1. /\ Len(Complete) = QCap - Begun /\ Begun \in Nat /\ QCap \in Nat
      /\ \A p \in Producer : FrameLen[p] \in Nat \ {0}
  BY CompleteFacts, BegunFacts, SizesAssumption
<1>2. \A p \in Producer : Len(FrameOf(p)) = FrameLen[p]
  BY <1>1 DEF FrameOf
<1>3. CASE Begun = 0
  BY <1>1, <1>2, <1>3
<1>4. CASE Begun > 0
  BY <1>1, <1>2, <1>4, BegunFacts
<1> QED
  BY <1>1, <1>3, <1>4

\* A step that completes no frame and moves no byte to the packet jams the queue,
\* if it leaves a thread with bytes for which there is no room, or is none.
LEMMA JamOrNothing ==
  ASSUME Complete' = Complete, sendBuff' = sendBuff,
         pc'[Master] \in {"send", "irq"} <=> pc[Master] \in {"send", "irq"},
         Jammed => Jammed',
         Jammed' => \E p \in Producer : Len(Complete) + Len(FrameOf(p)) > QCap
  PROVE  [FrameQ!Next]_(FrameQ!queueVars)
<1>0. Jammed \in BOOLEAN /\ Jammed' \in BOOLEAN
  BY DEF Jammed
<1>1. CASE Jammed' = Jammed
  BY <1>1 DEF FrameQ!queueVars
<1>2. CASE Jammed' # Jammed
  <2>1. Jammed'
    BY <1>0, <1>2
  <2>2. PICK p \in Producer : Len(Complete) + Len(FrameOf(p)) > QCap
    BY <2>1
  <2>3. FrameQ!Jam(FrameOf(p))
    BY <2>1, <2>2 DEF FrameQ!Jam
  <2> QED
    BY <2>2, <2>3 DEF FrameQ!Next
<1> QED
  BY <1>1, <1>2

\* Most steps leave the queue and the packet alone.
LEMMA QuietFrames ==
  ASSUME StreamTypes, BegunInv, UNCHANGED <<items, sendBuff>>,
         pc'[Master] \in {"send", "irq"} <=> pc[Master] \in {"send", "irq"},
         Jammed => Jammed'
  PROVE  [FrameQ!Next]_(FrameQ!queueVars)
<1>1. Complete' = Complete
  BY DEF Complete, Begun
<1>2. Jammed' => \E p \in Producer : Len(Complete) + Len(FrameOf(p)) > QCap
  <2> SUFFICES ASSUME Jammed' PROVE \E p \in Producer : Len(Complete) + Len(FrameOf(p)) > QCap
    OBVIOUS
  <2>1. Len(items) = QCap /\ owner' \in Producer
    BY DEF Jammed
  <2> QED
    BY <2>1, NoRoom
<1> QED
  BY <1>1, <1>2, JamOrNothing


\* Steps that store and take no byte: the frame begun stays what it is.
LEMMA BegunKept ==
  ASSUME BegunInv, UNCHANGED items,
         \A p \in Producer : InQueue(p)' /\ stored'[p] > 0 => InQueue(p) /\ stored[p] > 0
  PROVE  BegunInv'
BY DEF BegunInv, Begun

\* One EnQueue, when there is room: of the last byte of a frame, or of another.
LEMMA StoreByteFrames ==
  ASSUME StreamInv, AtomicInv, LockInv, NEW p \in Producer, p \notin Waiting,
         StoreByte(p), Len(items) < QCap
  PROVE  BegunInv' /\ RoomInv' /\ [FrameQ!Next]_(FrameQ!queueVars)
<1> DEFINE k == stored[p]
           b == <<p, k + 1>>
           n == Len(items)
<1> BegunInv /\ RoomInv /\ BoundsInv /\ StreamTypes
  BY DEF AtomicInv, StreamInv
<1>1. /\ pc[p] = "store" /\ k < FrameLen[p] /\ items' = Append(items, b)
      /\ stored' = [stored EXCEPT ![p] = k + 1]
      /\ UNCHANGED <<pc, sendBuff, owner, suspend_thread>>
  BY DEF StoreByte, kernelVars, mutexVars
<1>2. owner = p /\ InQueue(p) /\ p # Master /\ p \in Thread
  BY <1>1, Threads DEF LockInv, QueueExclusive, InQueue
<1>3. /\ k \in Nat /\ FrameLen[p] \in Nat /\ QCap \in Nat /\ n \in Nat
      /\ stored'[p] = k + 1
  <2>1. stored \in [Producer -> Nat] /\ n \in Nat
    BY ItemsFacts DEF StreamTypes
  <2>2. stored'[p] = k + 1
    BY <1>1, <2>1
  <2> QED
    BY <2>1, <2>2, SizesAssumption
<1>4. Begun = k
  <2>1. CASE k = 0
    <3>1. Whole
      BY <1>2, <1>3, <2>1 DEF StreamInv
    <3>2. items # <<>> => Begun = 0
      BY <3>1, WholeItems
    <3>3. items = <<>> => Begun = 0
      BY DEF Begun
    <3> QED
      BY <2>1, <3>2, <3>3
  <2>2. CASE k > 0
    <3>1. items # <<>>
      BY <1>2, <2>2 DEF BegunInv
    <3>2. Stream[Len(Stream)] = <<p, k>>
      BY <1>2, <1>3, <2>2 DEF StreamInv, EndsIn
    <3>3. items[n] = <<p, k>>
      BY <3>1, <3>2, WholeItems
    <3> QED
      BY <1>1, <1>3, <3>1, <3>3 DEF Begun
  <2> QED
    BY <1>3, <2>1, <2>2
<1>5. /\ k <= n /\ \A i \in 1..k : items[n - k + i] = <<p, i>>
  <2>1. k > 0 => items[n][1] = p
    <3> SUFFICES ASSUME k > 0 PROVE items[n][1] = p
      OBVIOUS
    <3>1. items # <<>>
      BY <1>2 DEF BegunInv
    <3>2. Stream[Len(Stream)] = <<p, k>>
      BY <1>2, <1>3 DEF StreamInv, EndsIn
    <3> QED
      BY <3>1, <3>2, WholeItems
  <2> QED
    BY <1>3, <1>4, <2>1 DEF BegunInv
<1>6. b \in Byte
  <2>1. k + 1 \in 1..FrameLen[p]
    BY <1>1, <1>3
  <2> QED
    BY <2>1 DEF Byte
<1>7. items \in Seq(Byte)
  BY ItemsFacts
<1> HIDE DEF b, k, n
<1>8. /\ items' \in Seq(Byte) /\ items' # <<>> /\ Len(items') = n + 1
      /\ items'[n + 1] = b /\ \A i \in 1..n : items'[i] = items[i]
  BY <1>1, <1>3, <1>6, <1>7 DEF n
<1>9. b[1] = p /\ b[2] = k + 1
  BY DEF b
<1>10. Begun' = IF k + 1 = FrameLen[p] THEN 0 ELSE k + 1
  BY <1>8, <1>9 DEF Begun
<1>11. \A i \in 1 .. k + 1 : items'[n - k + i] = <<p, i>>
  <2> TAKE i \in 1 .. k + 1
  <2>1. CASE i = k + 1
    <3>1. n - k + i = n + 1
      BY <1>3, <2>1
    <3> QED
      BY <1>8, <2>1, <3>1 DEF b
  <2>2. CASE i # k + 1
    <3>1. i \in 1..k /\ n - k + i \in 1..n
      BY <1>3, <1>5, <2>2
    <3> QED
      BY <1>5, <1>8, <3>1
  <2> QED
    BY <2>1, <2>2
<1>12. BegunInv'
  <2>1. Begun' <= Len(items')
    BY <1>3, <1>5, <1>8, <1>10
  <2>2. \A i \in 1..Begun' : items'[Len(items') - Begun' + i] = <<items'[Len(items')][1], i>>
    <3>1. CASE k + 1 = FrameLen[p]
      BY <1>10, <3>1
    <3>2. CASE k + 1 # FrameLen[p]
      <4>1. Begun' = k + 1 /\ (n + 1) - (k + 1) = n - k
        BY <1>3, <1>10, <3>2
      <4> QED
        BY <1>3, <1>8, <1>9, <1>11, <4>1
    <3> QED
      BY <3>1, <3>2
  <2> QED
    BY <1>8, <2>1, <2>2 DEF BegunInv
<1>13. RoomInv'
  <2>1. ~(pc[Master] = "drain" /\ Master \notin Waiting)
    BY <1>2, Threads DEF LockInv, QueueExclusive, InQueue
  <2> QED
    BY <1>1, <2>1 DEF RoomInv, Waiting
<1>14. /\ Len(Complete) = n - k /\ Complete \in Seq(Byte)
       /\ \A i \in 1 .. n - k : Complete[i] = items[i]
  BY <1>4, CompleteFacts DEF n
<1>15. Len(FrameOf(p)) = FrameLen[p] /\ \A i \in 1..FrameLen[p] : FrameOf(p)[i] = <<p, i>>
  BY <1>3 DEF FrameOf
<1>16. ~Jammed
  BY DEF Jammed
<1>17. CASE k + 1 = FrameLen[p]
  <2>1. Complete' = Complete \o FrameOf(p)
    <3>1. FrameOf(p) \in Seq(Byte)
      BY <1>3 DEF FrameOf, Byte
    <3> DEFINE l == Complete \o FrameOf(p)
    <3>2. /\ l \in Seq(Byte) /\ Len(l) = n + 1
          /\ \A i \in 1 .. n + 1 :
               l[i] = IF i <= n - k THEN Complete[i] ELSE FrameOf(p)[i - (n - k)]
      BY <1>3, <1>5, <1>14, <1>15, <1>17, <3>1
    <3>3. Complete' = items'
      <4>1. Begun' = 0
        BY <1>10, <1>17
      <4>2. SubSeq(items', 1, Len(items')) = items'
        BY <1>8
      <4>3. Len(items') - 0 = Len(items')
        BY <1>3, <1>8
      <4> QED
        BY <4>1, <4>2, <4>3 DEF Complete
    <3>4. \A i \in 1 .. n + 1 : items'[i] = l[i]
      <4> TAKE i \in 1 .. n + 1
      <4>1. CASE i <= n - k
        BY <1>3, <1>5, <1>8, <1>14, <3>2, <4>1
      <4>2. CASE ~(i <= n - k)
        <5>1. i - (n - k) \in 1 .. k + 1 /\ n - k + (i - (n - k)) = i
          BY <1>3, <1>5, <4>2
        <5>2. items'[n - k + (i - (n - k))] = <<p, i - (n - k)>>
          BY <1>11, <5>1
        <5>3. l[i] = FrameOf(p)[i - (n - k)]
          BY <3>2, <4>2
        <5>4. FrameOf(p)[i - (n - k)] = <<p, i - (n - k)>>
          BY <1>15, <1>17, <5>1
        <5> QED
          BY <5>1, <5>2, <5>3, <5>4
      <4> QED
        BY <4>1, <4>2
    <3> HIDE DEF l
    <3>5. items' = l
      BY <1>8, <3>2, <3>4, SeqEqual
    <3> QED
      BY <3>3, <3>5 DEF l
  <2>2. Len(Complete) + Len(FrameOf(p)) <= QCap
    BY <1>3, <1>5, <1>14, <1>15, <1>17 DEF n
  <2>3. ~Jammed' /\ Jammed' = Jammed
    <3>1. ~Jammed'
      BY <1>1, <1>2, <1>3, <1>17 DEF Jammed
    <3> QED
      BY <1>16, <3>1 DEF Jammed
  <2>4. FrameQ!Store(FrameOf(p))
    BY <1>1, <1>16, <2>1, <2>2, <2>3 DEF FrameQ!Store
  <2>5. FrameQ!Next
    BY <2>4 DEF FrameQ!Next
  <2> QED
    BY <1>12, <1>13, <2>5
<1>18. CASE k + 1 # FrameLen[p]
  <2>1. Complete' = Complete
    <3>1. Begun' = k + 1 /\ (n + 1) - (k + 1) = n - k
      BY <1>3, <1>10, <1>18
    <3>2. Complete' = SubSeq(items', 1, n - k)
      BY <1>8, <3>1 DEF Complete
    <3>3. n - k \in 0..n /\ n - k \in 0 .. n + 1 /\ n - k \in Nat
      BY <1>3, <1>5
    <3>4. /\ SubSeq(items', 1, n - k) = [i \in 1 .. n - k |-> items'[i]]
          /\ SubSeq(items, 1, n - k) = [i \in 1 .. n - k |-> items[i]]
      BY <1>7, <1>8, <3>3 DEF n
    <3>5. \A i \in 1 .. n - k : items'[i] = items[i]
      BY <1>3, <1>8, <3>3
    <3> QED
      BY <1>4, <3>2, <3>4, <3>5 DEF Complete, n
  <2>2. Jammed' => Len(Complete) + Len(FrameOf(p)) > QCap
    BY <1>1, <1>3, <1>8, <1>14, <1>15, <1>18 DEF Jammed
  <2>3. [FrameQ!Next]_(FrameQ!queueVars)
    BY <1>1, <1>16, <2>1, <2>2, JamOrNothing
  <2> QED
    BY <1>12, <1>13, <2>3
<1> QED
  BY <1>17, <1>18


\* A take jams the queue if it is granted for a frame for which there is no room.
LEMMA TakeFrames ==
  ASSUME KernelInv, LockInv, StreamInv, AtomicInv, NEW t \in Thread, Ready(t),
         TakeForever(t), pc[t] = "round",
         pc' = [pc EXCEPT ![t] = IF t = Master THEN "drain" ELSE "store"],
         stored' = IF t \in Producer THEN [stored EXCEPT ![t] = 0] ELSE stored,
         UNCHANGED <<items, sendBuff>>
  PROVE  BegunInv' /\ RoomInv' /\ [FrameQ!Next]_(FrameQ!queueVars)
<1> BegunInv /\ RoomInv /\ BoundsInv /\ StreamTypes
  BY DEF AtomicInv, StreamInv
<1>1. \/ owner \in {t, NoThread} /\ owner' = t /\ Waiting' = Waiting
      \/ owner # t /\ owner' = owner /\ Waiting' = Waiting \cup {t}
  BY TakeEffect
<1>2. /\ pc'[t] = IF t = Master THEN "drain" ELSE "store"
      /\ \A u \in Thread : u # t => pc'[u] = pc[u]
  BY DEF LockInv
<1>3. /\ stored' \in [Producer -> Nat]
      /\ t \in Producer => stored'[t] = 0
      /\ \A p \in Producer : p # t => stored'[p] = stored[p]
  BY DEF StreamTypes
<1>4. \A p \in Producer : InQueue(p)' /\ stored'[p] > 0 => InQueue(p) /\ stored[p] > 0
  <2> SUFFICES ASSUME NEW p \in Producer, InQueue(p)', stored'[p] > 0
               PROVE  InQueue(p) /\ stored[p] > 0
    OBVIOUS
  <2>1. p # t
    BY <1>3
  <2> QED
    BY <1>1, <1>2, <1>3, <2>1, Threads DEF InQueue
<1>5. BegunInv'
  BY <1>4, BegunKept
<1>6. RoomInv'
  <2>1. CASE t = Master
    <3>1. sendBuff = <<>> /\ Len(sendBuff) = 0
      BY <2>1 DEF RoomInv
    <3>2. Len(items) + Len(sendBuff) <= QCap
      BY <3>1, ItemsFacts, SizesAssumption DEF BoundsInv
    <3> QED
      BY <1>2, <2>1, <3>1, <3>2 DEF RoomInv
  <2>2. CASE t # Master
    <3>1. pc'[Master] = pc[Master] /\ (Master \in Waiting' <=> Master \in Waiting)
      BY <1>1, <1>2, <2>2, Threads
    <3> QED
      BY <3>1 DEF RoomInv
  <2> QED
    BY <2>1, <2>2
<1>7. Jammed => Jammed'
  <2> SUFFICES ASSUME Jammed PROVE Jammed'
    OBVIOUS
  <2>1. /\ owner \in Producer /\ Len(items) = QCap /\ stored[owner] < FrameLen[owner]
    BY DEF Jammed
  <2>2. owner' = owner
    BY <1>1, <2>1, Threads, ThreadAssumption
  <2>3. stored'[owner] < FrameLen[owner]
    BY <1>3, <2>1, SizesAssumption
  <2> QED
    BY <2>1, <2>2, <2>3 DEF Jammed
<1>8. pc'[Master] \in {"send", "irq"} <=> pc[Master] \in {"send", "irq"}
  BY <1>2, Threads
<1> QED
  BY <1>5, <1>6, <1>7, <1>8, QuietFrames

\* A producer that releases the mutex has stored its frame.
LEMMA StoreReleaseFrames ==
  ASSUME KernelInv, LockInv, StreamInv, AtomicInv, NEW p \in Producer, Ready(p),
         StoreRelease(p)
  PROVE  BegunInv' /\ RoomInv' /\ [FrameQ!Next]_(FrameQ!queueVars)
<1> BegunInv /\ RoomInv /\ BoundsInv /\ StreamTypes
  BY DEF AtomicInv, StreamInv
<1>1. /\ pc[p] = "store" /\ stored[p] = FrameLen[p] /\ Release(p)
      /\ pc' = [pc EXCEPT ![p] = "rest"]
      /\ UNCHANGED <<items, sendBuff, stored>>
  BY DEF StoreRelease, Goto
<1>2. p \in Thread /\ p # Master /\ p \notin Waiting /\ owner = p
  BY <1>1, Threads DEF Ready, LockInv, QueueExclusive, InQueue
<1>3. \/ owner' \in {p, NoThread} /\ Waiting' = Waiting
      \/ owner' \in Waiting /\ Waiting' = Waiting \ {owner'}
  BY <1>1, <1>2, ReleaseEffect
<1>4. pc'[p] = "rest" /\ \A u \in Thread : u # p => pc'[u] = pc[u]
  BY <1>1, <1>2 DEF LockInv
<1>5. \A q \in Producer : InQueue(q)' /\ stored'[q] > 0 => InQueue(q) /\ stored[q] > 0
  <2> SUFFICES ASSUME NEW q \in Producer, InQueue(q)', stored'[q] > 0
               PROVE  InQueue(q) /\ stored[q] > 0
    OBVIOUS
  <2>1. q # p /\ pc'[q] = pc[q] /\ stored[q] > 0
    BY <1>1, <1>4, Threads DEF InQueue
  <2>2. q \notin Waiting
    BY <2>1 DEF StreamInv
  <2> QED
    BY <2>1, <2>2 DEF InQueue
<1>6. BegunInv'
  BY <1>1, <1>5, BegunKept
<1>7. RoomInv'
  <2>1. pc'[Master] = pc[Master]
    BY <1>2, <1>4, Threads
  <2>2. Master \in Waiting' => Master \in Waiting
    BY <1>3
  <2>3. Master \in Waiting /\ Master \notin Waiting' => Len(items) + Len(sendBuff) <= QCap
    <3> SUFFICES ASSUME Master \in Waiting PROVE Len(items) + Len(sendBuff) <= QCap
      OBVIOUS
    <3>1. sendBuff = <<>> /\ Len(sendBuff) = 0
      BY DEF RoomInv
    <3> QED
      BY <3>1, ItemsFacts, SizesAssumption DEF BoundsInv
  <2> QED
    BY <1>1, <2>1, <2>2, <2>3 DEF RoomInv
<1>8. ~Jammed
  BY <1>1, <1>2, SizesAssumption DEF Jammed
<1>9. pc'[Master] \in {"send", "irq"} <=> pc[Master] \in {"send", "irq"}
  BY <1>2, <1>4, Threads
<1> QED
  BY <1>1, <1>6, <1>7, <1>8, <1>9, QuietFrames

LEMMA ProducerFrames ==
  ASSUME KernelInv, LockInv, StreamInv, AtomicInv, NEW p \in Producer, ProducerStep(p)
  PROVE  BegunInv' /\ RoomInv' /\ [FrameQ!Next]_(FrameQ!queueVars)
<1> BegunInv /\ RoomInv /\ BoundsInv /\ StreamTypes
  BY DEF AtomicInv, StreamInv
<1>1. Ready(p) /\ p \in Thread /\ p # Master /\ p \notin Waiting
  BY Threads DEF ProducerStep, StoreTake, StoreByte, StoreRelease, NothingToStore,
                 Rest, Runs, Ready
<1>2. CASE StoreTake(p)
  <2>1. /\ pc[p] = "round" /\ pc' = [pc EXCEPT ![p] = "store"] /\ TakeForever(p)
        /\ stored' = [stored EXCEPT ![p] = 0]
        /\ UNCHANGED <<items, sendBuff>>
    BY <1>2 DEF StoreTake, Goto
  <2> QED
    BY <1>1, <2>1, TakeFrames
<1>3. CASE StoreByte(p) /\ Len(items) < QCap
  BY <1>1, <1>3, StoreByteFrames
<1>4. CASE StoreRelease(p)
  BY <1>1, <1>4, StoreReleaseFrames
<1>5. CASE NothingToStore(p) \/ Rest(p) \/ (StoreByte(p) /\ ~(Len(items) < QCap))
  <2>1. /\ \E l \in {"rest", "round"} : pc' = [pc EXCEPT ![p] = l]
        /\ UNCHANGED <<items, sendBuff, stored, owner, suspend_thread>>
    BY <1>5 DEF NothingToStore, Rest, StoreByte, Goto, Sleep, kernelVars, mutexVars
  <2>2. /\ pc'[p] \in {"rest", "round"}
        /\ \A u \in Thread : u # p => pc'[u] = pc[u]
    BY <1>1, <2>1 DEF LockInv
  <2>3. pc'[Master] = pc[Master]
    BY <1>1, <2>2, Threads
  <2>4. \A q \in Producer : InQueue(q)' => InQueue(q)
    BY <1>1, <2>1, <2>2, Threads DEF InQueue, Waiting
  <2>5. BegunInv'
    BY <2>1, <2>4, BegunKept
  <2>6. RoomInv'
    BY <2>1, <2>3 DEF RoomInv, Waiting
  <2>7. Jammed' = Jammed
    BY <2>1 DEF Jammed
  <2> QED
    BY <2>1, <2>3, <2>5, <2>6, <2>7, QuietFrames
<1> QED
  BY <1>2, <1>3, <1>4, <1>5 DEF ProducerStep


\* The master takes the bytes of whole frames only, and its packet is complete
\* when the queue is empty or the packet full; both leave room in the queue.
LEMMA MasterFrames ==
  ASSUME KernelInv, LockInv, StreamInv, AtomicInv, MasterStep
  PROVE  BegunInv' /\ RoomInv' /\ [FrameQ!Next]_(FrameQ!queueVars)
<1> BegunInv /\ RoomInv /\ BoundsInv /\ StreamTypes
  BY DEF AtomicInv, StreamInv
<1>1. Ready(Master) /\ Master \in Thread /\ Master \notin Producer /\ Master \notin Waiting
  BY Threads DEF MasterStep, TransmitNotPaired, TransmitTake, DrainByte, DrainEnd,
                 TxStart, TxPoll, TxDone, Rest, Runs, Ready
<1>2. ASSUME NEW l, pc' = [pc EXCEPT ![Master] = l]
      PROVE  /\ pc'[Master] = l
             /\ \A p \in Producer : pc'[p] = pc[p]
  BY <1>1, <1>2, Threads DEF LockInv
<1>3. CASE TransmitTake
  <2>1. /\ pc[Master] = "round" /\ pc' = [pc EXCEPT ![Master] = "drain"]
        /\ TakeForever(Master)
        /\ UNCHANGED <<stored, items, sendBuff>>
    BY <1>3 DEF TransmitTake, Goto
  <2> QED
    BY <1>1, <2>1, TakeFrames
<1>4. ASSUME pc[Master] = "drain"
      PROVE  /\ owner = Master /\ Begun = 0 /\ ~Jammed /\ Complete = items
             /\ Len(items) + Len(sendBuff) <= QCap
             /\ \A p \in Producer : ~InQueue(p)
  <2>1. InQueue(Master) /\ owner = Master
    BY <1>1, <1>4 DEF InQueue, LockInv, QueueExclusive
  <2>2. Begun = 0 /\ ~Jammed
    BY <1>1, <2>1, NotBegun DEF Jammed
  <2> QED
    BY <1>1, <1>4, <2>1, <2>2, CompleteFacts, Threads DEF RoomInv, LockInv, QueueExclusive
<1>5. CASE DrainByte
  <2>1. /\ pc[Master] = "drain" /\ Len(items) > 0 /\ Len(sendBuff) < ChunkMax
        /\ sendBuff' = Append(sendBuff, Head(items)) /\ items' = Tail(items)
        /\ UNCHANGED <<pc, stored, owner, suspend_thread>>
    BY <1>5 DEF DrainByte, MoreToDrain, kernelVars, mutexVars
  <2>2. /\ items \in Seq(Byte) /\ items # <<>> /\ Len(items) \in Nat
        /\ sendBuff \in Seq(Byte) /\ Len(sendBuff) \in Nat /\ Head(items) \in Byte
    BY <2>1, ItemsFacts
  <2>3. /\ items' \in Seq(Byte) /\ Len(items') = Len(items) - 1
        /\ \A i \in 1 .. Len(items) - 1 : items'[i] = items[i + 1]
        /\ Len(sendBuff') = Len(sendBuff) + 1
    BY <2>1, <2>2
  <2>4. Begun' = 0
    <3>1. CASE items' = <<>>
      BY <3>1 DEF Begun
    <3>2. CASE items' # <<>>
      <4>1. Len(items) - 1 \in 1 .. Len(items) - 1
        BY <2>2, <2>3, <3>2
      <4>2. items'[Len(items')] = items[Len(items)]
        BY <2>2, <2>3, <4>1
      <4>3. Begun = 0
        BY <1>4, <2>1
      <4> QED
        <5> DEFINE b == items[Len(items)]
        <5>1. b[2] = FrameLen[b[1]] \/ b[2] = 0
          BY <2>2, <4>3 DEF Begun
        <5> HIDE DEF b
        <5>2. Begun' = IF b[2] = FrameLen[b[1]] THEN 0 ELSE b[2]
          BY <3>2, <4>2 DEF Begun, b
        <5> QED
          BY <5>1, <5>2
    <3> QED
      BY <3>1, <3>2
  <2>5. Complete' = items'
    <3>1. Len(items') - 0 = Len(items') /\ SubSeq(items', 1, Len(items')) = items'
      BY <2>2, <2>3
    <3> QED
      BY <2>4, <3>1 DEF Complete
  <2>6. BegunInv'
    <3>1. 0 <= Len(items')
      BY <2>2, <2>3
    <3>2. \A p \in Producer : ~InQueue(p)'
      BY <1>4, <2>1 DEF InQueue, Waiting
    <3> QED
      BY <2>4, <3>1, <3>2 DEF BegunInv
  <2>7. RoomInv'
    <3>1. Len(items') + Len(sendBuff') <= QCap
      BY <1>4, <2>1, <2>2, <2>3, SizesAssumption
    <3> QED
      BY <1>1, <2>1, <3>1 DEF RoomInv, Waiting
  <2>8. ~Jammed'
    BY <1>1, <1>4, <2>1 DEF Jammed
  <2>9. Complete = items /\ ~Jammed /\ Jammed' = Jammed
    BY <1>4, <2>1, <2>8 DEF Jammed
  <2>10. FrameQ!TakeByte
    BY <2>1, <2>2, <2>5, <2>9 DEF FrameQ!TakeByte
  <2> QED
    BY <2>6, <2>7, <2>10 DEF FrameQ!Next
<1>6. CASE DrainEnd
  <2>1. /\ pc[Master] = "drain" /\ ~MoreToDrain /\ Release(Master)
        /\ pc' = [pc EXCEPT ![Master] = "send"]
        /\ UNCHANGED <<stored, items, sendBuff>>
    BY <1>6 DEF DrainEnd, Goto
  <2>2. pc'[Master] = "send" /\ \A p \in Producer : pc'[p] = pc[p]
    BY <1>2, <2>1
  <2>3. \/ owner' \in {Master, NoThread} /\ Waiting' = Waiting
        \/ owner' \in Waiting /\ Waiting' = Waiting \ {owner'}
    BY <1>1, <1>4, <2>1, ReleaseEffect
  <2>4. /\ Len(items) \in Nat /\ Len(sendBuff) \in Nat /\ QCap \in Nat
        /\ ChunkMax \in Nat /\ ChunkMax >= 1 /\ QCap >= 1
        /\ Len(sendBuff) <= ChunkMax
    BY ItemsFacts, SizesAssumption DEF BoundsInv
  <2>5. Len(items) = 0 \/ Len(sendBuff) = ChunkMax
    BY <2>1, <2>4 DEF MoreToDrain
  <2>6. Len(items) < QCap
    BY <1>4, <2>1, <2>4, <2>5
  <2>7. ~Jammed' /\ ~Jammed /\ Jammed' = Jammed
    <3>1. ~Jammed'
      BY <2>1, <2>4, <2>6 DEF Jammed
    <3> QED
      BY <1>4, <2>1, <3>1 DEF Jammed
  <2>8. \A p \in Producer : InQueue(p)' /\ stored'[p] > 0 => InQueue(p) /\ stored[p] > 0
    <3> SUFFICES ASSUME NEW p \in Producer, InQueue(p)', stored'[p] > 0
                 PROVE  InQueue(p) /\ stored[p] > 0
      OBVIOUS
    <3>1. pc[p] = pc'[p] /\ stored[p] > 0 /\ p \notin Waiting
      BY <2>1, <2>2 DEF StreamInv
    <3> QED
      BY <3>1 DEF InQueue
  <2>9. BegunInv'
    BY <2>1, <2>8, BegunKept
  <2>10. RoomInv'
    BY <1>1, <2>2, <2>3 DEF RoomInv
  <2>11. Complete' = Complete /\ (Complete = <<>> \/ Len(sendBuff) = ChunkMax)
    <3>1. Complete' = Complete
      BY <2>1 DEF Complete, Begun
    <3>2. Complete = items
      BY <1>4, <2>1
    <3>3. items = <<>> <=> Len(items) = 0
      BY ItemsFacts
    <3> QED
      BY <2>5, <3>1, <3>2, <3>3
  <2>12. FrameQ!Send
    BY <2>1, <2>2, <2>7, <2>11 DEF FrameQ!Send
  <2> QED
    BY <2>9, <2>10, <2>12 DEF FrameQ!Next
<1>7. CASE TxDone
  <2>1. /\ pc[Master] = "irq" /\ sendBuff' = <<>> /\ pc' = [pc EXCEPT ![Master] = "rest"]
        /\ UNCHANGED <<stored, items, owner, suspend_thread>>
    BY <1>7 DEF TxDone, Goto, kernelVars, mutexVars
  <2>2. pc'[Master] = "rest" /\ \A p \in Producer : pc'[p] = pc[p]
    BY <1>2, <2>1
  <2>3. BegunInv'
    BY <2>1, <2>2, BegunKept DEF InQueue, Waiting
  <2>4. RoomInv'
    BY <2>1, <2>2 DEF RoomInv
  <2>5. Complete' = Complete /\ Jammed' = Jammed
    BY <2>1 DEF Complete, Begun, Jammed
  <2>6. FrameQ!Sent
    BY <2>1, <2>2, <2>5 DEF FrameQ!Sent
  <2> QED
    BY <2>3, <2>4, <2>6 DEF FrameQ!Next
<1>8. CASE TransmitNotPaired \/ TxStart \/ TxPoll \/ Rest(Master)
  <2>1. /\ pc[Master] \in {"round", "send", "irq", "rest"}
        /\ pc'[Master] \in {"round", "irq", "rest"}
        /\ pc'[Master] = "irq" <=> pc[Master] \in {"send", "irq"}
        /\ \A p \in Producer : pc'[p] = pc[p]
    BY <1>2, <1>8 DEF TransmitNotPaired, TxStart, TxPoll, Rest, Goto
  <2>2. UNCHANGED <<stored, items, sendBuff, owner, suspend_thread>>
    BY <1>8 DEF TransmitNotPaired, TxStart, TxPoll, Rest, Sleep, kernelVars, mutexVars
  <2>3. BegunInv'
    BY <2>1, <2>2, BegunKept DEF InQueue, Waiting
  <2>4. RoomInv'
    BY <2>1, <2>2 DEF RoomInv, Waiting
  <2>5. Jammed' = Jammed
    BY <2>2 DEF Jammed
  <2> QED
    BY <2>1, <2>2, <2>3, <2>4, <2>5, QuietFrames
<1> QED
  BY <1>3, <1>5, <1>6, <1>7, <1>8 DEF MasterStep

LEMMA FramesStep ==
  ASSUME KernelInv, LockInv, StreamInv, AtomicInv, [Next]_vars
  PROVE  AtomicInv' /\ [FrameQ!Next]_(FrameQ!queueVars)
<1> BegunInv /\ RoomInv /\ BoundsInv /\ StreamTypes
  BY DEF AtomicInv, StreamInv
<1>1. BoundsInv'
  BY BoundsStep
<1>2. ASSUME UNCHANGED <<pc, items, sendBuff, stored, owner, suspend_thread>>
      PROVE  BegunInv' /\ RoomInv' /\ [FrameQ!Next]_(FrameQ!queueVars)
  <2>1. BegunInv' /\ RoomInv'
    BY <1>2 DEF BegunInv, Begun, RoomInv, InQueue, Waiting
  <2>2. Jammed' = Jammed
    BY <1>2 DEF Jammed
  <2> QED
    BY <1>2, <2>1, <2>2, QuietFrames
<1>3. CASE UNCHANGED vars \/ RadioEnds \/ PairDone \/ \E t \in Thread : Wakes(t)
  <2>1. UNCHANGED <<pc, items, sendBuff, stored, owner, suspend_thread>>
    BY <1>3 DEF vars, kernelVars, mutexVars, RadioEnds, PairDone, Wakes, Wake
  <2> QED
    BY <1>1, <1>2, <2>1 DEF AtomicInv
<1> QED
  BY <1>1, <1>3, ProducerFrames, MasterFrames DEF Next, AtomicInv

\* For any threads, frames and sizes, and whatever the timers do,
\* StoreToTransmitQueue is atomic although threads interleave byte by byte, and
\* TransmitHandle sends what was stored, in that order and once
\* (src/module/transmit_packet.c:106-145 and 44-104); a return on a full queue
\* jams both for good.
THEOREM TransmitImplementsFrameQueue == Spec => ImplementsFrameQueue
<1>1. Init => AtomicInv /\ FrameQ!Init
  <2> SUFFICES ASSUME Init PROVE AtomicInv /\ FrameQ!Init
    OBVIOUS
  <2>1. /\ items = <<>> /\ sendBuff = <<>> /\ stored = [p \in Producer |-> 0]
        /\ pc = [t \in Thread |-> "round"] /\ owner = NoThread
    BY DEF Init, rt_mutex_init
  <2>2. Len(<<>>) = 0
    OBVIOUS
  <2>3. Begun = 0 /\ Complete = <<>>
    <3>1. Begun = 0
      BY <2>1 DEF Begun
    <3>2. SubSeq(<<>>, 1, 0) = <<>>
      OBVIOUS
    <3> QED
      BY <2>1, <2>2, <3>1, <3>2 DEF Complete
  <2>4. BegunInv
    BY <2>1, <2>2, <2>3 DEF BegunInv
  <2>5. pc[Master] = "round"
    BY <2>1, Threads
  <2>6. RoomInv
    BY <2>1, <2>5 DEF RoomInv
  <2>7. BoundsInv
    BY BoundsInit
  <2>8. Jammed = FALSE
    BY <2>1, Threads, ThreadAssumption DEF Jammed
  <2> QED
    BY <2>1, <2>3, <2>4, <2>5, <2>6, <2>7, <2>8 DEF AtomicInv, FrameQ!Init
<1>2. KernelInv /\ LockInv /\ StreamInv /\ [Next]_vars => StreamInv'
  BY StreamStep
<1>3. KernelInv /\ LockInv /\ StreamInv /\ AtomicInv /\ [Next]_vars
        => AtomicInv' /\ [FrameQ!Next]_(FrameQ!queueVars)
  BY FramesStep
<1> QED
  BY <1>1, <1>2, <1>3, StreamInit, KernelInvHere, LockInvariance, PTL
     DEF Spec, ImplementsFrameQueue, FrameQ!Spec
=============================================================================

---------------------------- MODULE TransmitPath ----------------------------
(***************************************************************************)
(* module/transmit_packet.c with the threads that use it: producers        *)
(* (display_thread and second_task_thread) call StoreToTransmitQueue, the   *)
(* master_task_thread drains the queue into a radio packet and waits for    *)
(* the radio.  transmit_mutex and the scheduler are those of RtMutex, whose *)
(* variables this module shares; every action of a thread needs the         *)
(* processor.                                                               *)
(*                                                                         *)
(* The queue is the sequence of its contents, which is what ByteQueue       *)
(* implements.  A byte is a pair <<p, k>>: the k-th byte of a frame that p  *)
(* built, from 0xAA (k = 1) to 0xAD (k = FrameLen[p]).                      *)
(***************************************************************************)
EXTENDS RtMutex

CONSTANTS
  Producer,       \* the threads that call StoreToTransmitQueue
  Master,         \* master_task_thread
  Optional,       \* the producers that send only on some of their rounds
  QCap,           \* what the queue holds: TRANSMIT_BUFF_LENGHT - 1 = 255
  ChunkMax,       \* bytes of one radio packet: 32
  FrameLen,       \* producer |-> length of its frames: 6 to 13
  MaxLag,         \* producer |-> most frames it stores between two drains
  StallLag,       \* the same while the master is held up
  LostMax         \* failed packets until the signal counts as lost: 150

Byte == UNION {{<<p, k>> : k \in 1..FrameLen[p]} : p \in Producer}

ASSUME ThreadsAssumption ==
  /\ Master \notin Producer /\ Thread = Producer \cup {Master}
  /\ Optional \subseteq Producer
\* The uint8_t that takes QueueLength holds every length of the queue.
ASSUME SizesAssumption ==
  /\ QCap \in 1..255 /\ ChunkMax \in Nat \ {0} /\ LostMax \in Nat
  /\ FrameLen \in [Producer -> Nat \ {0}]
  /\ MaxLag \in [Producer -> Nat \ {0}] /\ StallLag \in [Producer -> Nat \ {0}]

VARIABLES
  pc,               \* thread |-> where it is in its round
  stored,           \* producer |-> bytes of its frame it has stored
  items,            \* transmitQueue
  sendBuff,         \* the packet of TransmitHandle
  paired,           \* pair.status = PAIR_DONE
  radio,            \* the transmission: none, under way, or how it ended
  signalLostCount, signalStatus,
  lag,              \* producer |-> frames stored since the last drain
  last,             \* history: the last byte put on the air, <<>> if none
  fails, heard      \* history: failures since the last success; any success


signalVars == <<signalLostCount, signalStatus, fails, heard>>
vars == <<kernelVars, pc, stored, items, sendBuff, paired, radio, signalVars,
          lag, last>>

Init ==
  /\ rt_mutex_init
  /\ pc = [t \in Thread |-> "round"]
  /\ stored = [p \in Producer |-> 0]
  /\ items = <<>> /\ sendBuff = <<>>
  /\ paired = FALSE
  /\ radio = "idle"
  /\ signalLostCount = 0 /\ signalStatus = "SIGNAL_LOST"
  /\ fails = 0 /\ heard = FALSE
  /\ lag = [p \in Producer |-> 0]
  /\ last = <<>>

Goto(t, l) == pc' = [pc EXCEPT ![t] = l]

-----------------------------------------------------------------------------
\* StoreToTransmitQueue, called only once the remote is paired: RemotePacket
\* tests it, and the pages that send are opened only after it.

\* Mutant of StoreTake: the queue is used without the mutex.
StoreTake_NoLock(p) ==
  /\ pc[p] = "round" /\ paired
  /\ Runs(p)
  /\ stored' = [stored EXCEPT ![p] = 0]
  /\ Goto(p, "store")
  /\ UNCHANGED <<kernelVars, items, sendBuff, paired, radio, signalVars, lag, last>>

StoreTake(p) ==
  /\ pc[p] = "round" /\ paired
  /\ Runs(p) /\ TakeForever(p)
  /\ stored' = [stored EXCEPT ![p] = 0]
  /\ Goto(p, "store")
  /\ UNCHANGED <<items, sendBuff, paired, radio, signalVars, lag, last>>

\* Mutant of StoreByte: one slot too few counts as full.
StoreByte_EarlyFull(p) ==
  /\ pc[p] = "store" /\ stored[p] < FrameLen[p]
  /\ Runs(p)
  /\ IF Len(items) < QCap - 1
     THEN /\ items' = Append(items, <<p, stored[p] + 1>>)
          /\ stored' = [stored EXCEPT ![p] = @ + 1]
          /\ UNCHANGED pc
     ELSE /\ Goto(p, "rest")
          /\ UNCHANGED <<items, stored>>
  /\ UNCHANGED <<kernelVars, sendBuff, paired, radio, signalVars, lag, last>>

\* Mutant of StoreByte: a refused byte is skipped and the frame goes on.
StoreByte_SkipsByte(p) ==
  /\ pc[p] = "store" /\ stored[p] < FrameLen[p]
  /\ Runs(p)
  /\ items' = IF Len(items) < QCap THEN Append(items, <<p, stored[p] + 1>>) ELSE items
  /\ stored' = [stored EXCEPT ![p] = @ + 1]
  /\ UNCHANGED <<kernelVars, pc, sendBuff, paired, radio, signalVars, lag, last>>

\* One EnQueue of the loop.  On a full queue the function returns 0 from inside
\* the critical section: the rest of the frame is dropped and the mutex kept.
StoreByte(p) ==
  /\ pc[p] = "store" /\ stored[p] < FrameLen[p]
  /\ Runs(p)
  /\ IF Len(items) < QCap
     THEN /\ items' = Append(items, <<p, stored[p] + 1>>)
          /\ stored' = [stored EXCEPT ![p] = @ + 1]
          /\ UNCHANGED pc
     ELSE /\ Goto(p, "rest")
          /\ UNCHANGED <<items, stored>>
  /\ UNCHANGED <<kernelVars, sendBuff, paired, radio, signalVars, lag, last>>

\* Mutant of StoreRelease: the mutex is kept.
StoreRelease_Skipped(p) ==
  /\ pc[p] = "store" /\ stored[p] = FrameLen[p]
  /\ Runs(p)
  /\ lag' = [lag EXCEPT ![p] = @ + 1]
  /\ Goto(p, "rest")
  /\ UNCHANGED <<kernelVars, stored, items, sendBuff, paired, radio, signalVars, last>>

StoreRelease(p) ==
  /\ pc[p] = "store" /\ stored[p] = FrameLen[p]
  /\ Runs(p) /\ Release(p)
  /\ lag' = [lag EXCEPT ![p] = @ + 1]
  /\ Goto(p, "rest")
  /\ UNCHANGED <<stored, items, sendBuff, paired, radio, signalVars, last>>

\* A round without a frame: not paired yet, or a page that sends nothing.
NothingToStore(p) ==
  /\ pc[p] = "round" /\ (~paired \/ p \in Optional)
  /\ Runs(p)
  /\ Goto(p, "rest")
  /\ UNCHANGED <<kernelVars, stored, items, sendBuff, paired, radio, signalVars,
                 lag, last>>

-----------------------------------------------------------------------------
\* TransmitHandle

TransmitNotPaired ==
  /\ pc[Master] = "round" /\ ~paired
  /\ Runs(Master)
  /\ Goto(Master, "rest")
  /\ UNCHANGED <<kernelVars, stored, items, sendBuff, paired, radio, signalVars,
                 lag, last>>

TransmitTake ==
  /\ pc[Master] = "round" /\ paired
  /\ Runs(Master) /\ TakeForever(Master)
  /\ Goto(Master, "drain")
  /\ UNCHANGED <<stored, items, sendBuff, paired, radio, signalVars, lag, last>>

\* Mutant of MoreToDrain: the last byte of the queue is left behind.
MoreToDrain_LeavesLast == Len(sendBuff) < ChunkMax /\ Len(items) > 1

MoreToDrain == Len(sendBuff) < ChunkMax /\ Len(items) > 0

DrainByte ==
  /\ pc[Master] = "drain" /\ MoreToDrain
  /\ Runs(Master)
  /\ sendBuff' = Append(sendBuff, Head(items))
  /\ items' = Tail(items)
  /\ UNCHANGED <<kernelVars, pc, stored, paired, radio, signalVars, lag, last>>

DrainEnd ==
  /\ pc[Master] = "drain" /\ ~MoreToDrain
  /\ Runs(Master) /\ Release(Master)
  /\ lag' = [p \in Producer |-> 0]
  /\ Goto(Master, "send")
  /\ UNCHANGED <<stored, items, sendBuff, paired, radio, signalVars, last>>

\* NRF24L01_TxPacket, of sendBuff or of the five heartbeat bytes: the chip is
\* started, then its interrupt line is polled with delay_ms(1).
TxStart ==
  /\ pc[Master] = "send"
  /\ Runs(Master)
  /\ radio' = "busy"
  /\ Goto(Master, "irq")
  /\ UNCHANGED <<kernelVars, stored, items, sendBuff, paired, signalVars, lag, last>>

TxPoll ==
  /\ pc[Master] = "irq" /\ radio = "busy"
  /\ Runs(Master) /\ Sleep(Master)
  /\ UNCHANGED <<pc, stored, items, sendBuff, paired, radio, signalVars, lag, last>>

\* Mutant of SignalUpdate: a success does not restart the count.
SignalUpdate_NoReset(ok) ==
  IF ok
  THEN /\ signalStatus' = "SIGNAL_NORMAL"
       /\ UNCHANGED signalLostCount
  ELSE IF signalLostCount < LostMax
       THEN /\ signalLostCount' = signalLostCount + 1
            /\ UNCHANGED signalStatus
       ELSE /\ signalStatus' = "SIGNAL_LOST"
            /\ UNCHANGED signalLostCount

\* Mutant of SignalUpdate: the count has no ceiling.
SignalUpdate_NoCeiling(ok) ==
  IF ok
  THEN /\ signalLostCount' = 0
       /\ signalStatus' = "SIGNAL_NORMAL"
  ELSE /\ signalLostCount' = signalLostCount + 1
       /\ signalStatus' = IF signalLostCount < LostMax THEN signalStatus
                                                       ELSE "SIGNAL_LOST"

SignalUpdate(ok) ==
  IF ok
  THEN /\ signalLostCount' = 0
       /\ signalStatus' = "SIGNAL_NORMAL"
  ELSE IF signalLostCount < LostMax
       THEN /\ signalLostCount' = signalLostCount + 1
            /\ UNCHANGED signalStatus
       ELSE /\ signalStatus' = "SIGNAL_LOST"
            /\ UNCHANGED signalLostCount

\* The line is low: TX_OK, or MAX_TX (and anything else) for a failure.  The
\* history of failures is kept up to LostMax + 1, where nothing depends on more.
TxDone ==
  /\ pc[Master] = "irq" /\ radio \in {"ok", "failed"}
  /\ Runs(Master)
  /\ SignalUpdate(radio = "ok")
  /\ fails' = IF radio = "ok" THEN 0 ELSE IF fails <= LostMax THEN fails + 1 ELSE fails
  /\ heard' = (heard \/ radio = "ok")
  /\ radio' = "idle"
  /\ last' = IF sendBuff = <<>> THEN last ELSE sendBuff[Len(sendBuff)]
  /\ sendBuff' = <<>>
  /\ Goto(Master, "rest")
  /\ UNCHANGED <<kernelVars, stored, items, paired, lag>>

-----------------------------------------------------------------------------
\* rt_thread_mdelay at the end of a round.
Rest(t) ==
  /\ pc[t] = "rest"
  /\ Runs(t) /\ Sleep(t)
  /\ Goto(t, "round")
  /\ UNCHANGED <<stored, items, sendBuff, paired, radio, signalVars, lag, last>>

\* A timer expires.  The periods are not modelled; what they ensure is: between
\* two drains a producer wakes for at most MaxLag frames, or StallLag frames if
\* the chip leaves the master polling or the mutex leaves it waiting.
Wakes(t) ==
  /\ Wake(t)
  /\ t \in Producer =>
       lag[t] < IF radio = "busy" \/ Master \in Waiting THEN StallLag[t] ELSE MaxLag[t]
  /\ UNCHANGED <<pc, stored, items, sendBuff, paired, radio, signalVars, lag, last>>

\* The chip ends every transmission: acknowledged, or given up after its last
\* retry.
RadioEnds ==
  /\ radio = "busy"
  /\ radio' \in {"ok", "failed"}
  /\ UNCHANGED <<kernelVars, pc, stored, items, sendBuff, paired, signalVars, lag,
                 last>>

\* pair_thread ends (module Pairing).
PairDone ==
  /\ ~paired
  /\ paired' = TRUE
  /\ UNCHANGED <<kernelVars, pc, stored, items, sendBuff, radio, signalVars, lag,
                 last>>

ProducerStep(p) ==
  StoreTake(p) \/ StoreByte(p) \/ StoreRelease(p) \/ NothingToStore(p) \/ Rest(p)

MasterStep ==
  \/ TransmitNotPaired \/ TransmitTake \/ DrainByte \/ DrainEnd
  \/ TxStart \/ TxPoll \/ TxDone \/ Rest(Master)

Next ==
  \/ \E p \in Producer : ProducerStep(p)
  \/ MasterStep
  \/ \E t \in Thread : Wakes(t)
  \/ RadioEnds
  \/ PairDone

Spec == Init /\ [][Next]_vars

\* The kernel runs the best ready thread and shares the processor among equals,
\* a timer expires, and the chip stops retrying.
FairSpec ==
  /\ Spec
  /\ \A p \in Producer : WF_vars(ProducerStep(p))
  /\ WF_vars(MasterStep)
  /\ \A t \in Thread : WF_vars(Wakes(t))
  /\ WF_vars(RadioEnds)

-----------------------------------------------------------------------------
Place == {"round", "store", "drain", "send", "irq", "rest"}

\* Type correctness.
TypeOK ==
  /\ KernelTypeOK
  /\ pc \in [Thread -> Place]
  /\ stored \in [Producer -> Nat]
  /\ items \in Seq(Byte) /\ Len(items) <= QCap
  /\ sendBuff \in Seq(Byte) /\ Len(sendBuff) <= ChunkMax
  /\ paired \in BOOLEAN
  /\ radio \in {"idle", "busy", "ok", "failed"}
  /\ signalLostCount \in 0..LostMax
  /\ signalStatus \in {"SIGNAL_LOST", "SIGNAL_NORMAL"}
  /\ lag \in [Producer -> Nat]
  /\ last \in Byte \cup {<<>>}
  /\ fails \in 0 .. LostMax + 1 /\ heard \in BOOLEAN

\* Where the queue is used.
InQueue(t) == pc[t] \in {"store", "drain"} /\ t \notin Waiting

\* Mutual exclusion: no two threads are between take and release, whatever the
\* calls, time slices and hand-overs, even once the mutex is leaked.
QueueExclusive == \A t \in Thread : InQueue(t) => owner = t

\* No leak: the mutex is held exactly while a thread is between its take and
\* its release, so no producer ever returned on a full queue and kept it.
NoLeak ==
  \A t \in Thread : owner = t <=> InQueue(t)

\* The stream to the plane is a sequence of whole frames: what was sent, is
\* being sent and is queued never interleaves two frames, loses a byte inside
\* one or cuts one short, even when a radio packet ends inside a frame.
Stream == (IF last = <<>> THEN <<>> ELSE <<last>>) \o sendBuff \o items
Follows(a, b) ==
  IF a[2] = FrameLen[a[1]] THEN b[2] = 1 ELSE b[1] = a[1] /\ b[2] = a[2] + 1
StreamWellFormed ==
  \A i \in 1 .. Len(Stream) - 1 : Follows(Stream[i], Stream[i + 1])

\* The bytes at the end of the queue that belong to a frame not yet complete, and
\* those in front of them.
Begun ==
  IF items = <<>> THEN 0
  ELSE LET b == items[Len(items)] IN IF b[2] = FrameLen[b[1]] THEN 0 ELSE b[2]
Complete == SubSeq(items, 1, Len(items) - Begun)
\* The owner of the mutex has bytes left for which there is no room.
Jammed == owner \in Producer /\ Len(items) = QCap /\ stored[owner] < FrameLen[owner]
FrameOf(p) == [k \in 1..FrameLen[p] |-> <<p, k>>]

\* The transmit path implements the queue of whole frames of FrameQueue.  A frame
\* counts as stored with its last byte, the queue as jammed before the EnQueue
\* that fails.
FrameQ == INSTANCE FrameQueue WITH
  Frames <- {FrameOf(p) : p \in Producer},
  Room <- QCap,
  PacketMax <- ChunkMax,
  queue <- Complete,
  packet <- sendBuff,
  sending <- pc[Master] \in {"send", "irq"},
  jammed <- Jammed

\* StoreToTransmitQueue is atomic, though any thread may come in between two of
\* its bytes, and no frame is lost, doubled or overtaken on its way to the chip;
\* the one exception, the return on a full queue, is for ever.
ImplementsFrameQueue == FrameQ!Spec

\* With the timers of the remote no packet is cut inside a frame: what goes on
\* the air starts with the first byte of a frame and ends with the last of one.
PacketsOfWholeFrames ==
  pc[Master] \in {"send", "irq"} /\ sendBuff # <<>> =>
    /\ sendBuff[1][2] = 1
    /\ LET b == sendBuff[Len(sendBuff)] IN b[2] = FrameLen[b[1]]

\* The signal counts as normal exactly while some packet was acknowledged and
\* at most LostMax packets in a row have failed since.
SignalExact ==
  signalStatus = "SIGNAL_NORMAL" <=> heard /\ fails <= LostMax

\* Once paired the remote keeps transmitting: frames, or the heartbeat.
KeepsTransmitting == paired ~> pc[Master] = "send"

\* What is stored is sent: the queue is emptied again and again.
QueueIsEmptied == items # <<>> ~> items = <<>>
=============================================================================

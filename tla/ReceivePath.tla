----------------------------- MODULE ReceivePath -----------------------------
(***************************************************************************)
(* ReceiveHandle of module/receive_packet.c, called by master_task_thread   *)
(* after each TransmitHandle once the remote is paired: the payload that    *)
(* came back with the acknowledgement goes into receiveQueue, and at most   *)
(* CallMax bytes or one frame are taken out of it and parsed.               *)
(* Only the master thread uses receiveQueue, so it needs no mutex; it is    *)
(* the sequence of its contents, which is what ByteQueue implements.        *)
(*                                                                         *)
(* The plane is outside the repository.  Of it the model takes that it      *)
(* packs and queues frames as the remote does, so that a packet may carry   *)
(* several and cut one in two, and how many it may be ahead of the remote   *)
(* (Burst).                                                                 *)
(***************************************************************************)
EXTENDS FrameParser

CONSTANTS
  Payloads,           \* what the plane sends; the first byte is the command
  Commands,           \* the commands AnalysisHandle knows
  Burst,              \* most frames it sends ahead of those accepted
  PacketMax,          \* bytes of a packet: 32
  CallMax,            \* bytes AnalysisHandle takes in one call: 32
  QCap                \* what receiveQueue holds: RECEIVE_BUFF_LENGHT - 1 = 255

ASSUME PayloadAssumption ==
  Payloads \subseteq {p \in Seq(Byte) : Len(p) \in 1 .. W - 1 /\ Len(p) + 5 <= PacketMax}
ASSUME ReceiveAssumption ==
  /\ Burst \in Nat /\ PacketMax \in Nat \ {0}
  /\ CallMax \in Nat \ {0} /\ QCap \in 1..255
  /\ \A p \in Payloads : Crc(p) \in Byte
\* A payload that fits a packet fits the arrays of the parser: 27, 128 and 32.
ASSUME FitsAssumption == PacketMax - 5 <= BufSize /\ PacketMax - 5 <= OutSize

VARIABLES
  pc,           \* where the master thread is
  outbox,       \* what the plane has queued for the remote
  rx,           \* the payload waiting in the chip
  queue,        \* receiveQueue
  count,        \* bytes taken in this call of AnalysisHandle
  plane,        \* command |-> the last payload kept, in plane or imuData
  pending,      \* history: what the plane sent and the parser has not accepted
  cut           \* history: receiveQueue has refused bytes of a packet

vars == <<parserVars, pc, outbox, rx, queue, count, plane, pending, cut>>

\* The packing of a payload (transmit_packet.c and pair_freq.c have the same).
Packed(p) == <<Sof, Len(p) \div W, Len(p) % W>> \o p \o <<Crc(p), Eof>>

Concat[s \in Seq(Payloads)] == IF s = <<>> THEN <<>> ELSE Packed(Head(s)) \o Concat[Tail(s)]

Init ==
  /\ ParserInit
  /\ pc = "transmit" /\ outbox = <<>> /\ rx = <<>> /\ queue = <<>> /\ count = 0
  /\ plane = [c \in Commands |-> <<>>]
  /\ pending = <<>> /\ cut = FALSE

-----------------------------------------------------------------------------
\* The plane queues a frame for the remote.
PlaneQueues ==
  /\ Len(pending) < Burst
  /\ \E p \in Payloads :
       /\ pending' = Append(pending, p)
       /\ outbox' = outbox \o Packed(p)
  /\ UNCHANGED <<parserVars, pc, rx, queue, count, plane, cut>>

\* The master's transmission is acknowledged, with what fits one packet of the
\* plane's queue, or it is not.
Transmit(acknowledged) ==
  /\ pc = "transmit"
  /\ LET n == IF ~acknowledged THEN 0
               ELSE IF Len(outbox) < PacketMax THEN Len(outbox) ELSE PacketMax
     IN  /\ rx' = SubSeq(outbox, 1, n)
         /\ outbox' = SubSeq(outbox, n + 1, Len(outbox))
  /\ pc' = "receive"
  /\ UNCHANGED <<parserVars, queue, count, plane, pending, cut>>

\* Mutant of Taken: the result of EnQueue is not looked at.
Taken_All == rx

\* The bytes that still fit: the loop ends at the first refused by EnQueue.
Taken == SubSeq(rx, 1, IF Len(queue) + Len(rx) <= QCap THEN Len(rx) ELSE QCap - Len(queue))

\* Mutant of ReceiveData: the last byte of the packet is not stored.
ReceiveData_OffByOne ==
  /\ pc = "receive"
  /\ queue' = queue \o (IF Taken = <<>> THEN <<>> ELSE SubSeq(Taken, 1, Len(Taken) - 1))
  /\ rx' = <<>> /\ count' = 0 /\ cut' = (cut \/ Taken # rx)
  /\ ret' = -1 /\ receiveData' = <<>>
  /\ pc' = "analyse"
  /\ UNCHANGED <<analysisState, dataLen, receiveBuf, crc, wild, frame, outbox, plane, pending>>

\* ReceiveData, and the locals of AnalysisHandle set up.
ReceiveData ==
  /\ pc = "receive"
  /\ queue' = queue \o Taken
  /\ rx' = <<>> /\ count' = 0 /\ cut' = (cut \/ Taken # rx)
  /\ ret' = -1 /\ receiveData' = <<>>
  /\ pc' = "analyse"
  /\ UNCHANGED <<analysisState, dataLen, receiveBuf, crc, wild, frame, outbox, plane, pending>>

IsFirst(p) == pending # <<>> /\ Head(pending) = p

\* One round of the loop.  The payload accepted is no longer pending.
AnalysisByte ==
  /\ pc = "analyse" /\ count < CallMax /\ queue # <<>>
  /\ AnalysisData(Head(queue))
  /\ queue' = Tail(queue) /\ count' = count + 1
  /\ pc' = IF ret' = 0 THEN "apply" ELSE "analyse"
  /\ pending' = IF ret' = 0 /\ IsFirst(receiveData') THEN Tail(pending) ELSE pending
  /\ UNCHANGED <<outbox, rx, plane, cut>>

AnalysisStop ==
  /\ pc = "analyse" /\ (count = CallMax \/ queue = <<>>)
  /\ pc' = "transmit"
  /\ UNCHANGED <<parserVars, outbox, rx, queue, count, plane, pending, cut>>

\* Of an empty payload the first byte is the 0 the local array was set to.
CommandOf(p) == IF p = <<>> THEN 0 ELSE Head(p)

\* Mutant of Updated: a branch of the command falls through to those after it.
Updated_FallsThrough(known, p) ==
  [c \in Commands |-> IF CommandOf(p) \in Commands /\ c >= CommandOf(p) THEN p ELSE known[c]]

\* A payload is kept under its command; an unknown command is ignored.
Updated(known, p) ==
  [c \in Commands |-> IF c = CommandOf(p) THEN p ELSE known[c]]

Apply ==
  /\ pc = "apply"
  /\ plane' = Updated(plane, receiveData)
  /\ pc' = "transmit"
  /\ UNCHANGED <<parserVars, outbox, rx, queue, count, pending, cut>>

Master == (\E a \in BOOLEAN : Transmit(a)) \/ ReceiveData \/ AnalysisByte \/ AnalysisStop \/ Apply

Next == PlaneQueues \/ Master

Spec == Init /\ [][Next]_vars

\* The master thread keeps being scheduled, and some of its packets are
\* acknowledged.
FairSpec == Spec /\ WF_vars(Master) /\ SF_vars(Transmit(TRUE))

-----------------------------------------------------------------------------
\* Type correctness.  What is kept of the plane is what it sent, until the bytes
\* that are left of a frame cut short make up another.
TypeOK ==
  /\ ParserTypeOK
  /\ pc \in {"transmit", "receive", "analyse", "apply"}
  /\ outbox \in Seq(Byte)
  /\ rx \in Seq(Byte) /\ Len(rx) <= PacketMax
  /\ queue \in Seq(Byte) /\ Len(queue) <= QCap
  /\ count \in 0..CallMax
  /\ plane \in [Commands -> Seq(Byte)]
  /\ ~cut => plane \in [Commands -> Payloads \cup {<<>>}]
  /\ pending \in Seq(Payloads) /\ Len(pending) <= Burst
  /\ cut \in BOOLEAN

\* Until receiveQueue refuses a byte none is lost, doubled or reordered between
\* the plane and the parser: what the parser holds, the queue, the chip and the
\* plane's own queue together are the frames not yet accepted, however packets
\* and calls cut them up.
StreamIntact ==
  ~cut =>
    (IF analysisState = 0 THEN <<>> ELSE frame) \o queue \o rx \o outbox = Concat[pending]

\* The receive path implements the channel that PlaneChannel describes: a payload
\* is taken when its last byte is parsed, and shown once AnalysisHandle has kept it.
Channel == INSTANCE PlaneChannel WITH
  sent <- pending,
  known <- IF pc = "apply" THEN Updated(plane, receiveData) ELSE plane,
  broken <- cut

\* What the remote knows of the plane is what it sent, in order and each once,
\* the last of each command, until bytes are refused.
ImplementsChannel == Channel!Spec

\* While frames are pending one is accepted, or the queue overflows: each has its
\* turn, though a call of AnalysisHandle accepts one at most and the plane may go
\* on sending.
FramesArrive == pending # <<>> ~> pc = "apply" \/ cut
=============================================================================

----------------------------- MODULE FrameQueue -----------------------------
(***************************************************************************)
(* What the transmit path promises the threads that send, with no mutex and *)
(* no scheduler: a frame is stored in one step, all of it or nothing, and   *)
(* the bytes go on the air in the order of the frames, each once.           *)
(*                                                                         *)
(* The promise is the one the code keeps: the first frame for which there   *)
(* is no room jams the queue, and then nothing is stored or taken any more. *)
(***************************************************************************)
EXTENDS Integers, Sequences

CONSTANTS
  Frames,     \* the frames there are, sequences of bytes
  Room,       \* bytes the queue holds
  PacketMax   \* bytes of one packet

VARIABLES
  queue,      \* the bytes of the frames stored, oldest first
  packet,     \* the bytes taken for the packet
  sending,    \* the packet is complete and being sent
  jammed      \* a frame was begun for which there is no room

queueVars == <<queue, packet, sending, jammed>>

Init == queue = <<>> /\ packet = <<>> /\ sending = FALSE /\ jammed = FALSE

Store(f) ==
  /\ ~jammed
  /\ Len(queue) + Len(f) <= Room
  /\ queue' = queue \o f
  /\ UNCHANGED <<packet, sending, jammed>>

Jam(f) ==
  /\ Len(queue) + Len(f) > Room
  /\ jammed' = TRUE
  /\ UNCHANGED <<queue, packet, sending>>

TakeByte ==
  /\ ~jammed /\ ~sending
  /\ queue # <<>> /\ Len(packet) < PacketMax
  /\ packet' = Append(packet, Head(queue))
  /\ queue' = Tail(queue)
  /\ UNCHANGED <<sending, jammed>>

\* A packet takes all there is, or is full.
Send ==
  /\ ~jammed /\ ~sending
  /\ queue = <<>> \/ Len(packet) = PacketMax
  /\ sending' = TRUE
  /\ UNCHANGED <<queue, packet, jammed>>

\* Acknowledged or not, a packet is sent once.
Sent ==
  /\ sending
  /\ sending' = FALSE /\ packet' = <<>>
  /\ UNCHANGED <<queue, jammed>>

Next == (\E f \in Frames : Store(f) \/ Jam(f)) \/ TakeByte \/ Send \/ Sent

Spec == Init /\ [][Next]_queueVars
=============================================================================

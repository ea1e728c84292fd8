--------------------------- MODULE MCTransmitPath ---------------------------
(* TransmitPath with the threads of the remote and frames of 2 and 3 bytes. *)
EXTENDS TransmitPath

CONSTANTS master, display, second

MCThread == {master, display, second}
MCProducer == {display, second}
MCOptional == {display}
MCPriority == [t \in MCThread |-> IF t = second THEN 6 ELSE 5]
MCFrameLen == [p \in MCProducer |-> IF p = second THEN 3 ELSE 2]

\* Up to two rounds of second_task and one of display between two drains: 8
\* bytes, as much as a packet of this instance takes.
MCLag == [p \in MCProducer |-> IF p = second THEN 2 ELSE 1]
\* The radio stalls for longer than the queue lasts.
MCLagStall == [p \in MCProducer |-> 3]
=============================================================================

---------------------------- MODULE PlaneChannel ----------------------------
(***************************************************************************)
(* What the receive path promises the pages and the lamp, with no packets,  *)
(* bytes or parser: what they read of the plane is the payloads it sent,    *)
(* taken one at a time and in the order they were sent, the last of each    *)
(* command.                                                                *)
(*                                                                         *)
(* The promise ends when the channel breaks.  From then on a step still     *)
(* changes what is known of one command at most, but to any bytes, and the  *)
(* payloads sent may or may not be among them.                              *)
(***************************************************************************)
EXTENDS Integers, Sequences

CONSTANTS
  Payloads,   \* what the plane may send; the first byte is the command
  Commands    \* the commands the remote knows

VARIABLES
  sent,       \* the payloads not yet taken, oldest first
  known,      \* command |-> the last payload taken
  broken      \* bytes have been refused

channelVars == <<sent, known, broken>>

Init == sent = <<>> /\ known = [c \in Commands |-> <<>>] /\ broken = FALSE

Send(p) ==
  /\ sent' = Append(sent, p)
  /\ UNCHANGED <<known, broken>>

\* The oldest payload is taken; that of an unknown command is dropped.
Deliver ==
  /\ sent # <<>>
  /\ sent' = Tail(sent)
  /\ LET p == Head(sent)
     IN  known' = [c \in Commands |-> IF c = p[1] THEN p ELSE known[c]]
  /\ UNCHANGED broken

Break ==
  /\ broken' = TRUE
  /\ UNCHANGED <<sent, known>>

\* A payload that need not be one that was sent.
Garbled ==
  /\ broken
  /\ sent' = sent \/ (sent # <<>> /\ sent' = Tail(sent))
  /\ known' # known =>
       \E c \in Commands : known' = [known EXCEPT ![c] = known'[c]]
  /\ UNCHANGED broken

Next == (\E p \in Payloads : Send(p)) \/ Deliver \/ Break \/ Garbled

Spec == Init /\ [][Next]_channelVars
=============================================================================

---------------------------- MODULE MCRtMutex ----------------------------
(* RtMutex with a low, two medium and a high thread.  The numbers are those *)
(* of second_task, display and pair_thread; both mediums stand for display   *)
(* so that equals meet.                                                      *)
EXTENDS RtMutex

CONSTANTS low, med1, med2, high

MCThread == {low, med1, med2, high}

MCPriority == [t \in MCThread |-> CASE t = low -> 6
                                    [] t = high -> 4
                                    [] OTHER -> 5]
=============================================================================

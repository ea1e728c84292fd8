--------------------------- MODULE MCReceivePath ---------------------------
(* Payloads of one and two bytes, one of which holds the start byte of a     *)
(* frame; packets that hold one frame and the beginning of the next, and a   *)
(* queue that holds a frame and most of the next, so that it overflows.      *)
EXTENDS ReceivePath, SequencesExt

MCCrc(s) == FoldLeft(LAMBDA x, b : (3 * x + b + 1) % W, 0, s)
MCPayloads == {<<0>>, <<1, 2>>}
MCCommands == {0, 1}
=============================================================================

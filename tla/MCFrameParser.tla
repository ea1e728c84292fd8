--------------------------- MODULE MCFrameParser ---------------------------
(* The parser alone, fed every stream of bytes, which take four values.      *)
EXTENDS FrameParser, SequencesExt

MCCrc(s) == FoldLeft(LAMBDA x, b : (3 * x + b + 1) % W, 0, s)
=============================================================================

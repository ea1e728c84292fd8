----------------------------- MODULE CrcDivision -----------------------------
(***************************************************************************)
(* What the header of a function of my_lib/crc_lib.c promises: the rest of  *)
(* a division by a polynomial, taken bit by bit.  A word is the set of its  *)
(* bits that are one, a polynomial that of its exponents but the greatest.  *)
(***************************************************************************)
EXTENDS Integers, Sequences

CONSTANTS
  Headers,      \* width, Poly, Init, Refin, Refout and Xorout of the functions
  Messages      \* sequences of bytes

VARIABLES header, data, pos, reg, done

divisionVars == <<header, data, pos, reg, done>>

Flip(a, b) == (a \ b) \cup (b \ a)

Mirrored(a, w) == {k \in 0..w - 1 : w - 1 - k \in a}

\* The next bit of the message: a byte goes in from its last bit if Refin is set.
NextBit ==
  LET k == pos % 8 IN (IF header.refin THEN k ELSE 7 - k) \in data[pos \div 8 + 1]

Init ==
  /\ header \in Headers /\ data \in Messages
  /\ pos = 0 /\ reg = header.init /\ done = FALSE

Feed ==
  /\ pos < 8 * Len(data)
  /\ LET w == header.width
         shifted == {k \in 1..w - 1 : k - 1 \in reg}
     IN reg' = IF (w - 1 \in reg) # NextBit THEN Flip(shifted, header.poly) ELSE shifted
  /\ pos' = pos + 1
  /\ UNCHANGED <<header, data, done>>

Finish ==
  /\ pos = 8 * Len(data) /\ ~done
  /\ reg' = Flip(IF header.refout THEN Mirrored(reg, header.width) ELSE reg, header.xorout)
  /\ done' = TRUE
  /\ UNCHANGED <<header, data, pos>>

Next == Feed \/ Finish
Spec == Init /\ [][Next]_divisionVars
=============================================================================

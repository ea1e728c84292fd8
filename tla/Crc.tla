---------------------------------- MODULE Crc ----------------------------------
(***************************************************************************)
(* The loop of my_lib/crc_lib.c, which is the same in all its functions but *)
(* for the direction of the shift and the constants (module CrcLib).  A     *)
(* word is the set of its bits that are one.  The functions keep the        *)
(* register wherever in their variable it is convenient: at its low end,    *)
(* mirrored, when they shift to the right, and at its high end when they    *)
(* shift to the left, so that a byte meets it there although a polynomial   *)
(* may be shorter than a byte.                                              *)
(***************************************************************************)
EXTENDS Integers, Sequences

CONSTANTS
  Functions,      \* pairs of the code and the header of a function
  Messages        \* the arrays it is called with

Byte8 == SUBSET (0..7)

Flip(a, b) == (a \ b) \cup (b \ a)

Mirrored(a, w) == {k \in 0..w - 1 : w - 1 - k \in a}

Raised(a, n) == {k + n : k \in a}

\* The comments beside the constants, "reverse 0x31" or "0x09<<(8-7)", say how they follow
\* from those of the header.
Matches(f) ==
  LET c == f.code
      h == f.header
      place(a) == IF c.right THEN Mirrored(a, h.width) ELSE Raised(a, c.size - h.width)
  IN /\ c.size \in Nat /\ h.width \in Nat /\ 8 <= c.size /\ h.width <= c.size
     /\ 0 < h.width
     /\ c.right \in BOOLEAN /\ h.refin = c.right /\ h.refout = c.right
     /\ \A a \in {h.poly, h.init, h.xorout} : a \subseteq 0..h.width - 1
     /\ c.taps = place(h.poly) /\ c.start = place(h.init)
     /\ c.mask = IF c.right THEN h.xorout ELSE Raised(h.xorout, c.size - h.width)
     /\ c.drop = IF c.right THEN 0 ELSE c.size - h.width

ASSUME FunctionsAssumption == \A f \in Functions : Matches(f)
ASSUME MessagesAssumption == Messages \subseteq Seq(Byte8)

VARIABLES
  function, message,      \* the call
  length,                 \* bytes taken so far
  i,                      \* the bits of the current byte that were shifted; 8 between two bytes
  crcReg,                 \* the local crc
  returned

crcVars == <<function, message, length, i, crcReg, returned>>

code == function.code

CrcInit ==
  /\ function \in Functions /\ message \in Messages
  /\ length = 0 /\ i = 8
  /\ crcReg = function.code.start
  /\ returned = FALSE

\* crc ^= *data++, or crc ^= *data++ << (size - 8).
TakeByte ==
  /\ i = 8 /\ length < Len(message)
  /\ length' = length + 1 /\ i' = 0
  /\ crcReg' = Flip(crcReg, IF code.right THEN message[length + 1]
                         ELSE Raised(message[length + 1], code.size - 8))
  /\ UNCHANGED <<function, message, returned>>

\* Mutant of Shifted: the bit that falls out is looked for after the shift.
Shifted_LateTest(c) ==
  LET s == IF code.right THEN {k \in 0..code.size - 2 : k + 1 \in c}
           ELSE {k \in 1..code.size - 1 : k - 1 \in c}
  IN IF (IF code.right THEN 0 ELSE code.size - 1) \in s THEN Flip(s, code.taps) ELSE s

\* One turn of the for loop.
Shifted(c) ==
  LET s == IF code.right THEN {k \in 0..code.size - 2 : k + 1 \in c}
           ELSE {k \in 1..code.size - 1 : k - 1 \in c}
  IN IF (IF code.right THEN 0 ELSE code.size - 1) \in c THEN Flip(s, code.taps) ELSE s

BitStep ==
  /\ i < 8
  /\ i' = i + 1
  /\ crcReg' = Shifted(crcReg)
  /\ UNCHANGED <<function, message, length, returned>>

CrcReturn ==
  /\ i = 8 /\ length = Len(message) /\ ~returned
  /\ crcReg' = {k \in 0..code.size - 1 : k + code.drop \in Flip(crcReg, code.mask)}
  /\ returned' = TRUE
  /\ UNCHANGED <<function, message, length, i>>

CrcNext == TakeByte \/ BitStep \/ CrcReturn
CrcSpec == CrcInit /\ [][CrcNext]_crcVars

-----------------------------------------------------------------------------
\* The bits of the current byte that are still in crcReg and not in the division's register.
Pending ==
  IF i = 8 THEN {}
  ELSE IF code.right THEN {k \in 0..7 : k + i \in message[length]}
  ELSE {k \in 0..code.size - 1 : k - i - (code.size - 8) \in message[length]}

\* The register of the division that crcReg stands for.
Register ==
  LET w == function.header.width
      c == Flip(crcReg, Pending)
  IN IF returned THEN crcReg
     ELSE IF code.right THEN Mirrored(c, w)
     ELSE {k \in 0..w - 1 : k + (code.size - w) \in c}

CallTypeOK ==
  /\ function \in Functions /\ message \in Messages
  /\ length \in 0..Len(message) /\ i \in 0..8 /\ (i < 8 => length > 0)
  /\ returned \in BOOLEAN /\ (returned => i = 8 /\ length = Len(message))

\* No bit is ever outside the register but those of the byte that are still to come, so
\* none is lost at the end of the variable or left below a short register.
RegisterFits ==
  LET w == function.header.width IN
    IF returned THEN crcReg \subseteq 0..w - 1
    ELSE Flip(crcReg, Pending) \subseteq
           (IF code.right THEN 0..w - 1 ELSE code.size - w..code.size - 1)

CrcTypeOK == CallTypeOK /\ RegisterFits

Division ==
  INSTANCE CrcDivision
  WITH Headers <- {f.header : f \in Functions}, header <- function.header, data <- message,
       pos <- 8 * length + i - 8, reg <- Register, done <- returned

\* Every function computes the rest its header promises, for each message, of any length,
\* byte by byte, wherever it keeps the register and whether or not a byte is longer than it.
ImplementsDivision == Division!Spec
=============================================================================

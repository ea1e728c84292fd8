-------------------------------- MODULE CrcLib --------------------------------
(***************************************************************************)
(* The functions of my_lib/crc_lib.c: of each the constants of its code and *)
(* those of the comment above it, for the loop of module Crc.  The comments *)
(* of the two last leave out a digit of 0xFFFFFFFF, which they mean: their   *)
(* width is 32.                                                             *)
(***************************************************************************)
EXTENDS Integers

\* The bits of a number of at most 16 bits, and of the two halves of one of 32.
Word(n) == {k \in 0..15 : (n \div 2^k) % 2 = 1}
DWord(high, low) == Word(low) \cup {k + 16 : k \in Word(high)}

\* The code: a variable of so many bits, shifted to the right or to the left, the constants
\* of the loop and the start, and what return does: (crc ^ mask) >> drop.
Right(size, taps, start, mask) ==
  [right |-> TRUE, size |-> size, taps |-> taps, start |-> start, mask |-> mask, drop |-> 0]
Left(size, taps, start, mask, drop) ==
  [right |-> FALSE, size |-> size, taps |-> taps, start |-> start, mask |-> mask, drop |-> drop]

\* The comment: Poly, Init, Refin = Refout, Xorout.
Header(width, poly, init, ref, xorout) ==
  [width |-> width, poly |-> poly, init |-> init, refin |-> ref, refout |-> ref,
   xorout |-> xorout]

crc4_itu ==
  [code |-> Right(8, Word(\h0C), {}, {}),
   header |-> Header(4, Word(\h03), {}, TRUE, {})]
crc5_epc ==
  [code |-> Left(8, Word(\h48), Word(\h48), {}, 3),
   header |-> Header(5, Word(\h09), Word(\h09), FALSE, {})]
crc5_itu ==
  [code |-> Right(8, Word(\h15), {}, {}),
   header |-> Header(5, Word(\h15), {}, TRUE, {})]
crc5_usb ==
  [code |-> Right(8, Word(\h14), Word(\h1F), Word(\h1F)),
   header |-> Header(5, Word(\h05), Word(\h1F), TRUE, Word(\h1F))]
crc6_itu ==
  [code |-> Right(8, Word(\h30), {}, {}),
   header |-> Header(6, Word(\h03), {}, TRUE, {})]
crc7_mmc ==
  [code |-> Left(8, Word(\h12), {}, {}, 1),
   header |-> Header(7, Word(\h09), {}, FALSE, {})]
crc8 == [code |-> Left(8, Word(\h07), {}, {}, 0), header |-> Header(8, Word(\h07), {}, FALSE, {})]
crc8_itu ==
  [code |-> Left(8, Word(\h07), {}, Word(\h55), 0),
   header |-> Header(8, Word(\h07), {}, FALSE, Word(\h55))]
crc8_rohc ==
  [code |-> Right(8, Word(\hE0), Word(\hFF), {}),
   header |-> Header(8, Word(\h07), Word(\hFF), TRUE, {})]
crc8_maxim ==
  [code |-> Right(8, Word(\h8C), {}, {}),
   header |-> Header(8, Word(\h31), {}, TRUE, {})]
crc16_ibm ==
  [code |-> Right(16, Word(\hA001), {}, {}),
   header |-> Header(16, Word(\h8005), {}, TRUE, {})]
crc16_maxim ==
  [code |-> Right(16, Word(\hA001), {}, Word(\hFFFF)),
   header |-> Header(16, Word(\h8005), {}, TRUE, Word(\hFFFF))]
crc16_usb ==
  [code |-> Right(16, Word(\hA001), Word(\hFFFF), Word(\hFFFF)),
   header |-> Header(16, Word(\h8005), Word(\hFFFF), TRUE, Word(\hFFFF))]
crc16_modbus ==
  [code |-> Right(16, Word(\hA001), Word(\hFFFF), {}),
   header |-> Header(16, Word(\h8005), Word(\hFFFF), TRUE, {})]
crc16_ccitt ==
  [code |-> Right(16, Word(\h8408), {}, {}),
   header |-> Header(16, Word(\h1021), {}, TRUE, {})]
crc16_ccitt_false ==
  [code |-> Left(16, Word(\h1021), Word(\hFFFF), {}, 0),
   header |-> Header(16, Word(\h1021), Word(\hFFFF), FALSE, {})]
crc16_x25 ==
  [code |-> Right(16, Word(\h8408), Word(\hFFFF), Word(\hFFFF)),
   header |-> Header(16, Word(\h1021), Word(\hFFFF), TRUE, Word(\hFFFF))]
crc16_xmodem ==
  [code |-> Left(16, Word(\h1021), {}, {}, 0),
   header |-> Header(16, Word(\h1021), {}, FALSE, {})]
crc16_dnp ==
  [code |-> Right(16, Word(\hA6BC), {}, Word(\hFFFF)),
   header |-> Header(16, Word(\h3D65), {}, TRUE, Word(\hFFFF))]
crc32 ==
  [code |-> Right(32, DWord(\hEDB8, \h8320), DWord(\hFFFF, \hFFFF), DWord(\hFFFF, \hFFFF)),
   header |-> Header(32, DWord(\h04C1, \h1DB7), DWord(\hFFFF, \hFFFF), TRUE, DWord(\hFFFF, \hFFFF))]
crc32_mpeg_2 ==
  [code |-> Left(32, DWord(\h04C1, \h1DB7), DWord(\hFFFF, \hFFFF), {}, 0),
   header |-> Header(32, DWord(\h04C1, \h1DB7), DWord(\hFFFF, \hFFFF), FALSE, {})]

AllFunctions ==
  {crc4_itu, crc5_epc, crc5_itu, crc5_usb, crc6_itu, crc7_mmc, crc8, crc8_itu, crc8_rohc,
   crc8_maxim, crc16_ibm, crc16_maxim, crc16_usb, crc16_modbus, crc16_ccitt,
   crc16_ccitt_false, crc16_x25, crc16_xmodem, crc16_dnp, crc32, crc32_mpeg_2}
=============================================================================

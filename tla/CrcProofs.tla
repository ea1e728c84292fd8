------------------------------ MODULE CrcProofs ------------------------------
(***************************************************************************)
(* Proofs about the loop of crc_lib.c, for every function whose constants   *)
(* follow from its header and for messages of any bytes and length.         *)
(***************************************************************************)
EXTENDS Crc, TLAPS

LEMMA InFlip ==
  ASSUME NEW a, NEW b
  PROVE  /\ \A k : k \in Flip(a, b) <=> ((k \in a /\ k \notin b) \/ (k \in b /\ k \notin a))
         /\ Flip(a, {}) = a
BY DEF Flip

\* A word put at the low end in reverse is found there again.
LEMMA MirroredTwice ==
  ASSUME NEW w \in Nat, NEW a \in SUBSET (0..w - 1)
  PROVE  Mirrored(a, w) \subseteq 0..w - 1 /\ Mirrored(Mirrored(a, w), w) = a
<1>1. \A k \in 0..w - 1 : w - 1 - k \in 0..w - 1 /\ w - 1 - (w - 1 - k) = k
  OBVIOUS
<1>2. \A k \in 0..w - 1 : w - 1 - k \in Mirrored(a, w) <=> k \in a
  BY <1>1 DEF Mirrored
<1>3. Mirrored(Mirrored(a, w), w) = {k \in 0..w - 1 : w - 1 - k \in Mirrored(a, w)}
  BY DEF Mirrored
<1>4. Mirrored(Mirrored(a, w), w) = {k \in 0..w - 1 : k \in a}
  BY <1>2, <1>3
<1>5. Mirrored(a, w) \subseteq 0..w - 1
  BY DEF Mirrored
<1> QED
  BY <1>4, <1>5

\* ... and so is one raised to the high end.
LEMMA RaisedBits ==
  ASSUME NEW w \in Nat, NEW n \in Nat, NEW a \in SUBSET (0..w - 1)
  PROVE  /\ Raised(a, n) \subseteq n..n + w - 1
         /\ \A k \in Int : k + n \in Raised(a, n) <=> k \in a
<1>1. \A k \in Int : k + n \in Raised(a, n) <=> k \in a
  BY DEF Raised
<1>2. Raised(a, n) \subseteq n..n + w - 1
  BY DEF Raised
<1> QED
  BY <1>1, <1>2

LEMMA RaisedFound ==
  ASSUME NEW w \in Nat, NEW n \in Nat, NEW a \in SUBSET (0..w - 1)
  PROVE  {k \in 0..w - 1 : k + n \in Raised(a, n)} = a
<1>1. \A k \in Int : k + n \in Raised(a, n) <=> k \in a
  BY RaisedBits
<1>2. \A k \in 0..w - 1 : k \in Int
  OBVIOUS
<1> QED
  BY <1>1, <1>2

\* What is left of byte b after n bits, in either direction; a word shifted in a variable;
\* the register at the high end of it; and the register with its next bit free.
RightRest(b, n) == {k \in 0..7 : k + n \in b}
LeftRest(b, n, size) == {k \in 0..size - 1 : k - n - (size - 8) \in b}
ShiftedRight(c, size) == {k \in 0..size - 2 : k + 1 \in c}
ShiftedLeft(c, size) == {k \in 1..size - 1 : k - 1 \in c}
Lowered(c, w, h) == {k \in 0..w - 1 : k + h \in c}
Carried(r, w) == {k \in 1..w - 1 : k - 1 \in r}

\* crcReg after a turn of the loop, in either direction, and the register after bit n of b.
RightTurned(c, size, taps) ==
  IF 0 \in c THEN Flip(ShiftedRight(c, size), taps) ELSE ShiftedRight(c, size)
LeftTurned(c, size, taps) ==
  IF size - 1 \in c THEN Flip(ShiftedLeft(c, size), taps) ELSE ShiftedLeft(c, size)
Fed(r, w, poly, b, n) ==
  IF (w - 1 \in r) # (n \in b) THEN Flip(Carried(r, w), poly) ELSE Carried(r, w)

\* A turn with bit n of b leaves a register that fits and that has taken this bit.
RightAgrees(w, size, b, n, taps, c0) ==
  /\ Flip(RightTurned(c0, size, taps), RightRest(b, n + 1)) \subseteq 0..w - 1
  /\ Mirrored(Flip(RightTurned(c0, size, taps), RightRest(b, n + 1)), w) =
       Fed(Mirrored(Flip(c0, RightRest(b, n)), w), w, Mirrored(taps, w), b, n)
LeftAgrees(w, size, h, b, n, poly, c0) ==
  /\ Flip(LeftTurned(c0, size, Raised(poly, h)), LeftRest(b, n + 1, size)) \subseteq h..size - 1
  /\ Lowered(Flip(LeftTurned(c0, size, Raised(poly, h)), LeftRest(b, n + 1, size)), w, h) =
       Fed(Lowered(Flip(c0, LeftRest(b, n, size)), w, h), w, poly, b, 7 - n)

\* One turn of a loop that shifts to the right.
LEMMA RightTurn ==
  ASSUME NEW w \in Nat, NEW size \in Nat, 0 < w, w <= size, 8 <= size,
         NEW b \in SUBSET (0..7), NEW n \in 0..7, NEW taps \in SUBSET (0..w - 1),
         NEW c0, Flip(c0, RightRest(b, n)) \subseteq 0..w - 1
  PROVE  RightAgrees(w, size, b, n, taps, c0)
<1> DEFINE p0 == RightRest(b, n)
           p1 == RightRest(b, n + 1)
           c == Flip(c0, p0)
           s == ShiftedRight(c0, size)
           c1 == RightTurned(c0, size, taps)
           d == Flip(c1, p1)
           r == Mirrored(c, w)
           t == Carried(r, w)
<1> p0 = {k \in 0..7 : k + n \in b} /\ p1 = {k \in 0..7 : k + (n + 1) \in b}
  BY DEF RightRest
<1> c = Flip(c0, p0) /\ c \subseteq 0..w - 1 /\ s = {k \in 0..size - 2 : k + 1 \in c0}
  BY DEF ShiftedRight
<1> c1 = IF 0 \in c0 THEN Flip(s, taps) ELSE s
  BY DEF RightTurned
<1> t = {k \in 1..w - 1 : k - 1 \in r}
  BY DEF Carried
<1> HIDE DEF p0, p1, c, s, c1, t
<1>1. \A k : k \in c0 <=> ((k \in c /\ k \notin p0) \/ (k \in p0 /\ k \notin c))
  BY InFlip
<1>2. c0 \subseteq 0..size - 1
  BY <1>1
<1>3. \A k \in Nat : k \in s <=> k + 1 \in c0
  BY <1>2
<1>4. \A k \in Nat : k \in p1 <=> k + 1 \in p0
  <2>1. \A k \in Nat : k + (n + 1) = k + 1 + n
    OBVIOUS
  <2>2. \A k \in Nat : k \in p1 => k + 1 + n \in b /\ k + 1 \in 0..7
    BY <2>1
  <2>3. \A k \in Nat : k + 1 \in p0 => k + (n + 1) \in b /\ k \in 0..7
    BY <2>1
  <2> QED
    BY <2>2, <2>3
<1>5. \A k : k \in c1 => k \in Nat
  BY InFlip
<1>6. \A k : k \in d => k \in Nat
  <2>1. \A k : k \in d => k \in c1 \/ k \in p1
    BY DEF Flip
  <2> HIDE DEF d
  <2> QED
    BY <1>5, <2>1
<1>7. \A k \in Nat : k \in c1 <=> IF 0 \in c0 THEN ~(k + 1 \in c0 <=> k \in taps) ELSE k + 1 \in c0
  <2>1. CASE 0 \in c0
    <3>1. \A k : k \in c1 <=> ((k \in s /\ k \notin taps) \/ (k \in taps /\ k \notin s))
      BY <2>1, InFlip
    <3> QED
      BY <1>3, <2>1, <3>1
  <2>2. CASE 0 \notin c0
    BY <1>3, <2>2
  <2> QED
    BY <2>1, <2>2
<1>8. \A k \in Nat : k \in d <=> IF 0 \in c0 THEN ~(k + 1 \in c <=> k \in taps) ELSE k + 1 \in c
  <2>1. \A k : k \in d <=> ((k \in c1 /\ k \notin p1) \/ (k \in p1 /\ k \notin c1))
    BY DEF Flip
  <2> TAKE k \in Nat
  <2>2. k + 1 \in c0 <=> ~(k + 1 \in c <=> k \in p1)
    BY <1>1, <1>4
  <2>3. k \in d <=> ~(k \in c1 <=> k \in p1)
    BY <2>1
  <2>4. k \in c1 <=> IF 0 \in c0 THEN ~(k + 1 \in c0 <=> k \in taps) ELSE k + 1 \in c0
    BY <1>7
  <2> HIDE DEF d
  <2> QED
    BY <2>2, <2>3, <2>4
<1>9. d \subseteq 0..w - 1
  <2> SUFFICES ASSUME NEW k, k \in d PROVE k \in 0..w - 1
    OBVIOUS
  <2>1. k \in Nat
    BY <1>6
  <2>2. k + 1 \in c \/ k \in taps
    BY <1>8, <2>1
  <2> QED
    BY <2>1, <2>2
<1>10. (w - 1 \in r) # (n \in b) <=> 0 \in c0
  <2>1. w - 1 \in r <=> 0 \in c
    BY DEF Mirrored
  <2>2. n \in b <=> 0 \in p0
    OBVIOUS
  <2> QED
    BY <1>1, <2>1, <2>2
<1>11. \A k \in 0..w - 1 : k \in t <=> w - 1 - k + 1 \in c
  BY DEF Mirrored
<1>12. Mirrored(d, w) = IF 0 \in c0 THEN Flip(t, Mirrored(taps, w)) ELSE t
  <2>1. \A k \in 0..w - 1 : k \in Mirrored(d, w) <=>
          IF 0 \in c0 THEN ~(k \in t <=> k \in Mirrored(taps, w)) ELSE k \in t
    <3> TAKE k \in 0..w - 1
    <3>1. w - 1 - k \in Nat
      OBVIOUS
    <3>2. k \in Mirrored(d, w) <=> w - 1 - k \in d
      BY DEF Mirrored
    <3>3. k \in Mirrored(taps, w) <=> w - 1 - k \in taps
      BY DEF Mirrored
    <3>4. k \in t <=> w - 1 - k + 1 \in c
      BY <1>11
    <3>5. w - 1 - k \in d <=>
            IF 0 \in c0 THEN ~(w - 1 - k + 1 \in c <=> w - 1 - k \in taps) ELSE w - 1 - k + 1 \in c
      BY <1>8, <3>1
    <3> HIDE DEF d, t
    <3> QED
      BY <3>2, <3>3, <3>4, <3>5
  <2>2. Mirrored(d, w) \subseteq 0..w - 1 /\ Mirrored(taps, w) \subseteq 0..w - 1
    BY DEF Mirrored
  <2>3. t \subseteq 0..w - 1
    OBVIOUS
  <2> HIDE DEF d, t
  <2>4. CASE 0 \in c0
    <3>1. \A k : k \in Flip(t, Mirrored(taps, w)) <=>
            ((k \in t /\ k \notin Mirrored(taps, w)) \/ (k \in Mirrored(taps, w) /\ k \notin t))
      BY DEF Flip
    <3>2. \A k : k \in Mirrored(d, w) <=> k \in Flip(t, Mirrored(taps, w))
      BY <2>1, <2>2, <2>3, <2>4, <3>1
    <3>3. Mirrored(d, w) = Flip(t, Mirrored(taps, w))
      BY <3>2
    <3> QED
      BY <2>4, <3>3
  <2>5. CASE 0 \notin c0
    <3>1. \A k : k \in Mirrored(d, w) <=> k \in t
      BY <2>1, <2>2, <2>3, <2>5
    <3>2. Mirrored(d, w) = t
      BY <3>1
    <3> QED
      BY <2>5, <3>2
  <2> QED
    BY <2>4, <2>5
<1> QED
  BY <1>9, <1>10, <1>12 DEF RightAgrees, Fed, p0, p1, c, s, c1, t

\* One turn of a loop that shifts to the left, over a register raised by h bits.
LEMMA LeftTurn ==
  ASSUME NEW w \in Nat, NEW size \in Nat, 0 < w, w <= size, 8 <= size, NEW h, h = size - w,
         NEW b \in SUBSET (0..7), NEW n \in 0..7, NEW poly \in SUBSET (0..w - 1),
         NEW c0, Flip(c0, LeftRest(b, n, size)) \subseteq h..size - 1
  PROVE  LeftAgrees(w, size, h, b, n, poly, c0)
<1> DEFINE p0 == LeftRest(b, n, size)
           p1 == LeftRest(b, n + 1, size)
           c == Flip(c0, p0)
           s == ShiftedLeft(c0, size)
           taps == Raised(poly, h)
           top == size - 1 \in c0
           c1 == LeftTurned(c0, size, taps)
           d == Flip(c1, p1)
           r == Lowered(c, w, h)
           t == Carried(r, w)
           low == Lowered(d, w, h)
<1> /\ p0 = {k \in 0..size - 1 : k - n - (size - 8) \in b}
    /\ p1 = {k \in 0..size - 1 : k - (n + 1) - (size - 8) \in b}
  BY DEF LeftRest
<1> c = Flip(c0, p0) /\ c \subseteq h..size - 1 /\ s = {k \in 1..size - 1 : k - 1 \in c0}
  BY DEF ShiftedLeft
<1> c1 = IF size - 1 \in c0 THEN Flip(s, taps) ELSE s
  BY DEF LeftTurned
<1> r = {k \in 0..w - 1 : k + h \in c} /\ t = {k \in 1..w - 1 : k - 1 \in r}
  BY DEF Lowered, Carried
<1> low = {k \in 0..w - 1 : k + h \in d}
  BY DEF Lowered
<1> HIDE DEF p0, p1, c, s, c1, t, r, low
<1>0. h \in Nat /\ size = h + w
  OBVIOUS
<1>1. \A k : k \in c0 <=> ((k \in c /\ k \notin p0) \/ (k \in p0 /\ k \notin c))
  BY InFlip
<1>2. c0 \subseteq 0..size - 1
  <2>1. c \subseteq 0..size - 1 /\ p0 \subseteq 0..size - 1
    BY <1>0
  <2> QED
    BY <1>1, <2>1
<1>3. \A k \in 0..size - 1 : k \in s <=> k - 1 \in c0
  BY <1>2
<1>4. \A k \in 0..size - 1 : k \in p1 <=> k - 1 \in p0
  <2>1. \A k \in 0..size - 1 : k - (n + 1) - (size - 8) = k - 1 - n - (size - 8)
    OBVIOUS
  <2>2. \A k \in 0..size - 1 : k - 1 - n - (size - 8) \in 0..7 => k - 1 \in 0..size - 1
    OBVIOUS
  <2> QED
    BY <2>1, <2>2
<1>5. taps \subseteq h..size - 1 /\ \A k \in 0..w - 1 : k + h \in taps <=> k \in poly
  <2>1. taps \subseteq h..h + w - 1 /\ \A k \in Int : k + h \in taps <=> k \in poly
    BY <1>0, RaisedBits
  <2> HIDE DEF taps
  <2> QED
    BY <1>0, <2>1
<1> HIDE DEF taps, top
<1>6. \A k : k \in c1 <=> IF top THEN ~(k \in s <=> k \in taps) ELSE k \in s
  <2>1. CASE top
    <3>1. \A k : k \in Flip(s, taps) <=> ((k \in s /\ k \notin taps) \/ (k \in taps /\ k \notin s))
      BY DEF Flip
    <3>2. c1 = Flip(s, taps)
      BY <2>1 DEF top, taps
    <3> QED
      BY <2>1, <3>1, <3>2
  <2>2. CASE ~top
    BY <2>2 DEF top
  <2> QED
    BY <2>1, <2>2
<1>7. \A k : k \in d => k \in 0..size - 1
  <2>1. \A k : k \in d => k \in c1 \/ k \in p1
    BY InFlip
  <2>2. \A k : k \in c1 => k \in s \/ k \in taps
    BY <1>6
  <2> QED
    BY <1>0, <1>5, <2>1, <2>2
<1>8. \A k \in 0..size - 1 :
        k \in d <=> IF top THEN ~(k - 1 \in c <=> k \in taps) ELSE k - 1 \in c
  <2>1. \A k : k \in d <=> ((k \in c1 /\ k \notin p1) \/ (k \in p1 /\ k \notin c1))
    BY DEF Flip
  <2> TAKE k \in 0..size - 1
  <2>2. k \in s <=> ~(k - 1 \in c <=> k \in p1)
    BY <1>1, <1>3, <1>4
  <2>3. k \in d <=> ~(k \in c1 <=> k \in p1)
    BY <2>1
  <2>4. k \in c1 <=> IF top THEN ~(k \in s <=> k \in taps) ELSE k \in s
    BY <1>6
  <2> HIDE DEF d
  <2> QED
    BY <2>2, <2>3, <2>4
<1>9. d \subseteq h..size - 1
  <2> SUFFICES ASSUME NEW k, k \in d PROVE k \in h..size - 1
    OBVIOUS
  <2>1. k \in 0..size - 1
    BY <1>7
  <2>2. k - 1 \in c \/ k \in taps
    BY <1>8, <2>1
  <2>3. k - 1 \in h..size - 1 \/ k \in h..size - 1
    BY <1>5, <2>2
  <2> QED
    BY <1>0, <2>1, <2>3
<1>10. (w - 1 \in r) # (7 - n \in b) <=> top
  <2>1. w - 1 \in r <=> size - 1 \in c
    <3>1. w - 1 \in 0..w - 1 /\ w - 1 + h = size - 1
      BY <1>0
    <3> QED
      BY <3>1
  <2>2. 7 - n \in b <=> size - 1 \in p0
    <3>1. size - 1 - n - (size - 8) = 7 - n /\ size - 1 \in 0..size - 1
      OBVIOUS
    <3> QED
      BY <3>1
  <2> QED
    BY <1>1, <2>1, <2>2 DEF top
<1>11. \A k \in 0..w - 1 : k \in t <=> k + h - 1 \in c
  <2> TAKE k \in 0..w - 1
  <2>1. CASE k = 0
    <3>1. k + h - 1 \notin h..size - 1
      BY <1>0, <2>1
    <3> QED
      BY <2>1, <3>1
  <2>2. CASE k # 0
    <3>1. k \in 1..w - 1 /\ k - 1 \in 0..w - 1 /\ k - 1 + h = k + h - 1
      BY <1>0, <2>2
    <3> QED
      BY <3>1
  <2> QED
    BY <2>1, <2>2
<1>12. \A k \in 0..w - 1 : k \in low <=> IF top THEN ~(k \in t <=> k \in poly) ELSE k \in t
  <2> TAKE k \in 0..w - 1
  <2>1. k + h \in 0..size - 1
    BY <1>0
  <2>2. k \in low <=> k + h \in d
    OBVIOUS
  <2>3. k + h \in d <=> IF top THEN ~(k + h - 1 \in c <=> k + h \in taps) ELSE k + h - 1 \in c
    <3> HIDE DEF d
    <3> QED
      BY <1>8, <2>1
  <2>4. (k \in t <=> k + h - 1 \in c) /\ (k + h \in taps <=> k \in poly)
    BY <1>5, <1>11
  <2> HIDE DEF d, t, low
  <2> QED
    BY <2>2, <2>3, <2>4
<1>13. low = IF top THEN Flip(t, poly) ELSE t
  <2>1. low \subseteq 0..w - 1 /\ t \subseteq 0..w - 1
    OBVIOUS
  <2> HIDE DEF d, t, low
  <2>2. CASE top
    <3>1. \A k : k \in Flip(t, poly) <=> ((k \in t /\ k \notin poly) \/ (k \in poly /\ k \notin t))
      BY DEF Flip
    <3>2. \A k : k \in low <=> k \in Flip(t, poly)
      BY <1>12, <2>1, <2>2, <3>1
    <3>3. low = Flip(t, poly)
      BY <3>2
    <3> QED
      BY <2>2, <3>3
  <2>3. CASE ~top
    <3>1. \A k : k \in low <=> k \in t
      BY <1>12, <2>1, <2>3
    <3>2. low = t
      BY <3>1
    <3> QED
      BY <2>3, <3>2
  <2> QED
    BY <2>2, <2>3
<1> QED
  BY <1>9, <1>10, <1>13 DEF LeftAgrees, Fed, p0, p1, c, s, c1, t, r, low, taps, top

-----------------------------------------------------------------------------
LEMMA FunctionFacts ==
  ASSUME NEW f \in Functions
  PROVE  /\ f.code.size \in Nat /\ f.header.width \in Nat /\ 8 <= f.code.size
         /\ 0 < f.header.width /\ f.header.width <= f.code.size
         /\ f.code.right \in BOOLEAN
         /\ f.header.refin = f.code.right /\ f.header.refout = f.code.right
         /\ f.header.poly \subseteq 0..f.header.width - 1
         /\ f.header.init \subseteq 0..f.header.width - 1
         /\ f.header.xorout \subseteq 0..f.header.width - 1
BY FunctionsAssumption DEF Matches

LEMMA RightFacts ==
  ASSUME NEW f \in Functions, f.code.right
  PROVE  /\ f.code.taps = Mirrored(f.header.poly, f.header.width)
         /\ f.code.start = Mirrored(f.header.init, f.header.width)
         /\ f.code.mask = f.header.xorout /\ f.code.drop = 0
BY FunctionsAssumption DEF Matches

LEMMA LeftFacts ==
  ASSUME NEW f \in Functions, ~f.code.right
  PROVE  LET h == f.code.size - f.header.width
         IN /\ f.code.taps = Raised(f.header.poly, h)
            /\ f.code.start = Raised(f.header.init, h)
            /\ f.code.mask = Raised(f.header.xorout, h) /\ f.code.drop = h
BY FunctionsAssumption DEF Matches

\* The byte under way.
LEMMA ByteFacts ==
  ASSUME CallTypeOK, NEW n \in 1..Len(message)
  PROVE  message[n] \in SUBSET (0..7)
BY MessagesAssumption DEF CallTypeOK, Byte8

\* Between two bytes nothing is pending.
LEMMA NonePending ==
  ASSUME i = 8
  PROVE  Pending = {} /\ Flip(crcReg, Pending) = crcReg
BY InFlip DEF Pending

LEMMA CrcInitInv ==
  ASSUME CrcInit
  PROVE  CrcTypeOK /\ Division!Init
<1> DEFINE w == function.header.width
<1>1. function \in Functions /\ message \in Messages /\ length = 0 /\ i = 8
      /\ crcReg = function.code.start /\ returned = FALSE
  BY DEF CrcInit
<1>2. Flip(crcReg, Pending) = crcReg
  BY <1>1, NonePending
<1>0. CallTypeOK
  <2>1. message \in Seq(Byte8) /\ Len(message) \in Nat
    BY <1>1, MessagesAssumption
  <2>2. length \in 0..Len(message) /\ i \in 0..8 /\ ~(i < 8)
    BY <1>1, <2>1
  <2> QED
    BY <1>1, <2>2 DEF CallTypeOK
<1>5. 8 * length + i - 8 = 0
  BY <1>1
<1>3. CASE code.right
  <2>1. crcReg = Mirrored(function.header.init, w)
    BY <1>1, <1>3, RightFacts DEF code
  <2>2. crcReg \subseteq 0..w - 1 /\ Mirrored(crcReg, w) = function.header.init
    BY <1>1, <2>1, FunctionFacts, MirroredTwice
  <2>3. Register = function.header.init
    BY <1>1, <1>2, <1>3, <2>2 DEF Register
  <2> QED
    BY <1>0, <1>1, <1>2, <1>3, <1>5, <2>2, <2>3 DEF CrcTypeOK, RegisterFits, Division!Init
<1>4. CASE ~code.right
  <2> DEFINE h == code.size - w
  <2>1. crcReg = Raised(function.header.init, h)
    BY <1>1, <1>4, LeftFacts DEF code
  <2>2. h \in Nat /\ h + w - 1 = code.size - 1 /\ w \in Nat
    BY <1>1, FunctionFacts DEF code
  <2>3. function.header.init \in SUBSET (0..w - 1)
    BY <1>1, FunctionFacts
  <2> DEFINE a == function.header.init
  <2> HIDE DEF a, h, w
  <2>4. crcReg \subseteq h..code.size - 1 /\ {k \in 0..w - 1 : k + h \in crcReg} = a
    <3>1. crcReg = Raised(a, h) /\ a \in SUBSET (0..w - 1)
      BY <2>1, <2>3 DEF a
    <3>2. Raised(a, h) \subseteq h..h + w - 1
      BY <2>2, <3>1, RaisedBits
    <3>3. {k \in 0..w - 1 : k + h \in Raised(a, h)} = a
      BY <2>2, <3>1, RaisedFound
    <3> QED
      BY <2>2, <3>1, <3>2, <3>3
  <2>5. Register = function.header.init
    BY <1>1, <1>2, <1>4, <2>4 DEF Register, a, h, w
  <2> QED
    BY <1>0, <1>1, <1>2, <1>4, <1>5, <2>4, <2>5 DEF CrcTypeOK, RegisterFits, Division!Init, a, h, w
<1> QED
  BY <1>3, <1>4

\* A byte put into crcReg is pending at once: the register stands as it was.
LEMMA TakeByteStep ==
  ASSUME CrcTypeOK, TakeByte
  PROVE  CrcTypeOK' /\ UNCHANGED Register /\ 8 * length' + i' - 8 = 8 * length + i - 8
<1> DEFINE b == message[length + 1]
           put == IF code.right THEN b ELSE Raised(b, code.size - 8)
<1>1. /\ i = 8 /\ length \in Nat /\ length' = length + 1 /\ i' = 0
      /\ crcReg' = Flip(crcReg, put) /\ code' = code
      /\ function' = function /\ message' = message /\ returned' = returned
      /\ Len(message) \in Nat /\ length < Len(message)
  <2>1. message \in Seq(Byte8)
    BY MessagesAssumption DEF CrcTypeOK, CallTypeOK
  <2> QED
    BY <2>1 DEF TakeByte, CrcTypeOK, CallTypeOK, code
<1>2. function \in Functions /\ CallTypeOK /\ ~returned
  BY <1>1 DEF CrcTypeOK, CallTypeOK
<1>3. b \in SUBSET (0..7)
  <2>1. length + 1 \in 1..Len(message)
    BY <1>1
  <2> QED
    BY <1>2, <2>1, ByteFacts
<1>4. Pending' = put
  <2>1. Pending' = IF code.right THEN {k \in 0..7 : k + 0 \in b}
                   ELSE {k \in 0..code.size - 1 : k - 0 - (code.size - 8) \in b}
    BY <1>1 DEF Pending
  <2>2. CASE code.right
    <3>1. {k \in 0..7 : k + 0 \in b} = b
      BY <1>3
    <3> QED
      BY <2>1, <2>2, <3>1
  <2>3. CASE ~code.right
    <3>1. code.size \in Nat /\ 8 <= code.size
      BY <1>2, FunctionFacts DEF code
    <3> DEFINE n == code.size - 8
    <3>2. n \in Nat /\ code.size = n + 8
      BY <3>1
    <3> HIDE DEF n
    <3> DEFINE e == 8
    <3>6. e \in Nat /\ b \in SUBSET (0..e - 1) /\ n + e - 1 = n + 7
      BY <1>3, <3>2
    <3> HIDE DEF b, e
    <3>3. Raised(b, n) \subseteq n..n + 7 /\ \A k \in Int : k + n \in Raised(b, n) <=> k \in b
      BY <3>2, <3>6, RaisedBits
    <3>4. \A k \in 0..n + 7 : k - n + n = k /\ k - n \in Int /\ k - 0 - n = k - n
      BY <3>2
    <3>5. {k \in 0..n + 7 : k - 0 - n \in b} = Raised(b, n)
      BY <3>2, <3>3, <3>4
    <3> QED
      BY <2>1, <2>3, <3>2, <3>5 DEF n
  <2> QED
    BY <2>2, <2>3
<1>5. Flip(crcReg, Pending) = crcReg
  BY <1>1, NonePending
<1>6. Flip(crcReg', Pending') = crcReg
  BY <1>1, <1>4 DEF Flip
<1>7. Register' = Register
  BY <1>1, <1>2, <1>5, <1>6 DEF Register
<1>8. CallTypeOK'
  <2>1. length' \in 0..Len(message') /\ i' \in 0..8 /\ length' > 0
    BY <1>1
  <2> QED
    BY <1>1, <1>2, <2>1 DEF CallTypeOK
<1>9. RegisterFits'
  BY <1>1, <1>2, <1>5, <1>6 DEF CrcTypeOK, RegisterFits
<1>10. 8 * length' + i' - 8 = 8 * length + i - 8
  BY <1>1
<1> QED
  BY <1>7, <1>8, <1>9, <1>10 DEF CrcTypeOK

\* Where the division stands in the message.
LEMMA Position ==
  ASSUME NEW n \in Nat, NEW l \in Nat, 0 < l, n < 8
  PROVE  LET pos == 8 * l + n - 8
         IN pos % 8 = n /\ pos \div 8 + 1 = l /\ pos \in Nat
<1> DEFINE m == l - 1
<1>1. m \in Nat /\ l = m + 1 /\ 8 * l + n - 8 = 8 * m + n
  OBVIOUS
<1> HIDE DEF m
<1>2. (8 * m + n) % 8 = n /\ (8 * m + n) \div 8 = m /\ 8 * m + n \in Nat
  BY <1>1
<1> QED
  BY <1>1, <1>2

\* One turn of the loop is one bit of the division.
LEMMA BitStepFeeds ==
  ASSUME CrcTypeOK, BitStep
  PROVE  CrcTypeOK' /\ Division!Feed
<1> DEFINE w == function.header.width
           size == function.code.size
           poly == function.header.poly
           taps == function.code.taps
           b == message[length]
           c == Flip(crcReg, Pending)
           r == Register
           t == Carried(r, w)
           pos == 8 * length + i - 8
           bit == IF code.right THEN i ELSE 7 - i
           p1 == IF code.right THEN RightRest(b, i + 1) ELSE LeftRest(b, i + 1, size)
<1>1. function \in Functions /\ i \in 0..7 /\ i \in Nat /\ i < 8 /\ i' = i + 1
      /\ length \in Nat /\ 0 < length /\ length \in 1..Len(message) /\ ~returned /\ CallTypeOK
  <2>1. Len(message) \in Nat
    BY MessagesAssumption DEF CrcTypeOK, CallTypeOK
  <2> QED
    BY <2>1 DEF BitStep, CrcTypeOK, CallTypeOK
<1>2. /\ function' = function /\ message' = message /\ length' = length /\ returned' = returned
      /\ code' = code
  BY DEF BitStep, code
<1>3. /\ size \in Nat /\ w \in Nat /\ 8 <= size /\ 0 < w /\ w <= size
      /\ code.right \in BOOLEAN /\ poly \in SUBSET (0..w - 1)
      /\ function.header.refin = code.right
  BY <1>1, FunctionFacts DEF code
<1>4. b \in SUBSET (0..7)
  BY <1>1, ByteFacts
<1>5. crcReg' = IF code.right THEN RightTurned(crcReg, size, taps) ELSE LeftTurned(crcReg, size, taps)
  BY DEF BitStep, Shifted, code, RightTurned, LeftTurned, ShiftedRight, ShiftedLeft
<1>6. Pending' = p1
  <2>1. CASE i = 7
    <3>1. Pending' = {}
      BY <1>1, <2>1 DEF Pending
    <3>2. \A k \in 0..7 : k + (7 + 1) \notin 0..7
      OBVIOUS
    <3>3. \A k \in 0..size - 1 : k - (7 + 1) - (size - 8) \notin 0..7
      BY <1>3
    <3> QED
      BY <1>4, <2>1, <3>1, <3>2, <3>3 DEF RightRest, LeftRest
  <2>2. CASE i # 7
    <3>1. ~(i' = 8)
      BY <1>1, <2>2
    <3> QED
      BY <1>1, <1>2, <3>1 DEF Pending, code, RightRest, LeftRest
  <2> QED
    BY <2>1, <2>2
<1>7. Pending = IF code.right THEN RightRest(b, i) ELSE LeftRest(b, i, size)
  BY <1>1 DEF Pending, code, RightRest, LeftRest
<1>8. RegisterFits' /\ Register' = Fed(r, w, poly, b, bit)
  <2>1. CASE code.right
    <3>1. c \subseteq 0..w - 1 /\ r = Mirrored(c, w)
      BY <1>1, <2>1 DEF CrcTypeOK, RegisterFits, Register
    <3>2. taps = Mirrored(poly, w)
      BY <1>1, <2>1, RightFacts DEF code
    <3>3. c = Flip(crcReg, RightRest(b, i)) /\ bit = i
      BY <1>7, <2>1
    <3> DEFINE d == Flip(RightTurned(crcReg, size, taps), RightRest(b, i + 1))
    <3>4. Register' = Mirrored(d, w) /\ (RegisterFits' <=> d \subseteq 0..w - 1)
      BY <1>1, <1>2, <1>5, <1>6, <2>1 DEF Register, RegisterFits
    <3> HIDE DEF w, size, poly, taps, b, c, r, bit
    <3>5. taps \in SUBSET (0..w - 1) /\ Mirrored(taps, w) = poly
      BY <1>3, <3>2, MirroredTwice
    <3>6. RightAgrees(w, size, b, i, taps, crcReg)
      <4>1. Flip(crcReg, RightRest(b, i)) \subseteq 0..w - 1
        BY <3>1, <3>3
      <4>2. w \in Nat /\ size \in Nat /\ 0 < w /\ w <= size /\ 8 <= size
        BY <1>3
      <4>3. b \in SUBSET (0..7) /\ i \in 0..7 /\ taps \in SUBSET (0..w - 1)
        BY <1>1, <1>4, <3>5
      <4> QED
        BY ONLY <4>1, <4>2, <4>3, RightTurn
    <3>7. /\ d \subseteq 0..w - 1
          /\ Mirrored(d, w) = Fed(Mirrored(Flip(crcReg, RightRest(b, i)), w), w, Mirrored(taps, w), b, i)
      BY <3>6 DEF RightAgrees
    <3> QED
      BY <3>1, <3>3, <3>4, <3>5, <3>7
  <2>2. CASE ~code.right
    <3> DEFINE h == size - w
    <3>1. c \subseteq h..size - 1 /\ r = Lowered(c, w, h) /\ h = size - w
      BY <1>1, <2>2 DEF CrcTypeOK, RegisterFits, Register, code, Lowered
    <3>2. taps = Raised(poly, h)
      BY <1>1, <2>2, LeftFacts DEF code
    <3>3. c = Flip(crcReg, LeftRest(b, i, size)) /\ bit = 7 - i
      BY <1>7, <2>2
    <3> DEFINE d == Flip(LeftTurned(crcReg, size, Raised(poly, h)), LeftRest(b, i + 1, size))
    <3>4. Register' = Lowered(d, w, h) /\ (RegisterFits' <=> d \subseteq h..size - 1)
      BY <1>1, <1>2, <1>5, <1>6, <2>2, <3>2 DEF Register, RegisterFits, code, Lowered
    <3> HIDE DEF w, size, poly, taps, b, c, r, bit, h
    <3>5. LeftAgrees(w, size, h, b, i, poly, crcReg)
      <4>1. Flip(crcReg, LeftRest(b, i, size)) \subseteq h..size - 1
        BY <3>1, <3>3
      <4>2. w \in Nat /\ size \in Nat /\ 0 < w /\ w <= size /\ 8 <= size
        BY <1>3
      <4>3. b \in SUBSET (0..7) /\ i \in 0..7 /\ poly \in SUBSET (0..w - 1) /\ h = size - w
        BY <1>1, <1>3, <1>4, <3>1
      <4> QED
        BY ONLY <4>1, <4>2, <4>3, LeftTurn
    <3>6. /\ d \subseteq h..size - 1
          /\ Lowered(d, w, h) = Fed(Lowered(Flip(crcReg, LeftRest(b, i, size)), w, h), w, poly, b, 7 - i)
      BY <3>5 DEF LeftAgrees
    <3> QED
      BY <3>1, <3>3, <3>4, <3>6
  <2> QED
    BY <1>3, <2>1, <2>2
<1>9. CallTypeOK'
  <2>1. i' \in 0..8 /\ length' > 0
    BY <1>1, <1>2
  <2> QED
    BY <1>1, <1>2, <2>1 DEF CallTypeOK
<1>10. pos % 8 = i /\ pos \div 8 + 1 = length /\ pos < 8 * Len(message)
  <2>1. pos % 8 = i /\ pos \div 8 + 1 = length
    BY <1>1, Position
  <2>2. Len(message) \in Nat
    BY MessagesAssumption DEF CrcTypeOK, CallTypeOK
  <2>3. length <= Len(message)
    BY <1>1, <2>2
  <2>4. pos < 8 * Len(message)
    BY <1>1, <2>2, <2>3
  <2> QED
    BY <2>1, <2>4
<1>11. Division!NextBit <=> bit \in b
  BY <1>3, <1>10 DEF Division!NextBit
<1>12. 8 * length' + i' - 8 = pos + 1
  BY <1>1, <1>2
<1>13. Flip(t, poly) = Division!Flip(t, poly)
  BY DEF Flip, Division!Flip
<1> HIDE DEF pos, bit, b
<1>14. Division!Feed
  <2>1. /\ pos < 8 * Len(message)
        /\ Register' = IF (w - 1 \in r) # Division!NextBit THEN Division!Flip(t, poly) ELSE t
        /\ 8 * length' + i' - 8 = pos + 1
        /\ function'.header = function.header /\ message' = message /\ returned' = returned
    BY <1>2, <1>8, <1>10, <1>11, <1>12, <1>13 DEF Fed
  <2> QED
    BY <2>1 DEF Division!Feed, pos, Carried
<1> QED
  BY <1>8, <1>9, <1>14 DEF CrcTypeOK

\* What a function returns, from a register at the low end and at the high end of crcReg.
Returned(c, size, mask, drop) == {k \in 0..size - 1 : k + drop \in Flip(c, mask)}

LEMMA RightReturned ==
  ASSUME NEW w \in Nat, NEW size \in Nat, w <= size,
         NEW c \in SUBSET (0..w - 1), NEW x \in SUBSET (0..w - 1)
  PROVE  Returned(c, size, x, 0) = Flip(Mirrored(Mirrored(c, w), w), x)
<1>1. Mirrored(Mirrored(c, w), w) = c
  BY MirroredTwice
<1>2. \A k : k \in Flip(c, x) => k \in 0..size - 1
  <2>1. \A k : k \in Flip(c, x) => k \in c \/ k \in x
    BY InFlip
  <2>2. \A k \in 0..w - 1 : k \in 0..size - 1
    OBVIOUS
  <2> QED
    BY <2>1, <2>2
<1>3. \A k \in 0..size - 1 : k + 0 = k
  OBVIOUS
<1> QED
  BY <1>1, <1>2, <1>3 DEF Returned

LEMMA LeftReturned ==
  ASSUME NEW w \in Nat, NEW size \in Nat, w <= size, NEW h, h = size - w,
         NEW c \in SUBSET (h..size - 1), NEW x \in SUBSET (0..w - 1)
  PROVE  Returned(c, size, Raised(x, h), h) = Flip(Lowered(c, w, h), x)
<1> DEFINE y == Raised(x, h)
           l == Lowered(c, w, h)
           ret == Returned(c, size, y, h)
<1>1. h \in Nat /\ size = h + w
  OBVIOUS
<1>2. y \subseteq h..h + w - 1 /\ \A k \in Int : k + h \in y <=> k \in x
  BY <1>1, RaisedBits
<1>3. l = {k \in 0..w - 1 : k + h \in c}
  BY DEF Lowered
<1>4. ret = {k \in 0..size - 1 : k + h \in Flip(c, y)}
  BY DEF Returned
<1>5. \A k : k \in Flip(c, y) <=> ((k \in c /\ k \notin y) \/ (k \in y /\ k \notin c))
  BY InFlip
<1> HIDE DEF y, l, ret
<1>6. \A k : k \in Flip(c, y) => k \in h..h + w - 1
  <2>1. \A k : k \in c => k \in h..h + w - 1
    BY <1>1
  <2> QED
    BY <1>2, <1>5, <2>1
<1>7. \A k : k \in ret <=> k \in 0..w - 1 /\ ~(k + h \in c <=> k + h \in y)
  <2>1. \A k \in 0..size - 1 : k + h \in h..h + w - 1 => k \in 0..w - 1
    BY <1>1
  <2>2. \A k \in 0..w - 1 : k \in 0..size - 1
    OBVIOUS
  <2> QED
    BY <1>4, <1>5, <1>6, <2>1, <2>2
<1>8. \A k \in 0..w - 1 : (k + h \in c <=> k \in l) /\ (k + h \in y <=> k \in x)
  BY <1>2, <1>3
<1>9. \A k : k \in l \/ k \in x => k \in 0..w - 1
  BY <1>3
<1>10. \A k : k \in Flip(l, x) <=> ((k \in l /\ k \notin x) \/ (k \in x /\ k \notin l))
  BY InFlip
<1>11. \A k : k \in ret <=> k \in Flip(l, x)
  BY <1>7, <1>8, <1>9, <1>10
<1>12. ret = Flip(l, x)
  <2>1. ret \subseteq 0..size - 1
    BY <1>4
  <2> QED
    BY <1>11
<1> QED
  BY <1>12 DEF ret, l, y

\* The end of the function is the end of the division.
LEMMA CrcReturnStep ==
  ASSUME CrcTypeOK, CrcReturn
  PROVE  CrcTypeOK' /\ Division!Finish
<1> DEFINE w == function.header.width
           size == function.code.size
           x == function.header.xorout
           r == Register
           h == size - w
<1>1. /\ function \in Functions /\ i = 8 /\ length = Len(message) /\ ~returned /\ CallTypeOK
      /\ Len(message) \in Nat
  BY MessagesAssumption DEF CrcReturn, CrcTypeOK, CallTypeOK
<1>2. /\ function' = function /\ message' = message /\ length' = length /\ i' = i /\ returned'
      /\ returned' = TRUE
  BY DEF CrcReturn
<1>3. /\ size \in Nat /\ w \in Nat /\ 8 <= size /\ 0 < w /\ w <= size /\ x \in SUBSET (0..w - 1)
      /\ function.code.right \in BOOLEAN /\ function.header.refout = function.code.right
  BY <1>1, FunctionFacts
<1>4. crcReg' = Returned(crcReg, size, function.code.mask, function.code.drop)
  BY DEF CrcReturn, code, Returned
<1>5. Flip(crcReg, Pending) = crcReg
  BY <1>1, NonePending
<1>6. crcReg' = Flip(IF function.header.refout THEN Mirrored(r, w) ELSE r, x)
  <2>1. CASE function.code.right
    <3>1. crcReg \in SUBSET (0..w - 1) /\ r = Mirrored(crcReg, w)
      BY <1>1, <1>5, <2>1 DEF CrcTypeOK, RegisterFits, Register, code
    <3>2. function.code.mask = x /\ function.code.drop = 0
      BY <1>1, <2>1, RightFacts
    <3> HIDE DEF w, size, x, r
    <3>3. Returned(crcReg, size, x, 0) = Flip(Mirrored(Mirrored(crcReg, w), w), x)
      BY <1>3, <3>1, RightReturned
    <3> QED
      BY <1>3, <1>4, <2>1, <3>1, <3>2, <3>3
  <2>2. CASE ~function.code.right
    <3>1. crcReg \in SUBSET (h..size - 1) /\ r = Lowered(crcReg, w, h) /\ h = size - w
      BY <1>1, <1>5, <2>2 DEF CrcTypeOK, RegisterFits, Register, code, Lowered
    <3>2. function.code.mask = Raised(x, h) /\ function.code.drop = h
      BY <1>1, <2>2, LeftFacts
    <3> HIDE DEF w, size, x, r, h
    <3>3. Returned(crcReg, size, Raised(x, h), h) = Flip(Lowered(crcReg, w, h), x)
      BY <1>3, <3>1, LeftReturned
    <3> QED
      BY <1>3, <1>4, <2>2, <3>1, <3>2, <3>3
  <2> QED
    BY <1>3, <2>1, <2>2
<1>7. r \subseteq 0..w - 1
  BY <1>1 DEF Register, Mirrored
<1>8. crcReg' \subseteq 0..w - 1
  <2>1. Mirrored(r, w) \subseteq 0..w - 1
    BY DEF Mirrored
  <2> HIDE DEF w, r, x
  <2> QED
    BY <1>3, <1>6, <1>7, <2>1 DEF Flip
<1>9. RegisterFits'
  BY <1>2, <1>8 DEF RegisterFits
<1>10. CallTypeOK'
  BY <1>1, <1>2 DEF CallTypeOK
<1>11. Register' = crcReg'
  BY <1>2 DEF Register
<1>12. 8 * length + i - 8 = 8 * Len(message) /\ 8 * length' + i' - 8 = 8 * length + i - 8
  BY <1>1, <1>2
<1>13. Division!Finish
  <2>1. \A a : Division!Flip(a, x) = Flip(a, x) /\ Division!Mirrored(a, w) = Mirrored(a, w)
    BY DEF Division!Flip, Division!Mirrored, Flip, Mirrored
  <2>2. Register' = Division!Flip(IF function.header.refout THEN Division!Mirrored(r, w) ELSE r, x)
    BY <1>6, <1>11, <2>1
  <2>3. /\ 8 * length + i - 8 = 8 * Len(message) /\ ~returned
        /\ function'.header = function.header /\ message' = message
        /\ 8 * length' + i' - 8 = 8 * length + i - 8
    BY <1>1, <1>2, <1>12
  <2>4. returned' = TRUE
    BY <1>2
  <2> HIDE DEF r, x, w
  <2> QED
    BY <2>2, <2>3, <2>4, Zenon DEF Division!Finish, r, x, w
<1> QED
  BY <1>9, <1>10, <1>13 DEF CrcTypeOK

-----------------------------------------------------------------------------
\* crc8_maxim and the other functions of crc_lib.c compute the rest their headers promise,
\* for every message: each turn of the loops is a step of the division or none.
THEOREM CrcIsTheRest == CrcSpec => ImplementsDivision
<1>1. CrcInit => CrcTypeOK /\ Division!Init
  BY CrcInitInv
<1>2. CrcTypeOK /\ [CrcNext]_crcVars => CrcTypeOK' /\ [Division!Next]_Division!divisionVars
  <2> SUFFICES ASSUME CrcTypeOK, [CrcNext]_crcVars
               PROVE  CrcTypeOK' /\ [Division!Next]_Division!divisionVars
    OBVIOUS
  <2>1. CASE TakeByte
    <3>1. function' = function /\ message' = message /\ returned' = returned
      BY <2>1 DEF TakeByte
    <3> QED
      BY <2>1, <3>1, TakeByteStep DEF Division!divisionVars
  <2>2. CASE BitStep
    BY <2>2, BitStepFeeds DEF Division!Next
  <2>3. CASE CrcReturn
    BY <2>3, CrcReturnStep DEF Division!Next
  <2>4. CASE UNCHANGED crcVars
    <3>1. Pending' = Pending
      BY <2>4 DEF crcVars, Pending, code
    <3>2. Register' = Register
      BY <2>4, <3>1 DEF crcVars, Register, code
    <3>3. CrcTypeOK'
      BY <2>4, <3>1 DEF crcVars, CrcTypeOK, CallTypeOK, RegisterFits, code
    <3> QED
      BY <2>4, <3>2, <3>3 DEF crcVars, Division!divisionVars
  <2> QED
    BY <2>1, <2>2, <2>3, <2>4 DEF CrcNext
<1> QED
  BY <1>1, <1>2, PTL DEF CrcSpec, ImplementsDivision, Division!Spec
=============================================================================

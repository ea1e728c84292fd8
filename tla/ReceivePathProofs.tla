-------------------------- MODULE ReceivePathProofs --------------------------
(***************************************************************************)
(* Proofs about the way in.  First AnalysisData, for bytes of any width,    *)
(* any buffer sizes and any crc: whatever bytes it is fed, it accepts       *)
(* exactly the frames.  Then the whole receive path: of any payloads that   *)
(* fit, cut up by packets and calls in any way, none is lost, doubled or    *)
(* reordered until the queue is full.                                       *)
(***************************************************************************)
EXTENDS ReceivePath, SequenceTheorems, WellFoundedInduction, TLAPS

LEMMA ByteFacts ==
  /\ W \in Nat /\ Sof \in Byte /\ Eof \in Byte
  /\ \A b \in Byte : b \in Nat
  /\ 0 \in Byte /\ <<>> \in Seq(Byte)
BY ByteAssumption DEF Byte

LEMMA LengthIsNat ==
  ASSUME NEW h \in Byte, NEW l \in Byte
  PROVE  /\ LengthOf(h, l) \in Nat
         /\ LengthOf(h, 0) + l = LengthOf(h, l)
<1>1. W \in Nat /\ h \in Nat /\ l \in Nat
  BY ByteFacts
<1> DEFINE k == h * W
<1>2. k \in Nat
  BY <1>1
<1>3. LengthOf(h, l) = k + l /\ LengthOf(h, 0) = k + 0
  BY DEF LengthOf
<1> HIDE DEF k
<1> QED
  BY <1>1, <1>2, <1>3

\* The payload inside a frame.
LEMMA PayloadOfFrame ==
  ASSUME NEW f \in Seq(Byte), NEW p \in Seq(Byte), Len(f) = Len(p) + 5,
         \A i \in 1..Len(p) : f[i + 3] = p[i]
  PROVE  SubSeq(f, 4, Len(f) - 2) = p
<1> DEFINE q == SubSeq(f, 4, Len(f) - 2)
           n == Len(p)
<1>1. n \in Nat /\ Len(f) - 2 = n + 3
  OBVIOUS
<1>2. q = SubSeq(f, 4, n + 3)
  BY <1>1
<1>3. q \in Seq(Byte) /\ Len(q) = n /\ \A i \in 1..n : q[i] = f[i + 3]
  BY <1>1, <1>2, SubSeqProperties
<1>4. \A i \in 1..n : q[i] = p[i]
  BY <1>3
<1> HIDE DEF q, n
<1>5. q = p
  BY <1>3, <1>4, SeqEqual DEF n
<1> QED
  BY <1>5 DEF q

-----------------------------------------------------------------------------
\* What the parser knows of the bytes seen since the start byte.
Started == Len(frame) >= 1 /\ frame[1] = Sof
LengthRead == Started /\ Len(frame) >= 3 /\ dataLen = LengthOf(frame[2], frame[3])
Copied == \A i \in 1..Len(receiveBuf) : frame[i + 3] = receiveBuf[i]

Result == ret \in {0, -1} /\ wild \in BOOLEAN
Numbers == analysisState \in 0..5 /\ dataLen \in Nat /\ crc \in Byte
Strings ==
  receiveBuf \in Seq(Byte) /\ receiveData \in Seq(Byte) /\ frame \in Seq(Byte)
Types == Result /\ Numbers /\ Strings

\* The bytes a frame of length dataLen has up to the end of its payload: an
\* empty payload takes one byte too many.
Head3 == 3 + (IF dataLen = 0 THEN 1 ELSE dataLen)

\* What the parser keeps from call to call, whoever resets its results.
Kept ==
  /\ Types
  /\ ~wild =>
       /\ analysisState # 0 => ret = -1 /\ receiveData = <<>>
       /\ analysisState \in 0..2 => receiveBuf = <<>>
       /\ analysisState = 1 => Started /\ Len(frame) = 1
       /\ analysisState = 2 => /\ Started /\ Len(frame) = 2
                               /\ dataLen = LengthOf(frame[2], 0)
       /\ analysisState = 3 => /\ LengthRead /\ Copied
                               /\ Len(frame) = 3 + Len(receiveBuf)
                               /\ Len(receiveBuf) < dataLen \/ receiveBuf = <<>>
       /\ analysisState = 4 => /\ LengthRead /\ Copied
                               /\ Len(receiveBuf) = dataLen /\ Len(frame) = Head3
       /\ analysisState = 5 => /\ LengthRead /\ Copied
                               /\ Len(receiveBuf) = dataLen /\ Len(frame) = Head3 + 1
                               /\ crc = frame[Len(frame)]

ParserInv == Kept /\ (~wild => AcceptsExactly)

\* The histories that AcceptsExactly allows.
Accepted(f) == (IsFrame(f) /\ Len(f) > 5) \/ IsShifted(f)

LEMMA TypesNow == Kept => Types
BY DEF Kept

LEMMA ParserInitInv == ParserInit => ParserInv
<1> SUFFICES ASSUME ParserInit PROVE ParserInv
  OBVIOUS
<1>1. Types
  <2>0. Result
    BY ByteFacts DEF ParserInit, Result
  <2>1. Numbers
    BY ByteFacts DEF ParserInit, Numbers
  <2>2. Strings
    BY ByteFacts DEF ParserInit, Strings
  <2> QED
    BY <2>0, <2>1, <2>2 DEF Types
<1>2. ~Accepted(frame)
  BY DEF ParserInit, Accepted, IsFrame, IsShifted
<1> QED
  BY <1>1, <1>2 DEF ParserInit, ParserInv, Kept, AcceptsExactly, Accepted

\* A byte more at the end of the history.
LEMMA Longer ==
  ASSUME NEW f \in Seq(Byte), NEW d \in Byte
  PROVE  /\ Append(f, d) \in Seq(Byte) /\ Len(f) \in Nat
         /\ Len(Append(f, d)) = Len(f) + 1
         /\ Append(f, d)[Len(f) + 1] = d
         /\ \A i \in 1..Len(f) : Append(f, d)[i] = f[i]
OBVIOUS

\* A history too short for the length it announces makes no call accept.
LEMMA NoFrame ==
  ASSUME NEW f \in Seq(Byte),
         \/ Len(f) <= 5
         \/ f[1] # Sof
         \/ LengthOf(f[2], f[3]) # 0 /\ LengthOf(f[2], f[3]) # Len(f) - 5
  PROVE  ~Accepted(f)
BY DEF Accepted, IsFrame, IsShifted

LEMMA HuntStep ==
  ASSUME Kept, ~wild, NEW data \in Byte, Hunt(data)
  PROVE  ParserInv'
<1>1. /\ frame' = <<data>> /\ frame' \in Seq(Byte) /\ Len(frame') = 1
      /\ ret' = -1 /\ receiveData' = <<>> /\ receiveBuf' = <<>> /\ wild' = FALSE
      /\ analysisState' \in {0, 1} /\ (analysisState' = 1 => frame'[1] = Sof)
  BY DEF Hunt, ParserInv, Kept
<1>2. Types'
  <2>0. Result'
    BY <1>1, TypesNow, ByteFacts DEF Hunt, Types, Result
  <2>1. Numbers'
    BY <1>1, TypesNow, ByteFacts DEF Hunt, Types, Numbers
  <2>2. Strings'
    BY <1>1, TypesNow, ByteFacts DEF Hunt, Types, Strings
  <2> QED
    BY <2>0, <2>1, <2>2 DEF Types
<1>3. ~Accepted(frame')
  <2>1. frame' \in Seq(Byte) /\ Len(frame') <= 5
    BY <1>1
  <2> QED
    BY <2>1, NoFrame
<1>4. AcceptsExactly'
  BY <1>1, <1>3 DEF AcceptsExactly, Accepted
<1> QED
  BY <1>1, <1>2, <1>4 DEF ParserInv, Kept, Started

LEMMA LengthHighStep ==
  ASSUME Kept, ~wild, NEW data \in Byte, LengthHigh(data)
  PROVE  ParserInv'
<1>1. /\ frame' = Append(frame, data) /\ frame \in Seq(Byte) /\ Len(frame) = 1
      /\ frame[1] = Sof /\ dataLen' = LengthOf(data, 0)
      /\ analysisState' = 2 /\ ret' = -1 /\ receiveData' = <<>> /\ receiveBuf' = <<>>
      /\ receiveBuf = <<>> /\ crc' = crc /\ wild' = FALSE
  BY DEF LengthHigh, GoesOn, ParserInv, Kept, Started, Types, Result, Numbers, Strings
<1>2. /\ frame' \in Seq(Byte) /\ Len(frame') = 2 /\ frame'[1] = Sof /\ frame'[2] = data
  <2>1. /\ frame' \in Seq(Byte) /\ Len(frame') = Len(frame) + 1
        /\ frame'[Len(frame) + 1] = data /\ \A i \in 1..Len(frame) : frame'[i] = frame[i]
    BY <1>1, Longer
  <2>2. Len(frame) + 1 = 2 /\ 1 \in 1..Len(frame)
    BY <1>1
  <2> QED
    BY <1>1, <2>1, <2>2
<1>3. 0 \in Byte
  BY ByteAssumption DEF Byte
<1>4. LengthOf(data, 0) \in Nat
  BY <1>3, LengthIsNat
<1>5. Types'
  <2>0. Result'
    BY <1>1, <1>2, <1>4, TypesNow, ByteFacts DEF Types, Result
  <2>1. Numbers'
    BY <1>1, <1>2, <1>4, TypesNow, ByteFacts DEF Types, Numbers
  <2>2. Strings'
    BY <1>1, <1>2, <1>4, TypesNow, ByteFacts DEF Types, Strings
  <2> QED
    BY <2>0, <2>1, <2>2 DEF Types
<1>6. AcceptsExactly'
  <2>1. frame' \in Seq(Byte) /\ Len(frame') <= 5
    BY <1>2
  <2>2. ~Accepted(frame')
    BY <2>1, NoFrame
  <2> QED
    BY <1>1, <2>2 DEF AcceptsExactly, Accepted
<1> QED
  BY <1>1, <1>2, <1>5, <1>6 DEF ParserInv, Kept, Started

LEMMA LengthLowStep ==
  ASSUME Kept, ~wild, NEW data \in Byte, LengthLow(data)
  PROVE  ParserInv'
<1>1. /\ frame' = Append(frame, data) /\ frame \in Seq(Byte) /\ Len(frame) = 2
      /\ frame[1] = Sof /\ dataLen = LengthOf(frame[2], 0) /\ dataLen' = dataLen + data
      /\ analysisState' = 3 /\ ret' = -1 /\ receiveData' = <<>> /\ receiveBuf' = <<>>
      /\ crc' = crc /\ wild' = FALSE
  BY DEF LengthLow, GoesOn, ParserInv, Kept, Started, Types, Result, Numbers, Strings
<1>2. /\ frame' \in Seq(Byte) /\ Len(frame') = 3
      /\ frame'[1] = Sof /\ frame'[2] = frame[2] /\ frame'[3] = data
      /\ frame[2] \in Byte
  <2>1. /\ frame' \in Seq(Byte) /\ Len(frame') = Len(frame) + 1
        /\ frame'[Len(frame) + 1] = data /\ \A i \in 1..Len(frame) : frame'[i] = frame[i]
    BY <1>1, Longer
  <2>2. Len(frame) + 1 = 3 /\ 1 \in 1..Len(frame) /\ 2 \in 1..Len(frame)
    BY <1>1
  <2>3. frame[2] \in Byte
    BY <1>1, <2>2
  <2> QED
    BY <1>1, <2>1, <2>2, <2>3
<1>3. dataLen' = LengthOf(frame'[2], frame'[3]) /\ dataLen' \in Nat
  BY <1>1, <1>2, LengthIsNat
<1>4. Types'
  <2>0. Result'
    BY <1>1, <1>2, <1>3, TypesNow, ByteFacts DEF Types, Result
  <2>1. Numbers'
    BY <1>1, <1>2, <1>3, TypesNow, ByteFacts DEF Types, Numbers
  <2>2. Strings'
    BY <1>1, <1>2, <1>3, TypesNow, ByteFacts DEF Types, Strings
  <2> QED
    BY <2>0, <2>1, <2>2 DEF Types
<1>5. AcceptsExactly'
  <2>1. frame' \in Seq(Byte) /\ Len(frame') <= 5
    BY <1>2
  <2>2. ~Accepted(frame')
    BY <2>1, NoFrame
  <2> QED
    BY <1>1, <2>2 DEF AcceptsExactly, Accepted
<1> QED
  BY <1>1, <1>2, <1>3, <1>4, <1>5 DEF ParserInv, Kept, Started, LengthRead, Copied

LEMMA PayloadStep ==
  ASSUME Kept, ~wild, NEW data \in Byte, Payload(data)
  PROVE  ParserInv'
<1> DEFINE n == Len(receiveBuf)
<1>1. /\ frame' = Append(frame, data) /\ frame \in Seq(Byte) /\ Len(frame) = 3 + n
      /\ receiveBuf \in Seq(Byte) /\ n \in Nat /\ dataLen \in Nat
      /\ Started /\ dataLen = LengthOf(frame[2], frame[3]) /\ Copied
      /\ n < dataLen \/ receiveBuf = <<>>
      /\ ret' = -1 /\ receiveData' = <<>> /\ crc' = crc /\ dataLen' = dataLen
      /\ analysisState' \in {3, 4}
  BY DEF Payload, GoesOn, ParserInv, Kept, LengthRead, Types, Result, Numbers, Strings
<1>2. /\ frame' \in Seq(Byte) /\ Len(frame') = 4 + n /\ frame'[4 + n] = data
      /\ \A i \in 1 .. 3 + n : frame'[i] = frame[i]
  BY <1>1, Longer
<1>3. CASE wild'
  <2>1. wild' \in BOOLEAN /\ receiveBuf' = receiveBuf
    BY <1>3, TypesNow DEF Payload, Types, Result
  <2>2. Types'
    <3>0. Result'
      BY <1>1, <1>3, <2>1, TypesNow, ByteFacts DEF Types, Result
    <3>1. Numbers'
      BY <1>1, <1>3, <2>1, TypesNow, ByteFacts DEF Types, Numbers
    <3>2. Strings'
      BY <1>1, <1>2, <2>1, TypesNow, ByteFacts DEF Types, Strings
    <3> QED
      BY <3>0, <3>1, <3>2 DEF Types
  <2> QED
    BY <1>3, <2>2 DEF ParserInv, Kept
<1>4. CASE ~wild'
  <2>1. /\ wild' = FALSE
        /\ receiveBuf' = IF n < dataLen THEN Append(receiveBuf, data) ELSE receiveBuf
        /\ analysisState' = IF Len(receiveBuf') = dataLen THEN 4 ELSE 3
    BY <1>4 DEF Payload, GoesOn, ParserInv, Kept, Types, Result, Numbers, Strings
  <2>2. LengthRead'
    BY <1>1, <1>2 DEF Started, LengthRead
  <2>3. CASE n < dataLen
    <3>1. /\ receiveBuf' = Append(receiveBuf, data) /\ receiveBuf' \in Seq(Byte)
          /\ Len(receiveBuf') = n + 1 /\ receiveBuf'[n + 1] = data
          /\ \A i \in 1..n : receiveBuf'[i] = receiveBuf[i]
      BY <1>1, <2>1, <2>3, Longer
    <3> HIDE DEF n
    <3>2. Copied'
      <4> SUFFICES ASSUME NEW i \in 1 .. n + 1 PROVE frame'[i + 3] = receiveBuf'[i]
        BY <3>1 DEF Copied
      <4>1. CASE i = n + 1
        BY <1>1, <1>2, <3>1, <4>1
      <4>2. CASE i # n + 1
        <5>1. i \in 1..n /\ i + 3 \in 1 .. 3 + n
          BY <1>1, <4>2
        <5>2. frame[i + 3] = receiveBuf[i]
          BY <1>1, <5>1 DEF Copied, n
        <5> QED
          BY <1>2, <3>1, <5>1, <5>2
      <4> QED
        BY <4>1, <4>2
    <3>3. ~Accepted(frame')
      <4>1. LengthOf(frame'[2], frame'[3]) = dataLen
        BY <1>1, <2>2 DEF LengthRead
      <4>2. Len(frame') - 5 # dataLen /\ dataLen # 0
        BY <1>1, <1>2, <2>3 DEF n
      <4> QED
        BY <1>2, <4>1, <4>2, NoFrame
    <3>4. AcceptsExactly'
      BY <1>1, <3>3 DEF AcceptsExactly, Accepted
    <3>5. Types'
      <4>0. Result'
        BY <1>1, <1>2, <2>1, <3>1, TypesNow, ByteFacts DEF Types, Result
      <4>1. Numbers'
        BY <1>1, <1>2, <2>1, <3>1, TypesNow, ByteFacts DEF Types, Numbers
      <4>2. Strings'
        BY <1>1, <1>2, <2>1, <3>1, TypesNow, ByteFacts DEF Types, Strings
      <4> QED
        BY <4>0, <4>1, <4>2 DEF Types
    <3>6. analysisState' = 3 => /\ Len(frame') = 3 + Len(receiveBuf')
                                /\ Len(receiveBuf') < dataLen'
      BY <1>1, <1>2, <2>1, <2>3, <3>1
    <3>7. analysisState' = 4 => Len(receiveBuf') = dataLen' /\ Len(frame') = Head3'
      BY <1>1, <1>2, <2>1, <2>3, <3>1 DEF Head3
    <3> QED
      BY <1>1, <2>1, <2>2, <3>2, <3>4, <3>5, <3>6, <3>7 DEF ParserInv, Kept
  <2>4. CASE ~(n < dataLen)
    <3>1. receiveBuf' = <<>> /\ n = 0 /\ dataLen = 0 /\ analysisState' = 4
      BY <1>1, <2>1, <2>4
    <3>2. ~Accepted(frame')
      <4>1. frame' \in Seq(Byte) /\ Len(frame') <= 5
        BY <1>2, <3>1
      <4> QED
        BY <4>1, NoFrame
    <3>3. AcceptsExactly'
      BY <1>1, <3>2 DEF AcceptsExactly, Accepted
    <3>4. Types'
      <4>0. Result'
        BY <1>1, <1>2, <2>1, <3>1, TypesNow, ByteFacts DEF Types, Result
      <4>1. Numbers'
        BY <1>1, <1>2, <2>1, <3>1, TypesNow, ByteFacts DEF Types, Numbers
      <4>2. Strings'
        BY <1>1, <1>2, <2>1, <3>1, TypesNow, ByteFacts DEF Types, Strings
      <4> QED
        BY <4>0, <4>1, <4>2 DEF Types
    <3>5. Copied' /\ Len(receiveBuf') = dataLen' /\ Len(frame') = Head3'
      BY <1>1, <1>2, <3>1 DEF Copied, Head3
    <3> QED
      BY <1>1, <2>1, <2>2, <3>1, <3>3, <3>4, <3>5 DEF ParserInv, Kept
  <2> QED
    BY <2>3, <2>4
<1>5. wild' \in BOOLEAN
  BY DEF Payload, ParserInv, Kept, Types, Result, Numbers, Strings
<1> QED
  BY <1>3, <1>4

LEMMA CheckByteStep ==
  ASSUME Kept, ~wild, NEW data \in Byte, CheckByte(data)
  PROVE  ParserInv'
<1> DEFINE n == Len(receiveBuf)
<1>1. /\ frame' = Append(frame, data) /\ frame \in Seq(Byte) /\ Len(frame) = Head3
      /\ receiveBuf \in Seq(Byte) /\ n = dataLen /\ dataLen \in Nat
      /\ Started /\ dataLen = LengthOf(frame[2], frame[3]) /\ Copied
      /\ ret' = -1 /\ receiveData' = <<>> /\ crc' = data /\ dataLen' = dataLen
      /\ receiveBuf' = receiveBuf /\ wild' = FALSE /\ analysisState' = 5
  BY DEF CheckByte, GoesOn, ParserInv, Kept, LengthRead, Types, Result, Numbers, Strings
<1>2. Len(frame) \in Nat /\ Len(frame) >= 3 + n /\ Len(frame) >= 4
  BY <1>1 DEF Head3
<1>3. /\ frame' \in Seq(Byte) /\ Len(frame') = Len(frame) + 1
      /\ frame'[Len(frame) + 1] = data
      /\ \A i \in 1 .. Len(frame) : frame'[i] = frame[i]
  BY <1>1, Longer
<1> HIDE DEF n
<1>4. Copied'
  <2> SUFFICES ASSUME NEW i \in 1..n PROVE frame'[i + 3] = receiveBuf[i]
    BY <1>1 DEF Copied, n
  <2>1. i + 3 \in 1 .. Len(frame)
    BY <1>1, <1>2
  <2>2. frame[i + 3] = receiveBuf[i]
    BY <1>1 DEF Copied, n
  <2> QED
    BY <1>3, <2>1, <2>2
<1>5. LengthRead'
  BY <1>1, <1>2, <1>3 DEF Started, LengthRead
<1>6. ~Accepted(frame')
  <2>1. LengthOf(frame'[2], frame'[3]) = dataLen
    BY <1>1, <1>5 DEF LengthRead
  <2>2. Len(frame') <= 5 \/ (Len(frame') - 5 # dataLen /\ dataLen # 0)
    BY <1>1, <1>3 DEF Head3
  <2> QED
    BY <1>3, <2>1, <2>2, NoFrame
<1>7. AcceptsExactly'
  BY <1>1, <1>6 DEF AcceptsExactly, Accepted
<1>8. Types'
  <2>0. Result'
    BY <1>1, <1>3, TypesNow, ByteFacts DEF Types, Result
  <2>1. Numbers'
    BY <1>1, <1>3, TypesNow, ByteFacts DEF Types, Numbers
  <2>2. Strings'
    BY <1>1, <1>3, TypesNow, ByteFacts DEF Types, Strings
  <2> QED
    BY <2>0, <2>1, <2>2 DEF Types
<1>9. Len(receiveBuf') = dataLen' /\ Len(frame') = Head3' + 1 /\ crc' = frame'[Len(frame')]
  BY <1>1, <1>3 DEF Head3, n
<1> QED
  BY <1>1, <1>4, <1>5, <1>7, <1>8, <1>9 DEF ParserInv, Kept

\* The last byte: the history is a frame just when the call accepts.
LEMMA LastByteStep ==
  ASSUME Kept, ~wild, NEW data \in Byte, LastByte(data)
  PROVE  ParserInv'
<1> DEFINE n == Len(receiveBuf)
           f == frame'
           l == Len(frame)
<1>1. /\ f = Append(frame, data) /\ frame \in Seq(Byte) /\ l = Head3 + 1
      /\ receiveBuf \in Seq(Byte) /\ n = dataLen /\ dataLen \in Nat
      /\ Started /\ dataLen = LengthOf(frame[2], frame[3]) /\ Copied
      /\ crc = frame[l] /\ receiveBuf' = <<>> /\ analysisState' = 0
      /\ dataLen' = dataLen /\ crc' = crc
      /\ wild' \in BOOLEAN
      /\ ret' = IF Accepts(data) THEN 0 ELSE -1
      /\ receiveData' = IF Accepts(data) THEN receiveBuf ELSE <<>>
  BY DEF LastByte, ParserInv, Kept, LengthRead, Types, Result, Numbers, Strings
<1>2. l \in Nat /\ l >= 4 + n /\ l >= 5
  BY <1>1 DEF Head3
<1>3. /\ f \in Seq(Byte) /\ Len(f) = l + 1 /\ f[l + 1] = data
      /\ \A i \in 1..l : f[i] = frame[i]
  BY <1>1, Longer
<1>4. Types'
  <2>0. Result'
    BY <1>1, <1>3, TypesNow, ByteFacts DEF Types, Result
  <2>1. Numbers'
    BY <1>1, <1>3, TypesNow, ByteFacts DEF Types, Numbers
  <2>2. Strings'
    BY <1>1, <1>3, TypesNow, ByteFacts DEF Types, Strings
  <2> QED
    BY <2>0, <2>1, <2>2 DEF Types
<1>5. AcceptsExactly'
  <2>1. CASE n = 0
    <3>1. receiveBuf = <<>> /\ receiveData' = <<>>
      BY <1>1, <2>1
    <3>2. l = 5 /\ Len(f) = 6 /\ LengthOf(f[2], f[3]) = 0
      BY <1>1, <1>2, <1>3, <2>1 DEF Head3
    <3>3. f[1] = Sof /\ f[5] = crc /\ f[6] = data
      BY <1>1, <1>3, <3>2 DEF Started
    <3> HIDE DEF n, l, f
    <3>4. ~IsFrame(f)
      BY <3>2 DEF IsFrame
    <3>5. IsShifted(f) <=> Accepts(data)
      BY <3>1, <3>2, <3>3 DEF IsShifted, Accepts
    <3>6. ret' = 0 <=> Accepts(data)
      BY <1>1
    <3> QED
      BY <3>1, <3>4, <3>5, <3>6 DEF AcceptsExactly, f
  <2>2. CASE n # 0
    <3>1. n \in Nat /\ n > 0 /\ l = n + 4 /\ Len(f) = n + 5 /\ receiveBuf # <<>>
      BY <1>1, <1>3, <2>2 DEF Head3
    <3> HIDE DEF n, l, f
    <3>2. \A i \in 1..n : f[i + 3] = receiveBuf[i]
      <4> SUFFICES ASSUME NEW i \in 1..n PROVE f[i + 3] = receiveBuf[i]
        OBVIOUS
      <4>1. i + 3 \in 1..l
        BY <3>1
      <4>2. frame[i + 3] = receiveBuf[i]
        BY <1>1 DEF Copied, n
      <4> QED
        BY <1>3, <4>1, <4>2
    <3>3. SubSeq(f, 4, Len(f) - 2) = receiveBuf
      BY <1>1, <1>3, <3>1, <3>2, PayloadOfFrame DEF n
    <3>4. /\ f[1] = Sof /\ LengthOf(f[2], f[3]) = Len(f) - 5
          /\ f[Len(f)] = data /\ f[Len(f) - 1] = crc /\ Len(f) > 5
      BY <1>1, <1>2, <1>3, <3>1 DEF Started, l
    <3>5. IsFrame(f) <=> Accepts(data)
      <4>1. Len(f) >= 5
        BY <3>1
      <4> QED
        BY <3>3, <3>4, <4>1 DEF IsFrame, Accepts
    <3>6. ~IsShifted(f)
      BY <3>1, <3>4 DEF IsShifted
    <3>7. ret' = 0 <=> Accepts(data)
      BY <1>1
    <3>8. ret' = 0 => receiveData' = SubSeq(f, 4, Len(f) - 2)
      BY <1>1, <3>3, <3>7
    <3> QED
      BY <3>4, <3>5, <3>6, <3>7, <3>8 DEF AcceptsExactly, f
  <2> QED
    BY <2>1, <2>2
<1> QED
  BY <1>1, <1>4, <1>5 DEF ParserInv, Kept

LEMMA ParserCall ==
  ASSUME Kept, NEW data \in Byte, AnalysisData(data)
  PROVE  ParserInv'
<1>1. CASE wild /\ Undefined
  BY <1>1 DEF Undefined, ParserInv, Kept, Types, Result, Numbers, Strings
<1>2. CASE ~wild
  BY <1>2, HuntStep, LengthHighStep, LengthLowStep, PayloadStep,
     CheckByteStep, LastByteStep DEF AnalysisData
<1> QED
  BY <1>1, <1>2 DEF AnalysisData

LEMMA ParserStep ==
  ASSUME ParserInv, [ParserNext]_parserVars
  PROVE  ParserInv'
<1>1. CASE UNCHANGED parserVars
  BY <1>1 DEF parserVars, ParserInv, Kept, Types, Result, Numbers, Strings, AcceptsExactly,
              Started, LengthRead, Copied, Head3
<1>2. CASE ParserNext
  BY <1>2, ParserCall DEF ParserNext, ParserInv
<1> QED
  BY <1>1, <1>2

\* Whatever bytes arrive, until a length the buffers cannot hold, a call returns 0 just when
\* it ends a frame with a payload, which it copies out, or the six bytes that a length of 0
\* makes it take for a frame, of which it copies out nothing (module/receive_packet.c:164-189).
THEOREM ParserAcceptsExactly == ParserSpec => []AcceptsExactly
<1>1. ParserInv => AcceptsExactly
  BY DEF ParserInv, Kept, AcceptsExactly
<1> QED
  BY <1>1, ParserInitInv, ParserStep, PTL DEF ParserSpec

-----------------------------------------------------------------------------
\* The largest length two bytes encode, and what is left for the second.
LEMMA LengthBound ==
  /\ W * W \in Nat
  /\ \A h \in Byte : LengthOf(h, 0) \in Nat /\ LengthOf(h, 0) <= W * W - W
<1>1. W \in Nat /\ W >= 1
  BY ByteAssumption
<1>2. W * W \in Nat
  BY <1>1
<1>3. ASSUME NEW h \in Byte
      PROVE  LengthOf(h, 0) \in Nat /\ LengthOf(h, 0) <= W * W - W
  <2>1. h \in Nat /\ h <= W - 1
    BY <1>1 DEF Byte
  <2>2. PICK r \in Nat : W = h + 1 + r
    <3>1. W - h - 1 \in Nat /\ W = h + 1 + (W - h - 1)
      BY <1>1, <2>1
    <3> QED
      BY <3>1
  <2>3. W * W = h * W + W + r * W
    BY <1>1, <2>1, <2>2
  <2>4. h * W \in Nat /\ r * W \in Nat
    BY <1>1, <2>1, <2>2
  <2>5. LengthOf(h, 0) = h * W
    BY <2>4 DEF LengthOf
  <2> QED
    BY <1>1, <1>2, <2>3, <2>4, <2>5
<1> QED
  BY <1>2, <1>3

\* What the type invariant says of the length and the buffer.
BufferInv ==
  /\ dataLen <= W * W - 1 /\ Len(receiveBuf) <= BufSize
  /\ analysisState = 2 => dataLen <= W * W - W
  /\ analysisState \in 0..2 => receiveBuf = <<>>
  /\ analysisState = 3 => Len(receiveBuf) < dataLen \/ receiveBuf = <<>>
  /\ analysisState \in 4..5 => Len(receiveBuf) = dataLen

LEMMA BufferStep ==
  ASSUME Kept, BufferInv, [ParserNext]_parserVars
  PROVE  BufferInv'
<1> DEFINE K == W * W
<1>1. /\ K \in Nat /\ W \in Nat /\ W >= 1 /\ BufSize \in Nat
      /\ \A h \in Byte : LengthOf(h, 0) \in Nat /\ LengthOf(h, 0) <= K - W
  BY LengthBound, ByteAssumption, BufferAssumption
<1>2. dataLen \in Nat /\ receiveBuf \in Seq(Byte) /\ Len(receiveBuf) \in Nat
  BY TypesNow DEF Types, Numbers, Strings
<1>3. /\ dataLen <= K - 1 /\ Len(receiveBuf) <= BufSize
      /\ analysisState = 2 => dataLen <= K - W
      /\ analysisState \in 0..2 => receiveBuf = <<>>
      /\ analysisState = 3 => Len(receiveBuf) < dataLen \/ receiveBuf = <<>>
      /\ analysisState \in 4..5 => Len(receiveBuf) = dataLen
  BY DEF BufferInv
<1>4. SUFFICES /\ dataLen' <= K - 1 /\ Len(receiveBuf') <= BufSize
               /\ analysisState' = 2 => dataLen' <= K - W
               /\ analysisState' \in 0..2 => receiveBuf' = <<>>
               /\ analysisState' = 3 => Len(receiveBuf') < dataLen' \/ receiveBuf' = <<>>
               /\ analysisState' \in 4..5 => Len(receiveBuf') = dataLen'
  BY DEF BufferInv
<1> HIDE DEF K
<1>5. CASE UNCHANGED parserVars
  BY <1>3, <1>5 DEF parserVars
<1>6. ASSUME NEW data \in Byte, AnalysisData(data)
      PROVE  /\ dataLen' <= K - 1 /\ Len(receiveBuf') <= BufSize
             /\ analysisState' = 2 => dataLen' <= K - W
             /\ analysisState' \in 0..2 => receiveBuf' = <<>>
             /\ analysisState' = 3 => Len(receiveBuf') < dataLen' \/ receiveBuf' = <<>>
             /\ analysisState' \in 4..5 => Len(receiveBuf') = dataLen'
  <2>1. CASE Undefined
    BY <1>3, <2>1 DEF Undefined
  <2>2. CASE Hunt(data)
    <3>1. analysisState' \in {0, 1} /\ analysisState = 0
          /\ UNCHANGED <<dataLen, receiveBuf>>
      BY <2>2 DEF Hunt
    <3> QED
      BY <1>3, <3>1
  <2>3. CASE LengthHigh(data)
    <3>1. /\ analysisState' = 2 /\ analysisState = 1
          /\ dataLen' = LengthOf(data, 0) /\ receiveBuf' = receiveBuf
      BY <2>3 DEF LengthHigh, GoesOn
    <3>2. LengthOf(data, 0) \in Nat /\ LengthOf(data, 0) <= K - W
      BY <1>1
    <3> QED
      BY <1>1, <1>3, <3>1, <3>2
  <2>4. CASE LengthLow(data)
    <3>1. /\ analysisState' = 3 /\ analysisState = 2
          /\ dataLen' = dataLen + data /\ receiveBuf' = receiveBuf
      BY <2>4 DEF LengthLow, GoesOn
    <3>2. data \in Nat /\ data <= W - 1
      BY <1>1 DEF Byte
    <3> QED
      BY <1>1, <1>2, <1>3, <3>1, <3>2
  <2>5. CASE Payload(data)
    <3>1. analysisState = 3 /\ dataLen' = dataLen
      BY <2>5 DEF Payload
    <3>2. CASE Len(receiveBuf) < dataLen /\ Len(receiveBuf) >= BufSize
      <4>1. analysisState' = 3 /\ receiveBuf' = receiveBuf
        BY <2>5, <3>2 DEF Payload, GoesOn
      <4> QED
        BY <1>3, <3>1, <4>1
    <3>3. CASE Len(receiveBuf) < dataLen /\ ~(Len(receiveBuf) >= BufSize)
      <4>1. /\ receiveBuf' = Append(receiveBuf, data)
            /\ analysisState' = IF Len(receiveBuf') = dataLen THEN 4 ELSE 3
        BY <2>5, <3>3 DEF Payload, GoesOn
      <4>2. Len(receiveBuf') = Len(receiveBuf) + 1
        BY <1>2, <4>1
      <4> QED
        BY <1>1, <1>2, <1>3, <3>1, <3>3, <4>1, <4>2
    <3>4. CASE ~(Len(receiveBuf) < dataLen)
      <4>1. /\ receiveBuf' = receiveBuf
            /\ analysisState' = IF Len(receiveBuf) = dataLen THEN 4 ELSE 3
        BY <2>5, <3>4 DEF Payload, GoesOn
      <4>2. receiveBuf = <<>>
        BY <1>3, <3>1, <3>4
      <4> QED
        BY <1>1, <1>2, <1>3, <3>1, <4>1, <4>2
    <3> QED
      BY <3>2, <3>3, <3>4
  <2>6. CASE CheckByte(data)
    <3>1. analysisState = 4 /\ analysisState' = 5 /\ UNCHANGED <<dataLen, receiveBuf>>
      BY <2>6 DEF CheckByte, GoesOn
    <3> QED
      BY <1>3, <3>1
  <2>7. CASE LastByte(data)
    <3>1. analysisState' = 0 /\ receiveBuf' = <<>> /\ dataLen' = dataLen
      BY <2>7 DEF LastByte
    <3> QED
      BY <1>1, <1>3, <3>1
  <2> QED
    BY <1>6, <2>1, <2>2, <2>3, <2>4, <2>5, <2>6, <2>7 DEF AnalysisData
<1> QED
  BY <1>5, <1>6 DEF ParserNext

LEMMA BufferInit == ParserInit => BufferInv
<1> SUFFICES ASSUME ParserInit PROVE BufferInv
  OBVIOUS
<1>1. analysisState = 0 /\ dataLen = 0 /\ receiveBuf = <<>>
  BY DEF ParserInit
<1>2. W * W \in Nat /\ W * W >= W /\ W >= 1
  <2>1. LengthOf(0, 0) \in Nat /\ LengthOf(0, 0) <= W * W - W
    BY LengthBound, ByteFacts
  <2> QED
    BY <2>1, LengthBound, ByteAssumption
<1>3. Len(receiveBuf) <= BufSize
  <2>1. Len(receiveBuf) = 0
    BY <1>1
  <2> QED
    BY <2>1, ByteAssumption, BufferAssumption
<1>4. dataLen <= W * W - 1
  <2> DEFINE K == W * W
  <2>1. K \in Nat /\ K >= W /\ W >= 1 /\ W \in Nat
    BY <1>2, ByteAssumption
  <2>2. SUFFICES dataLen <= K - 1
    OBVIOUS
  <2> HIDE DEF K
  <2> QED
    BY <1>1, <2>1
<1> QED
  BY <1>1, <1>3, <1>4 DEF BufferInv

\* Type correctness of the parser: whatever lengths arrive, the payload kept never
\* outgrows receiveBuf while the calls are defined, a length is one that two bytes
\* encode, and no payload is longer than the length announced.
THEOREM ParserTypes == ParserSpec => []ParserTypeOK
<1>1. ParserInv /\ BufferInv => ParserTypeOK
  <2> SUFFICES ASSUME ParserInv, BufferInv PROVE ParserTypeOK
    OBVIOUS
  <2>1. Types
    BY TypesNow DEF ParserInv
  <2>2. dataLen \in 0 .. W * W - 1
    BY <2>1, LengthBound DEF BufferInv, Types, Numbers
  <2> QED
    BY <2>1, <2>2 DEF ParserTypeOK, BufferInv, Types, Result, Numbers, Strings
<1>2. ParserInv /\ BufferInv /\ [ParserNext]_parserVars => BufferInv'
  BY BufferStep DEF ParserInv
<1>3. ParserInv /\ [ParserNext]_parserVars => ParserInv'
  BY ParserStep
<1> QED
  BY <1>1, <1>2, <1>3, ParserInitInv, BufferInit, PTL DEF ParserSpec


-----------------------------------------------------------------------------
\* Induction over the natural numbers, from the order being well founded.
LEMMA Least ==
  ASSUME NEW T \in SUBSET Nat, T # {}
  PROVE  \E n \in T : \A m \in T : n <= m
<1> DEFINE R == {ss \in Nat \X Nat : ss[1] < ss[2]}
<1>1. IsWellFoundedOn(R, Nat)
  BY NatLessThanWellFounded DEF OpToRel
<1>2. PICK n \in T : \A m \in T : ~(<<m, n>> \in R)
  <2> HIDE DEF R
  <2> QED
    BY <1>1, WFMin
<1>3. \A m \in T : ~(m < n)
  BY <1>2
<1> QED
  BY <1>3

LEMMA AllNaturals ==
  ASSUME NEW S, 0 \in S, \A n \in Nat : n \in S => n + 1 \in S
  PROVE  Nat \subseteq S
<1> DEFINE T == Nat \ S
<1>1. SUFFICES ASSUME T # {} PROVE FALSE
  OBVIOUS
<1>2. PICK n \in T : \A m \in T : n <= m
  BY <1>1, Least
<1>3. n - 1 \in Nat /\ n - 1 \in S
  BY <1>2
<1> QED
  BY <1>2, <1>3

-----------------------------------------------------------------------------
\* A payload between what is put before it and after it.
LEMMA Between ==
  ASSUME NEW a \in Seq(Byte), NEW p \in Seq(Byte), NEW z \in Seq(Byte)
  PROVE  LET f == (a \o p) \o z
         IN  /\ f \in Seq(Byte) /\ Len(f) = Len(a) + Len(p) + Len(z)
             /\ \A i \in 1..Len(a) : f[i] = a[i]
             /\ \A i \in 1..Len(p) : f[i + Len(a)] = p[i]
             /\ \A i \in 1..Len(z) : f[i + Len(a) + Len(p)] = z[i]
<1> DEFINE b == a \o p
           f == b \o z
<1>0. Len(a) \in Nat /\ Len(p) \in Nat /\ Len(z) \in Nat
  OBVIOUS
<1>1. /\ b \in Seq(Byte) /\ Len(b) = Len(a) + Len(p)
      /\ \A i \in 1 .. Len(a) + Len(p) : b[i] = IF i <= Len(a) THEN a[i] ELSE p[i - Len(a)]
  BY ConcatProperties
<1> HIDE DEF b
<1>2. /\ f \in Seq(Byte) /\ Len(f) = Len(b) + Len(z)
      /\ \A i \in 1 .. Len(b) + Len(z) : f[i] = IF i <= Len(b) THEN b[i] ELSE z[i - Len(b)]
  <2>1. b \in Seq(Byte)
    BY <1>1
  <2> QED
    BY <2>1, ConcatProperties
<1> HIDE DEF f
<1>3. \A i \in 1..Len(a) : f[i] = a[i]
  BY <1>0, <1>1, <1>2
<1>4. \A i \in 1..Len(p) : f[i + Len(a)] = p[i]
  BY <1>0, <1>1, <1>2
<1>5. \A i \in 1..Len(z) : f[i + Len(a) + Len(p)] = z[i]
  BY <1>0, <1>1, <1>2
<1> QED
  BY <1>0, <1>1, <1>2, <1>3, <1>4, <1>5 DEF f, b

\* What packing adds to a payload.
LEMMA PackedFacts ==
  ASSUME NEW p \in Payloads
  PROVE  /\ p \in Seq(Byte) /\ Len(p) \in Nat /\ Len(p) >= 1 /\ Len(p) + 5 <= PacketMax
         /\ Packed(p) \in Seq(Byte) /\ Len(Packed(p)) = Len(p) + 5
         /\ Packed(p)[1] = Sof /\ LengthOf(Packed(p)[2], Packed(p)[3]) = Len(p)
         /\ \A i \in 1..Len(p) : Packed(p)[i + 3] = p[i]
         /\ Packed(p)[Len(p) + 4] = Crc(p) /\ Packed(p)[Len(p) + 5] = Eof
<1> DEFINE n == Len(p)
           h == n \div W
           l == n % W
           a == <<Sof, h, l>>
           z == <<Crc(p), Eof>>
<1>1. p \in Seq(Byte) /\ n \in Nat /\ n >= 1 /\ n < W /\ n + 5 <= PacketMax
  BY PayloadAssumption, ByteAssumption
<1>2. h \in Nat /\ l \in Nat /\ l < W /\ h < W /\ LengthOf(h, l) = n
  <2> HIDE DEF n
  <2>1. W \in Nat /\ W >= 1
    BY ByteAssumption
  <2>2. h = 0 /\ l = n
    BY <1>1, <2>1
  <2> QED
    BY <1>1, <2>1, <2>2 DEF LengthOf
<1>3. a \in Seq(Byte) /\ Len(a) = 3 /\ a[1] = Sof /\ a[2] = h /\ a[3] = l
  <2> HIDE DEF h, l
  <2>1. h \in Byte /\ l \in Byte /\ Sof \in Byte
    BY <1>2, ByteAssumption DEF Byte
  <2> QED
    BY <2>1
<1>4. z \in Seq(Byte) /\ Len(z) = 2 /\ z[1] = Crc(p) /\ z[2] = Eof
  BY ReceiveAssumption, ByteFacts
<1>5. Packed(p) = (a \o p) \o z
  BY DEF Packed
<1> HIDE DEF a, z, h, l
<1>6. /\ Packed(p) \in Seq(Byte) /\ Len(Packed(p)) = 3 + n + 2
      /\ \A i \in 1..3 : Packed(p)[i] = a[i]
      /\ \A i \in 1..n : Packed(p)[i + 3] = p[i]
      /\ \A i \in 1..2 : Packed(p)[i + 3 + n] = z[i]
  <2> DEFINE f == (a \o p) \o z
  <2>1. /\ f \in Seq(Byte) /\ Len(f) = Len(a) + Len(p) + Len(z)
        /\ \A i \in 1..Len(a) : f[i] = a[i]
        /\ \A i \in 1..Len(p) : f[i + Len(a)] = p[i]
        /\ \A i \in 1..Len(z) : f[i + Len(a) + Len(p)] = z[i]
    BY <1>1, <1>3, <1>4, Between
  <2>2. f = Packed(p)
    BY <1>5
  <2> HIDE DEF f
  <2> QED
    BY <1>3, <1>4, <2>1, <2>2 DEF n
<1>7. Packed(p)[1] = Sof /\ Packed(p)[2] = h /\ Packed(p)[3] = l
  BY <1>3, <1>6
<1>8. Packed(p)[n + 4] = Crc(p) /\ Packed(p)[n + 5] = Eof
  <2>1. Packed(p)[1 + 3 + n] = z[1] /\ Packed(p)[2 + 3 + n] = z[2]
    BY <1>6
  <2>2. 1 + 3 + n = n + 4 /\ 2 + 3 + n = n + 5
    BY <1>1
  <2> QED
    BY <1>4, <2>1, <2>2
<1> QED
  BY <1>1, <1>2, <1>6, <1>7, <1>8

\* Concat is defined for every sequence of payloads: it is what its approximations
\* for bounded lengths agree on.
UpTo(n) == {s \in Seq(Payloads) : Len(s) <= n}
Approx(f, n) ==
  /\ f \in [UpTo(n) -> Seq(Byte)]
  /\ \A s \in UpTo(n) : f[s] = IF s = <<>> THEN <<>> ELSE Packed(Head(s)) \o f[Tail(s)]

LEMMA ShorterTail ==
  ASSUME NEW n \in Nat, NEW s \in UpTo(n + 1), s # <<>>
  PROVE  Head(s) \in Payloads /\ Tail(s) \in UpTo(n) /\ Len(Tail(s)) = Len(s) - 1
BY HeadTailProperties DEF UpTo

LEMMA ApproxExists == \A n \in Nat : \E f : Approx(f, n)
<1> DEFINE S == {n \in Nat : \E f : Approx(f, n)}
<1>1. 0 \in S
  <2> DEFINE f == [s \in UpTo(0) |-> <<>>]
  <2>1. \A s \in UpTo(0) : s = <<>>
    BY EmptySeq DEF UpTo
  <2>2. f \in [UpTo(0) -> Seq(Byte)]
    BY ByteFacts
  <2>3. Approx(f, 0)
    BY <2>1, <2>2 DEF Approx
  <2> QED
    BY <2>3
<1>2. ASSUME NEW n \in Nat, n \in S PROVE n + 1 \in S
  <2>1. PICK f : Approx(f, n)
    BY <1>2
  <2> DEFINE g == [s \in UpTo(n + 1) |->
                     IF s = <<>> THEN <<>> ELSE Packed(Head(s)) \o f[Tail(s)]]
  <2>2. g \in [UpTo(n + 1) -> Seq(Byte)]
    <3> SUFFICES ASSUME NEW s \in UpTo(n + 1)
                 PROVE  (IF s = <<>> THEN <<>> ELSE Packed(Head(s)) \o f[Tail(s)]) \in Seq(Byte)
      OBVIOUS
    <3>1. CASE s = <<>>
      BY <3>1, ByteFacts
    <3>2. CASE s # <<>>
      <4>1. Head(s) \in Payloads /\ Tail(s) \in UpTo(n)
        BY <3>2, ShorterTail
      <4>2. f[Tail(s)] \in Seq(Byte) /\ Packed(Head(s)) \in Seq(Byte)
        BY <2>1, <4>1, PackedFacts DEF Approx
      <4> QED
        BY <3>2, <4>2, ConcatProperties
    <3> QED
      BY <3>1, <3>2
  <2>3. ASSUME NEW t \in UpTo(n) PROVE t \in UpTo(n + 1) /\ g[t] = f[t]
    <3>1. t \in UpTo(n + 1)
      BY DEF UpTo
    <3>2. f[t] = IF t = <<>> THEN <<>> ELSE Packed(Head(t)) \o f[Tail(t)]
      BY <2>1 DEF Approx
    <3> QED
      BY <3>1, <3>2
  <2>4. ASSUME NEW s \in UpTo(n + 1)
        PROVE  g[s] = IF s = <<>> THEN <<>> ELSE Packed(Head(s)) \o g[Tail(s)]
    <3>1. CASE s = <<>>
      BY <3>1
    <3>2. CASE s # <<>>
      <4>1. Tail(s) \in UpTo(n)
        BY <3>2, ShorterTail
      <4>2. g[Tail(s)] = f[Tail(s)]
        BY <2>3, <4>1
      <4>3. g[s] = Packed(Head(s)) \o f[Tail(s)]
        BY <3>2
      <4> QED
        BY <3>2, <4>2, <4>3
    <3> QED
      BY <3>1, <3>2
  <2> HIDE DEF g
  <2>5. Approx(g, n + 1)
    BY <2>2, <2>4 DEF Approx
  <2> QED
    BY <2>5
<1> HIDE DEF S
<1>3. Nat \subseteq S
  BY <1>1, <1>2, AllNaturals
<1> QED
  BY <1>3 DEF S


LEMMA ApproxAgree ==
  ASSUME NEW n \in Nat, NEW m \in Nat, NEW f, NEW g, Approx(f, n), Approx(g, m),
         NEW t \in UpTo(n), t \in UpTo(m)
  PROVE  f[t] = g[t]
<1> DEFINE Differ == {s \in UpTo(n) : s \in UpTo(m) /\ f[s] # g[s]}
           T == {Len(s) : s \in Differ}
<1>1. SUFFICES ASSUME f[t] # g[t] PROVE FALSE
  OBVIOUS
<1>2. T \in SUBSET Nat /\ T # {}
  <2>1. \A s \in UpTo(n) : Len(s) \in Nat
    BY DEF UpTo
  <2>2. t \in Differ
    BY <1>1
  <2> QED
    BY <2>1, <2>2
<1>3. PICK k \in T : \A j \in T : k <= j
  BY <1>2, Least
<1>4. PICK s \in Differ : Len(s) = k
  BY <1>3
<1>5. /\ f[s] = IF s = <<>> THEN <<>> ELSE Packed(Head(s)) \o f[Tail(s)]
      /\ g[s] = IF s = <<>> THEN <<>> ELSE Packed(Head(s)) \o g[Tail(s)]
  BY <1>4 DEF Approx
<1>6. s # <<>>
  BY <1>4, <1>5
<1>7. Tail(s) \in UpTo(n) /\ Tail(s) \in UpTo(m) /\ Len(Tail(s)) < k /\ Len(Tail(s)) \in Nat
  <2>1. s \in Seq(Payloads) /\ Len(s) <= n /\ Len(s) <= m
    BY <1>4 DEF UpTo
  <2>2. Tail(s) \in Seq(Payloads) /\ Len(Tail(s)) = Len(s) - 1 /\ Len(Tail(s)) \in Nat
    BY <1>6, <2>1, HeadTailProperties, LenProperties
  <2> QED
    BY <1>4, <2>1, <2>2 DEF UpTo
<1>8. Tail(s) \notin Differ
  <2>1. k \in Nat
    BY <1>2
  <2>2. Tail(s) \in Differ => Len(Tail(s)) \in T
    OBVIOUS
  <2> HIDE DEF T, Differ
  <2> QED
    BY <1>3, <1>7, <2>1, <2>2
<1>9. f[Tail(s)] = g[Tail(s)]
  BY <1>7, <1>8
<1> QED
  BY <1>4, <1>5, <1>9

LEMMA ConcatIs ==
  Concat = [s \in Seq(Payloads) |->
              IF s = <<>> THEN <<>> ELSE Packed(Head(s)) \o Concat[Tail(s)]]
<1> DEFINE A(n) == CHOOSE f : Approx(f, n)
           F == [s \in Seq(Payloads) |-> A(Len(s))[s]]
<1>1. \A n \in Nat : Approx(A(n), n)
  BY ApproxExists
<1> HIDE DEF A
<1>2. ASSUME NEW s \in Seq(Payloads)
      PROVE  F[s] = IF s = <<>> THEN <<>> ELSE Packed(Head(s)) \o F[Tail(s)]
  <2> DEFINE n == Len(s)
  <2>1. n \in Nat /\ s \in UpTo(n)
    BY DEF UpTo
  <2>2. A(n)[s] = IF s = <<>> THEN <<>> ELSE Packed(Head(s)) \o A(n)[Tail(s)]
    BY <1>1, <2>1 DEF Approx
  <2>3. CASE s = <<>>
    BY <2>2, <2>3
  <2>4. CASE s # <<>>
    <3> DEFINE t == Tail(s)
               m == Len(t)
    <3>1. t \in Seq(Payloads) /\ m \in Nat /\ m = n - 1
      BY <2>4, HeadTailProperties, LenProperties
    <3>2. t \in UpTo(n) /\ t \in UpTo(m)
      BY <2>1, <3>1 DEF UpTo
    <3>3. Approx(A(n), n) /\ Approx(A(m), m)
      BY <1>1, <2>1, <3>1
    <3> HIDE DEF t, m, n
    <3>4. A(n)[t] = A(m)[t]
      BY <2>1, <3>1, <3>2, <3>3, ApproxAgree
    <3>5. F[t] = A(m)[t]
      BY <3>1 DEF m
    <3>6. F[s] = A(n)[s]
      BY DEF n
    <3> QED
      BY <2>2, <2>4, <3>4, <3>5, <3>6 DEF t
  <2> QED
    BY <2>3, <2>4
<1>3. F = [s \in Seq(Payloads) |->
             IF s = <<>> THEN <<>> ELSE Packed(Head(s)) \o F[Tail(s)]]
  <2> DEFINE G == [s \in Seq(Payloads) |->
                     IF s = <<>> THEN <<>> ELSE Packed(Head(s)) \o F[Tail(s)]]
  <2>1. DOMAIN F = Seq(Payloads) /\ F = [s \in Seq(Payloads) |-> F[s]]
    OBVIOUS
  <2> HIDE DEF F
  <2> QED
    BY <1>2, <2>1
<1> HIDE DEF F
<1>4. \E f : f = [s \in Seq(Payloads) |->
                    IF s = <<>> THEN <<>> ELSE Packed(Head(s)) \o f[Tail(s)]]
  BY <1>3
<1> QED
  BY <1>4 DEF Concat


\* Induction over sequences, from their tails.
LEMMA AllSequences ==
  ASSUME NEW P, NEW S, <<>> \in S,
         \A s \in Seq(P) : s # <<>> /\ Tail(s) \in S => s \in S
  PROVE  Seq(P) \subseteq S
<1> DEFINE T == {Len(s) : s \in Seq(P) \ S}
<1>1. SUFFICES ASSUME NEW t \in Seq(P), t \notin S PROVE FALSE
  OBVIOUS
<1>2. T \in SUBSET Nat /\ T # {}
  <2>1. \A s \in Seq(P) : Len(s) \in Nat
    OBVIOUS
  <2>2. t \in Seq(P) \ S
    BY <1>1
  <2>3. Len(t) \in T
    BY <2>2
  <2>4. \A k \in T : k \in Nat
    BY <2>1
  <2> HIDE DEF T
  <2> QED
    BY <2>3, <2>4
<1>3. PICK k \in T : \A j \in T : k <= j
  BY <1>2, Least
<1>4. PICK s \in Seq(P) \ S : Len(s) = k
  BY <1>3
<1>5. Tail(s) \in Seq(P) /\ Len(Tail(s)) = k - 1 /\ k \in Nat
  BY <1>4, HeadTailProperties
<1>6. Tail(s) \in S
  <2>1. Tail(s) \notin S => k - 1 \in T
    BY <1>5
  <2> HIDE DEF T
  <2> QED
    BY <1>3, <1>5, <2>1
<1> QED
  BY <1>4, <1>6

LEMMA ConcatStep ==
  /\ Concat[<<>>] = <<>>
  /\ \A s \in Seq(Payloads) :
       s # <<>> => Concat[s] = Packed(Head(s)) \o Concat[Tail(s)]
<1>1. \A s \in Seq(Payloads) :
        Concat[s] = IF s = <<>> THEN <<>> ELSE Packed(Head(s)) \o Concat[Tail(s)]
  <2> DEFINE C == Concat
  <2>1. C = [s \in Seq(Payloads) |->
               IF s = <<>> THEN <<>> ELSE Packed(Head(s)) \o C[Tail(s)]]
    BY ConcatIs
  <2> HIDE DEF C
  <2>2. \A s \in Seq(Payloads) :
          C[s] = IF s = <<>> THEN <<>> ELSE Packed(Head(s)) \o C[Tail(s)]
    BY <2>1
  <2> QED
    BY <2>2 DEF C
<1>2. <<>> \in Seq(Payloads)
  OBVIOUS
<1> QED
  BY <1>1, <1>2

LEMMA ConcatType == \A s \in Seq(Payloads) : Concat[s] \in Seq(Byte)
<1> DEFINE S == {s \in Seq(Payloads) : Concat[s] \in Seq(Byte)}
<1>1. <<>> \in S
  <2>1. <<>> \in Seq(Payloads) /\ Concat[<<>>] = <<>>
    BY ConcatStep
  <2> QED
    BY <2>1, ByteFacts
<1>2. ASSUME NEW s \in Seq(Payloads), s # <<>>, Tail(s) \in S
      PROVE  s \in S
  <2>1. Head(s) \in Payloads /\ Tail(s) \in Seq(Payloads)
    BY <1>2, HeadTailProperties
  <2>2. Packed(Head(s)) \in Seq(Byte) /\ Concat[Tail(s)] \in Seq(Byte)
    BY <1>2, <2>1, PackedFacts
  <2>3. Concat[s] \in Seq(Byte)
    BY <1>2, <2>2, ConcatStep, ConcatProperties
  <2> QED
    BY <2>3
<1> HIDE DEF S
<1>3. Seq(Payloads) \subseteq S
  BY <1>1, <1>2, AllSequences
<1> QED
  BY <1>3 DEF S

\* One payload more at the end.
LEMMA ConcatAppend ==
  ASSUME NEW p \in Payloads
  PROVE  \A s \in Seq(Payloads) : Concat[Append(s, p)] = Concat[s] \o Packed(p)
<1> DEFINE S == {s \in Seq(Payloads) : Concat[Append(s, p)] = Concat[s] \o Packed(p)}
<1>0. Packed(p) \in Seq(Byte)
  BY PackedFacts
<1>1. <<>> \in S
  <2> DEFINE a == Append(<<>>, p)
  <2>1. a \in Seq(Payloads) /\ a # <<>> /\ Head(a) = p /\ Tail(a) = <<>>
    <3>1. <<>> \in Seq(Payloads)
      OBVIOUS
    <3> QED
      BY <3>1, AppendProperties, HeadTailAppend
  <2> HIDE DEF a
  <2>2. Concat[a] = Packed(p) \o <<>> /\ Concat[<<>>] = <<>>
    BY <2>1, ConcatStep
  <2>3. Packed(p) \o <<>> = Packed(p) /\ <<>> \o Packed(p) = Packed(p)
    BY <1>0, ConcatEmptySeq
  <2>4. Concat[Append(<<>>, p)] = Concat[<<>>] \o Packed(p)
    BY <2>2, <2>3 DEF a
  <2>5. <<>> \in Seq(Payloads)
    OBVIOUS
  <2> QED
    BY <2>4, <2>5
<1>2. ASSUME NEW s \in Seq(Payloads), s # <<>>, Tail(s) \in S
      PROVE  s \in S
  <2> DEFINE a == Append(s, p)
             h == Packed(Head(s))
             c == Concat[Tail(s)]
  <2>1. /\ a \in Seq(Payloads) /\ a # <<>>
        /\ Head(a) = Head(s) /\ Tail(a) = Append(Tail(s), p)
    BY <1>2, AppendProperties, HeadTailAppend
  <2>2. Head(s) \in Payloads /\ Tail(s) \in Seq(Payloads)
    BY <1>2, HeadTailProperties
  <2>3. h \in Seq(Byte) /\ c \in Seq(Byte)
    BY <2>2, PackedFacts, ConcatType
  <2>4. Concat[a] = h \o (c \o Packed(p))
    <3>1. Concat[a] = h \o Concat[Append(Tail(s), p)]
      <4> HIDE DEF a
      <4> QED
        BY <2>1, ConcatStep
    <3>2. Concat[Append(Tail(s), p)] = c \o Packed(p)
      BY <1>2
    <3> QED
      BY <3>1, <3>2
  <2>5. Concat[s] = h \o c
    BY <1>2, ConcatStep
  <2> HIDE DEF h, c
  <2>6. (h \o c) \o Packed(p) = h \o (c \o Packed(p))
    BY <1>0, <2>3, ConcatAssociative
  <2> QED
    BY <2>4, <2>5, <2>6
<1> HIDE DEF S
<1>3. Seq(Payloads) \subseteq S
  BY <1>1, <1>2, AllSequences
<1> QED
  BY <1>3 DEF S


-----------------------------------------------------------------------------
\* The bytes of a frame that the parser has begun.
Held == IF analysisState = 0 THEN <<>> ELSE frame

LEMMA HeldFacts ==
  ASSUME Kept
  PROVE  /\ Held \in Seq(Byte) /\ Len(Held) \in Nat
         /\ ~wild => /\ analysisState = 0 => Held = <<>>
                     /\ analysisState # 0 => Held = frame
BY ByteFacts DEF Held, Kept, Types, Strings

\* The first bytes of two equal streams.
LEMMA SameStart ==
  ASSUME NEW h \in Seq(Byte), NEW d \in Byte, NEW rest \in Seq(Byte),
         NEW f \in Seq(Byte), NEW after \in Seq(Byte),
         (h \o <<d>>) \o rest = f \o after
  PROVE  /\ \A i \in 1..Len(h) : i <= Len(f) => h[i] = f[i]
         /\ Len(h) + 1 <= Len(f) => d = f[Len(h) + 1]
<1> DEFINE b == h \o <<d>>
           s == b \o rest
<1>1. <<d>> \in Seq(Byte) /\ Len(<<d>>) = 1 /\ <<d>>[1] = d
  OBVIOUS
<1>2. Len(h) \in Nat /\ Len(f) \in Nat /\ Len(rest) \in Nat /\ Len(after) \in Nat
  OBVIOUS
<1>3. /\ b \in Seq(Byte) /\ Len(b) = Len(h) + 1
      /\ \A i \in 1 .. Len(h) + 1 : b[i] = IF i <= Len(h) THEN h[i] ELSE <<d>>[i - Len(h)]
  BY <1>1, ConcatProperties
<1> HIDE DEF b
<1>4. /\ Len(s) = Len(b) + Len(rest)
      /\ \A i \in 1 .. Len(b) + Len(rest) : s[i] = IF i <= Len(b) THEN b[i] ELSE rest[i - Len(b)]
  <2>1. b \in Seq(Byte)
    BY <1>3
  <2> QED
    BY <2>1, ConcatProperties
<1>5. /\ Len(f \o after) = Len(f) + Len(after)
      /\ \A i \in 1 .. Len(f) + Len(after) : (f \o after)[i] = IF i <= Len(f) THEN f[i] ELSE after[i - Len(f)]
  BY ConcatProperties
<1>6. s = f \o after
  BY DEF b
<1> HIDE DEF s
<1>7. ASSUME NEW i \in 1..Len(h), i <= Len(f) PROVE h[i] = f[i]
  <2>1. s[i] = b[i] /\ b[i] = h[i]
    BY <1>2, <1>3, <1>4
  <2>2. s[i] = f[i]
    BY <1>2, <1>5, <1>6, <1>7
  <2> QED
    BY <2>1, <2>2
<1>8. ASSUME Len(h) + 1 <= Len(f) PROVE d = f[Len(h) + 1]
  <2>1. s[Len(h) + 1] = b[Len(h) + 1] /\ b[Len(h) + 1] = d
    BY <1>1, <1>2, <1>3, <1>4
  <2>2. s[Len(h) + 1] = f[Len(h) + 1]
    BY <1>2, <1>5, <1>6, <1>8
  <2> QED
    BY <2>1, <2>2
<1> QED
  BY <1>7, <1>8

\* A byte of the stream that starts with a frame either goes on with that frame or
\* ends it, and then the frame's payload is accepted.
LEMMA ByteInOrder ==
  ASSUME Kept, ~wild, NEW data \in Byte, AnalysisData(data),
         NEW p \in Payloads, NEW rest \in Seq(Byte), NEW after \in Seq(Byte),
         (Held \o <<data>>) \o rest = Packed(p) \o after
  PROVE  /\ ~wild'
         /\ \/ ret' = -1 /\ Held' = Held \o <<data>>
            \/ ret' = 0 /\ receiveData' = p /\ Held' = <<>> /\ rest = after
<1> DEFINE F == Packed(p)
           n == Len(p)
<1>1. /\ p \in Seq(Byte) /\ n \in Nat /\ n >= 1 /\ n + 5 <= PacketMax
      /\ F \in Seq(Byte) /\ Len(F) = n + 5
      /\ F[1] = Sof /\ LengthOf(F[2], F[3]) = n
      /\ \A i \in 1..n : F[i + 3] = p[i]
      /\ F[n + 4] = Crc(p) /\ F[n + 5] = Eof
  BY PackedFacts
<1>2. n <= BufSize /\ n <= OutSize /\ BufSize \in Nat /\ OutSize \in Nat
  BY <1>1, FitsAssumption, ReceiveAssumption, BufferAssumption, ByteAssumption
<1> HIDE DEF F, n
<1>3. /\ \A i \in 1..Len(Held) : i <= n + 5 => Held[i] = F[i]
      /\ Len(Held) + 1 <= n + 5 => data = F[Len(Held) + 1]
  <2>1. (Held \o <<data>>) \o rest = F \o after
    BY DEF F
  <2>2. Held \in Seq(Byte)
    BY HeldFacts
  <2>3. F \in Seq(Byte)
    BY <1>1
  <2>4. /\ \A i \in 1..Len(Held) : i <= Len(F) => Held[i] = F[i]
        /\ Len(Held) + 1 <= Len(F) => data = F[Len(Held) + 1]
    <3> DEFINE h == Held
    <3>1. h \in Seq(Byte) /\ (h \o <<data>>) \o rest = F \o after
      BY <2>1, <2>2
    <3> HIDE DEF h
    <3>2. \A d \in Byte, r \in Seq(Byte), f \in Seq(Byte), a \in Seq(Byte) :
            (h \o <<d>>) \o r = f \o a =>
              /\ \A i \in 1..Len(h) : i <= Len(f) => h[i] = f[i]
              /\ Len(h) + 1 <= Len(f) => d = f[Len(h) + 1]
      BY <3>1, SameStart
    <3>3. /\ \A i \in 1..Len(h) : i <= Len(F) => h[i] = F[i]
          /\ Len(h) + 1 <= Len(F) => data = F[Len(h) + 1]
      BY <2>3, <3>1, <3>2
    <3> QED
      BY <3>3 DEF h
  <2> QED
    BY <1>1, <2>4
<1>4. ASSUME analysisState # 0, GoesOn(analysisState', data), analysisState' # 0
      PROVE  ret' = -1 /\ Held' = Held \o <<data>>
  <2>1. ret' = -1 /\ frame' = Append(frame, data) /\ Held' = frame' /\ Held = frame
    BY <1>4 DEF GoesOn, Held
  <2>2. frame \in Seq(Byte)
    BY DEF Kept, Types, Strings
  <2>3. Append(frame, data) = frame \o <<data>>
    BY <2>2, AppendIsConcat
  <2> QED
    BY <2>1, <2>3
<1>5. ASSUME LengthRead, analysisState # 0 PROVE dataLen = n
  <2>1. Held = frame /\ Len(frame) >= 3 /\ dataLen = LengthOf(frame[2], frame[3])
    BY <1>5 DEF LengthRead, Held
  <2>2. 2 \in 1..Len(Held) /\ 3 \in 1..Len(Held) /\ 2 <= n + 5 /\ 3 <= n + 5
    BY <1>1, <2>1, HeldFacts
  <2>3. frame[2] = F[2] /\ frame[3] = F[3]
    BY <1>3, <2>1, <2>2
  <2> QED
    BY <1>1, <2>1, <2>3
<1>6. CASE Hunt(data)
  <2>1. analysisState = 0 /\ Held = <<>> /\ wild' = wild /\ ret' = -1 /\ frame' = <<data>>
    BY <1>6 DEF Hunt, Held
  <2>2. data = Sof
    <3>1. Len(Held) = 0 /\ Len(Held) + 1 <= n + 5
      BY <1>1, <2>1
    <3> QED
      BY <1>1, <1>3, <3>1
  <2>3. Held' = <<data>>
    <3>1. analysisState' = 1
      BY <1>6, <2>2 DEF Hunt
    <3> QED
      BY <2>1, <3>1 DEF Held
  <2>4. <<>> \o <<data>> = <<data>>
    <3>1. <<data>> \in Seq(Byte)
      OBVIOUS
    <3> QED
      BY <3>1, ConcatEmptySeq
  <2> QED
    BY <2>1, <2>3, <2>4
<1>7. CASE LengthHigh(data)
  <2>1. analysisState # 0 /\ analysisState' = 2 /\ GoesOn(2, data) /\ wild' = wild
    BY <1>7 DEF LengthHigh, GoesOn
  <2> QED
    BY <1>4, <2>1
<1>8. CASE LengthLow(data)
  <2>1. analysisState # 0 /\ analysisState' = 3 /\ GoesOn(3, data) /\ wild' = wild
    BY <1>8 DEF LengthLow, GoesOn
  <2> QED
    BY <1>4, <2>1
<1>9. CASE Payload(data)
  <2>1. analysisState = 3 /\ LengthRead /\ receiveBuf \in Seq(Byte) /\ Len(receiveBuf) \in Nat
    BY <1>9 DEF Payload, Kept, Types, Strings
  <2>2. dataLen = n
    BY <1>5, <2>1
  <2>3. ~(Len(receiveBuf) < dataLen /\ Len(receiveBuf) >= BufSize)
    BY <1>1, <1>2, <2>1, <2>2
  <2>4. /\ analysisState' = IF Len(receiveBuf') = dataLen THEN 4 ELSE 3
        /\ GoesOn(IF Len(receiveBuf') = dataLen THEN 4 ELSE 3, data)
        /\ wild' = wild
    BY <1>9, <2>3 DEF Payload, GoesOn
  <2>5. GoesOn(analysisState', data) /\ analysisState' # 0 /\ analysisState # 0
    BY <2>1, <2>4
  <2> QED
    BY <1>4, <2>4, <2>5
<1>10. CASE CheckByte(data)
  <2>1. analysisState # 0 /\ analysisState' = 5 /\ GoesOn(5, data) /\ wild' = wild
    BY <1>10 DEF CheckByte, GoesOn
  <2> QED
    BY <1>4, <2>1
<1>11. CASE LastByte(data)
  <2>1. /\ analysisState = 5 /\ LengthRead /\ Copied /\ Len(receiveBuf) = dataLen
        /\ Len(frame) = Head3 + 1 /\ crc = frame[Len(frame)] /\ Held = frame
        /\ receiveBuf \in Seq(Byte) /\ frame \in Seq(Byte)
    BY <1>11 DEF LastByte, Kept, Types, Strings, Held
  <2>2. dataLen = n /\ Len(frame) = n + 4
    <3>1. dataLen = n
      BY <1>5, <2>1
    <3> QED
      BY <1>1, <2>1, <3>1 DEF Head3
  <2>3. data = Eof /\ \A i \in 1 .. n + 4 : frame[i] = F[i]
    <3>1. Len(Held) = n + 4 /\ Len(Held) + 1 = n + 5 /\ Len(Held) + 1 <= n + 5
      BY <1>1, <2>1, <2>2
    <3>2. data = F[n + 5]
      BY <1>3, <3>1
    <3>3. \A i \in 1 .. n + 4 : frame[i] = F[i]
      BY <1>1, <1>3, <2>1, <3>1
    <3> QED
      BY <1>1, <3>2, <3>3
  <2>4. receiveBuf = p
    <3>1. Len(receiveBuf) = n
      BY <2>1, <2>2
    <3>2. ASSUME NEW i \in 1..n PROVE receiveBuf[i] = p[i]
      <4>1. receiveBuf[i] = frame[i + 3]
        BY <2>1, <3>1 DEF Copied
      <4>2. i + 3 \in 1 .. n + 4
        BY <1>1
      <4> QED
        BY <1>1, <2>3, <4>1, <4>2
    <3> QED
      BY <1>1, <2>1, <3>1, <3>2, SeqEqual DEF n
  <2>5. crc = Crc(p)
    <3>1. n + 4 \in 1 .. n + 4
      BY <1>1
    <3>2. crc = F[n + 4]
      BY <2>1, <2>2, <2>3, <3>1
    <3> QED
      BY <1>1, <3>2
  <2>6. Accepts(data)
    BY <2>3, <2>4, <2>5 DEF Accepts
  <2>7. ret' = 0 /\ receiveData' = p /\ analysisState' = 0 /\ ~wild'
    <3>1. ~(Len(receiveBuf) > OutSize)
      BY <1>1, <1>2, <2>1, <2>2
    <3> QED
      BY <1>11, <2>4, <2>6, <3>1 DEF LastByte
  <2>8. rest = after
    <3> DEFINE g == frame \o <<data>>
    <3>1. <<data>> \in Seq(Byte) /\ Len(<<data>>) = 1 /\ <<data>>[1] = data
      OBVIOUS
    <3>2. /\ g \in Seq(Byte) /\ Len(g) = n + 5
          /\ \A i \in 1 .. n + 5 : g[i] = IF i <= n + 4 THEN frame[i] ELSE <<data>>[i - (n + 4)]
      BY <1>1, <2>1, <2>2, <3>1, ConcatProperties
    <3>3. g \o rest = F \o after
      BY <2>1 DEF F
    <3> HIDE DEF g
    <3>4. ASSUME NEW i \in 1 .. n + 5 PROVE g[i] = F[i]
      <4>1. CASE i <= n + 4
        <5>1. i \in 1 .. n + 4
          BY <1>1, <4>1
        <5>2. frame[i] = F[i] /\ g[i] = frame[i]
          BY <2>3, <3>2, <4>1, <5>1
        <5> QED
          BY <5>2
      <4>2. CASE i = n + 5
        BY <1>1, <2>3, <3>1, <3>2, <4>2
      <4> QED
        BY <1>1, <4>1, <4>2
    <3>5. g = F
      BY <1>1, <3>2, <3>4, SeqEqual
    <3>6. F \in Seq(Byte) /\ F \o rest = F \o after
      BY <1>1, <3>3, <3>5
    <3> QED
      BY <3>6, ConcatSimplifications
  <2>9. Held' = <<>>
    BY <2>7 DEF Held
  <2> QED
    BY <2>7, <2>8, <2>9
<1> QED
  BY <1>6, <1>7, <1>8, <1>9, <1>10, <1>11 DEF AnalysisData


-----------------------------------------------------------------------------
\* Types of the whole path.
PathTypes ==
  /\ Kept /\ BufferInv
  /\ pc \in {"transmit", "receive", "analyse", "apply"}
  /\ outbox \in Seq(Byte)
  /\ rx \in Seq(Byte) /\ Len(rx) <= PacketMax /\ (pc # "receive" => rx = <<>>)
  /\ queue \in Seq(Byte) /\ Len(queue) <= QCap
  /\ count \in 0..CallMax
  /\ plane \in [Commands -> Seq(Byte)]
  /\ pending \in Seq(Payloads) /\ Len(pending) <= Burst
  /\ cut \in BOOLEAN

LEMMA SizeFacts ==
  PacketMax \in Nat /\ PacketMax >= 1 /\ CallMax \in Nat /\ CallMax >= 1 /\ QCap \in Nat
  /\ Burst \in Nat
BY ReceiveAssumption

\* The part of a packet that comes with an acknowledgement.
LEMMA PartOf ==
  ASSUME NEW s \in Seq(Byte), NEW n \in 0..Len(s)
  PROVE  /\ SubSeq(s, 1, n) \in Seq(Byte) /\ Len(SubSeq(s, 1, n)) = n
         /\ SubSeq(s, n + 1, Len(s)) \in Seq(Byte)
         /\ SubSeq(s, 1, n) \o SubSeq(s, n + 1, Len(s)) = s
<1>1. Len(s) \in Nat /\ n \in Nat /\ n <= Len(s) /\ \A i \in 1..Len(s) : s[i] \in Byte
  OBVIOUS
<1>2. SubSeq(s, 1, n) \in Seq(Byte) /\ Len(SubSeq(s, 1, n)) = n
  <2>1. \A i \in 1..n : s[i] \in Byte
    BY <1>1
  <2> QED
    BY <1>1, <2>1, SubSeqProperties
<1>3. SubSeq(s, n + 1, Len(s)) \in Seq(Byte)
  <2>1. \A i \in n + 1 .. Len(s) : s[i] \in Byte
    BY <1>1
  <2> QED
    BY <1>1, <2>1, SubSeqProperties
<1>4. SubSeq(s, 1, n) \o SubSeq(s, n + 1, Len(s)) = SubSeq(s, 1, Len(s))
  <2>1. 1 \in 1 .. Len(s) + 1 /\ n \in 1 - 1 .. Len(s) /\ Len(s) \in n .. Len(s)
    BY <1>1
  <2> QED
    BY <2>1, ConcatAdjacentSubSeq
<1>5. SubSeq(s, 1, Len(s)) = s
  BY SubSeqFull
<1> QED
  BY <1>2, <1>3, <1>4, <1>5

\* What ReceiveData stores of a packet.
LEMMA TakenFacts ==
  ASSUME PathTypes
  PROVE  /\ Taken \in Seq(Byte) /\ queue \o Taken \in Seq(Byte)
         /\ Len(queue \o Taken) <= QCap
<1> DEFINE n == IF Len(queue) + Len(rx) <= QCap THEN Len(rx) ELSE QCap - Len(queue)
<1>1. /\ rx \in Seq(Byte) /\ queue \in Seq(Byte) /\ Len(rx) \in Nat /\ Len(queue) \in Nat
      /\ Len(queue) <= QCap /\ QCap \in Nat
  BY SizeFacts DEF PathTypes
<1>2. n \in 0..Len(rx) /\ Len(queue) + n <= QCap
  BY <1>1
<1>3. Taken = SubSeq(rx, 1, n)
  BY DEF Taken
<1> HIDE DEF n
<1>4. Taken \in Seq(Byte) /\ Len(Taken) = n
  BY <1>1, <1>2, <1>3, PartOf
<1>5. queue \o Taken \in Seq(Byte) /\ Len(queue \o Taken) = Len(queue) + Len(Taken)
  BY <1>1, <1>4, ConcatProperties
<1> QED
  BY <1>2, <1>4, <1>5

LEMMA KeptUnchanged == PathTypes /\ UNCHANGED parserVars => (Kept /\ BufferInv)'
BY DEF PathTypes, parserVars, BufferInv, Kept, Types, Result, Numbers, Strings, Started,
       LengthRead, Copied, Head3

LEMMA PathTypesInit == Init => PathTypes
<1> SUFFICES ASSUME Init PROVE PathTypes
  OBVIOUS
<1>1. Kept /\ BufferInv
  BY ParserInitInv, BufferInit DEF Init, ParserInv
<1>2. <<>> \in Seq(Byte) /\ <<>> \in Seq(Payloads) /\ Len(<<>>) = 0
  OBVIOUS
<1>3. Len(rx) <= PacketMax /\ Len(queue) <= QCap /\ Len(pending) <= Burst
  BY <1>2, SizeFacts DEF Init
<1>4. count \in 0..CallMax
  BY SizeFacts DEF Init
<1>5. plane \in [Commands -> Seq(Byte)]
  BY <1>2 DEF Init
<1> QED
  BY <1>1, <1>2, <1>3, <1>4, <1>5 DEF Init, PathTypes

LEMMA PlaneQueuesTypes ==
  ASSUME PathTypes, PlaneQueues
  PROVE  PathTypes'
<1>1. PICK p \in Payloads : pending' = Append(pending, p) /\ outbox' = outbox \o Packed(p)
  BY DEF PlaneQueues
<1>2. outbox' \in Seq(Byte)
  BY <1>1, PackedFacts, ConcatProperties DEF PathTypes
<1>3. pending' \in Seq(Payloads) /\ Len(pending') <= Burst
  <2>1. Len(pending) < Burst /\ pending \in Seq(Payloads) /\ Len(pending) \in Nat
    BY DEF PlaneQueues, PathTypes
  <2> QED
    BY <1>1, <2>1, SizeFacts
<1>4. (Kept /\ BufferInv)'
  BY KeptUnchanged DEF PlaneQueues
<1> QED
  BY <1>2, <1>3, <1>4 DEF PlaneQueues, PathTypes

LEMMA TransmitTypes ==
  ASSUME PathTypes, NEW acknowledged \in BOOLEAN, Transmit(acknowledged)
  PROVE  PathTypes' /\ rx' \o outbox' = outbox
<1> DEFINE n == IF ~acknowledged THEN 0
                ELSE IF Len(outbox) < PacketMax THEN Len(outbox) ELSE PacketMax
<1>1. outbox \in Seq(Byte) /\ Len(outbox) \in Nat
  BY DEF PathTypes
<1>2. n \in 0..Len(outbox) /\ n <= PacketMax
  BY <1>1, SizeFacts
<1>3. rx' = SubSeq(outbox, 1, n) /\ outbox' = SubSeq(outbox, n + 1, Len(outbox))
  BY DEF Transmit
<1> HIDE DEF n
<1>4. /\ rx' \in Seq(Byte) /\ Len(rx') <= PacketMax /\ outbox' \in Seq(Byte)
      /\ rx' \o outbox' = outbox
  BY <1>1, <1>2, <1>3, PartOf
<1>5. (Kept /\ BufferInv)'
  BY KeptUnchanged DEF Transmit
<1> QED
  BY <1>4, <1>5 DEF Transmit, PathTypes

LEMMA ReceiveDataTypes ==
  ASSUME PathTypes, ReceiveData
  PROVE  PathTypes'
<1>1. queue' \in Seq(Byte) /\ Len(queue') <= QCap
  BY TakenFacts DEF ReceiveData
<1>2. rx' \in Seq(Byte) /\ Len(rx') <= PacketMax /\ rx' = <<>>
  <2>1. rx' = <<>> /\ Len(<<>>) = 0 /\ <<>> \in Seq(Byte)
    BY DEF ReceiveData
  <2> QED
    BY <2>1, SizeFacts
<1>3. Kept' /\ BufferInv'
  <2>1. /\ UNCHANGED <<analysisState, dataLen, receiveBuf, crc, wild, frame>>
        /\ ret' = -1 /\ receiveData' = <<>>
    BY DEF ReceiveData
  <2>2. Kept /\ BufferInv
    BY DEF PathTypes
  <2>3. Kept'
    <3>1. Result'
      BY <2>1, <2>2 DEF Kept, Types, Result
    <3>2. Numbers'
      BY <2>1, <2>2 DEF Kept, Types, Numbers
    <3>3. Strings'
      BY <2>1, <2>2, ByteFacts DEF Kept, Types, Strings
    <3>4. /\ (Started' <=> Started) /\ (LengthRead' <=> LengthRead) /\ (Copied' <=> Copied)
          /\ Head3' = Head3
      BY <2>1 DEF Started, LengthRead, Copied, Head3
    <3> QED
      BY <2>1, <2>2, <3>1, <3>2, <3>3, <3>4 DEF Kept, Types
  <2>4. BufferInv'
    BY <2>1, <2>2 DEF BufferInv
  <2> QED
    BY <2>3, <2>4
<1>4. cut' \in BOOLEAN /\ count' = 0 /\ count' \in 0..CallMax
  BY SizeFacts DEF ReceiveData, PathTypes
<1> QED
  BY <1>1, <1>2, <1>3, <1>4 DEF ReceiveData, PathTypes

LEMMA AnalysisByteTypes ==
  ASSUME PathTypes, AnalysisByte
  PROVE  PathTypes'
<1>1. /\ pc = "analyse" /\ queue \in Seq(Byte) /\ queue # <<>> /\ Kept /\ BufferInv
      /\ AnalysisData(Head(queue)) /\ queue' = Tail(queue)
  BY DEF AnalysisByte, PathTypes
<1>2. /\ Head(queue) \in Byte /\ queue' \in Seq(Byte)
      /\ Len(queue') = Len(queue) - 1 /\ Len(queue) \in Nat
  BY <1>1, HeadTailProperties
<1>3. Kept' /\ BufferInv'
  <2>1. ParserNext
    BY <1>1, <1>2 DEF ParserNext
  <2> QED
    BY <1>1, <1>2, <2>1, ParserCall, BufferStep DEF ParserInv
<1>4. Len(queue') <= QCap
  BY <1>2, SizeFacts DEF PathTypes
<1>5. count' \in 0..CallMax
  BY SizeFacts DEF AnalysisByte, PathTypes
<1>6. pending' \in Seq(Payloads) /\ Len(pending') <= Burst
  <2>1. pending \in Seq(Payloads) /\ Len(pending) \in Nat /\ Len(pending) <= Burst
    BY DEF PathTypes
  <2>2. pending' = pending \/ (pending # <<>> /\ pending' = Tail(pending))
    BY DEF AnalysisByte, IsFirst
  <2>3. pending # <<>> => /\ Tail(pending) \in Seq(Payloads)
                          /\ Len(Tail(pending)) = Len(pending) - 1
    BY <2>1, HeadTailProperties
  <2> QED
    BY <2>1, <2>2, <2>3, SizeFacts
<1>7. /\ pc' \in {"transmit", "receive", "analyse", "apply"}
      /\ UNCHANGED <<outbox, rx, plane, cut>> /\ rx = <<>>
  BY DEF AnalysisByte, PathTypes
<1> QED
  BY <1>2, <1>3, <1>4, <1>5, <1>6, <1>7 DEF PathTypes

LEMMA ApplyTypes ==
  ASSUME PathTypes, Apply
  PROVE  PathTypes'
<1>1. receiveData \in Seq(Byte)
  BY DEF PathTypes, Kept, Types, Strings
<1>2. plane' \in [Commands -> Seq(Byte)]
  BY <1>1 DEF Apply, Updated, PathTypes
<1>3. (Kept /\ BufferInv)'
  BY KeptUnchanged DEF Apply
<1> QED
  BY <1>2, <1>3 DEF Apply, PathTypes

LEMMA PathTypesStep ==
  ASSUME PathTypes, [Next]_vars
  PROVE  PathTypes'
<1>1. CASE UNCHANGED vars
  BY <1>1, KeptUnchanged DEF vars, PathTypes
<1>2. CASE AnalysisStop
  BY <1>2, KeptUnchanged DEF AnalysisStop, PathTypes
<1> QED
  BY <1>1, <1>2, PlaneQueuesTypes, TransmitTypes, ReceiveDataTypes, AnalysisByteTypes, ApplyTypes
     DEF Next, Master


-----------------------------------------------------------------------------
\* Until bytes are refused, what lies between the plane and the parser is the frames
\* not yet accepted, so every payload accepted is one the plane sent.
InTransit == Held \o queue \o rx \o outbox
Intact ==
  /\ ~wild
  /\ InTransit = Concat[pending]
  /\ pc = "apply" => receiveData \in Payloads
  /\ plane \in [Commands -> Payloads \cup {<<>>}]
PathInv == PathTypes /\ (~cut => Intact)

LEMMA PathSequences ==
  ASSUME PathTypes
  PROVE  /\ Held \in Seq(Byte) /\ queue \in Seq(Byte) /\ rx \in Seq(Byte)
         /\ outbox \in Seq(Byte) /\ pending \in Seq(Payloads)
         /\ Held \o queue \in Seq(Byte) /\ (Held \o queue) \o rx \in Seq(Byte)
<1>1. /\ Held \in Seq(Byte) /\ queue \in Seq(Byte) /\ rx \in Seq(Byte)
      /\ outbox \in Seq(Byte) /\ pending \in Seq(Payloads)
  BY HeldFacts DEF PathTypes
<1>2. Held \o queue \in Seq(Byte)
  BY <1>1, ConcatProperties
<1>3. (Held \o queue) \o rx \in Seq(Byte)
  BY <1>1, <1>2, ConcatProperties
<1> QED
  BY <1>1, <1>2, <1>3

LEMMA FourParts ==
  ASSUME NEW a \in Seq(Byte), NEW b \in Seq(Byte), NEW c \in Seq(Byte), NEW d \in Seq(Byte)
  PROVE  ((a \o b) \o c) \o d = a \o ((b \o c) \o d)
<1> DEFINE e == b \o c
<1>1. e \in Seq(Byte)
  BY ConcatProperties
<1>2. (a \o b) \o c = a \o e
  BY ConcatAssociative
<1> HIDE DEF e
<1>3. (a \o e) \o d = a \o (e \o d)
  BY <1>1, ConcatAssociative
<1> QED
  BY <1>2, <1>3 DEF e

LEMMA HeldUnchanged == UNCHANGED parserVars => Held' = Held
BY DEF parserVars, Held

LEMMA PlaneQueuesIntact ==
  ASSUME PathTypes, Intact, PlaneQueues
  PROVE  Intact'
<1>1. PICK p \in Payloads : pending' = Append(pending, p) /\ outbox' = outbox \o Packed(p)
  BY DEF PlaneQueues
<1> DEFINE b == (Held \o queue) \o rx
           f == Packed(p)
<1>2. b \in Seq(Byte) /\ f \in Seq(Byte) /\ outbox \in Seq(Byte) /\ pending \in Seq(Payloads)
  BY PathSequences, PackedFacts
<1>3. InTransit' = b \o (outbox \o f)
  BY <1>1, HeldUnchanged DEF PlaneQueues, InTransit
<1>4. Concat[pending'] = Concat[pending] \o f
  BY <1>1, <1>2, ConcatAppend
<1>5. Concat[pending] = b \o outbox
  BY DEF Intact, InTransit
<1> HIDE DEF b, f
<1>6. (b \o outbox) \o f = b \o (outbox \o f)
  BY <1>2, ConcatAssociative
<1> QED
  BY <1>3, <1>4, <1>5, <1>6 DEF PlaneQueues, Intact, parserVars

LEMMA TransmitIntact ==
  ASSUME PathTypes, Intact, NEW acknowledged \in BOOLEAN, Transmit(acknowledged)
  PROVE  Intact'
<1> DEFINE b == Held \o queue
<1>1. PathTypes' /\ rx' \o outbox' = outbox
  BY TransmitTypes
<1>2. /\ b \in Seq(Byte) /\ rx' \in Seq(Byte) /\ outbox' \in Seq(Byte) /\ rx = <<>>
  BY <1>1, PathSequences DEF PathTypes, Transmit
<1>3. InTransit' = (b \o rx') \o outbox'
  BY HeldUnchanged DEF Transmit, InTransit
<1>4. InTransit = (b \o <<>>) \o outbox
  BY <1>2 DEF InTransit
<1> HIDE DEF b
<1>5. b \o <<>> = b
  BY <1>2, ConcatEmptySeq
<1>6. (b \o rx') \o outbox' = b \o (rx' \o outbox')
  BY <1>2, ConcatAssociative
<1>7. InTransit' = InTransit
  BY <1>1, <1>3, <1>4, <1>5, <1>6
<1> QED
  BY <1>7 DEF Transmit, Intact, parserVars

LEMMA ReceiveDataIntact ==
  ASSUME PathTypes, Intact, ReceiveData, ~cut'
  PROVE  Intact'
<1>1. Taken = rx /\ queue' = queue \o rx /\ rx' = <<>> /\ outbox' = outbox /\ Held' = Held
  BY DEF ReceiveData, Held
<1>2. /\ Held \in Seq(Byte) /\ queue \in Seq(Byte) /\ rx \in Seq(Byte)
      /\ (Held \o queue) \o rx \in Seq(Byte)
  BY PathSequences
<1>3. InTransit' = ((Held \o (queue \o rx)) \o <<>>) \o outbox
  BY <1>1 DEF InTransit
<1>4. Held \o (queue \o rx) = (Held \o queue) \o rx
  BY <1>2, ConcatAssociative
<1>5. ((Held \o queue) \o rx) \o <<>> = (Held \o queue) \o rx
  BY <1>2, ConcatEmptySeq
<1>6. InTransit' = InTransit
  BY <1>3, <1>4, <1>5 DEF InTransit
<1> QED
  BY <1>6 DEF ReceiveData, Intact

\* The parser goes on, or it has taken the oldest payload.
Takes == /\ ret' = 0 /\ pending # <<>> /\ receiveData' = Head(pending)
         /\ pending' = Tail(pending)

LEMMA AnalysisByteIntact ==
  ASSUME PathTypes, Intact, AnalysisByte
  PROVE  Intact' /\ (ret' = -1 \/ Takes)
<1> DEFINE data == Head(queue)
           t == Tail(queue)
           rest == (t \o rx) \o outbox
           h == Held
           p == Head(pending)
           after == Concat[Tail(pending)]
<1>1. /\ queue # <<>> /\ AnalysisData(data) /\ queue' = t /\ UNCHANGED <<rx, outbox, plane, cut>>
      /\ Kept /\ ~wild /\ InTransit = Concat[pending]
  BY DEF AnalysisByte, PathTypes, Intact
<1>2. /\ h \in Seq(Byte) /\ queue \in Seq(Byte) /\ rx \in Seq(Byte) /\ outbox \in Seq(Byte)
      /\ pending \in Seq(Payloads)
  BY PathSequences
<1>3. /\ data \in Byte /\ <<data>> \in Seq(Byte) /\ t \in Seq(Byte) /\ queue = <<data>> \o t
  <2>1. data \in Byte /\ t \in Seq(Byte)
    BY <1>1, <1>2, HeadTailProperties
  <2>2. queue = <<data>> \o t
    BY <1>1, <1>2
  <2> QED
    BY <2>1, <2>2
<1>4. t \o rx \in Seq(Byte) /\ rest \in Seq(Byte)
  <2>1. t \o rx \in Seq(Byte)
    BY <1>2, <1>3, ConcatProperties
  <2> QED
    BY <1>2, <2>1, ConcatProperties
<1> HIDE DEF data, t, h
<1>5. InTransit = (h \o <<data>>) \o rest
  <2> DEFINE d == <<data>>
  <2>1. d \in Seq(Byte) /\ h \o d \in Seq(Byte) /\ (h \o d) \o t \in Seq(Byte)
    <3>1. d \in Seq(Byte)
      BY <1>3
    <3> HIDE DEF d
    <3>2. h \o d \in Seq(Byte)
      BY <1>2, <3>1, ConcatProperties
    <3> QED
      BY <1>3, <3>1, <3>2, ConcatProperties
  <2> HIDE DEF d
  <2>2. h \o (d \o t) = (h \o d) \o t
    BY <1>2, <1>3, <2>1, ConcatAssociative
  <2>3. (((h \o d) \o t) \o rx) \o outbox = (h \o d) \o ((t \o rx) \o outbox)
    <3> DEFINE a == h \o d
    <3>1. a \in Seq(Byte)
      BY <2>1
    <3> HIDE DEF a
    <3>2. t \in Seq(Byte) /\ rx \in Seq(Byte) /\ outbox \in Seq(Byte)
      BY <1>2, <1>3
    <3>3. ((a \o t) \o rx) \o outbox = a \o ((t \o rx) \o outbox)
      <4>1. \A u \in Seq(Byte), v \in Seq(Byte), w \in Seq(Byte) :
              ((a \o u) \o v) \o w = a \o ((u \o v) \o w)
        BY <3>1, FourParts
      <4> QED
        BY <3>2, <4>1
    <3> QED
      BY <3>3 DEF a
  <2>4. InTransit = ((h \o (d \o t)) \o rx) \o outbox
    BY <1>3 DEF InTransit, h, d
  <2> QED
    BY <2>2, <2>3, <2>4 DEF d, rest
<1>6. pending # <<>>
  <2>1. Len((h \o <<data>>) \o rest) >= 1
    <3>1. h \o <<data>> \in Seq(Byte) /\ Len(h \o <<data>>) = Len(h) + 1 /\ Len(h) \in Nat
      BY <1>2, <1>3, ConcatProperties
    <3>2. Len((h \o <<data>>) \o rest) = Len(h \o <<data>>) + Len(rest) /\ Len(rest) \in Nat
      BY <1>4, <3>1, ConcatProperties
    <3> QED
      BY <3>1, <3>2
  <2>2. pending = <<>> => Len(Concat[pending]) = 0
    BY ConcatStep
  <2> QED
    BY <1>1, <1>5, <2>1, <2>2
<1>7. p \in Payloads /\ after \in Seq(Byte) /\ Concat[pending] = Packed(p) \o after
  <2>1. Head(pending) \in Payloads /\ Tail(pending) \in Seq(Payloads)
    BY <1>2, <1>6, HeadTailProperties
  <2> QED
    BY <1>2, <1>6, <2>1, ConcatStep, ConcatType
<1> HIDE DEF rest, p, after
<1>8. /\ ~wild'
      /\ \/ ret' = -1 /\ Held' = h \o <<data>>
         \/ ret' = 0 /\ receiveData' = p /\ Held' = <<>> /\ rest = after
  BY <1>1, <1>3, <1>4, <1>5, <1>7, ByteInOrder DEF h
<1>9. InTransit' = Concat[pending'] /\ (pc' = "apply" => receiveData' \in Payloads)
  <2>1. InTransit' = ((Held' \o t) \o rx) \o outbox
    BY <1>1 DEF InTransit
  <2>2. CASE ret' = -1 /\ Held' = h \o <<data>>
    <3>1. pending' = pending /\ pc' = "analyse"
      BY <2>2 DEF AnalysisByte
    <3>2. ((Held' \o t) \o rx) \o outbox = Held' \o rest
      <4>1. Held' \in Seq(Byte)
        BY <1>2, <1>3, <2>2, ConcatProperties
      <4> DEFINE a == Held'
      <4>2. a \in Seq(Byte)
        BY <4>1
      <4> HIDE DEF a
      <4>3. t \in Seq(Byte) /\ rx \in Seq(Byte) /\ outbox \in Seq(Byte)
        BY <1>2, <1>3
      <4>4. ((a \o t) \o rx) \o outbox = a \o ((t \o rx) \o outbox)
        <5>1. \A u \in Seq(Byte), v \in Seq(Byte), w \in Seq(Byte) :
                ((a \o u) \o v) \o w = a \o ((u \o v) \o w)
          BY <4>2, FourParts
        <5> QED
          BY <4>3, <5>1
      <4> QED
        BY <4>4 DEF a, rest
    <3> QED
      BY <1>1, <1>5, <2>1, <2>2, <3>1, <3>2
  <2>3. CASE ret' = 0 /\ receiveData' = p /\ Held' = <<>> /\ rest = after
    <3>1. pending' = Tail(pending)
      BY <1>6, <2>3 DEF AnalysisByte, IsFirst, p
    <3>2. <<>> \o t = t
      BY <1>3, ConcatEmptySeq
    <3> QED
      BY <1>7, <2>1, <2>3, <3>1, <3>2 DEF rest, after
  <2> QED
    BY <1>8, <2>2, <2>3
<1>10. ret' = -1 \/ Takes
  BY <1>6, <1>8 DEF AnalysisByte, IsFirst, Takes, p
<1> QED
  BY <1>1, <1>8, <1>9, <1>10 DEF Intact

LEMMA ApplyIntact ==
  ASSUME PathTypes, Intact, Apply
  PROVE  Intact'
<1>1. receiveData \in Payloads /\ plane \in [Commands -> Payloads \cup {<<>>}]
  BY DEF Apply, Intact
<1>2. plane' \in [Commands -> Payloads \cup {<<>>}]
  BY <1>1 DEF Apply, Updated
<1>3. InTransit' = InTransit
  BY HeldUnchanged DEF Apply, InTransit
<1> QED
  BY <1>2, <1>3 DEF Apply, Intact, parserVars

LEMMA PathInvInit == Init => PathInv
<1> SUFFICES ASSUME Init PROVE PathInv
  OBVIOUS
<1>1. Held = <<>> /\ queue = <<>> /\ rx = <<>> /\ outbox = <<>> /\ pending = <<>> /\ ~wild
  BY DEF Init, ParserInit, Held
<1>2. <<>> \o <<>> = <<>>
  BY ByteFacts, ConcatEmptySeq
<1>3. InTransit = Concat[pending]
  BY <1>1, <1>2, ConcatStep DEF InTransit
<1> QED
  BY <1>1, <1>3, PathTypesInit DEF PathInv, Intact, Init

LEMMA PathInvStep ==
  ASSUME PathInv, [Next]_vars
  PROVE  PathInv'
<1>1. PathTypes'
  BY PathTypesStep DEF PathInv
<1>2. SUFFICES ASSUME ~cut' PROVE Intact'
  BY <1>1 DEF PathInv
<1>3. PathTypes /\ Intact
  <2>1. ~cut
    BY <1>2 DEF PathInv, PathTypes, Next, Master, vars, PlaneQueues, Transmit, ReceiveData,
                AnalysisByte, AnalysisStop, Apply
  <2> QED
    BY <2>1 DEF PathInv
<1>4. CASE UNCHANGED vars
  <2>1. InTransit' = InTransit
    BY <1>4, HeldUnchanged DEF vars, InTransit
  <2> QED
    BY <1>3, <1>4, <2>1 DEF vars, parserVars, Intact
<1>5. CASE AnalysisStop
  <2>1. InTransit' = InTransit
    BY <1>5, HeldUnchanged DEF AnalysisStop, InTransit
  <2> QED
    BY <1>3, <1>5, <2>1 DEF AnalysisStop, parserVars, Intact
<1> QED
  BY <1>2, <1>3, <1>4, <1>5, PlaneQueuesIntact, TransmitIntact, ReceiveDataIntact,
     AnalysisByteIntact, ApplyIntact DEF Next, Master

LEMMA PathInvariant == Spec => []PathInv
BY PathInvInit, PathInvStep, PTL DEF Spec

\* Type correctness of the receive path, for any payloads that fit, however far the
\* plane may be ahead: no queue outgrows its array, and until receiveQueue refuses
\* bytes nothing is kept of the plane but payloads it sent.
THEOREM ReceiveTypes == Spec => []TypeOK
<1>1. PathInv => TypeOK
  <2> SUFFICES ASSUME PathInv PROVE TypeOK
    OBVIOUS
  <2>1. PathTypes /\ Kept /\ BufferInv
    BY DEF PathInv, PathTypes
  <2>2. ParserTypeOK
    <3>1. dataLen \in 0 .. W * W - 1
      BY <2>1, LengthBound DEF BufferInv, Kept, Types, Numbers
    <3> QED
      BY <2>1, <3>1 DEF ParserTypeOK, BufferInv, Kept, Types, Result, Numbers, Strings
  <2> QED
    BY <2>1, <2>2 DEF PathInv, PathTypes, Intact, TypeOK
<1> QED
  BY <1>1, PathInvariant, PTL

\* Of what the plane sends nothing is lost, doubled or reordered before
\* receiveQueue is full, whatever the sizes, the checksum and the payloads and however
\* packets and calls of AnalysisHandle cut the frames up.
THEOREM StreamStaysIntact == Spec => []StreamIntact
<1>1. PathInv => StreamIntact
  BY DEF PathInv, Intact, InTransit, Held, StreamIntact
<1> QED
  BY <1>1, PathInvariant, PTL


-----------------------------------------------------------------------------
\* The receive path implements the channel.
Known == IF pc = "apply" THEN Updated(plane, receiveData) ELSE plane
Same == UNCHANGED <<pending, Known, cut>>

\* At most the entry of one command differs.
OneEntry(known, next) ==
  next # known => \E c \in Commands : next = [known EXCEPT ![c] = next[c]]

LEMMA UpdatedIsOneEntry ==
  ASSUME NEW known \in [Commands -> Seq(Byte)], NEW p
  PROVE  OneEntry(known, Updated(known, p))
<1> DEFINE next == Updated(known, p)
           k == CommandOf(p)
<1>1. next = [c \in Commands |-> IF c = k THEN p ELSE known[c]]
  BY DEF Updated
<1> HIDE DEF next, k
<1>2. CASE k \in Commands
  <2>1. next = [known EXCEPT ![k] = next[k]]
    BY <1>1, <1>2
  <2> QED
    BY <1>2, <2>1 DEF OneEntry, next
<1>3. CASE k \notin Commands
  <2>1. next = known
    BY <1>1, <1>3
  <2> QED
    BY <2>1 DEF OneEntry, next
<1> QED
  BY <1>2, <1>3

\* A byte parsed changes nothing, takes the oldest payload, or comes after the break.
LEMMA AnalysisByteChannel ==
  ASSUME PathInv, AnalysisByte
  PROVE  \/ Same
         \/ /\ pending # <<>> /\ pending' = Tail(pending) /\ UNCHANGED cut
            /\ Known' = [c \in Commands |->
                           IF c = Head(pending)[1] THEN Head(pending) ELSE Known[c]]
         \/ /\ cut /\ UNCHANGED cut
            /\ pending' = pending \/ (pending # <<>> /\ pending' = Tail(pending))
            /\ OneEntry(Known, Known')
<1>1. /\ pc = "analyse" /\ UNCHANGED <<plane, cut>> /\ Known = plane /\ PathTypes
      /\ pc' = (IF ret' = 0 THEN "apply" ELSE "analyse")
      /\ pending' = IF ret' = 0 /\ IsFirst(receiveData') THEN Tail(pending) ELSE pending
  BY DEF AnalysisByte, Known, PathInv
<1>2. CASE ret' # 0
  BY <1>1, <1>2 DEF Known, Same
<1>3. CASE ret' = 0 /\ ~cut
  <2>1. Takes
    <3>1. ret' = -1 \/ Takes
      BY <1>3, AnalysisByteIntact DEF PathInv
    <3> QED
      BY <1>3, <3>1
  <2> DEFINE p == Head(pending)
  <2>2. p \in Payloads
    BY <2>1, HeadTailProperties DEF Takes, PathInv, PathTypes
  <2>3. CommandOf(p) = p[1]
    <3>1. p \in Seq(Byte) /\ Len(p) >= 1
      BY <2>2, PackedFacts
    <3> HIDE DEF p
    <3>2. p # <<>>
      BY <3>1
    <3> QED
      BY <3>1, <3>2 DEF CommandOf
  <2>4. Known' = Updated(plane, p)
    <3>1. Known' = Updated(plane', receiveData')
      BY <1>1, <1>3 DEF Known
    <3> QED
      BY <1>1, <2>1, <3>1 DEF Takes
  <2>5. Known' = [c \in Commands |-> IF c = p[1] THEN p ELSE Known[c]]
    BY <1>1, <2>3, <2>4 DEF Updated
  <2> QED
    BY <1>1, <2>1, <2>5 DEF Takes
<1>4. CASE ret' = 0 /\ cut
  <2>1. pending' = pending \/ (pending # <<>> /\ pending' = Tail(pending))
    BY <1>1 DEF IsFirst
  <2>2. Known' = Updated(plane, receiveData')
    BY <1>1, <1>4 DEF Known
  <2>3. OneEntry(Known, Known')
    BY <1>1, <2>2, UpdatedIsOneEntry DEF PathTypes
  <2> QED
    BY <1>1, <1>4, <2>1, <2>3
<1>5. cut \in BOOLEAN
  BY <1>1 DEF PathTypes
<1> QED
  BY <1>2, <1>3, <1>4, <1>5

LEMMA ChannelStep ==
  ASSUME PathInv, [Next]_vars
  PROVE  [Channel!Next]_Channel!channelVars
<1> SUFFICES Channel!Next \/ Same
  BY DEF Same, Known, Channel!channelVars
<1>1. CASE UNCHANGED vars
  BY <1>1 DEF vars, parserVars, Same, Known
<1>2. CASE PlaneQueues
  <2>1. UNCHANGED <<Known, cut>>
    BY <1>2 DEF PlaneQueues, parserVars, Known
  <2>2. PICK p \in Payloads : pending' = Append(pending, p)
    BY <1>2 DEF PlaneQueues
  <2>3. Channel!Send(p)
    BY <2>1, <2>2 DEF Channel!Send, Known
  <2> QED
    BY <2>3 DEF Channel!Next
<1>3. ASSUME NEW a \in BOOLEAN, Transmit(a) PROVE Same
  BY <1>3 DEF Transmit, Same, Known
<1>4. CASE ReceiveData
  <2>1. UNCHANGED <<pending, Known>> /\ cut' = (cut \/ Taken # rx)
    BY <1>4 DEF ReceiveData, Known
  <2>2. cut \in BOOLEAN
    BY DEF PathInv, PathTypes
  <2>3. UNCHANGED cut \/ cut' = TRUE
    BY <2>1, <2>2
  <2> QED
    BY <2>1, <2>3 DEF Same, Known, Channel!Next, Channel!Break
<1>5. CASE AnalysisByte
  <2>1. CASE /\ pending # <<>> /\ pending' = Tail(pending) /\ UNCHANGED cut
             /\ Known' = [c \in Commands |->
                            IF c = Head(pending)[1] THEN Head(pending) ELSE Known[c]]
    BY <2>1 DEF Channel!Next, Channel!Deliver, Known
  <2>2. CASE /\ cut /\ UNCHANGED cut
             /\ pending' = pending \/ (pending # <<>> /\ pending' = Tail(pending))
             /\ OneEntry(Known, Known')
    BY <2>2 DEF Channel!Next, Channel!Garbled, OneEntry, Known
  <2> QED
    BY <1>5, <2>1, <2>2, AnalysisByteChannel
<1>6. CASE AnalysisStop
  BY <1>6 DEF AnalysisStop, parserVars, Same, Known
<1>7. CASE Apply
  BY <1>7 DEF Apply, Same, Known
<1> QED
  BY <1>1, <1>2, <1>3, <1>4, <1>5, <1>6, <1>7 DEF Next, Master

\* What the remote knows of the plane is what the plane sent, taken in order and each
\* payload once, until receiveQueue refuses bytes: with its packets, queue and parser
\* the receive path implements the channel, for any payloads that fit.
THEOREM ReceiveImplementsChannel == Spec => ImplementsChannel
<1>1. Init => Channel!Init
  BY DEF Init, Channel!Init
<1> QED
  BY <1>1, ChannelStep, PathInvariant, PTL DEF Spec, ImplementsChannel, Channel!Spec
=============================================================================

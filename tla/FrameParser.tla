----------------------------- MODULE FrameParser -----------------------------
(***************************************************************************)
(* AnalysisData of module/receive_packet.c: the state machine, fed one byte *)
(* at a time, that finds the frames                                         *)
(*     0xAA  length high  length low  payload  crc  0xAD                    *)
(* in what the radio received.  Its statics are shared by its two callers,  *)
(* Pair (pair_freq.c) and AnalysisHandle.                                   *)
(*                                                                         *)
(* receiveBuf holds the bytes stored so far, so bufLen is its length.  The  *)
(* code compares dataLen with neither the size of receiveBuf nor that of    *)
(* the caller's receiveData.  A store past either array is undefined        *)
(* behaviour: wild records it, and from then on the model keeps one state,  *)
(* in which the function returns anything.                                  *)
(***************************************************************************)
EXTENDS Integers, Sequences

CONSTANTS
  W,              \* the values of a byte: 256
  Sof, Eof,       \* 0xAA and 0xAD
  BufSize,        \* sizeof(receiveBuf): 128
  OutSize,        \* the bytes of the caller's receiveData: 32, or 20 in Pair
  Crc(_)          \* crc8_maxim of a payload

ASSUME ByteAssumption == W \in Nat /\ W >= 1 /\ Sof \in 0 .. W - 1 /\ Eof \in 0 .. W - 1
\* bufLen, a byte, counts up to the size of receiveBuf.
ASSUME BufferAssumption == BufSize \in 1 .. W - 1 /\ OutSize \in Nat

Byte == 0 .. W - 1

VARIABLES
  analysisState, dataLen, receiveBuf, crc,
  ret,            \* what the last call returned
  receiveData,    \* the payload it copied out
  wild,           \* an array was overrun
  frame           \* history: the bytes since the one that state 0 looked at

parserVars == <<analysisState, dataLen, receiveBuf, crc, ret, receiveData, wild, frame>>

ParserInit ==
  /\ analysisState = 0 /\ dataLen = 0 /\ receiveBuf = <<>> /\ crc = 0
  /\ ret = -1 /\ receiveData = <<>>
  /\ wild = FALSE /\ frame = <<>>

\* The length that two bytes encode.
LengthOf(high, low) == high * W + low

\* A call that accepts nothing goes on to state s.
GoesOn(s, data) ==
  /\ analysisState' = s
  /\ ret' = -1 /\ receiveData' = <<>>
  /\ frame' = Append(frame, data)

-----------------------------------------------------------------------------
\* case 0: skip to the first byte of a frame.
Hunt(data) ==
  /\ analysisState = 0
  /\ analysisState' = IF data = Sof THEN 1 ELSE 0
  /\ ret' = -1 /\ receiveData' = <<>>
  /\ frame' = <<data>>
  /\ UNCHANGED <<dataLen, receiveBuf, crc, wild>>

LengthHigh(data) ==
  /\ analysisState = 1
  /\ dataLen' = LengthOf(data, 0)
  /\ GoesOn(2, data)
  /\ UNCHANGED <<receiveBuf, crc, wild>>

LengthLow(data) ==
  /\ analysisState = 2
  /\ dataLen' = dataLen + data
  /\ GoesOn(3, data)
  /\ UNCHANGED <<receiveBuf, crc, wild>>

\* case 3.  A frame of length 0 has its crc byte taken here and not stored.
Payload(data) ==
  /\ analysisState = 3
  /\ IF Len(receiveBuf) < dataLen /\ Len(receiveBuf) >= BufSize
     THEN /\ wild' = TRUE
          /\ GoesOn(3, data)
          /\ UNCHANGED <<dataLen, receiveBuf, crc>>
     ELSE /\ receiveBuf' = IF Len(receiveBuf) < dataLen
                           THEN Append(receiveBuf, data) ELSE receiveBuf
          /\ GoesOn(IF Len(receiveBuf') = dataLen THEN 4 ELSE 3, data)
          /\ UNCHANGED <<dataLen, crc, wild>>

CheckByte(data) ==
  /\ analysisState = 4
  /\ crc' = data
  /\ GoesOn(5, data)
  /\ UNCHANGED <<dataLen, receiveBuf, wild>>

Accepts(data) == data = Eof /\ crc = Crc(receiveBuf)

\* Mutant of LastByte: the crc is not looked at.
LastByte_NoCrc(data) ==
  /\ analysisState = 5
  /\ analysisState' = 0
  /\ ret' = IF data = Eof THEN 0 ELSE -1
  /\ receiveData' = IF data = Eof THEN receiveBuf ELSE <<>>
  /\ receiveBuf' = <<>>
  /\ frame' = Append(frame, data)
  /\ wild' = (data = Eof /\ Len(receiveBuf) > OutSize)
  /\ UNCHANGED <<dataLen, crc>>

\* Mutant of LastByte: bufLen is reset only after a good frame.
LastByte_KeepsBuffer(data) ==
  /\ analysisState = 5
  /\ analysisState' = 0
  /\ ret' = IF Accepts(data) THEN 0 ELSE -1
  /\ receiveData' = IF Accepts(data) THEN receiveBuf ELSE <<>>
  /\ receiveBuf' = IF Accepts(data) THEN <<>> ELSE receiveBuf
  /\ frame' = Append(frame, data)
  /\ wild' = (Accepts(data) /\ Len(receiveBuf) > OutSize)
  /\ UNCHANGED <<dataLen, crc>>

\* case 5: the frame is copied out if its last byte and its crc are right;
\* either way the search starts again.
LastByte(data) ==
  /\ analysisState = 5
  /\ analysisState' = 0
  /\ ret' = IF Accepts(data) THEN 0 ELSE -1
  /\ receiveData' = IF Accepts(data) THEN receiveBuf ELSE <<>>
  /\ receiveBuf' = <<>>
  /\ frame' = Append(frame, data)
  /\ wild' = (Accepts(data) /\ Len(receiveBuf) > OutSize)
  /\ UNCHANGED <<dataLen, crc>>

\* A call once an array has been overrun.
Undefined ==
  /\ ret' \in {0, -1}
  /\ UNCHANGED <<analysisState, dataLen, receiveBuf, crc, receiveData, wild, frame>>

AnalysisData(data) ==
  \/ wild /\ Undefined
  \/ /\ ~wild
     /\ \/ Hunt(data) \/ LengthHigh(data) \/ LengthLow(data) \/ Payload(data)
        \/ CheckByte(data) \/ LastByte(data)

ParserNext == \E data \in Byte : AnalysisData(data)

ParserSpec == ParserInit /\ [][ParserNext]_parserVars

-----------------------------------------------------------------------------
\* Type correctness, with what each state knows of the buffer.
ParserTypeOK ==
  /\ analysisState \in 0..5
  /\ dataLen \in 0 .. W * W - 1
  /\ receiveBuf \in Seq(Byte) /\ Len(receiveBuf) <= BufSize
  /\ crc \in Byte /\ ret \in {0, -1} /\ receiveData \in Seq(Byte)
  /\ wild \in BOOLEAN /\ frame \in Seq(Byte)
  /\ analysisState \in 0..2 => receiveBuf = <<>>
  /\ analysisState = 3 => Len(receiveBuf) < dataLen \/ receiveBuf = <<>>
  /\ analysisState \in 4..5 => Len(receiveBuf) = dataLen

\* The frame format of StoreToTransmitQueue and SendData.
IsFrame(f) ==
  /\ Len(f) >= 5
  /\ f[1] = Sof /\ f[Len(f)] = Eof
  /\ LengthOf(f[2], f[3]) = Len(f) - 5
  /\ f[Len(f) - 1] = Crc(SubSeq(f, 4, Len(f) - 2))

\* Not a frame: a length of 0 and then one byte too many, which may be anything, before the
\* crc of no bytes.
IsShifted(f) ==
  /\ Len(f) = 6
  /\ f[1] = Sof /\ LengthOf(f[2], f[3]) = 0
  /\ f[5] = Crc(<<>>) /\ f[6] = Eof

\* What makes a call return 0, after whatever noise, torn frames or frames cut short: either
\* it ends a frame with a payload of one byte or more, and copies out that payload; or it
\* ends the six bytes of IsShifted, and copies out nothing (module/receive_packet.c:164-189).
\* A frame that starts where the search resumes is missed only if its payload is empty.
AcceptsExactly ==
  ~wild =>
    /\ ret = 0 <=> (IsFrame(frame) /\ Len(frame) > 5) \/ IsShifted(frame)
    /\ ret = 0 => receiveData = IF IsShifted(frame) THEN <<>>
                                ELSE SubSeq(frame, 4, Len(frame) - 2)

\* module/receive_packet.c:85 says that what returns 0 was parsed correctly: it ends a frame.
\* Violated: after a length of 0 the byte taken for a payload is stored nowhere and checked
\* by nothing (module/receive_packet.c:165).
OnlyFramesAccepted == ~wild /\ ret = 0 => IsFrame(frame)
=============================================================================

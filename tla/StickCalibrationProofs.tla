------------------------ MODULE StickCalibrationProofs ------------------------
(***************************************************************************)
(* Proofs about the calibration of the sticks, for any thresholds in the    *)
(* order the code has them, any postures of the sticks and any sequence of  *)
(* keys, failed writes and cuts of the power.                               *)
(***************************************************************************)
EXTENDS StickCalibration, TLAPS

Words == Values \cup {Erased}

\* The record of one axis, as a completed calibration makes it.
Good(l) == l \in [Fields -> Values] /\ Consistent(l)

\* Its coefficients were not written or divide by something.
Divisible(l) ==
  /\ l.k = Erased \/ (l.k \in Values /\ 0 < l.k)
  /\ l.k2 = Erased \/ (l.k2 \in Values /\ 0 < l.k2)

\* The limit asked for in step s was stored.
Taken(s) ==
  LET v == limits[Steps[s][1]][Steps[s][2]]
  IN v \in Values /\ IF Steps[s][2] = "max" THEN v > High ELSE v < Low

\* No stick and no step changes while the handler sleeps.
HeldInv == task = "held" => Asked(calStep, remote)

\* The steps so far all left their limit.
TakenInv == \A s \in 1..calStep - 1 : Taken(s)

\* After a calibration was left, the handler runs before the user can start another: the way
\* to it takes two keys, and they are read once between two calls of the handler.
LeftInv ==
  calState # "CAL_START" /\ (calStep # LEFT_UP \/ task = "held") =>
    \/ menuPage = "REMOTE" /\ key = "none" /\ task \in {"transform", "keys", "held"}
    \/ task = "handle" /\ (menuPage = "REMOTE" \/ key = "none")

\* A scaled value meets a calibration only if that started since.
ScaledInv ==
  /\ scaled /\ calState = "CAL_START" /\ task \in {"keys", "handle", "held"} => calStep = LEFT_UP
  /\ scaled /\ task = "held" => calStep = LEFT_UP

\* What is written is complete.
WriteInv ==
  task \in {"erase", "program"} =>
    /\ calFlag = "CAL_FLAG_DONE" /\ ~edited /\ calStep = LEFT_UP
    /\ \A a \in Axes : Good(limits[a])

\* What the remote works with, and what it may work with after the next start.
LimitsInv ==
  calFlag = "CAL_FLAG_DONE" =>
    /\ \A a \in Axes : Divisible(limits[a])
    /\ Whole(limits) /\ ~edited => \A a \in Axes : Good(limits[a])
StoredInv ==
  /\ \A a \in Axes : Divisible(stored[a])
  /\ Whole(stored) => \A a \in Axes : Good(stored[a])

\* What flash holds: while it is written, all words before the next one.
Written ==
  /\ header = IF 1 < word THEN 10 ELSE Erased
  /\ flag = IF 2 < word THEN calFlag ELSE Erased
  /\ \A a \in Axes, f \in Fields : stored[a][f] = IF At(a, f) < word THEN limits[a][f] ELSE Erased
Kept ==
  IF header = 10 THEN calFlag = flag /\ limits = stored
  ELSE calFlag = "CAL_FLAG_NONE" /\ limits = AllWords(0)
FlashInv ==
  /\ task = "program" /\ flashStatus = "COMPLETE" => Written
  /\ task \notin {"erase", "program"} /\ flashStatus = "COMPLETE" /\ ~edited => Kept

IInv ==
  TypeOK /\ HeldInv /\ TakenInv /\ LeftInv /\ ScaledInv /\ WriteInv /\ LimitsInv /\ StoredInv
    /\ FlashInv

-----------------------------------------------------------------------------
LEMMA Thresholds ==
  /\ Low \in Nat /\ High \in Nat /\ Half \in Nat /\ Band \in Nat /\ Top \in Nat
  /\ 0 < Low /\ Low + Band <= Half /\ Half + Band <= High /\ High < Top /\ Top < 2 * Half
  /\ Erased \notin Int
BY CalibrationAssumption

LEMMA StepsFacts ==
  /\ \A s \in 1..8 : Steps[s][1] \in Axes /\ Steps[s][2] \in {"max", "min"}
  /\ \A a \in Axes, f \in {"max", "min"} :
       \E s \in 1..8 : Steps[s][1] = a /\ Steps[s][2] = f
<1>1. /\ Steps[1][1] = "throttle" /\ Steps[1][2] = "max"
      /\ Steps[2][1] = "throttle" /\ Steps[2][2] = "min"
      /\ Steps[3][1] = "yaw" /\ Steps[3][2] = "max"
      /\ Steps[4][1] = "yaw" /\ Steps[4][2] = "min"
      /\ Steps[5][1] = "pitch" /\ Steps[5][2] = "min"
      /\ Steps[6][1] = "pitch" /\ Steps[6][2] = "max"
      /\ Steps[7][1] = "roll" /\ Steps[7][2] = "max"
      /\ Steps[8][1] = "roll" /\ Steps[8][2] = "min"
  BY DEF Steps
<1>2. \A s \in 1..8 : s = 1 \/ s = 2 \/ s = 3 \/ s = 4 \/ s = 5 \/ s = 6 \/ s = 7 \/ s = 8
  OBVIOUS
<1>3. \A s \in {1, 2, 3, 4, 5, 6, 7, 8} : s \in 1..8
  OBVIOUS
<1> QED
  BY <1>1, <1>2, <1>3 DEF Axes

LEMMA AtFacts ==
  \A a \in Axes, f \in Fields : At(a, f) \in Nat /\ 2 < At(a, f) /\ At(a, f) <= RecordLen
BY DEF At, Axes, Fields, RecordLen

\* The type invariant in three parts.
RamTypeOK ==
  /\ calState \in {"CAL_NONE", "CAL_START", "CAL_DONE"} /\ calStep \in LEFT_UP..BOTH_MIDDLE
  /\ calFlag \in {"CAL_FLAG_NONE", "CAL_FLAG_DONE", Erased}
  /\ limits \in [Axes -> [Fields -> Values \cup {Erased}]] /\ remote \in [Axes -> Values]
  /\ task \in {"transform", "keys", "handle", "held", "erase", "program"}
ShownTypeOK ==
  /\ key \in {"none", "ok", "cancel"} /\ menuPage \in {"REMOTE", "ARM_CALIBRATE"}
  /\ lastCalState \in {"CAL_NONE", "CAL_START", "CAL_DONE"} /\ display \in {"page", "done"}
FlashTypeOK ==
  /\ header \in {10, Erased} /\ flag \in {"CAL_FLAG_DONE", Erased}
  /\ stored \in [Axes -> [Fields -> Values \cup {Erased}]]
  /\ word \in 1..RecordLen + 1 /\ flashStatus \in {"COMPLETE", "ERROR"}
  /\ scaled \in BOOLEAN /\ edited \in BOOLEAN

LEMMA TypeParts ==
  /\ TypeOK => RamTypeOK /\ ShownTypeOK /\ FlashTypeOK
  /\ RamTypeOK' /\ ShownTypeOK' /\ FlashTypeOK' => TypeOK'
<1>1. TypeOK => RamTypeOK /\ ShownTypeOK /\ FlashTypeOK
  BY Zenon DEF TypeOK, RamTypeOK, ShownTypeOK, FlashTypeOK
<1>2. RamTypeOK' /\ ShownTypeOK' /\ FlashTypeOK' => TypeOK'
  BY Zenon DEF TypeOK, RamTypeOK, ShownTypeOK, FlashTypeOK
<1> QED
  BY <1>1, <1>2

\* Whatever the floats make of it, what is limited is a stick value; it is the quotient or,
\* if that is not a product with 0, it may be one less.
LEMMA TruncatedFacts ==
  ASSUME NEW d \in Int, NEW k \in Nat, 0 < k, NEW base \in Nat,
         NEW q, q = (d * Half + base * k) \div k
  PROVE  /\ q \in Int /\ Limited(Truncated(d, k, base)) \in Values
         /\ Truncated(d, k, base) = (IF q < 0 THEN 0 ELSE q)
              \/ (d # 0 /\ Truncated(d, k, base) = IF q - 1 < 0 THEN 0 ELSE q - 1)
<1> DEFINE n == d * Half + base * k
           s == IF Short(d, k, base) THEN 1 ELSE 0
           t == Truncated(d, k, base)
<1>1. n \in Int
  BY Thresholds
<1>2. q = n \div k
  OBVIOUS
<1>3. s = 0 \/ (s = 1 /\ d # 0)
  BY DEF Short
<1>4. t = IF q - s < 0 THEN 0 ELSE q - s
  BY DEF Truncated
<1> HIDE DEF n, s, t
<1>5. q \in Int
  BY <1>1, <1>2
<1>6. t \in Nat
  BY <1>3, <1>4, <1>5
<1>7. Limited(t) \in Values
  BY <1>6, Thresholds DEF Limited, Values
<1>8. t = (IF q < 0 THEN 0 ELSE q) \/ (d # 0 /\ t = IF q - 1 < 0 THEN 0 ELSE q - 1)
  BY <1>3, <1>4, <1>5
<1> QED
  BY <1>5, <1>7, <1>8 DEF t

LEMMA ProductQuotient ==
  ASSUME NEW k \in Nat, 0 < k, NEW h \in Nat
  PROVE  (k * h) \div k = h /\ (k * h + h * k) \div k = 2 * h /\ 0 <= k * h
OBVIOUS

LEMMA ScaledValue ==
  ASSUME TypeOK, LimitsInv, InUse, NEW a \in Axes, NEW v \in Values, NEW u \in {0, Top}
  PROVE  Scaled(a, v, u) \in Values
<1> DEFINE base == IF v >= Half THEN Half ELSE 0
           k == IF v >= Half THEN limits[a].k ELSE limits[a].k2
           from == IF v >= Half THEN limits[a].middle ELSE limits[a].min
           d == v - from
<1>1. k = Erased \/ (k \in Values /\ 0 < k)
  BY DEF LimitsInv, InUse, Divisible
<1>2. from = Erased \/ from \in Values
  BY DEF TypeOK, Fields
<1>3. base \in Nat /\ v \in Nat /\ u \in Values
  BY Thresholds DEF Values
<1>4. Scaled(a, v, u) = IF k = Erased \/ from = Erased \/ Undefined(d, k, base) THEN u
                        ELSE Limited(Truncated(d, k, base))
  BY DEF Scaled
<1> HIDE DEF base, k, from
<1>5. ASSUME k # Erased, from # Erased PROVE Limited(Truncated(d, k, base)) \in Values
  <2>1. d \in Int /\ k \in Nat /\ 0 < k
    BY <1>1, <1>2, <1>3, <1>5 DEF Values
  <2> QED
    BY <1>3, <2>1, TruncatedFacts
<1> QED
  BY <1>3, <1>4, <1>5

\* The invariant holds at first, ...
LEMMA InitInv ==
  ASSUME Init
  PROVE  IInv
<1>1. TypeOK
  <2>1. scaled \in BOOLEAN /\ edited \in BOOLEAN
    BY DEF Init
  <2>2. /\ remote \in [Axes -> Values]
        /\ limits \in [Axes -> [Fields -> Values \cup {Erased}]]
        /\ stored \in [Axes -> [Fields -> Values \cup {Erased}]]
    <3>1. 0 \in Values
      BY Thresholds DEF Values
    <3> QED
      BY <3>1 DEF Init, AllWords
  <2>3. calStep \in LEFT_UP..BOTH_MIDDLE /\ word \in 1..RecordLen + 1
    BY DEF Init, LEFT_UP, BOTH_MIDDLE, RecordLen
  <2> QED
    BY <2>1, <2>2, <2>3, Zenon DEF TypeOK, Init
<1> USE DEF Init
<1>2. HeldInv /\ TakenInv /\ LeftInv /\ ScaledInv /\ WriteInv /\ LimitsInv
  BY DEF HeldInv, TakenInv, LeftInv, ScaledInv, WriteInv, LimitsInv, LEFT_UP
<1>3. StoredInv
  BY DEF StoredInv, AllWords, Divisible, Fields, Whole, Axes
<1>4. FlashInv
  BY Thresholds DEF FlashInv, Kept
<1> QED
  BY <1>1, <1>2, <1>3, <1>4 DEF IInv

\* ... after a restart, ...
LEMMA RestartInv ==
  ASSUME IInv, Restart
  PROVE  IInv'
<1>1. /\ calState' = "CAL_NONE" /\ calStep' = LEFT_UP /\ task' = "transform" /\ key' = "none"
      /\ menuPage' = "REMOTE" /\ scaled' = FALSE /\ edited' = FALSE /\ flashStatus' = "COMPLETE"
      /\ header' = header /\ flag' = flag /\ stored' = stored /\ word' = 1
  BY DEF Restart
<1>4. /\ calState' \in {"CAL_NONE", "CAL_START", "CAL_DONE"} /\ calStep' \in LEFT_UP..BOTH_MIDDLE
      /\ remote' \in [Axes -> Values]
      /\ task' \in {"transform", "keys", "handle", "held", "erase", "program"}
      /\ key' \in {"none", "ok", "cancel"} /\ menuPage' \in {"REMOTE", "ARM_CALIBRATE"}
      /\ lastCalState' \in {"CAL_NONE", "CAL_START", "CAL_DONE"} /\ display' \in {"page", "done"}
      /\ header' \in {10, Erased} /\ flag' \in {"CAL_FLAG_DONE", Erased}
      /\ stored' \in [Axes -> [Fields -> Values \cup {Erased}]]
      /\ word' \in 1..RecordLen + 1 /\ flashStatus' \in {"COMPLETE", "ERROR"}
      /\ scaled' \in BOOLEAN /\ edited' \in BOOLEAN
  <2>1. calStep' \in LEFT_UP..BOTH_MIDDLE /\ word' \in 1..RecordLen + 1
    BY DEF Restart, LEFT_UP, BOTH_MIDDLE, RecordLen
  <2>2. remote' \in [Axes -> Values]
    BY Thresholds DEF Restart, Values
  <2> QED
    BY <2>1, <2>2, Zenon DEF Restart, IInv, TypeOK
<1>2. CASE header = 10
  <2>1. calFlag' = flag /\ limits' = stored
    BY <1>2 DEF Restart, ReadRecord
  <2>2. TypeOK'
    BY <1>4, <2>1, Zenon DEF IInv, TypeOK
  <2>3. LimitsInv' /\ StoredInv'
    BY <1>1, <2>1 DEF IInv, LimitsInv, StoredInv, Whole
  <2>4. FlashInv'
    BY <1>1, <1>2, <2>1 DEF FlashInv, Kept
  <2> QED
    BY <1>1, <2>2, <2>3, <2>4 DEF IInv, HeldInv, TakenInv, LeftInv, ScaledInv, WriteInv, LEFT_UP
<1>3. CASE header # 10
  <2>1. calFlag' = "CAL_FLAG_NONE" /\ limits' = AllWords(0)
    BY <1>3 DEF Restart, ReadRecord
  <2>2. TypeOK'
    <3>1. limits' \in [Axes -> [Fields -> Values \cup {Erased}]]
      BY <2>1, Thresholds DEF AllWords, Values
    <3> QED
      BY <1>4, <2>1, <3>1, Zenon DEF IInv, TypeOK
  <2>3. LimitsInv' /\ StoredInv'
    BY <1>1, <2>1 DEF IInv, LimitsInv, StoredInv, Whole
  <2>4. FlashInv'
    BY <1>1, <1>3, <2>1 DEF FlashInv, Kept, AllWords
  <2> QED
    BY <1>1, <2>2, <2>3, <2>4 DEF IInv, HeldInv, TakenInv, LeftInv, ScaledInv, WriteInv, LEFT_UP
<1> QED
  BY <1>2, <1>3

\* Steps that keep the struct, the display and the flash to their types.
LEMMA TypeStep ==
  ASSUME TypeOK,
         calState' = calState /\ calFlag' = calFlag /\ limits' = limits /\ remote' = remote,
         UNCHANGED displayVars, header' = header, flag' = flag, stored' = stored,
         scaled' = scaled /\ edited' = edited,
         flashStatus' \in {"COMPLETE", "ERROR"}, word' \in 1..RecordLen + 1,
         calStep' \in LEFT_UP..BOTH_MIDDLE,
         task' \in {"transform", "keys", "handle", "held", "erase", "program"}
  PROVE  TypeOK'
<1>1. key' = key /\ menuPage' = menuPage /\ lastCalState' = lastCalState /\ display' = display
  BY DEF displayVars
<1>2. /\ calState' \in {"CAL_NONE", "CAL_START", "CAL_DONE"}
      /\ calFlag' \in {"CAL_FLAG_NONE", "CAL_FLAG_DONE", Erased}
      /\ limits' \in [Axes -> [Fields -> Values \cup {Erased}]] /\ remote' \in [Axes -> Values]
      /\ key' \in {"none", "ok", "cancel"} /\ menuPage' \in {"REMOTE", "ARM_CALIBRATE"}
  BY <1>1, Zenon DEF TypeOK
<1>3. /\ lastCalState' \in {"CAL_NONE", "CAL_START", "CAL_DONE"} /\ display' \in {"page", "done"}
      /\ header' \in {10, Erased} /\ flag' \in {"CAL_FLAG_DONE", Erased}
      /\ stored' \in [Axes -> [Fields -> Values \cup {Erased}]]
      /\ scaled' \in BOOLEAN /\ edited' \in BOOLEAN
  BY <1>1, Zenon DEF TypeOK
<1> QED
  BY <1>2, <1>3, Zenon DEF TypeOK

\* ... and after every step: first those that leave the record alone.
LEMMA RecordAlone ==
  ASSUME IInv, UNCHANGED <<calFlag, limits, flashVars, edited>>,
         task' = task \/ (task \notin {"erase", "program"} /\ task' \notin {"erase", "program"}),
         task' \notin {"erase", "program"} \/ calStep' = calStep
  PROVE  WriteInv' /\ LimitsInv' /\ StoredInv' /\ FlashInv'
<1>1. /\ calFlag' = calFlag /\ limits' = limits /\ header' = header /\ flag' = flag
      /\ stored' = stored /\ word' = word /\ flashStatus' = flashStatus /\ edited' = edited
  BY DEF flashVars
<1>2. WriteInv' /\ LimitsInv' /\ StoredInv'
  BY <1>1 DEF IInv, WriteInv, LimitsInv, StoredInv, Whole
<1>3. FlashInv'
  BY <1>1 DEF IInv, FlashInv, Written, Kept
<1> QED
  BY <1>2, <1>3

LEMMA TransformStep ==
  ASSUME IInv, Transform
  PROVE  IInv'
<1>1. task = "transform" /\ task' = "keys" /\ scaled' = InUse /\ calState' = calState
      /\ calStep' = calStep /\ UNCHANGED <<calFlag, limits, flashVars, edited, displayVars>>
  BY DEF Transform, calVars
<1>2. remote' \in [Axes -> Values]
  <2>1. PICK raw \in Postures, u \in {0, Top} :
          remote' = IF InUse THEN [a \in Axes |-> Scaled(a, raw[a], u)] ELSE raw
    BY DEF Transform
  <2>2. raw \in [Axes -> Values]
    BY CalibrationAssumption DEF Values
  <2>3. InUse => \A a \in Axes : Scaled(a, raw[a], u) \in Values
    BY <2>2, ScaledValue DEF IInv
  <2> QED
    BY <2>1, <2>2, <2>3
<1>3. TypeOK'
  <2>1. scaled' \in BOOLEAN
    BY <1>1 DEF InUse
  <2>2. RamTypeOK /\ ShownTypeOK /\ FlashTypeOK
    BY TypeParts DEF IInv
  <2>3. RamTypeOK'
    BY <1>2, <2>2, Zenon DEF RamTypeOK, Transform, calVars
  <2>4. ShownTypeOK'
    BY <2>2, Zenon DEF ShownTypeOK, Transform, displayVars
  <2>5. FlashTypeOK'
    BY <2>1, <2>2, Zenon DEF FlashTypeOK, Transform, flashVars
  <2> QED
    BY <2>3, <2>4, <2>5, TypeParts
<1>4. HeldInv' /\ TakenInv'
  BY <1>1 DEF IInv, HeldInv, TakenInv, Taken
<1>5. LeftInv' /\ ScaledInv'
  BY <1>1 DEF IInv, LeftInv, ScaledInv, InUse, displayVars
<1>6. WriteInv' /\ LimitsInv' /\ StoredInv' /\ FlashInv'
  BY <1>1, RecordAlone
<1> QED
  BY <1>3, <1>4, <1>5, <1>6 DEF IInv

LEMMA KeyHandleStep ==
  ASSUME IInv, KeyHandle
  PROVE  IInv'
<1>1. task = "keys" /\ task' = "handle" /\ calState' = calState /\ calStep' = calStep
      /\ menuPage' = menuPage /\ scaled' = scaled
      /\ UNCHANGED <<calFlag, limits, flashVars, edited>>
  BY DEF KeyHandle, calVars
<1>2. TypeOK'
  <2>1. key' \in {"none", "ok", "cancel"}
    BY DEF IInv, TypeOK, KeyHandle
  <2>2. RamTypeOK /\ ShownTypeOK /\ FlashTypeOK
    BY TypeParts DEF IInv
  <2>3. RamTypeOK'
    BY <2>2, Zenon DEF RamTypeOK, KeyHandle, calVars
  <2>4. ShownTypeOK'
    BY <2>1, <2>2, Zenon DEF ShownTypeOK, KeyHandle, displayVars
  <2>5. FlashTypeOK'
    BY <2>2, Zenon DEF FlashTypeOK, KeyHandle, flashVars
  <2> QED
    BY <2>3, <2>4, <2>5, TypeParts
<1>3. HeldInv' /\ TakenInv'
  BY <1>1 DEF IInv, HeldInv, TakenInv, Taken
<1>4. LeftInv' /\ ScaledInv'
  BY <1>1 DEF IInv, LeftInv, ScaledInv
<1>5. WriteInv' /\ LimitsInv' /\ StoredInv' /\ FlashInv'
  BY <1>1, RecordAlone
<1> QED
  BY <1>2, <1>3, <1>4, <1>5 DEF IInv

\* The handler, when it stores nothing.
LEMMA HandleStep ==
  ASSUME IInv, NotStarted \/ FirstReading
  PROVE  IInv'
<1>1. /\ task \in {"handle", "held"} /\ task' \in {"transform", "held"}
      /\ calState' = calState /\ (calStep' = calStep \/ calStep' = LEFT_UP) /\ remote' = remote
      /\ menuPage' = menuPage /\ key' = key /\ scaled' = scaled
      /\ UNCHANGED <<calFlag, limits, flashVars, edited, displayVars>>
  BY DEF NotStarted, FirstReading, calVars, displayVars
<1>2. TypeOK'
  <2>1. LEFT_UP \in LEFT_UP..BOTH_MIDDLE
    BY DEF LEFT_UP, BOTH_MIDDLE
  <2>2. calStep' \in LEFT_UP..BOTH_MIDDLE
    BY <1>1, <2>1 DEF IInv, TypeOK
  <2>3. task' \in {"transform", "keys", "handle", "held", "erase", "program"}
    BY <1>1
  <2>4. TypeOK /\ word' \in 1..RecordLen + 1 /\ flashStatus' \in {"COMPLETE", "ERROR"}
    BY <1>1 DEF IInv, TypeOK, flashVars
  <2>5. header' = header /\ flag' = flag /\ stored' = stored /\ UNCHANGED displayVars
    BY <1>1 DEF flashVars
  <2> QED
    BY <1>1, <2>2, <2>3, <2>4, <2>5, TypeStep
<1>3. HeldInv'
  BY <1>1 DEF HeldInv, Asked, Near, NotStarted, FirstReading, calVars
<1>4. TakenInv'
  BY <1>1 DEF IInv, TakenInv, Taken, LEFT_UP
<1>5. LeftInv'
  BY DEF IInv, LeftInv, NotStarted, FirstReading, calVars, displayVars
<1>6. ScaledInv'
  BY DEF IInv, ScaledInv, NotStarted, FirstReading, calVars
<1>7. WriteInv' /\ LimitsInv' /\ StoredInv' /\ FlashInv'
  BY <1>1, RecordAlone
<1> QED
  BY <1>2, <1>3, <1>4, <1>5, <1>6, <1>7 DEF IInv

LEMMA DisplayStep ==
  ASSUME IInv, Display
  PROVE  IInv'
<1>1. /\ task' = task /\ calStep' = calStep /\ remote' = remote /\ scaled' = scaled
      /\ UNCHANGED <<calFlag, limits, flashVars, edited>>
  BY DEF Display, OtherPage, CalibrationCancelled, CalibrationStarted, CalibrationShown,
         DoneShown, calVars
<1>2. TypeOK'
  <2>1. /\ calState' \in {"CAL_NONE", "CAL_START", "CAL_DONE"} /\ key' \in {"none", "ok", "cancel"}
        /\ menuPage' \in {"REMOTE", "ARM_CALIBRATE"} /\ display' \in {"page", "done"}
        /\ lastCalState' \in {"CAL_NONE", "CAL_START", "CAL_DONE"}
    BY DEF IInv, TypeOK, Display, OtherPage, CalibrationCancelled, CalibrationStarted,
           CalibrationShown, DoneShown, calVars
  <2> QED
    BY <1>1, <2>1, Zenon DEF IInv, TypeOK, flashVars
<1>3. HeldInv' /\ TakenInv'
  BY <1>1 DEF IInv, HeldInv, TakenInv, Taken, Asked, Near
<1>4. LeftInv'
  <2>1. CASE OtherPage
    BY <2>1 DEF IInv, LeftInv, OtherPage, calVars
  <2>2. CASE CalibrationCancelled
    BY <2>2 DEF IInv, TypeOK, LeftInv, WriteInv, CalibrationCancelled
  <2>3. CASE CalibrationStarted \/ CalibrationShown \/ DoneShown
    BY <2>3 DEF IInv, LeftInv, CalibrationStarted, CalibrationShown, DoneShown, calVars
  <2> QED
    BY <2>1, <2>2, <2>3 DEF Display
<1>5. ScaledInv'
  <2>1. CASE CalibrationStarted
    BY <2>1 DEF IInv, LeftInv, ScaledInv, CalibrationStarted
  <2>2. CASE ~CalibrationStarted
    BY <1>1, <2>2 DEF IInv, ScaledInv, Display, OtherPage, CalibrationCancelled,
                      CalibrationShown, DoneShown, calVars
  <2> QED
    BY <2>1, <2>2
<1>6. WriteInv' /\ LimitsInv' /\ StoredInv' /\ FlashInv'
  BY <1>1, RecordAlone
<1> QED
  BY <1>2, <1>3, <1>4, <1>5, <1>6 DEF IInv

\* A limit is stored: it is the one asked for, and no coefficient changes.
LEMMA LimitHeldStep ==
  ASSUME IInv, LimitHeld
  PROVE  IInv'
<1> DEFINE a == Steps[calStep][1]
           f == Steps[calStep][2]
           m == limits
<1>1. /\ task = "held" /\ task' = "transform" /\ calState' = calState /\ calFlag' = calFlag
      /\ remote' = remote /\ menuPage' = menuPage /\ key' = key /\ edited' = TRUE
      /\ stored' = stored /\ calStep' = calStep + 1 /\ Asked(calStep, remote)
      /\ limits' = [m EXCEPT ![a] = [@ EXCEPT ![f] = remote[a]]]
  BY DEF LimitHeld, displayVars, flashVars
<1>2. calStep \in 1..8 /\ a \in Axes /\ f \in {"max", "min"}
  <2>1. calStep \in 1..8
    BY DEF IInv, TypeOK, LimitHeld, LEFT_UP, BOTH_MIDDLE
  <2> QED
    BY <2>1, StepsFacts
<1>3. remote[a] \in Values /\ limits \in [Axes -> [Fields -> Words]]
  BY <1>2 DEF IInv, TypeOK, Words
<1>4. IF f = "max" THEN remote[a] > High ELSE remote[a] < Low
  BY <1>1, <1>2 DEF Asked, BOTH_MIDDLE
<1> HIDE DEF a, f, m
<1>5. /\ limits' \in [Axes -> [Fields -> Words]]
      /\ \A b \in Axes, g \in Fields :
           limits'[b][g] = IF b = a /\ g = f THEN remote[a] ELSE limits[b][g]
  BY <1>1, <1>2, <1>3 DEF m, Fields, Words
<1>6. TypeOK'
  <2>1. calStep' \in LEFT_UP..BOTH_MIDDLE /\ limits' \in [Axes -> [Fields -> Values \cup {Erased}]]
    BY <1>1, <1>2, <1>5 DEF LEFT_UP, BOTH_MIDDLE, Words
  <2>2. edited' \in BOOLEAN
    BY <1>1
  <2>3. RamTypeOK /\ ShownTypeOK /\ FlashTypeOK
    BY TypeParts DEF IInv
  <2>4. RamTypeOK'
    BY <2>1, <2>3, Zenon DEF RamTypeOK, LimitHeld, calVars
  <2>5. ShownTypeOK'
    BY <2>3, Zenon DEF ShownTypeOK, LimitHeld, displayVars
  <2>6. FlashTypeOK'
    BY <2>2, <2>3, Zenon DEF FlashTypeOK, LimitHeld, flashVars
  <2> QED
    BY <2>4, <2>5, <2>6, TypeParts
<1>7. TakenInv'
  <2> SUFFICES ASSUME NEW s \in 1..calStep PROVE Taken(s)'
    BY <1>1, <1>2 DEF TakenInv
  <2> DEFINE b == Steps[s][1]
             g == Steps[s][2]
  <2>1. b \in Axes /\ g \in {"max", "min"} /\ g \in Fields
    BY <1>2, StepsFacts DEF Fields
  <2>2. CASE b = a /\ g = f
    BY <1>3, <1>4, <1>5, <2>1, <2>2 DEF Taken
  <2>3. CASE ~(b = a /\ g = f)
    <3>1. s \in 1..calStep - 1
      BY <1>2, <2>3 DEF a, f
    <3>2. Taken(s)
      BY <3>1 DEF IInv, TakenInv
    <3>3. limits'[b][g] = limits[b][g]
      BY <1>5, <2>1, <2>3
    <3> QED
      BY <3>2, <3>3 DEF Taken
  <2> QED
    BY <2>2, <2>3
<1>8. HeldInv' /\ LeftInv' /\ ScaledInv' /\ WriteInv'
  BY <1>1 DEF IInv, HeldInv, LeftInv, ScaledInv, WriteInv
<1>9. LimitsInv'
  <2>1. \A b \in Axes : limits'[b].k = limits[b].k /\ limits'[b].k2 = limits[b].k2
    BY <1>2, <1>5 DEF Fields
  <2> QED
    BY <1>1, <2>1 DEF IInv, LimitsInv, Divisible
<1>10. StoredInv' /\ FlashInv'
  BY <1>1 DEF IInv, StoredInv, FlashInv, Whole
<1> QED
  BY <1>6, <1>7, <1>8, <1>9, <1>10 DEF IInv

\* All limits were stored, and each is on its side of the middle.
LEMMA CompleteGood ==
  ASSUME NEW l \in [Fields -> Words], NEW m \in Values, Near(m),
         l.max \in Values, l.max > High, l.min \in Values, l.min < Low
  PROVE  Good(Complete(l, m)) /\ Divisible(Complete(l, m))
<1> DEFINE c == Complete(l, m)
<1>1. /\ c = [f \in Fields |-> c[f]] /\ c.max = l.max /\ c.min = l.min /\ c.middle = m
      /\ c.k = l.max - m /\ c.k2 = m - l.min
  <2> DEFINE k == l.max - m
             k2 == m - l.min
  <2> HIDE DEF k, k2
  <2>1. c = [l EXCEPT !.middle = m, !.k = k, !.k2 = k2]
    BY DEF Complete, k, k2
  <2> HIDE DEF c
  <2>2. /\ c = [f \in Fields |-> c[f]] /\ c.max = l.max /\ c.min = l.min /\ c.middle = m
        /\ c.k = k /\ c.k2 = k2
    BY <2>1 DEF Fields
  <2> QED
    BY <2>2 DEF k, k2
<1>2. /\ l.max - m \in Values /\ 0 < l.max - m
      /\ m - l.min \in Values /\ 0 < m - l.min
  BY Thresholds DEF Near, Values
<1> HIDE DEF c
<1>3. \A f \in Fields : c[f] \in Values
  BY <1>1, <1>2 DEF Fields
<1>4. Good(c)
  BY <1>1, <1>3 DEF Good, Consistent
<1> QED
  BY <1>1, <1>2, <1>4 DEF Divisible, c

LEMMA MiddleHeldStep ==
  ASSUME IInv, MiddleHeld
  PROVE  IInv'
<1>1. /\ calStep = BOTH_MIDDLE /\ task' = "erase" /\ calState' = "CAL_DONE"
      /\ calFlag' = "CAL_FLAG_DONE" /\ calStep' = LEFT_UP /\ edited' = FALSE /\ stored' = stored
      /\ remote' = remote /\ scaled' = scaled
      /\ limits' = [a \in Axes |-> Complete(limits[a], remote[a])]
  BY DEF MiddleHeld, flashVars
<1>2. ASSUME NEW a \in Axes PROVE Good(limits'[a]) /\ Divisible(limits'[a])
  <2>1. limits[a] \in [Fields -> Words] /\ remote[a] \in Values
    BY DEF IInv, TypeOK, Words
  <2>2. Near(remote[a])
    BY <1>1 DEF MiddleHeld, Asked
  <2>3. \A s \in 1..8 : Taken(s)
    BY <1>1 DEF IInv, TakenInv, BOTH_MIDDLE
  <2>4. limits[a].max \in Values /\ limits[a].max > High
    <3>1. PICK s \in 1..8 : Steps[s][1] = a /\ Steps[s][2] = "max"
      BY StepsFacts
    <3> QED
      BY <2>3, <3>1 DEF Taken
  <2>5. limits[a].min \in Values /\ limits[a].min < Low
    <3>1. PICK s \in 1..8 : Steps[s][1] = a /\ Steps[s][2] = "min"
      BY StepsFacts
    <3> QED
      BY <2>3, <3>1 DEF Taken
  <2>6. limits'[a] = Complete(limits[a], remote[a])
    BY <1>1
  <2> QED
    BY <2>1, <2>2, <2>4, <2>5, <2>6, CompleteGood
<1>3. TypeOK'
  <2>1. limits' \in [Axes -> [Fields -> Values \cup {Erased}]]
    <3>1. \A a \in Axes : limits'[a] \in [Fields -> Values \cup {Erased}]
      BY <1>2 DEF Good
    <3>2. limits' = [a \in Axes |-> limits'[a]]
      BY <1>1
    <3> QED
      BY <3>1, <3>2
  <2>2. calStep' \in LEFT_UP..BOTH_MIDDLE
    BY <1>1 DEF LEFT_UP, BOTH_MIDDLE
  <2>3. edited' \in BOOLEAN
    BY DEF MiddleHeld
  <2>4. RamTypeOK /\ ShownTypeOK /\ FlashTypeOK
    BY TypeParts DEF IInv
  <2>5. RamTypeOK'
    BY <2>1, <2>2, <2>4, Zenon DEF RamTypeOK, MiddleHeld, calVars
  <2>6. ShownTypeOK'
    BY <2>4, Zenon DEF ShownTypeOK, MiddleHeld, displayVars
  <2>7. FlashTypeOK'
    BY <2>3, <2>4, Zenon DEF FlashTypeOK, MiddleHeld, flashVars
  <2> QED
    BY <2>5, <2>6, <2>7, TypeParts
<1>4. HeldInv' /\ TakenInv' /\ LeftInv' /\ ScaledInv'
  BY <1>1 DEF HeldInv, TakenInv, LeftInv, ScaledInv, LEFT_UP
<1>5. WriteInv' /\ LimitsInv'
  BY <1>1, <1>2 DEF WriteInv, LimitsInv
<1>6. StoredInv' /\ FlashInv'
  BY <1>1 DEF IInv, StoredInv, FlashInv, Whole
<1> QED
  BY <1>3, <1>4, <1>5, <1>6 DEF IInv

LEMMA ErasedInv ==
  ASSUME stored' = AllWords(Erased)
  PROVE  StoredInv'
<1>1. \A a \in Axes, f \in Fields : stored'[a][f] = Erased
  BY DEF AllWords
<1>2. \A a \in Axes : stored'[a].k = Erased /\ stored'[a].k2 = Erased
  BY <1>1 DEF Fields
<1>3. ~Whole(stored)'
  BY <1>1 DEF Whole, Axes, Fields
<1> QED
  BY <1>2, <1>3 DEF StoredInv, Divisible

LEMMA ErasePageStep ==
  ASSUME IInv, ErasePage
  PROVE  IInv'
<1>1. /\ task = "erase" /\ task' = "program" /\ calState' = calState /\ calStep' = calStep
      /\ calFlag' = calFlag /\ limits' = limits /\ remote' = remote /\ scaled' = scaled
      /\ edited' = edited /\ word' = 1
  BY DEF ErasePage, calVars
<1>2. \/ header' = Erased /\ flag' = Erased /\ stored' = AllWords(Erased)
      \/ flashStatus' = "ERROR" /\ header' = header /\ flag' = flag /\ stored' = stored
  BY DEF ErasePage
<1>3. TypeOK'
  <2>1. /\ header' \in {10, Erased} /\ flag' \in {"CAL_FLAG_DONE", Erased}
        /\ stored' \in [Axes -> [Fields -> Values \cup {Erased}]]
    BY <1>2 DEF IInv, TypeOK, AllWords
  <2>2. word' \in 1..RecordLen + 1
    BY <1>1 DEF RecordLen
  <2>3. flashStatus' \in {"COMPLETE", "ERROR"}
    BY DEF ErasePage
  <2>4. RamTypeOK /\ ShownTypeOK /\ FlashTypeOK
    BY TypeParts DEF IInv
  <2>5. RamTypeOK'
    BY <2>4, Zenon DEF RamTypeOK, ErasePage, calVars
  <2>6. ShownTypeOK'
    BY <2>4, Zenon DEF ShownTypeOK, ErasePage, displayVars
  <2>7. FlashTypeOK'
    BY <2>1, <2>2, <2>3, <2>4, Zenon DEF FlashTypeOK, ErasePage, flashVars
  <2> QED
    BY <2>5, <2>6, <2>7, TypeParts
<1>4. HeldInv' /\ TakenInv' /\ LeftInv' /\ ScaledInv'
  BY <1>1 DEF IInv, WriteInv, HeldInv, TakenInv, LeftInv, ScaledInv, LEFT_UP
<1>5. WriteInv' /\ LimitsInv'
  BY <1>1 DEF IInv, WriteInv, LimitsInv, Whole
<1>6. StoredInv'
  BY <1>2, ErasedInv DEF IInv, StoredInv, Whole
<1>7. FlashInv'
  <2>1. CASE header' = Erased /\ flag' = Erased /\ stored' = AllWords(Erased)
    <3>1. \A a \in Axes, f \in Fields : ~(At(a, f) < 1)
      BY AtFacts
    <3>2. Written'
      BY <1>1, <2>1, <3>1 DEF Written, AllWords
    <3> QED
      BY <1>1, <3>2 DEF FlashInv
  <2>2. CASE flashStatus' = "ERROR"
    BY <1>1, <2>2 DEF FlashInv
  <2> QED
    BY <1>2, <2>1, <2>2
<1> QED
  BY <1>3, <1>4, <1>5, <1>6, <1>7 DEF IInv

LEMMA ProgramWordStep ==
  ASSUME IInv, ProgramWord
  PROVE  IInv'
<1> DEFINE w == word
           l == limits
           old == stored
<1>1. /\ task = "program" /\ task' = "program" /\ calState' = calState /\ calStep' = calStep
      /\ calFlag' = calFlag /\ limits' = limits /\ remote' = remote /\ scaled' = scaled
      /\ edited' = edited /\ word' = word + 1 /\ word \in 1..RecordLen /\ flashStatus = "COMPLETE"
  BY DEF ProgramWord, calVars, IInv, TypeOK, RecordLen
<1>2. \/ flashStatus' = "ERROR" /\ header' = header /\ flag' = flag /\ stored' = stored
      \/ /\ header' = IF word = 1 THEN 10 ELSE header
         /\ flag' = IF word = 2 THEN calFlag ELSE flag
         /\ stored' = [a \in Axes |-> [f \in Fields |->
                         IF At(a, f) = w THEN l[a][f] ELSE old[a][f]]]
  BY DEF ProgramWord
<1>3. calFlag = "CAL_FLAG_DONE" /\ \A a \in Axes : Good(limits[a])
  BY <1>1 DEF IInv, WriteInv
<1>4. Written
  BY <1>1 DEF IInv, FlashInv
<1>5. \A a \in Axes, f \in Fields : limits[a][f] \in Values /\ limits[a] \in [Fields -> Values]
  BY <1>3 DEF Good
<1> HIDE DEF w, l, old
<1>6. CASE flashStatus' = "ERROR" /\ header' = header /\ flag' = flag /\ stored' = stored
  <2>1. TypeOK'
    <3>1. word' \in 1..RecordLen + 1
      BY <1>1 DEF RecordLen
    <3>2. /\ header' \in {10, Erased} /\ flag' \in {"CAL_FLAG_DONE", Erased}
          /\ stored' \in [Axes -> [Fields -> Values \cup {Erased}]]
          /\ flashStatus' \in {"COMPLETE", "ERROR"}
      BY <1>6 DEF IInv, TypeOK
    <3> QED
      BY <3>1, <3>2, Zenon DEF IInv, TypeOK, ProgramWord, calVars, displayVars
  <2>2. HeldInv' /\ TakenInv' /\ LeftInv' /\ ScaledInv' /\ WriteInv' /\ LimitsInv'
    BY <1>1 DEF IInv, HeldInv, TakenInv, LeftInv, ScaledInv, WriteInv, LimitsInv, Whole, LEFT_UP
  <2>3. StoredInv' /\ FlashInv'
    BY <1>1, <1>6 DEF IInv, StoredInv, FlashInv, Whole
  <2> QED
    BY <2>1, <2>2, <2>3 DEF IInv
<1>7. CASE /\ header' = IF word = 1 THEN 10 ELSE header
           /\ flag' = IF word = 2 THEN calFlag ELSE flag
           /\ stored' = [a \in Axes |-> [f \in Fields |->
                           IF At(a, f) = w THEN l[a][f] ELSE old[a][f]]]
  <2>1. \A a \in Axes, f \in Fields :
          stored'[a][f] = IF At(a, f) = word THEN limits[a][f] ELSE stored[a][f]
    BY <1>7 DEF w, l, old
  <2>2. \A a \in Axes, f \in Fields :
          stored'[a][f] = IF At(a, f) < word + 1 THEN limits[a][f] ELSE Erased
    <3> SUFFICES ASSUME NEW a \in Axes, NEW f \in Fields
                 PROVE  stored'[a][f] = IF At(a, f) < word + 1 THEN limits[a][f] ELSE Erased
      OBVIOUS
    <3>1. At(a, f) \in Nat /\ word \in Nat
      BY <1>1, AtFacts
    <3>2. stored[a][f] = IF At(a, f) < word THEN limits[a][f] ELSE Erased
      BY <1>4 DEF Written
    <3>3. At(a, f) < word + 1 <=> At(a, f) = word \/ At(a, f) < word
      BY <3>1
    <3>4. At(a, f) = word => ~(At(a, f) < word)
      BY <3>1
    <3> QED
      BY <2>1, <3>2, <3>3, <3>4
  <2>3. Written'
    <3>0. /\ 1 < word' /\ (word # 1 => 1 < word)
          /\ (2 < word' <=> word = 2 \/ 2 < word)
      BY <1>1 DEF RecordLen
    <3>1. header' = IF 1 < word' THEN 10 ELSE Erased
      BY <1>4, <1>7, <3>0 DEF Written
    <3>2. flag' = IF 2 < word' THEN calFlag' ELSE Erased
      BY <1>1, <1>4, <1>7, <3>0 DEF Written
    <3> QED
      BY <1>1, <2>2, <3>1, <3>2 DEF Written
  <2>4. \A a \in Axes, f \in Fields : stored'[a][f] \in {limits[a][f], Erased}
    BY <2>2
  <2>5. TypeOK'
    <3>1. word' \in 1..RecordLen + 1
      BY <1>1 DEF RecordLen
    <3>2. header' \in {10, Erased} /\ flag' \in {"CAL_FLAG_DONE", Erased}
      BY <1>3, <1>7 DEF IInv, TypeOK
    <3>3. stored' \in [Axes -> [Fields -> Values \cup {Erased}]]
      BY <1>5, <1>7, <2>4
    <3>4. flashStatus' \in {"COMPLETE", "ERROR"}
      BY DEF ProgramWord
    <3> QED
      BY <3>1, <3>2, <3>3, <3>4, Zenon DEF IInv, TypeOK, ProgramWord, calVars, displayVars
  <2>6. HeldInv' /\ TakenInv' /\ LeftInv' /\ ScaledInv' /\ WriteInv' /\ LimitsInv'
    BY <1>1 DEF IInv, HeldInv, TakenInv, LeftInv, ScaledInv, WriteInv, LimitsInv, Whole, LEFT_UP
  <2>7. StoredInv'
    <3>1. ASSUME NEW a \in Axes PROVE Divisible(stored'[a])
      <4>1. Divisible(limits[a])
        BY <1>3 DEF IInv, LimitsInv
      <4>2. stored'[a].k \in {limits[a].k, Erased} /\ stored'[a].k2 \in {limits[a].k2, Erased}
        BY <2>4 DEF Fields
      <4> QED
        BY <4>1, <4>2 DEF Divisible
    <3>2. ASSUME Whole(stored)', NEW a \in Axes PROVE Good(stored'[a])
      <4>1. \A f \in Fields : stored'[a][f] = limits[a][f]
        BY <2>4, <3>2 DEF Whole
      <4>2. stored'[a] = [f \in Fields |-> stored'[a][f]]
        BY <1>7
      <4>3. limits[a] = [f \in Fields |-> limits[a][f]]
        BY <1>5 DEF Fields
      <4>4. stored'[a] = limits[a]
        BY <4>1, <4>2, <4>3
      <4> QED
        BY <1>3, <4>4
    <3> QED
      BY <3>1, <3>2 DEF StoredInv
  <2>8. FlashInv'
    BY <1>1, <2>3 DEF FlashInv
  <2> QED
    BY <2>5, <2>6, <2>7, <2>8 DEF IInv
<1> QED
  BY <1>2, <1>6, <1>7

LEMMA WriteEndsStep ==
  ASSUME IInv, WriteEnds
  PROVE  IInv'
<1>1. /\ task = "program" /\ task' = "transform" /\ calState' = calState /\ calStep' = calStep
      /\ calFlag' = calFlag /\ limits' = limits /\ remote' = remote /\ scaled' = scaled
      /\ edited' = edited /\ word' = 1 /\ flashStatus' = flashStatus
      /\ header' = header /\ flag' = flag /\ stored' = stored
      /\ word > RecordLen \/ flashStatus # "COMPLETE"
  BY DEF WriteEnds, calVars
<1>2. TypeOK'
  <2>1. word' \in 1..RecordLen + 1
    BY <1>1 DEF RecordLen
  <2>2. /\ TypeOK /\ flashStatus' \in {"COMPLETE", "ERROR"} /\ calStep' \in LEFT_UP..BOTH_MIDDLE
        /\ UNCHANGED displayVars
    BY <1>1 DEF IInv, TypeOK, WriteEnds
  <2> QED
    BY <1>1, <2>1, <2>2, TypeStep
<1>3. HeldInv' /\ TakenInv' /\ LeftInv' /\ ScaledInv' /\ WriteInv' /\ LimitsInv' /\ StoredInv'
  BY <1>1 DEF IInv, HeldInv, TakenInv, LeftInv, ScaledInv, WriteInv, LimitsInv, StoredInv, Whole,
              LEFT_UP
<1>4. FlashInv'
  <2>1. CASE flashStatus = "COMPLETE"
    <3>1. Written /\ word \in Nat /\ word > RecordLen
      BY <1>1, <2>1 DEF IInv, FlashInv, TypeOK, RecordLen
    <3>2. header = 10 /\ flag = calFlag
      BY <3>1 DEF Written, RecordLen
    <3>3. \A a \in Axes, f \in Fields : stored[a][f] = limits[a][f]
      <4>1. \A a \in Axes, f \in Fields : At(a, f) < word
        BY <3>1, AtFacts DEF RecordLen
      <4> QED
        BY <3>1, <4>1 DEF Written
    <3>4. stored \in [Axes -> [Fields -> Words]] /\ limits \in [Axes -> [Fields -> Words]]
      BY DEF IInv, TypeOK, Words
    <3>5. \A a \in Axes : stored[a] = limits[a]
      BY <3>3, <3>4
    <3>6. stored = limits
      BY <3>4, <3>5
    <3> QED
      BY <1>1, <3>2, <3>6 DEF FlashInv, Kept
  <2>2. CASE flashStatus # "COMPLETE"
    BY <1>1, <2>2 DEF FlashInv
  <2> QED
    BY <2>1, <2>2
<1> QED
  BY <1>2, <1>3, <1>4 DEF IInv

LEMMA StepInv == IInv /\ [Next]_vars => IInv'
<1> SUFFICES ASSUME IInv, [Next]_vars PROVE IInv'
  OBVIOUS
<1>1. CASE SecondTask
  BY <1>1, TransformStep, KeyHandleStep, HandleStep, LimitHeldStep, MiddleHeldStep, ErasePageStep,
     ProgramWordStep, WriteEndsStep DEF SecondTask
<1>2. CASE Display
  BY <1>2, DisplayStep
<1>3. CASE Restart
  BY <1>3, RestartInv
<1>4. CASE UNCHANGED vars
  <2>1. /\ UNCHANGED <<calVars, remote, task, displayVars, flashVars, scaled, edited>>
    BY <1>4 DEF vars
  <2>2. /\ calState' = calState /\ calStep' = calStep /\ calFlag' = calFlag /\ limits' = limits
        /\ remote' = remote /\ task' = task /\ key' = key /\ menuPage' = menuPage
        /\ scaled' = scaled /\ edited' = edited
    BY <2>1 DEF calVars, displayVars
  <2>3. TypeOK'
    <3>1. /\ TypeOK /\ word' \in 1..RecordLen + 1 /\ flashStatus' \in {"COMPLETE", "ERROR"}
          /\ header' = header /\ flag' = flag /\ stored' = stored /\ UNCHANGED displayVars
          /\ calStep' \in LEFT_UP..BOTH_MIDDLE
          /\ task' \in {"transform", "keys", "handle", "held", "erase", "program"}
      BY <2>1, <2>2 DEF IInv, TypeOK, flashVars
    <3> QED
      BY <2>2, <3>1, TypeStep
  <2>4. HeldInv' /\ TakenInv' /\ LeftInv' /\ ScaledInv'
    BY <2>2 DEF IInv, HeldInv, TakenInv, Taken, LeftInv, ScaledInv, Asked, Near
  <2>5. WriteInv' /\ LimitsInv' /\ StoredInv' /\ FlashInv'
    BY <2>1, <2>2, RecordAlone
  <2> QED
    BY <2>3, <2>4, <2>5 DEF IInv
<1> QED
  BY <1>1, <1>2, <1>3, <1>4 DEF Next

LEMMA Invariance == Spec => []IInv
<1>1. Init => IInv
  BY InitInv
<1> QED
  BY <1>1, StepInv, PTL DEF Spec

-----------------------------------------------------------------------------
\* A divisor is never zero where it is used, so every variable keeps to its type through every
\* calibration, broken off or not (module/remote.c:58-93).
THEOREM TypeCorrect == Spec => []TypeOK
<1>1. IInv => TypeOK
  BY DEF IInv
<1> QED
  BY <1>1, Invariance, PTL

\* A scaled value is taken for no limit but the first (module/remote.c:54).
THEOREM OnlyFirstScaled == Spec => []OnlyFirstLimitScaled
<1>1. IInv => OnlyFirstLimitScaled
  BY DEF IInv, ScaledInv, OnlyFirstLimitScaled
<1> QED
  BY <1>1, Invariance, PTL

\* A new calibration starts at the first step, however quick the user is
\* (module/remote_calibrate.c:187).
THEOREM CalibrationIsFresh == Spec => StartsAfresh
<1>1. IInv /\ [Next]_vars
        => [calState # "CAL_START" /\ calState' = "CAL_START" => calStep = LEFT_UP]_vars
  <2> SUFFICES ASSUME IInv, Next, calState # "CAL_START", calState' = "CAL_START"
               PROVE  calStep = LEFT_UP
    OBVIOUS
  <2>1. CalibrationStarted
    BY DEF Next, SecondTask, Transform, KeyHandle, NotStarted, FirstReading, LimitHeld,
           MiddleHeld, ErasePage, ProgramWord, WriteEnds, Display, OtherPage, CalibrationCancelled,
           CalibrationShown, DoneShown, Restart, calVars
  <2> QED
    BY <2>1 DEF IInv, LeftInv, CalibrationStarted
<1> QED
  BY <1>1, Invariance, PTL DEF Spec, StartsAfresh

\* The next start brings back the calibration the remote worked with
\* (module/remote_calibrate.c:194-267).
THEOREM RestartIsExact == Spec => RestartRestores
<1>1. IInv /\ [Next]_vars
        => [Restart /\ flashStatus = "COMPLETE" /\ task \notin {"erase", "program"} /\ ~edited
              => UNCHANGED <<calFlag, limits>>]_vars
  <2> SUFFICES ASSUME IInv, Restart, flashStatus = "COMPLETE",
                      task \notin {"erase", "program"}, ~edited
               PROVE  UNCHANGED <<calFlag, limits>>
    OBVIOUS
  <2>1. Kept
    BY DEF IInv, FlashInv
  <2> QED
    BY <2>1 DEF Kept, Restart, ReadRecord
<1> QED
  BY <1>1, Invariance, PTL DEF Spec, RestartRestores

\* At its ends a calibrated stick reads exactly 0 and the top, although the coefficients are
\* rounded; at rest it reads the middle or, below the middle of the range, one less: for every
\* thresholds and every calibration that was completed (module/remote.c:58-88).
THEOREM SticksAreCalibrated == Spec => []CalibratedSticks
<1>1. IInv => CalibratedSticks
  <2> SUFFICES ASSUME IInv, InUse, Whole(limits), ~edited, NEW a \in Axes
               PROVE  Consistent(limits[a]) /\ EndsAndRest(a)
    BY DEF CalibratedSticks
  <2> DEFINE l == limits[a]
  <2>1. Good(l) /\ Divisible(l)
    BY DEF IInv, LimitsInv, InUse
  <2>2. /\ l.max \in Values /\ l.min \in Values /\ l.middle \in Values
        /\ l.k = l.max - l.middle /\ l.k2 = l.middle - l.min /\ 0 < l.k /\ 0 < l.k2
        /\ l.min < Low /\ l.max > High /\ Near(l.middle)
    <3>1. l \in [Fields -> Values] /\ Consistent(l)
      BY <2>1 DEF Good
    <3>2. /\ l.max \in Values /\ l.min \in Values /\ l.middle \in Values
      BY <3>1 DEF Fields
    <3> HIDE DEF l
    <3> QED
      BY <3>1, <3>2, Thresholds DEF Consistent, Near, Values
  <2>3. EndsAndRest(a)
    <3> SUFFICES ASSUME NEW u \in {0, Top}
                 PROVE  /\ Scaled(a, l.min, u) = 0
                        /\ Scaled(a, l.middle, u)
                             \in IF l.middle >= Half THEN {Half} ELSE {Half - 1, Half}
                        /\ Scaled(a, l.max, u) = Top
      BY DEF EndsAndRest
    <3> DEFINE max == l.max
               min == l.min
               mid == l.middle
    <3>1. /\ max \in Int /\ min \in Int /\ mid \in Int /\ 0 < max - mid /\ 0 < mid - min
          /\ min < Half /\ max >= Half
      BY <2>2, Thresholds DEF Values
    <3>2. /\ l.k = max - mid /\ l.k2 = mid - min
      BY <2>2
    <3> HIDE DEF max, min, mid
    <3>3. /\ l.min = min /\ l.middle = mid /\ l.max = max /\ limits[a] = l
      BY DEF max, min, mid
    <3> HIDE DEF l
    <3>4. /\ max - mid \in Int /\ mid - min \in Int /\ max - mid # Erased /\ mid - min # Erased
          /\ min # Erased /\ mid # Erased
      BY <3>1, Thresholds
    <3>5. Scaled(a, min, u) = 0
      <4> DEFINE k == mid - min
      <4>1. ~(min >= Half)
        BY <3>1, Thresholds
      <4>2. Scaled(a, min, u) =
              IF Undefined(min - min, k, 0) THEN u ELSE Limited(Truncated(min - min, k, 0))
        BY <3>2, <3>3, <3>4, <4>1 DEF Scaled
      <4>3. min - min = 0 /\ k \in Nat /\ 0 < k /\ k # Erased
        BY <3>1, <3>4
      <4> HIDE DEF k
      <4>4. ~Undefined(0, k, 0)
        BY <4>3, Thresholds DEF Undefined
      <4>5. Truncated(0, k, 0) = 0
        <5>1. (0 * Half + 0 * k) \div k = 0
          BY <4>3, Thresholds
        <5> QED
          BY <4>3, <5>1, TruncatedFacts
      <4> QED
        BY <4>2, <4>3, <4>4, <4>5, Thresholds DEF Limited
    <3>6. Scaled(a, mid, u) \in IF mid >= Half THEN {Half} ELSE {Half - 1, Half}
      <4>1. CASE mid >= Half
        <5> DEFINE k == max - mid
        <5>1. Scaled(a, mid, u) =
                IF Undefined(mid - mid, k, Half) THEN u
                ELSE Limited(Truncated(mid - mid, k, Half))
          BY <3>2, <3>3, <3>4, <4>1 DEF Scaled
        <5>2. mid - mid = 0 /\ k \in Nat /\ 0 < k /\ k # Erased
          BY <3>1, <3>4
        <5> HIDE DEF k
        <5>3. 0 * Half + Half * k = k * Half /\ 0 <= k * Half /\ (k * Half) \div k = Half
          BY <5>2, Thresholds, ProductQuotient
        <5>4. ~Undefined(0, k, Half)
          <6>1. ~(0 * Half + Half * k <= -k)
            BY <5>2, <5>3, Thresholds
          <6> QED
            BY <5>2, <6>1 DEF Undefined
        <5>5. Truncated(0, k, Half) = Half
          BY <5>2, <5>3, Thresholds, TruncatedFacts
        <5> QED
          BY <4>1, <5>1, <5>2, <5>4, <5>5, Thresholds DEF Limited
      <4>2. CASE ~(mid >= Half)
        <5> DEFINE k == mid - min
        <5>1. Scaled(a, mid, u) = IF Undefined(k, k, 0) THEN u ELSE Limited(Truncated(k, k, 0))
          BY <3>2, <3>3, <3>4, <4>2 DEF Scaled
        <5>2. k \in Nat /\ 0 < k /\ k # Erased
          BY <3>1, <3>4
        <5> HIDE DEF k
        <5>3. k * Half + 0 * k = k * Half /\ 0 <= k * Half /\ (k * Half) \div k = Half
          BY <5>2, Thresholds, ProductQuotient
        <5>4. ~Undefined(k, k, 0)
          <6>1. ~(k * Half + 0 * k <= -k)
            BY <5>2, <5>3, Thresholds
          <6> QED
            BY <5>2, <6>1 DEF Undefined
        <5>5. Truncated(k, k, 0) \in {Half - 1, Half}
          <6>1. (k * Half + 0 * k) \div k = Half
            BY <5>3
          <6>2. \/ Truncated(k, k, 0) = (IF Half < 0 THEN 0 ELSE Half)
                \/ Truncated(k, k, 0) = (IF Half - 1 < 0 THEN 0 ELSE Half - 1)
            BY <6>1, Thresholds DEF Truncated
          <6> QED
            BY <6>2, Thresholds
        <5> QED
          BY <4>2, <5>1, <5>4, <5>5, Thresholds DEF Limited
      <4> QED
        BY <4>1, <4>2
    <3>7. Scaled(a, max, u) = Top
      <4> DEFINE k == max - mid
      <4>1. Scaled(a, max, u) =
              IF Undefined(k, k, Half) THEN u ELSE Limited(Truncated(k, k, Half))
        BY <3>1, <3>2, <3>3, <3>4 DEF Scaled
      <4>2. k \in Nat /\ 0 < k /\ k # Erased
        BY <3>1, <3>4
      <4> HIDE DEF k
      <4> DEFINE n == k * Half + Half * k
      <4>3. n \in Nat /\ n \div k = 2 * Half
        <5>1. Half * k = k * Half /\ 0 <= k * Half
          BY <4>2, Thresholds, ProductQuotient
        <5> QED
          BY <4>2, <5>1, Thresholds, ProductQuotient
      <4>4. Undefined(k, k, Half) <=> n <= -k
        BY <4>2 DEF Undefined
      <4>5. Truncated(k, k, Half) \in {2 * Half - 1, 2 * Half}
        <5> DEFINE q == 2 * Half
        <5>1. q = (k * Half + Half * k) \div k /\ q \in Nat /\ 0 < q
          BY <4>3, Thresholds
        <5> HIDE DEF q
        <5>2. \/ Truncated(k, k, Half) = (IF q < 0 THEN 0 ELSE q)
              \/ Truncated(k, k, Half) = (IF q - 1 < 0 THEN 0 ELSE q - 1)
          BY <5>1 DEF Truncated
        <5>3. Truncated(k, k, Half) \in {q - 1, q}
          BY <5>1, <5>2
        <5> QED
          BY <5>3 DEF q
      <4> HIDE DEF n
      <4>6. ~(n <= -k)
        BY <4>2, <4>3
      <4>7. Limited(Truncated(k, k, Half)) = Top
        BY <4>5, Thresholds DEF Limited
      <4> QED
        BY <4>1, <4>4, <4>6, <4>7
    <3> QED
      BY <3>3, <3>5, <3>6, <3>7
  <2> QED
    BY <2>1, <2>3 DEF Good
<1> QED
  BY <1>1, Invariance, PTL
=============================================================================

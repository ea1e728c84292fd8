--------------------------- MODULE StickCalibration ---------------------------
(***************************************************************************)
(* module/remote_calibrate.c with what it works with: the scaling of the    *)
(* stick values (module/remote.c), the page of the display that starts,     *)
(* cancels and ends a calibration, the keys, and the page of flash its      *)
(* record is kept in (system/flash.c).                                      *)
(*                                                                         *)
(* second_task_thread scales, reads the keys and handles the calibration;   *)
(* the handler sleeps while the user holds a stick.  The display has the    *)
(* better priority: it comes in at any point, and second_task runs only     *)
(* while it sleeps, so one call of its page is one step up to a sleep.      *)
(*                                                                         *)
(* The power may be cut at any time.  What RAM holds is lost then; of the   *)
(* record in flash the words written so far stay.                           *)
(***************************************************************************)
EXTENDS Integers

CONSTANTS
  Low, High,      \* a limit is looked for below and above these: 200 and 800, or 20 and 80
  Half, Band,     \* the middle and how far from it a stick may rest: 500 and 30, 50 and 10
  Top,            \* the greatest value: 999 or 99
  Postures,       \* what the four sticks may read at once
  Erased          \* a word of flash that was not written

Axes == {"throttle", "yaw", "roll", "pitch"}
Fields == {"max", "min", "middle", "k", "k2"}

ASSUME CalibrationAssumption ==
  /\ Low \in Nat /\ High \in Nat /\ Half \in Nat /\ Band \in Nat /\ Top \in Nat
  /\ 0 < Low /\ Low + Band <= Half /\ Half + Band <= High /\ High < Top /\ Top < 2 * Half
  /\ Postures \subseteq [Axes -> 0..Top]
  /\ Erased \notin Int

VARIABLES
  \* the struct remoteCalibrate; k and k2 of an axis are given by their divisors
  calState, calStep, calFlag, limits,
  remote,                   \* the stick values the remote works with
  task,                     \* where second_task is
  key,                      \* the key waiting for the display
  menuPage, lastCalState, display,
  \* the page of flash
  header, flag, stored,     \* its first word, the second, the others
  word, flashStatus,        \* the word to program next, the last answer of the flash
  \* history
  scaled,                   \* remote was computed with a calibration
  edited                    \* limits were stored since the coefficients were computed

calVars == <<calState, calStep, calFlag, limits>>
displayVars == <<key, menuPage, lastCalState, display>>
flashVars == <<header, flag, stored, word, flashStatus>>
vars == <<calVars, remote, task, displayVars, flashVars, scaled, edited>>

\* The limits in the order they are asked for.  BOTH_MIDDLE follows.
Steps == << <<"throttle", "max">>, <<"throttle", "min">>, <<"yaw", "max">>, <<"yaw", "min">>,
            <<"pitch", "min">>, <<"pitch", "max">>, <<"roll", "max">>, <<"roll", "min">> >>
LEFT_UP == 1
BOTH_MIDDLE == 9

\* The place of a word in the record.
At(a, f) ==
  3 + 5 * (CASE a = "throttle" -> 0 [] a = "yaw" -> 1 [] a = "roll" -> 2 [] a = "pitch" -> 3)
    + (CASE f = "max" -> 0 [] f = "min" -> 1 [] f = "middle" -> 2 [] f = "k" -> 3 [] f = "k2" -> 4)

\* Mutant of RecordLen: one word short.
RecordLen_Short == 21

RecordLen == 22

AllWords(v) == [a \in Axes |-> [f \in Fields |-> v]]

\* RemoteCalibrateInit: a page that starts with 10 is taken for a record; f is its flag.
ReadRecord(f) ==
  IF header = 10
  THEN calFlag' = f /\ limits' = stored
  ELSE calFlag' = "CAL_FLAG_NONE" /\ limits' = AllWords(0)

Init ==
  /\ calState = "CAL_NONE" /\ calStep = LEFT_UP
  /\ calFlag = "CAL_FLAG_NONE" /\ limits = AllWords(0)
  /\ remote = [a \in Axes |-> 0]
  /\ task = "transform"
  /\ key = "none" /\ menuPage = "REMOTE" /\ lastCalState = "CAL_NONE" /\ display = "page"
  /\ header = Erased /\ flag = Erased /\ stored = AllWords(Erased)
  /\ word = 1 /\ flashStatus = "COMPLETE"
  /\ scaled = FALSE /\ edited = FALSE

\* The power is cut and comes back: RAM is as at first, but for what is read from flash.
Restart ==
  /\ ReadRecord(flag)
  /\ calState' = "CAL_NONE" /\ calStep' = LEFT_UP
  /\ remote' = [a \in Axes |-> 0]
  /\ task' = "transform"
  /\ key' = "none" /\ menuPage' = "REMOTE" /\ lastCalState' = "CAL_NONE" /\ display' = "page"
  /\ word' = 1 /\ flashStatus' = "COMPLETE"
  /\ scaled' = FALSE /\ edited' = FALSE
  /\ UNCHANGED <<header, flag, stored>>

-----------------------------------------------------------------------------
\* second_task: RockerValueTransform

\* The code computes (float)d * coefficient + base in floats of 24 bits, the coefficient being
\* the float nearest to Half / k, and cuts off the fraction.  The rounding moves the value by
\* far less than 1 / k, so the cut feels it only where d * Half / k is whole: then the result
\* may be one too low.  FloatError is exact there; it counts in units of 2^-24.

\* The greatest power of two up to n.
PowerIn[n \in Nat] == CHOOSE g \in {2^i : i \in 0..23} : g <= n /\ n < 2 * g

\* How far apart floats are next to the whole number x, on the side that e points to.
Spacing[x \in Int, e \in Int] ==
  LET a == IF x < 0 THEN -x ELSE x
  IN PowerIn[2 * (IF x * e < 0 THEN a - 1 ELSE a) + 1]

\* e rounded to a multiple of g: the nearest, or the even one of two.
Rounded[e \in Int, g \in Nat] ==
  LET r == e % g
  IN e - r + IF 2 * r < g \/ (2 * r = g /\ (e \div g) % 2 = 0) THEN 0 ELSE g

\* k times the error of the coefficient.
CoefficientError[k \in Nat] ==
  LET g == k * PowerIn[(2 * Half) \div k]
      r == (Half * (2^24 % g)) % g
  IN Rounded[r, g] - r

\* By how much the floats miss (d * Half) \div k + base: the error of the coefficient grows
\* with d, the product is rounded, and so is the sum.
FloatError(d, k, base) ==
  LET p == (d * Half) \div k
      e == d * CoefficientError[k]
      product == Rounded[e \div k, Spacing[p, e]]
  IN Rounded[product, Spacing[p + base, product]]

Short(d, k, base) == d # 0 /\ (d * Half) % k = 0 /\ FloatError(d, k, base) < 0

\* The value before it is limited; what is left of a negative one is 0.
Truncated(d, k, base) ==
  LET q == (d * Half + base * k) \div k - (IF Short(d, k, base) THEN 1 ELSE 0)
  IN IF q < 0 THEN 0 ELSE q

\* A value of -1 or less cannot be converted to an unsigned type, so what the build makes of it
\* is left open, and so is an operation on an erased word.
Undefined(d, k, base) == k = Erased \/ d * Half + base * k <= -k

\* Mutant of Limited: not limited.
Limited_Not(v) == v

Limited(v) == IF v > Top THEN Top ELSE v

\* The value of axis a at reading v; an undefined one is 0, or wraps and is limited, as the
\* build converts.
Scaled(a, v, undefined) ==
  LET l == limits[a]
      base == IF v >= Half THEN Half ELSE 0
      k == IF v >= Half THEN l.k ELSE l.k2
      from == IF v >= Half THEN l.middle ELSE l.min
  IN IF k = Erased \/ from = Erased \/ Undefined(v - from, k, base)
     THEN undefined
     ELSE Limited(Truncated(v - from, k, base))

\* Mutant of InUse: also while a calibration runs.
InUse_Always == calFlag = "CAL_FLAG_DONE"

InUse == calFlag = "CAL_FLAG_DONE" /\ calState # "CAL_START"

Transform ==
  /\ task = "transform"
  /\ \E raw \in Postures, undefined \in {0, Top} :
       remote' = IF InUse THEN [a \in Axes |-> Scaled(a, raw[a], undefined)] ELSE raw
  /\ scaled' = InUse
  /\ task' = "keys"
  /\ UNCHANGED <<calVars, displayVars, flashVars, edited>>

\* KeyHandle: a key that was pressed replaces the one that waits.  The display looks at
\* cancel first, so both together count as cancel.
KeyHandle ==
  /\ task = "keys"
  /\ key' \in {key, "ok", "cancel"}
  /\ task' = "handle"
  /\ UNCHANGED <<calVars, remote, menuPage, lastCalState, display, flashVars, scaled, edited>>

-----------------------------------------------------------------------------
\* second_task: RemoteCalibrateHandle

Near(v) == Half - Band < v /\ v < Half + Band

\* Are the sticks where the step asks for them?
Asked(s, r) ==
  IF s = BOTH_MIDDLE THEN \A a \in Axes : Near(r[a])
  ELSE IF Steps[s][2] = "max" THEN r[Steps[s][1]] > High
  ELSE r[Steps[s][1]] < Low

\* Mutant of NotStarted: the step is left alone.
NotStarted_KeepsStep ==
  /\ task = "handle" /\ calState # "CAL_START"
  /\ task' = "transform"
  /\ UNCHANGED <<calVars, remote, displayVars, flashVars, scaled, edited>>

NotStarted ==
  /\ task = "handle" /\ calState # "CAL_START"
  /\ calStep' = LEFT_UP
  /\ task' = "transform"
  /\ UNCHANGED <<calState, calFlag, limits, remote, displayVars, flashVars, scaled, edited>>

\* The first reading: the user is given time to hold the sticks, 1 or 3 seconds.
FirstReading ==
  /\ task = "handle" /\ calState = "CAL_START"
  /\ task' = IF Asked(calStep, remote) THEN "held" ELSE "transform"
  /\ UNCHANGED <<calVars, remote, displayVars, flashVars, scaled, edited>>

\* The second reading is of the same variable, which nobody else writes: it is the first
\* again, so that a stick let go during the delay is never noticed.

\* Mutant of LimitHeld: the step stays.
LimitHeld_SameStep ==
  /\ task = "held" /\ calStep # BOTH_MIDDLE /\ Asked(calStep, remote)
  /\ LET a == Steps[calStep][1] IN
       limits' = [limits EXCEPT ![a] = [@ EXCEPT ![Steps[calStep][2]] = remote[a]]]
  /\ calStep' = IF calStep = LEFT_UP THEN calStep ELSE calStep + 1
  /\ edited' = TRUE
  /\ task' = "transform"
  /\ UNCHANGED <<calState, calFlag, remote, displayVars, flashVars, scaled>>

LimitHeld ==
  /\ task = "held" /\ calStep # BOTH_MIDDLE /\ Asked(calStep, remote)
  /\ LET a == Steps[calStep][1] IN
       limits' = [limits EXCEPT ![a] = [@ EXCEPT ![Steps[calStep][2]] = remote[a]]]
  /\ calStep' = calStep + 1
  /\ edited' = TRUE
  /\ task' = "transform"
  /\ UNCHANGED <<calState, calFlag, remote, displayVars, flashVars, scaled>>

\* Mutant of Complete: the coefficient is computed before the middle is stored.
Complete_OldMiddle(l, m) ==
  [l EXCEPT !.middle = m, !.k = l.max - l.middle, !.k2 = m - l.min]

\* The middle of an axis, and its coefficients 500 / (max - middle) and 500 / (middle - min).
Complete(l, m) ==
  [l EXCEPT !.middle = m, !.k = l.max - m, !.k2 = m - l.min]

MiddleHeld ==
  /\ task = "held" /\ calStep = BOTH_MIDDLE /\ Asked(calStep, remote)
  /\ limits' = [a \in Axes |-> Complete(limits[a], remote[a])]
  /\ calStep' = LEFT_UP
  /\ calState' = "CAL_DONE"
  /\ calFlag' = "CAL_FLAG_DONE"
  /\ edited' = FALSE
  /\ task' = "erase"
  /\ UNCHANGED <<remote, displayVars, flashVars, scaled>>

-----------------------------------------------------------------------------
\* second_task: FlashWriteSpecifyData.  That the flash stays unlocked after a failure has
\* no effect: the next write unlocks it again.

\* The page is erased; if that fails it may have kept its record.
ErasePage ==
  /\ task = "erase"
  /\ word' = 1
  /\ \/ /\ header' = Erased /\ flag' = Erased /\ stored' = AllWords(Erased)
        /\ flashStatus' \in {"COMPLETE", "ERROR"}
     \/ /\ flashStatus' = "ERROR"
        /\ UNCHANGED <<header, flag, stored>>
  /\ task' = "program"
  /\ UNCHANGED <<calVars, remote, displayVars, scaled, edited>>

ProgramWord ==
  /\ task = "program" /\ word <= RecordLen /\ flashStatus = "COMPLETE"
  /\ flashStatus' \in {"COMPLETE", "ERROR"}
  /\ IF flashStatus' = "ERROR" THEN UNCHANGED <<header, flag, stored>>
     ELSE /\ header' = IF word = 1 THEN 10 ELSE header
          /\ flag' = IF word = 2 THEN calFlag ELSE flag
          /\ stored' = [a \in Axes |-> [f \in Fields |->
                          IF At(a, f) = word THEN limits[a][f] ELSE stored[a][f]]]
  /\ word' = word + 1
  /\ task' = "program"
  /\ UNCHANGED <<calVars, remote, displayVars, scaled, edited>>

\* The end of the array, or a word that failed: nobody looks at which.
WriteEnds ==
  /\ task = "program"
  /\ word > RecordLen \/ flashStatus # "COMPLETE"
  /\ word' = 1
  /\ task' = "transform"
  /\ UNCHANGED <<calVars, remote, displayVars, header, flag, stored, flashStatus, scaled, edited>>

SecondTask ==
  \/ Transform \/ KeyHandle \/ NotStarted \/ FirstReading \/ LimitHeld \/ MiddleHeld
  \/ ErasePage \/ ProgramWord \/ WriteEnds

-----------------------------------------------------------------------------
\* The display

\* RemoteInterface, or a page it leads to: ok may open the calibration.
OtherPage ==
  /\ display = "page" /\ menuPage = "REMOTE"
  /\ menuPage' \in IF key = "ok" THEN {"REMOTE", "ARM_CALIBRATE"} ELSE {"REMOTE"}
  /\ key' = "none"
  /\ UNCHANGED <<calVars, remote, task, lastCalState, display, flashVars, scaled, edited>>

CalibrationCancelled ==
  /\ display = "page" /\ menuPage = "ARM_CALIBRATE" /\ key = "cancel"
  /\ calState' = IF calState = "CAL_DONE" THEN "CAL_DONE" ELSE "CAL_NONE"
  /\ menuPage' = "REMOTE"
  /\ lastCalState' = calState'
  /\ key' = "none"
  /\ UNCHANGED <<calStep, calFlag, limits, remote, task, display, flashVars, scaled, edited>>

CalibrationStarted ==
  /\ display = "page" /\ menuPage = "ARM_CALIBRATE" /\ key = "ok" /\ calState # "CAL_START"
  /\ calState' = "CAL_START"
  /\ lastCalState' = "CAL_START"
  /\ key' = "none"
  /\ UNCHANGED <<calStep, calFlag, limits, remote, task, menuPage, display, flashVars, scaled, edited>>

\* What else the page does is draw, but for the end of a calibration: it is shown for two
\* seconds, once.
CalibrationShown ==
  /\ display = "page" /\ menuPage = "ARM_CALIBRATE"
  /\ key = "none" \/ (key = "ok" /\ calState = "CAL_START")
  /\ display' = IF calState = "CAL_DONE" /\ lastCalState # "CAL_DONE" THEN "done" ELSE "page"
  /\ lastCalState' = IF display' = "done" THEN lastCalState ELSE calState
  /\ key' = "none"
  /\ UNCHANGED <<calVars, remote, task, menuPage, flashVars, scaled, edited>>

\* ... and then the page is left.
DoneShown ==
  /\ display = "done"
  /\ display' = "page"
  /\ menuPage' = "REMOTE"
  /\ lastCalState' = "CAL_DONE"
  /\ UNCHANGED <<calVars, remote, task, key, flashVars, scaled, edited>>

Display == OtherPage \/ CalibrationCancelled \/ CalibrationStarted \/ CalibrationShown \/ DoneShown

Next == SecondTask \/ Display \/ Restart

\* The user follows the page of a calibration, again and again if need be.
Follows == calState = "CAL_START" /\ Transform /\ Asked(calStep, remote')

Spec == Init /\ [][Next]_vars
FairSpec == Spec /\ WF_vars(SecondTask) /\ SF_vars(Follows)

-----------------------------------------------------------------------------
Values == 0..Top

\* The struct, the threads' places and the flash have their types: a limit is a stick value,
\* a divisor lies between the thresholds' distances, and what a torn record leaves is Erased.
TypeOK ==
  /\ calState \in {"CAL_NONE", "CAL_START", "CAL_DONE"}
  /\ calStep \in LEFT_UP..BOTH_MIDDLE
  /\ calFlag \in {"CAL_FLAG_NONE", "CAL_FLAG_DONE", Erased}
  /\ limits \in [Axes -> [Fields -> Values \cup {Erased}]]
  /\ remote \in [Axes -> Values]
  /\ task \in {"transform", "keys", "handle", "held", "erase", "program"}
  /\ key \in {"none", "ok", "cancel"}
  /\ menuPage \in {"REMOTE", "ARM_CALIBRATE"}
  /\ lastCalState \in {"CAL_NONE", "CAL_START", "CAL_DONE"}
  /\ display \in {"page", "done"}
  /\ header \in {10, Erased} /\ flag \in {"CAL_FLAG_DONE", Erased}
  /\ stored \in [Axes -> [Fields -> Values \cup {Erased}]]
  /\ word \in 1..RecordLen + 1 /\ flashStatus \in {"COMPLETE", "ERROR"}
  /\ scaled \in BOOLEAN /\ edited \in BOOLEAN

\* A record of which every word was written.
Whole(l) == \A a \in Axes, f \in Fields : l[a][f] # Erased

\* The limits of one axis belong together.
Consistent(l) ==
  /\ l.min < Low /\ l.max > High /\ Near(l.middle)
  /\ l.k = l.max - l.middle /\ l.k2 = l.middle - l.min

\* What the scaling makes of a stick at its calibrated positions.  At rest below the middle of
\* the range it works with a rounded coefficient, and the cut may leave one less.
EndsAndRest(a) ==
  \A undefined \in {0, Top} :
    /\ Scaled(a, limits[a].min, undefined) = 0
    /\ Scaled(a, limits[a].middle, undefined)
         \in IF limits[a].middle >= Half THEN {Half} ELSE {Half - 1, Half}
    /\ Scaled(a, limits[a].max, undefined) = Top

\* A calibration the remote works with, in RAM since its last step or read back after a
\* start, takes the ends of each stick exactly to the ends of the range, rounding or not, and
\* its rest to the middle or one below: through cancelled and repeated calibrations, cut power
\* and failed writes, unless the record is torn or another calibration was broken off since
\* (module/remote.c:58-88).
CalibratedSticks ==
  InUse /\ Whole(limits) /\ ~edited => \A a \in Axes : Consistent(limits[a]) /\ EndsAndRest(a)

\* The display may start a calibration between the scaling and the handler, which then
\* takes a scaled value for the limit it asks for first; no other step can meet one
\* (module/remote.c:54, module/remote_calibrate.c:45).
OnlyFirstLimitScaled == task = "held" /\ scaled => calStep = LEFT_UP

\* However the last calibration was left, a new one starts at the first step
\* (module/remote_calibrate.c:187).
StartsAfresh ==
  [][calState # "CAL_START" /\ calState' = "CAL_START" => calStep = LEFT_UP]_vars

\* Unless the last write failed or was cut, or a calibration was broken off, the next start
\* brings back exactly the calibration the remote worked with.
RestartRestores ==
  [][Restart /\ flashStatus = "COMPLETE" /\ task \notin {"erase", "program"} /\ ~edited
       => UNCHANGED <<calFlag, limits>>]_vars

\* A calibration whose page the user follows ends: it is completed, cancelled, or the power
\* is cut.
CalibrationEnds == calState = "CAL_START" ~> calState # "CAL_START"

\* module/remote_calibrate.c:238 says the first word tells whether there is data.  Violated:
\* it is written first, so it also stands before a record that was cut short.
HeaderMeansData ==
  header = 10 /\ task # "program" => flag # Erased /\ Whole(stored)
=============================================================================

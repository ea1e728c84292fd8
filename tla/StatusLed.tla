------------------------------ MODULE StatusLed ------------------------------
(***************************************************************************)
(* module/led_status.c and driver/led.c: second_task_thread shows the state *)
(* of the remote with a lamp of three colours.  TopLedBlink keeps one count *)
(* for both the colours it blinks and resets it only where it meets the     *)
(* end of the current period.  What the lamp shows comes from other         *)
(* threads, which may change it between two calls and more than once.       *)
(***************************************************************************)
EXTENDS Integers

CONSTANTS
  FastPeriod, SlowPeriod      \* 1000 / (delayMs * frequency * 2): 10 and 25 calls

\* blinkCount is a uint16_t.
Uint16 == 65536

ASSUME PeriodAssumption ==
  /\ FastPeriod \in Nat /\ SlowPeriod \in Nat
  /\ 0 < FastPeriod /\ FastPeriod <= SlowPeriod /\ 2 * SlowPeriod < Uint16

VARIABLES
  pairStatus, signalStatus, lock,     \* what LedHandle reads
  lamp,                               \* lastColor, and what the lamp shows
  blinkCount

ledVars == <<pairStatus, signalStatus, lock, lamp, blinkCount>>
shownVars == <<pairStatus, signalStatus, lock>>

LedInit ==
  /\ pairStatus = "PAIR_NOT" /\ signalStatus = "LOST" /\ lock = "LOCK"
  /\ lamp = "BLACK" /\ blinkCount = 0

-----------------------------------------------------------------------------
\* The other threads

\* module/pair_freq.c and the main page: module Pairing shows that there is no other way.
PairStatusMoves ==
  /\ pairStatus' \in {"PAIR_NOT", "PAIR_START", "PAIR_DONE", "PAIR_FAIL"}
  /\ <<pairStatus, pairStatus'>> \in
       {<<"PAIR_NOT", "PAIR_START">>, <<"PAIR_START", "PAIR_DONE">>,
        <<"PAIR_START", "PAIR_FAIL">>, <<"PAIR_FAIL", "PAIR_NOT">>}
  /\ UNCHANGED <<signalStatus, lock, lamp, blinkCount>>

\* The signal is lost and found, the plane locks and unlocks; on the way it reports a third
\* state that LedHandle ignores.
PlaneMoves ==
  /\ signalStatus' \in {"LOST", "NORMAL"}
  /\ lock' \in {"LOCK", "UNLOCK", "MOVING"}
  /\ UNCHANGED <<pairStatus, lamp, blinkCount>>

-----------------------------------------------------------------------------
\* second_task: LedHandle

TopLedColorSet(color) == lamp' = color /\ UNCHANGED blinkCount

\* Mutant of TopLedBlink: the count is reset one call late.
TopLedBlink_LateReset(color, period) ==
  /\ lamp' = IF blinkCount = 0 THEN color ELSE IF blinkCount = period THEN "BLACK" ELSE lamp
  /\ blinkCount' = IF blinkCount = 2 * period THEN 0 ELSE (blinkCount + 1) % Uint16

TopLedBlink(color, period) ==
  /\ lamp' = IF blinkCount = 0 THEN color ELSE IF blinkCount = period THEN "BLACK" ELSE lamp
  /\ blinkCount' = IF (blinkCount + 1) % Uint16 = 2 * period THEN 0 ELSE (blinkCount + 1) % Uint16

LedHandle ==
  /\ CASE pairStatus = "PAIR_NOT" -> TopLedColorSet("RED")
       [] pairStatus = "PAIR_START" -> TopLedBlink("CYAN", FastPeriod)
       [] pairStatus = "PAIR_FAIL" -> TopLedColorSet("YELLOW")
       [] pairStatus = "PAIR_DONE" /\ signalStatus = "LOST" -> TopLedBlink("YELLOW", SlowPeriod)
       [] pairStatus = "PAIR_DONE" /\ signalStatus # "LOST" /\ lock = "UNLOCK" -> TopLedColorSet("GREEN")
       [] pairStatus = "PAIR_DONE" /\ signalStatus # "LOST" /\ lock = "LOCK" -> TopLedColorSet("BLUE")
       [] OTHER -> UNCHANGED <<lamp, blinkCount>>
  /\ UNCHANGED shownVars

LedNext == PairStatusMoves \/ PlaneMoves \/ LedHandle

LedSpec == LedInit /\ [][LedNext]_ledVars

-----------------------------------------------------------------------------
LedTypeOK ==
  /\ pairStatus \in {"PAIR_NOT", "PAIR_START", "PAIR_DONE", "PAIR_FAIL"}
  /\ signalStatus \in {"LOST", "NORMAL"} /\ lock \in {"LOCK", "UNLOCK", "MOVING"}
  /\ lamp \in {"BLACK", "RED", "CYAN", "YELLOW", "GREEN", "BLUE"}
  /\ blinkCount \in 0..Uint16 - 1

\* Whatever was shown before and wherever the shared count stood, a lamp that is to blink
\* meets the end of its own period: the count has not passed it, so it need not run through
\* 65536 calls (eleven minutes) first.  It rests on the order of the states: the longer
\* period belongs to the last of them (driver/led.c:65-76).
BlinkInStep ==
  /\ pairStatus # "PAIR_DONE" => blinkCount < 2 * FastPeriod
  /\ blinkCount < 2 * SlowPeriod
=============================================================================

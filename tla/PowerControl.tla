----------------------------- MODULE PowerControl -----------------------------
(***************************************************************************)
(* module/power_control.c: main calls PowerControlHandle every 100 ms.  One *)
(* press switches the remote on, two within a second switch it off.         *)
(***************************************************************************)
EXTENDS Integers

CONSTANT Window        \* calls after which a first press is forgotten: 10

ASSUME WindowAssumption == Window \in 1..255

VARIABLES
  powerStatus, powerOffCount, powerOffTimeCount,
  powerOut,            \* the line that holds the supply on
  unpaired             \* history: calls since a press that has had no effect so far

powerVars == <<powerStatus, powerOffCount, powerOffTimeCount, powerOut, unpaired>>

None == 0

PowerInit ==
  /\ powerStatus = 0 /\ powerOffCount = 0 /\ powerOffTimeCount = 0
  /\ powerOut = FALSE
  /\ unpaired = None

\* Mutant of Waited: the time of the first press leaks into the next.
Waited_NoReset(n) ==
  IF n = 1
  THEN /\ powerOffTimeCount' = IF powerOffTimeCount + 1 = Window THEN Window - 1
                               ELSE powerOffTimeCount + 1
       /\ powerOffCount' = IF powerOffTimeCount + 1 = Window THEN 0 ELSE 1
  ELSE powerOffCount' = n /\ powerOffTimeCount' = powerOffTimeCount

\* The end of the call: a press that waits for a second one, n = 1, is forgotten in time.
Waited(n) ==
  IF n = 1
  THEN /\ powerOffTimeCount' = IF powerOffTimeCount + 1 = Window THEN 0
                               ELSE powerOffTimeCount + 1
       /\ powerOffCount' = IF powerOffTimeCount + 1 = Window THEN 0 ELSE 1
  ELSE powerOffCount' = n /\ powerOffTimeCount' = powerOffTimeCount

NoPress ==
  /\ UNCHANGED <<powerStatus, powerOut>>
  /\ Waited(powerOffCount)
  /\ unpaired' = IF unpaired \in {None, Window} THEN None ELSE unpaired + 1

PressOn ==
  /\ powerStatus = 0
  /\ powerStatus' = 1 /\ powerOut' = TRUE
  /\ Waited(powerOffCount)
  /\ unpaired' = None

\* History: a press pairs with one that is less than Window calls old, or waits for one.
Pairs == unpaired \in 1..Window - 1
PressNoted == unpaired' = IF Pairs THEN None ELSE 1

PressFirst ==
  /\ powerStatus = 1 /\ powerOffCount + 1 # 2
  /\ UNCHANGED <<powerStatus, powerOut>>
  /\ Waited(powerOffCount + 1)
  /\ PressNoted

PressSecond ==
  /\ powerStatus = 1 /\ powerOffCount + 1 = 2
  /\ powerStatus' = 0 /\ powerOut' = FALSE
  /\ powerOffCount' = 0 /\ powerOffTimeCount' = 0
  /\ PressNoted

PowerControlHandle == NoPress \/ PressOn \/ PressFirst \/ PressSecond

PowerSpec == PowerInit /\ [][PowerControlHandle]_powerVars
-----------------------------------------------------------------------------
PowerTypeOK ==
  /\ powerStatus \in 0..1 /\ powerOut \in BOOLEAN
  /\ powerOffCount \in 0..1 /\ powerOffTimeCount \in 0..Window - 1
  /\ unpaired \in 0..Window

\* A press switches the remote off exactly if another press came less than Window calls
\* before it that did nothing so far: a press that was forgotten, or spent on switching off
\* or on, leaves nothing behind that a later one could meet, and no press is counted for
\* longer or shorter than the first was (module/power_control.c:24-42).
TwoPressesSwitchOff ==
  [][PressFirst \/ PressSecond => (powerOut' = FALSE <=> Pairs)]_powerVars
=============================================================================

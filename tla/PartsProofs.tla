----------------------------- MODULE PartsProofs -----------------------------
(***************************************************************************)
(* Proofs about the menu, the status lamp, the power control and the keys,  *)
(* for any periods, window and contacts.                                    *)
(***************************************************************************)
EXTENDS Menu, StatusLed, PowerControl, Keys, TLAPS

-----------------------------------------------------------------------------
\* Menu: the entry and the row, clamped in two ways, move together.

Entries == {ELECTRIC, RUDDER, ARM_CALIBRATE}

RowInv ==
  /\ remoteNext \in Entries /\ row \in {0, 2, 4, 6, 8}
  /\ DrawnRow = 2 * (remoteNext - ELECTRIC) + 2

MenuInv == MenuTypeOK /\ PagesReachable /\ ArrowOpens /\ RowInv

LEMMA MenuInitInv == MenuInit => MenuInv
<1> SUFFICES ASSUME MenuInit PROVE MenuInv
  OBVIOUS
<1> USE DEF MAIN, REMOTE, ELECTRIC, RUDDER, ARM_CALIBRATE, PAGE_NUM, MenuInit
<1>1. MenuTypeOK /\ ArrowOpens
  <2>1. menuPage \in 0..PAGE_NUM - 1 /\ remoteNext \in 0..255 /\ row \in 0..255
    OBVIOUS
  <2>2. arrow \in {0, 2, 4, 6} /\ arrow = 0
    OBVIOUS
  <2>3. paired \in BOOLEAN
    OBVIOUS
  <2> QED
    BY <2>1, <2>2, <2>3 DEF MenuTypeOK, ArrowOpens
<1>2. PagesReachable
  BY DEF PagesReachable
<1>3. RowInv
  BY DEF RowInv, DrawnRow, Entries
<1> QED
  BY <1>1, <1>2, <1>3 DEF MenuInv

LEMMA RemoteStep ==
  ASSUME MenuInv, NEW keys \in SUBSET MenuKeys, RemoteInterface(keys)
  PROVE  MenuInv'
<1> USE DEF MAIN, REMOTE, ELECTRIC, RUDDER, ARM_CALIBRATE, PAGE_NUM, Entries
<1> USE DEF MenuInv, MenuTypeOK, PagesReachable, ArrowOpens, RowInv, DrawnRow
<1>1. CASE RemoteScrolled(keys)
  BY <1>1 DEF RemoteScrolled, Clamped, Uint8
<1>2. CASE RemoteLeft(keys)
  BY <1>2 DEF RemoteLeft, Clamped
<1>3. CASE RemoteDrawn(keys)
  BY <1>3 DEF RemoteDrawn, DrawnArrow, Clamped
<1> QED
  BY <1>1, <1>2, <1>3 DEF RemoteInterface

LEMMA MenuNextInv == MenuInv /\ [MenuNext]_menuVars => MenuInv'
<1> SUFFICES ASSUME MenuInv, [MenuNext]_menuVars PROVE MenuInv'
  OBVIOUS
<1> USE DEF MAIN, REMOTE, ELECTRIC, RUDDER, ARM_CALIBRATE, PAGE_NUM, Entries
<1>1. CASE PairingDone
  BY <1>1 DEF PairingDone, MenuInv, MenuTypeOK, PagesReachable, ArrowOpens, RowInv, DrawnRow
<1>2. ASSUME NEW keys \in SUBSET MenuKeys, OledDisplayPairStatus(keys) PROVE MenuInv'
  BY <1>2 DEF OledDisplayPairStatus, MenuInv, MenuTypeOK, PagesReachable, ArrowOpens, RowInv,
              DrawnRow
<1>3. ASSUME NEW keys \in SUBSET MenuKeys, OtherPage(keys) PROVE MenuInv'
  BY <1>3 DEF OtherPage, back, MenuInv, MenuTypeOK, PagesReachable, ArrowOpens, RowInv, DrawnRow
<1>4. CASE UNCHANGED menuVars
  BY <1>4 DEF menuVars, MenuInv, MenuTypeOK, PagesReachable, ArrowOpens, RowInv, DrawnRow
<1> QED
  BY <1>1, <1>2, <1>3, <1>4, RemoteStep DEF MenuNext, DisplayThread

\* Whatever keys the user presses, the pages of the plane stay out of reach, and every other
\* page but the first is one of a paired remote (oled_display.c:52-76, 516-520).
THEOREM MenuReaches == MenuSpec => []PagesReachable
<1>1. MenuInv => PagesReachable
  BY DEF MenuInv
<1> QED
  BY <1>1, MenuInitInv, MenuNextInv, PTL DEF MenuSpec

\* The arrow stands beside the page that ok opens (oled_display.c:484-514).
THEOREM ArrowIsRight == MenuSpec => []ArrowOpens
<1>1. MenuInv => ArrowOpens
  BY DEF MenuInv
<1> QED
  BY <1>1, MenuInitInv, MenuNextInv, PTL DEF MenuSpec

-----------------------------------------------------------------------------
\* StatusLed

LEMMA NoWrap ==
  ASSUME NEW n \in Nat, n < Uint16
  PROVE  n % Uint16 = n /\ n \in 0..Uint16 - 1
BY DEF Uint16

LEMMA LedNextInv ==
  LedTypeOK /\ BlinkInStep /\ [LedNext]_ledVars => LedTypeOK' /\ BlinkInStep'
<1> SUFFICES ASSUME LedTypeOK, BlinkInStep, [LedNext]_ledVars
             PROVE  LedTypeOK' /\ BlinkInStep'
  OBVIOUS
<1>0. /\ FastPeriod \in Nat /\ SlowPeriod \in Nat /\ 0 < FastPeriod
      /\ FastPeriod <= SlowPeriod /\ 2 * SlowPeriod < Uint16 /\ Uint16 \in Nat
  BY PeriodAssumption DEF Uint16
<1>1. blinkCount \in Nat /\ blinkCount < 2 * SlowPeriod /\ (blinkCount + 1) % Uint16 = blinkCount + 1
  <2>1. blinkCount \in Nat
    BY <1>0 DEF LedTypeOK
  <2>2. blinkCount < 2 * SlowPeriod
    BY DEF BlinkInStep
  <2>3. blinkCount + 1 \in Nat /\ blinkCount + 1 < Uint16
    BY <1>0, <2>1, <2>2
  <2>4. (blinkCount + 1) % Uint16 = blinkCount + 1
    BY <2>3, NoWrap
  <2> QED
    BY <2>1, <2>2, <2>4
<1>2. CASE PairStatusMoves
  <2>1. pairStatus' # "PAIR_DONE" => pairStatus # "PAIR_DONE"
    BY <1>2 DEF PairStatusMoves
  <2>2. blinkCount' = blinkCount
    BY <1>2 DEF PairStatusMoves
  <2>3. LedTypeOK'
    BY <1>2 DEF PairStatusMoves, LedTypeOK
  <2> QED
    BY <2>1, <2>2, <2>3 DEF BlinkInStep
<1>3. CASE PlaneMoves \/ UNCHANGED ledVars
  <2>1. blinkCount' = blinkCount /\ pairStatus' = pairStatus
    BY <1>3 DEF PlaneMoves, ledVars
  <2>2. LedTypeOK'
    <3>1. CASE PlaneMoves
      BY <3>1 DEF PlaneMoves, LedTypeOK
    <3>2. CASE UNCHANGED ledVars
      BY <3>2 DEF ledVars, LedTypeOK
    <3> QED
      BY <1>3, <3>1, <3>2
  <2> QED
    BY <2>1, <2>2 DEF BlinkInStep
<1>4. CASE LedHandle
  <2> DEFINE Colors == {"BLACK", "RED", "CYAN", "YELLOW", "GREEN", "BLUE"}
  <2>1. pairStatus' = pairStatus /\ signalStatus' = signalStatus /\ lock' = lock
    BY <1>4 DEF LedHandle, shownVars
  <2>2. ASSUME NEW p \in {FastPeriod, SlowPeriod}, NEW color, TopLedBlink(color, p),
               blinkCount < 2 * p
        PROVE  blinkCount' \in Nat /\ blinkCount' < 2 * p
    <3>1. blinkCount' = IF blinkCount + 1 = 2 * p THEN 0 ELSE blinkCount + 1
      BY <1>1, <2>2 DEF TopLedBlink
    <3>2. p \in Nat /\ 0 < p
      BY <1>0
    <3> QED
      BY <1>1, <2>2, <3>1, <3>2
  <2>3. CASE pairStatus = "PAIR_START"
    <3>1. TopLedBlink("CYAN", FastPeriod) /\ blinkCount < 2 * FastPeriod
      BY <1>4, <2>3 DEF LedHandle, BlinkInStep
    <3>2. blinkCount' \in Nat /\ blinkCount' < 2 * FastPeriod
      BY <2>2, <3>1
    <3>3. lamp' \in Colors
      BY <3>1 DEF TopLedBlink, LedTypeOK
    <3>4. blinkCount' \in 0..Uint16 - 1 /\ blinkCount' < 2 * SlowPeriod
      <4>1. blinkCount' < 2 * SlowPeriod
        BY <1>0, <3>2
      <4>2. blinkCount' \in Nat /\ blinkCount' < Uint16
        BY <1>0, <3>2
      <4> QED
        BY <4>1, <4>2, NoWrap
    <3> QED
      BY <2>1, <3>2, <3>3, <3>4 DEF LedTypeOK, BlinkInStep
  <2>4. CASE pairStatus = "PAIR_DONE" /\ signalStatus = "LOST"
    <3>1. TopLedBlink("YELLOW", SlowPeriod)
      BY <1>4, <2>4 DEF LedHandle
    <3>2. blinkCount' \in Nat /\ blinkCount' < 2 * SlowPeriod
      BY <1>1, <2>2, <3>1
    <3>3. lamp' \in Colors
      BY <3>1 DEF TopLedBlink, LedTypeOK
    <3>4. blinkCount' \in 0..Uint16 - 1
      <4>1. blinkCount' \in Nat /\ blinkCount' < Uint16
        BY <1>0, <3>2
      <4> QED
        BY <4>1, NoWrap
    <3> QED
      BY <2>1, <2>4, <3>2, <3>3, <3>4 DEF LedTypeOK, BlinkInStep
  <2>5. CASE pairStatus # "PAIR_START" /\ ~(pairStatus = "PAIR_DONE" /\ signalStatus = "LOST")
    <3>1. lamp' \in Colors /\ blinkCount' = blinkCount
      BY <1>4, <2>5 DEF LedHandle, TopLedColorSet, LedTypeOK
    <3> QED
      BY <2>1, <3>1 DEF LedTypeOK, BlinkInStep
  <2> QED
    BY <2>3, <2>4, <2>5
<1> QED
  BY <1>2, <1>3, <1>4 DEF LedNext

\* For any two periods of which the first is not the longer, a lamp that blinks meets the
\* end of its period and never runs to the wrap of the counter (driver/led.c:65-76).
THEOREM BlinksInStep == LedSpec => []BlinkInStep
<1>1. LedInit => LedTypeOK /\ BlinkInStep
  BY PeriodAssumption DEF LedInit, LedTypeOK, BlinkInStep, Uint16
<1> QED
  BY <1>1, LedNextInv, PTL DEF LedSpec

-----------------------------------------------------------------------------
\* PowerControl: the counts of the code say what the history says.

PowerInv ==
  /\ PowerTypeOK
  /\ powerOut <=> powerStatus = 1
  /\ powerStatus = 0 => unpaired = None
  /\ powerOffCount = 1 <=> Pairs
  /\ powerOffCount = 1 => powerOffTimeCount = unpaired
  /\ powerOffCount = 0 => powerOffTimeCount = 0

LEMMA PowerNextInv == PowerInv /\ [PowerControlHandle]_powerVars => PowerInv'
<1> SUFFICES ASSUME PowerInv, [PowerControlHandle]_powerVars PROVE PowerInv'
  OBVIOUS
<1>0. Window \in 1..255
  BY WindowAssumption
<1> USE DEF PowerInv, PowerTypeOK, Pairs, None
<1>1. CASE NoPress
  BY <1>0, <1>1 DEF NoPress, Waited
<1>2. CASE PressOn
  BY <1>0, <1>2 DEF PressOn, Waited
<1>3. CASE PressFirst
  <2>1. powerStatus = 1 /\ powerOffCount = 0 /\ powerOffTimeCount = 0 /\ ~Pairs
    BY <1>3 DEF PressFirst
  <2>2. powerStatus' = 1 /\ powerOut' = powerOut /\ unpaired' = 1 /\ Waited(1)
    BY <1>3, <2>1 DEF PressFirst, PressNoted
  <2>3. CASE Window = 1
    <3>1. powerOffCount' = 0 /\ powerOffTimeCount' = 0
      BY <2>1, <2>2, <2>3 DEF Waited
    <3> QED
      BY <2>1, <2>2, <2>3, <3>1
  <2>4. CASE Window # 1
    <3>1. powerOffCount' = 1 /\ powerOffTimeCount' = 1
      BY <2>1, <2>2, <2>4 DEF Waited
    <3>2. 1 \in 1..Window - 1 /\ 1 \in 0..Window
      BY <1>0, <2>4
    <3> QED
      BY <2>1, <2>2, <3>1, <3>2
  <2> QED
    BY <2>3, <2>4
<1>4. CASE PressSecond
  <2>1. powerStatus' = 0 /\ powerOut' = FALSE /\ powerOffCount' = 0 /\ powerOffTimeCount' = 0
    BY <1>4 DEF PressSecond
  <2>2. powerOffCount = 1 /\ unpaired' = 0
    BY <1>4 DEF PressSecond, PressNoted
  <2>3. 0 \in 0..Window - 1 /\ 0 \in 0..Window /\ 0 \notin 1..Window - 1
    BY <1>0
  <2>4. PowerTypeOK'
    <3>1. powerStatus' \in 0..1 /\ powerOffCount' \in 0..1
      BY <2>1
    <3>2. powerOffTimeCount' \in 0..Window - 1 /\ unpaired' \in 0..Window
      BY <2>1, <2>2, <2>3
    <3> QED
      BY <2>1, <3>1, <3>2
  <2>5. ~(powerOffCount' = 1) /\ ~Pairs'
    BY <2>1, <2>2, <2>3
  <2> QED
    BY <2>1, <2>2, <2>4, <2>5
<1>5. CASE UNCHANGED powerVars
  BY <1>5 DEF powerVars
<1> QED
  BY <1>1, <1>2, <1>3, <1>4, <1>5 DEF PowerControlHandle

\* For any window a press switches the remote off exactly if it pairs with one before
\* (power_control.c:24-42).
THEOREM SwitchesOff == PowerSpec => TwoPressesSwitchOff
<1>1. PowerInit => PowerInv
  <2> SUFFICES ASSUME PowerInit PROVE PowerInv
    OBVIOUS
  <2>0. Window \in 1..255
    BY WindowAssumption
  <2>1. PowerTypeOK
    <3>1. powerStatus \in 0..1 /\ powerOffCount \in 0..1 /\ unpaired \in 0..Window
      BY <2>0 DEF PowerInit, None
    <3>2. powerOffTimeCount \in 0..Window - 1
      BY <2>0 DEF PowerInit
    <3>3. powerOut \in BOOLEAN
      BY DEF PowerInit
    <3> QED
      BY <3>1, <3>2, <3>3 DEF PowerTypeOK
  <2>2. ~Pairs
    BY DEF PowerInit, Pairs, None
  <2> QED
    BY <2>1, <2>2 DEF PowerInit, PowerInv
<1>2. PowerInv /\ [PowerControlHandle]_powerVars =>
        [PressFirst \/ PressSecond => (powerOut' = FALSE <=> Pairs)]_powerVars
  BY DEF PowerInv, PowerTypeOK, PressFirst, PressSecond
<1> QED
  BY <1>1, <1>2, PowerNextInv, PTL DEF PowerSpec, TwoPressesSwitchOff

-----------------------------------------------------------------------------
\* Keys: a closed contact with a clear flag was closed since its last key, but while the
\* scan of the switch has just cleared the flag.

FlagInv ==
  /\ reading = "second" => keyPushFlag[ContactOf(scan)] = 0
  /\ \A c \in Named : closed[c] /\ keyPushFlag[c] = 0 =>
       pressed[c] \/ (reading = "second" /\ ~ForKey(scan) /\ c = ContactOf(scan))

KeysInv == KeysTypeOK /\ FlagInv

LEMMA ContactFacts ==
  ASSUME KeysTypeOK
  PROVE  /\ Len(Contacts) \in Nat /\ Len(Contacts) > 0
         /\ scan \in Nat /\ ContactOf(scan) \in Named
<1>1. Contacts \in Seq(STRING) /\ Len(Contacts) > 0
  BY KeysAssumption
<1>2. Len(Contacts) \in Nat /\ DOMAIN Contacts = 1..Len(Contacts)
  BY <1>1
<1>3. scan \in 1..2 * Len(Contacts)
  BY DEF KeysTypeOK, Scans
<1>4. (IF ForKey(scan) THEN scan ELSE scan - Len(Contacts)) \in 1..Len(Contacts)
  BY <1>2, <1>3 DEF ForKey
<1> QED
  BY <1>1, <1>2, <1>3, <1>4 DEF ContactOf, Named

LEMMA KeysNextInv == KeysInv /\ [KeysNext]_keysVars => KeysInv'
<1> SUFFICES ASSUME KeysInv, [KeysNext]_keysVars PROVE KeysInv'
  OBVIOUS
<1>0. ContactOf(scan) \in Named /\ scan \in 1..Scans /\ Len(Contacts) \in Nat \ {0}
  BY ContactFacts DEF KeysInv, KeysTypeOK
<1> USE DEF KeysInv, FlagInv
<1>1. ASSUME NEW c \in Named, ContactMoves(c) PROVE KeysInv'
  BY <1>0, <1>1 DEF ContactMoves, KeysTypeOK, ContactOf, ForKey
<1>2. CASE RoundStarts
  BY <1>0, <1>2 DEF RoundStarts, KeysTypeOK, ContactOf, ForKey
<1>3. CASE FirstReading
  BY <1>0, <1>3 DEF FirstReading, Answered, AtFirst, KeysTypeOK, ContactOf, ForKey
<1>4. CASE SecondReading
  BY <1>0, <1>4 DEF SecondReading, Answered, KeysTypeOK, ContactOf, ForKey
<1>5. CASE LastReading
  <2>1. scan' \in 1..Scans
    BY <1>0, <1>5 DEF LastReading, Scans
  <2>2. KeysTypeOK'
    BY <1>0, <1>5, <2>1 DEF LastReading, KeysTypeOK
  <2> QED
    BY <1>0, <1>5, <2>2 DEF LastReading, KeysTypeOK
<1>6. CASE GetKeyValue
  BY <1>6 DEF GetKeyValue, KeysTypeOK, ContactOf, ForKey
<1>7. CASE UNCHANGED keysVars
  BY <1>7 DEF keysVars, KeysTypeOK, ContactOf, ForKey
<1> QED
  BY <1>1, <1>2, <1>3, <1>4, <1>5, <1>6, <1>7 DEF KeysNext

\* For any contacts a closing counts once, however long it is held and whatever the other scan does,
\* although the scan of the switch clears the flag of the key (key.c:42-71).
THEOREM PressCountsOnce == KeysSpec => OneKeyPerPress
<1>1. KeysInit => KeysInv
  BY KeysAssumption DEF KeysInit, KeysInv, KeysTypeOK, FlagInv, Scans
<1>2. KeysInv /\ [KeysNext]_keysVars =>
        [\A c \in Named : keyValue[c] # 1 /\ keyValue'[c] = 1 => pressed[c]]_keysVars
  <2> SUFFICES ASSUME KeysInv, KeysNext, NEW c \in Named, keyValue[c] # 1, keyValue'[c] = 1
               PROVE  pressed[c]
    OBVIOUS
  <2>0. ContactOf(scan) \in Named
    BY ContactFacts DEF KeysInv
  <2>1. ~RoundStarts /\ ~LastReading /\ ~GetKeyValue /\ ~\E d \in Named : ContactMoves(d)
    BY DEF RoundStarts, LastReading, GetKeyValue, ContactMoves
  <2>2. CASE FirstReading
    BY <2>0, <2>2 DEF FirstReading, Answered, KeysInv, KeysTypeOK
  <2>3. CASE SecondReading
    BY <2>0, <2>3 DEF SecondReading, Answered, KeysInv, FlagInv, KeysTypeOK
  <2> QED
    BY <2>1, <2>2, <2>3 DEF KeysNext
<1> QED
  BY <1>1, <1>2, KeysNextInv, PTL DEF KeysSpec, OneKeyPerPress
=============================================================================

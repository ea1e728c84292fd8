--------------------------------- MODULE Menu ---------------------------------
(***************************************************************************)
(* module/oled_display.c: the table of pages and how the display thread     *)
(* walks through it.  Pages are numbered as in E_Interface; a page's entry  *)
(* next is what its ok key opens, and RemoteInterface changes its own.      *)
(*                                                                         *)
(* The pages of the plane (PLANE and PLANE_ACC_CALIBRATE on) are not        *)
(* modelled: a display that got there could take no step.                   *)
(***************************************************************************)
EXTENDS Integers

VARIABLES
  menuPage,
  remoteNext,      \* oledMenu[REMOTE].next
  row,             \* of RemoteInterface: where the arrow is drawn
  arrow,           \* the arrow on the screen, 0 if there is none
  paired           \* the pair status is PAIR_DONE

menuVars == <<menuPage, remoteNext, row, arrow, paired>>

MAIN == 0
REMOTE == 1
ELECTRIC == 3
RUDDER == 4
ARM_CALIBRATE == 5
PAGE_NUM == 10

MenuKeys == {"up", "down", "ok", "cancel"}

\* Where cancel leads from the pages that RemoteInterface opens.
back == [p \in {ELECTRIC, RUDDER, ARM_CALIBRATE} |-> REMOTE]

\* A uint8_t.
Uint8(n) == n % 256

MenuInit ==
  /\ menuPage = MAIN
  /\ remoteNext = ELECTRIC
  /\ row = 2 /\ arrow = 0
  /\ paired = FALSE

\* pair_thread ends its search; a paired remote stays paired (module Pairing).
PairingDone ==
  /\ ~paired /\ paired' = TRUE
  /\ UNCHANGED <<menuPage, remoteNext, row, arrow>>

\* The page of the display's first state; the other keys are those of module Pairing.
OledDisplayPairStatus(keys) ==
  /\ menuPage = MAIN
  /\ menuPage' = IF paired /\ "ok" \in keys THEN REMOTE ELSE MAIN
  /\ UNCHANGED <<remoteNext, row, arrow, paired>>

-----------------------------------------------------------------------------
\* RemoteInterface: at most one key counts, in the order of its branches.

\* Row and arrow after the page was drawn, before its keys.
DrawnRow == IF row \in 2..6 THEN row ELSE 2
DrawnArrow == IF row \in 2..6 THEN row ELSE arrow

\* Mutant of Clamped: the last entry is one too far.
Clamped_OneMore(n) == IF n < ELECTRIC \/ n > ARM_CALIBRATE + 1 THEN ELECTRIC ELSE n

\* An entry outside the three is set to the first.
Clamped(n) == IF n < ELECTRIC \/ n > ARM_CALIBRATE THEN ELECTRIC ELSE n

\* Mutant of RemoteScrolled: the entry is kept at the ends, the arrow goes round.
RemoteScrolled_KeepsEntry(keys) ==
  /\ menuPage = REMOTE /\ keys \cap {"up", "down"} # {}
  /\ LET d == IF "up" \in keys THEN -1 ELSE 1 IN
       /\ remoteNext' = IF remoteNext + d \in ELECTRIC..ARM_CALIBRATE THEN remoteNext + d ELSE remoteNext
       /\ row' = Uint8(DrawnRow + 2 * d)
  /\ arrow' = 0
  /\ UNCHANGED <<menuPage, paired>>

RemoteScrolled(keys) ==
  /\ menuPage = REMOTE /\ keys \cap {"up", "down"} # {}
  /\ LET d == IF "up" \in keys THEN -1 ELSE 1 IN
       /\ remoteNext' = Clamped(Uint8(remoteNext + d))
       /\ row' = Uint8(DrawnRow + 2 * d)
  /\ arrow' = 0
  /\ UNCHANGED <<menuPage, paired>>

RemoteLeft(keys) ==
  /\ menuPage = REMOTE /\ keys \cap {"up", "down"} = {} /\ keys \cap {"cancel", "ok"} # {}
  /\ menuPage' = IF "cancel" \in keys THEN MAIN ELSE remoteNext
  /\ row' = DrawnRow /\ arrow' = 0
  /\ remoteNext' = IF menuPage' = REMOTE THEN Clamped(remoteNext) ELSE remoteNext
  /\ UNCHANGED paired

RemoteDrawn(keys) ==
  /\ menuPage = REMOTE /\ keys = {}
  /\ row' = DrawnRow /\ arrow' = DrawnArrow
  /\ remoteNext' = Clamped(remoteNext)
  /\ UNCHANGED <<menuPage, paired>>

RemoteInterface(keys) == RemoteScrolled(keys) \/ RemoteLeft(keys) \/ RemoteDrawn(keys)

-----------------------------------------------------------------------------
\* RemoteElectric, RudderIndicator and RemoteCalibrateInterface; the last also leaves when a
\* calibration is done (module StickCalibration).
OtherPage(keys) ==
  /\ menuPage \in {ELECTRIC, RUDDER, ARM_CALIBRATE}
  /\ \/ /\ "cancel" \in keys \/ menuPage = ARM_CALIBRATE
        /\ menuPage' = back[menuPage]
     \/ /\ "cancel" \notin keys
        /\ UNCHANGED menuPage
  /\ UNCHANGED <<remoteNext, row, arrow, paired>>

\* A round of the thread with the keys it took.
DisplayThread ==
  \E keys \in SUBSET MenuKeys :
    OledDisplayPairStatus(keys) \/ RemoteInterface(keys) \/ OtherPage(keys)

MenuNext == PairingDone \/ DisplayThread

MenuSpec == MenuInit /\ [][MenuNext]_menuVars

-----------------------------------------------------------------------------
MenuTypeOK ==
  /\ menuPage \in 0..PAGE_NUM - 1
  /\ remoteNext \in 0..255 /\ row \in 0..255 /\ arrow \in {0, 2, 4, 6}
  /\ paired \in BOOLEAN

\* No sequence of keys leads to a page of the plane, whose calibrations and frames are
\* therefore out of the user's reach although the table holds them, or to any page but the
\* first before the remote is paired (module/oled_display.c:52-76, 516-520).
PagesReachable ==
  /\ menuPage \in {MAIN, REMOTE, ELECTRIC, RUDDER, ARM_CALIBRATE}
  /\ menuPage # MAIN => paired

\* The arrow, which is counted in a static variable of its own and scrolls round by leaving
\* the screen, stands beside the entry that ok opens (module/oled_display.c:484-514).
ArrowOpens == arrow # 0 => arrow = 2 * (remoteNext - ELECTRIC) + 2
=============================================================================

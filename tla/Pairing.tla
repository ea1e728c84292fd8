------------------------------- MODULE Pairing -------------------------------
(***************************************************************************)
(* module/pair_freq.c with the two threads that depend on it: pair_thread   *)
(* (the highest priority) looks for a plane and pairs with it, the main     *)
(* page of the display starts an attempt and offers another after a         *)
(* failure, and master_task_thread uses the radio once the remote is        *)
(* paired.                                                                  *)
(*                                                                         *)
(* The display and the master run only while pair_thread waits for the chip *)
(* or sleeps, so an action of pair_thread is what it does between two waits *)
(* and the others' actions are cut where they read or write its state.      *)
(*                                                                         *)
(* Chip and plane are external.  A packet arrives if both ends use the same *)
(* address; its acknowledgement carries the answer the plane had prepared   *)
(* before the packet came.                                                  *)
(***************************************************************************)
EXTENDS Integers

CONSTANTS
  CountMax,       \* what pairCount may reach in an attempt: 60
  Copies          \* times the new address is sent: 3

ASSUME PairingAssumption == CountMax \in 1..254 /\ Copies \in Nat \ {0}

VARIABLES
  \* pair_freq.c
  status, detectStatus,     \* of the struct pair
  step,                     \* sendPairPacket.step
  pairCount,
  pc,                       \* where pair_thread is
  sent,                     \* copies sent in this round of STEP3
  \* the display
  displayPc, shown, key,    \* its place, its copy of pair, the ok key it read
  menuPage,
  \* the master
  masterPc,
  \* the chip
  address,                  \* what TX_ADDR and RF_CH are set to
  tx,                       \* the packet in flight, or how it ended
  rx,                       \* the oldest answer in the receive FIFO
  \* the plane
  planeAddress, answer,     \* its address, and the answer it has prepared
  lossy                     \* may packets be lost and the plane restart, still

pairVars == <<status, detectStatus, step, pairCount, pc, sent>>
displayVars == <<displayPc, shown, key, menuPage>>
chipVars == <<address, tx, rx>>
planeVars == <<planeAddress, answer, lossy>>
vars == <<pairVars, displayVars, masterPc, chipVars, planeVars>>

Init ==
  /\ status = "PAIR_NOT" /\ detectStatus = "DETECT_NOT"
  /\ step = "STEP1" /\ pairCount = 0
  /\ pc = "top" /\ sent = 0
  /\ displayPc = "read" /\ shown = <<"PAIR_NOT", "DETECT_NOT">> /\ key = FALSE
  /\ menuPage = "MAIN"
  /\ masterPc = "top"
  /\ address = "common" /\ tx = "none" /\ rx = "none"
  /\ planeAddress = "common" /\ answer = "none" /\ lossy = TRUE

-----------------------------------------------------------------------------
\* pair_thread

\* The thread ends when it finds the remote paired.
PairThreadEnds ==
  /\ pc = "top" /\ status = "PAIR_DONE"
  /\ pc' = "ended"
  /\ UNCHANGED <<status, detectStatus, step, pairCount, sent, displayVars, masterPc,
                 chipVars, planeVars>>

Packet == CASE status = "PAIR_NOT" -> "detect"
            [] status = "PAIR_START" -> step

\* Pair up to its first packet.
PairSends ==
  /\ pc = "top" /\ status \in {"PAIR_NOT", "PAIR_START"}
  /\ tx' = Packet
  /\ pc' = IF status = "PAIR_NOT" THEN "detect" ELSE step
  /\ sent' = 0
  /\ UNCHANGED <<status, detectStatus, step, pairCount, displayVars, masterPc,
                 address, rx, planeVars>>

\* A copy of the new address was sent, or not acknowledged; then it sleeps 500 ms.
CopySent ==
  /\ pc = "STEP3" /\ tx \in {"ok", "failed"}
  /\ tx' = "none"
  /\ sent' = sent + 1
  /\ pc' = "copied"
  /\ UNCHANGED <<status, detectStatus, step, pairCount, displayVars, masterPc,
                 address, rx, planeVars>>

NextCopy ==
  /\ pc = "copied" /\ sent < Copies
  /\ tx' = "STEP3"
  /\ pc' = "STEP3"
  /\ UNCHANGED <<status, detectStatus, step, pairCount, sent, displayVars, masterPc,
                 address, rx, planeVars>>

\* Mutant of Receive: the FIFO is not emptied.
Receive_KeepsFifo(s, d, seen) ==
  /\ UNCHANGED rx
  /\ detectStatus' = IF rx = "none" THEN "DETECT_NOT"
                     ELSE IF s = "PAIR_NOT" /\ rx = "detected" THEN "DETECT_NORMAL"
                     ELSE seen
  /\ step' = IF s = "PAIR_START" /\ rx = "STEP2" THEN "STEP3" ELSE d
  /\ status' = IF s = "PAIR_START" /\ rx = "STEP5" THEN "PAIR_DONE" ELSE s

\* What the end of Pair makes of the receive FIFO, which it empties: s and d are
\* the status and the step before it, seen is detectStatus.
Receive(s, d, seen) ==
  /\ rx' = "none"
  /\ detectStatus' = IF rx = "none" THEN "DETECT_NOT"
                     ELSE IF s = "PAIR_NOT" /\ rx = "detected" THEN "DETECT_NORMAL"
                     ELSE seen
  /\ step' = IF s = "PAIR_START" /\ rx = "STEP2" THEN "STEP3" ELSE d
  /\ status' = IF s = "PAIR_START" /\ rx = "STEP5" THEN "PAIR_DONE" ELSE s

\* Mutant of AttemptCounted: the count is not reset.
AttemptCounted_NoReset(d, a) ==
  IF pairCount + 1 > CountMax
  THEN /\ pairCount' = pairCount + 1
       /\ address' = "common"
       /\ Receive("PAIR_FAIL", "STEP1", detectStatus)
  ELSE /\ pairCount' = pairCount + 1
       /\ address' = a
       /\ Receive("PAIR_START", d, detectStatus)

\* Mutant of AttemptCounted: the step survives a failure.
AttemptCounted_KeepsStep(d, a) ==
  IF pairCount + 1 > CountMax
  THEN /\ pairCount' = 0
       /\ address' = "common"
       /\ Receive("PAIR_FAIL", d, detectStatus)
  ELSE /\ pairCount' = pairCount + 1
       /\ address' = a
       /\ Receive("PAIR_START", d, detectStatus)

\* Mutant of AttemptCounted: only the search for STEP2 is counted.
AttemptCounted_NotStep4(d, a) ==
  IF pairCount + 1 > CountMax
  THEN /\ pairCount' = 0
       /\ address' = "common"
       /\ Receive("PAIR_FAIL", "STEP1", detectStatus)
  ELSE /\ pairCount' = IF d = "STEP4" THEN pairCount ELSE pairCount + 1
       /\ address' = a
       /\ Receive("PAIR_START", d, detectStatus)

\* The end of a call of Pair whose packet was one of the attempt: it is counted,
\* the last one failed.  The step is then d and the address a.
AttemptCounted(d, a) ==
  IF pairCount + 1 > CountMax
  THEN /\ pairCount' = 0
       /\ address' = "common"
       /\ Receive("PAIR_FAIL", "STEP1", detectStatus)
  ELSE /\ pairCount' = pairCount + 1
       /\ address' = a
       /\ Receive("PAIR_START", d, detectStatus)

Detected ==
  /\ pc = "detect" /\ tx \in {"ok", "failed"}
  /\ tx' = "none"
  /\ Receive(status, step, IF tx = "ok" THEN "DETECT_NORMAL" ELSE "DETECT_NOT")
  /\ pc' = "sleep"
  /\ UNCHANGED <<pairCount, sent, address, displayVars, masterPc, planeVars>>

\* STEP1 and STEP4.
StepSent ==
  /\ pc \in {"STEP1", "STEP4"} /\ tx \in {"ok", "failed"}
  /\ tx' = "none"
  /\ AttemptCounted(step, address)
  /\ pc' = "sleep"
  /\ UNCHANGED <<sent, displayVars, masterPc, planeVars>>

\* Mutant of AddressSet: the step goes on without the new address.
AddressSet_NotSet ==
  /\ pc = "copied" /\ sent = Copies
  /\ AttemptCounted("STEP4", address)
  /\ pc' = "sleep"
  /\ UNCHANGED <<sent, tx, displayVars, masterPc, planeVars>>

\* After the last copy the remote takes the new address itself.
AddressSet ==
  /\ pc = "copied" /\ sent = Copies
  /\ AttemptCounted("STEP4", "own")
  /\ pc' = "sleep"
  /\ UNCHANGED <<sent, tx, displayVars, masterPc, planeVars>>

\* After a failure Pair sends nothing, and still empties the FIFO.
NothingSent ==
  /\ pc = "top" /\ status = "PAIR_FAIL"
  /\ Receive(status, step, detectStatus)
  /\ pc' = "sleep"
  /\ UNCHANGED <<pairCount, sent, address, tx, displayVars, masterPc, planeVars>>

PairWakes ==
  /\ pc = "sleep"
  /\ pc' = "top"
  /\ UNCHANGED <<status, detectStatus, step, pairCount, sent, displayVars, masterPc,
                 chipVars, planeVars>>

PairThread ==
  \/ PairThreadEnds \/ PairSends \/ Detected \/ StepSent
  \/ CopySent \/ NextCopy \/ AddressSet \/ NothingSent \/ PairWakes

-----------------------------------------------------------------------------
\* The main page of the display.

\* The page takes its copy of pair and, before that, the key.
DisplayReads(ok) ==
  /\ displayPc = "read" /\ menuPage = "MAIN"
  /\ shown' = <<status, detectStatus>>
  /\ key' = ok
  /\ displayPc' = "act"
  /\ UNCHANGED <<menuPage, pairVars, masterPc, chipVars, planeVars>>

NoPlane == shown[2] = "DETECT_NOT" /\ shown[1] # "PAIR_DONE"

\* Mutant of DisplayActs: ok also cancels an attempt.
DisplayActs_Cancels ==
  /\ displayPc = "act"
  /\ status' =
       IF ~key \/ NoPlane THEN status
       ELSE IF shown[1] = "PAIR_NOT" THEN "PAIR_START"
       ELSE IF shown[1] \in {"PAIR_FAIL", "PAIR_START"} THEN "PAIR_NOT" ELSE status
  /\ menuPage' = IF key /\ shown[1] = "PAIR_DONE" THEN "REMOTE" ELSE menuPage
  /\ displayPc' = "read"
  /\ UNCHANGED <<shown, key, detectStatus, step, pairCount, pc, sent, masterPc,
                 chipVars, planeVars>>

\* What the page does on its copy, which pair_thread may have overtaken.
DisplayActs ==
  /\ displayPc = "act"
  /\ status' =
       IF ~key \/ NoPlane THEN status
       ELSE IF shown[1] = "PAIR_NOT" THEN "PAIR_START"
       ELSE IF shown[1] = "PAIR_FAIL" THEN "PAIR_NOT" ELSE status
  /\ menuPage' = IF key /\ shown[1] = "PAIR_DONE" THEN "REMOTE" ELSE menuPage
  /\ displayPc' = "read"
  /\ UNCHANGED <<shown, key, detectStatus, step, pairCount, pc, sent, masterPc,
                 chipVars, planeVars>>

\* Mutant of MasterSends: any attempt counts as paired.
MasterSends_NotNot ==
  /\ masterPc = "top" /\ status # "PAIR_NOT"
  /\ masterPc' = "tx"
  /\ UNCHANGED <<pairVars, displayVars, chipVars, planeVars>>

\* master_task_thread tests the status, then sends and reads.
MasterSends ==
  /\ masterPc = "top" /\ status = "PAIR_DONE"
  /\ masterPc' = "tx"
  /\ UNCHANGED <<pairVars, displayVars, chipVars, planeVars>>

MasterReads ==
  /\ masterPc = "tx"
  /\ masterPc' = "top"
  /\ UNCHANGED <<pairVars, displayVars, chipVars, planeVars>>

-----------------------------------------------------------------------------
\* The plane's part of the protocol.

InFlight == tx \in {"detect", "STEP1", "STEP3", "STEP4"}

\* The packet reaches the plane, which acts on it and prepares its next answer.
Arrives ==
  /\ InFlight /\ address = planeAddress
  /\ answer' = CASE tx = "detect" -> "detected"
                 [] tx = "STEP1" -> "STEP2"
                 [] tx = "STEP3" -> "none"
                 [] tx = "STEP4" -> "STEP5"
  /\ planeAddress' = IF tx = "STEP3" THEN "own" ELSE planeAddress
  /\ \/ /\ tx' = "ok"
        /\ rx' \in {IF rx = "none" THEN answer ELSE rx} \cup (IF lossy THEN {rx} ELSE {})
     \/ /\ lossy /\ tx' = "failed"
        /\ UNCHANGED rx
  /\ UNCHANGED <<pairVars, displayVars, masterPc, address, lossy>>

\* It does not, and the chip gives up.
GetsLost ==
  /\ InFlight /\ (lossy \/ address # planeAddress)
  /\ tx' = "failed"
  /\ UNCHANGED <<pairVars, displayVars, masterPc, address, rx, planeVars>>

\* The plane is switched off and on.
PlaneRestarts ==
  /\ lossy
  /\ planeAddress' = "common" /\ answer' = "none"
  /\ UNCHANGED <<pairVars, displayVars, masterPc, chipVars, lossy>>

\* From now on the plane stays on and in range.
PlaneStays ==
  /\ lossy
  /\ lossy' = FALSE
  /\ UNCHANGED <<pairVars, displayVars, masterPc, chipVars, planeAddress, answer>>

Chip == Arrives \/ GetsLost
Display == (\E ok \in BOOLEAN : DisplayReads(ok)) \/ DisplayActs
Master == MasterSends \/ MasterReads

Next == PairThread \/ Display \/ Master \/ Chip \/ PlaneRestarts \/ PlaneStays

Spec == Init /\ [][Next]_vars

\* Threads are scheduled, the chip ends every transmission, and the user keeps
\* pressing ok.
FairSpec ==
  /\ Spec
  /\ WF_vars(PairThread) /\ WF_vars(Chip) /\ WF_vars(Display)
  /\ SF_vars(DisplayReads(TRUE))

-----------------------------------------------------------------------------
Status == {"PAIR_NOT", "PAIR_START", "PAIR_DONE", "PAIR_FAIL"}
Detect == {"DETECT_NOT", "DETECT_NORMAL"}

\* Type correctness.
TypeOK ==
  /\ status \in Status /\ detectStatus \in Detect
  /\ step \in {"STEP1", "STEP3", "STEP4"}
  /\ pairCount \in 0..CountMax
  /\ pc \in {"top", "detect", "STEP1", "STEP3", "copied", "STEP4", "sleep", "ended"}
  /\ sent \in 0..Copies
  /\ displayPc \in {"read", "act"} /\ shown \in Status \X Detect /\ key \in BOOLEAN
  /\ menuPage \in {"MAIN", "REMOTE"}
  /\ masterPc \in {"top", "tx"}
  /\ address \in {"common", "own"} /\ planeAddress \in {"common", "own"}
  /\ tx \in {"none", "detect", "STEP1", "STEP3", "STEP4", "ok", "failed"}
  /\ rx \in {"none", "detected", "STEP2", "STEP5"}
  /\ answer \in {"none", "detected", "STEP2", "STEP5"}
  /\ lossy \in BOOLEAN

\* A pairing that succeeded is never undone, though the display writes the
\* status on a copy that pair_thread may have overtaken.
DoneIsFinal == [][status = "PAIR_DONE" => status' = "PAIR_DONE"]_vars

\* A remote counts as paired only on its own address, never on the one all
\* remotes share, whatever late answer it was that completed the attempt.
PairedOnOwnAddress == status = "PAIR_DONE" => address = "own"

\* An attempt starts from nothing: neither a failed one nor the search leaves a
\* step, an address or a count behind.
AttemptStartsAfresh ==
  status \in {"PAIR_NOT", "PAIR_FAIL"} =>
    step = "STEP1" /\ pairCount = 0 /\ address = "common"

\* pair_thread and the master never use the chip at the same time: no mutex
\* guards it, only the order in which the status changes.
RadioExclusive == masterPc = "tx" => pc \notin {"detect", "STEP1", "STEP3", "STEP4"}

\* The pages that store frames are open only when the remote is paired.
PagesAfterPairing == menuPage # "MAIN" => status = "PAIR_DONE"

\* An attempt ends.
AttemptEnds == status = "PAIR_START" ~> status \in {"PAIR_DONE", "PAIR_FAIL"}

\* With the plane in range and on the remote's address a new attempt succeeds,
\* though the answers come one packet late and the plane may still hold one that
\* it prepared for an attempt before.
AttemptSucceeds ==
  ~lossy /\ status = "PAIR_START" /\ pairCount = 0 /\ planeAddress = address
    ~> status = "PAIR_DONE"

\* The page of a failed attempt offers to pair again: a user who keeps pressing
\* ok leaves it.
FailCanBeRetried == status = "PAIR_FAIL" ~> status # "PAIR_FAIL"
=============================================================================

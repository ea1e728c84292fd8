---------------------------- MODULE PairingProofs ----------------------------
(***************************************************************************)
(* Proofs about Pairing, for every CountMax and Copies whatever packets   *)
(* and answers are lost.                                                    *)
(***************************************************************************)
EXTENDS Pairing, TLAPS

\* pair_thread is in a round of the attempt, or past the attempt.
ThreadInv ==
  /\ pc \in {"STEP1", "STEP3", "copied", "STEP4"} => status = "PAIR_START"
  /\ pc = "STEP3" => sent < Copies
  /\ pc = "detect" => status \in {"PAIR_NOT", "PAIR_START"}
  /\ pc = "ended" => status = "PAIR_DONE"
  /\ AttemptStartsAfresh

\* The display's copy may only be stale about an attempt that has ended.
DisplayInv ==
  /\ displayPc = "act" /\ shown[1] # "PAIR_START" => status = shown[1]
  /\ PagesAfterPairing
  /\ masterPc = "tx" => status = "PAIR_DONE"

\* A STEP5 exists only on the remote's own address.
AddressInv ==
  /\ step = "STEP4" => address = "own"
  /\ tx = "STEP4" => pc = "STEP4" /\ address = "own"
  /\ answer = "STEP5" => planeAddress = "own"
  /\ rx = "STEP5" => address = "own"
  /\ PairedOnOwnAddress

IInv == TypeOK /\ ThreadInv /\ DisplayInv /\ AddressInv

\* What the end of Pair may do, of the values it starts from.
LEMMA ReceiveEffect ==
  ASSUME NEW s \in Status, NEW d \in {"STEP1", "STEP3", "STEP4"}, NEW seen \in Detect,
         Receive(s, d, seen)
  PROVE  /\ rx' = "none"
         /\ detectStatus' \in Detect
         /\ step' = d \/ (s = "PAIR_START" /\ step' = "STEP3")
         /\ status' = s \/ (s = "PAIR_START" /\ rx = "STEP5" /\ status' = "PAIR_DONE")
  BY DEF Receive, Status, Detect

\* How a call that counts may end: failed, or the attempt goes on or is done.
LEMMA AttemptEffect ==
  ASSUME TypeOK, NEW d \in {"STEP1", "STEP3", "STEP4"}, NEW a \in {"common", "own"},
         AttemptCounted(d, a)
  PROVE  /\ pairCount' \in 0..CountMax
         /\ rx' = "none"
         /\ detectStatus' \in Detect
         /\ \/ /\ status' = "PAIR_FAIL" /\ step' = "STEP1"
               /\ pairCount' = 0 /\ address' = "common"
            \/ /\ status' = "PAIR_START" \/ (rx = "STEP5" /\ status' = "PAIR_DONE")
               /\ step' \in {d, "STEP3"}
               /\ address' = a
<1>1. CASE pairCount + 1 > CountMax
  <2>1. Receive("PAIR_FAIL", "STEP1", detectStatus)
    BY <1>1 DEF AttemptCounted
  <2>2. /\ rx' = "none" /\ detectStatus' \in Detect
        /\ step' = "STEP1" /\ status' = "PAIR_FAIL"
    BY <2>1, ReceiveEffect DEF TypeOK, Status
  <2>3. pairCount' = 0 /\ address' = "common"
    BY <1>1 DEF AttemptCounted
  <2> QED BY <2>2, <2>3, PairingAssumption
<1>2. CASE ~(pairCount + 1 > CountMax)
  <2>1. Receive("PAIR_START", d, detectStatus)
    BY <1>2 DEF AttemptCounted
  <2>2. /\ rx' = "none" /\ detectStatus' \in Detect
        /\ step' \in {d, "STEP3"}
        /\ status' = "PAIR_START" \/ (rx = "STEP5" /\ status' = "PAIR_DONE")
    BY <2>1, ReceiveEffect DEF TypeOK, Status
  <2>3. pairCount' = pairCount + 1 /\ address' = a
    BY <1>2 DEF AttemptCounted
  <2>4. pairCount' \in 0..CountMax
    BY <2>3, <1>2, PairingAssumption DEF TypeOK
  <2> QED BY <2>2, <2>3, <2>4
<1> QED BY <1>1, <1>2

LEMMA InitInv == Init => IInv
<1> SUFFICES ASSUME Init PROVE IInv
  OBVIOUS
<1> USE DEF Init
<1>1. TypeOK
  <2>1. shown \in Status \X Detect
    BY DEF Status, Detect
  <2>2. pairCount \in 0..CountMax /\ sent \in 0..Copies
    BY PairingAssumption
  <2> QED BY <2>1, <2>2 DEF TypeOK, Status, Detect
<1>2. ThreadInv /\ DisplayInv /\ AddressInv
  BY DEF ThreadInv, DisplayInv, AddressInv, AttemptStartsAfresh, PagesAfterPairing,
         PairedOnOwnAddress
<1> QED BY <1>1, <1>2 DEF IInv

LEMMA StepInv == IInv /\ [Next]_vars => IInv'
<1> SUFFICES ASSUME IInv, [Next]_vars PROVE IInv'
  OBVIOUS
<1> USE DEF IInv, TypeOK, ThreadInv, DisplayInv, AddressInv, AttemptStartsAfresh,
            PagesAfterPairing, PairedOnOwnAddress, Status, Detect,
            pairVars, displayVars, chipVars, planeVars
<1>1. CASE PairThreadEnds
  BY <1>1 DEF PairThreadEnds
<1>2. CASE PairSends
  BY <1>2, PairingAssumption DEF PairSends, Packet
<1>3. CASE Detected
  <2>1. Receive(status, step, IF tx = "ok" THEN "DETECT_NORMAL" ELSE "DETECT_NOT")
    BY <1>3 DEF Detected
  <2>2. /\ rx' = "none" /\ detectStatus' \in Detect
        /\ step' = step \/ (status = "PAIR_START" /\ step' = "STEP3")
        /\ \/ status' = status
           \/ status = "PAIR_START" /\ rx = "STEP5" /\ status' = "PAIR_DONE"
    BY <2>1, ReceiveEffect
  <2> QED BY <1>3, <2>2 DEF Detected
<1>4. CASE StepSent
  <2>1. AttemptCounted(step, address)
    BY <1>4 DEF StepSent
  <2>2. /\ pairCount' \in 0..CountMax /\ rx' = "none" /\ detectStatus' \in Detect
        /\ \/ /\ status' = "PAIR_FAIL" /\ step' = "STEP1"
              /\ pairCount' = 0 /\ address' = "common"
           \/ /\ status' = "PAIR_START" \/ (rx = "STEP5" /\ status' = "PAIR_DONE")
              /\ step' \in {step, "STEP3"}
              /\ address' = address
    BY <2>1, AttemptEffect
  <2> QED BY <1>4, <2>2 DEF StepSent
<1>5. CASE CopySent
  <2>1. pc = "STEP3" /\ sent' = sent + 1
    BY <1>5 DEF CopySent
  <2>2. sent' \in 0..Copies
    <3>1. sent \in 0..Copies /\ sent < Copies
      BY <2>1
    <3> HIDE DEF IInv
    <3> QED BY <2>1, <3>1, PairingAssumption
  <2> QED BY <1>5, <2>2 DEF CopySent
<1>6. CASE NextCopy
  BY <1>6 DEF NextCopy
<1>7. CASE AddressSet
  <2>1. AttemptCounted("STEP4", "own")
    BY <1>7 DEF AddressSet
  <2>2. /\ pairCount' \in 0..CountMax /\ rx' = "none" /\ detectStatus' \in Detect
        /\ \/ /\ status' = "PAIR_FAIL" /\ step' = "STEP1"
              /\ pairCount' = 0 /\ address' = "common"
           \/ /\ status' = "PAIR_START" \/ (rx = "STEP5" /\ status' = "PAIR_DONE")
              /\ step' \in {"STEP4", "STEP3"}
              /\ address' = "own"
    BY <2>1, AttemptEffect
  <2> QED BY <1>7, <2>2 DEF AddressSet
<1>8. CASE NothingSent
  <2>1. Receive(status, step, detectStatus)
    BY <1>8 DEF NothingSent
  <2>2. /\ rx' = "none" /\ detectStatus' \in Detect
        /\ step' = step /\ status' = status
    BY <2>1, <1>8, ReceiveEffect DEF NothingSent
  <2> QED BY <1>8, <2>2 DEF NothingSent
<1>9. CASE PairWakes
  BY <1>9 DEF PairWakes
<1>10. ASSUME NEW ok \in BOOLEAN, DisplayReads(ok) PROVE IInv'
  BY <1>10 DEF DisplayReads
<1>11. CASE DisplayActs
  BY <1>11 DEF DisplayActs, NoPlane
<1>12. CASE Master
  BY <1>12 DEF Master, MasterSends, MasterReads
<1>13. CASE Arrives
  BY <1>13 DEF Arrives, InFlight
<1>14. CASE GetsLost
  BY <1>14 DEF GetsLost, InFlight
<1>15. CASE PlaneRestarts
  BY <1>15 DEF PlaneRestarts
<1>16. CASE PlaneStays
  <2>1. UNCHANGED <<status, detectStatus, step, pairCount, pc, sent, displayPc, shown,
                    key, menuPage, masterPc, address, tx, rx, planeAddress, answer>>
    BY <1>16 DEF PlaneStays
  <2>2. lossy' \in BOOLEAN
    BY <1>16 DEF PlaneStays
  <2>3. TypeOK'
    BY <2>1, <2>2
  <2>4. ThreadInv' /\ DisplayInv' /\ AddressInv'
    BY <2>1
  <2> QED BY <2>3, <2>4
<1>17. CASE UNCHANGED vars
  BY <1>17 DEF vars
<1> QED
  BY <1>1, <1>2, <1>3, <1>4, <1>5, <1>6, <1>7, <1>8, <1>9, <1>10, <1>11, <1>12, <1>13,
     <1>14, <1>15, <1>16, <1>17
  DEF Next, PairThread, Display, Chip

LEMMA Invariance == Spec => []IInv
<1>1. Init => IInv
  BY InitInv
<1>2. IInv /\ [Next]_vars => IInv'
  BY StepInv
<1> QED BY <1>1, <1>2, PTL DEF Spec

\* Every variable keeps to its type: pairCount never passes CountMax.
THEOREM TypeCorrect == Spec => []TypeOK
<1>1. IInv => TypeOK
  BY DEF IInv
<1> QED BY <1>1, Invariance, PTL

\* No late or stale answer completes a pairing on the address all remotes share
\* (pair_freq.c:170-177).
THEOREM DoneOnOwnAddress == Spec => []PairedOnOwnAddress
<1>1. IInv => PairedOnOwnAddress
  BY DEF IInv, AddressInv
<1> QED BY <1>1, Invariance, PTL

\* A failed attempt leaves nothing behind for the next (pair_freq.c:136-153).
THEOREM EveryAttemptIsFresh == Spec => []AttemptStartsAfresh
<1>1. IInv => AttemptStartsAfresh
  BY DEF IInv, ThreadInv
<1> QED BY <1>1, Invariance, PTL

\* The order in which the status changes is enough to keep pair_thread and the
\* master from using the chip together (pair_freq.c:30, transmit_packet.c:59).
THEOREM RadioIsExclusive == Spec => []RadioExclusive
<1>1. IInv => RadioExclusive
  BY DEF IInv, ThreadInv, DisplayInv, RadioExclusive
<1> QED BY <1>1, Invariance, PTL

\* The pages that store frames are reached only by a paired remote, the premise of
\* TransmitPath (oled_display.c:285-288).
THEOREM PagesOnlyWhenPaired == Spec => []PagesAfterPairing
<1>1. IInv => PagesAfterPairing
  BY DEF IInv, DisplayInv
<1> QED BY <1>1, Invariance, PTL

\* The display, which writes the status on a copy, never undoes a pairing
\* (oled_display.c:238, 263-276).
THEOREM DoneStays == Spec => DoneIsFinal
<1>1. IInv /\ [Next]_vars => [status = "PAIR_DONE" => status' = "PAIR_DONE"]_vars
  <2> SUFFICES ASSUME IInv, Next, status = "PAIR_DONE" PROVE status' = "PAIR_DONE"
    OBVIOUS
  <2> USE DEF IInv, ThreadInv, DisplayInv, pairVars, displayVars, chipVars, planeVars
  <2>1. CASE PairThreadEnds \/ PairSends \/ CopySent \/ NextCopy \/ PairWakes
    BY <2>1 DEF PairThreadEnds, PairSends, CopySent, NextCopy, PairWakes
  <2>2. CASE Detected \/ StepSent \/ AddressSet \/ NothingSent
    BY <2>2 DEF Detected, StepSent, AddressSet, NothingSent
  <2>3. CASE Display
    BY <2>3 DEF Display, DisplayReads, DisplayActs, NoPlane
  <2>4. CASE Master \/ Chip \/ PlaneRestarts \/ PlaneStays
    BY <2>4 DEF Master, MasterSends, MasterReads, Chip, Arrives, GetsLost, PlaneRestarts,
                PlaneStays
  <2> QED BY <2>1, <2>2, <2>3, <2>4 DEF Next, PairThread
<1> QED BY <1>1, Invariance, PTL DEF Spec, DoneIsFinal
=============================================================================

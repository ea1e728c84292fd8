--------------------------------- MODULE Keys ---------------------------------
(***************************************************************************)
(* driver/key.c and module/key_handle.c: second_task_thread scans every     *)
(* contact twice a round, first for a key (KeyAnalysis), then for the       *)
(* position of a switch (SwitchHandle), and the display takes the keys.     *)
(* The two scans of a contact share one flag.                               *)
(*                                                                         *)
(* A scan sleeps 10 ms on a closed contact and reads it three times.  A     *)
(* contact may open and close at any moment, also between two of the reads. *)
(***************************************************************************)
EXTENDS Integers, Sequences

CONSTANT Contacts      \* the contacts that are keys, in the order they are scanned: four

ASSUME KeysAssumption == Contacts \in Seq(STRING) /\ Len(Contacts) > 0

VARIABLES
  closed,                     \* the contact is at its effective level
  keyPushFlag,                \* of its S_KeyScan
  keyValue, switchValue,      \* what the last scans answered
  tempKeyValue,               \* the keys for the display
  scan,                       \* the scan the thread is at, of the Scans of a round
  reading,                    \* and its next reading of the contact
  pressed                     \* history: the contact was closed since its last key

keysVars == <<closed, keyPushFlag, keyValue, switchValue, tempKeyValue, scan, reading, pressed>>

Named == {Contacts[i] : i \in DOMAIN Contacts}
Scans == 2 * Len(Contacts)
ForKey(i) == i <= Len(Contacts)
ContactOf(i) == Contacts[IF ForKey(i) THEN i ELSE i - Len(Contacts)]

KeysInit ==
  /\ closed = [c \in Named |-> FALSE]
  /\ keyPushFlag = [c \in Named |-> 0]
  /\ keyValue = [c \in Named |-> 0] /\ switchValue = [c \in Named |-> 0]
  /\ tempKeyValue = {}
  /\ scan = 1 /\ reading = "first"
  /\ pressed = [c \in Named |-> FALSE]

\* A contact opens or closes.
ContactMoves(c) ==
  /\ closed' = [closed EXCEPT ![c] = ~@]
  /\ pressed' = [pressed EXCEPT ![c] = @ \/ closed'[c]]
  /\ UNCHANGED <<keyPushFlag, keyValue, switchValue, tempKeyValue, scan, reading>>

-----------------------------------------------------------------------------
\* second_task: KeyScan

\* The answer v of scan i.
Answered(i, v) ==
  IF ForKey(i)
  THEN keyValue' = [keyValue EXCEPT ![ContactOf(i)] = v] /\ UNCHANGED switchValue
  ELSE switchValue' = [switchValue EXCEPT ![ContactOf(i)] = v] /\ UNCHANGED keyValue

\* KeyAnalysis forgets the keys of the round before.
RoundStarts ==
  /\ scan = 1 /\ reading = "first"
  /\ reading' = "start"
  /\ keyValue' = [c \in Named |-> 0]
  /\ UNCHANGED <<closed, keyPushFlag, switchValue, tempKeyValue, scan, pressed>>

AtFirst == IF scan = 1 THEN reading = "start" ELSE reading = "first"

\* The first reading; the scan of a switch clears the flag before it.  A closed contact
\* whose flag is clear is looked at again after 10 ms.
FirstReading ==
  /\ AtFirst
  /\ LET c == ContactOf(scan)
         f == IF ForKey(scan) THEN keyPushFlag[c] ELSE 0
     IN /\ keyPushFlag' = [keyPushFlag EXCEPT ![c] = f]
        /\ IF f = 0 /\ closed[c]
           THEN reading' = "second" /\ UNCHANGED <<keyValue, switchValue>>
           ELSE reading' = "last" /\ Answered(scan, 0)
  /\ UNCHANGED <<closed, tempKeyValue, scan, pressed>>

\* Mutant of SecondReading: the flag is not set.
SecondReading_NoFlag ==
  /\ reading = "second"
  /\ LET c == ContactOf(scan) IN
       /\ Answered(scan, IF closed[c] THEN 1 ELSE 2)
       /\ pressed' = [pressed EXCEPT ![c] = @ /\ ~(ForKey(scan) /\ closed[c])]
  /\ reading' = "last"
  /\ UNCHANGED <<closed, keyPushFlag, tempKeyValue, scan>>

\* The second: 1 if it is still closed, 2 if it bounced.
SecondReading ==
  /\ reading = "second"
  /\ LET c == ContactOf(scan) IN
       /\ keyPushFlag' = [keyPushFlag EXCEPT ![c] = 1]
       /\ Answered(scan, IF closed[c] THEN 1 ELSE 2)
       /\ pressed' = [pressed EXCEPT ![c] = @ /\ ~(ForKey(scan) /\ closed[c])]
  /\ reading' = "last"
  /\ UNCHANGED <<closed, tempKeyValue, scan>>

\* The last: an open contact clears the flag.  After the last key the keys pressed, if any,
\* replace those the display has not taken; after the last switch the round ends.
LastReading ==
  /\ reading = "last"
  /\ LET c == ContactOf(scan) IN
       keyPushFlag' = [keyPushFlag EXCEPT ![c] = IF closed[c] THEN @ ELSE 0]
  /\ LET keys == {c \in Named : keyValue[c] = 1} IN
       tempKeyValue' = IF scan = Len(Contacts) /\ keys # {} THEN keys ELSE tempKeyValue
  /\ scan' = (scan % Scans) + 1
  /\ reading' = "first"
  /\ UNCHANGED <<closed, keyValue, switchValue, pressed>>

-----------------------------------------------------------------------------
\* The display: GetKeyValue.  No worse thread runs between its copy and its reset.
GetKeyValue ==
  /\ tempKeyValue # {}
  /\ tempKeyValue' = {}
  /\ UNCHANGED <<closed, keyPushFlag, keyValue, switchValue, scan, reading, pressed>>

KeysNext ==
  \/ \E c \in Named : ContactMoves(c)
  \/ RoundStarts \/ FirstReading \/ SecondReading \/ LastReading
  \/ GetKeyValue

KeysSpec == KeysInit /\ [][KeysNext]_keysVars

-----------------------------------------------------------------------------
KeysTypeOK ==
  /\ closed \in [Named -> BOOLEAN] /\ pressed \in [Named -> BOOLEAN]
  /\ keyPushFlag \in [Named -> 0..1]
  /\ keyValue \in [Named -> 0..2] /\ switchValue \in [Named -> 0..2]
  /\ tempKeyValue \subseteq Named
  /\ scan \in 1..Scans /\ reading \in {"start", "first", "second", "last"}
  /\ reading = "start" => scan = 1

\* A contact becomes a key only if it was closed again since its last key: however long it is
\* held, and whatever the other scan does to the shared flag, one closing counts once
\* (driver/key.c:42, "it must be released before it can be pressed again").  A contact that
\* opens and closes again was pressed again; the scans cannot tell that from a bounce.
OneKeyPerPress ==
  [][\A c \in Named : keyValue[c] # 1 /\ keyValue'[c] = 1 => pressed[c]]_keysVars
=============================================================================

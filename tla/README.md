# A specification of the drone remote

The program is the firmware of a hand-held remote control: an STM32F103 under RT-Thread
reads two sticks and six switches, shows pages on a small screen, and talks to a plane through
an Si24R1 radio. These modules specify its concurrent core — the byte queue, the kernel mutex,
the two directions of the radio link and the pairing —, the calibration of the sticks with its
record in flash, and the components with a small state of their own — keys, menu, power, lamp,
checksums. TLC checks them on small instances and TLAPS proves their main properties for every
size.

Modules whose name starts with `MC` give the constants values for TLC; modules that end in
`Proofs` hold the theorems. `PROJECT.json` relates every definition to the lines it models, every
property to a mutation of the code that breaks it, and every hazard to the properties about it.

## 1. The system

| thread | priority | period | what it does |
|---|---|---|---|
| `pair_thread` | 4 | 50 ms | looks for a plane and pairs with it; ends when paired |
| `master_task_thread` | 5 | 5 ms | `TransmitHandle`, then `ReceiveHandle` |
| `display_thread` | 5 | 30 ms | takes the last key, runs the page of the menu |
| `second_task_thread` | 6 | 10 ms | led, sticks (one frame a round), keys, stick calibration |
| `main` | 10 | 100 ms | power key, battery voltage |
| `cpu_usage_task_thread` | 30 | | shows the processor load |

A smaller number is a higher priority; `delay_ms` is `rt_thread_mdelay`, so every wait, also the
ones inside drivers, gives the processor to the other threads.

| component | state | operations | users, and how they interact |
|---|---|---|---|
| byte queue, `my_lib/queue_lib.c` | array, `front`, `rear` | `QueueInit`, `EnQueue`, `DeQueue`, the two bulk calls, `QueueLength` | transmit path (under a mutex), receive path (one thread) |
| kernel mutex, `rtthread/src/ipc.c` | `value`, `owner`, `hold`, saved priority, suspended threads | take (for ever, with a limit, without waiting), release, time-out | `transmit_mutex`: master, display, second_task; `remote_mutex`: second_task |
| transmit path, `module/transmit_packet.c` | `transmitQueue`, `signalLostCount`, `signalStatus` | `StoreToTransmitQueue`, `TransmitHandle` | pages and sticks store frames; the master sends them, or a heartbeat, and waits for the chip |
| receive path, `module/receive_packet.c` | `receiveQueue`, parser statics, `plane`, `imuData` | `ReceiveData`, `AnalysisHandle`, `AnalysisData`, getters | the master; `Pair` calls the same parser; pages and led read `plane` |
| pairing, `module/pair_freq.c` | `pair`, `sendPairPacket`, `pairCount`, the address in the chip | `Pair`, `GetPairInfo`, `SetPairInfo` | the main page starts an attempt; everybody reads `pair.status` |
| menu and pages, `module/oled_display.c` | `menuPage`, `displayKey`, one flag per page | one function per page | reads all other components, stores the frames of the calibration pages |
| sticks, `module/remote.c` | `remote` | scaling, `RemotePacket` | reads the calibration and the ADC buffer |
| stick calibration, `module/remote_calibrate.c`, `system/flash.c` | step, state, limits; a record in flash | `RemoteCalibrateHandle`, read, write | second_task runs it; the page of the display starts, watches and cancels it |
| keys, `driver/key.c`, `module/key_handle.c` | one flag per contact, last key | `KeyScan` in two modes, `KeyAnalysis`, `SwitchHandle`, `GetKeyValue` | second_task writes the key that the display takes |
| power, `module/power_control.c` | status, two counters | `PowerControlHandle` | main |
| lamp, `driver/led.c`, `module/led_status.c` | last colour, one counter | `LedHandle`, `TopLedBlink` | second_task; reads the pair status, the signal, the plane |
| checksums, `my_lib/crc_lib.c` | none | 21 functions | the parser and the transmit path use `crc8_maxim` |
| voltage, processor load, log | one value each | | `main` and the worst thread; only drawn or printed |

What is hard here:

* **interleaving** — three threads use one queue byte by byte, two share a priority, and a
  producer is preempted by the master in the middle of a frame;
* **a partial failure** — the return from inside the critical section when the queue is full;
* **unreliable delivery and late answers** — the plane's answer comes with the acknowledgement of
  the *next* packet, any of them may be lost, and pairing changes the address both ends use;
* **framing** — frames are cut by packets, by calls of the parser and by a full queue;
* **limits** — the slot the queue keeps free, the 8-bit hold count, the count of lost packets,
  buffers whose size the length field is not compared with;
* **copies that go stale** — the display decides on a copy of `pair` and writes the status back;
  and a calibration can be cancelled while its handler sleeps;
* **crashes** — the calibration record is written word by word, its mark of validity first;
* **counters that two uses share** — the blink count of two rates, the flag of a contact that two
  scans in different modes write, the arrow of a page and the page it stands beside.

What makes each component correct, and where that is stated:

* queue: it is a bounded FIFO of `size - 1` bytes (`ImplementsFifo`);
* mutex: its fields agree (`OwnershipConsistent`), waiters are served by priority and then in
  order (`HandoverToHighest`, `NoOvertaking`), inheritance works and is undone (`NoInversion`,
  `NoMediumRuns`, `PriorityRestored`);
* transmit path: one thread at a time in the queue (`QueueExclusive`), frames stored in one piece and
  sent once and in order (`ImplementsFrameQueue`), whole frames on the air
  (`StreamWellFormed`, `PacketsOfWholeFrames`), the mutex given back (`NoLeak`), the remote keeps
  transmitting (`KeepsTransmitting`, `QueueIsEmptied`), the loss of the signal is noticed exactly
  when it should be (`SignalExact`);
* parser and receive path: what is accepted are frames, and only one thing that is none
  (`AcceptsExactly`, finding 5); none is lost, doubled or out of order (`StreamIntact`, `FramesArrive`), and what the pages read of the plane is what it
  sent last (`ImplementsChannel`);
* pairing: final, on the remote's own address, exclusive use of the chip, attempts that end and
  leave nothing behind, and that succeed if the plane stays in range;
* stick calibration: a calibration in use maps both ends of every stick exactly and its rest to the
  middle or one below (`CalibratedSticks`), starts afresh (`StartsAfresh`), survives a restart (`RestartRestores`), takes
  scaled values for limits in one place only (`OnlyFirstLimitScaled`) and ends (`CalibrationEnds`);
* keys: one key per press (`OneKeyPerPress`); menu: only its own pages (`PagesReachable`), and the
  arrow shows what ok opens (`ArrowOpens`); lamp: it blinks in step (`BlinkInStep`); power: two
  presses within the window, no others, switch off (`TwoPressesSwitchOff`); checksums: the division
  that each comment promises (`ImplementsDivision`).

## 2. The modules

```
BoundedFifo  <--implements--  ByteQueue
                              the sequence `items`, `queue` of the two paths stands for it
RtMutex  <--EXTENDS--  TransmitPath          FrameParser  <--EXTENDS--  ReceivePath
FrameQueue  <--implements--  TransmitPath      PlaneChannel  <--implements--  ReceivePath
Pairing  (its PagesAfterPairing is the premise of TransmitPath, its RadioExclusive that of both)
StickCalibration  (second_task, the display's page and the flash together)
CrcDivision  <--implements--  Crc  <--constants--  CrcLib
MCParts  composes  ByteQueue, Keys, Menu, StatusLed, PowerControl, Crc, FrameParser  (one at a time)
```

**BoundedFifo, ByteQueue.** `BoundedFifo` is the promise: a sequence, with the answers the calls
give. `ByteQueue` is the code: `pArr`, `front`, `rear`, one action per function. The loops of the
bulk functions are given in closed form.

**RtMutex.** `rt_mutex_take` is one action per branch (`TakeAgain`, `TakeFull`, `TakeFree`,
`TakeRefused`, `TakeWait`), `rt_mutex_release` likewise (`ReleaseNotOwner`, `ReleaseNested`,
`ReleaseFree`, `ReleaseHandOver`). Kernel calls run with interrupts off, so each is one step. A
thread acts only if it `Runs`: it is ready and no ready thread has a better priority; among equals
the choice is open, which covers every time slice. `rt_thread_timeout` and `Wake` are the timer.

**TransmitPath** shares the variables of `RtMutex` and uses its actions for every take, release
and sleep. `StoreToTransmitQueue` is `StoreTake`, `StoreByte` for every `EnQueue`, `StoreRelease`;
the return on a full queue is a branch of `StoreByte`. `TransmitHandle` is `TransmitTake`,
`DrainByte`, `DrainEnd`, then `TxStart`, `TxPoll`, `TxDone` for `NRF24L01_TxPacket`. A byte is
`<<p, k>>`, the k-th of a frame that producer p built. `fails` and `heard` are history.

**FrameQueue** is what the threads that send may rely on, without mutex, scheduler or single bytes: a
frame is stored in one step, all of it or nothing; a packet takes bytes from the front, as many as
there are or it holds; each is sent once. The first frame for which there is no room jams the queue,
and then nothing is stored or taken any more — finding 2 in terms of frames. TransmitPath implements
it (`ImplementsFrameQueue`): a frame counts as stored with its last byte (`Complete`), and the queue
as jammed as soon as the owner of the mutex has bytes left that do not fit (`Jammed`), although
it goes on for some steps and may even take the mutex again.

**FrameParser** is `AnalysisData`, one action per case of its `switch`. `receiveBuf` is the bytes
stored so far, and `wild` records a store past an array, after which anything may be returned.
`crc8_maxim` is a parameter: what is shown holds for every checksum. `frame` is the history of
the bytes since the search began, against which `AcceptsExactly` holds the result of each call:
0 at the end of a frame (`IsFrame`) with a payload of one byte or more, and at the end of six
bytes that are no frame (`IsShifted`: a length of 0, one byte of any value, the crc of no bytes,
the end byte), at no other byte. A frame with an empty payload is not accepted.

**ReceivePath** adds the plane's queue, the packet that comes with an acknowledgement,
`receiveQueue` and one call of `AnalysisHandle` after the other. `pending` is the history of what
was sent and not yet accepted.

**PlaneChannel** is what the pages and the lamp may rely on, without packets, bytes or parser: what
they read of the plane are the payloads it sent, taken one at a time, in order, the last of each
command. It may break once bytes are refused, and then what is read may be anything. ReceivePath
implements it with `pending` for the payloads sent and `cut` for the break (`ImplementsChannel`).

**Pairing** is `Pair` cut at its waits: `PairSends`, then `Detected`, `StepSent`, or `CopySent` and
`NextCopy` up to `AddressSet`, each with the end of `Pair` (`AttemptCounted`, `Receive`) in the same
step. The main page is `DisplayReads` (its copy) and `DisplayActs` (what it does on it). The plane
is a small external automaton: it changes its address on STEP3 and prepares STEP2 and STEP5.

**StickCalibration** is what second_task does in a round — `Transform` (`RockerValueTransform`),
`KeyHandle`, then one of the actions of `RemoteCalibrateHandle` — with the display coming in
between any two of them. `FirstReading` sends the handler to its sleep, `LimitHeld` and
`MiddleHeld` are what follows. `ErasePage`, `ProgramWord` and `WriteEnds` are
`FlashWriteSpecifyData`; any word may fail, and `Restart` may come between any two steps. What RAM
holds is then lost, the words written stay, and `ReadRecord` is what the next start makes of them.
A coefficient is `500.0f / (max - middle)`, rounded to a float, and the record holds its divisor in
the model. The scaling is exact all the same, rounding included: the code multiplies by the rounded
coefficient, rounds the product and the sum, and cuts off the fraction (`Truncated`). For the
thresholds of the code the divisors are 272 to 529 and the values below 2400, so three roundings move
a value by less than 2400·3·2^-24 < 1/2000. A quotient that is not whole is at least 1/529 away from
the next whole number, and the cut leaves what it leaves of the exact quotient. If it is whole, the
result is one less whenever the floats end below it, and `FloatError` computes whether they do,
with the spacing of floats on either side of a power of two and ties to even. For the throttle that
is so at rest for 30 of the divisors, 497 among them; for the other axes (50 for 500) at rest for none.
A negative result, which C leaves undefined when
it is converted to an unsigned type, becomes either end of the range. The four axes work alike and
have one range in an instance; throttle has a range of its own in the code, 0..999 against 0..99.
An interrupted erase is taken to leave no valid mark. `FlashWriteSpecifyData` returns 1 even if its
last word failed, and leaves the flash unlocked when an earlier one did; the caller ignores the
first and the next write undoes the second, so neither is a state of the model. `scaled` and
`edited` are history.

**Keys** cuts `KeyScan` at its three readings of the contact; a contact may open or close between
any two. A round scans each key for `KeyAnalysis`, then again for `SwitchHandle`.

**Menu** is the page table and `RemoteInterface`, in which keys change both the row of the arrow
(`row`, a byte that goes round below 0) and the page that ok opens (`remoteNext`). Only the pages
it can reach are modelled; a display that got anywhere else could take no step.

**PowerControl** and **StatusLed** are one function each, called in every round; `unpaired` is the
history of presses that had no effect so far.

**CrcDivision, Crc, CrcLib.** `CrcDivision` is the textbook: the remainder of a polynomial division,
one message bit at a time, from the width, polynomial, start value and reflections that the comment
above a function gives. `Crc` is the loop all the functions share, byte by byte in a variable that
may be wider than the polynomial; `CrcLib` lists the constants of all 21. The comments above
`crc32` and `crc32_mpeg_2` write seven digits of F for eight (`0xFFFFFFF`), which is read as the typo
it is.

**MCParts** gives the turn to one of seven components, chosen at the start, so that one run covers
all of them from all their states.

TransmitPath's display stands for pages that store frames. In the present page table those are the
pages of the plane, and `PagesReachable` says that no key leads to them: the table holds them, so
the transmit path is checked for them, with the display as it would be.

Left external, from how the code uses them: the chip (a transmission ends, acknowledged or not;
an acknowledgement carries at most one packet) and the plane.

## 3. What is checked

| run | instance | shows |
|---|---|---|
| `small_components` | queue of 4 slots, 3 byte values, bulk calls up to 4; two contacts; blink periods 2 and 5; a window of 4; all 21 checksum functions on the bits of one- and two-byte messages; a parser with bytes of 4 values, a buffer of 3 and a receiver's array of 2 | every position of the indices, a bulk call that fits, just fits and does not; contacts that move at every reading of both scans; all sequences of keys in the menu; each change of the lamp at each count; each spacing of presses; each function against its division; all streams of bytes: every noise, every torn frame, lengths from 0 to 15, both overruns |
| `byte_queue_doc` | the same queue | a **violation**: see finding 1 |
| `rt_mutex` | 4 threads of priorities 4, 5, 5, 6; hold count up to 2 | nested takes and the ceiling, time-outs while boosted, hand-over with others waiting, two equals behind each other |
| `transmit_path` | master, display, second_task; frames of 2 and 3 bytes; queue and packet of 8 | the normal timing: up to 2 frames of second_task and 1 of display between two drains fill a packet exactly, as 32 bytes do in the code |
| `transmit_stall` | same threads; queue 7, packet 4; three frames each while the chip stalls | the queue fills inside a frame or between two and the mutex is leaked; packets end inside a frame; still every frame is stored in one piece and sent once and in order, up to that point |
| `transmit_leak` | same | a **violation**: finding 2 |
| `frame_shifted` | the same parser | a **violation**: finding 5 |
| `receive_path` | payloads of 1 and 2 bytes, one of them holding the start byte; packets of 8; queue 10; up to 4 frames ahead | frames cut by packets and by calls in every way, and none of it visible in what the pages read; then the queue overflows (`cut`) and the parser gets what remains |
| `pairing` | count up to 8, 2 copies; packets may be lost and the plane may restart until it stays in range | the shortest successful attempt takes 5 packets, so attempts that fail at every point, that succeed at the last packet and early all occur, and each may follow another |
| `pairing_retry` | count up to 3 | a **violation**: finding 3 |
| `calibration` | the range and thresholds of the throttle, 0..999, on every axis; the sticks together at rest (499) or at an end (2, 999), where the floats fall short of 500 at rest, or the throttle further down than it was calibrated | calibrations one after the other, cancelled and restarted at every step, a display that starts one between two steps of second_task, words that fail, power cut at every word |
| `record_torn` | the range and thresholds of the other axes, 0..99; the same postures | a **violation**: finding 4 |

Deadlock is checked in every run. Every property of a passing run is violated by a mutation of
the model that a slip in the code would make (`EnQueue_NoWrap`, `StoreTake_NoLock`, ...); the
mutations stand beside the definitions they change.

**Bounds.** The sizes are scaled so that their relations stay: a queue holds two to four frames
or less, packets hold one or two, a frame is not a divisor of a packet in `transmit_stall`.
`HoldMax` 2 for 255, `LostMax` 1 or 2 for 150, `CountMax` 3 or 8 for 60: each is a ceiling whose
passing is what matters. `Burst`, `MaxLag`, `StallLag` bound what the environment may do. Blink
periods of 10 and 25 calls become 2 and 5, the window of 10 calls becomes 4: in both the counts pass
their ends at every offset. A division is linear, so the messages of none, one and all bits of a
byte are enough, and two bytes are enough to carry the register over. The
sticks have the code's own ranges and thresholds and four postures, three for the limits to be taken and
one beyond them.

**Timing.** TransmitPath has no clock. `MaxLag` states what the periods ensure: the chip gives up
after ten retries of 500 µs (`si24r1.c:617`) and the master sleeps 5 ms, so between two drains
second_task wakes at most twice (10 ms, 13-byte frames) and the display once (30 ms, frames of 6
bytes): 2·13 + 6 = 32, one packet. (A page of the plane that starts a calibration and cancels it in
the same round would send longer frames and pass this limit; no key leads there, see
`PagesReachable`.) `NoLeak`, `PacketsOfWholeFrames`, `KeepsTransmitting` and
`QueueIsEmptied` rest on this; `ImplementsFrameQueue` and `StreamWellFormed` do not. `StallLag` drops it.
In the proofs this premise is `Capacity`, see section 4.

**Fairness.** *TransmitPath*: weak fairness of each thread's steps — the scheduler always runs the
best ready thread and equals share the processor in time slices; of each timer; and of
`RadioEnds` — the chip stops retrying. *ReceivePath*: weak fairness of the master, and strong
fairness of an acknowledged packet — the link is not dead for ever. *Pairing*: weak fairness of
pair_thread, the chip and the display, and strong fairness of a read with the ok key pressed — a
user who keeps trying; `AttemptSucceeds` also supposes that the plane stays on and in range
(`PlaneStays`). *StickCalibration*: weak fairness of second_task, which no better thread keeps from
the processor for ever, and strong fairness of a user who does what the page asks (`Follows`);
nothing else makes a calibration go on. Without fairness of the chip the wait of `si24r1.c:508` has no end, and
nothing could be promised.

### Findings

1. `EnQueueLarge` counts the slot that `EnQueue` keeps free: with one byte too many it drops the
   last and returns success (`queue_lib.c:77`). No code of the remote calls it.
2. A full transmit queue makes `StoreToTransmitQueue` return with the mutex held
   (`transmit_packet.c:136`). The master then waits for ever: no frame, no heartbeat.
3. After a failed attempt the page shows "no plane" and the retry of `oled_display.c:270` cannot
   be reached, because `DETECT_NOT` is tested first and `pair_freq.c:183` has set it.
4. `remote_calibrate.c:238` calls the first word of the record the mark that tells whether there is
   data, and the record is written front to back: a power cut, or a word that fails, leaves the mark
   before words that were never written. The next start takes them for limits and, if the second
   word made it, scales the sticks with them (`CalibratedSticks` therefore speaks of whole records).
5. A length of 0 makes the parser take one byte for payload without storing it
   (`receive_packet.c:165`). What follows is read one byte late: `AA 00 00 x 00 AD` is accepted for
   any x, with the crc of no bytes, 0, where the end of the frame was due, although
   `receive_packet.c:85` calls what is accepted correctly parsed; a frame that really is empty is
   not accepted. `AnalysisHandle` then finds command 0 in its zeroed array, which it does not know.

Worth knowing, though no comment says otherwise:

* After a full receive queue has cut a frame short, the parser takes payload for a length, which it
  compares with no bound (`receive_packet.c:165`), and swallows the frames that follow;
  `StreamIntact` and `FramesArrive` therefore end at `cut`.
* A late STEP2 that arrives after the change of address sends the attempt back to STEP3
  (`pair_freq.c:171`); it costs one more round and `AttemptSucceeds` shows that no more is lost.
* A stick at rest below the middle of the range may read 499 instead of 500, because the coefficient
  is rounded and the product cut off (`remote_calibrate.c:161`, `remote.c:62`).
* A contact that bounces longer than the 10 ms between two readings counts as pressed again;
  `OneKeyPerPress` is about one closing of the contact.
* A calibration that is cancelled half-way leaves new limits beside the old coefficients in use
  (`edited`).
* The second reading of a held stick (`remote_calibrate.c:47`) always equals the first, because the
  thread that waits is the one that updates the value. While it waits no stick frames are sent, no
  key is read and the lamp does not blink.

## 4. What is proved

All theorems hold for every value of the constants that the named assumptions allow.

| module | theorem | states |
|---|---|---|
| ByteQueueProofs | `TypeCorrect`, `QueueImplementsFifo` | the indices stay in the array; the queue implements the bounded FIFO |
| RtMutexProofs | `KernelTypes`, `OwnershipIsConsistent`, `PriorityIsRestored`, `OwnerInherits`, `InheritanceBoundsWait`, `HandedToHighest`, `NobodyIsOvertaken` | the mutex, for any threads and priorities |
| TransmitPathProofs | `UsesKernel`, `QueueIsExclusive`, `StreamIsWellFormed`, `SignalIsExact`, `TransmitTypes` | the transmit path is a behaviour of the kernel; exclusion; whole frames; the signal status; types and bounds |
| | `TransmitImplementsFrameQueue` | it implements the queue of whole frames, whatever the timers do |
| | `NothingLeaks`, `PacketsAreWhole`, `TheRemoteHasRoom` | under `Capacity`: the mutex is always given back; a packet starts and ends with a frame; the numbers of the code satisfy it |
| ReceivePathProofs | `ParserAcceptsExactly`, `ParserTypes` | the parser, for any byte width, checksum and buffers: when a call returns 0, the false frame of finding 5 included; types |
| | `ReceiveTypes`, `StreamStaysIntact`, `ReceiveImplementsChannel` | the receive path, for any payloads that fit a packet, any queue and any cut into packets and calls: types; every frame arrives whole and in order; it implements the channel |
| PairingProofs | `TypeCorrect`, `DoneOnOwnAddress`, `EveryAttemptIsFresh`, `RadioIsExclusive`, `PagesOnlyWhenPaired`, `DoneStays` | the safety of pairing |
| StickCalibrationProofs | `TypeCorrect`, `SticksAreCalibrated`, `OnlyFirstScaled`, `CalibrationIsFresh`, `RestartIsExact` | the safety of the calibration, for any thresholds and range in the order that `CalibrationAssumption` states |
| PartsProofs | `MenuReaches`, `ArrowIsRight`, `BlinksInStep`, `SwitchesOff`, `PressCountsOnce` | menu, lamp, power and keys, for any contacts, periods and window |
| CrcProofs | `CrcIsTheRest` | the shared loop implements the division for messages of any length and every function whose constants follow from its comment (`Matches`, the assumption that TLC checks for all 21) |

* **ByteQueue.** The type invariant is inductive; it says nothing of the contents. The refinement
  shows for each call how `Contents` changes, from lemmas on indices modulo the size.
* **RtMutex.** The invariant `KernelInv` joins types, ownership, saved priorities, order of the list
  and inheritance; none is inductive alone. The order of the list needs that waiting threads are
  never boosted (`PriorityRestored`), inheritance after a hand-over needs the order, and the
  priority that a hand-over saves is right because a waiter has its own. `NobodyIsOvertaken`
  needs it too: the loop that places a newcomer stops only before a worse thread, and in an ordered
  list every equal is then in front.
* **TransmitPath.** `UsesKernel` maps every step to a kernel step or a stutter, so `KernelInv` is
  inherited. `LockInv` (who is in the queue owns the mutex) gives exclusion. `StreamInv` adds that
  the stream ends either with a whole frame, or with the bytes stored so far by the owner, or the
  queue is full and its owner is gone: then nothing is stored or taken any more, which is why the
  cut frame of finding 2 never reaches the air. `SignalInv` ties the code's count to the history of
  failures, which it follows up to its limit; without that the status is not inductive.
* **TransmitPath as a FrameQueue.** `BegunInv`: what the queue ends with after its last whole frame is
  the first bytes of one frame, in order, and all of them are still in the queue. So the byte that ends a frame adds
  exactly that frame to `Complete`, and any other byte adds nothing. The master owns the mutex when
  it takes bytes, so then nothing is begun (`NotBegun`). `RoomInv` is why a drain never leaves the
  queue full, so the thread that gets the mutex next does not find it jammed.
* **TransmitPath under `Capacity`.** The premise: all the bytes that the producers may store between
  two drains (`Load`) fit one packet and the queue. The run `transmit_path` meets it exactly
  (2·3 + 1·2 = 8), and so does the code, 2·13 + 6 = 32 (`TheRemoteHasRoom`, from `CapacityOfTwo`);
  `transmit_stall` does not. The proof numbers the frames of each producer
  since the last drain. Then no two bytes of the backlog have both their frame's number and their
  place in it in common (`Numbering`), so the backlog maps one-to-one into `Load` and is never
  longer. Hence a byte always finds room and no producer leaves by the return on a full queue
  (`FlowInv`), and a drain always empties the queue, so a packet ends where a frame does
  (`PacketInv`).
* **FrameParser.** `ParserInv` says, for each state, which bytes of `frame` the state stands for:
  the first is the start byte, the second and third are `dataLen`, the rest is `receiveBuf`.
  The types need `BufferInv`: after the first length byte there is room for the second.
* **ReceivePath.** `PathInv`: until bytes are refused, what the parser holds of a frame, the receive queue,
  the packet received and what the plane still has to send are, one after the other, exactly the
  frames of `pending` (`Intact`). So the byte that comes next is the one that the
  first frame wants (`ByteInOrder`): no error case of the parser is taken, and the frame accepted is the oldest.
  `FitsAssumption` — a payload that fits a packet of the chip fits the buffers of the parser — is why
  nothing is stored past an array before the cut. `Concat` is a recursive function: that it exists
  and unfolds is proved from the well-foundedness of the naturals, by approximations
  (`ApproxExists`), since the prover cannot use the library's induction theorems.
  `ReceiveImplementsChannel` maps every step: an accepted frame delivers the oldest payload, a
  refused byte breaks the channel, everything else but sending is a stutter.
* **Pairing.** `IInv` joins three parts. The display's copy differs from the status only while an
  attempt runs (`DisplayInv`), so writing it back cannot undo a success. A packet STEP4 is only
  sent on the own address, so a STEP5 answer can only arrive there (`AddressInv`). The place of
  pair_thread tells the status (`ThreadInv`).

* **StickCalibration.** `IInv` follows a record around: while limits are being asked for, those of the
  steps already taken lie beyond their thresholds (`TakenInv`, `HeldInv`); once the coefficients
  are computed and nothing is edited, each axis is consistent (`LimitsInv`); the words written so far
  are those of RAM (`WriteInv`), what is stored is consistent or torn (`StoredInv`), and a whole,
  finished record is the one in RAM unless it was edited (`FlashInv`). At the positions of a stick the exact quotient is
  then whole, and the floats leave it or one less (`TruncatedFacts`); a product with 0 is exact, and
  one less than the greatest value is still cut to the top, for which `CalibrationAssumption` has
  `Top < 2 * Half`. How `FloatError` comes out is not needed: the theorem holds for any rounding that
  costs at most one, and TLC computes it.
* **Parts.** The arrow needs the pairs (row, page) that occur, of which three have the arrow on the
  screen. The blink count stays below the shorter period until pairing is done and never comes
  back. A press counts because the flag or the history says that the contact was closed since.
* **Crc.** The variable and the division's register differ by the bits of the byte that are still to
  come (`Pending`), wherever the register is kept; `RegisterFits` says no other bit is ever
  outside of it, and each turn of the loop is one step of the division.

Model-checked only: liveness (`KeepsTransmitting`, `QueueIsEmptied`, `FramesArrive`, `AttemptEnds`,
`AttemptSucceeds`, `CalibrationEnds`), since TLAPS has no rules for fairness or ENABLED here. Every
invariant and every action property of the passing runs has a theorem. Proved and not
model-checked in a run of their own, because runs about the same code check what follows from them:
`QueueExclusive` (part of `NoLeak`, and behind `ImplementsFrameQueue`), `KernelTypeOK` (part of the
`TypeOK` of TransmitPath), `OrderedWaiters` and `NoInversion` (the strengthening behind `NoMediumRuns` and
`HandoverToHighest`), and `PagesAfterPairing`.

## 5. Not modelled

* **Pure I/O**: register access of the drivers, drawing and fonts, text formatting, peripheral set-up.
* **Third-party code**: the kernel beyond the mutex, the ST library, CMSIS. The application uses no
  semaphore, event, mailbox or message queue of the kernel, and its timers only through sleeps.
* **Floats**: the battery voltage and its filter (one value, drawn on two pages). Of the scaling of the
  sticks the rounding is modelled where it can show (`FloatError`); the conversion of a reading of
  the ADC to a stick value is the choice of a posture.
* **Unreachable code**: the five pages of the plane with their calibration dialogues (see
  `PagesReachable`), `SetPlaneInfo`, `SET_PAIR_STEP`, `SetRemoteInfo`, the other filters and flash
  functions, the shell. `EnQueueLarge` and `DeQueueLarge` are modelled although nothing calls them.
* **The processor load**: two percentages that are printed.
* **Single fields of the plane's state**: `GetPlaneInfo` copies them without a lock, but the only
  readers in reach draw them and read them again in the next round.

What could follow: a refinement of TransmitPath and ReceivePath by ByteQueue in place of the
sequence, and an abstract specification of pairing as a hand-shake of two addresses.

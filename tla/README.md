# Governed edge AI: a verification project

TLA+ modules for the governed edge AI rig of this repository: a perception
board proposes motion, a governance board logs every decision before it acts on
it, and an independent oversight board holds the motor supply open whenever it
has a reason to. TLC checks the modules on small instances; TLAPS proves, for
every value of their constants, the safety of the oversight board's firmware
(state machine, relay driver and loop), of its simulation and its threads, of
the governance filter over either motion controller, of the way frames take from
the camera to it, of the tier and the oversight node together, and of the frame
parsers at the end of a damaged line.

Paths are relative to the root of the repository (`src/` here).

## 1. The system

```
 UNO Q                VENTUNO Q                        Alvik / MockSTM32H5
 perception ──TCP──▶  governance service ──serial───▶  motion controller
                       │  filter, logger, chain   ◀──── ACK, REJECT, HALT
                       │  SQLite audit log                   │ motor supply
                       │                                     │
                       └──serial──▶ UNO R4 oversight node ───┘
                          ◀──────── overrides, buttons,      latch relay
                                    latch status
```

| Part | State it keeps | Operations | What is hard about it |
|---|---|---|---|
| Oversight state machine (`r4-supervisor/supervisor_state.cpp`) | mode, reason, watchdog stamp, last reference, ring of 64 digests, chain alert, button | heartbeat, digest, press, release, watchdog, clear | any order of causes and clears; a clock that wraps; a ring that wraps; references that jump on a clear |
| Latch driver (`r4-supervisor/latch.cpp`) | commanded position, last reading, poll stamp | command, poll, cadence | a bistable contact that sticks; a register that echoes; a sense channel that goes dark |
| Firmware main program (`r4-supervisor/r4_supervisor.ino`) | debounce state, what the wire has been told, everything above | `setup`, `loop`: serial, buttons, watchdog, drive, status | five places raise or announce overrides, one drives the contact, and frames move both in the middle of a pass; board reset |
| Simulated node (`linux-stack/oversight/mock_supervisor.py`, `latch.py`) | the same, in Python, under one lock | reader thread, watchdog `Timer`, operator's calls | decisions taken under the lock and carried out after it, while other threads decide |
| Oversight link (`linux-stack/oversight/supervisor_link.py`) | veto, alert, age of the last node frame, chain head | `poll`, `record`, `heartbeat` | stale veto; lost frames; heartbeats tied to detections |
| Attestation (`linux-stack/oversight/attestation.py`) | running head | `append`, `verify_database` | what may change in a row after it was witnessed |
| Audit log (`audit-service/logger.py`, `schema.sql`) | rows in SQLite | `log_event`, `update_stm32_ack`, `flag_event` | crash between the row, its digest, the command and its answer |
| Governance filter and service (`linux-stack/governance/`) | the detection in hand | `process_frame`, response loop | late answers; exceptions half way through a frame; restart |
| Motion controller (`linux-stack/ipc/mock_peer.py`, or `alvik-firmware/` on the board) | kill switch, watchdog, fault | command gates, motor calls, halts | a halt racing a command; a motor call that raises; a gate in single precision |
| IPC codec (`linux-stack/ipc/codec.py`, `r4-supervisor/ipc_frame.cpp`, `alvik-firmware/ipc_codec.py`) | parser buffer | feed, encode, decode | three parsers that resynchronise in three ways; reads cut anywhere |
| Perception link (`linux-stack/perception/network.py`, `uno_q_service.py`) | sockets, the kernel's backlog | capture, infer, send with one retry; accept, read, yield | what a broken connection had already delivered; one connection read at a time, without a timeout; messages that end more than their connection |
| Dashboard (`audit-service/dashboard/`) | none | a reviewer's flag; the rest reads | a second connection writing to the log |
| Observability, scripts | none | start-up | none |

The governance service is one thread: it takes a frame of detections, drains
the oversight link, and for each detection above the threshold writes a row,
extends the hash chain and sends its head to the node, writes the command, and
waits for the answer. The node is one thread on the board and three in the
simulation. The two talk through a serial line that may lose frames; neither
waits for the other. Perception reaches the service over TCP: the client opens a
connection, sends whole frames over it and, when a send fails, repeats the frame
once over a new one; the listener reads one connection to its end before it
accepts the next. A reviewer may flag rows over a database connection of his own
while all this goes on.

What makes each part correct:

- **state machine**: an override stands while any cause for it stands, keeps its
  first reason, and ends only on a clear that a fresh tier and a released button
  have earned; the ring holds the tail of what was witnessed;
- **driver and firmware**: the contact ends every pass where the state machine
  wants it, nothing closes it under an override, the wire and the contact tell
  the same story, and isolation is claimed only on evidence;
- **simulated node**: the same, as far as threads allow it;
- **perception link**: a frame is governed at most once and in order, one given
  up is never governed after all, and the listener comes back;
- **motion controllers**: each command is answered once, in order; an
  acknowledgement means that it was executed; a halt is for good;
- **governance tier**: nothing moves that was not logged first, and the log says
  what became of each command, across timeouts, faults and restarts;
- **codec**: what arrives was sent, and damage takes no more than its
  neighbourhood with it;
- **link, chain and node together**: at most one command gets past a latched
  override, a log nobody touched reconciles with the node and an edited one does
  not.

## 2. The modules

Each code module has a module of its own; a composition `EXTENDS` its parts and
gives one action per handler, in the order the code runs them.

| Module | Models | Built on |
|---|---|---|
| `Clock` | unsigned millisecond subtraction, `elapsed()` | |
| `SupervisorState` | `supervisor_state.cpp`, every entry point | `Clock` |
| `OversightContract` | abstract: what any oversight node promises | |
| `SupervisorProperties`, `SupervisorStateProofs` | properties of the state machine and their proofs | `SupervisorState` |
| `RelayPlant` | relay and sense circuit, `SimulatedLatch` of `latch.py` | |
| `LatchRelay` | `latch.cpp` and its properties | `RelayPlant`, `Clock` |
| `R4Sketch`, `SketchProperties`, `SketchProofs` | `r4_supervisor.ino`: `setup()` and `loop()`; their properties and proofs, the driver's among them | `SupervisorState`, `LatchRelay` |
| `MockSupervisor`, `MockProperties`, `MockProofs` | `mock_supervisor.py` with its threads, `LatchRelay` of `latch.py`; properties and proofs | `RelayPlant` |
| `AuditLog` | `logger.py`, `schema.sql`, `attestation.py`, and the flag of `dashboard/app.py` | |
| `SupervisorLink` | `supervisor_link.py` | `AuditLog` |
| `Messages` | the messages of the command link and which of them `codec.py` can decode | |
| `MotionContract` | abstract: what any motion controller promises the tier | `Messages`, `Queues` |
| `MotionPeer` | `MockSTM32H5` of `mock_peer.py` | `Messages` |
| `AlvikFirmware` | the loop of `alvik-firmware/main.py`, and the choice between the two boards | `MotionPeer` |
| `GovernanceFilter`, `FilterProperties`, `FilterProofs` | `filter.py`, `ventuno_q_service.py`; properties and proofs | `SupervisorLink`, `AlvikFirmware` |
| `PerceptionLink`, `PerceptionProperties`, `PerceptionProofs` | `network.py`, the loop of `uno_q_service.py`, the service's loop over the listener; properties and proofs | |
| `GovernedRig`, `RigProperties`, `RigProofs` | tier, wire and node together, with a reviewer and someone who edits the log; properties and proofs | `GovernanceFilter`, `SupervisorState` |
| `FrameCodec` | the frame layout and what a receiver checks of it | |
| `FrameLine`, `LineProperties`, `LineProofs` | a line that does damage, and the parsers of `ipc_frame.cpp`, `codec.py` and `ipc_codec.py` at its end; properties and proofs | `FrameCodec` |
| `Queues`, `QueueLemmas` | what is in a queue; lemmas about adding to one, taking from it and cutting something out | |
| `MC*` | constants for TLC | |

How state and actions correspond to the code:

- A field of a struct or an object is a variable with the code's own name:
  `mode`, `override_reason`, `last_ref`, `ring_*`, `chain_alert`, `commanded`,
  `last`, `last_raw_button`, `announced`, `audit_ref`. Where the code keeps a
  time stamp and subtracts it from the clock, the model keeps the difference
  (`heartbeat_age`, `poll_age`, `sent_age`); `Clock!Older` is the subtraction
  modulo the width of the clock, so the 49.7-day wrap of `millis()` is in the
  model and not assumed away.
- `pc` names the next step of a thread. In `R4Sketch` it walks `setup`, `top`,
  `frames` (with `first_contact` after the first heartbeat), `buttons`, `clear`,
  `watchdog`, `drive`, `console`, as `loop()` does; a step is the stretch of
  code between two points at which another actor can be told from it. In
  `GovernanceFilter` it walks one detection: `log`, `witness`, `send`, `await`.
  In `PerceptionLink`, `uno_pc` and `ear` are where the camera's loop and the
  listener are.
- In `MockSupervisor` a handler is one locked step, which decides, followed by
  the list `todo[thread]` of the unlocked steps it still has to take: pulses,
  the two halves of a read-back, frames, arming the timer. Steps of different
  threads interleave. `setting` fixes, for a whole behaviour, whether handlers
  wait for one another, which references and requests come, and whether the
  relay's module can fail.
- `board` fixes which of the two motion controllers the command link ends at.
  `GovernanceFilter` never looks at it, and its proofs know the boards only by
  `MotionContract`.
- A perception message is a number: a frame by its own, an incomplete one, and
  four kinds that no frame is (too long, not decodable, elements that are no
  objects, empty). A connection is `up`, `down` (the other end finds out when it
  next uses it) or `gone` (its host lost power: nothing comes any more).
- History variables (`silence`, `ledger`, `polled_contact`, `executed`,
  `written`, `interrupted`, `failed`, `governed`, `since_latch`, `tampered`, and
  in `FrameLine` `stream`, `sent`, `messages`, `damages`, `whole_from`) are
  commented as history: no guard of the code reads them. `silence` is the real time since a heartbeat,
  counted up to a full turn of the clock; `ledger` is everything the node ever
  filed and every jump an operator accepted; `interrupted` is the rows logged as
  sent that were in hand, not yet written, when the service ended; `tampered` is
  the set of rows that are no longer as they were logged; `stream` is what was sent, unit by unit, and
  `sent` the frames in it and where each starts.
- Definitions marked `(* mutant *)` next to the definition they vary are
  plausible bugs. The runs do not use them; swapping one in makes the property
  named for it in `PROJECT.json` fail, which shows that the property can fail.

Abstractions, and why the properties cannot tell the difference:

- Digests are model values; SHA-256 is a function without collisions (in
  `AuditLog` a head is the sequence of rows it covers).
- Frames are whole everywhere but in `FrameLine`, which shows why they may be: a
  damaged frame, and some of its neighbours, are lost ones, which `GovernedRig`
  has. There a frame is a sequence of units: bytes of a few values, a length and
  a checksum, each one unit. CRC-16 is taken to have no collisions, so a checksum
  is what it was computed over.
- A confidence is `below`, `at` or `above` the 0.70 gate. `at` exists because it
  is packed as a float32: exactly 0.70 passes the Linux gate and reaches the
  controller as 0.699999988. The simulated controller compares it in double
  precision and rejects it; MicroPython on the Alvik may compute in single
  precision, where the two are equal, so there either verdict may come.
- TCP delivers in order until a connection breaks; what the sender learns of a
  break, and when, is left open.
- Formatting, the LED matrix, log text, the free-text notes of a row and
  counters that nothing reads are left out.

## 3. The runs

Bounds are constants in the `.cfg` files. Every passing run fires the
interesting cases; the mutants show it.

| Run | Module, configuration | What it asks |
|---|---|---|
| `supervisor` | `MCSupervisorState` | The state machine alone, every order of its calls: type, inductive invariant, ring, holes, release, refinement of `OversightContract` |
| `sketch` | `MCR4Sketch`, `MCR4Sketch.cfg` | Firmware safety: every frame, both buttons, the console, resets of the board, a stuck contact, a dark sense channel; and the inductive invariant behind the firmware's proofs |
| `sketch_live` | `MCR4Sketch`, `MCR4Live.cfg` | Firmware liveness: a held button halts, silence halts, a lost contact is noticed |
| `mock` | `MCMock` | The simulated node in two settings: three threads interleaved at every unlocked step, and one handler at a time with a relay that fails. Refinement of the same contract, causes, retained digests; between handlers that take turns, contact, wire and polls |
| `filter` | `MCFilter` | The governance tier against an oversight node that says anything and either motion controller, with a restart; and that both controllers keep `MotionContract` |
| `perception` | `MCPerception` | Frames from the camera to the filter over connections that break, hang or are somebody else's: at most once, in order, and the listener comes back |
| `rig` | `MCGovernedRig` | Tier and node together over a line that loses frames, with a row flagged by a reviewer and one edited behind the logger |
| `line` | `MCFrameLine` | The three parsers at the end of a line that loses, alters and makes up bytes |
| `mock_race`, `rig_restart`, `filter_idle`, `perception_raise` | see section 6 | Claims of the repository that the code does not meet |

Bounds and why they are enough:

- **`supervisor`**: 5 references over a ring of 3, so the ring wraps and an
  evicted slot is overwritten twice; a timeout of 2 on a clock of 5 ticks, so
  ages go under, over and all the way round; one digest value, because the code
  never compares digests.
- **`sketch`**: one clock tick is the timeout, the poll interval is 1 and a pass
  may last up to 2 ticks (`MaxPass`), so a pass may straddle a timeout, a poll
  and a turn of the 3-tick clock. No reference is filed (`MaxRef = 0`): a digest
  is either rejected, which raises the override, or changes only the ring,
  which `supervisor` covers; `sketch_live` files one. `Debounce = 0` is the
  shortest window: an edge still has to be seen by one pass and confirmed by a
  later one.
- **`sketch_live`**: no `LATCH_REQUEST` is on the line and the board is not
  reset. Every latch command reads back and puts the cadence off, so requests
  arriving at the poll interval could hide a lost contact for ever; the
  governance tier sends none. Resets are excluded because a board reset for ever
  does nothing.
- **`mock`**: in the threaded setting three threads interleave over two
  references, with a relay that works and no requests: what is asked there is
  about locks. In the serial one handlers take turns, the contact may stick and
  the module drop off the bus, `LATCH_REQUEST`s for OPEN and CLOSED come, and
  three references go through a store of one, so that it evicts. Timeout 1, and a
  poll interval of 0, so that every poll there can be is there. The sense pair
  works: a dark channel is in `sketch`. Contact, wire, polls and resumption are
  claimed between handlers that take turns; with threads they do not all hold
  (section 6).
- **`filter`**: a frame of one detection below the gate, and one of two, above
  and at it; two rows; one frame at a time from the node; one restart over a
  persistent database. A second command while the first one's answer is late
  needs two rows and no more. A heartbeat is due after every row, the case in
  which `record` does most.
- **`perception`**: two frames, so that order can go wrong; three connections:
  the retry needs two, and one more is somebody else's or the next frame's; a
  backlog of two, so that it is full with one connection waiting behind another.
- **`rig`**: two rows, a ring of one (so the older of two rows is covered only
  through the chain), two frames in flight, one edit and one flag at any time.
  The line to the node loses frames; the line back does not, because an
  `OVERRIDE_ASSERT` that is lost is not repeated and no bound then holds on what
  the tier goes on to send. The motion controller stays silent here: what it
  answers does not reach the node.
- **`line`**: four frames of two lengths, one whose payload looks like the start
  of another frame and one with a value no enumeration has; two bytes lost,
  altered or made up, among them magic bytes and types; reads of one or two
  units, so that every place a read can be cut comes up. The longest frame a
  parser waits for is 8 units, so damage to the first frame leaves later ones
  that must arrive. The tier's limit on the length field is far enough below
  what the field can hold for a parser without it to wait for ever.

Deadlock is checked in every passing run but `line`, whose system really stops:
what was to be sent has been sent and read.

Fairness. `FairSketchSpec` assumes that `loop()` is called again when it
returns (weak fairness of the firmware's own steps: the one thread never
blocks), that the serial line is empty again and again (strong fairness of
`LineDrained`: `while (Serial.available() > 0)` ends only if it is, which 115200
baud against this loop justifies; the hazard list has the case), and that the
clock counts (strong fairness of `PassTime`). `SilenceHalts` also rests on the
bound on a pass: one that lasted longer than a turn of the clock less the timeout
could step over the whole time in which silence shows, which for `millis()` is
49 days. Nothing is assumed of frames, buttons or hardware.
`FairPerceptionSpec` assumes that the listener's thread takes a step it can take,
and nothing of the camera, the network or other peers. That it can is another
matter: the listener reads one connection at a time, without a timeout, and one
that says nothing and does not end keeps it for good. `EarComesBack` therefore
has as its premise that the listener is free of such a connection again and
again; without it the property fails. `FairFilterSpec` assumes that the service
takes its next step while a frame is in hand and that time passes; it is there
for `filter_idle`, whose trace shows a service that does nothing wrong but is
never sent a frame.

## 4. What is proved

All theorems are for every value of the constants that the modules' assumptions
allow, and the assumptions are weak: naturals, a ring or a backlog with at least
one place, a timeout shorter than a turn of the clock. Further assumptions are
named with the theorem.

**The state machine** (`SupervisorStateProofs`).

| Theorem | Says |
|---|---|
| `SupervisorTypeCorrect` | `[]TypeOK` |
| `IndInvCorrect` | `[]IndInv` |
| `CausesAlwaysHold` | while the button is held or a chain alert stands, the override stands |
| `RetainedAlwaysTail` | what the ring holds, oldest first, is the tail of what was filed |
| `HolesAlwaysAccepted` | a hole in the references it holds is one an operator accepted |
| `ReleaseAlwaysEarned` | an override ends only with the button up and a heartbeat no older than the timeout (or a full turn of the clock) |
| `SupervisorImplementsContract` | the state machine refines `OversightContract` |

`TypeOK` alone carries none of the last four. A release is decided on
`heartbeat_age`, a difference modulo the clock, and the theorem is about
`silence`, the real time; `AgeIsSilence` says that the two agree until the clock
has turned once, and it needs the lemma that one tick commutes with the modulus
(`ModStep`). The refinement maps a digest to a step of `ledger` from its last
reference, while the code compares with `last_ref`; `last_ref = LedgerTop` says
that they are the same. The tail is stated by position: a function `at` says where
in the ledger each index of the ring was filed. It is increasing, and a place it
leaves out is older than all it names, and left out only by a full ring; so one
append moves it by one step (keep the function or drop its first value, and add
the new place), and no induction over the ledger is needed. That the ring fills
from its first slot (`FillsFromFirst`) tells which slot is written next. The holes
follow from the tail: of two neighbours in the ring nothing filed lies between, so
the entry before the newer one, whose reference is one less, is the older one or
an operator's (`LedgerRises`). With `CausesHoldOverride` these make `IndInv`, which
each action preserves, one lemma per conjunct.

**Driver and firmware** (`SketchProofs`), for every set of faults,
relay module, clock, poll interval, debounce window and length of a pass.

| Theorem | Says |
|---|---|
| `IsolationAlwaysEvidence`, `AgreementAlwaysEvidence` | the driver alone claims an isolation, or an agreement, only if the contact was there when it looked |
| `SketchInvCorrect` | `[]SketchInv` of the firmware |
| `WireAlwaysTellsOverride` | an override stands exactly when the last override frame since boot announced one |
| `PassAlwaysEndsEnforced` | a pass ends with the relay sent where the state machine wants it |
| `MotionAlwaysNeedsFreshTier` | past the watchdog, the contact is wanted closed only with a fresh heartbeat |
| `AlwaysHeldOpenUntilHeartbeat` | boot holds the relay open until a heartbeat comes |
| `SketchKeepsWitness` | the firmware keeps the tail of what it filed, and its holes were accepted, in whatever step of a pass digests, clears and resets come |
| `SketchReportsEvidence` | the firmware reports isolation and agreement only on evidence, resets included |
| `OverrideNeverClosesContact` | no step closes the contact under an override |

What a pass ends with is decided several steps before, and the state in between
has to be described. `SketchInv` adds to the types, the state machine's `IndInv`
and the driver's `LatchInv` what each step leaves to the next: from which `pc` on
the watchdog has been passed, where the relay is when the drive is over, and that
the relay has not left the open position before the first heartbeat but for a
request in its own pass. The proofs do not repeat the parts': every step of the
firmware is shown to be, for the state machine and for the driver, a step of
their own specification, a stutter or a restart (`SupervisorMoves`,
`LatchMoves`), so that their invariants carry over; what is left is one lemma per
conjunct of `SketchInv`.

**Simulated node** (`MockProofs`).

| Theorem | Says |
|---|---|
| `MockTypesHold` | types, the lists of steps still to be taken included |
| `MockKeepsContract` | with any interleaving, the node refines `OversightContract` |
| `RetainedAlwaysTail` | with any interleaving, what the node retains is the tail of what it filed, the oldest evicted |
| `CausesAreLatched` | with any interleaving, a thread told to raise an override leaves one behind |
| `OverrideIsolates` | when handlers take turns, an override leaves the relay sent open, if requests are for `OPEN` or `CLOSED` (section 7 has the third position) |
| `TierIsTold` | when handlers take turns, the last override frame tells what stands |
| `CutIsThere` | when handlers take turns, an isolation that is shown is there |
| `AlertOutlivesItsOverride` | when handlers take turns, an attestation override still has its alert |

`StillToLatch` carries the threaded theorems: whoever has raised a cause and not
yet an override has `assert` on its list. The serial ones rest on `TurnInv`,
which speaks of the only list that is not empty (`Alone`) and says, for each list
a handler can be left with (`Plans`), where relay (`RelayTurn`), wire
(`WireTurn`), reading (`ReadingTurn`) and alert (`AlertTurn`) stand and where they
will when it is empty.

**Governance filter** (`FilterProofs`), for every number of rows, detections,
frames and restarts, every fault of either board and every answer of the node.

| Theorem | Says |
|---|---|
| `TypesHold` | `[]FilterTypeOK` |
| `BoardRefines` | either motion controller refines `MotionContract` (over a database that outlives the service) |
| `SentAccounted` | a row that says its command was sent tells the truth, is flagged, is in hand, or was in hand when a restart came; a restart excuses that one row only |
| `LoggedBeforeMotion` | what is executed was logged first, once and in order (same assumption) |
| `AcksTellTruth` | an ACK or a REJECT is what became of that row's command (same assumption) |

A row's fate is spread over the wires: `ServiceInv` says what `process_frame` may
rely on where it is (`WrittenIsLogged`, `InHand`), and `WireInv` that commands on
the wire are in the order of their rows and newer than what has been executed
(`InOrder`), that every answer on its way is true (`AnswerIsTrue`), that what a
row says is (`RowIsTrue`), and that what was refused is not executed after all
(`Refused`). The boards enter by `BoardStep` alone: each of their steps is one
the contract allows. `DbPersists` is assumed because over a fresh database
references start again, and a late answer may find a new row of its number.

**Perception link** (`PerceptionProofs`), for every backlog and number of frames
and connections.

| Theorem | Says |
|---|---|
| `PerceptionTypesHold` | `[]PerceptionTypeOK` |
| `FramesGovernedOnce` | a frame is governed at most once, in order, and never after it was given up |

The first copy of a retried frame may still lie in a connection that waits in the
backlog. The invariant says that the backlog is in the order in which its
connections were opened and comes after the one being read (`QueueOK`), that the
client's socket is the last of its connections (`SockOK`), that frames along
those connections, after the one in hand and the last governed, only grow, the
frame being sent being the greatest (`OrderOK`), and that no complete copy of one
given up is left (`GivenUpOK`).

**Tier and node together** (`RigProofs`), for every number of rows, frames in
flight, ring, clock, set of causes, edits and flags.

| Theorem | Says |
|---|---|
| `OneAfterLatch` | until the service is restarted at most one command more is written once the node has latched, whatever is lost on the way to the node; that what the node says is not lost is assumed (`"from_node" \notin Loses`) |
| `UntouchedVerify` | until the service is restarted, a log nobody touched reconciles with what the node retains, whatever is lost in either direction |
| `EditsFound` | until the service is restarted, rows a retained digest covers are not changed or deleted unseen, however many they are |

`VetoInv` carries the first: while the node's override stands, a frame that says
so is on the wire with no clear behind it, or the link has heard it
(`VetoIsComing`), whence the next poll finds a veto, whichever of the frames it
drains decides (`VetoIsHeard`, over the greatest of a finite set of positions);
and a command on its way to the wire was admitted without a veto and is its
frame's first (`Admitted`), so that the one counted is the last
(`NoMoreToSend`). `EvidenceInv` carries the other two: the chain holds what every
row it covers was when it was logged, and differs from each row in `tampered`
(`ChainInv`); every digest on the wire (`Told`) and in the ring (`Kept`) is the
chain as it was at its reference (`Covers`). `HeadIsRead` says what
`verify_database` recomputes from an unbroken log. The tier's types are those of
`FilterProofs`.

**The line** (`LineProofs`), for every set of encoded frames, buffer, limit on a
length that admits them, noise, amount of damage, number of frames and size of
read.

| Theorem | Says |
|---|---|
| `LineTypesHold` | the node's parser never fills its buffer, and between two reads the tier's holds less than the longest frame unless a frame made it raise |
| `OnlySentArrive` | what any of the three parsers hands on was sent, in that order and once |
| `DamageAlwaysContained` | at the node and the tier, what is sent a longest frame or more behind the damage arrives once it has been read, and from there on nothing else does, if no frame holds a magic byte but its first |

What has not been parsed is one wire, the buffer and then the line, and `Before`
says how much of the stream came before it. `LineInv` keeps account of it
(`Tracking`) by two functions: `where` gives each unit of the wire a place in the
stream, and `past` each message the place of the checksum it came with. Past the
damage a unit is the one at its place; before it only checksums are accounted for,
since the line cannot make one up, but those are, they stand in order, and
everything that has arrived comes before them (`Tracks`). A step of the line or of
a parser does one of five things to such a wire (it grows, loses units at its
front, hands on a frame as it does, is damaged in the middle, or stays), with a
lemma for each, `TracksSend` to `TracksDamage`. A checksum in the stream is the
last unit of just one frame (`ChecksumPlace`), and the second theorem is that
alone.

The third needs more. `Covered` adds to the account that every frame which had to
arrive and starts before the wire has. A step that takes units from the front keeps
it unless it cuts such a frame; and where a parser finds a magic byte within a
longest frame of it, the byte is past the damage and starts a frame that was sent,
this one or one that ends before it starts (`FrameBeforeDue`). So the header found
there fits (`DueHeaderFits`), and what is taken is that frame, whole (`DueIsTaken`).
When nothing is left to parse, no such frame can be in the buffer (`DueIsParsed`):
the header before it would be of a frame that is complete. `NodeBuffer`,
`TierBuffer` and `MembersArrive` say what the buffers and the messages of the
single parsers are. `LineInv` quantifies over functions on the wire, too many for
TLC to try; run `line` checks the three properties and the theorems need nothing
of it.

Only model-checked are the liveness properties, which with fairness and ENABLED are
out of the prover's reach: `HeldButtonLatches`, `SilenceHalts`,
`LostContactIsNoticed` and `EarComesBack`. Every other property of a passing run is
stated by a theorem above.

## 5. What the checks show

The state machine of the node is right about its own state, on the board and
under any interleaving of the simulation's threads: no order of causes, clears
and late timers breaks `OversightContract`. On the board, the contact follows
by the end of every pass, no frame, fault or reset closes it under an override,
and what the node says about isolation is backed by the sense pair. In the
simulation contact, wire and readings follow when handlers take turns, and may
not when they do not.

The log is written before the motion, and no late answer lands on another
command's row, whichever of the two controllers is at the end of the link and
whatever its gates, its halts or an exception of its motors make of a command. A
frame of the camera is governed at most once, in order and never after it was
reported as not delivered, although the client repeats it without knowing what
became of the first copy: the first is on an older connection, which is broken
before the second is opened and can no longer be completed. After the node
latches, at most one command more is sent, the one whose frame had already been
admitted. Every edit of a row under a retained digest is found, and a reviewer's
flag is not taken for one.

A damaged line delivers nothing that was not sent, and the node and the
governance tier hear every frame again that starts one longest frame after the
damage; of the motion controller's parser, which has no limit on a length, the
second is not claimed.

## 6. Disagreements between the code and what is said of it

Each has a run that ends in a trace.

1. `mock_race`: `mock_supervisor.py:395` says that an override already latched
   keeps the contact open. `_on_heartbeat` reads the override under the lock and
   permits after letting it go, so one latched in between is undone, and nothing
   opens the relay again.
2. `rig_restart`: `attestation.py:253-257` reports any head that does not
   reconcile as a row altered after it was witnessed. A service restarted over
   the same database starts the chain from genesis, and an untouched log then
   fails.
3. `filter_idle`: `docs/ipc-protocol.md:159` says that heartbeats are sent every
   500 ms. They are sent while detections are being logged; with nothing in view
   the node hears silence and latches.
4. `perception_raise`: `network.py:103-105` says that a broken client costs its
   connection and no more. A JSON list whose elements are no objects raises
   `AttributeError`, which nothing catches, and the service ends.

## 7. Limits

- `README.md:72` says that the contact opens before the override is announced.
  The firmware does so for a latch mismatch; for a bad digest, the button, the
  watchdog and the console it announces first, with `Serial` flushed, and opens
  later in the pass or in the next. What is claimed is the end of a pass
  (`PassEndsEnforced`, `WireTellsOverride`).
- The simulated node's `_on_latch_request` refuses `CLOSED` under an override and
  takes every position but `OPEN` for a request to close, so the third position
  of the protocol, `UNKNOWN`, closes the relay (`docs/ipc-protocol.md:384` says
  that nothing does; the firmware ignores it, and no caller sends it).
  `OverrideOpens` is therefore claimed for requests of `OPEN` and `CLOSED`.
- The motion controller's parser has no limit on the length field and waits for
  as many bytes as two damaged ones say, although `docs/architecture.md:1299`
  lists length guards on either link. `LineTypeOK` bounds the wait of the node's
  parser and the tier's, and `DamageIsContained` leaves the controller's out.
- `AtMostOneAfterLatch`, `UntouchedLogVerifies` and `EditsFound` speak of the
  time until the first restart of the service: the link forgets the veto it had
  heard, and the chain starts again. `AckTellsTruth` is checked with a persistent
  database. The motion controller is taken to outlive the service, as a board
  does; with `--alvik mock` it would be started anew.
- A restart between a row and its command leaves a row that says `command_sent`
  although nothing was written, and nothing flags it afterwards. That is at most
  one row a restart; `SentIsAccountedFor` names it (`interrupted`) and says that
  there is no other, so that a write that fails is flagged after a restart too.
- In `GovernedRig` the node latches and puts `OVERRIDE_ASSERT` on the line in one
  step, and a poll reads all that the line holds; how long a frame is under way
  is when the poll comes, and no more.
- In `FrameLine` the two bytes of a length are one unit and so are the two of a
  checksum, which is never taken for a magic byte and has no collisions. The
  premise of `DamageIsContained` that a frame holds no magic byte but its first
  (`Plain`) therefore stands, on the wire, for each byte of length and checksum too.
- In `PerceptionLink` only a send that fails leaves a half-sent message behind it,
  a restart of the camera's side does not; and strangers send no well-formed
  frames.
- An `OVERRIDE_ASSERT` that is lost is not repeated until another cause comes,
  and no bound holds then on what the tier sends. What stands against it is the
  contact, which `PassEndsEnforced` and `OverrideNeverCloses` are about.
- `drive_latch` compares the wanted position with the one last commanded, so an
  OPEN pulse that did not move the contact is not repeated while the override
  stands. `LostContactIsNoticed` says that it is noticed, and no property says
  that the contact then opens: nothing in the code makes it.
- `decode()` of `codec.py` raises a plain `ValueError` for a value no enumeration
  has, although its docstring promises `FrameError`; it leaves `feed()` with the
  frames behind it still unparsed (`Raise` in `FrameLine`) and ends
  `process_frame` with its command sent (`ResponseRaises`). The Alvik sends such
  a frame: its `HALT_NOTIFY` carries trigger 0.
- The Alvik has no watchdog and ignores `HEARTBEAT`, although
  `docs/ipc-protocol.md:131-133` and 374 promise a halt within a second of
  silence. It looks at its kill pin between reads of one byte, which may block,
  so a press may be seen late or not at all; no property says that a press halts.
- The listener is held by a connection that says nothing and does not end
  (`network.py:210`); `EarComesBack` has its end as a premise. The service notices
  that it was stopped only when the next frame arrives
  (`ventuno_q_service.py:88`); `--max-frames` is not modelled.
- Not modelled: sessions and write-ahead logging of SQLite, the notes of a row
  (a reviewer's overwrites the note of a veto), `request_latch` on the tier's
  side (it writes a frame, and no caller in the repository uses it; the node's
  side is modelled), `STATUS_QUERY` and the controllers' heartbeats (nothing on
  the governance side sends them), the LED matrix, start-up and shutdown of the
  mock, the backends' inference and the camera (data that governance has no state
  about), the dashboard's read-only views, observability (optional Sentry set-up)
  and the prose linter.

## 8. Plan

Done: the oversight node (`SupervisorState`, `LatchRelay`, `RelayPlant`,
`R4Sketch`) and its proofs; its simulation with threads (`MockSupervisor`) and
its proofs; the tier (`AuditLog`, `SupervisorLink`, `GovernanceFilter`) over both
controllers (`MotionPeer`, `AlvikFirmware`, `MotionContract`) and its proofs; the
way from the camera (`PerceptionLink`) and its proofs; the rig (`GovernedRig`)
and its proofs; the line (`FrameCodec`, `FrameLine`) and its proofs.

Next, in this order:

1. The line as a refinement: an abstract line that loses whole frames and nothing
   else, which `FrameLine` implements and `GovernedRig` uses, so that
   `OnlySentArrive` becomes a step of the composition.
2. The two halves of the tier in one module: `PerceptionLink`'s listener as the
   source of `GovernanceFilter`'s frames, to ask what a refused or repeated frame
   does to heartbeats and vetoes.
3. Sessions: `open_session` and `close_session` around a restart.

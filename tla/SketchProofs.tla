---------------------------- MODULE SketchProofs ----------------------------
(***************************************************************************)
(* Theorems about the relay driver and about the firmware as a whole, for  *)
(* every kind of relay and fault, every clock and length of pass, with or  *)
(* without a console and resets.  What the driver says of the contact is   *)
(* backed by the sense pair; what the state machine decides reaches the    *)
(* contact and the wire.  The theorems about the whole rest on the         *)
(* invariants of its two parts, which it moves as their own specifications *)
(* allow.                                                                  *)
(***************************************************************************)
EXTENDS SketchProperties, SupervisorStateProofs

-----------------------------------------------------------------------------
(* The driver alone.                                                         *)

(* One lit channel of the sense pair puts the contact where it says; a dark  *)
(* pair says nothing.                                                        *)
LEMMA SenseIsTruthful ==
  ASSUME NEW position \in Contacts, ReadSense(position) # "UNKNOWN"
  PROVE  ReadSense(position) = position
  BY DEF ReadSense, Contacts

LEMMA ReadSenseType == \A position : ReadSense(position) \in Positions
  BY DEF ReadSense, Positions, Contacts

LEMMA ReadingType ==
  ASSUME NEW command \in Positions, NEW position, NEW value \in Contacts
  PROVE  ReadingOf(command, position, value) \in Reading
<1>1. ReadRegister(value) \in Positions BY DEF ReadRegister, Positions
<1> QED BY <1>1, ReadSenseType DEF ReadingOf, Reading

(* A pulse leaves the contact and the register at one of their positions.    *)
LEMMA PulseType ==
  ASSUME PlantTypeOK, NEW target \in Contacts
  PROVE  ContactAfter(target) \in Contacts /\ RegisterAfter(target) \in Contacts
<1>1. ContactAfter(target) \in Contacts BY DEF ContactAfter, PlantTypeOK
<1> QED BY <1>1 DEF RegisterAfter, PlantTypeOK

-----------------------------------------------------------------------------
LEMMA LatchInit_LatchInv == LatchInit => LatchInv
<1> SUFFICES ASSUME LatchInit PROVE LatchInv
  OBVIOUS
<1>1. PlantTypeOK
  BY PlantAssumption DEF LatchInit, PlantInit, PlantTypeOK, ChannelStates
<1>2. DriverTypeOK
  <2>1. 0 \in Ages BY ClockAssumption DEF Ages
  <2>2. "UNKNOWN" \in Positions /\ "OPEN" \in Positions
    BY DEF Positions, Contacts
  <2>3. [commanded |-> "OPEN", reported |-> "OPEN", observed |-> "OPEN"] \in Reading
    BY <2>2 DEF Reading
  <2> QED BY <2>1, <2>2, <2>3 DEF LatchInit, DriverInit, DriverTypeOK
<1>3. ReadingIsEvidence BY DEF LatchInit, DriverInit, ReadingIsEvidence
<1> QED BY <1>1, <1>2, <1>3 DEF LatchInv, LatchTypeOK

LEMMA RecordStep ==
  ASSUME LatchInv, NEW command \in Positions, commanded' = command,
         contact' \in Contacts, register' \in Contacts,
         Record(ReadingOf(command, contact', register'), contact')
  PROVE  DriverTypeOK' /\ ReadingIsEvidence'
<1>1. last' \in Reading /\ last'.observed = ReadSense(contact')
  BY ReadingType DEF Record, ReadingOf
<1>2. last'.observed \in {polled_contact', "UNKNOWN"}
  BY <1>1, SenseIsTruthful DEF Record
<1>3. 0 \in Ages BY ClockAssumption DEF Ages
<1> QED BY <1>1, <1>2, <1>3
        DEF Record, DriverTypeOK, ReadingIsEvidence, Positions

LEMMA LatchInvStep == LatchInv /\ [LatchNext]_latchVars => LatchInv'
<1> SUFFICES ASSUME LatchInv, [LatchNext]_latchVars PROVE LatchInv'
  OBVIOUS
<1> USE DEF plantVars, driverVars, latchVars
<1>1. CASE LatchTick
  <2>1. poll_age' \in Ages
    <3>1. /\ poll_age + 1 \in Nat
          /\ ClockModulus \in Nat
          /\ ClockModulus > 0
      BY ClockAssumption DEF LatchInv, LatchTypeOK, DriverTypeOK, Ages
    <3>2. (poll_age + 1) % ClockModulus \in 0 .. ClockModulus - 1 BY <3>1
    <3> QED BY <1>1, <3>2 DEF LatchTick, Older, Ages
  <2> QED BY <1>1, <2>1
          DEF LatchTick, LatchInv, LatchTypeOK, PlantTypeOK, DriverTypeOK,
              ReadingIsEvidence
<1>2. ASSUME NEW target \in Contacts, LatchCommand(target) PROVE LatchInv'
  <2>1. contact' \in Contacts /\ register' \in Contacts
    BY <1>2, PulseType DEF LatchInv, LatchTypeOK, LatchCommand
  <2>2. DriverTypeOK' /\ ReadingIsEvidence'
    BY <1>2, <2>1, RecordStep DEF LatchCommand, Positions
  <2>3. PlantTypeOK'
    BY <1>2, <2>1 DEF LatchCommand, LatchInv, LatchTypeOK, PlantTypeOK
  <2> QED BY <2>2, <2>3 DEF LatchInv, LatchTypeOK
<1>3. CASE LatchPoll
  <2>1. /\ contact' = contact /\ register' = register /\ commanded' = commanded
        /\ PlantTypeOK'
    BY <1>3 DEF LatchPoll, LatchInv, LatchTypeOK, PlantTypeOK
  <2>2. DriverTypeOK' /\ ReadingIsEvidence'
    BY <1>3, <2>1, RecordStep
    DEF LatchPoll, LatchInv, LatchTypeOK, PlantTypeOK, DriverTypeOK
  <2> QED BY <2>1, <2>2 DEF LatchInv, LatchTypeOK
<1>4. CASE PlantNext /\ UNCHANGED driverVars
  BY <1>4
  DEF PlantNext, ModuleFault, SenseFault, PowerCycle, LatchInv, LatchTypeOK,
      PlantTypeOK, DriverTypeOK, ReadingIsEvidence
<1>5. CASE UNCHANGED latchVars
  BY <1>5 DEF LatchInv, LatchTypeOK, PlantTypeOK, DriverTypeOK, ReadingIsEvidence
<1> QED BY <1>1, <1>2, <1>3, <1>4, <1>5 DEF LatchNext

(* The types alone do not say what a reading is worth; the reading does.     *)
LEMMA EvidenceFollows == LatchInv => IsolationIsEvidence /\ AgreementIsEvidence
  BY DEF LatchInv, ReadingIsEvidence, IsolationIsEvidence, AgreementIsEvidence,
         Enforcing, Agrees

(* The driver never claims an isolation it has not seen (latch.cpp:81-83).   *)
THEOREM IsolationAlwaysEvidence == LatchSpec => []IsolationIsEvidence
  BY LatchInit_LatchInv, LatchInvStep, EvidenceFollows, PTL DEF LatchSpec

(* Nor an agreement that was not there (latch.cpp:39-45).                    *)
THEOREM AgreementAlwaysEvidence == LatchSpec => []AgreementIsEvidence
  BY LatchInit_LatchInv, LatchInvStep, EvidenceFollows, PTL DEF LatchSpec

-----------------------------------------------------------------------------
(* Whatever loop() does, the state machine sees only its own entry points or *)
(* a restart.                                                                *)
LEMMA DriveMovesSupervisor ==
  ASSUME DriveLatch
  PROVE  SupervisorNext \/ UNCHANGED supervisorVars
  BY DEF DriveLatch, MoveRelay, LeaveRelay, ReadBack, ReadBackFault, SupervisorNext

LEMMA SupervisorMoves ==
  ASSUME [SketchNext]_sketchVars
  PROVE  [SupervisorNext]_supervisorVars \/ SupervisorRestart
<1>1. CASE RecvHeartbeat BY <1>1 DEF RecvHeartbeat, SupervisorNext
<1>2. CASE RecvDigest BY <1>2 DEF RecvDigest, SupervisorNext
<1>3. CASE PollButton
  BY <1>3 DEF PollButton, ButtonMoved, ButtonSettled, ButtonSteady, SupervisorNext
<1>4. CASE ClearPressed \/ ConsoleClear
  BY <1>4 DEF ClearPressed, ConsoleClear, SupervisorNext
<1>5. CASE Watchdog BY <1>5 DEF Watchdog, SupervisorNext
<1>6. CASE FirstContact \/ Drive
  BY <1>6, DriveMovesSupervisor DEF FirstContact, Drive
<1>7. CASE ConsoleOverride BY <1>7 DEF ConsoleOverride, SupervisorNext
<1>8. CASE PassTime BY <1>8 DEF PassTime, SupervisorNext
<1>9. CASE Reset BY <1>9 DEF Reset
<1>10. CASE Setup \/ StartPass \/ RecvLatchRequest \/ LineDrained
             \/ NothingCleared \/ EndPass \/ World
  BY <1>10
  DEF Setup, StartPass, RecvLatchRequest, LineDrained, NothingCleared, EndPass, World
<1>11. CASE UNCHANGED sketchVars BY <1>11 DEF sketchVars
<1> QED
  BY <1>1, <1>2, <1>3, <1>4, <1>5, <1>6, <1>7, <1>8, <1>9, <1>10, <1>11
  DEF SketchNext, Loop

(* And the driver sees only commands, polls, time or a restart.              *)
LEMMA DriveMovesLatch ==
  ASSUME DriveLatch
  PROVE  [LatchNext]_latchVars
<1>1. Wanted \in Contacts /\ "OPEN" \in Contacts BY DEF Wanted, Contacts
<1> QED BY <1>1
        DEF DriveLatch, MoveRelay, LeaveRelay, ReadBack, ReadBackFault, LatchNext

LEMMA LatchMoves ==
  ASSUME [SketchNext]_sketchVars
  PROVE  [LatchNext]_latchVars \/ (DriverRestart /\ UNCHANGED plantVars)
<1>1. CASE Setup
  BY <1>1 DEF Setup, LatchNext, Contacts
<1>2. CASE FirstContact \/ Drive
  BY <1>2, DriveMovesLatch DEF FirstContact, Drive
<1>3. CASE RecvLatchRequest
  <2>1. PICK desired \in Positions :
          IF Honoured(desired)
            THEN LatchCommand(desired) /\ asked' = desired
            ELSE UNCHANGED <<latchVars, asked>>
    BY <1>3 DEF RecvLatchRequest
  <2>2. Honoured(desired) => desired \in Contacts BY DEF Honoured, Contacts
  <2> QED BY <2>1, <2>2 DEF LatchNext
<1>4. CASE PassTime BY <1>4 DEF PassTime, LatchNext, LatchTick
<1>5. CASE Reset BY <1>5 DEF Reset
<1>6. CASE World BY <1>6 DEF World, LatchNext
<1>7. CASE StartPass \/ RecvHeartbeat \/ RecvDigest \/ LineDrained \/ PollButton
             \/ ClearPressed \/ NothingCleared \/ Watchdog
             \/ ConsoleOverride \/ ConsoleClear \/ EndPass
  BY <1>7
  DEF StartPass, RecvHeartbeat, RecvDigest, LineDrained, PollButton, ClearPressed,
      NothingCleared, Watchdog, ConsoleOverride, ConsoleClear, EndPass
<1>8. CASE UNCHANGED sketchVars BY <1>8 DEF sketchVars
<1> QED
  BY <1>1, <1>2, <1>3, <1>4, <1>5, <1>6, <1>7, <1>8 DEF SketchNext, Loop

(* So the invariants of the parts hold of the whole.                         *)
LEMMA PartsStep ==
  ASSUME IndInv, LatchInv, [SketchNext]_sketchVars
  PROVE  IndInv' /\ LatchInv'
<1>1. IndInv'
  <2>1. CASE [SupervisorNext]_supervisorVars BY <2>1, IndInvStep
  <2>2. CASE SupervisorRestart
    <3>1. SupervisorInit' BY <2>2 DEF SupervisorRestart, SupervisorInit
    <3>2. SupervisorInit' => IndInv' BY IndInvInit, PTL
    <3> QED BY <3>1, <3>2
  <2> QED BY <2>1, <2>2, SupervisorMoves
<1>2. LatchInv'
  <2>1. CASE [LatchNext]_latchVars BY <2>1, LatchInvStep
  <2>2. CASE DriverRestart /\ UNCHANGED plantVars
    <3>1. 0 \in Ages BY ClockAssumption DEF Ages
    <3>2. "UNKNOWN" \in Positions /\ "OPEN" \in Positions
      BY DEF Positions, Contacts
    <3>3. [commanded |-> "OPEN", reported |-> "OPEN", observed |-> "OPEN"] \in Reading
      BY <3>2 DEF Reading
    <3>4. DriverTypeOK' /\ ReadingIsEvidence'
      BY <2>2, <3>1, <3>2, <3>3 DEF DriverRestart, DriverTypeOK, ReadingIsEvidence
    <3>5. PlantTypeOK'
      BY <2>2 DEF LatchInv, LatchTypeOK, PlantTypeOK, plantVars
    <3> QED BY <3>4, <3>5 DEF LatchInv, LatchTypeOK
  <2> QED BY <2>1, <2>2, LatchMoves
<1> QED BY <1>1, <1>2

-----------------------------------------------------------------------------
(* The program's own variables keep their types.                             *)
ControlTypeOK ==
  /\ pc \in Places
  /\ last_raw_button \in BOOLEAN
  /\ debounce_age \in Ages
  /\ pass_time \in 0 .. MaxPass
  /\ announced \in BOOLEAN
  /\ asked \in Positions

LEMMA ControlTypeStep ==
  ASSUME SketchTypeOK, [SketchNext]_sketchVars
  PROVE  ControlTypeOK'
<1> USE DEF SketchTypeOK, ControlTypeOK, Places, At, Goto, buttonVars
<1>1. 0 \in Ages /\ 0 \in 0 .. MaxPass /\ MaxPass \in Nat
  BY ClockAssumption, SketchAssumption DEF Ages
<1>2. CASE PassTime
  <2>1. debounce_age' \in Ages
    <3>1. debounce_age + 1 \in Nat /\ ClockModulus \in Nat /\ ClockModulus > 0
      BY ClockAssumption DEF Ages
    <3> QED BY <1>2, <3>1, ModRange DEF PassTime, Older, Ages
  <2>2. pass_time' \in 0 .. MaxPass BY <1>1, <1>2 DEF PassTime
  <2> QED BY <1>2, <2>1, <2>2 DEF PassTime
<1>3. CASE RecvLatchRequest
  BY <1>3 DEF RecvLatchRequest
<1>4. CASE RecvDigest
  BY <1>4 DEF RecvDigest
<1>5. CASE PollButton
  BY <1>1, <1>5 DEF PollButton, ButtonMoved, ButtonSettled, ButtonSteady
<1>6. CASE FirstContact \/ Drive
  BY <1>6
  DEF FirstContact, Drive, DriveLatch, MoveRelay, LeaveRelay, ReadBack, ReadBackFault
<1>7. CASE Setup \/ StartPass \/ RecvHeartbeat \/ LineDrained
             \/ ClearPressed \/ NothingCleared \/ Watchdog
  BY <1>1, <1>7
  DEF Setup, StartPass, RecvHeartbeat, LineDrained, ClearPressed, NothingCleared,
      Watchdog, Positions
<1>8. CASE ConsoleOverride \/ ConsoleClear \/ EndPass \/ Reset \/ World
  BY <1>1, <1>8
  DEF ConsoleOverride, ConsoleClear, EndPass, Reset, World, Positions
<1>9. CASE UNCHANGED sketchVars BY <1>9 DEF sketchVars
<1> QED
  BY <1>2, <1>3, <1>4, <1>5, <1>6, <1>7, <1>8, <1>9 DEF SketchNext, Loop

-----------------------------------------------------------------------------
(* Whoever latches, is refused or clears, the wire is told in the same step. *)
LEMMA DriveTellsWire ==
  ASSUME DriveLatch, WireTellsOverride
  PROVE  WireTellsOverride'
  BY DEF DriveLatch, MoveRelay, LeaveRelay, ReadBack, ReadBackFault, supervisorVars,
         overrideVars, AssertOverride, Assert, WireTellsOverride

LEMMA WireStep ==
  ASSUME TypeOK, WireTellsOverride, [SketchNext]_sketchVars
  PROVE  WireTellsOverride'
<1> USE DEF WireTellsOverride, supervisorVars, overrideVars
<1>1. CASE RecvHeartbeat BY <1>1 DEF RecvHeartbeat, OnHeartbeat
<1>2. CASE RecvDigest
  <2>1. PICK ref \in Refs, digest \in Digests :
          /\ OnDigest(ref, digest)
          /\ IF Verdict(ref) # "CHAIN_OK" /\ override_reason' = "ATTESTATION_MISMATCH"
               THEN announced' = TRUE
               ELSE UNCHANGED announced
    BY <1>2 DEF RecvDigest
  <2>2. CASE FileDigest(ref, digest) BY <2>1, <2>2 DEF FileDigest
  <2>3. CASE RejectDigest(ref) BY <2>1, <2>3 DEF RejectDigest, Assert
  <2> QED BY <2>1, <2>2, <2>3 DEF OnDigest
<1>3. CASE PollButton
  BY <1>3
  DEF PollButton, ButtonMoved, ButtonSettled, ButtonSteady, SetButton, Assert
<1>4. CASE ClearPressed BY <1>4 DEF ClearPressed, ClearOverride
<1>5. CASE Watchdog BY <1>5 DEF Watchdog, SupervisorTick, AssertOverride, Assert
<1>6. CASE FirstContact \/ Drive
  BY <1>6, DriveTellsWire DEF FirstContact, Drive
<1>7. CASE ConsoleOverride BY <1>7 DEF ConsoleOverride, AssertOverride, Assert
<1>8. CASE ConsoleClear BY <1>8 DEF ConsoleClear, ClearOverride
<1>9. CASE Reset BY <1>9 DEF Reset, SupervisorRestart
<1>10. CASE PassTime BY <1>10 DEF PassTime, Tick
<1>11. CASE Setup \/ StartPass \/ RecvLatchRequest \/ LineDrained
             \/ NothingCleared \/ EndPass \/ World
  BY <1>11
  DEF Setup, StartPass, RecvLatchRequest, LineDrained, NothingCleared, EndPass, World
<1>12. CASE UNCHANGED sketchVars BY <1>12 DEF sketchVars
<1> QED
  BY <1>1, <1>2, <1>3, <1>4, <1>5, <1>6, <1>7, <1>8, <1>9, <1>10, <1>11, <1>12
  DEF SketchNext, Loop

-----------------------------------------------------------------------------
(* drive_latch is the only way out of the drive step, and every branch of it *)
(* leaves the relay where the state machine wants it by then.                *)
LEMMA DriveEnforces ==
  ASSUME DriveLatch
  PROVE  (commanded = Wanted)'
<1> USE DEF Wanted, KillLine, supervisorVars, overrideVars, tierVars
<1>1. CASE MoveRelay BY <1>1 DEF MoveRelay, LatchCommand
<1>2. CASE LeaveRelay BY <1>2 DEF LeaveRelay, latchVars, driverVars
<1>3. CASE ReadBack BY <1>3 DEF ReadBack, LatchPoll
<1>4. CASE ReadBackFault
  BY <1>4 DEF ReadBackFault, AssertOverride, Assert, LatchCommand
<1> QED BY <1>1, <1>2, <1>3, <1>4 DEF DriveLatch

LEMMA EnforcedStep ==
  ASSUME PassEndsEnforced, [SketchNext]_sketchVars
  PROVE  PassEndsEnforced'
<1> USE DEF PassEndsEnforced, At, Goto
<1>1. CASE Drive BY <1>1, DriveEnforces DEF Drive
<1>2. CASE World
  BY <1>2
  DEF World, Wanted, KillLine, supervisorVars, overrideVars, tierVars, driverVars
<1>3. CASE UNCHANGED sketchVars
  BY <1>3
  DEF sketchVars, Wanted, KillLine, supervisorVars, overrideVars, tierVars,
      latchVars, driverVars
<1>4. CASE Loop /\ ~Drive
  BY <1>4
  DEF Loop, Setup, StartPass, RecvHeartbeat, FirstContact, RecvLatchRequest,
      RecvDigest, LineDrained, PollButton, ClearPressed, NothingCleared, Watchdog,
      ConsoleOverride, ConsoleClear, EndPass
<1>5. CASE PassTime \/ Reset BY <1>5 DEF PassTime, Reset
<1> QED BY <1>1, <1>2, <1>3, <1>4, <1>5 DEF SketchNext

(* The watchdog leaves either an override or a tier heard within the timeout *)
(* to the drive step, and nothing moves the clock in between.                *)
LEMMA WatchdogStep ==
  ASSUME WatchdogPassed, [SketchNext]_sketchVars
  PROVE  WatchdogPassed'
<1> USE DEF WatchdogPassed, At, Goto
<1>1. CASE Watchdog
  BY <1>1
  DEF Watchdog, SupervisorTick, AssertOverride, Assert, Stale, supervisorVars, tierVars
<1>2. CASE World
  BY <1>2 DEF World, supervisorVars, overrideVars, tierVars, Stale
<1>3. CASE UNCHANGED sketchVars
  BY <1>3 DEF sketchVars, supervisorVars, overrideVars, tierVars, Stale
<1>4. CASE Loop /\ ~Watchdog
  BY <1>4
  DEF Loop, Setup, StartPass, RecvHeartbeat, FirstContact, RecvLatchRequest,
      RecvDigest, LineDrained, PollButton, ClearPressed, NothingCleared, Drive,
      ConsoleOverride, ConsoleClear, EndPass
<1>5. CASE PassTime \/ Reset BY <1>5 DEF PassTime, Reset
<1> QED BY <1>1, <1>2, <1>3, <1>4, <1>5 DEF SketchNext

(* Before a heartbeat has come the relay is only ever sent open, but for a   *)
(* LATCH_REQUEST(CLOSED) that the end of its own pass undoes.                *)
LEMMA BootStep ==
  ASSUME BootHoldsOpen, PassEndsEnforced, [SketchNext]_sketchVars
  PROVE  BootHoldsOpen'
<1> USE DEF BootHoldsOpen, At, Goto
<1>1. CASE Setup BY <1>1 DEF Setup, LatchCommand
<1>2. CASE RecvHeartbeat BY <1>2 DEF RecvHeartbeat, OnHeartbeat
<1>3. CASE RecvLatchRequest
  BY <1>3
  DEF RecvLatchRequest, Honoured, LatchCommand, Positions, Contacts, latchVars,
      driverVars, supervisorVars, tierVars
<1>4. CASE FirstContact \/ Drive
  <2>1. DriveLatch BY <1>4 DEF FirstContact, Drive
  <2>2. (commanded = Wanted)' BY <2>1, DriveEnforces
  <2> QED BY <2>2 DEF Wanted, KillLine
<1>5. CASE RecvDigest
  BY <1>5
  DEF RecvDigest, OnDigest, FileDigest, RejectDigest, tierVars, latchVars, driverVars
<1>6. CASE PollButton
  BY <1>6
  DEF PollButton, ButtonMoved, ButtonSettled, ButtonSteady, SetButton,
      supervisorVars, tierVars, latchVars, driverVars
<1>7. CASE ClearPressed \/ ConsoleClear
  BY <1>7
  DEF ClearPressed, ConsoleClear, ClearOverride, supervisorVars, tierVars,
      latchVars, driverVars
<1>8. CASE Watchdog \/ ConsoleOverride
  BY <1>8
  DEF Watchdog, ConsoleOverride, SupervisorTick, AssertOverride, supervisorVars,
      tierVars, latchVars, driverVars
<1>9. CASE StartPass \/ LineDrained \/ NothingCleared \/ EndPass
  BY <1>9
  DEF StartPass, LineDrained, NothingCleared, EndPass, supervisorVars, tierVars,
      latchVars, driverVars
<1>10. CASE PassTime BY <1>10 DEF PassTime, Tick
<1>11. CASE Reset BY <1>11 DEF Reset
<1>12. CASE World BY <1>12 DEF World, supervisorVars, tierVars, driverVars
<1>13. CASE UNCHANGED sketchVars
  BY <1>13 DEF sketchVars, supervisorVars, tierVars, latchVars, driverVars
<1> QED
  BY <1>1, <1>2, <1>3, <1>4, <1>5, <1>6, <1>7, <1>8, <1>9, <1>10, <1>11, <1>12, <1>13
  DEF SketchNext, Loop

-----------------------------------------------------------------------------
LEMMA SketchInvInit == SketchInit => SketchInv
<1> SUFFICES ASSUME SketchInit PROVE SketchInv
  OBVIOUS
<1>1. IndInv BY IndInvInit DEF SketchInit
<1>2. LatchInv BY LatchInit_LatchInv DEF SketchInit
<1>3. SketchTypeOK
  <2>1. 0 \in Ages /\ 0 \in 0 .. MaxPass
    BY ClockAssumption, SketchAssumption DEF Ages
  <2> QED BY <1>1, <1>2, <2>1
          DEF SketchInit, SketchTypeOK, IndInv, LatchInv, Places, Positions
<1>4. WireTellsOverride BY DEF SketchInit, SupervisorInit, WireTellsOverride
<1>5. PassEndsEnforced /\ WatchdogPassed /\ BootHoldsOpen
  BY DEF SketchInit, PassEndsEnforced, WatchdogPassed, BootHoldsOpen, At
<1> QED BY <1>1, <1>2, <1>3, <1>4, <1>5 DEF SketchInv

LEMMA SketchInvStep == SketchInv /\ [SketchNext]_sketchVars => SketchInv'
<1> SUFFICES ASSUME SketchInv, [SketchNext]_sketchVars PROVE SketchInv'
  OBVIOUS
<1> USE DEF SketchInv
<1>1. IndInv' /\ LatchInv' BY PartsStep
<1>2. SketchTypeOK'
  BY <1>1, ControlTypeStep DEF SketchTypeOK, ControlTypeOK, IndInv, LatchInv
<1>3. WireTellsOverride' BY WireStep DEF SketchTypeOK
<1>4. PassEndsEnforced' BY EnforcedStep
<1>5. WatchdogPassed' BY WatchdogStep
<1>6. BootHoldsOpen' BY BootStep
<1> QED BY <1>1, <1>2, <1>3, <1>4, <1>5, <1>6

THEOREM SketchInvCorrect == SketchSpec => []SketchInv
  BY SketchInvInit, SketchInvStep, PTL DEF SketchSpec

(* The last override frame sent is always the truth (r4_supervisor.ino:      *)
(* 297-302, 342-354, 471-482).                                               *)
THEOREM WireAlwaysTellsOverride == SketchSpec => []WireTellsOverride
<1>1. SketchInv => WireTellsOverride BY DEF SketchInv
<1> QED BY <1>1, SketchInvCorrect, PTL

(* Every pass ends with the relay sent where the state machine wants it      *)
(* (r4_supervisor.ino:276-305).                                              *)
THEOREM PassAlwaysEndsEnforced == SketchSpec => []PassEndsEnforced
<1>1. SketchInv => PassEndsEnforced BY DEF SketchInv
<1> QED BY <1>1, SketchInvCorrect, PTL

(* The motors are driven only while the tier is fresh, as long as the clock  *)
(* has not turned a full circle (supervisor_state.cpp:102-111).              *)
THEOREM MotionAlwaysNeedsFreshTier == SketchSpec => []MotionNeedsFreshTier
<1>1. SketchInv => MotionNeedsFreshTier
  <2> SUFFICES ASSUME SketchInv, At("drive"), ~KillLine
               PROVE  silence <= HeartbeatTimeout \/ silence = ClockModulus
    BY DEF MotionNeedsFreshTier
  <2>1. ~Stale BY DEF SketchInv, WatchdogPassed, KillLine
  <2>2. /\ silence \in 0 .. ClockModulus
        /\ ClockModulus \in Nat /\ HeartbeatTimeout \in Nat
        /\ heartbeat_age \in Nat
        /\ silence < ClockModulus => heartbeat_age = silence
    BY SupervisorAssumption, ClockAssumption
    DEF SketchInv, IndInv, TypeOK, Ages, AgeIsSilence
  <2> QED BY <2>1, <2>2 DEF Stale
<1> QED BY <1>1, SketchInvCorrect, PTL

(* From boot and from every reset the contact is held open until a heartbeat *)
(* comes (r4_supervisor.ino:279-286, 421-436).                               *)
THEOREM AlwaysHeldOpenUntilHeartbeat == SketchSpec => []HeldOpenUntilHeartbeat
<1>1. SketchInv => HeldOpenUntilHeartbeat
  BY DEF SketchInv, BootHoldsOpen, HeldOpenUntilHeartbeat, At
<1> QED BY <1>1, SketchInvCorrect, PTL

(* What the firmware reports of the contact is backed by what it saw         *)
(* (latch.cpp:39-45, 81-83).                                                 *)
THEOREM SketchReportsEvidence ==
  SketchSpec => [](IsolationIsEvidence /\ AgreementIsEvidence)
<1>1. SketchInv => IsolationIsEvidence /\ AgreementIsEvidence
  BY EvidenceFollows DEF SketchInv
<1> QED BY <1>1, SketchInvCorrect, PTL

(* No reset breaks the witness: what an auditor reads off the node is the    *)
(* tail of what it has filed since it started, and a hole in it is one an    *)
(* operator accepted (supervisor_state.cpp:48-54, 76-92, r4_supervisor.ino:  *)
(* 342-354).                                                                 *)
THEOREM SketchKeepsWitness ==
  SketchSpec => [](RetainedIsTailOfFiled /\ HolesWereAccepted)
<1>1. SketchInv => RetainedIsTailOfFiled /\ HolesWereAccepted
  BY HolesFollow DEF SketchInv, IndInv
<1> QED BY <1>1, SketchInvCorrect, PTL

-----------------------------------------------------------------------------
(* Every command given under an override is to open, and only a command      *)
(* moves the contact.                                                        *)
LEMMA PulseMovesTowards ==
  ASSUME NEW target, LatchCommand(target)
  PROVE  contact' \in {contact, target}
  BY DEF LatchCommand, ContactAfter

LEMMA NeverClosesStep ==
  ASSUME mode = "OVERRIDE", [SketchNext]_sketchVars, contact = "OPEN"
  PROVE  contact' = "OPEN"
<1> USE DEF latchVars, plantVars
<1>1. CASE Setup BY <1>1, PulseMovesTowards DEF Setup
<1>2. CASE FirstContact \/ Drive
  <2>1. Wanted = "OPEN" BY DEF Wanted, KillLine
  <2> QED BY <1>2, <2>1, PulseMovesTowards
          DEF FirstContact, Drive, DriveLatch, MoveRelay, LeaveRelay, ReadBack,
              ReadBackFault, LatchPoll
<1>3. CASE RecvLatchRequest
  BY <1>3, PulseMovesTowards DEF RecvLatchRequest, Honoured
<1>4. CASE World BY <1>4 DEF World, PlantNext, ModuleFault, SenseFault, PowerCycle
<1>5. CASE PassTime \/ Reset BY <1>5 DEF PassTime, Reset
<1>6. CASE StartPass \/ RecvHeartbeat \/ RecvDigest \/ LineDrained \/ PollButton
             \/ ClearPressed \/ NothingCleared \/ Watchdog
             \/ ConsoleOverride \/ ConsoleClear \/ EndPass
  BY <1>6
  DEF StartPass, RecvHeartbeat, RecvDigest, LineDrained, PollButton, ClearPressed,
      NothingCleared, Watchdog, ConsoleOverride, ConsoleClear, EndPass
<1>7. CASE UNCHANGED sketchVars BY <1>7 DEF sketchVars
<1> QED
  BY <1>1, <1>2, <1>3, <1>4, <1>5, <1>6, <1>7 DEF SketchNext, Loop

(* Nothing closes the contact while an override stands                       *)
(* (r4_supervisor.ino:279-286, 316-326).                                     *)
THEOREM OverrideNeverClosesContact == SketchSpec => OverrideNeverCloses
<1>1. [SketchNext]_sketchVars =>
        [mode = "OVERRIDE" => ~(contact = "OPEN" /\ contact' = "CLOSED")]_sketchVars
  BY NeverClosesStep
<1> QED BY <1>1, PTL DEF SketchSpec, OverrideNeverCloses
=============================================================================

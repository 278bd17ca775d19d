----------------------------- MODULE LatchRelay -----------------------------
(***************************************************************************)
(* The relay driver of r4-supervisor/latch.cpp.  It runs on one thread, so *)
(* a command, its pulse and its read-back are one step.                    *)
(*                                                                         *)
(* As in SupervisorState, elapsed(now_ms, last_poll_ms) is the age         *)
(* poll_age.  The transition and mismatch totals only fill in the report   *)
(* and are left out.                                                       *)
(***************************************************************************)
EXTENDS RelayPlant, Clock

CONSTANT PollInterval   (* LATCH_POLL_INTERVAL_MS                            *)

ASSUME LatchAssumption ==
  /\ PollInterval \in Nat \ {0}
  /\ PollInterval < ClockModulus

VARIABLES
  commanded,       (* what the driver last asked for                         *)
  has_reading,
  last,            (* the last LatchReading                                  *)
  poll_age,        (* elapsed(now_ms, last_poll_ms)                          *)
  polled_contact   (* history: where the contact was at the last poll        *)

driverVars == <<commanded, has_reading, last, poll_age, polled_contact>>
latchVars == <<plantVars, driverVars>>

Reading == [commanded : Positions, reported : Positions, observed : Positions]

DriverTypeOK ==
  /\ commanded \in Positions
  /\ has_reading \in BOOLEAN
  /\ last \in Reading
  /\ poll_age \in Ages
  /\ polled_contact \in Positions

LatchTypeOK == PlantTypeOK /\ DriverTypeOK

(* latch_init: nothing commanded, nothing read.                              *)
DriverInit ==
  /\ commanded = "UNKNOWN"
  /\ has_reading = FALSE
  /\ last = [commanded |-> "OPEN", reported |-> "OPEN", observed |-> "OPEN"]
  /\ poll_age = 0
  /\ polled_contact = "UNKNOWN"

(* latch_init again, after the board has lost its memory.                    *)
DriverRestart ==
  /\ commanded' = "UNKNOWN"
  /\ has_reading' = FALSE
  /\ last' = [commanded |-> "OPEN", reported |-> "OPEN", observed |-> "OPEN"]
  /\ poll_age' = 0
  /\ polled_contact' = "UNKNOWN"

(* latch_reading_agrees                                                      *)
AgreesByRegister(reading) == reading.commanded = reading.reported   (* mutant *)

Agrees(reading) ==
  /\ reading.observed # "UNKNOWN"
  /\ reading.commanded = reading.observed
  /\ reading.commanded = reading.reported

(* latch_enforcing                                                           *)
Enforcing == has_reading /\ last.observed = "OPEN"

(* latch_poll, of a relay commanded to one position, with its contact and    *)
(* its register where they are.                                              *)
ReadingOf(command, position, value) ==
  [commanded |-> command,
   reported  |-> ReadRegister(value),
   observed  |-> ReadSense(position)]

Record(reading, position) ==
  /\ last' = reading
  /\ has_reading' = TRUE
  /\ poll_age' = 0
  /\ polled_contact' = position

LatchPoll ==
  /\ Record(ReadingOf(commanded, contact, register), contact)
  /\ UNCHANGED <<commanded, plantVars>>

(* latch_command: pulse whatever was commanded before, then read back.       *)
LatchCommand(target) ==
  /\ commanded' = target
  /\ contact' = ContactAfter(target)
  /\ register' = RegisterAfter(target)
  /\ Record(ReadingOf(target, contact', register'), contact')
  /\ UNCHANGED <<fault, sense_a_live, sense_b_live>>

(* latch_poll_if_due's test.                                                 *)
PollDue == ~has_reading \/ poll_age >= PollInterval

LatchTick ==
  /\ poll_age' = Older(poll_age)
  /\ UNCHANGED <<plantVars, commanded, has_reading, last, polled_contact>>

LatchInit == PlantInit /\ DriverInit

LatchNext ==
  \/ LatchTick
  \/ \E target \in Contacts : LatchCommand(target)
  \/ LatchPoll
  \/ PlantNext /\ UNCHANGED driverVars

LatchSpec == LatchInit /\ [][LatchNext]_latchVars

-----------------------------------------------------------------------------
(* The driver claims the motors isolated only if the contact was open when   *)
(* it looked, whichever parts of the module and of the sense harness were    *)
(* broken then or have broken since (latch.cpp:81-83, latch.h:105-108,       *)
(* r4_supervisor.ino:243-274).                                               *)
IsolationIsEvidence == Enforcing => polled_contact = "OPEN"

(* A reading agrees only if the contact really was where it had been sent:   *)
(* neither a register that echoes nor a half dark sense pair hides a contact *)
(* that failed to move (latch.cpp:25-45, latch.py:337-349).                  *)
AgreementIsEvidence ==
  has_reading /\ Agrees(last) => polled_contact = last.commanded

(* The inductive invariant behind both: the reading kept is one that was     *)
(* really taken.                                                             *)
ReadingIsEvidence ==
  has_reading => last.observed \in {polled_contact, "UNKNOWN"}

LatchInv == LatchTypeOK /\ ReadingIsEvidence
=============================================================================

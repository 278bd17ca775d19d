--------------------------- MODULE MockSupervisor ---------------------------
(***************************************************************************)
(* The oversight node of simulations and tests,                            *)
(* linux-stack/oversight/mock_supervisor.py (class MockR4Supervisor), over *)
(* the Python relay driver linux-stack/oversight/latch.py (LatchRelay).    *)
(*                                                                         *)
(* Three threads call into it: the reader of the serial line, the watchdog *)
(* timer, and whoever plays the operator.  The node's lock protects its    *)
(* state and the driver's lock the driver's, but a handler lets go of the  *)
(* first before it touches the relay or the wire, and the driver lets go   *)
(* of the second between a pulse and each part of its read-back.  Every    *)
(* handler is therefore one locked step, which decides, followed by a list *)
(* of unlocked steps still to be taken: todo[thread], its first element    *)
(* next.  Steps of different threads interleave.                           *)
(*                                                                         *)
(* Time is the monotonic clock, which does not wrap: the ages stop at the  *)
(* first value past which the code no longer tells them apart.             *)
(***************************************************************************)
EXTENDS RelayPlant, Sequences

CONSTANTS
  MaxRef,             (* largest audit_ref                                   *)
  Capacity,           (* digest_capacity, the deque's maxlen                 *)
  HeartbeatTimeout,   (* heartbeat_timeout_ms                                *)
  PollInterval,       (* poll_interval_ms                                    *)
  Digests, NoDigest,
  Settings            (* the surroundings a behaviour may run in: does a     *)
                      (* handler wait until every thread is done, which      *)
                      (* references and LATCH_REQUESTs come, can the module  *)
                      (* fail?                                               *)

ASSUME MockAssumption ==
  /\ MaxRef \in Nat
  /\ Capacity \in Nat \ {0}
  /\ HeartbeatTimeout \in Nat \ {0}
  /\ PollInterval \in Nat
  /\ NoDigest \notin Digests
  /\ Settings \subseteq [serialised : BOOLEAN, refs : SUBSET (0 .. MaxRef),
                         requests : SUBSET Positions, fails : BOOLEAN]

VARIABLES
  override, override_reason, button_pressed, chain_alert,
  last_ref,
  digests,          (* the retained (audit_ref, digest) pairs, oldest first  *)
  last_heartbeat,   (* last_audit_ref of the last heartbeat, or None         *)
  heartbeat_age,    (* time since _last_heartbeat_at                         *)
  watchdog,         (* time since the timer was armed, or Disarmed           *)
  commanded,        (* LatchRelay._commanded                                 *)
  last_observed,    (* _last_reading.observed: what motor_power_cut shows    *)
  poll_age,         (* time since _last_poll_at                              *)
  todo,             (* the unlocked steps each thread still has to take      *)
  sampled,          (* what each thread has read back and not yet recorded   *)
  setting,          (* of Settings, throughout a behaviour                   *)
  announced,        (* history: the last override frame written asserted     *)
  ledger            (* history: the steps last_ref took (see SupervisorState)*)

overrideVars == <<override, override_reason>>
witnessVars == <<last_ref, digests, ledger>>
nodeVars == <<overrideVars, button_pressed, chain_alert, witnessVars, last_heartbeat>>
timeVars == <<heartbeat_age, watchdog, poll_age>>
driverVars == <<commanded, last_observed>>
threadVars == <<todo, sampled, setting>>
mockVars == <<nodeVars, timeVars, driverVars, plantVars, threadVars, announced>>

Threads == {"reader", "timer", "operator"}
NoReason == "none"
Reasons == {"OPERATOR_BUTTON", "REMOTE_CONSOLE", "GOVERNANCE_HEARTBEAT_LOST",
            "ATTESTATION_MISMATCH", "LATCH_MISMATCH"}
Refs == 0 .. MaxRef
None == -1
Disarmed == -1
Entry == [ref : Refs, digest : Digests]
Sample == [reported : Positions, observed : Positions]
Nothing == [reported |-> "UNKNOWN", observed |-> "UNKNOWN"]

OverrideFrames == {"OVERRIDE_ASSERT", "OVERRIDE_CLEAR"}

(* The steps a thread takes outside the node's lock ...                      *)
Steps ==
  { <<kind>> : kind \in {"arm", "read_register", "read_sense", "record", "record_poll"} }
  \cup { <<"pulse", position>> : position \in Contacts }
  \cup { <<"assert", reason>> : reason \in Reasons }
  \cup { <<"write", frame>> : frame \in OverrideFrames }

(* ... and what the handlers make of them.  A command reads back too, but    *)
(* nothing ever compares the register it read.                               *)
PermitReadsFirst ==   (* mutant: read back before the pulse *)
  << <<"read_sense">>, <<"record">>, <<"pulse", "CLOSED">> >>

Halt == << <<"pulse", "OPEN">>, <<"read_sense">>, <<"record">> >>
Permit == << <<"pulse", "CLOSED">>, <<"read_sense">>, <<"record">> >>
Poll == << <<"read_register">>, <<"read_sense">>, <<"record_poll">> >>
RaiseOtherThanChain(reason) ==   (* mutant: a bad digest is only acknowledged *)
  IF reason = "ATTESTATION_MISMATCH" THEN <<>> ELSE << <<"assert", reason>> >>
Raise(reason) == << <<"assert", reason>> >>
Write(frame) == << <<"write", frame>> >>
EnforceSilently == Halt   (* mutant *)
Enforce == Halt \o Write("OVERRIDE_ASSERT")

MockTypeOK ==
  /\ PlantTypeOK
  /\ override \in BOOLEAN
  /\ override_reason \in Reasons \cup {NoReason}
  /\ button_pressed \in BOOLEAN
  /\ chain_alert \in BOOLEAN
  /\ last_ref \in Refs
  /\ digests \in Seq(Entry) /\ Len(digests) <= Capacity
  /\ last_heartbeat \in Refs \cup {None}
  /\ heartbeat_age \in 0 .. HeartbeatTimeout + 1
  /\ watchdog \in {Disarmed} \cup 0 .. HeartbeatTimeout
  /\ commanded \in {"OPEN", "CLOSED"}
  /\ last_observed \in Positions
  /\ poll_age \in 0 .. PollInterval
  /\ todo \in [Threads -> Seq(Steps)]
  /\ sampled \in [Threads -> Sample]
  /\ announced \in BOOLEAN

(* start(): the contact has been pulsed open and read back, and the reader   *)
(* and the watchdog have just been started.                                  *)
MockInit ==
  /\ setting \in Settings
  /\ fault \in IF setting.fails THEN Faults ELSE {"none"}
  /\ contact \in IF fault = "none" THEN {"OPEN"} ELSE Contacts
  /\ register = IF RegisterEchoes THEN "OPEN" ELSE contact
  /\ sense_a_live \in ChannelStates
  /\ sense_b_live \in ChannelStates
  /\ override = FALSE
  /\ override_reason = NoReason
  /\ button_pressed = FALSE
  /\ chain_alert = FALSE
  /\ last_ref = 0
  /\ digests = <<>>
  /\ last_heartbeat = None
  /\ heartbeat_age = 0
  /\ watchdog = 0
  /\ commanded = "OPEN"
  /\ last_observed = ReadSense(contact)
  /\ poll_age = 0
  /\ todo = [t \in Threads |-> <<>>]
  /\ sampled = [t \in Threads |-> Nothing]
  /\ announced = FALSE
  /\ ledger = <<>>

Idle(t) == todo[t] = <<>>
Quiet == \A t \in Threads : Idle(t)

(* A thread takes up a handler when it has finished its last one.            *)
Free(t) == Idle(t) /\ (setting.serialised => Quiet)
Begin(t, steps) == todo' = [todo EXCEPT ![t] = steps] /\ UNCHANGED setting

(* ... and later takes the next of its steps, possibly leaving more to do.   *)
Upcoming(t, kind) == ~Idle(t) /\ Head(todo[t])[1] = kind
Argument(t) == Head(todo[t])[2]
Continue(t, more) ==
  todo' = [todo EXCEPT ![t] = more \o Tail(todo[t])] /\ UNCHANGED setting

-----------------------------------------------------------------------------
(* LatchRelay._command, under its lock: remember and pulse.                  *)
Pulse(t) ==
  /\ Upcoming(t, "pulse")
  /\ commanded' = Argument(t)
  /\ contact' = ContactAfter(Argument(t))
  /\ register' = RegisterAfter(Argument(t))
  /\ Continue(t, <<>>)
  /\ UNCHANGED <<nodeVars, timeVars, last_observed, fault, sense_a_live, sense_b_live,
                 sampled, announced>>

(* LatchRelay.poll reads both sources with no lock held ...                  *)
Sampling(t, kind) ==
  /\ Upcoming(t, kind)
  /\ Continue(t, <<>>)
  /\ UNCHANGED <<nodeVars, timeVars, driverVars, plantVars, announced>>

SampleRegister(t) ==
  /\ Sampling(t, "read_register")
  /\ sampled' = [sampled EXCEPT ![t].reported = ReadRegister(register)]

SampleSense(t) ==
  /\ Sampling(t, "read_sense")
  /\ sampled' = [sampled EXCEPT ![t].observed = ReadSense(contact)]

(* ... and records them under it, against what is commanded by then.  Only   *)
(* _poll_latch looks at the reading it gets back.                            *)
Agrees(sample) ==
  /\ sample.observed # "UNKNOWN"
  /\ commanded = sample.observed
  /\ sample.observed = sample.reported

Recording(t, kind) ==
  /\ Upcoming(t, kind)
  /\ last_observed' = sampled[t].observed
  /\ poll_age' = 0
  /\ sampled' = [sampled EXCEPT ![t] = Nothing]
  /\ UNCHANGED <<nodeVars, heartbeat_age, watchdog, commanded, plantVars, announced>>

RecordReading(t) == Recording(t, "record") /\ Continue(t, <<>>)

RecordPoll(t) ==
  /\ Recording(t, "record_poll")
  /\ Continue(t, IF Agrees(sampled[t]) THEN <<>>
                 ELSE Raise("LATCH_MISMATCH"))

(* _assert_override: latch under the lock, then open, then announce.         *)
AssertOverride(t) ==
  /\ Upcoming(t, "assert")
  /\ IF override
       THEN Continue(t, <<>>) /\ UNCHANGED overrideVars
       ELSE /\ override' = TRUE
            /\ override_reason' = Argument(t)
            /\ Continue(t, Enforce)
  /\ UNCHANGED <<button_pressed, chain_alert, witnessVars, last_heartbeat, timeVars,
                 driverVars, plantVars, sampled, announced>>

(* _write.  Of the frames only these two leave a trace: LATCH_REPORT and     *)
(* ATTEST_ACK change nothing on this side of the wire and are left out.      *)
WriteFrame(t) ==
  /\ Upcoming(t, "write")
  /\ announced' = (Argument(t) = "OVERRIDE_ASSERT")
  /\ Continue(t, <<>>)
  /\ UNCHANGED <<nodeVars, timeVars, driverVars, plantVars, sampled>>

(* _arm_watchdog: a timer that has already fired can no longer be cancelled. *)
ArmWatchdog(t) ==
  /\ Upcoming(t, "arm")
  /\ watchdog' = 0
  /\ Continue(t, <<>>)
  /\ UNCHANGED <<nodeVars, heartbeat_age, poll_age, driverVars, plantVars, sampled,
                 announced>>

-----------------------------------------------------------------------------
(* The reader thread: _poll_latch between reads, and one handler a frame.    *)
PollLatch ==
  /\ Free("reader")
  /\ poll_age >= PollInterval
  /\ Begin("reader", Poll)
  /\ UNCHANGED <<nodeVars, timeVars, driverVars, plantVars, sampled, announced>>

OnHeartbeat(ref) ==
  /\ Free("reader")
  /\ last_heartbeat' = ref
  /\ heartbeat_age' = 0
  /\ LET first == last_heartbeat = None
     IN  Begin("reader", << <<"arm">> >> \o
                 IF first /\ ~override THEN Permit ELSE <<>>)
  /\ UNCHANGED <<overrideVars, button_pressed, chain_alert, witnessVars, watchdog,
                 poll_age, driverVars, plantVars, sampled, announced>>

(* Anything that is not a request to open is a request to close.             *)
NeverRefused(desired) == FALSE   (* mutant *)
Refused(desired) == override /\ desired = "CLOSED"

OnLatchRequest(desired) ==
  /\ Free("reader")
  /\ Begin("reader", CASE Refused(desired)  -> <<>>
                      [] desired = "OPEN" -> Halt
                      [] OTHER            -> Permit)
  /\ UNCHANGED <<nodeVars, timeVars, driverVars, plantVars, sampled, announced>>

(* deque(maxlen): the oldest pair makes room.                                *)
RetainEverything(entry) == Append(digests, entry)   (* mutant *)
RetainOldest(entry) ==   (* mutant: a full store takes nothing more *)
  IF Len(digests) < Capacity THEN Append(digests, entry) ELSE digests

Retain(entry) ==
  LET longer == Append(digests, entry)
  IN  IF Len(digests) < Capacity THEN longer ELSE Tail(longer)

AcceptDigest(ref, digest) ==
  /\ ref = last_ref + 1
  /\ digests' = Retain([ref |-> ref, digest |-> digest])
  /\ last_ref' = ref
  /\ ledger' = Append(ledger, [ref |-> ref, digest |-> digest, by |-> "digest"])
  /\ UNCHANGED <<chain_alert, todo, setting>>

RejectDigestQuietly(ref) ==   (* mutant: no alert for a clear to see *)
  /\ ref # last_ref + 1
  /\ Begin("reader", Raise("ATTESTATION_MISMATCH"))
  /\ UNCHANGED <<chain_alert, witnessVars>>

RejectDigest(ref) ==
  /\ ref # last_ref + 1
  /\ chain_alert' = TRUE
  /\ Begin("reader", Raise("ATTESTATION_MISMATCH"))
  /\ UNCHANGED witnessVars

OnDigest(ref, digest) ==
  /\ Free("reader")
  /\ AcceptDigest(ref, digest) \/ RejectDigest(ref)
  /\ UNCHANGED <<overrideVars, button_pressed, last_heartbeat, timeVars, driverVars,
                 plantVars, sampled, announced>>

(* The watchdog timer expires.  It does not look at the heartbeat again.     *)
WatchdogExpires ==
  /\ Free("timer")
  /\ watchdog = HeartbeatTimeout
  /\ watchdog' = Disarmed
  /\ Begin("timer", Raise("GOVERNANCE_HEARTBEAT_LOST"))
  /\ UNCHANGED <<nodeVars, heartbeat_age, poll_age, driverVars, plantVars, sampled,
                 announced>>

-----------------------------------------------------------------------------
(* The operator's calls.                                                     *)
PressButton ==
  /\ Free("operator")
  /\ button_pressed' = TRUE
  /\ Begin("operator", Raise("OPERATOR_BUTTON"))
  /\ UNCHANGED <<overrideVars, chain_alert, witnessVars, last_heartbeat, timeVars,
                 driverVars, plantVars, sampled, announced>>

ReleaseButton ==
  /\ Free("operator")
  /\ button_pressed' = FALSE
  /\ UNCHANGED <<overrideVars, chain_alert, witnessVars, last_heartbeat, timeVars,
                 driverVars, plantVars, threadVars, announced>>

RemoteOverride ==
  /\ Free("operator")
  /\ Begin("operator", Raise("REMOTE_CONSOLE"))
  /\ UNCHANGED <<nodeVars, timeVars, driverVars, plantVars, sampled, announced>>

Stale == heartbeat_age > HeartbeatTimeout

ClearIgnoresButton == override /\ last_heartbeat # None /\ ~Stale   (* mutant *)

ClearAllowed ==
  /\ override
  /\ ~button_pressed
  /\ last_heartbeat # None /\ ~Stale

ResynchronisesDown == chain_alert /\ last_heartbeat # last_ref   (* mutant: no max() *)
Resynchronises == chain_alert /\ last_heartbeat > last_ref

ClearOverride ==
  /\ Free("operator")
  /\ ClearAllowed
  /\ IF Resynchronises
       THEN /\ last_ref' = last_heartbeat
            /\ ledger' = Append(ledger, [ref |-> last_heartbeat, digest |-> NoDigest,
                                         by |-> "operator"])
       ELSE UNCHANGED <<last_ref, ledger>>
  /\ override' = FALSE
  /\ override_reason' = NoReason
  /\ chain_alert' = FALSE
  /\ Begin("operator", Permit \o Write("OVERRIDE_CLEAR"))
  /\ UNCHANGED <<button_pressed, digests, last_heartbeat, timeVars, driverVars,
                 plantVars, sampled, announced>>

-----------------------------------------------------------------------------
ClockTick ==
  /\ heartbeat_age' = IF Stale THEN heartbeat_age ELSE heartbeat_age + 1
  /\ watchdog' = IF watchdog \in {Disarmed, HeartbeatTimeout} THEN watchdog ELSE watchdog + 1
  /\ poll_age' = IF poll_age = PollInterval THEN poll_age ELSE poll_age + 1
  /\ UNCHANGED <<nodeVars, driverVars, plantVars, threadVars, announced>>

RelayChanges ==
  /\ setting.fails
  /\ PlantNext
  /\ UNCHANGED <<nodeVars, timeVars, driverVars, threadVars, announced>>

Step(t) ==
  \/ Pulse(t) \/ SampleRegister(t) \/ SampleSense(t) \/ RecordReading(t) \/ RecordPoll(t)
  \/ AssertOverride(t) \/ WriteFrame(t) \/ ArmWatchdog(t)

MockNext ==
  \/ \E t \in Threads : Step(t)
  \/ PollLatch
  \/ \E ref \in setting.refs : OnHeartbeat(ref)
  \/ \E desired \in setting.requests : OnLatchRequest(desired)
  \/ \E ref \in setting.refs, digest \in Digests : OnDigest(ref, digest)
  \/ WatchdogExpires
  \/ PressButton \/ ReleaseButton \/ RemoteOverride \/ ClearOverride
  \/ ClockTick
  \/ RelayChanges

MockSpec == MockInit /\ [][MockNext]_mockVars
=============================================================================

------------------------------- MODULE R4Sketch -------------------------------
(***************************************************************************)
(* The firmware's main program, r4-supervisor/r4_supervisor.ino: setup()   *)
(* and one pass of loop() after another, over the state machine of         *)
(* SupervisorState and the relay driver of LatchRelay.                     *)
(*                                                                         *)
(* There is one thread.  pc says where in the pass it is, and a step runs  *)
(* from one place where it looks at the outside world to the next, so the  *)
(* relay, the sense pair, the wire and the buttons change between any two. *)
(* now_ms is sampled once at the top of a pass, so the ages advance only   *)
(* there, by as many milliseconds as the pass before it took.              *)
(*                                                                         *)
(* The frames waiting on the serial line are whatever the governance tier  *)
(* chose to send: any frame may arrive whenever the loop drains the line,  *)
(* or none.  What has gone out is kept only as far as the override         *)
(* protocol is concerned (announced).                                      *)
(***************************************************************************)
EXTENDS SupervisorState, LatchRelay

CONSTANTS
  Debounce,         (* DEBOUNCE_MS                                           *)
  MaxPass,          (* the longest a pass of loop() takes, in clock units    *)
  ConsoleEnabled,   (* ENABLE_WIFI_CONSOLE                                   *)
  RequestsSent,     (* does the governance tier send LATCH_REQUESTs?         *)
  BoardResets       (* can the board lose power?                             *)

ASSUME SketchAssumption ==
  /\ Debounce \in Nat
  /\ MaxPass \in Nat \ {0}
  /\ {ConsoleEnabled, RequestsSent, BoardResets} \subseteq BOOLEAN

VARIABLES
  pc,               (* where in setup() or loop() the thread is              *)
  last_raw_button,
  debounce_age,     (* elapsed(now_ms, last_debounce_ms)                     *)
  pass_time,        (* time since the last sample of now_ms, up to MaxPass   *)
  announced,        (* history: the last override frame sent since boot was  *)
                    (* an OVERRIDE_ASSERT                                    *)
  asked             (* history: the last LATCH_REQUEST honoured in this pass *)

buttonVars == <<last_raw_button, debounce_age>>
sketchVars == <<supervisorVars, latchVars, pc, buttonVars, pass_time, announced, asked>>

Places == {"setup", "top", "frames", "first_contact", "buttons", "clear",
           "watchdog", "drive", "console"}

SketchTypeOK ==
  /\ TypeOK
  /\ LatchTypeOK
  /\ pc \in Places
  /\ last_raw_button \in BOOLEAN
  /\ debounce_age \in Ages
  /\ pass_time \in 0 .. MaxPass
  /\ announced \in BOOLEAN
  /\ asked \in Positions

(* Statics are zeroed at boot.  debounced_button and the state machine's     *)
(* button_pressed are only ever assigned together.                           *)
debounced_button == button_pressed

SketchInit ==
  /\ SupervisorInit
  /\ LatchInit
  /\ pc = "setup"
  /\ last_raw_button = FALSE
  /\ debounce_age = 0
  /\ pass_time = 0
  /\ announced = FALSE
  /\ asked = "UNKNOWN"

At(here) == pc = here
Goto(there) == pc' = there

-----------------------------------------------------------------------------
(* setup(): open the contact before anything else.                           *)
Setup ==
  /\ At("setup") /\ Goto("top")
  /\ LatchCommand("OPEN")
  /\ UNCHANGED <<supervisorVars, buttonVars, announced, asked, pass_time>>

(* The millisecond counter moves on between two samples of now_ms.           *)
PassTime ==
  /\ At("top")
  /\ pass_time < MaxPass
  /\ pass_time' = pass_time + 1
  /\ Tick
  /\ poll_age' = Older(poll_age)
  /\ debounce_age' = Older(debounce_age)
  /\ UNCHANGED <<plantVars, commanded, has_reading, last, polled_contact, pc,
                 last_raw_button, announced, asked>>

StartPass ==
  /\ At("top") /\ Goto("frames")
  /\ pass_time' = 0
  /\ asked' = "UNKNOWN"
  /\ UNCHANGED <<supervisorVars, latchVars, buttonVars, announced>>

-----------------------------------------------------------------------------
(* drive_latch(): move the relay to where the state machine wants it, if it  *)
(* was last sent somewhere else; then read the contact back at the fixed     *)
(* cadence, and latch an override when the positions disagree.               *)
(* A command reads back too, which puts the cadence's next poll off.         *)
Wanted == IF KillLine THEN "OPEN" ELSE "CLOSED"
NowReading == ReadingOf(commanded, contact, register)

MoveRelay ==
  /\ commanded # Wanted
  /\ LatchCommand(Wanted)
  /\ UNCHANGED <<supervisorVars, announced>>

LeaveRelayAnyway ==   (* mutant: driven on the poll's cadence only *)
  ~PollDue /\ UNCHANGED <<supervisorVars, latchVars, announced>>

LeaveRelay ==
  /\ commanded = Wanted
  /\ ~PollDue
  /\ UNCHANGED <<supervisorVars, latchVars, announced>>

ReadBack ==
  /\ commanded = Wanted
  /\ PollDue
  /\ Agrees(NowReading) \/ mode = "OVERRIDE"
  /\ LatchPoll
  /\ UNCHANGED <<supervisorVars, announced>>

ReadBackFaultSilently ==   (* mutant: latched and not announced *)
  /\ commanded = Wanted
  /\ PollDue
  /\ ~Agrees(NowReading)
  /\ mode # "OVERRIDE"
  /\ AssertOverride("LATCH_MISMATCH")
  /\ LatchCommand("OPEN")
  /\ UNCHANGED announced

ReadBackFault ==
  /\ commanded = Wanted
  /\ PollDue
  /\ ~Agrees(NowReading)
  /\ mode # "OVERRIDE"
  /\ AssertOverride("LATCH_MISMATCH")
  /\ LatchCommand("OPEN")
  /\ announced' = TRUE

DriveLatch == MoveRelay \/ LeaveRelay \/ ReadBack \/ ReadBackFault

-----------------------------------------------------------------------------
(* One frame off the serial line.                                            *)
RecvHeartbeat ==
  /\ At("frames")
  /\ \E ref \in Refs : OnHeartbeat(ref)
  /\ IF ~heartbeat_seen /\ mode # "OVERRIDE"
       THEN Goto("first_contact")
       ELSE UNCHANGED pc
  /\ UNCHANGED <<latchVars, buttonVars, announced, asked, pass_time>>

FirstContact ==
  /\ At("first_contact") /\ Goto("frames")
  /\ DriveLatch
  /\ UNCHANGED <<buttonVars, asked, pass_time>>

(* on_latch_request(): closing is refused while an override stands, and a    *)
(* request for neither position moves nothing.                               *)
HonouredAlways(desired) == desired # "UNKNOWN"   (* mutant *)
HonouredUnlessClose(desired) == desired # "CLOSED" \/ mode # "OVERRIDE"   (* mutant *)

Honoured(desired) ==
  desired = "OPEN" \/ (desired = "CLOSED" /\ mode # "OVERRIDE")

RecvLatchRequest ==
  /\ RequestsSent
  /\ At("frames")
  /\ \E desired \in Positions :
       IF Honoured(desired)
         THEN LatchCommand(desired) /\ asked' = desired
         ELSE UNCHANGED <<latchVars, asked>>
  /\ UNCHANGED <<supervisorVars, pc, buttonVars, announced, pass_time>>

(* A bad digest is announced whenever attestation is what holds the          *)
(* override, whether this digest latched it or an earlier one did.           *)
RecvDigest ==
  /\ At("frames")
  /\ \E ref \in Refs, digest \in Digests :
       /\ OnDigest(ref, digest)
       /\ IF Verdict(ref) # "CHAIN_OK" /\ override_reason' = "ATTESTATION_MISMATCH"
            THEN announced' = TRUE
            ELSE UNCHANGED announced
  /\ UNCHANGED <<latchVars, pc, buttonVars, asked, pass_time>>

LineDrained ==
  /\ At("frames") /\ Goto("buttons")
  /\ UNCHANGED <<supervisorVars, latchVars, buttonVars, announced, asked, pass_time>>

-----------------------------------------------------------------------------
(* poll_buttons(): the override button, debounced, then the clear button.    *)
ButtonMoved(raw) ==
  /\ raw # last_raw_button
  /\ last_raw_button' = raw
  /\ debounce_age' = 0
  /\ UNCHANGED <<supervisorVars, announced>>

ButtonSettled(raw) ==
  /\ raw = last_raw_button
  /\ debounce_age > Debounce
  /\ raw # debounced_button
  /\ SetButton(raw)
  /\ announced' = (announced \/ (mode # "OVERRIDE" /\ mode' = "OVERRIDE"))
  /\ UNCHANGED buttonVars

ButtonSteady(raw) ==
  /\ raw = last_raw_button
  /\ debounce_age <= Debounce \/ raw = debounced_button
  /\ UNCHANGED <<supervisorVars, buttonVars, announced>>

PollButton ==
  /\ At("buttons") /\ Goto("clear")
  /\ \E raw \in BOOLEAN : ButtonMoved(raw) \/ ButtonSettled(raw) \/ ButtonSteady(raw)
  /\ UNCHANGED <<latchVars, asked, pass_time>>

ClearPressed ==
  /\ At("clear") /\ Goto("watchdog")
  /\ ClearOverride
  /\ announced' = FALSE
  /\ UNCHANGED <<latchVars, buttonVars, asked, pass_time>>

(* Not pressed, or nothing to clear, or refused.                             *)
NothingCleared ==
  /\ At("clear") /\ Goto("watchdog")
  /\ UNCHANGED <<supervisorVars, latchVars, buttonVars, announced, asked, pass_time>>

-----------------------------------------------------------------------------
Watchdog ==
  /\ At("watchdog") /\ Goto("drive")
  /\ \/ /\ SupervisorTick
        /\ announced' = (announced \/ mode # "OVERRIDE")
     \/ /\ ~Stale
        /\ UNCHANGED <<supervisorVars, announced>>
  /\ UNCHANGED <<latchVars, buttonVars, asked, pass_time>>

Drive ==
  /\ At("drive") /\ Goto("console")
  /\ DriveLatch
  /\ UNCHANGED <<buttonVars, asked, pass_time>>

(* console_poll(), compiled in or not.  A CLEAR with nothing to clear counts *)
(* as cleared, and is announced as one.                                      *)
ConsoleOverride ==
  /\ ConsoleEnabled
  /\ At("console") /\ Goto("top")
  /\ AssertOverride("REMOTE_CONSOLE")
  /\ announced' = (announced \/ mode # "OVERRIDE")
  /\ UNCHANGED <<latchVars, buttonVars, asked, pass_time>>

ConsoleClear ==
  /\ ConsoleEnabled
  /\ At("console") /\ Goto("top")
  /\ \/ ClearOverride
     \/ mode = "WATCHING" /\ UNCHANGED supervisorVars
  /\ announced' = FALSE
  /\ UNCHANGED <<latchVars, buttonVars, asked, pass_time>>

EndPass ==
  /\ At("console") /\ Goto("top")
  /\ UNCHANGED <<supervisorVars, latchVars, buttonVars, announced, asked, pass_time>>

-----------------------------------------------------------------------------
(* The world around the board.  On a reset the board's memory is lost and    *)
(* the contact stays where it is.                                            *)
Reset ==
  /\ BoardResets
  /\ Goto("setup")
  /\ SupervisorRestart
  /\ DriverRestart
  /\ last_raw_button' = FALSE
  /\ debounce_age' = 0
  /\ pass_time' = 0
  /\ announced' = FALSE
  /\ asked' = "UNKNOWN"
  /\ UNCHANGED plantVars

World ==
  /\ PlantNext
  /\ UNCHANGED <<supervisorVars, driverVars, pc, buttonVars, announced, asked, pass_time>>

Loop ==
  \/ Setup \/ StartPass
  \/ RecvHeartbeat \/ FirstContact \/ RecvLatchRequest \/ RecvDigest \/ LineDrained
  \/ PollButton \/ ClearPressed \/ NothingCleared
  \/ Watchdog \/ Drive
  \/ ConsoleOverride \/ ConsoleClear \/ EndPass

SketchNext == Loop \/ PassTime \/ Reset \/ World

SketchSpec == SketchInit /\ [][SketchNext]_sketchVars

-----------------------------------------------------------------------------
(* Fairness.  The thread never blocks: loop() is called again as soon as it  *)
(* returns, the line is drained in finite time, and the clock keeps counting.*)
(* Nothing is assumed of the frames, the buttons or the hardware.            *)
Advance == Setup \/ StartPass \/ FirstContact \/ PollButton \/ NothingCleared
             \/ Watchdog \/ Drive \/ EndPass

SketchFairness ==
  /\ WF_sketchVars(Advance)
  /\ SF_sketchVars(LineDrained)
  /\ SF_sketchVars(PassTime)

FairSketchSpec == SketchSpec /\ SketchFairness
=============================================================================

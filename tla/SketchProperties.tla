--------------------------- MODULE SketchProperties ---------------------------
(***************************************************************************)
(* What the firmware as a whole is meant to guarantee: that the state      *)
(* machine's decision reaches the contact and the wire.                    *)
(***************************************************************************)
EXTENDS R4Sketch, SupervisorProperties

(* When drive_latch returns, the relay has been sent where the state machine *)
(* wants it, whichever handlers moved either of them earlier in the pass:    *)
(* open while an override stands or no heartbeat has come, closed otherwise  *)
(* (r4_supervisor.ino:276-305, 462-465).                                     *)
PassEndsEnforced == At("console") => commanded = Wanted

(* Motors are never released to a silent tier: past the watchdog of a pass,  *)
(* a state machine that wants the contact closed has heard a heartbeat       *)
(* within the timeout, short of a pass that lasted a whole turn of the clock *)
(* (r4_supervisor.ino:479-484, supervisor_state.cpp:102-111).                *)
MotionNeedsFreshTier ==
  At("drive") /\ ~KillLine => silence <= HeartbeatTimeout \/ silence = ClockModulus

(* The wire tells the truth about the override at every step: it is latched  *)
(* exactly when the last override frame sent since boot was an assertion,    *)
(* whoever latched it, was refused or cleared it                             *)
(* (r4_supervisor.ino:297-302, 342-354, 471-482).                            *)
WireTellsOverride == announced <=> mode = "OVERRIDE"

(* Nothing closes the contact while an override stands: no frame, no poll,   *)
(* no fault of the module and no reset (r4_supervisor.ino:279-286, 316-326). *)
OverrideNeverCloses ==
  [][mode = "OVERRIDE" => ~(contact = "OPEN" /\ contact' = "CLOSED")]_sketchVars

(* From boot, and again from every reset, only a heartbeat releases the      *)
(* contact for good: not whatever it was left at, not a digest, a button or  *)
(* a clear.  A LATCH_REQUEST(CLOSED) does close it before any heartbeat, but *)
(* not past the end of the pass that reads it                                *)
(* (r4_supervisor.ino:279-286, 431-436, supervisor_state.cpp:138-143).       *)
HeldOpenUntilHeartbeat ==
  ~heartbeat_seen /\ ~At("setup") /\ (asked # "CLOSED" \/ At("console"))
    => commanded = "OPEN"

(* The inductive invariant behind the theorems: those of the parts, the wire *)
(* and the contact as above, and what the watchdog and boot leave behind for *)
(* the steps after them (r4_supervisor.ino:479-484, 421-436).                *)
WatchdogPassed == At("drive") => mode = "OVERRIDE" \/ ~Stale

BootHoldsOpen ==
  ~heartbeat_seen /\ ~At("setup") /\ (asked # "CLOSED" \/ pc \in {"top", "console"})
    => commanded = "OPEN"

SketchInv ==
  /\ IndInv
  /\ LatchInv
  /\ SketchTypeOK
  /\ WireTellsOverride
  /\ PassEndsEnforced
  /\ WatchdogPassed
  /\ BootHoldsOpen

(* A button that keeps reading pressed latches an override, debounced and    *)
(* polled as it is (r4_supervisor.ino:332-345).                              *)
HeldButtonLatches ==
  last_raw_button ~> (mode = "OVERRIDE" \/ ~last_raw_button)

(* A tier that stays silent loses the motors (r4_supervisor.ino:479-484).    *)
SilenceHalts ==
  (silence > HeartbeatTimeout) ~> (mode = "OVERRIDE" \/ silence <= HeartbeatTimeout)

(* A contact that is not where it was sent is noticed and halts the rig,     *)
(* even though nothing on the wire or the board marks the moment it failed   *)
(* to move (r4_supervisor.ino:288-304).                                      *)
LostContactIsNoticed ==
  (At("top") /\ contact # commanded) ~> (mode = "OVERRIDE" \/ contact = commanded)
=============================================================================

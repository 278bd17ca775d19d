--------------------------- MODULE SupervisorState ---------------------------
(***************************************************************************)
(* The oversight state machine of the Arduino UNO R4 WiFi, one action per  *)
(* entry point of r4-supervisor/supervisor_state.cpp.  The functions are   *)
(* pure and single threaded; the module lets a caller make them in any     *)
(* order, and R4Sketch composes them in the order of the firmware's loop().*)
(*                                                                         *)
(* Time.  Every function is handed now_ms and only ever looks at its       *)
(* distance from last_heartbeat_ms, here the age heartbeat_age (see Clock).*)
(* What that age is meant to be, the real time since the last heartbeat,   *)
(* is the history variable silence.                                        *)
(*                                                                         *)
(* Data.  A digest is an opaque member of Digests: the node keeps it and   *)
(* never looks inside.  The heartbeat's system_state, events and command   *)
(* counts, and the node's own totals, feed only the status page and are    *)
(* left out.                                                               *)
(***************************************************************************)
EXTENDS Clock, Sequences

CONSTANTS
  MaxRef,            (* largest audit_ref a frame can carry (2^64 - 1)       *)
  DigestCapacity,    (* SUP_DIGEST_CAPACITY, the slots of the ring           *)
  HeartbeatTimeout,  (* SUP_HEARTBEAT_TIMEOUT_MS                             *)
  Digests,           (* the digests that can be sent                         *)
  NoDigest           (* what memset leaves in an unused slot                 *)

ASSUME SupervisorAssumption ==
  /\ MaxRef \in Nat
  /\ DigestCapacity \in Nat \ {0}
  /\ HeartbeatTimeout \in Nat
  /\ HeartbeatTimeout + 1 < ClockModulus
  /\ NoDigest \notin Digests

VARIABLES
  mode,                (* SupervisorMode                                     *)
  override_reason,     (* NoReason while clear                               *)
  button_pressed,
  chain_alert,
  last_ref,            (* highest audit_ref accepted into the ring           *)
  reported_audit_ref,  (* last_audit_ref of the last heartbeat               *)
  heartbeat_seen,
  heartbeat_age,       (* elapsed(now_ms, last_heartbeat_ms)                 *)
  ring,                (* ring_ref and ring_digest, one record per slot      *)
  ring_head,           (* next slot to write                                 *)
  ring_count,
  silence,             (* history: real time since the last heartbeat, or    *)
                       (* since boot, saturating at ClockModulus             *)
  ledger               (* history: every step last_ref took, and who took it *)

contextVars == <<button_pressed, chain_alert>>
overrideVars == <<mode, override_reason>>
tierVars == <<heartbeat_seen, heartbeat_age, reported_audit_ref, silence>>
witnessVars == <<last_ref, ring, ring_head, ring_count, ledger>>
supervisorVars == <<contextVars, overrideVars, tierVars, witnessVars>>

-----------------------------------------------------------------------------
NoReason == "none"
Reasons == {"OPERATOR_BUTTON", "REMOTE_CONSOLE", "GOVERNANCE_HEARTBEAT_LOST",
            "ATTESTATION_MISMATCH", "LATCH_MISMATCH"}
Modes == {"WATCHING", "OVERRIDE"}

Refs == 0 .. MaxRef
Slots == 0 .. DigestCapacity - 1
Entry == [ref : Refs, digest : Digests \cup {NoDigest}]
EmptySlot == [ref |-> 0, digest |-> NoDigest]

(* A digest filed off the wire, or a jump an operator's clear accepted.      *)
LedgerEntry == [ref : Refs, digest : Digests \cup {NoDigest},
                by : {"digest", "operator"}]

TypeOK ==
  /\ mode \in Modes
  /\ override_reason \in Reasons \cup {NoReason}
  /\ button_pressed \in BOOLEAN
  /\ chain_alert \in BOOLEAN
  /\ last_ref \in Refs
  /\ reported_audit_ref \in Refs
  /\ heartbeat_seen \in BOOLEAN
  /\ heartbeat_age \in Ages
  /\ ring \in [Slots -> Entry]
  /\ ring_head \in Slots
  /\ ring_count \in 0 .. DigestCapacity
  /\ silence \in 0 .. ClockModulus
  /\ ledger \in Seq(LedgerEntry)

(* supervisor_init, called once from setup().                                *)
SupervisorInit ==
  /\ mode = "WATCHING"
  /\ override_reason = NoReason
  /\ button_pressed = FALSE
  /\ chain_alert = FALSE
  /\ last_ref = 0
  /\ reported_audit_ref = 0
  /\ heartbeat_seen = FALSE
  /\ heartbeat_age = 0
  /\ ring = [slot \in Slots |-> EmptySlot]
  /\ ring_head = 0
  /\ ring_count = 0
  /\ silence = 0
  /\ ledger = <<>>

(* supervisor_init again, after the board has lost its memory.               *)
SupervisorRestart ==
  /\ mode' = "WATCHING"
  /\ override_reason' = NoReason
  /\ button_pressed' = FALSE
  /\ chain_alert' = FALSE
  /\ last_ref' = 0
  /\ reported_audit_ref' = 0
  /\ heartbeat_seen' = FALSE
  /\ heartbeat_age' = 0
  /\ ring' = [slot \in Slots |-> EmptySlot]
  /\ ring_head' = 0
  /\ ring_count' = 0
  /\ silence' = 0
  /\ ledger' = <<>>

-----------------------------------------------------------------------------
(* supervisor_heartbeat_stale: measured from boot until one arrives.         *)
StaleTooLate == heartbeat_age > HeartbeatTimeout + 1   (* mutant *)
Stale == heartbeat_age > HeartbeatTimeout

(* supervisor_kill_line: should the motors be isolated?                      *)
KillLineForgetsBoot == mode = "OVERRIDE"   (* mutant *)
KillLine == mode = "OVERRIDE" \/ ~heartbeat_seen

(* supervisor_assert_override: the first reason wins.                        *)
AssertLastWins(reason) ==   (* mutant *)
  mode' = "OVERRIDE" /\ override_reason' = reason

Assert(reason) ==
  /\ mode' = "OVERRIDE"
  /\ override_reason' = IF mode = "OVERRIDE" THEN override_reason ELSE reason

AssertOverride(reason) ==
  /\ Assert(reason)
  /\ UNCHANGED <<contextVars, tierVars, witnessVars>>

(* supervisor_clear_override: refused while the button is held or the tier   *)
(* is not known to be alive.  Clearing a chain alert moves last_ref up to    *)
(* what the tier last reported.                                              *)
ClearIgnoresButton == mode = "OVERRIDE" /\ heartbeat_seen /\ ~Stale   (* mutant *)

ClearIgnoresSilence == mode = "OVERRIDE" /\ ~button_pressed /\ heartbeat_seen   (* mutant *)

ClearAllowed ==
  /\ mode = "OVERRIDE"
  /\ ~button_pressed
  /\ heartbeat_seen
  /\ ~Stale

Resynchronises == chain_alert /\ heartbeat_seen /\ reported_audit_ref > last_ref

ClearOverride ==
  /\ ClearAllowed
  /\ \/ /\ Resynchronises
        /\ last_ref' = reported_audit_ref
        /\ ledger' = Append(ledger, [ref |-> reported_audit_ref,
                                     digest |-> NoDigest, by |-> "operator"])
     \/ /\ ~Resynchronises
        /\ UNCHANGED <<last_ref, ledger>>
  /\ mode' = "WATCHING"
  /\ override_reason' = NoReason
  /\ chain_alert' = FALSE
  /\ UNCHANGED <<button_pressed, tierVars, ring, ring_head, ring_count>>

(* supervisor_on_heartbeat.                                                  *)
OnFirstHeartbeatOnly(ref) ==   (* mutant: later heartbeats are not timed *)
  /\ heartbeat_seen' = TRUE
  /\ heartbeat_age' = IF heartbeat_seen THEN heartbeat_age ELSE 0
  /\ silence' = 0
  /\ reported_audit_ref' = ref
  /\ UNCHANGED <<contextVars, overrideVars, witnessVars>>

OnHeartbeat(ref) ==
  /\ heartbeat_seen' = TRUE
  /\ heartbeat_age' = 0
  /\ silence' = 0
  /\ reported_audit_ref' = ref
  /\ UNCHANGED <<contextVars, overrideVars, witnessVars>>

(* supervisor_on_digest: the verdict, then file or latch.  last_ref + 1      *)
(* cannot wrap: with last_ref = MaxRef every reference is a CHAIN_BREAK.     *)
VerdictToleratesGaps(ref) ==   (* mutant *)
  IF ref <= last_ref THEN "CHAIN_BREAK" ELSE "CHAIN_OK"

Verdict(ref) ==
  CASE ref <= last_ref    -> "CHAIN_BREAK"
    [] ref > last_ref + 1 -> "GAP"
    [] OTHER              -> "CHAIN_OK"

NextSlotNeverWraps(slot) == slot + 1   (* mutant *)
NextSlot(slot) == (slot + 1) % DigestCapacity

FileDigest(ref, digest) ==
  /\ Verdict(ref) = "CHAIN_OK"
  /\ ring' = [ring EXCEPT ![ring_head] = [ref |-> ref, digest |-> digest]]
  /\ ring_head' = NextSlot(ring_head)
  /\ ring_count' = IF ring_count < DigestCapacity THEN ring_count + 1 ELSE ring_count
  /\ last_ref' = ref
  /\ ledger' = Append(ledger, [ref |-> ref, digest |-> digest, by |-> "digest"])
  /\ UNCHANGED <<contextVars, overrideVars, tierVars>>

RejectDigest(ref) ==
  /\ Verdict(ref) # "CHAIN_OK"
  /\ chain_alert' = TRUE
  /\ Assert("ATTESTATION_MISMATCH")
  /\ UNCHANGED <<button_pressed, tierVars, witnessVars>>

OnDigest(ref, digest) == FileDigest(ref, digest) \/ RejectDigest(ref)

(* supervisor_tick: the heartbeat watchdog.                                  *)
TickOnceHeard ==   (* mutant: the watchdog waits for a first heartbeat *)
  heartbeat_seen /\ Stale /\ AssertOverride("GOVERNANCE_HEARTBEAT_LOST")

SupervisorTick ==
  /\ Stale
  /\ AssertOverride("GOVERNANCE_HEARTBEAT_LOST")

(* supervisor_set_button: only a press latches, a release latches nothing.   *)
SetButtonOnRelease(pressed_now) ==   (* mutant: the other edge latches *)
  /\ button_pressed' = pressed_now
  /\ IF ~pressed_now /\ button_pressed
       THEN Assert("OPERATOR_BUTTON")
       ELSE UNCHANGED overrideVars
  /\ UNCHANGED <<chain_alert, tierVars, witnessVars>>

SetButton(pressed_now) ==
  /\ button_pressed' = pressed_now
  /\ IF pressed_now /\ ~button_pressed
       THEN Assert("OPERATOR_BUTTON")
       ELSE UNCHANGED overrideVars
  /\ UNCHANGED <<chain_alert, tierVars, witnessVars>>

(* supervisor_retained: the ring read oldest first.                          *)
OldestSlotIsFirst == 0   (* mutant *)
OldestSlot == IF ring_count = DigestCapacity THEN ring_head ELSE 0
Retained(index) == ring[(OldestSlot + index) % DigestCapacity]

(* One millisecond of millis().                                              *)
Tick ==
  /\ heartbeat_age' = Older(heartbeat_age)
  /\ silence' = IF silence < ClockModulus THEN silence + 1 ELSE silence
  /\ UNCHANGED <<contextVars, overrideVars, witnessVars, heartbeat_seen,
                 reported_audit_ref>>

SupervisorNext ==
  \/ Tick
  \/ SupervisorTick
  \/ ClearOverride
  \/ \E reason \in {"REMOTE_CONSOLE", "LATCH_MISMATCH"} : AssertOverride(reason)
  \/ \E ref \in Refs : OnHeartbeat(ref)
  \/ \E ref \in Refs, digest \in Digests : OnDigest(ref, digest)
  \/ \E pressed_now \in BOOLEAN : SetButton(pressed_now)

SupervisorSpec == SupervisorInit /\ [][SupervisorNext]_supervisorVars
=============================================================================

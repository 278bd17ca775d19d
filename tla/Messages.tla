------------------------------- MODULE Messages -------------------------------
(***************************************************************************)
(* The messages of the actuation link: the dataclasses and enumerations of *)
(* linux-stack/ipc/codec.py, and which frames its decoder has a member for.*)
(* "NO_MEMBER" is a code no enumeration has.                               *)
(***************************************************************************)

AckStatus == {"QUEUED", "EXECUTING"}
RejectReason ==
  {"KILL_SWITCH_ACTIVE", "CONFIDENCE_BELOW_THRESHOLD", "SAFETY_BOUNDARY_VIOLATION",
   "WATCHDOG_TIMEOUT", "MALFORMED_FRAME", "UNKNOWN_ACTION", "PARAM_OUT_OF_RANGE",
   "SYSTEM_FAULT", "AUDIT_REF_ZERO", "OVERSIGHT_OVERRIDE_ACTIVE", "LATCH_OPEN"}
HaltTrigger ==
  {"KILL_SWITCH_GPIO", "WATCHDOG", "SAFETY_BOUNDARY", "LINUX_COMMANDED",
   "SUPERVISOR_OVERRIDE"}

CommandRequest(ref, confidence) == [audit_ref |-> ref, confidence |-> confidence]

CommandAck(ref, status) == [type |-> "COMMAND_ACK", audit_ref |-> ref, code |-> status]
CommandReject(ref, reason) ==
  [type |-> "COMMAND_REJECT", audit_ref |-> ref, code |-> reason]
HaltNotify(trigger) == [type |-> "HALT_NOTIFY", audit_ref |-> 0, code |-> trigger]

(* _unpack calls the enumeration, which raises ValueError when it has no such*)
(* member.                                                                   *)
Decodes(message) ==
  message.code \in CASE message.type = "COMMAND_ACK"    -> AckStatus
                     [] message.type = "COMMAND_REJECT" -> RejectReason
                     [] message.type = "HALT_NOTIFY"    -> HaltTrigger
=============================================================================

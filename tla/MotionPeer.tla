------------------------------ MODULE MotionPeer ------------------------------
(***************************************************************************)
(* The motion controller at the far end of the command link, as the        *)
(* governance tier's own stand-in implements it: class MockSTM32H5 of      *)
(* linux-stack/ipc/mock_peer.py.                                           *)
(*                                                                         *)
(* Its watchdog is re-armed by HEARTBEAT frames only, and nothing on the   *)
(* Linux side sends one, so it may expire at any moment.  BUSY lasts for a *)
(* part of one locked step.  A HALT_NOTIFY is written after the lock is    *)
(* let go; its only reader skips it, so when it is written is not kept     *)
(* apart.                                                                  *)
(***************************************************************************)
EXTENDS Messages, Integers, Sequences

CONSTANT PeerFaults   (* what can stop it, of "kill_switch", "watchdog", "fault"   *)
ASSUME PeerAssumption == PeerFaults \subseteq {"kill_switch", "watchdog", "fault"}

VARIABLES
  peer_state,        (* SystemState                                          *)
  kill_switch_open,  (* the pin, at the switch's level                       *)
  to_peer,           (* CommandRequests on the wire                          *)
  from_peer,         (* what the controller has sent                         *)
  executed           (* history: the references executed, in order           *)

peerVars == <<peer_state, kill_switch_open, executed>>
peerWires == <<to_peer, from_peer>>

PeerTypeOK ==
  /\ peer_state \in {"ARMED", "HALTED", "FAULT"}
  /\ kill_switch_open \in BOOLEAN

PeerInit ==
  /\ peer_state = "ARMED"
  /\ kill_switch_open = FALSE
  /\ to_peer = <<>>
  /\ from_peer = <<>>
  /\ executed = <<>>

(* The confidence crosses the wire as a float32: the double 0.70, which the  *)
(* Linux gate lets through, arrives as 0.699999988 and is below the peer's.  *)
PassesGate(confidence) == confidence = "above"

(* A command is answered once, and counts as executed if it is acknowledged. *)
Reject(command, reason) ==
  /\ to_peer' = Tail(to_peer)
  /\ from_peer' = Append(from_peer, CommandReject(command.audit_ref, reason))
  /\ UNCHANGED peerVars

Execute(command) ==
  /\ to_peer' = Tail(to_peer)
  /\ from_peer' = Append(from_peer, CommandAck(command.audit_ref, "EXECUTING"))
  /\ executed' = Append(executed, command.audit_ref)
  /\ UNCHANGED <<peer_state, kill_switch_open>>

(* The gates, in their order.                                                *)
GateVerdict(command) ==
  CASE command.audit_ref = 0           -> "AUDIT_REF_ZERO"
    [] kill_switch_open                -> "KILL_SWITCH_ACTIVE"
    [] peer_state = "HALTED"           -> "WATCHDOG_TIMEOUT"
    [] peer_state = "FAULT"            -> "SYSTEM_FAULT"
    [] ~PassesGate(command.confidence) -> "CONFIDENCE_BELOW_THRESHOLD"
    [] OTHER                           -> "EXECUTING"

PeerOnCommand ==
  /\ to_peer # <<>>
  /\ LET command == Head(to_peer)
     IN  IF GateVerdict(command) \in RejectReason THEN Reject(command, GateVerdict(command))
         ELSE Execute(command)

(* HALTED is entered, and told of, once.                                     *)
Halt(trigger) ==
  /\ peer_state' = IF peer_state = "FAULT" THEN "FAULT" ELSE "HALTED"
  /\ from_peer' = IF peer_state = "ARMED" THEN Append(from_peer, HaltNotify(trigger))
                  ELSE from_peer
  /\ UNCHANGED <<to_peer, executed>>

OpenKillSwitch ==
  /\ "kill_switch" \in PeerFaults
  /\ kill_switch_open' = TRUE
  /\ Halt("KILL_SWITCH_GPIO")

CloseKillSwitch ==
  /\ kill_switch_open
  /\ kill_switch_open' = FALSE
  /\ UNCHANGED <<peer_state, peerWires, executed>>

PeerWatchdogExpires ==
  /\ "watchdog" \in PeerFaults
  /\ Halt("WATCHDOG")
  /\ UNCHANGED kill_switch_open

PeerFault ==
  /\ "fault" \in PeerFaults
  /\ peer_state' = "FAULT"
  /\ UNCHANGED <<kill_switch_open, peerWires, executed>>

PeerNext ==
  \/ PeerOnCommand
  \/ OpenKillSwitch \/ CloseKillSwitch \/ PeerWatchdogExpires \/ PeerFault
=============================================================================

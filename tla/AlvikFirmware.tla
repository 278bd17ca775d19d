----------------------------- MODULE AlvikFirmware -----------------------------
(***************************************************************************)
(* The other controller the command link may end at: the Arduino Alvik,    *)
(* the loop of alvik-firmware/main.py.  It shares MotionPeer's wires and   *)
(* variables; kill_switch_active is peer_state = "HALTED", and the pin is  *)
(* looked at now and then only, so a press may pass unseen.                *)
(*                                                                         *)
(* It has no watchdog: HEARTBEATs decode to nothing and a silent Linux     *)
(* side is not noticed.                                                    *)
(***************************************************************************)
EXTENDS MotionPeer

CONSTANT Boards   (* the controllers the link may end at                     *)
ASSUME BoardAssumption == Boards \subseteq {"MockSTM32H5", "Alvik"}

VARIABLE board    (* which it is, throughout a behaviour                     *)

boardVars == <<peerVars, board>>

BoardInit == board \in Boards /\ PeerInit

(* MicroPython on the board computes in single precision, where 0.70 and the *)
(* float32 it is compared with are equal; in double precision it is below.   *)
MayPassGate(confidence) == confidence \in {"at", "above"}
MayFailGate(confidence) == confidence \in {"below", "at"}

(* The first gate a command may be stopped at.  The action may not be in     *)
(* MOTOR_MAP, and a motor call may raise.                                    *)
AlvikVerdicts(command) ==
  CASE command.audit_ref = 0   -> {"AUDIT_REF_ZERO"}
    [] peer_state = "HALTED"   -> {"KILL_SWITCH_ACTIVE"}
    [] OTHER ->
         (IF MayFailGate(command.confidence) THEN {"CONFIDENCE_BELOW_THRESHOLD"} ELSE {})
         \cup (IF MayPassGate(command.confidence)
                 THEN {"UNKNOWN_ACTION", "SYSTEM_FAULT", "EXECUTING"} ELSE {})

RaisesAndAcknowledges(command) ==   (* mutant: the swallowed exception of old *)
  /\ to_peer' = Tail(to_peer)
  /\ from_peer' = Append(from_peer, CommandAck(command.audit_ref, "EXECUTING"))
  /\ UNCHANGED peerVars
MotorRaises(command) == Reject(command, "SYSTEM_FAULT")

AlvikOnCommand ==
  /\ to_peer # <<>>
  /\ \E verdict \in AlvikVerdicts(Head(to_peer)) :
       CASE verdict = "EXECUTING"    -> Execute(Head(to_peer))
         [] verdict = "SYSTEM_FAULT" -> MotorRaises(Head(to_peer))
         [] OTHER                    -> Reject(Head(to_peer), verdict)

PressKillPin ==
  /\ "kill_switch" \in PeerFaults
  /\ kill_switch_open' = TRUE
  /\ UNCHANGED <<peer_state, peerWires, executed>>

(* Once pressed, halted for good.  Its HALT_NOTIFY names no trigger.         *)
AlvikPollsKillPin ==
  /\ kill_switch_open
  /\ peer_state = "ARMED"
  /\ peer_state' = "HALTED"
  /\ from_peer' = Append(from_peer, HaltNotify("NO_MEMBER"))
  /\ UNCHANGED <<kill_switch_open, to_peer, executed>>

AlvikNext == AlvikOnCommand \/ PressKillPin \/ CloseKillSwitch \/ AlvikPollsKillPin

BoardNext ==
  /\ \/ board = "MockSTM32H5" /\ PeerNext
     \/ board = "Alvik" /\ AlvikNext
  /\ UNCHANGED board
=============================================================================

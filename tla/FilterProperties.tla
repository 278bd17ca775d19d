--------------------------- MODULE FilterProperties ---------------------------
(***************************************************************************)
(* What the governance tier guarantees whatever its oversight node says.   *)
(***************************************************************************)
EXTENDS GovernanceFilter, Queues

(* Log before act, across crashes: whatever the motion controller executes   *)
(* is in the log as a command that was sent, and is executed once, in the    *)
(* order it was logged (filter.py:183-206, logger.py:94-120).                *)
MotionIsLogged ==
  /\ \A ref \in Elements(executed) :
       ref \in DOMAIN audit_log /\ audit_log[ref].command_sent
  /\ \A m, n \in 1 .. Len(executed) : m < n => executed[m] < executed[n]

(* stm32_ack is what the controller did: late, skipped and lost answers,     *)
(* timeouts and restarts never put one command's answer on another's row     *)
(* (filter.py:272-310, logger.py:144-153).                                   *)
AckTellsTruth ==
  \A id \in DOMAIN audit_log :
    /\ audit_log[id].stm32_ack = "ACK" => id \in Elements(executed)
    /\ audit_log[id].stm32_ack = "REJECT" =>
         id \in Elements(written) \ Elements(executed)

(* A row that says its command was sent tells the truth, is flagged, or is   *)
(* the row in hand: now, or when the service was restarted.  A restart       *)
(* excuses that one row and none logged before or after it: a write that     *)
(* fails later is flagged all the same (filter.py:183-206, 258-270).         *)
SentIsAccountedFor ==
  \A id \in DOMAIN audit_log :
    audit_log[id].command_sent /\ id \notin Elements(written) =>
      \/ audit_log[id].flag
      \/ id \in CommandInHand
      \/ id \in interrupted

(* Either board keeps the promise of MotionContract while the service sends, *)
(* reads, gives up and restarts                                              *)
(* (mock_peer.py:119-141, 213-289, alvik-firmware/main.py:97-173).           *)
Board == INSTANCE MotionContract
  WITH inbox <- to_peer, outbox <- from_peer, done <- executed,
       halted <- peer_state # "ARMED"

BoardKeepsContract == Board!ContractSpec

-----------------------------------------------------------------------------
(* Claims made about this code that it does not meet.                        *)

(* docs/ipc-protocol.md:159 SUPERVISOR_HEARTBEAT is "Sent by the VENTUNO Q   *)
(* every 500 ms, and immediately after each audit row is published": they    *)
(* keep coming while there is nothing in view.                               *)
HeartbeatsKeepComing == [](pc = "idle") => []<>(sent_age = 0)
=============================================================================

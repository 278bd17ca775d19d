---------------------------- MODULE MotionContract ----------------------------
(***************************************************************************)
(* What a motion controller promises the governance tier, whichever board  *)
(* it is: commands are served one at a time in the order they came, each   *)
(* is answered once, an acknowledgement means that it was executed and a   *)
(* rejection that it was not, nothing is executed without a log reference, *)
(* below the confidence threshold or after a halt, and a halt is for good. *)
(* The far end of the wires may only send commands and take what was sent. *)
(***************************************************************************)
EXTENDS Messages, Queues

VARIABLES inbox, outbox, done, halted

contract == <<inbox, outbox, done, halted>>

ContractInit == inbox = <<>> /\ outbox = <<>> /\ done = <<>> /\ halted = FALSE

Serve == inbox # <<>> /\ inbox' = Tail(inbox) /\ UNCHANGED halted

ExecuteCommand ==
  /\ Serve
  /\ ~halted
  /\ Head(inbox).audit_ref # 0
  /\ Head(inbox).confidence # "below"
  /\ done' = Append(done, Head(inbox).audit_ref)
  /\ \E status \in AckStatus :
       outbox' = Append(outbox, CommandAck(Head(inbox).audit_ref, status))

RejectCommand ==
  /\ Serve
  /\ \E reason \in RejectReason :
       outbox' = Append(outbox, CommandReject(Head(inbox).audit_ref, reason))
  /\ UNCHANGED done

HaltForGood ==
  /\ ~halted
  /\ halted'
  /\ UNCHANGED <<inbox, done>>
  /\ outbox' # outbox =>
       \E trigger \in HaltTrigger \cup {"NO_MEMBER"} :
         outbox' = Append(outbox, HaltNotify(trigger))

FarEnd ==
  /\ \/ UNCHANGED inbox
     \/ inbox' # <<>> /\ inbox' = Append(inbox, inbox'[Len(inbox')])
  /\ Elements(outbox') \subseteq Elements(outbox)
  /\ Len(outbox') <= Len(outbox)
  /\ UNCHANGED <<done, halted>>

ContractNext == ExecuteCommand \/ RejectCommand \/ HaltForGood \/ FarEnd

ContractSpec == ContractInit /\ [][ContractNext]_contract
=============================================================================

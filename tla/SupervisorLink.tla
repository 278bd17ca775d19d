---------------------------- MODULE SupervisorLink ----------------------------
(***************************************************************************)
(* The governance tier's end of the oversight link, class SupervisorLink   *)
(* of linux-stack/oversight/supervisor_link.py.                            *)
(*                                                                         *)
(* The wires are queues.  A write that fails is swallowed and a frame can  *)
(* be lost on the way, which looks the same from here: the frame does not  *)
(* arrive.  The monotonic clock is kept as two ages that stop at the first *)
(* value past which they are no longer told apart.  last_verdict,          *)
(* last_latch and the session counters are shown or reported and decide    *)
(* nothing: they are left out.                                             *)
(***************************************************************************)
EXTENDS AuditLog

CONSTANTS
  HeartbeatInterval,   (* heartbeat_interval_s                               *)
  LinkTimeout,         (* link_timeout_s                                     *)
  FailClosed           (* fail_closed                                        *)

ASSUME LinkAssumption ==
  /\ HeartbeatInterval \in Nat
  /\ LinkTimeout \in Nat \ {0}
  /\ FailClosed \in BOOLEAN

VARIABLES
  link_override,
  link_reason,
  chain_head,     (* AuditChain.head                                         *)
  chain_ref,      (* AuditChain.last_ref                                     *)
  sent_age,       (* time since _last_heartbeat_sent                         *)
  inbound_age,    (* time since _last_inbound                                *)
  to_node,        (* SUPERVISOR_HEARTBEATs and ATTEST_DIGESTs on the wire    *)
  from_node       (* what the oversight node has sent                        *)

vetoVars == <<link_override, link_reason>>
chainVars == <<chain_head, chain_ref>>
linkVars == <<vetoVars, chainVars, sent_age, inbound_age>>
nodeWires == <<to_node, from_node>>

HeartbeatFrame(ref) == [type |-> "SUPERVISOR_HEARTBEAT", ref |-> ref, digest |-> GENESIS]
DigestFrame(ref, head) == [type |-> "ATTEST_DIGEST", ref |-> ref, digest |-> head]
AssertFrame(reason) == [type |-> "OVERRIDE_ASSERT", reason |-> reason]
ClearFrame == [type |-> "OVERRIDE_CLEAR", reason |-> "none"]
AckFrame(verdict) ==
  [type |-> "ATTEST_ACK",
   reason |-> IF verdict = "CHAIN_OK" THEN "none" ELSE "ATTESTATION_MISMATCH"]
LatchFrame(agrees) ==
  [type |-> "LATCH_REPORT", reason |-> IF agrees THEN "none" ELSE "LATCH_MISMATCH"]

LinkTypeOK ==
  /\ link_override \in BOOLEAN
  /\ link_reason # "none" <=> link_override
  /\ chain_ref \in 0 .. MaxRows
  /\ sent_age \in 0 .. HeartbeatInterval
  /\ inbound_age \in 0 .. LinkTimeout + 1

(* A new link, and the heartbeat _open_supervisor forces out at once.        *)
LinkInit ==
  /\ link_override = FALSE
  /\ link_reason = "none"
  /\ chain_head = GENESIS
  /\ chain_ref = 0
  /\ sent_age = 0
  /\ inbound_age = 0
  /\ to_node = <<HeartbeatFrame(0)>>
  /\ from_node = <<>>

OpenLink ==
  /\ link_override' = FALSE
  /\ link_reason' = "none"
  /\ chain_head' = GENESIS
  /\ chain_ref' = 0
  /\ sent_age' = 0
  /\ inbound_age' = 0
  /\ to_node' = Append(to_node, HeartbeatFrame(0))

LinkIsStale == inbound_age > LinkTimeout

-----------------------------------------------------------------------------
(* _dispatch over everything pending.  Each frame that decides replaces the  *)
(* reason, so only the last of them shows; an ATTEST_ACK that is CHAIN_OK and *)
(* a LATCH_REPORT whose sources agree decide nothing.                        *)
DecidesOnClear(frame) == frame.type = "OVERRIDE_CLEAR"   (* mutant *)

Decides(frame) ==
  frame.type \in {"OVERRIDE_ASSERT", "OVERRIDE_CLEAR"} \/ frame.reason # "none"
Deciding == {n \in 1 .. Len(from_node) : Decides(from_node[n])}
LastDeciding == from_node[CHOOSE n \in Deciding : \A m \in Deciding : m <= n]
ReasonAfterDrain == IF Deciding = {} THEN link_reason ELSE LastDeciding.reason

(* poll(): drain, then count a silent link as a veto of its own.             *)
StillSilent == from_node = <<>> /\ LinkIsStale
ReasonAfterPoll ==
  IF FailClosed /\ StillSilent THEN "GOVERNANCE_HEARTBEAT_LOST" ELSE ReasonAfterDrain

Poll ==
  /\ from_node' = <<>>
  /\ inbound_age' = IF from_node = <<>> THEN inbound_age ELSE 0
  /\ link_reason' = ReasonAfterPoll
  /\ link_override' = (ReasonAfterPoll # "none")
  /\ UNCHANGED <<chainVars, sent_age, to_node>>

(* record(): a row that does not follow the chain is a local veto and is not *)
(* published; any other is folded in and published, and a heartbeat that is  *)
(* due goes after it.                                                        *)
HeartbeatDue == sent_age >= HeartbeatInterval

RejectRow ==
  /\ link_override' = TRUE
  /\ link_reason' = "ATTESTATION_MISMATCH"
  /\ UNCHANGED <<chainVars, sent_age, inbound_age, nodeWires>>

PublishRow(ref) ==
  /\ chain_head' = ChainStep(chain_head, ref)
  /\ chain_ref' = ref
  /\ to_node' = to_node \o <<DigestFrame(ref, chain_head')>>
                  \o IF HeartbeatDue THEN <<HeartbeatFrame(ref)>> ELSE <<>>
  /\ sent_age' = IF HeartbeatDue THEN 0 ELSE sent_age
  /\ UNCHANGED <<vetoVars, inbound_age, from_node>>

Record(ref) == IF ref <= chain_ref THEN RejectRow ELSE PublishRow(ref)

LinkTick ==
  /\ sent_age' = IF sent_age < HeartbeatInterval THEN sent_age + 1 ELSE sent_age
  /\ inbound_age' = IF LinkIsStale THEN inbound_age ELSE inbound_age + 1
  /\ UNCHANGED <<vetoVars, chainVars, nodeWires>>
=============================================================================

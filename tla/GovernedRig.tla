------------------------------ MODULE GovernedRig ------------------------------
(***************************************************************************)
(* The governance service and the oversight node, over the serial line     *)
(* between them: GovernanceFilter against SupervisorState.                 *)
(*                                                                         *)
(* The node's end of the line is r4_supervisor.ino's: what each frame and  *)
(* each event does to the state machine, and what is sent back.  The relay *)
(* is R4Sketch's subject and is left out; its report of a disagreement     *)
(* comes as a cause like any other.  The motion controller's answers fill  *)
(* a column the chain does not cover and are GovernanceFilter's subject:   *)
(* here it stays silent, and every command ends in a timeout.              *)
(***************************************************************************)
EXTENDS GovernanceFilter, SupervisorState

CONSTANTS
  NodeCauses,    (* what, besides silence and bad digests, raises overrides  *)
  Loses,         (* the directions that lose frames                          *)
  MaxTampers,    (* bound: rows rewritten or deleted behind the logger       *)
  MaxReviews     (* bound: no reviewer flags a row past so many flagged ones *)

ASSUME RigAssumption ==
  /\ MaxRows <= MaxRef
  /\ NodeCauses \subseteq Reasons
  /\ Loses \subseteq {"to_node", "from_node"}
  /\ MaxTampers \in Nat /\ MaxReviews \in Nat

VARIABLES
  since_latch,   (* history: commands written since the node's override      *)
                 (* latched                                                  *)
  tampered       (* history: the rows that are no longer as logged           *)

rigVars == <<filterVars, supervisorVars, since_latch, tampered>>

RigInit ==
  /\ FilterInit /\ SupervisorInit
  /\ since_latch = 0
  /\ tampered = {}

Room == Len(from_node) + 2 <= MaxWire
Reply(frames) == from_node' = from_node \o frames
Counting == since_latch' = IF mode = "WATCHING" THEN 0 ELSE since_latch

-----------------------------------------------------------------------------
(* One frame off the line, at the node.                                      *)
NodeHeartbeat ==
  /\ to_node # <<>>
  /\ Head(to_node).type = "SUPERVISOR_HEARTBEAT"
  /\ OnHeartbeat(Head(to_node).ref)
  /\ to_node' = Tail(to_node)
  /\ UNCHANGED <<logVars, linkVars, from_node, boardVars, peerWires, serviceVars,
                 since_latch, tampered>>

NodeDigest ==
  /\ Room
  /\ to_node # <<>>
  /\ Head(to_node).type = "ATTEST_DIGEST"
  /\ to_node' = Tail(to_node)
  /\ LET ref == Head(to_node).ref
     IN  /\ OnDigest(ref, Head(to_node).digest)
         /\ Reply(<<AckFrame(Verdict(ref))>> \o
                  IF Verdict(ref) # "CHAIN_OK" /\ override_reason' = "ATTESTATION_MISMATCH"
                    THEN <<AssertFrame("ATTESTATION_MISMATCH")>> ELSE <<>>)
  /\ Counting
  /\ UNCHANGED <<logVars, linkVars, boardVars, peerWires, serviceVars, tampered>>

(* The node latches of its own accord, and says so.                          *)
NodeLatches(reason) ==
  /\ Room
  /\ mode = "WATCHING"
  /\ AssertOverride(reason)
  /\ Reply(<<AssertFrame(reason)>>)
  /\ Counting
  /\ UNCHANGED <<logVars, linkVars, to_node, boardVars, peerWires, serviceVars, tampered>>

NodeWatchdog == Stale /\ NodeLatches("GOVERNANCE_HEARTBEAT_LOST")
NodeOverride == \E reason \in NodeCauses : NodeLatches(reason)

NodeClear ==
  /\ Room
  /\ ClearOverride
  /\ Reply(<<ClearFrame>>)
  /\ UNCHANGED <<logVars, linkVars, to_node, boardVars, peerWires, serviceVars,
                 since_latch, tampered>>

-----------------------------------------------------------------------------
(* A step of the governance service, or the service started anew.           *)
Service ==
  /\ ServiceStep \/ Restart
  /\ since_latch' = IF Len(written') > Len(written) THEN since_latch + 1 ELSE since_latch
  /\ tampered' = IF DbPersists \/ restarts' = restarts THEN tampered ELSE {}
  /\ UNCHANGED supervisorVars

Lose ==
  /\ \/ "to_node" \in Loses /\ to_node # <<>>
        /\ to_node' = Tail(to_node) /\ UNCHANGED from_node
     \/ "from_node" \in Loses /\ from_node # <<>>
        /\ from_node' = Tail(from_node) /\ UNCHANGED to_node
  /\ UNCHANGED <<logVars, linkVars, boardVars, peerWires, serviceVars, supervisorVars,
                 since_latch, tampered>>

RigTick ==
  /\ Tick /\ LinkTick
  /\ UNCHANGED <<logVars, boardVars, peerWires, serviceVars, since_latch, tampered>>

(* Rows already folded into the chain are rewritten, put back or deleted.    *)
Tamper ==
  /\ pc = "idle"
  /\ \E id \in 1 .. chain_ref :
       \/ /\ tampered \subseteq {id}
          /\ Cardinality(tampered \cup {id}) <= MaxTampers
          /\ RewriteRow(id)
          /\ tampered' = IF id \in tampered THEN tampered \ {id} ELSE tampered \cup {id}
       \/ /\ Cardinality(tampered \cup {id}) <= MaxTampers
          /\ DeleteRow(id)
          /\ tampered' = tampered \cup {id}
  /\ UNCHANGED <<linkVars, nodeWires, boardVars, peerWires, serviceVars, supervisorVars,
                 since_latch>>

Flagged == {id \in DOMAIN audit_log : audit_log[id].flag}

ReviewerFlags ==
  /\ Cardinality(Flagged) < MaxReviews
  /\ \E id \in Ids : ReviewEvent(id)
  /\ UNCHANGED <<linkVars, nodeWires, boardVars, peerWires, serviceVars, supervisorVars,
                 since_latch, tampered>>

RigNext ==
  \/ Service
  \/ NodeHeartbeat \/ NodeDigest \/ NodeWatchdog \/ NodeOverride \/ NodeClear
  \/ Lose \/ RigTick \/ Tamper \/ ReviewerFlags

RigSpec == RigInit /\ [][RigNext]_rigVars

=============================================================================

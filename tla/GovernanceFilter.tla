--------------------------- MODULE GovernanceFilter ---------------------------
(***************************************************************************)
(* The governance service: GovernanceFilter.process_frame of               *)
(* linux-stack/governance/filter.py, run once per frame of detections by   *)
(* the loop of ventuno_q_service.py, over the audit log, the oversight     *)
(* link and the command link.                                              *)
(*                                                                         *)
(* The service is one thread; pc is where it is in process_frame.  Between *)
(* any two of its steps the node, the motion controller and the clock move *)
(* and the process may be restarted.  An exception leaves process_frame    *)
(* and the loop goes on with the next frame.                               *)
(*                                                                         *)
(* A frame is its detections sorted by confidence, highest first; labels   *)
(* and the action they map to decide nothing and are left out.             *)
(***************************************************************************)
EXTENDS SupervisorLink, AlvikFirmware

CONSTANTS
  Frames,        (* the frames perception may send, each a sequence          *)
  MaxWire,       (* bound: frames on the wire from the oversight node        *)
  MaxRestarts,   (* bound: restarts of the service                           *)
  DbPersists     (* --db names a file, rather than the default :memory:      *)

ASSUME FilterAssumption ==
  /\ Frames \subseteq Seq(Confidences) \ {<<>>}
  /\ MaxWire \in Nat /\ MaxRestarts \in Nat
  /\ DbPersists \in BOOLEAN

VARIABLES
  pc,
  pending,        (* the detections of the frame still to log                *)
  vetoed,         (* override_note is not None                               *)
  command_sent,   (* command_sent_this_frame                                 *)
  should_send,
  audit_ref,
  restarts,
  interrupted,    (* history: the rows logged as sent whose command was not  *)
                  (* written because the service ended before it             *)
  written         (* history: the references of the commands written, in     *)
                  (* order, since the database was opened                    *)

frameVars == <<pending, vetoed, command_sent, should_send, audit_ref>>
serviceVars == <<pc, frameVars, restarts, interrupted, written>>
filterVars == <<logVars, linkVars, nodeWires, boardVars, peerWires, serviceVars>>

FilterTypeOK ==
  /\ LogTypeOK /\ LinkTypeOK /\ PeerTypeOK
  /\ pc \in {"idle", "log", "witness", "send", "await"}
  /\ pending \in Seq(Confidences)
  /\ {vetoed, command_sent, should_send} \subseteq BOOLEAN
  /\ audit_ref \in 0 .. MaxRows
  /\ restarts \in 0 .. MaxRestarts
  /\ interrupted \subseteq Ids

FilterInit ==
  /\ LogInit /\ LinkInit /\ BoardInit
  /\ pc = "idle"
  /\ pending = <<>>
  /\ vetoed = FALSE /\ command_sent = FALSE /\ should_send = FALSE
  /\ audit_ref = 0
  /\ restarts = 0
  /\ interrupted = {} /\ written = <<>>

PassesThreshold(confidence) == confidence # "below"

(* On to the next detection, or out of process_frame.                        *)
Resume(rest) == pc' = IF rest = <<>> THEN "idle" ELSE "log"

-----------------------------------------------------------------------------
(* process_frame begins: the oversight node is asked once, before anything.  *)
BeginFrame ==
  /\ pc = "idle"
  /\ pc' = "log"
  /\ Poll
  /\ pending' \in Frames
  /\ vetoed' = link_override'
  /\ command_sent' = FALSE
  /\ UNCHANGED <<logVars, boardVars, peerWires, should_send, audit_ref, restarts,
                 interrupted, written>>

ShouldSend == ~vetoed /\ ~command_sent /\ PassesThreshold(Head(pending))

LogDetection ==
  /\ pc = "log"
  /\ pc' = "witness"
  /\ LogEvent(Head(pending), ShouldSend)
  /\ should_send' = ShouldSend
  /\ audit_ref' = next_id
  /\ pending' = Tail(pending)
  /\ UNCHANGED <<linkVars, nodeWires, boardVars, peerWires, vetoed, command_sent,
                 restarts, interrupted, written>>

(* log_event raises: nothing is logged, and the rest of the frame is dropped.*)
LogFails ==
  /\ pc = "log"
  /\ pc' = "idle"
  /\ pending' = <<>>
  /\ UNCHANGED <<logVars, linkVars, nodeWires, boardVars, peerWires, vetoed, command_sent,
                 should_send, audit_ref, restarts, interrupted, written>>

(* _witness: whatever record() makes of the row, should_send stands.         *)
Witness ==
  /\ pc = "witness"
  /\ IF audit_ref \in DOMAIN audit_log THEN Record(audit_ref)
     ELSE UNCHANGED <<linkVars, nodeWires>>
  /\ IF should_send THEN pc' = "send" ELSE Resume(pending)
  /\ UNCHANGED <<logVars, boardVars, peerWires, frameVars, restarts, interrupted, written>>

SendCommand ==
  /\ pc = "send"
  /\ pc' = "await"
  /\ command_sent' = TRUE
  /\ to_peer' = Append(to_peer,
                       CommandRequest(audit_ref, audit_log[audit_ref].confidence))
  /\ written' = Append(written, audit_ref)
  /\ UNCHANGED <<logVars, linkVars, nodeWires, boardVars, from_peer, pending, vetoed,
                 should_send, audit_ref, restarts, interrupted>>

(* The write raises OSError: the row cannot be withdrawn, so it is flagged.  *)
SendFails ==
  /\ pc = "send"
  /\ command_sent' = TRUE
  /\ FlagEvent(audit_ref)
  /\ Resume(pending)
  /\ UNCHANGED <<linkVars, nodeWires, boardVars, peerWires, pending, vetoed, should_send,
                 audit_ref, restarts, interrupted, written>>

(* _read_response: an answer to another command is skipped, a HALT_NOTIFY    *)
(* too.                                                                      *)
AnswersAnything(response) == response.type # "HALT_NOTIFY"   (* mutant *)
Answers(response) ==
  response.type \in {"COMMAND_ACK", "COMMAND_REJECT"} /\ response.audit_ref = audit_ref

ReadResponse ==
  /\ pc = "await"
  /\ from_peer # <<>>
  /\ Decodes(Head(from_peer))
  /\ from_peer' = Tail(from_peer)
  /\ LET response == Head(from_peer)
     IN  IF Answers(response)
           THEN /\ UpdateAck(audit_ref,
                             IF response.type = "COMMAND_ACK" THEN "ACK" ELSE "REJECT")
                /\ Resume(pending)
           ELSE UNCHANGED <<logVars, pc>>
  /\ UNCHANGED <<linkVars, nodeWires, boardVars, to_peer, frameVars, restarts, interrupted,
                 written>>

(* A frame with a code no enumeration has raises ValueError out of feed() and *)
(* so out of process_frame.  What the same read had decoded before it stays  *)
(* with the parser, to be skipped later.                                     *)
ResponseRaises ==
  /\ pc = "await"
  /\ pc' = "idle"
  /\ pending' = <<>>
  /\ \E n \in 1 .. Len(from_peer) :
       /\ ~Decodes(from_peer[n])
       /\ \A m \in 1 .. n - 1 : Decodes(from_peer[m])
       /\ from_peer' = SubSeq(from_peer, 1, n - 1) \o
                       SubSeq(from_peer, n + 1, Len(from_peer))
  /\ UNCHANGED <<logVars, linkVars, nodeWires, boardVars, to_peer, vetoed, command_sent,
                 should_send, audit_ref, restarts, interrupted, written>>

ResponseTimeoutRetries ==   (* mutant: the command is written again *)
  /\ pc = "await"
  /\ pc' = "send"
  /\ UNCHANGED <<logVars, linkVars, nodeWires, boardVars, peerWires, frameVars, restarts,
                 interrupted, written>>

ResponseTimeout ==
  /\ pc = "await"
  /\ Resume(pending)
  /\ UNCHANGED <<logVars, linkVars, nodeWires, boardVars, peerWires, frameVars, restarts,
                 interrupted, written>>

(* The one row whose command a restart now would leave unwritten.            *)
CommandInHand == IF pc \in {"witness", "send"} /\ should_send THEN {audit_ref} ELSE {}

(* The process ends and is started again.  What the lines hold may survive   *)
(* it; the link, the chain and an in-memory database do not.                 *)
Restart ==
  /\ restarts < MaxRestarts
  /\ restarts' = restarts + 1
  /\ pc' = "idle"
  /\ pending' = <<>>
  /\ vetoed' = FALSE /\ command_sent' = FALSE /\ should_send' = FALSE
  /\ audit_ref' = 0
  /\ OpenLink
  /\ from_node' \in {from_node, <<>>}
  /\ from_peer' \in {from_peer, <<>>}
  /\ IF DbPersists
       THEN /\ interrupted' = interrupted \cup CommandInHand
            /\ UNCHANGED <<logVars, written, executed>>
       ELSE NewLog /\ interrupted' = {} /\ written' = <<>> /\ executed' = <<>>
  /\ UNCHANGED <<peer_state, kill_switch_open, board, to_peer>>

ServiceStep ==
  \/ BeginFrame \/ LogDetection \/ LogFails \/ Witness
  \/ SendCommand \/ SendFails
  \/ ReadResponse \/ ResponseRaises \/ ResponseTimeout

PeerStep == BoardNext /\ UNCHANGED <<logVars, linkVars, nodeWires, serviceVars>>

-----------------------------------------------------------------------------
(* The tier by itself, against a node that may say anything at any time and  *)
(* whose digests are not looked at.                                          *)
NodeFrames ==
  {AssertFrame("OPERATOR_BUTTON"), ClearFrame, AckFrame("CHAIN_OK"), LatchFrame(FALSE)}

NodeSays ==
  /\ Len(from_node) < MaxWire
  /\ \E frame \in NodeFrames : from_node' = Append(from_node, frame)
  /\ UNCHANGED <<logVars, linkVars, to_node, boardVars, peerWires, serviceVars>>

FilterTick == LinkTick /\ UNCHANGED <<logVars, boardVars, peerWires, serviceVars>>

FilterNext == ServiceStep \/ Restart \/ PeerStep \/ NodeSays \/ FilterTick

FilterSpec == FilterInit /\ [][FilterNext]_filterVars

(* Fairness: the service gets on with a frame it has begun, and the clock    *)
(* keeps counting.  Nothing is assumed of perception, which sends the frames.*)
FairFilterSpec ==
  FilterSpec /\ WF_filterVars(ServiceStep /\ pc # "idle") /\ WF_filterVars(FilterTick)
=============================================================================

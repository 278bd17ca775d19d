----------------------------- MODULE FilterProofs -----------------------------
(***************************************************************************)
(* Theorems about the governance tier and its motion controller, for every *)
(* number of rows, restarts and frames, every threshold and either board.  *)
(* The invariants use nothing of a board but that it keeps MotionContract, *)
(* which is proved first.                                                  *)
(***************************************************************************)
EXTENDS FilterProperties, QueueLemmas

Requests == [audit_ref : Ids, confidence : Confidences]
Responses ==
  [type : {"COMMAND_ACK", "COMMAND_REJECT", "HALT_NOTIFY"}, audit_ref : Nat,
   code : AckStatus \cup RejectReason \cup HaltTrigger \cup {"NO_MEMBER"}]

-----------------------------------------------------------------------------
(* The types, and what process_frame may rely on where it is.                *)
WireTypeOK ==
  /\ to_peer \in Seq(Requests) /\ from_peer \in Seq(Responses)
  /\ executed \in Seq(Ids) /\ written \in Seq(Ids)

PlaceOK ==
  /\ pc = "log" => pending # <<>>
  /\ pc \in {"witness", "send"} => audit_ref \in DOMAIN audit_log

BoardOK ==
  /\ board \in {"MockSTM32H5", "Alvik"}
  /\ board = "Alvik" => peer_state # "FAULT"

TypeInv == FilterTypeOK /\ WireTypeOK /\ PlaceOK /\ BoardOK

(* The contract's own messages are those of the link.                        *)
LEMMA ContractMessages ==
  /\ \A ref, status : Board!CommandAck(ref, status) = CommandAck(ref, status)
  /\ \A ref, reason : Board!CommandReject(ref, reason) = CommandReject(ref, reason)
  /\ \A trigger : Board!HaltNotify(trigger) = HaltNotify(trigger)
  BY DEF Board!CommandAck, CommandAck, Board!CommandReject, CommandReject,
         Board!HaltNotify, HaltNotify

(* Either board only ever does what the contract lets it do.                 *)
BoardMoves ==
  Board!ExecuteCommand \/ Board!RejectCommand \/ Board!HaltForGood
  \/ UNCHANGED <<to_peer, from_peer, executed, peer_state # "ARMED">>

LEMMA RejectMoves ==
  ASSUME NEW reason \in RejectReason, to_peer # <<>>, Reject(Head(to_peer), reason)
  PROVE  Board!RejectCommand
  BY ContractMessages
  DEF Reject, peerVars, Board!RejectCommand, Board!Serve, Board!RejectReason,
      RejectReason

LEMMA ExecuteMoves ==
  ASSUME to_peer # <<>>, Execute(Head(to_peer)), peer_state = "ARMED",
         Head(to_peer).audit_ref # 0, Head(to_peer).confidence # "below"
  PROVE  Board!ExecuteCommand
<1>1. "EXECUTING" \in Board!AckStatus BY DEF Board!AckStatus
<1> QED
  BY <1>1, ContractMessages DEF Execute, Board!ExecuteCommand, Board!Serve

LEMMA HaltMoves ==
  ASSUME NEW trigger \in HaltTrigger, Halt(trigger)
  PROVE  Board!HaltForGood \/ UNCHANGED <<to_peer, from_peer, executed, peer_state # "ARMED">>
<1>1. trigger \in Board!HaltTrigger BY DEF HaltTrigger, Board!HaltTrigger
<1>2. CASE peer_state = "ARMED"
  BY <1>1, <1>2, ContractMessages DEF Halt, Board!HaltForGood
<1>3. CASE peer_state # "ARMED"
  BY <1>3 DEF Halt
<1> QED BY <1>2, <1>3

LEMMA MockMoves ==
  ASSUME TypeInv, PeerNext
  PROVE  BoardMoves
<1>1. CASE PeerOnCommand
  <2> DEFINE verdict == GateVerdict(Head(to_peer))
  <2>1. CASE verdict \in RejectReason
    BY <1>1, <2>1, RejectMoves DEF PeerOnCommand, BoardMoves
  <2>2. CASE verdict \notin RejectReason
    <3>1. peer_state = "ARMED"
      BY <2>2 DEF GateVerdict, RejectReason, TypeInv, FilterTypeOK, PeerTypeOK
    <3>2. Head(to_peer).audit_ref # 0
      BY <2>2 DEF GateVerdict, RejectReason
    <3>3. Head(to_peer).confidence # "below"
      BY <2>2, <3>1, <3>2 DEF GateVerdict, RejectReason, PassesGate
    <3> QED BY <1>1, <2>2, <3>1, <3>2, <3>3, ExecuteMoves DEF PeerOnCommand, BoardMoves
  <2> QED BY <2>1, <2>2
<1>2. CASE OpenKillSwitch \/ PeerWatchdogExpires
  <2>1. {"KILL_SWITCH_GPIO", "WATCHDOG"} \subseteq HaltTrigger BY DEF HaltTrigger
  <2> QED BY <1>2, <2>1, HaltMoves DEF OpenKillSwitch, PeerWatchdogExpires, BoardMoves
<1>3. CASE CloseKillSwitch BY <1>3 DEF CloseKillSwitch, peerWires, BoardMoves
<1>4. CASE PeerFault
  <2>1. CASE peer_state = "ARMED"
    BY <1>4, <2>1 DEF PeerFault, peerWires, BoardMoves, Board!HaltForGood
  <2>2. CASE peer_state # "ARMED"
    BY <1>4, <2>2 DEF PeerFault, peerWires, BoardMoves
  <2> QED BY <2>1, <2>2
<1> QED BY <1>1, <1>2, <1>3, <1>4 DEF PeerNext

LEMMA AlvikMoves ==
  ASSUME TypeInv, board = "Alvik", AlvikNext
  PROVE  BoardMoves
<1>0. peer_state \in {"ARMED", "HALTED"}
  BY DEF TypeInv, BoardOK, FilterTypeOK, PeerTypeOK
<1>1. CASE AlvikOnCommand
  <2>1. PICK verdict \in AlvikVerdicts(Head(to_peer)) :
          CASE verdict = "EXECUTING"    -> Execute(Head(to_peer))
            [] verdict = "SYSTEM_FAULT" -> MotorRaises(Head(to_peer))
            [] OTHER                    -> Reject(Head(to_peer), verdict)
    BY <1>1 DEF AlvikOnCommand
  <2>2. CASE verdict = "EXECUTING"
    <3>1. peer_state = "ARMED" /\ Head(to_peer).audit_ref # 0
          /\ Head(to_peer).confidence # "below"
      BY <2>2, <1>0 DEF AlvikVerdicts, MayPassGate
    <3> QED BY <1>1, <2>1, <2>2, <3>1, ExecuteMoves DEF AlvikOnCommand, BoardMoves
  <2>3. CASE verdict # "EXECUTING"
    <3>1. verdict \in RejectReason BY <2>3 DEF AlvikVerdicts, RejectReason
    <3>2. Reject(Head(to_peer), verdict) BY <2>1, <2>3 DEF MotorRaises
    <3> QED BY <1>1, <3>1, <3>2, RejectMoves DEF AlvikOnCommand, BoardMoves
  <2> QED BY <2>2, <2>3
<1>2. CASE PressKillPin \/ CloseKillSwitch
  BY <1>2 DEF PressKillPin, CloseKillSwitch, peerWires, BoardMoves
<1>3. CASE AlvikPollsKillPin
  BY <1>3, ContractMessages DEF AlvikPollsKillPin, BoardMoves, Board!HaltForGood
<1> QED BY <1>1, <1>2, <1>3 DEF AlvikNext

LEMMA BoardStep ==
  ASSUME TypeInv, BoardNext
  PROVE  BoardMoves
  BY MockMoves, AlvikMoves DEF BoardNext

-----------------------------------------------------------------------------
(* The log's operations keep its rows well formed, and keep every row.       *)
LEMMA EventIsLogged ==
  ASSUME LogTypeOK, NEW confidence \in Confidences, NEW sent \in BOOLEAN,
         LogEvent(confidence, sent)
  PROVE  /\ LogTypeOK' /\ next_id \in Ids
         /\ next_id \in DOMAIN audit_log' /\ DOMAIN audit_log' = DOMAIN audit_log \cup {next_id}
         /\ audit_log'[next_id] = [confidence |-> confidence, command_sent |-> sent,
                                   stm32_ack |-> "NULL", flag |-> FALSE]
         /\ \A id \in DOMAIN audit_log : id < next_id /\ audit_log'[id] = audit_log[id]
<1> USE LogAssumption DEF LogTypeOK, LogEvent, Ids
<1>1. next_id \in Ids /\ next_id' = next_id + 1 /\ next_id' \in 1 .. MaxRows + 1 OBVIOUS
<1>2. \A id \in DOMAIN audit_log : id \in Nat /\ id < next_id OBVIOUS
<1>3. /\ DOMAIN audit_log' = DOMAIN audit_log \cup {next_id}
      /\ audit_log'[next_id] = [confidence |-> confidence, command_sent |-> sent,
                                stm32_ack |-> "NULL", flag |-> FALSE]
      /\ \A id \in DOMAIN audit_log : audit_log'[id] = audit_log[id]
  BY <1>2
<1>4. \A id \in DOMAIN audit_log' : audit_log'[id] \in Row
  BY <1>3 DEF Row, Acks
<1>5. DOMAIN audit_log' \subseteq 1 .. next_id' - 1
  <2>1. DOMAIN audit_log \subseteq 1 .. next_id - 1 OBVIOUS
  <2> QED BY <1>1, <1>3, <2>1
<1> QED BY <1>1, <1>2, <1>3, <1>4, <1>5

LEMMA AckIsKept ==
  ASSUME LogTypeOK, NEW id, NEW ack \in Acks, UpdateAck(id, ack)
  PROVE  /\ LogTypeOK' /\ UNCHANGED next_id /\ DOMAIN audit_log' = DOMAIN audit_log
         /\ \A other \in DOMAIN audit_log :
              /\ audit_log'[other].confidence = audit_log[other].confidence
              /\ audit_log'[other].command_sent = audit_log[other].command_sent
              /\ audit_log'[other].flag = audit_log[other].flag
              /\ \/ audit_log'[other].stm32_ack = audit_log[other].stm32_ack
                 \/ other = id /\ audit_log'[other].stm32_ack = ack
<1> USE DEF LogTypeOK, UpdateAck
<1>1. CASE id \in DOMAIN audit_log /\ audit_log[id].stm32_ack = "NULL"
  <2>1. audit_log' = [audit_log EXCEPT ![id].stm32_ack = ack] BY <1>1
  <2>2. audit_log[id] \in Row BY <1>1
  <2>3. DOMAIN audit_log' = DOMAIN audit_log
        /\ audit_log'[id] = [audit_log[id] EXCEPT !.stm32_ack = ack]
        /\ \A other \in DOMAIN audit_log \ {id} : audit_log'[other] = audit_log[other]
    BY <1>1, <2>1
  <2>4. audit_log'[id] \in Row /\ audit_log'[id].stm32_ack = ack
        /\ audit_log'[id].confidence = audit_log[id].confidence
        /\ audit_log'[id].command_sent = audit_log[id].command_sent
        /\ audit_log'[id].flag = audit_log[id].flag
    BY <2>2, <2>3 DEF Row
  <2> QED BY <2>3, <2>4
<1>2. CASE ~(id \in DOMAIN audit_log /\ audit_log[id].stm32_ack = "NULL")
  BY <1>2
<1> QED BY <1>1, <1>2

LEMMA FlagIsKept ==
  ASSUME LogTypeOK, NEW id, FlagEvent(id)
  PROVE  /\ LogTypeOK' /\ UNCHANGED next_id /\ DOMAIN audit_log' = DOMAIN audit_log
         /\ \A other \in DOMAIN audit_log :
              /\ audit_log'[other].confidence = audit_log[other].confidence
              /\ audit_log'[other].command_sent = audit_log[other].command_sent
              /\ audit_log'[other].stm32_ack = audit_log[other].stm32_ack
              /\ other = id => audit_log'[other].flag
              /\ other # id => audit_log'[other].flag = audit_log[other].flag
<1> USE DEF LogTypeOK, FlagEvent
<1>1. CASE id \in DOMAIN audit_log
  <2>1. audit_log' = [audit_log EXCEPT ![id].flag = TRUE] BY <1>1
  <2>2. audit_log[id] \in Row BY <1>1
  <2>3. DOMAIN audit_log' = DOMAIN audit_log
        /\ audit_log'[id] = [audit_log[id] EXCEPT !.flag = TRUE]
        /\ \A other \in DOMAIN audit_log \ {id} : audit_log'[other] = audit_log[other]
    BY <1>1, <2>1
  <2>4. audit_log'[id] \in Row /\ audit_log'[id].flag
        /\ audit_log'[id].confidence = audit_log[id].confidence
        /\ audit_log'[id].command_sent = audit_log[id].command_sent
        /\ audit_log'[id].stm32_ack = audit_log[id].stm32_ack
    BY <2>2, <2>3 DEF Row
  <2> QED BY <2>3, <2>4
<1>2. CASE id \notin DOMAIN audit_log
  BY <1>2
<1> QED BY <1>1, <1>2

(* The link's operations keep its types.                                     *)
LEMMA PollTypes ==
  ASSUME LinkTypeOK, Poll
  PROVE  LinkTypeOK' /\ link_override' \in BOOLEAN
<1>1. link_override' \in BOOLEAN /\ (link_reason' # "none" <=> link_override')
  BY DEF Poll
<1>2. inbound_age' \in 0 .. LinkTimeout + 1 /\ chain_ref' = chain_ref /\ sent_age' = sent_age
  BY LinkAssumption DEF Poll, chainVars, LinkTypeOK
<1> QED BY <1>1, <1>2 DEF LinkTypeOK

LEMMA RecordTypes ==
  ASSUME LinkTypeOK, NEW ref \in Ids, Record(ref)
  PROVE  LinkTypeOK'
<1>1. CASE RejectRow
  BY <1>1 DEF RejectRow, LinkTypeOK, chainVars
<1>2. CASE PublishRow(ref)
  <2>1. ref \in 0 .. MaxRows BY LogAssumption DEF Ids
  <2>2. 0 \in 0 .. HeartbeatInterval BY LinkAssumption
  <2> QED BY <1>2, <2>1, <2>2 DEF PublishRow, LinkTypeOK, vetoVars
<1> QED BY <1>1, <1>2 DEF Record

LEMMA OpenTypes ==
  ASSUME OpenLink
  PROVE  LinkTypeOK'
<1>1. 0 \in 0 .. MaxRows /\ 0 \in 0 .. HeartbeatInterval /\ 0 \in 0 .. LinkTimeout + 1
  BY LogAssumption, LinkAssumption
<1> QED BY <1>1 DEF OpenLink, LinkTypeOK

LEMMA TickTypes ==
  ASSUME LinkTypeOK, LinkTick
  PROVE  LinkTypeOK'
  BY LinkAssumption DEF LinkTick, LinkTypeOK, LinkIsStale, vetoVars, chainVars

(* What a part leaves alone keeps its types.                                 *)
LEMMA LogStays ==
  ASSUME LogTypeOK, UNCHANGED logVars
  PROVE  LogTypeOK'
  BY DEF LogTypeOK, logVars

LEMMA LinkStays ==
  ASSUME LinkTypeOK, UNCHANGED linkVars
  PROVE  LinkTypeOK'
  BY DEF LinkTypeOK, linkVars, vetoVars, chainVars

LEMMA BoardStays ==
  ASSUME PeerTypeOK, BoardOK, UNCHANGED boardVars
  PROVE  PeerTypeOK' /\ BoardOK' /\ UNCHANGED executed
  BY DEF PeerTypeOK, BoardOK, boardVars, peerVars

(* A board keeps its own state's types, and the wires'.                      *)
LEMMA BoardTypes ==
  ASSUME TypeInv, BoardNext
  PROVE  PeerTypeOK' /\ BoardOK'
<1> USE DEF TypeInv, FilterTypeOK, PeerTypeOK, BoardOK
<1>1. CASE board = "MockSTM32H5" /\ PeerNext
  <2>1. CASE PeerOnCommand
    BY <1>1, <2>1 DEF BoardNext, PeerOnCommand, Reject, Execute, peerVars
  <2>2. CASE OpenKillSwitch \/ CloseKillSwitch \/ PeerWatchdogExpires \/ PeerFault
    BY <1>1, <2>2
    DEF BoardNext, OpenKillSwitch, CloseKillSwitch, PeerWatchdogExpires, PeerFault, Halt
  <2> QED BY <1>1, <2>1, <2>2 DEF PeerNext
<1>2. CASE board = "Alvik" /\ AlvikNext
  <2>1. CASE AlvikOnCommand
    <3>1. PICK verdict \in AlvikVerdicts(Head(to_peer)) :
            Execute(Head(to_peer)) \/ Reject(Head(to_peer), verdict)
            \/ Reject(Head(to_peer), "SYSTEM_FAULT")
      BY <2>1 DEF AlvikOnCommand, MotorRaises
    <3> QED BY <1>2, <3>1 DEF BoardNext, Reject, Execute, peerVars
  <2>2. CASE PressKillPin \/ CloseKillSwitch \/ AlvikPollsKillPin
    BY <1>2, <2>2 DEF BoardNext, PressKillPin, CloseKillSwitch, AlvikPollsKillPin
  <2> QED BY <1>2, <2>1, <2>2 DEF AlvikNext
<1> QED BY <1>1, <1>2 DEF BoardNext

LEMMA ServedWires ==
  ASSUME WireTypeOK, BoardMoves
  PROVE  /\ to_peer' \in Seq(Requests) /\ from_peer' \in Seq(Responses)
         /\ executed' \in Seq(Ids)
<1> USE DEF WireTypeOK
<1>1. CASE Board!ExecuteCommand
  <2>1. to_peer # <<>> /\ to_peer' = Tail(to_peer)
        /\ executed' = Append(executed, Head(to_peer).audit_ref)
    BY <1>1 DEF Board!ExecuteCommand, Board!Serve
  <2>2. PICK status \in AckStatus :
          from_peer' = Append(from_peer, CommandAck(Head(to_peer).audit_ref, status))
    BY <1>1, ContractMessages DEF Board!ExecuteCommand, Board!AckStatus, AckStatus
  <2>3. Tail(to_peer) \in Seq(Requests) /\ Head(to_peer) \in Requests BY <2>1, Served
  <2>4. Head(to_peer).audit_ref \in Ids /\ Head(to_peer).audit_ref \in Nat
    BY <2>3 DEF Requests, Ids
  <2>5. CommandAck(Head(to_peer).audit_ref, status) \in Responses
    BY <2>4 DEF CommandAck, Responses
  <2> QED BY <2>1, <2>2, <2>3, <2>4, <2>5, Appended
<1>2. CASE Board!RejectCommand
  <2>1. to_peer # <<>> /\ to_peer' = Tail(to_peer) /\ executed' = executed
    BY <1>2 DEF Board!RejectCommand, Board!Serve
  <2>2. PICK reason \in RejectReason :
          from_peer' = Append(from_peer, CommandReject(Head(to_peer).audit_ref, reason))
    BY <1>2, ContractMessages DEF Board!RejectCommand, Board!RejectReason, RejectReason
  <2>3. Tail(to_peer) \in Seq(Requests) /\ Head(to_peer) \in Requests BY <2>1, Served
  <2>4. Head(to_peer).audit_ref \in Nat BY <2>3 DEF Requests, Ids
  <2>5. CommandReject(Head(to_peer).audit_ref, reason) \in Responses
    BY <2>4 DEF CommandReject, Responses
  <2> QED BY <2>1, <2>2, <2>3, <2>5, Appended
<1>3. CASE Board!HaltForGood
  <2>1. to_peer' = to_peer /\ executed' = executed BY <1>3 DEF Board!HaltForGood
  <2>2. CASE from_peer' # from_peer
    <3>1. PICK trigger \in HaltTrigger \cup {"NO_MEMBER"} :
            from_peer' = Append(from_peer, HaltNotify(trigger))
      BY <1>3, <2>2, ContractMessages DEF Board!HaltForGood, Board!HaltTrigger, HaltTrigger
    <3>2. HaltNotify(trigger) \in Responses BY DEF HaltNotify, Responses
    <3> QED BY <2>1, <3>1, <3>2, Appended
  <2> QED BY <2>1, <2>2
<1>4. CASE UNCHANGED <<to_peer, from_peer, executed>>
  BY <1>4
<1> QED BY <1>1, <1>2, <1>3, <1>4 DEF BoardMoves

LEMMA TypeInvInit ==
  ASSUME FilterInit
  PROVE  TypeInv
<1>1. LogTypeOK
  BY LogAssumption DEF FilterInit, LogInit, LogTypeOK, EmptyLog
<1>2. LinkTypeOK
  <2>1. 0 \in 0 .. MaxRows /\ 0 \in 0 .. HeartbeatInterval /\ 0 \in 0 .. LinkTimeout + 1
    BY LogAssumption, LinkAssumption
  <2> QED BY <2>1 DEF FilterInit, LinkInit, LinkTypeOK
<1>3. PeerTypeOK /\ BoardOK /\ WireTypeOK
  <2>1. PeerTypeOK /\ BoardOK
    BY BoardAssumption DEF FilterInit, BoardInit, PeerInit, PeerTypeOK, BoardOK
  <2>2. \A S : <<>> \in Seq(S) OBVIOUS
  <2> QED BY <2>1, <2>2 DEF FilterInit, BoardInit, PeerInit, WireTypeOK
<1>4. 0 \in 0 .. MaxRows /\ 0 \in 0 .. MaxRestarts /\ <<>> \in Seq(Confidences)
  BY LogAssumption, FilterAssumption
<1> QED
  BY <1>1, <1>2, <1>3, <1>4 DEF FilterInit, TypeInv, FilterTypeOK, PlaceOK

LEMMA ServiceTypes ==
  ASSUME TypeInv, ServiceStep
  PROVE  TypeInv'
<1> USE DEF TypeInv, FilterTypeOK, WireTypeOK, PlaceOK
<1>1. CASE BeginFrame
  <2>1. LogTypeOK' /\ LinkTypeOK' /\ PeerTypeOK' /\ BoardOK' /\ UNCHANGED executed
    BY <1>1, LogStays, PollTypes, BoardStays DEF BeginFrame
  <2>2. pending' \in Seq(Confidences) /\ pending' # <<>>
    BY <1>1, FilterAssumption DEF BeginFrame
  <2>3. vetoed' \in BOOLEAN BY <1>1, PollTypes DEF BeginFrame
  <2> QED BY <1>1, <2>1, <2>2, <2>3 DEF BeginFrame, peerWires
<1>2. CASE LogDetection
  <2>1. Head(pending) \in Confidences /\ Tail(pending) \in Seq(Confidences)
    BY <1>2, Served DEF LogDetection
  <2>2. ShouldSend \in BOOLEAN BY DEF ShouldSend
  <2>3. LogTypeOK' /\ next_id \in Ids /\ next_id \in DOMAIN audit_log'
    BY <1>2, <2>1, <2>2, EventIsLogged DEF LogDetection
  <2>4. LinkTypeOK' /\ PeerTypeOK' /\ BoardOK' /\ UNCHANGED executed
    BY <1>2, LinkStays, BoardStays DEF LogDetection
  <2>5. audit_ref' \in 0 .. MaxRows BY <1>2, <2>3, LogAssumption DEF LogDetection, Ids
  <2> QED BY <1>2, <2>1, <2>2, <2>3, <2>4, <2>5 DEF LogDetection, peerWires
<1>3. CASE LogFails
  <2>1. LogTypeOK' /\ LinkTypeOK' /\ PeerTypeOK' /\ BoardOK' /\ UNCHANGED executed
    BY <1>3, LogStays, LinkStays, BoardStays DEF LogFails
  <2>2. <<>> \in Seq(Confidences) OBVIOUS
  <2> QED BY <1>3, <2>1, <2>2 DEF LogFails, peerWires
<1>4. CASE Witness
  <2>1. LogTypeOK' /\ PeerTypeOK' /\ BoardOK' /\ UNCHANGED executed
    BY <1>4, LogStays, BoardStays DEF Witness
  <2>2. audit_ref \in Ids
    BY <1>4, LogAssumption DEF Witness, LogTypeOK, Ids
  <2>3. LinkTypeOK' BY <1>4, <2>2, RecordTypes DEF Witness
  <2>4. UNCHANGED audit_log BY <1>4 DEF Witness, logVars
  <2> QED BY <1>4, <2>1, <2>3, <2>4 DEF Witness, peerWires, frameVars, Resume
<1>5. CASE SendCommand
  <2>1. LogTypeOK' /\ LinkTypeOK' /\ PeerTypeOK' /\ BoardOK' /\ UNCHANGED executed
    BY <1>5, LogStays, LinkStays, BoardStays DEF SendCommand
  <2>2. audit_ref \in Ids /\ audit_log[audit_ref] \in Row
    BY <1>5, LogAssumption DEF SendCommand, LogTypeOK, Ids
  <2>3. CommandRequest(audit_ref, audit_log[audit_ref].confidence) \in Requests
    BY <2>2 DEF CommandRequest, Requests, Row
  <2>4. to_peer' \in Seq(Requests) /\ written' \in Seq(Ids)
    BY <1>5, <2>2, <2>3, Appended DEF SendCommand
  <2> QED BY <1>5, <2>1, <2>4 DEF SendCommand
<1>6. CASE SendFails
  <2>1. LogTypeOK' /\ LinkTypeOK' /\ PeerTypeOK' /\ BoardOK' /\ UNCHANGED executed
    BY <1>6, FlagIsKept, LinkStays, BoardStays DEF SendFails
  <2> QED BY <1>6, <2>1 DEF SendFails, peerWires, Resume
<1>7. CASE ReadResponse
  <2>1. LinkTypeOK' /\ PeerTypeOK' /\ BoardOK' /\ UNCHANGED executed
    BY <1>7, LinkStays, BoardStays DEF ReadResponse
  <2>2. LogTypeOK' /\ (pc' = pc \/ Resume(pending))
    <3>1. {"ACK", "REJECT"} \subseteq Acks BY DEF Acks
    <3>2. CASE Answers(Head(from_peer))
      BY <1>7, <3>1, <3>2, AckIsKept DEF ReadResponse
    <3>3. CASE ~Answers(Head(from_peer))
      BY <1>7, <3>3, LogStays DEF ReadResponse
    <3> QED BY <3>2, <3>3
  <2>3. from_peer' \in Seq(Responses) BY <1>7, Served DEF ReadResponse
  <2> QED BY <1>7, <2>1, <2>2, <2>3 DEF ReadResponse, frameVars, Resume
<1>8. CASE ResponseRaises
  <2>1. LogTypeOK' /\ LinkTypeOK' /\ PeerTypeOK' /\ BoardOK' /\ UNCHANGED executed
    BY <1>8, LogStays, LinkStays, BoardStays DEF ResponseRaises
  <2>2. from_peer' \in Seq(Responses)
    BY <1>8, CutOut DEF ResponseRaises
  <2>3. <<>> \in Seq(Confidences) OBVIOUS
  <2> QED BY <1>8, <2>1, <2>2, <2>3 DEF ResponseRaises
<1>9. CASE ResponseTimeout
  <2>1. LogTypeOK' /\ LinkTypeOK' /\ PeerTypeOK' /\ BoardOK' /\ UNCHANGED executed
    BY <1>9, LogStays, LinkStays, BoardStays DEF ResponseTimeout
  <2> QED BY <1>9, <2>1 DEF ResponseTimeout, peerWires, frameVars, Resume
<1> QED
  BY <1>1, <1>2, <1>3, <1>4, <1>5, <1>6, <1>7, <1>8, <1>9 DEF ServiceStep

LEMMA TypeInvStep ==
  ASSUME TypeInv, [FilterNext]_filterVars
  PROVE  TypeInv'
<1> USE DEF TypeInv, FilterTypeOK, WireTypeOK, PlaceOK
<1>1. CASE ServiceStep BY <1>1, ServiceTypes
<1>2. CASE Restart
  <2>1. LinkTypeOK' BY <1>2, OpenTypes DEF Restart
  <2>2. PeerTypeOK' /\ BoardOK' BY <1>2 DEF Restart, PeerTypeOK, BoardOK
  <2>3. <<>> \in Seq(Confidences) /\ <<>> \in Seq(Ids) /\ <<>> \in Seq(Responses) OBVIOUS
  <2>4. LogTypeOK' /\ written' \in Seq(Ids) /\ executed' \in Seq(Ids)
    <3>1. CASE DbPersists BY <1>2, <3>1, LogStays DEF Restart
    <3>2. CASE ~DbPersists
      BY <1>2, <3>2, <2>3, LogAssumption DEF Restart, NewLog, EmptyLog, LogTypeOK
    <3> QED BY <3>1, <3>2
  <2>7. interrupted' \subseteq Ids
    <3>1. CommandInHand \subseteq Ids
      BY LogAssumption DEF CommandInHand, LogTypeOK, Ids
    <3> QED BY <1>2, <3>1 DEF Restart
  <2>5. restarts' \in 0 .. MaxRestarts /\ 0 \in 0 .. MaxRows
    BY <1>2, FilterAssumption, LogAssumption DEF Restart
  <2>6. to_peer' \in Seq(Requests) /\ from_peer' \in Seq(Responses)
    BY <1>2, <2>3 DEF Restart
  <2> QED BY <1>2, <2>1, <2>2, <2>3, <2>4, <2>5, <2>6, <2>7 DEF Restart
<1>3. CASE PeerStep
  <2>1. LogTypeOK' /\ LinkTypeOK' BY <1>3, LogStays, LinkStays DEF PeerStep
  <2>2. PeerTypeOK' /\ BoardOK' BY <1>3, BoardTypes DEF PeerStep
  <2>3. to_peer' \in Seq(Requests) /\ from_peer' \in Seq(Responses) /\ executed' \in Seq(Ids)
    BY <1>3, BoardStep, ServedWires DEF PeerStep
  <2> QED BY <1>3, <2>1, <2>2, <2>3 DEF PeerStep, serviceVars, frameVars, logVars
<1>4. CASE NodeSays \/ FilterTick
  <2>1. LinkTypeOK' BY <1>4, LinkStays, TickTypes DEF NodeSays, FilterTick
  <2>2. LogTypeOK' /\ PeerTypeOK' /\ BoardOK' /\ UNCHANGED executed
    BY <1>4, LogStays, BoardStays DEF NodeSays, FilterTick
  <2> QED
    BY <1>4, <2>1, <2>2
    DEF NodeSays, FilterTick, peerWires, serviceVars, frameVars, logVars
<1>5. CASE UNCHANGED filterVars
  <2>1. LogTypeOK' /\ LinkTypeOK' /\ PeerTypeOK' /\ BoardOK' /\ UNCHANGED executed
    BY <1>5, LogStays, LinkStays, BoardStays DEF filterVars
  <2> QED BY <1>5, <2>1 DEF filterVars, peerWires, serviceVars, frameVars, logVars
<1> QED BY <1>1, <1>2, <1>3, <1>4, <1>5 DEF FilterNext

(* The type invariant holds, for any bounds and any frames.                  *)
THEOREM TypesHold == FilterSpec => []FilterTypeOK
<1>1. FilterSpec => []TypeInv
  BY TypeInvInit, TypeInvStep, PTL DEF FilterSpec
<1>2. TypeInv => FilterTypeOK BY DEF TypeInv
<1> QED BY <1>1, <1>2, PTL

-----------------------------------------------------------------------------
(* The service, at the far end of the wires, only appends a command or takes *)
(* answers away.                                                             *)
FarEndMoves ==
  /\ to_peer' = to_peer \/ \E command \in Requests : to_peer' = Append(to_peer, command)
  /\ Elements(from_peer') \subseteq Elements(from_peer)
  /\ Len(from_peer') <= Len(from_peer)
  /\ UNCHANGED <<executed, peer_state>>

LEMMA OthersAreFarEnd ==
  ASSUME TypeInv, DbPersists, [FilterNext]_filterVars
  PROVE  FarEndMoves \/ PeerStep
<1>0. Len(from_peer) \in Nat BY DEF TypeInv, WireTypeOK
<1>1. CASE SendCommand
  <2>1. audit_ref \in Ids /\ audit_log[audit_ref] \in Row
    BY <1>1, LogAssumption
    DEF TypeInv, PlaceOK, SendCommand, FilterTypeOK, LogTypeOK, Ids
  <2>2. CommandRequest(audit_ref, audit_log[audit_ref].confidence) \in Requests
    BY <2>1 DEF CommandRequest, Requests, Row
  <2> QED BY <1>0, <1>1, <2>2 DEF SendCommand, FarEndMoves, boardVars, peerVars
<1>2. CASE ReadResponse
  <2>1. from_peer # <<>> /\ from_peer' = Tail(from_peer) BY <1>2 DEF ReadResponse
  <2>2. Elements(from_peer') \subseteq Elements(from_peer)
        /\ Len(from_peer') <= Len(from_peer)
    BY <2>1, Served, ServedElements DEF TypeInv, WireTypeOK
  <2> QED BY <1>2, <2>2 DEF ReadResponse, FarEndMoves, boardVars, peerVars
<1>3. CASE ResponseRaises
  <2>1. PICK k \in 1 .. Len(from_peer) :
          from_peer' = SubSeq(from_peer, 1, k - 1) \o SubSeq(from_peer, k + 1, Len(from_peer))
    BY <1>3 DEF ResponseRaises
  <2>2. Elements(from_peer') \subseteq Elements(from_peer)
        /\ Len(from_peer') = Len(from_peer) - 1
    BY <2>1, CutOut DEF TypeInv, WireTypeOK
  <2>3. Len(from_peer') <= Len(from_peer) BY <1>0, <2>2
  <2> QED BY <1>3, <2>2, <2>3 DEF ResponseRaises, FarEndMoves, boardVars, peerVars
<1>4. CASE Restart
  <2>1. Len(<<>>) = 0 /\ Elements(<<>>) = {} BY DEF Elements
  <2> QED BY <1>0, <1>4, <2>1 DEF Restart, FarEndMoves
<1>5. CASE BeginFrame \/ LogDetection \/ LogFails \/ Witness \/ SendFails
           \/ ResponseTimeout \/ NodeSays \/ FilterTick \/ UNCHANGED filterVars
  BY <1>0, <1>5
  DEF BeginFrame, LogDetection, LogFails, Witness, SendFails, ResponseTimeout, NodeSays,
      FilterTick, filterVars, FarEndMoves, boardVars, peerVars, peerWires
<1> QED BY <1>1, <1>2, <1>3, <1>4, <1>5 DEF FilterNext, ServiceStep

LEMMA ContractStep ==
  ASSUME TypeInv, DbPersists, [FilterNext]_filterVars
  PROVE  [Board!ContractNext]_(Board!contract)
<1>1. CASE PeerStep
  BY <1>1, BoardStep DEF PeerStep, BoardMoves, Board!ContractNext, Board!contract
<1>2. CASE FarEndMoves
  <2>1. \/ UNCHANGED to_peer
        \/ to_peer' # <<>> /\ to_peer' = Append(to_peer, to_peer'[Len(to_peer')])
    <3>1. CASE \E command \in Requests : to_peer' = Append(to_peer, command)
      <4>1. PICK command \in Requests : to_peer' = Append(to_peer, command) BY <3>1
      <4>2. to_peer' # <<>> /\ to_peer'[Len(to_peer')] = command
        BY <4>1, Appended DEF TypeInv, WireTypeOK
      <4> QED BY <4>1, <4>2
    <3> QED BY <1>2, <3>1 DEF FarEndMoves
  <2>2. Board!Elements(from_peer') \subseteq Board!Elements(from_peer)
    BY <1>2 DEF FarEndMoves, Elements, Board!Elements
  <2> QED BY <1>2, <2>1, <2>2 DEF FarEndMoves, Board!FarEnd, Board!ContractNext
<1> QED BY <1>1, <1>2, OthersAreFarEnd

(* As long as the log outlives the service, either board keeps its contract  *)
(* while the service sends, reads, gives up and restarts.                    *)
THEOREM BoardRefines ==
  ASSUME DbPersists
  PROVE  FilterSpec => BoardKeepsContract
<1>1. FilterInit => Board!ContractInit
  BY DEF FilterInit, BoardInit, PeerInit, Board!ContractInit
<1>2. TypeInv /\ [FilterNext]_filterVars => [Board!ContractNext]_(Board!contract)
  BY ContractStep
<1>3. FilterSpec => []TypeInv
  BY TypeInvInit, TypeInvStep, PTL DEF FilterSpec
<1> QED BY <1>1, <1>2, <1>3, PTL DEF FilterSpec, BoardKeepsContract, Board!ContractSpec

-----------------------------------------------------------------------------
(* What the service knows of its own rows: the reference it is about to      *)
(* write is newer than every one it wrote.                                   *)
WrittenIsLogged ==
  \A ref \in Elements(written) : ref \in DOMAIN audit_log /\ audit_log[ref].command_sent

InHand ==
  /\ pc \in {"witness", "send"} =>
       /\ \A ref \in Elements(written) : ref < audit_ref
       /\ audit_log[audit_ref].command_sent = should_send
  /\ pc = "send" => should_send

ServiceInv == WrittenIsLogged /\ InHand /\ SentIsAccountedFor

rowVars == <<audit_log, written, pc, audit_ref, should_send, interrupted>>

LEMMA ServiceInvInit ==
  ASSUME FilterInit
  PROVE  ServiceInv
<1>1. Elements(<<>>) = {} BY DEF Elements
<1> QED
  BY <1>1 DEF FilterInit, LogInit, EmptyLog, ServiceInv, WrittenIsLogged, InHand,
              SentIsAccountedFor

LEMMA ServiceInvStep ==
  ASSUME TypeInv, ServiceInv, [FilterNext]_filterVars
  PROVE  ServiceInv'
<1> USE DEF ServiceInv
<1>0. LogTypeOK /\ pending \in Seq(Confidences) /\ written \in Seq(Ids)
  BY DEF TypeInv, FilterTypeOK, WireTypeOK
<1>1. CASE BeginFrame \/ LogFails \/ ResponseRaises \/ ResponseTimeout
  <2>1. UNCHANGED <<audit_log, written, audit_ref, interrupted>>
    BY <1>1 DEF BeginFrame, LogFails, ResponseRaises, ResponseTimeout, logVars, frameVars
  <2>2. pc \notin {"witness", "send"} /\ pc' \notin {"witness", "send"}
    BY <1>1 DEF BeginFrame, LogFails, ResponseRaises, ResponseTimeout, Resume
  <2> QED
    BY <2>1, <2>2 DEF WrittenIsLogged, InHand, CommandInHand, SentIsAccountedFor, Elements
<1>2. CASE LogDetection
  <2>1. Head(pending) \in Confidences /\ ShouldSend \in BOOLEAN
    BY <1>0, <1>2, Served DEF TypeInv, PlaceOK, LogDetection, ShouldSend
  <2>2. /\ DOMAIN audit_log' = DOMAIN audit_log \cup {next_id}
        /\ audit_log'[next_id] = [confidence |-> Head(pending), command_sent |-> ShouldSend,
                                  stm32_ack |-> "NULL", flag |-> FALSE]
        /\ \A id \in DOMAIN audit_log : id < next_id /\ audit_log'[id] = audit_log[id]
    BY <1>0, <1>2, <2>1, EventIsLogged DEF LogDetection
  <2>3. UNCHANGED <<written, interrupted>> /\ pc = "log" /\ pc' = "witness"
        /\ audit_ref' = next_id /\ should_send' = ShouldSend
    BY <1>2 DEF LogDetection
  <2>4. WrittenIsLogged' BY <2>2, <2>3 DEF WrittenIsLogged, Elements
  <2>5. InHand'
    <3>1. audit_log'[next_id].command_sent = ShouldSend BY <2>2
    <3>2. \A ref \in Elements(written) : ref < next_id BY <2>2 DEF WrittenIsLogged
    <3> QED BY <3>1, <3>2, <2>3 DEF InHand, Elements
  <2>6. SentIsAccountedFor'
    BY <2>2, <2>3 DEF CommandInHand, SentIsAccountedFor, Elements
  <2> QED BY <2>4, <2>5, <2>6
<1>3. CASE Witness
  <2>1. UNCHANGED <<audit_log, written, audit_ref, should_send, interrupted>>
        /\ pc = "witness" /\ audit_ref \in DOMAIN audit_log
    BY <1>3 DEF Witness, logVars, frameVars, TypeInv, PlaceOK
  <2>2. CASE should_send
    BY <1>3, <2>1, <2>2
    DEF Witness, WrittenIsLogged, InHand, CommandInHand, SentIsAccountedFor, Elements
  <2>3. CASE ~should_send
    <3>1. pc' \in {"idle", "log"} BY <1>3, <2>3 DEF Witness, Resume
    <3>2. ~audit_log[audit_ref].command_sent BY <2>1, <2>3 DEF InHand
    <3> QED BY <2>1, <3>1, <3>2 DEF WrittenIsLogged, InHand, CommandInHand, SentIsAccountedFor, Elements
  <2> QED BY <2>2, <2>3
<1>4. CASE SendCommand
  <2>1. UNCHANGED <<audit_log, audit_ref, interrupted>> /\ pc = "send" /\ pc' = "await"
        /\ audit_ref \in DOMAIN audit_log /\ audit_log[audit_ref].command_sent
    BY <1>4 DEF SendCommand, logVars, TypeInv, PlaceOK, InHand
  <2>2. Elements(written') = Elements(written) \cup {audit_ref}
    <3>1. audit_ref \in Ids BY <1>0, <2>1, LogAssumption DEF LogTypeOK, Ids
    <3> QED BY <1>0, <1>4, <3>1, AppendedElements DEF SendCommand
  <2> QED BY <2>1, <2>2 DEF WrittenIsLogged, InHand, CommandInHand, SentIsAccountedFor
<1>5. CASE SendFails
  <2>1. /\ DOMAIN audit_log' = DOMAIN audit_log
        /\ \A id \in DOMAIN audit_log :
             /\ audit_log'[id].command_sent = audit_log[id].command_sent
             /\ id = audit_ref => audit_log'[id].flag
             /\ id # audit_ref => audit_log'[id].flag = audit_log[id].flag
    BY <1>0, <1>5, FlagIsKept DEF SendFails
  <2>2. UNCHANGED <<written, audit_ref, interrupted>> /\ pc' \notin {"witness", "send"}
    BY <1>5 DEF SendFails, Resume
  <2> QED
    BY <2>1, <2>2 DEF WrittenIsLogged, InHand, CommandInHand, SentIsAccountedFor, Elements
<1>6. CASE ReadResponse
  <2>1. UNCHANGED <<written, audit_ref, interrupted>> /\ pc = "await"
        /\ pc' \notin {"witness", "send"}
    BY <1>6 DEF ReadResponse, Resume, frameVars
  <2>2. /\ DOMAIN audit_log' = DOMAIN audit_log
        /\ \A id \in DOMAIN audit_log :
             /\ audit_log'[id].command_sent = audit_log[id].command_sent
             /\ audit_log'[id].flag = audit_log[id].flag
    <3>1. CASE Answers(Head(from_peer))
      <4>1. {"ACK", "REJECT"} \subseteq Acks BY DEF Acks
      <4> QED BY <1>0, <1>6, <3>1, <4>1, AckIsKept DEF ReadResponse
    <3>2. CASE ~Answers(Head(from_peer)) BY <1>6, <3>2 DEF ReadResponse, logVars
    <3> QED BY <3>1, <3>2
  <2> QED
    BY <2>1, <2>2 DEF WrittenIsLogged, InHand, CommandInHand, SentIsAccountedFor, Elements
<1>7. CASE Restart
  <2>1. InHand' BY <1>7 DEF Restart, InHand
  <2>2. CASE DbPersists
    <3>1. UNCHANGED <<audit_log, written>> /\ interrupted' = interrupted \cup CommandInHand
      BY <1>7, <2>2 DEF Restart, logVars
    <3>2. WrittenIsLogged' BY <3>1 DEF WrittenIsLogged, Elements
    <3>3. SentIsAccountedFor' BY <3>1 DEF SentIsAccountedFor, Elements
    <3> QED BY <2>1, <3>2, <3>3
  <2>3. CASE ~DbPersists
    <3>1. DOMAIN audit_log' = {} /\ Elements(written') = {}
      BY <1>7, <2>3 DEF Restart, NewLog, EmptyLog, Elements
    <3> QED BY <2>1, <3>1 DEF WrittenIsLogged, SentIsAccountedFor
  <2> QED BY <2>2, <2>3
<1>8. CASE PeerStep \/ NodeSays \/ FilterTick \/ UNCHANGED filterVars
  <2>1. UNCHANGED rowVars
    BY <1>8
    DEF PeerStep, NodeSays, FilterTick, filterVars, serviceVars, frameVars, logVars, rowVars
  <2> QED
    BY <2>1 DEF rowVars, WrittenIsLogged, InHand, CommandInHand, SentIsAccountedFor, Elements
<1> QED
  BY <1>1, <1>2, <1>3, <1>4, <1>5, <1>6, <1>7, <1>8 DEF FilterNext, ServiceStep

(* A row that says its command was sent tells the truth, is flagged, is in  *)
(* hand, or was in hand when a restart came: each restart excuses that one   *)
(* row, and no fault of the log, the line or the controller, before or after *)
(* it, leaves another.                                                       *)
THEOREM SentAccounted == FilterSpec => []SentIsAccountedFor
<1>1. FilterInit => TypeInv /\ ServiceInv BY TypeInvInit, ServiceInvInit
<1>2. TypeInv /\ ServiceInv /\ [FilterNext]_filterVars => TypeInv' /\ ServiceInv'
  BY TypeInvStep, ServiceInvStep
<1>3. ServiceInv => SentIsAccountedFor BY DEF ServiceInv
<1> QED BY <1>1, <1>2, <1>3, PTL DEF FilterSpec

-----------------------------------------------------------------------------
(* What is on the wire: commands wait in the order of their references, all  *)
(* newer than any that was executed or refused.                              *)
Refused(ref) ==
  /\ ref \in Elements(written) \ Elements(executed)
  /\ \A waiting \in Elements(to_peer) : ref < waiting.audit_ref

InOrder ==
  /\ Elements(executed) \subseteq Elements(written)
  /\ \A m, n \in 1 .. Len(executed) : m < n => executed[m] < executed[n]
  /\ \A waiting \in Elements(to_peer) : waiting.audit_ref \in Elements(written)
  /\ \A m, n \in 1 .. Len(to_peer) : m < n => to_peer[m].audit_ref < to_peer[n].audit_ref
  /\ \A ref \in Elements(executed), waiting \in Elements(to_peer) :
       ref < waiting.audit_ref

AnswerIsTrue(answer) ==
  /\ answer.type = "COMMAND_ACK" => answer.audit_ref \in Elements(executed)
  /\ answer.type = "COMMAND_REJECT" => Refused(answer.audit_ref)

RowIsTrue(id) ==
  /\ audit_log[id].stm32_ack = "ACK" => id \in Elements(executed)
  /\ audit_log[id].stm32_ack = "REJECT" => Refused(id)

WireInv ==
  /\ InOrder
  /\ \A answer \in Elements(from_peer) : AnswerIsTrue(answer)
  /\ \A id \in DOMAIN audit_log : RowIsTrue(id)

LEMMA WireInvInit ==
  ASSUME FilterInit
  PROVE  WireInv
<1>1. Elements(<<>>) = {} /\ Len(<<>>) = 0 BY DEF Elements
<1> QED
  BY <1>1
  DEF FilterInit, BoardInit, PeerInit, LogInit, EmptyLog, WireInv, InOrder

(* The head of the queue is older than all that wait behind it.              *)
LEMMA HeadIsOldest ==
  ASSUME TypeInv, InOrder, to_peer # <<>>
  PROVE  /\ Head(to_peer).audit_ref \in Elements(written)
         /\ \A ref \in Elements(executed) : ref < Head(to_peer).audit_ref
         /\ Elements(Tail(to_peer)) \subseteq Elements(to_peer)
         /\ \A waiting \in Elements(Tail(to_peer)) :
              Head(to_peer).audit_ref < waiting.audit_ref
         /\ \A m, n \in 1 .. Len(Tail(to_peer)) :
              m < n => Tail(to_peer)[m].audit_ref < Tail(to_peer)[n].audit_ref
<1>1. to_peer \in Seq(Requests) BY DEF TypeInv, WireTypeOK
<1>2. Head(to_peer) \in Elements(to_peer) /\ Elements(Tail(to_peer)) \subseteq Elements(to_peer)
  BY <1>1, ServedElements
<1>3. /\ Len(to_peer) \in Nat /\ Len(to_peer) > 0 /\ Head(to_peer) = to_peer[1]
      /\ Len(Tail(to_peer)) = Len(to_peer) - 1
      /\ \A n \in 1 .. Len(Tail(to_peer)) : Tail(to_peer)[n] = to_peer[n + 1]
  BY <1>1, Served
<1>4. ASSUME NEW waiting \in Elements(Tail(to_peer))
      PROVE  Head(to_peer).audit_ref < waiting.audit_ref
  <2>1. PICK n \in 1 .. Len(Tail(to_peer)) : waiting = Tail(to_peer)[n] BY DEF Elements
  <2>2. waiting = to_peer[n + 1] /\ 1 \in 1 .. Len(to_peer) /\ n + 1 \in 1 .. Len(to_peer)
        /\ 1 < n + 1
    BY <2>1, <1>3
  <2> QED BY <2>2, <1>3 DEF InOrder
<1>5. ASSUME NEW m \in 1 .. Len(Tail(to_peer)), NEW n \in 1 .. Len(Tail(to_peer)), m < n
      PROVE  Tail(to_peer)[m].audit_ref < Tail(to_peer)[n].audit_ref
  <2>1. m + 1 \in 1 .. Len(to_peer) /\ n + 1 \in 1 .. Len(to_peer) /\ m + 1 < n + 1
    BY <1>3, <1>5
  <2> QED BY <2>1, <1>3 DEF InOrder
<1> QED BY <1>2, <1>4, <1>5 DEF InOrder

LEMMA BoardKeepsWires ==
  ASSUME TypeInv, WireInv, BoardMoves, UNCHANGED <<audit_log, written>>
  PROVE  WireInv'
<1>0. /\ to_peer \in Seq(Requests) /\ from_peer \in Seq(Responses)
      /\ executed \in Seq(Ids) /\ \A ref \in Ids : ref \in Nat
  BY DEF TypeInv, WireTypeOK, Ids
<1>1. CASE Board!ExecuteCommand
  <2>0. PICK ref : ref = Head(to_peer).audit_ref OBVIOUS
  <2>1. to_peer # <<>> /\ to_peer' = Tail(to_peer) /\ executed' = Append(executed, ref)
    BY <2>0, <1>1 DEF Board!ExecuteCommand, Board!Serve
  <2>2. PICK status \in AckStatus : from_peer' = Append(from_peer, CommandAck(ref, status))
    BY <2>0, <1>1, ContractMessages DEF Board!ExecuteCommand, Board!AckStatus, AckStatus
  <2>3. ref \in Ids
    <3>1. Head(to_peer) \in Requests BY <1>0, <2>1, Served
    <3> QED BY <2>0, <3>1 DEF Requests
  <2>4. Elements(executed') = Elements(executed) \cup {ref}
    BY <1>0, <2>1, <2>3, AppendedElements
  <2>5. Elements(from_peer') = Elements(from_peer) \cup {CommandAck(ref, status)}
    <3>1. CommandAck(ref, status) \in Responses
      BY <1>0, <2>3 DEF CommandAck, Responses
    <3> QED BY <1>0, <2>2, <3>1, AppendedElements
  <2>6. \A m, n \in 1 .. Len(executed') : m < n => executed'[m] < executed'[n]
    <3> SUFFICES ASSUME NEW m \in 1 .. Len(executed'), NEW n \in 1 .. Len(executed'), m < n
                 PROVE  executed'[m] < executed'[n]
      OBVIOUS
    <3>1. Len(executed') = Len(executed) + 1 /\ Len(executed) \in Nat
          /\ executed'[Len(executed) + 1] = ref
          /\ \A k \in 1 .. Len(executed) : executed'[k] = executed[k]
      BY <1>0, <2>1, <2>3, Appended
    <3>2. m \in 1 .. Len(executed) BY <3>1
    <3>3. CASE n \in 1 .. Len(executed) BY <3>1, <3>2, <3>3 DEF WireInv, InOrder
    <3>4. CASE n = Len(executed) + 1
      <4>1. executed[m] \in Elements(executed) BY <3>2 DEF Elements
      <4>2. executed[m] < ref BY <2>0, <2>1, <4>1, HeadIsOldest DEF WireInv
      <4> QED BY <3>1, <3>2, <3>4, <4>2
    <3> QED BY <3>1, <3>3, <3>4
  <2>7. InOrder'
    BY <2>0, <2>1, <2>4, <2>6, HeadIsOldest DEF WireInv, InOrder
  <2>8. ASSUME NEW old, Refused(old) PROVE Refused(old)'
    <3>1. Head(to_peer) \in Elements(to_peer) BY <1>0, <2>1, ServedElements
    <3>2. old < ref BY <2>0, <2>8, <3>1 DEF Refused
    <3>3. old # ref BY <3>2, <2>3, <1>0
    <3> QED BY <2>0, <2>1, <2>4, <2>8, <3>3, HeadIsOldest DEF WireInv, Refused
  <2>9. \A answer \in Elements(from_peer') : AnswerIsTrue(answer)'
    BY <2>4, <2>5, <2>8 DEF WireInv, AnswerIsTrue, CommandAck
  <2>10. \A id \in DOMAIN audit_log' : RowIsTrue(id)'
    BY <2>4, <2>8 DEF WireInv, RowIsTrue
  <2> QED BY <2>7, <2>9, <2>10 DEF WireInv
<1>2. CASE Board!RejectCommand
  <2>0. PICK ref : ref = Head(to_peer).audit_ref OBVIOUS
  <2>1. to_peer # <<>> /\ to_peer' = Tail(to_peer) /\ executed' = executed
    BY <2>0, <1>2 DEF Board!RejectCommand, Board!Serve
  <2>2. PICK reason \in RejectReason :
          from_peer' = Append(from_peer, CommandReject(ref, reason))
    BY <2>0, <1>2, ContractMessages
       DEF Board!RejectCommand, Board!RejectReason, RejectReason
  <2>3. ref \in Ids
    <3>1. Head(to_peer) \in Requests BY <1>0, <2>1, Served
    <3> QED BY <2>0, <3>1 DEF Requests
  <2>4. Elements(from_peer') = Elements(from_peer) \cup {CommandReject(ref, reason)}
    <3>1. CommandReject(ref, reason) \in Responses
      BY <1>0, <2>3 DEF CommandReject, Responses
    <3> QED BY <1>0, <2>2, <3>1, AppendedElements
  <2>5. InOrder' BY <2>0, <2>1, HeadIsOldest DEF WireInv, InOrder
  <2>6. ASSUME NEW old, Refused(old) PROVE Refused(old)'
    BY <2>0, <2>1, <2>6, HeadIsOldest DEF WireInv, Refused
  <2>7. Refused(ref)'
    <3>1. ref \notin Elements(executed)
      <4>1. ~(ref < ref) BY <2>3, <1>0
      <4> QED BY <2>0, <2>1, <4>1, HeadIsOldest DEF WireInv
    <3> QED BY <2>0, <2>1, <3>1, HeadIsOldest DEF WireInv, Refused
  <2>8. \A answer \in Elements(from_peer') : AnswerIsTrue(answer)'
    BY <2>1, <2>4, <2>6, <2>7 DEF WireInv, AnswerIsTrue, CommandReject
  <2>9. \A id \in DOMAIN audit_log' : RowIsTrue(id)'
    BY <2>1, <2>6 DEF WireInv, RowIsTrue
  <2> QED BY <2>5, <2>8, <2>9 DEF WireInv
<1>3. CASE UNCHANGED <<to_peer, executed>>
           /\ \/ UNCHANGED from_peer
              \/ \E trigger : from_peer' = Append(from_peer, HaltNotify(trigger))
                              /\ HaltNotify(trigger) \in Responses
  <2>1. \A answer \in Elements(from_peer') :
          answer \in Elements(from_peer) \/ answer.type = "HALT_NOTIFY"
    <3>1. CASE UNCHANGED from_peer BY <3>1
    <3>2. ASSUME NEW trigger, from_peer' = Append(from_peer, HaltNotify(trigger)),
                 HaltNotify(trigger) \in Responses
          PROVE  \A answer \in Elements(from_peer') :
                   answer \in Elements(from_peer) \/ answer.type = "HALT_NOTIFY"
      BY <1>0, <3>2, AppendedElements DEF HaltNotify
    <3> QED BY <1>3, <3>1, <3>2
  <2>2. InOrder' BY <1>3 DEF WireInv, InOrder
  <2>3. \A ref : Refused(ref) <=> Refused(ref)' BY <1>3 DEF Refused
  <2> QED
    BY <1>3, <2>1, <2>2, <2>3 DEF WireInv, AnswerIsTrue, RowIsTrue
<1>4. CASE Board!HaltForGood
  <2>1. HaltTrigger = Board!HaltTrigger BY DEF HaltTrigger, Board!HaltTrigger
  <2>2. \A trigger \in HaltTrigger \cup {"NO_MEMBER"} : HaltNotify(trigger) \in Responses
    BY DEF HaltNotify, Responses
  <2> QED BY <1>3, <1>4, <2>1, <2>2, ContractMessages DEF Board!HaltForGood
<1> QED BY <1>1, <1>2, <1>3, <1>4 DEF BoardMoves

(* A step of the service that leaves the commands alone keeps it, as long as *)
(* no answer is made up and every row still tells the truth.                 *)
LEMMA AnswersGoOn ==
  ASSUME WireInv, UNCHANGED <<to_peer, executed, written>>,
         Elements(from_peer') \subseteq Elements(from_peer),
         \A id \in DOMAIN audit_log' :
           \/ audit_log'[id].stm32_ack = "NULL"
           \/ id \in DOMAIN audit_log /\ audit_log'[id].stm32_ack = audit_log[id].stm32_ack
           \/ \E answer \in Elements(from_peer) :
                /\ answer.audit_ref = id
                /\ audit_log'[id].stm32_ack = "ACK" => answer.type = "COMMAND_ACK"
                /\ audit_log'[id].stm32_ack = "REJECT" => answer.type = "COMMAND_REJECT"
  PROVE  WireInv'
<1>1. InOrder' BY DEF WireInv, InOrder
<1>2. \A ref : Refused(ref) => Refused(ref)' BY DEF Refused
<1>3. \A answer \in Elements(from_peer') : AnswerIsTrue(answer)'
  BY <1>2 DEF WireInv, AnswerIsTrue
<1>4. ASSUME NEW id \in DOMAIN audit_log' PROVE RowIsTrue(id)'
  BY <1>2, <1>4 DEF WireInv, AnswerIsTrue, RowIsTrue
<1> QED BY <1>1, <1>3, <1>4 DEF WireInv

LEMMA WireInvStep ==
  ASSUME TypeInv, ServiceInv, WireInv, DbPersists, [FilterNext]_filterVars
  PROVE  WireInv'
<1>0. LogTypeOK /\ from_peer \in Seq(Responses)
  BY DEF TypeInv, FilterTypeOK, WireTypeOK
<1>1. CASE PeerStep
  BY <1>1, BoardStep, BoardKeepsWires DEF PeerStep, logVars, serviceVars
<1>2. CASE SendCommand
  <2>1. UNCHANGED <<audit_log, from_peer, executed>> /\ pc = "send"
        /\ audit_ref \in DOMAIN audit_log /\ \A ref \in Elements(written) : ref < audit_ref
    BY <1>2
    DEF SendCommand, logVars, boardVars, peerVars, TypeInv, PlaceOK, ServiceInv, InHand
  <2>2. audit_ref \in Ids /\ audit_log[audit_ref] \in Row
    BY <1>0, <2>1, LogAssumption DEF LogTypeOK, Ids
  <2>3. PICK command \in Requests :
          to_peer' = Append(to_peer, command) /\ command.audit_ref = audit_ref
    <3>1. CommandRequest(audit_ref, audit_log[audit_ref].confidence) \in Requests
      BY <2>2 DEF CommandRequest, Requests, Row
    <3> QED BY <1>2, <3>1 DEF SendCommand, CommandRequest
  <2>4. to_peer \in Seq(Requests) /\ written \in Seq(Ids) BY DEF TypeInv, WireTypeOK
  <2>5. Elements(written') = Elements(written) \cup {audit_ref}
        /\ Elements(to_peer') = Elements(to_peer) \cup {command}
    BY <1>2, <2>2, <2>3, <2>4, AppendedElements DEF SendCommand
  <2>6. \A m, n \in 1 .. Len(to_peer') :
          m < n => to_peer'[m].audit_ref < to_peer'[n].audit_ref
    <3> SUFFICES ASSUME NEW m \in 1 .. Len(to_peer'), NEW n \in 1 .. Len(to_peer'), m < n
                 PROVE  to_peer'[m].audit_ref < to_peer'[n].audit_ref
      OBVIOUS
    <3>1. Len(to_peer') = Len(to_peer) + 1 /\ Len(to_peer) \in Nat
          /\ to_peer'[Len(to_peer) + 1] = command
          /\ \A k \in 1 .. Len(to_peer) : to_peer'[k] = to_peer[k]
      BY <2>3, <2>4, Appended
    <3>2. m \in 1 .. Len(to_peer) BY <3>1
    <3>3. CASE n \in 1 .. Len(to_peer) BY <3>1, <3>2, <3>3 DEF WireInv, InOrder
    <3>4. CASE n = Len(to_peer) + 1
      <4>1. to_peer[m] \in Elements(to_peer) BY <3>2 DEF Elements
      <4>2. to_peer[m].audit_ref < audit_ref BY <2>1, <4>1 DEF WireInv, InOrder
      <4> QED BY <2>3, <3>1, <3>2, <3>4, <4>2
    <3> QED BY <3>1, <3>3, <3>4
  <2>7. InOrder' BY <2>1, <2>3, <2>5, <2>6 DEF WireInv, InOrder
  <2>8. \A ref : Refused(ref) => Refused(ref)' BY <2>1, <2>3, <2>5 DEF Refused
  <2> QED BY <2>1, <2>7, <2>8 DEF WireInv, AnswerIsTrue, RowIsTrue
<1>3. CASE LogDetection
  <2>1. Head(pending) \in Confidences /\ ShouldSend \in BOOLEAN
    BY <1>3, Served DEF TypeInv, FilterTypeOK, PlaceOK, LogDetection, ShouldSend
  <2>2. ASSUME NEW id \in DOMAIN audit_log'
        PROVE  \/ audit_log'[id].stm32_ack = "NULL"
               \/ id \in DOMAIN audit_log /\ audit_log'[id].stm32_ack = audit_log[id].stm32_ack
    <3>1. /\ DOMAIN audit_log' = DOMAIN audit_log \cup {next_id}
          /\ audit_log'[next_id] = [confidence |-> Head(pending), command_sent |-> ShouldSend,
                                    stm32_ack |-> "NULL", flag |-> FALSE]
          /\ \A old \in DOMAIN audit_log : old < next_id /\ audit_log'[old] = audit_log[old]
      BY <1>0, <1>3, <2>1, EventIsLogged DEF LogDetection
    <3> QED BY <2>2, <3>1
  <2> QED
    BY <1>3, <2>2, AnswersGoOn DEF LogDetection, boardVars, peerVars, peerWires
<1>4. CASE SendFails
  <2>1. \A id \in DOMAIN audit_log' :
          id \in DOMAIN audit_log /\ audit_log'[id].stm32_ack = audit_log[id].stm32_ack
    BY <1>0, <1>4, FlagIsKept DEF SendFails
  <2> QED
    BY <1>4, <2>1, AnswersGoOn DEF SendFails, boardVars, peerVars, peerWires
<1>5. CASE ReadResponse
  <2> DEFINE response == Head(from_peer)
  <2>1. response \in Elements(from_peer)
        /\ Elements(from_peer') \subseteq Elements(from_peer)
    BY <1>0, <1>5, ServedElements DEF ReadResponse
  <2>2. CASE Answers(response)
    <3>1. PICK ack \in Acks : /\ UpdateAck(audit_ref, ack)
                              /\ ack = "ACK" => response.type = "COMMAND_ACK"
                              /\ ack = "REJECT" => response.type = "COMMAND_REJECT"
      BY <1>5, <2>2 DEF ReadResponse, Answers, Acks
    <3>2. \A id \in DOMAIN audit_log' :
            /\ id \in DOMAIN audit_log
            /\ \/ audit_log'[id].stm32_ack = audit_log[id].stm32_ack
               \/ id = audit_ref /\ audit_log'[id].stm32_ack = ack
      BY <1>0, <3>1, AckIsKept
    <3>3. response.audit_ref = audit_ref BY <2>2 DEF Answers
    <3> QED
      BY <1>5, <2>1, <3>1, <3>2, <3>3, AnswersGoOn DEF ReadResponse, boardVars, peerVars
  <2>3. CASE ~Answers(response)
    BY <1>5, <2>1, <2>3, AnswersGoOn DEF ReadResponse, logVars, boardVars, peerVars
  <2> QED BY <2>2, <2>3
<1>6. CASE BeginFrame \/ LogFails \/ Witness \/ ResponseRaises \/ ResponseTimeout
           \/ Restart \/ NodeSays \/ FilterTick \/ UNCHANGED filterVars
  <2>1. UNCHANGED <<to_peer, executed, written, audit_log>>
    BY <1>6
    DEF BeginFrame, LogFails, Witness, ResponseRaises, ResponseTimeout, Restart, NodeSays,
        FilterTick, filterVars, boardVars, peerVars, peerWires, logVars, serviceVars
  <2>2. ~PeerStep => Elements(from_peer') \subseteq Elements(from_peer)
    BY OthersAreFarEnd DEF FarEndMoves
  <2> QED BY <1>1, <2>1, <2>2, AnswersGoOn
<1> QED BY <1>1, <1>2, <1>3, <1>4, <1>5, <1>6 DEF FilterNext, ServiceStep

-----------------------------------------------------------------------------
LEMMA FilterInvHolds ==
  ASSUME DbPersists
  PROVE  FilterSpec => [](TypeInv /\ ServiceInv /\ WireInv)
<1>1. FilterInit => TypeInv /\ ServiceInv /\ WireInv
  BY TypeInvInit, ServiceInvInit, WireInvInit
<1>2. TypeInv /\ ServiceInv /\ WireInv /\ [FilterNext]_filterVars
        => TypeInv' /\ ServiceInv' /\ WireInv'
  BY TypeInvStep, ServiceInvStep, WireInvStep
<1> QED BY <1>1, <1>2, PTL DEF FilterSpec

(* Log before act: with a database that outlives the service, whatever is    *)
(* executed is in the log as sent, once and in the order it was logged.      *)
THEOREM LoggedBeforeMotion ==
  ASSUME DbPersists
  PROVE  FilterSpec => []MotionIsLogged
<1>1. ServiceInv /\ WireInv => MotionIsLogged
  BY DEF ServiceInv, WrittenIsLogged, WireInv, InOrder, MotionIsLogged
<1> QED BY <1>1, FilterInvHolds, PTL

(* stm32_ack never says what the controller did not do, whatever is late,    *)
(* lost, skipped or left over from before a restart.                         *)
THEOREM AcksTellTruth ==
  ASSUME DbPersists
  PROVE  FilterSpec => []AckTellsTruth
<1>1. WireInv => AckTellsTruth
  BY DEF WireInv, RowIsTrue, Refused, AckTellsTruth
<1> QED BY <1>1, FilterInvHolds, PTL
=============================================================================

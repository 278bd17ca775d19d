------------------------------- MODULE RigProofs -------------------------------
(***************************************************************************)
(* Theorems about the governance tier and its oversight node together, for *)
(* every number of rows, detections and frames on the wire, every ring and *)
(* clock, and every frame lost on the way to the node.  The tier's types   *)
(* are those of FilterProofs.                                              *)
(***************************************************************************)
EXTENDS RigProperties, FilterProofs, FiniteSetTheorems, WellFoundedInduction

(* What the node sends.                                                      *)
Spoken ==
  {ClearFrame} \cup {AssertFrame(reason) : reason \in Reasons}
  \cup {AckFrame(verdict) : verdict \in {"CHAIN_OK", "GAP", "CHAIN_BREAK"}}

RigTypeInv ==
  /\ TypeInv
  /\ from_node \in Seq(Spoken)
  /\ mode \in Modes
  /\ since_latch \in Nat

(* All that the node's own steps leave alone.                                *)
TierIsIdle == UNCHANGED <<logVars, linkVars, boardVars, peerWires, serviceVars>>

LEMMA TierStays ==
  ASSUME TypeInv, TierIsIdle
  PROVE  TypeInv'
<1>1. LogTypeOK' /\ LinkTypeOK' /\ PeerTypeOK' /\ BoardOK' /\ UNCHANGED executed
  BY LogStays, LinkStays, BoardStays DEF TierIsIdle, TypeInv, FilterTypeOK
<1> QED
  BY <1>1 DEF TierIsIdle, TypeInv, FilterTypeOK, WireTypeOK, PlaceOK, peerWires,
              serviceVars, frameVars, logVars

(* A row rewritten, deleted or flagged behind the logger is still a row.     *)
LEMMA TamperTypes ==
  ASSUME TypeInv, Tamper \/ ReviewerFlags
  PROVE  TypeInv'
<1> USE DEF TypeInv, FilterTypeOK
<1>1. LogTypeOK'
  <2>1. CASE Tamper
    <3>1. PICK id \in 1 .. chain_ref : RewriteRow(id) \/ DeleteRow(id) BY <2>1 DEF Tamper
    <3>2. CASE RewriteRow(id)
      <4>1. audit_log[id] \in Row BY <3>2 DEF RewriteRow, LogTypeOK
      <4>2. [audit_log[id] EXCEPT !.command_sent = ~@] \in Row BY <4>1 DEF Row
      <4> QED BY <3>2, <4>2 DEF RewriteRow, LogTypeOK
    <3>3. CASE DeleteRow(id) BY <3>3 DEF DeleteRow, LogTypeOK
    <3> QED BY <3>1, <3>2, <3>3
  <2>2. CASE ReviewerFlags BY <2>2, FlagIsKept DEF ReviewerFlags, ReviewEvent
  <2> QED BY <2>1, <2>2
<1>2. LinkTypeOK' /\ PeerTypeOK' /\ BoardOK' /\ UNCHANGED executed
  BY LinkStays, BoardStays DEF Tamper, ReviewerFlags
<1>3. PlaceOK'
  <2>1. CASE Tamper
    BY <2>1 DEF Tamper, PlaceOK, serviceVars
  <2>2. CASE ReviewerFlags
    BY <2>2, FlagIsKept DEF ReviewerFlags, ReviewEvent, PlaceOK, serviceVars, frameVars
  <2> QED BY <2>1, <2>2
<1> QED
  BY <1>1, <1>2, <1>3
  DEF Tamper, ReviewerFlags, WireTypeOK, peerWires, serviceVars, frameVars

-----------------------------------------------------------------------------
(* What a step of the node puts on the wire.                                 *)
Replied(frames) == frames \in Seq(Spoken) /\ from_node' = from_node \o frames

LEMMA OneOrTwo ==
  ASSUME NEW S, NEW a \in S, NEW b \in S
  PROVE  <<a>> \o <<b>> = <<a, b>> /\ <<a>> \o <<>> = <<a>>
<1> DEFINE one == <<a>>
           other == <<b>>
           two == <<a, b>>
<1>1. /\ one \in Seq(S) /\ other \in Seq(S) /\ two \in Seq(S)
      /\ Len(one) = 1 /\ Len(other) = 1 /\ Len(two) = 2
      /\ one[1] = a /\ other[1] = b /\ two[1] = a /\ two[2] = b
  OBVIOUS
<1> HIDE DEF one, other, two
<1>2. /\ Len(two) = Len(one) + Len(other)
      /\ \A k \in 1 .. Len(one) : two[k] = one[k]
      /\ \A k \in 1 .. Len(other) : two[Len(one) + k] = other[k]
  BY <1>1
<1>3. one \o other = two BY <1>1, <1>2, Glued
<1>4. one \o <<>> = one BY <1>1, GluedToNothing
<1> QED BY <1>3, <1>4 DEF one, other, two

LEMMA DigestReplies ==
  ASSUME NodeDigest
  PROVE  \E frames : /\ Replied(frames) /\ frames # <<>>
                     /\ \A n \in 1 .. Len(frames) : frames[n].type # "OVERRIDE_CLEAR"
                     /\ mode' # mode => frames[1].reason # "none"
<1> DEFINE ref == Head(to_node).ref
           ack == AckFrame(Verdict(ref))
           told == AssertFrame("ATTESTATION_MISMATCH")
<1>1. Verdict(ref) \in {"CHAIN_OK", "GAP", "CHAIN_BREAK"} BY DEF Verdict
<1>2. ack \in Spoken /\ ack.type # "OVERRIDE_CLEAR"
      /\ (Verdict(ref) # "CHAIN_OK" => ack.reason # "none")
  BY <1>1 DEF Spoken, AckFrame
<1>3. told \in Spoken /\ told.type # "OVERRIDE_CLEAR"
  BY DEF Spoken, Reasons, AssertFrame
<1>4. mode' # mode => Verdict(ref) # "CHAIN_OK"
  BY DEF NodeDigest, OnDigest, FileDigest, RejectDigest, overrideVars
<1>5. from_node' = from_node \o (<<ack>> \o <<told>>) \/ from_node' = from_node \o (<<ack>> \o <<>>)
  BY DEF NodeDigest, Reply
<1> HIDE DEF ack, told, ref
<1>6. <<ack>> \o <<told>> = <<ack, told>> /\ <<ack>> \o <<>> = <<ack>>
  BY <1>2, <1>3, OneOrTwo
<1>7. CASE from_node' = from_node \o <<ack, told>>
  <2>1. Replied(<<ack, told>>) BY <1>2, <1>3, <1>7 DEF Replied
  <2> QED BY <2>1, <1>2, <1>3, <1>4
<1>8. CASE from_node' = from_node \o <<ack>>
  <2>1. Replied(<<ack>>) BY <1>2, <1>8 DEF Replied
  <2> QED BY <2>1, <1>2, <1>4
<1> QED BY <1>5, <1>6, <1>7, <1>8

LEMMA LatchReplies ==
  ASSUME NEW reason \in Reasons, NodeLatches(reason)
  PROVE  /\ Replied(<<AssertFrame(reason)>>)
         /\ AssertFrame(reason).type # "OVERRIDE_CLEAR" /\ AssertFrame(reason).reason # "none"
         /\ mode' = "OVERRIDE" /\ since_latch' = 0
<1>1. AssertFrame(reason) \in Spoken BY DEF Spoken
<1> QED
  BY <1>1 DEF NodeLatches, Reply, Replied, AssertFrame, Reasons, Counting,
              AssertOverride, Assert

(* Whoever latches, for whatever reason.                                     *)
LEMMA LatchReasons ==
  ASSUME NodeWatchdog \/ NodeOverride
  PROVE  \E reason \in Reasons : NodeLatches(reason)
  BY RigAssumption DEF NodeWatchdog, NodeOverride, Reasons

LEMMA RepliedTypes ==
  ASSUME from_node \in Seq(Spoken), NEW frames, Replied(frames)
  PROVE  from_node' \in Seq(Spoken)
  BY DEF Replied

LEMMA RigInitTypes ==
  ASSUME RigInit
  PROVE  RigTypeInv
<1>1. TypeInv BY TypeInvInit DEF RigInit
<1>2. from_node = <<>> /\ <<>> \in Seq(Spoken)
  BY DEF RigInit, FilterInit, LinkInit
<1> QED BY <1>1, <1>2 DEF RigInit, RigTypeInv, SupervisorInit, Modes

LEMMA RigTypes ==
  ASSUME RigTypeInv, [RigNext]_rigVars
  PROVE  RigTypeInv'
<1> USE DEF RigTypeInv
<1>1. CASE Service
  <2>1. TypeInv' BY <1>1, TypeInvStep DEF Service, FilterNext
  <2>2. from_node' \in Seq(Spoken)
    <3>1. <<>> \in Seq(Spoken) OBVIOUS
    <3> QED
      BY <1>1, <3>1
      DEF Service, ServiceStep, BeginFrame, Poll, LogDetection, LogFails, Witness, Record,
          RejectRow, PublishRow, SendCommand, SendFails, ReadResponse, ResponseRaises,
          ResponseTimeout, Restart, nodeWires
  <2> QED BY <1>1, <2>1, <2>2 DEF Service, supervisorVars, overrideVars
<1>2. CASE NodeHeartbeat
  <2>1. TypeInv' BY <1>2, TierStays DEF NodeHeartbeat, TierIsIdle
  <2> QED BY <1>2, <2>1 DEF NodeHeartbeat, OnHeartbeat, overrideVars
<1>3. CASE NodeDigest
  <2>1. TypeInv' BY <1>3, TierStays DEF NodeDigest, TierIsIdle
  <2>2. from_node' \in Seq(Spoken) BY <1>3, DigestReplies, RepliedTypes
  <2>3. mode' \in Modes
    BY <1>3 DEF NodeDigest, OnDigest, FileDigest, RejectDigest, Assert, overrideVars, Modes
  <2>4. since_latch' \in Nat BY <1>3 DEF NodeDigest, Counting
  <2> QED BY <2>1, <2>2, <2>3, <2>4
<1>4. CASE NodeWatchdog \/ NodeOverride
  <2>1. PICK reason \in Reasons : NodeLatches(reason) BY <1>4, LatchReasons
  <2>2. TypeInv' BY <2>1, TierStays DEF NodeLatches, TierIsIdle
  <2>3. Replied(<<AssertFrame(reason)>>) /\ mode' = "OVERRIDE" /\ since_latch' = 0
    BY <2>1, LatchReplies
  <2>4. from_node' \in Seq(Spoken) BY <2>3, RepliedTypes
  <2> QED BY <2>2, <2>3, <2>4 DEF Modes
<1>5. CASE NodeClear
  <2>1. TypeInv' BY <1>5, TierStays DEF NodeClear, TierIsIdle
  <2>2. <<ClearFrame>> \in Seq(Spoken) BY DEF Spoken
  <2>3. from_node' \in Seq(Spoken) BY <1>5, <2>2 DEF NodeClear, Reply
  <2>4. mode' \in Modes BY <1>5 DEF NodeClear, ClearOverride, Modes
  <2> QED BY <1>5, <2>1, <2>3, <2>4 DEF NodeClear
<1>6. CASE Lose
  <2>1. TypeInv' BY <1>6, TierStays DEF Lose, TierIsIdle
  <2>2. from_node' \in Seq(Spoken) BY <1>6, Served DEF Lose
  <2> QED BY <1>6, <2>1, <2>2 DEF Lose, supervisorVars, overrideVars
<1>7. CASE RigTick
  <2>1. FilterTick BY <1>7 DEF RigTick, FilterTick
  <2>2. TypeInv' BY <2>1, TypeInvStep DEF FilterNext
  <2> QED BY <1>7, <2>2 DEF RigTick, Tick, LinkTick, nodeWires, overrideVars
<1>8. CASE Tamper \/ ReviewerFlags
  <2>1. TypeInv' BY <1>8, TamperTypes
  <2> QED BY <1>8, <2>1 DEF Tamper, ReviewerFlags, nodeWires, supervisorVars, overrideVars
<1>9. CASE UNCHANGED rigVars
  <2>1. TypeInv' BY <1>9, TierStays DEF rigVars, filterVars, TierIsIdle
  <2> QED BY <1>9, <2>1 DEF rigVars, filterVars, nodeWires, supervisorVars, overrideVars
<1> QED
  BY <1>1, <1>2, <1>3, <1>4, <1>5, <1>6, <1>7, <1>8, <1>9 DEF RigNext

-----------------------------------------------------------------------------
(* What the next poll will find.  A set of numbers up to some other has a    *)
(* greatest one, since the sets of those not below a member are ordered by   *)
(* inclusion.                                                                *)
LEMMA Greatest ==
  ASSUME NEW bound \in Nat, NEW D, D \subseteq 1 .. bound, D # {}
  PROVE  \E n \in D : \A m \in D : m <= n
<1> DEFINE S == 1 .. bound
           From(n) == {k \in D : n <= k}
           T == {From(n) : n \in D}
<1>1. IsFiniteSet(S) BY FS_Interval
<1>2. IsWellFoundedOn(StrictSubsetOrdering(S), SUBSET S)
  BY <1>1, FS_StrictSubsetOrderingWellFounded, FS_FiniteSubsetsOfFinite
<1>3. T \subseteq SUBSET S /\ T # {} OBVIOUS
<1>4. PICK X \in T : \A Y \in T : <<Y, X>> \notin StrictSubsetOrdering(S)
  <2> HIDE DEF S, T
  <2> QED BY <1>2, <1>3, WFMin
<1>5. PICK n \in D : X = From(n) BY <1>4
<1>6. ASSUME NEW m \in D, ~(m <= n) PROVE FALSE
  <2>1. m \in Nat /\ n \in Nat /\ n < m BY <1>6
  <2>2. \A k \in D : m <= k => n <= k BY <2>1
  <2>3. n \in From(n) /\ n \notin From(m) BY <2>1
  <2>4. <<From(m), X>> \in StrictSubsetOrdering(S)
    <3>1. From(m) \subseteq From(n) BY <2>2
    <3>2. From(m) \in SUBSET S /\ From(n) \in SUBSET S OBVIOUS
    <3> HIDE DEF From, S
    <3> QED BY <1>5, <2>3, <3>1, <3>2 DEF StrictSubsetOrdering
  <2> QED BY <1>4, <2>4
<1> QED BY <1>6

(* A veto is on its way to the tier or has arrived, and no clear follows it. *)
NoClear(frames) == \A n \in 1 .. Len(frames) : frames[n].type # "OVERRIDE_CLEAR"

VetoIsComing ==
  \/ \E n \in 1 .. Len(from_node) :
       /\ from_node[n].reason # "none"
       /\ \A m \in 1 .. Len(from_node) : n < m => from_node[m].type # "OVERRIDE_CLEAR"
  \/ link_reason # "none" /\ NoClear(from_node)

LEMMA SpokenFrames ==
  ASSUME NEW frame \in Spoken
  PROVE  /\ frame.type = "OVERRIDE_ASSERT" => frame.reason # "none"
         /\ Decides(frame) /\ frame.type # "OVERRIDE_CLEAR" => frame.reason # "none"
  BY DEF Spoken, ClearFrame, AssertFrame, AckFrame, Reasons, Decides

LEMMA VetoIsHeard ==
  ASSUME from_node \in Seq(Spoken), VetoIsComing
  PROVE  ReasonAfterPoll # "none"
<1>1. CASE Deciding = {}
  <2>1. \A n \in 1 .. Len(from_node) : from_node[n].reason = "none"
    BY <1>1 DEF Deciding, Decides
  <2> QED BY <1>1, <2>1 DEF VetoIsComing, ReasonAfterDrain, ReasonAfterPoll
<1>2. CASE Deciding # {}
  <2> DEFINE last == CHOOSE n \in Deciding : \A m \in Deciding : m <= n
  <2>1. Len(from_node) \in Nat /\ Deciding \subseteq 1 .. Len(from_node) BY DEF Deciding
  <2>2. last \in Deciding /\ \A m \in Deciding : m <= last
    BY <1>2, <2>1, Greatest
  <2>3. from_node[last] \in Spoken /\ Decides(from_node[last]) BY <2>1, <2>2 DEF Deciding
  <2>4. from_node[last].reason # "none"
    <3> HIDE DEF last
    <3>1. CASE \E n \in 1 .. Len(from_node) :
                 /\ from_node[n].reason # "none"
                 /\ \A m \in 1 .. Len(from_node) : n < m => from_node[m].type # "OVERRIDE_CLEAR"
      <4>1. PICK n \in 1 .. Len(from_node) :
                 /\ from_node[n].reason # "none"
                 /\ \A m \in 1 .. Len(from_node) : n < m => from_node[m].type # "OVERRIDE_CLEAR"
        BY <3>1
      <4>2. n <= last BY <4>1, <2>2 DEF Deciding, Decides
      <4>3. n = last \/ n < last BY <4>2, <2>1, <2>2
      <4> QED BY <4>1, <4>3, <2>1, <2>2, <2>3, SpokenFrames
    <3>2. CASE NoClear(from_node)
      BY <3>2, <2>1, <2>2, <2>3, SpokenFrames DEF NoClear
    <3> QED BY <3>1, <3>2 DEF VetoIsComing
  <2>5. LastDeciding = from_node[last] BY DEF LastDeciding
  <2> QED BY <1>2, <2>4, <2>5 DEF ReasonAfterDrain, ReasonAfterPoll
<1> QED BY <1>1, <1>2

(* Nothing the node adds but a clear takes a veto back, and what it says     *)
(* when it latches is one.                                                   *)
LEMMA VetoStays ==
  ASSUME from_node \in Seq(Spoken), NEW frames, Replied(frames), NoClear(frames),
         UNCHANGED link_reason, VetoIsComing \/ (frames # <<>> /\ frames[1].reason # "none")
  PROVE  VetoIsComing'
<1>1. /\ Len(from_node) \in Nat /\ Len(frames) \in Nat
      /\ Len(from_node') = Len(from_node) + Len(frames)
      /\ \A n \in 1 .. Len(from_node) : from_node'[n] = from_node[n]
      /\ \A n \in 1 .. Len(frames) : from_node'[Len(from_node) + n] = frames[n]
  BY DEF Replied
<1>2. \A m \in 1 .. Len(from_node') :
        m > Len(from_node) => from_node'[m].type # "OVERRIDE_CLEAR"
  <2>1. ASSUME NEW m \in 1 .. Len(from_node'), m > Len(from_node)
        PROVE  from_node'[m].type # "OVERRIDE_CLEAR"
    <3>1. m - Len(from_node) \in 1 .. Len(frames) /\ m = Len(from_node) + (m - Len(from_node))
      BY <1>1, <2>1
    <3> QED BY <3>1, <1>1 DEF NoClear
  <2> QED BY <2>1
<1>3. CASE frames # <<>> /\ frames[1].reason # "none"
  <2>1. 1 \in 1 .. Len(frames) BY <1>3, <1>1 DEF Replied
  <2>2. Len(from_node) + 1 \in 1 .. Len(from_node') BY <2>1, <1>1
  <2>3. from_node'[Len(from_node) + 1].reason # "none" BY <2>1, <1>1, <1>3
  <2>4. \A m \in 1 .. Len(from_node') : Len(from_node) + 1 < m => m > Len(from_node)
    BY <1>1
  <2> QED BY <2>2, <2>3, <2>4, <1>2 DEF VetoIsComing
<1>4. CASE \E n \in 1 .. Len(from_node) :
             /\ from_node[n].reason # "none"
             /\ \A m \in 1 .. Len(from_node) : n < m => from_node[m].type # "OVERRIDE_CLEAR"
  <2>1. PICK n \in 1 .. Len(from_node) :
             /\ from_node[n].reason # "none"
             /\ \A m \in 1 .. Len(from_node) : n < m => from_node[m].type # "OVERRIDE_CLEAR"
    BY <1>4
  <2>2. n \in 1 .. Len(from_node') /\ from_node'[n].reason # "none" BY <2>1, <1>1
  <2>3. \A m \in 1 .. Len(from_node') : n < m => from_node'[m].type # "OVERRIDE_CLEAR"
    BY <1>1, <1>2, <2>1
  <2> QED BY <2>2, <2>3 DEF VetoIsComing
<1>5. CASE link_reason # "none" /\ NoClear(from_node)
  <2>1. \A m \in 1 .. Len(from_node') : from_node'[m].type # "OVERRIDE_CLEAR"
    BY <1>1, <1>2, <1>5 DEF NoClear
  <2> QED BY <1>5, <2>1 DEF VetoIsComing, NoClear
<1> QED BY <1>3, <1>4, <1>5 DEF VetoIsComing

LEMMA VetoUnmoved ==
  ASSUME VetoIsComing, UNCHANGED <<from_node, link_reason>>
  PROVE  VetoIsComing'
  BY DEF VetoIsComing, NoClear

-----------------------------------------------------------------------------
(* How far a frame still is from a command: one that is under way to the     *)
(* wire was admitted without a veto and is the frame's first, and one that   *)
(* was written under an override is the last.                                *)
Admitted ==
  /\ pc = "send" => ~vetoed /\ ~command_sent
  /\ pc = "witness" /\ should_send => ~vetoed /\ ~command_sent

NoMoreToSend == pc = "idle" \/ vetoed \/ command_sent

VetoInv ==
  /\ Admitted
  /\ restarts = 0 /\ mode = "OVERRIDE" =>
       /\ VetoIsComing
       /\ since_latch = 0 \/ (since_latch = 1 /\ NoMoreToSend)

LEMMA RestartsOnlyCount ==
  ASSUME TypeInv, [RigNext]_rigVars, restarts' = 0
  PROVE  restarts = 0 /\ ~Restart
<1>1. restarts \in Nat BY FilterAssumption DEF TypeInv, FilterTypeOK
<1>2. ~Restart BY <1>1 DEF Restart
<1> QED
  BY <1>1, <1>2
  DEF RigNext, rigVars, filterVars, serviceVars, Service, ServiceStep, BeginFrame,
      LogDetection, LogFails, Witness, SendCommand, SendFails, ReadResponse,
      ResponseRaises, ResponseTimeout, NodeHeartbeat, NodeDigest, NodeWatchdog,
      NodeOverride, NodeLatches, NodeClear, Lose, RigTick, Tamper, ReviewerFlags

(* The service's own steps.                                                  *)
LEMMA AdmittedStep ==
  ASSUME Admitted, ServiceStep \/ Restart
  PROVE  Admitted'
<1>1. CASE LogDetection BY <1>1 DEF Admitted, LogDetection, ShouldSend
<1>2. CASE Witness BY <1>2 DEF Admitted, Witness, Resume, frameVars
<1>3. CASE BeginFrame \/ LogFails \/ SendCommand \/ SendFails \/ Restart
  BY <1>3 DEF BeginFrame, LogFails, SendCommand, SendFails, Restart, Admitted, Resume
<1>4. CASE ReadResponse \/ ResponseRaises \/ ResponseTimeout
  BY <1>4 DEF ReadResponse, ResponseRaises, ResponseTimeout, Admitted, Resume, frameVars
<1> QED BY <1>1, <1>2, <1>3, <1>4 DEF ServiceStep

(* It forgets no veto, and writes a command only where one is admitted.      *)
LEMMA ServiceKeepsVeto ==
  ASSUME RigTypeInv, VetoIsComing, ServiceStep
  PROVE  VetoIsComing'
<1>1. CASE BeginFrame
  <2>1. ReasonAfterPoll # "none" BY VetoIsHeard DEF RigTypeInv
  <2>2. from_node' = <<>> /\ link_reason' # "none" BY <1>1, <2>1 DEF BeginFrame, Poll
  <2> QED BY <2>2 DEF VetoIsComing, NoClear
<1>2. CASE Witness
  <2>1. UNCHANGED from_node
    BY <1>2 DEF Witness, Record, RejectRow, PublishRow, nodeWires
  <2>2. link_reason' = link_reason \/ link_reason' # "none"
    BY <1>2 DEF Witness, Record, RejectRow, PublishRow, linkVars, vetoVars
  <2> QED BY <2>1, <2>2 DEF VetoIsComing, NoClear
<1>3. CASE ~BeginFrame /\ ~Witness
  <2>1. UNCHANGED <<from_node, link_reason>>
    BY <1>3 DEF ServiceStep, LogDetection, LogFails, SendCommand, SendFails,
                ReadResponse, ResponseRaises, ResponseTimeout, linkVars, vetoVars, nodeWires
  <2> QED BY <2>1, VetoUnmoved
<1> QED BY <1>1, <1>2, <1>3

LEMMA ServiceCounts ==
  ASSUME RigTypeInv, Admitted, VetoIsComing, ServiceStep,
         since_latch = 0 \/ (since_latch = 1 /\ NoMoreToSend),
         since_latch' = IF Len(written') > Len(written) THEN since_latch + 1 ELSE since_latch
  PROVE  since_latch' = 0 \/ (since_latch' = 1 /\ NoMoreToSend')
<1>1. Len(written) \in Nat BY DEF RigTypeInv, TypeInv, WireTypeOK
<1>2. CASE SendCommand
  <2>1. since_latch = 0 BY <1>2 DEF SendCommand, Admitted, NoMoreToSend
  <2>2. since_latch' \in {0, 1} BY <2>1
  <2> QED BY <1>2, <2>2 DEF SendCommand, NoMoreToSend
<1>3. CASE ~SendCommand
  <2>1. UNCHANGED written
    BY <1>3 DEF ServiceStep, BeginFrame, LogDetection, LogFails, Witness, SendFails,
                ReadResponse, ResponseRaises, ResponseTimeout
  <2>2. since_latch' = since_latch BY <1>1, <2>1
  <2>3. CASE BeginFrame
    <3>1. vetoed' BY <2>3, VetoIsHeard DEF BeginFrame, Poll, RigTypeInv
    <3> QED BY <2>2, <3>1 DEF NoMoreToSend
  <2>4. CASE ~BeginFrame
    <3>1. NoMoreToSend => NoMoreToSend'
      <4>1. CASE LogDetection \/ LogFails \/ SendFails
        BY <4>1 DEF LogDetection, LogFails, SendFails, NoMoreToSend
      <4>2. CASE Witness
        BY <4>2 DEF Witness, NoMoreToSend, frameVars
      <4>3. CASE ReadResponse \/ ResponseRaises \/ ResponseTimeout
        BY <4>3 DEF ReadResponse, ResponseRaises, ResponseTimeout, NoMoreToSend, frameVars
      <4> QED BY <1>3, <2>4, <4>1, <4>2, <4>3 DEF ServiceStep
    <3> QED BY <2>2, <3>1
  <2> QED BY <2>3, <2>4
<1> QED BY <1>2, <1>3

LEMMA VetoInvInit ==
  ASSUME RigInit
  PROVE  VetoInv
  BY DEF RigInit, FilterInit, SupervisorInit, VetoInv, Admitted

(* The rest leaves the service where it is.                                  *)
LEMMA PlaceStays ==
  ASSUME Admitted, UNCHANGED serviceVars
  PROVE  Admitted' /\ (NoMoreToSend <=> NoMoreToSend') /\ UNCHANGED restarts
  BY DEF serviceVars, frameVars, Admitted, NoMoreToSend

LEMMA VetoInvStep ==
  ASSUME RigTypeInv, VetoInv, "from_node" \notin Loses, [RigNext]_rigVars
  PROVE  VetoInv'
<1> DEFINE Now == restarts = 0 /\ mode = "OVERRIDE"
           Latched == /\ VetoIsComing
                      /\ since_latch = 0 \/ (since_latch = 1 /\ NoMoreToSend)
<1>0. Admitted /\ (Now => Latched) BY DEF VetoInv
<1>00. from_node \in Seq(Spoken) BY DEF RigTypeInv
<1>1. CASE Service
  <2>1. Admitted' BY <1>0, <1>1, AdmittedStep DEF Service
  <2>2. ASSUME Now' PROVE Latched'
    <3>1. ServiceStep /\ restarts = 0
      BY <1>1, <2>2, RestartsOnlyCount DEF Service, RigTypeInv, RigNext
    <3>2. Now BY <1>1, <2>2, <3>1 DEF Service, supervisorVars, overrideVars
    <3> QED BY <1>0, <1>1, <3>1, <3>2, ServiceKeepsVeto, ServiceCounts DEF Service
  <2> QED BY <2>1, <2>2 DEF VetoInv
<1>2. CASE NodeDigest
  <2>1. UNCHANGED <<serviceVars, link_reason>>
    BY <1>2 DEF NodeDigest, linkVars, vetoVars
  <2>2. PICK frames : /\ Replied(frames) /\ frames # <<>> /\ NoClear(frames)
                      /\ mode' # mode => frames[1].reason # "none"
    BY <1>2, DigestReplies DEF NoClear
  <2>3. ASSUME Now' PROVE Latched'
    <3>1. restarts = 0 BY <2>1, <2>3, PlaceStays, <1>0
    <3>2. CASE mode = "OVERRIDE"
      <4>1. Latched BY <1>0, <3>1, <3>2
      <4>2. VetoIsComing' BY <1>00, <2>1, <2>2, <4>1, VetoStays
      <4>3. since_latch' = since_latch BY <1>2, <3>2 DEF NodeDigest, Counting
      <4>4. NoMoreToSend <=> NoMoreToSend' BY <1>0, <2>1, PlaceStays
      <4> QED BY <4>1, <4>2, <4>3, <4>4
    <3>3. CASE mode # "OVERRIDE"
      <4>1. VetoIsComing' BY <1>00, <2>1, <2>2, <2>3, <3>3, VetoStays
      <4>2. since_latch' = 0
        BY <1>2, <3>3 DEF NodeDigest, Counting, RigTypeInv, Modes
      <4> QED BY <4>1, <4>2
    <3> QED BY <3>2, <3>3
  <2> QED BY <1>0, <2>1, <2>3, PlaceStays DEF VetoInv
<1>3. CASE NodeWatchdog \/ NodeOverride
  <2>1. PICK reason \in Reasons : NodeLatches(reason) BY <1>3, LatchReasons
  <2> DEFINE frames == <<AssertFrame(reason)>>
  <2>2. UNCHANGED <<serviceVars, link_reason>>
    BY <2>1 DEF NodeLatches, linkVars, vetoVars
  <2>3. /\ Replied(frames) /\ since_latch' = 0
        /\ NoClear(frames) /\ frames # <<>> /\ frames[1].reason # "none"
    BY <2>1, LatchReplies DEF NoClear
  <2>4. VetoIsComing'
    <3> HIDE DEF frames
    <3> QED BY <1>00, <2>2, <2>3, VetoStays
  <2>5. Admitted' BY <1>0, <2>2, PlaceStays
  <2> QED BY <2>3, <2>4, <2>5 DEF VetoInv
<1>4. CASE NodeClear
  <2>1. UNCHANGED serviceVars /\ mode' = "WATCHING"
    BY <1>4 DEF NodeClear, ClearOverride
  <2> QED BY <1>0, <2>1, PlaceStays DEF VetoInv
<1>5. CASE NodeHeartbeat \/ Lose \/ RigTick \/ Tamper \/ ReviewerFlags \/ UNCHANGED rigVars
  <2>1. UNCHANGED <<serviceVars, from_node, link_reason, since_latch, mode>>
    <3>1. CASE NodeHeartbeat
      BY <3>1 DEF NodeHeartbeat, OnHeartbeat, overrideVars, linkVars, vetoVars
    <3>2. CASE Lose
      BY <3>2 DEF Lose, linkVars, vetoVars, supervisorVars, overrideVars
    <3>3. CASE RigTick
      BY <3>3 DEF RigTick, LinkTick, Tick, overrideVars, vetoVars, nodeWires
    <3>4. CASE Tamper \/ ReviewerFlags
      BY <3>4 DEF Tamper, ReviewerFlags, linkVars, vetoVars, nodeWires, supervisorVars,
                  overrideVars
    <3>5. CASE UNCHANGED rigVars
      BY <3>5 DEF rigVars, filterVars, linkVars, vetoVars, nodeWires, supervisorVars,
                  overrideVars
    <3> QED BY <1>5, <3>1, <3>2, <3>3, <3>4, <3>5
  <2>2. VetoIsComing => VetoIsComing' BY <2>1, VetoUnmoved
  <2> QED BY <1>0, <2>1, <2>2, PlaceStays DEF VetoInv
<1> QED BY <1>1, <1>2, <1>3, <1>4, <1>5 DEF RigNext

(* Until the service is restarted, at most one command more gets past an     *)
(* override of the node, however many frames are lost on the way to it and   *)
(* however late its own are read; that its own are not lost is assumed.      *)
THEOREM OneAfterLatch ==
  ASSUME "from_node" \notin Loses
  PROVE  RigSpec => []AtMostOneAfterLatch
<1>1. RigInit => RigTypeInv /\ VetoInv BY RigInitTypes, VetoInvInit
<1>2. RigTypeInv /\ VetoInv /\ [RigNext]_rigVars => (RigTypeInv /\ VetoInv)'
  BY RigTypes, VetoInvStep
<1>3. RigTypeInv /\ VetoInv => AtMostOneAfterLatch
  BY DEF RigTypeInv, VetoInv, AtMostOneAfterLatch
<1> QED BY <1>1, <1>2, <1>3, PTL DEF RigSpec

-----------------------------------------------------------------------------
(* The chain of a log whose ids run up to a reference is its rows in order.  *)
LEMMA HeadIsRead ==
  ASSUME NEW ref \in Nat, 1 .. ref \subseteq DOMAIN audit_log,
         DOMAIN audit_log \subseteq Nat \ {0}
  PROVE  HeadAt(ref) = [n \in 1 .. ref |-> Canonical(n)]
<1>1. Upto(ref) = 1 .. ref BY DEF Upto
<1>2. Cardinality(1 .. ref) = ref BY FS_Interval
<1>3. ASSUME NEW n \in 1 .. ref PROVE NthId(1 .. ref, n) = n
  <2>1. ASSUME NEW id \in 1 .. ref
        PROVE  Cardinality({other \in 1 .. ref : other <= id}) = id
    <3>1. {other \in 1 .. ref : other <= id} = 1 .. id OBVIOUS
    <3>2. Cardinality(1 .. id) = id BY FS_Interval
    <3> QED BY <3>1, <3>2
  <2> QED BY <2>1 DEF NthId
<1> QED BY <1>1, <1>2, <1>3 DEF HeadAt

(* What an edited row was before.                                            *)
Edited(id) == <<id, audit_log[id].confidence, ~audit_log[id].command_sent>>

CanonicalRows == Ids \X Confidences \X BOOLEAN

LEMMA RowIsCanonical ==
  ASSUME LogTypeOK, NEW id \in DOMAIN audit_log
  PROVE  Canonical(id) \in CanonicalRows /\ Edited(id) # Canonical(id)
<1>1. id \in Ids BY LogAssumption DEF LogTypeOK, Ids
<1>2. audit_log[id].confidence \in Confidences /\ audit_log[id].command_sent \in BOOLEAN
  BY DEF LogTypeOK, Row
<1>3. (~audit_log[id].command_sent) # audit_log[id].command_sent BY <1>2
<1> QED BY <1>1, <1>2, <1>3 DEF Canonical, Edited, CanonicalRows

(* The chain holds what every row it covers was when it was logged, and knows*)
(* each one that is not so any more.                                         *)
ChainInv ==
  /\ chain_head \in Seq(CanonicalRows) /\ Len(chain_head) = chain_ref
  /\ IF pc = "witness" THEN audit_ref = next_id - 1 /\ chain_ref = next_id - 2
                       ELSE chain_ref = next_id - 1
  /\ tampered \subseteq 1 .. chain_ref
  /\ \A id \in (1 .. chain_ref) \ tampered :
       id \in DOMAIN audit_log /\ chain_head[id] = Canonical(id)
  /\ \A id \in tampered : id \in DOMAIN audit_log => chain_head[id] = Edited(id)

(* A digest under way or kept is the chain as it was at its reference.       *)
Covers(entry) ==
  /\ entry.ref \in 1 .. chain_ref
  /\ entry.digest \in Seq(CanonicalRows) /\ Len(entry.digest) = entry.ref
  /\ \A id \in 1 .. entry.ref : entry.digest[id] = chain_head[id]

TierFrames ==
  [type : {"SUPERVISOR_HEARTBEAT", "ATTEST_DIGEST"}, ref : Nat, digest : Seq(CanonicalRows)]

Told ==
  /\ to_node \in Seq(TierFrames)
  /\ \A n \in 1 .. Len(to_node) : to_node[n].type = "ATTEST_DIGEST" => Covers(to_node[n])

Kept ==
  /\ DOMAIN ring = Slots /\ ring_head \in Slots
  /\ ring_count \in 0 .. DigestCapacity
  /\ ring_count < DigestCapacity => ring_head = ring_count
  /\ \A slot \in Slots : slot < ring_count => Covers(ring[slot])

EvidenceInv == restarts = 0 => ChainInv /\ Told /\ Kept

LEMMA EvidenceInit ==
  ASSUME RigInit
  PROVE  EvidenceInv
<1> USE DEF RigInit, FilterInit, SupervisorInit, LogInit, LinkInit
<1>1. ChainInv
  <2>1. <<>> \in Seq(CanonicalRows) /\ Len(<<>>) = 0 OBVIOUS
  <2> QED BY <2>1 DEF ChainInv, GENESIS
<1>2. Told
  <2>1. HeartbeatFrame(0) \in TierFrames /\ HeartbeatFrame(0).type # "ATTEST_DIGEST"
    <3>1. <<>> \in Seq(CanonicalRows) OBVIOUS
    <3> QED BY <3>1 DEF TierFrames, HeartbeatFrame, GENESIS
  <2> QED BY <2>1 DEF Told
<1>3. Kept BY SupervisorAssumption DEF Kept, Slots
<1> QED BY <1>1, <1>2, <1>3 DEF EvidenceInv

-----------------------------------------------------------------------------
(* The columns the chain covers.                                             *)
RowsStay ==
  /\ DOMAIN audit_log' = DOMAIN audit_log
  /\ \A id \in DOMAIN audit_log :
       /\ audit_log'[id].confidence = audit_log[id].confidence
       /\ audit_log'[id].command_sent = audit_log[id].command_sent

ChainGrows ==
  /\ chain_ref \in Nat /\ chain_ref' \in Nat /\ chain_ref <= chain_ref'
  /\ \A id \in 1 .. chain_ref : chain_head'[id] = chain_head[id]

LEMMA ChainStays ==
  ASSUME ChainInv, RowsStay, UNCHANGED <<chain_head, chain_ref, tampered, next_id>>,
         pc = "witness" <=> pc' = "witness", pc' = "witness" => audit_ref' = audit_ref
  PROVE  ChainInv'
<1>1. \A id \in DOMAIN audit_log :
        /\ id \in DOMAIN audit_log'
        /\ Canonical(id)' = Canonical(id) /\ Edited(id)' = Edited(id)
  BY DEF RowsStay, Canonical, Edited
<1>2. DOMAIN audit_log' = DOMAIN audit_log BY DEF RowsStay
<1> QED BY <1>1, <1>2 DEF ChainInv

LEMMA KeptStays ==
  ASSUME Kept, ChainGrows, UNCHANGED <<ring, ring_head, ring_count>>
  PROVE  Kept'
  BY DEF Kept, Covers, ChainGrows

LEMMA ToldStays ==
  ASSUME Told, ChainGrows, UNCHANGED to_node
  PROVE  Told'
  BY DEF Told, Covers, ChainGrows

LEMMA ToldIsRead ==
  ASSUME Told, ChainGrows, to_node # <<>>, to_node' = Tail(to_node)
  PROVE  /\ Told' /\ Head(to_node) \in TierFrames
         /\ Head(to_node).type = "ATTEST_DIGEST" => Covers(Head(to_node))
<1>1. /\ Tail(to_node) \in Seq(TierFrames) /\ Head(to_node) \in TierFrames
      /\ Len(to_node) \in Nat /\ Len(to_node) > 0 /\ Len(Tail(to_node)) = Len(to_node) - 1
      /\ Head(to_node) = to_node[1]
      /\ \A n \in 1 .. Len(Tail(to_node)) : Tail(to_node)[n] = to_node[n + 1]
  BY Served DEF Told
<1>2. ASSUME NEW n \in 1 .. Len(to_node'), to_node'[n].type = "ATTEST_DIGEST"
      PROVE  Covers(to_node[n])'
  <2>1. n + 1 \in 1 .. Len(to_node) /\ to_node'[n] = to_node[n + 1] BY <1>1
  <2> QED BY <1>2, <2>1 DEF Told, Covers, ChainGrows
<1>3. 1 \in 1 .. Len(to_node) BY <1>1
<1> QED BY <1>1, <1>2, <1>3 DEF Told

(* The node files what it was told over its oldest slot.                     *)
LEMMA KeptFiles ==
  ASSUME Kept, UNCHANGED <<chain_head, chain_ref>>, NEW ref, NEW digest,
         Covers([ref |-> ref, digest |-> digest]), FileDigest(ref, digest)
  PROVE  Kept'
<1> DEFINE entry == [ref |-> ref, digest |-> digest]
<1>1. DigestCapacity \in Nat \ {0} BY SupervisorAssumption
<1>2. DOMAIN ring' = Slots
      /\ \A slot \in Slots : ring'[slot] = IF slot = ring_head THEN entry ELSE ring[slot]
  BY DEF Kept, FileDigest
<1>3. ring_head \in Nat /\ ring_head < DigestCapacity /\ ring_count \in Nat
      /\ ring_count <= DigestCapacity
  BY <1>1 DEF Kept, Slots
<1>4. ring_head' \in Slots /\ (ring_head + 1 < DigestCapacity => ring_head' = ring_head + 1)
  <2>1. ring_head + 1 \in Nat BY <1>3
  <2>2. (ring_head + 1) % DigestCapacity \in 0 .. DigestCapacity - 1 BY <1>1, <2>1
  <2>3. ring_head + 1 < DigestCapacity => (ring_head + 1) % DigestCapacity = ring_head + 1
    BY <1>1, <2>1
  <2> QED BY <2>2, <2>3 DEF FileDigest, NextSlot, Slots
<1>5. /\ ring_count' \in 0 .. DigestCapacity
      /\ ring_count' < DigestCapacity => ring_head' = ring_count'
      /\ \A slot \in Slots : slot < ring_count' => slot < ring_count \/ slot = ring_head
  BY <1>1, <1>3, <1>4 DEF FileDigest, Kept, Slots
<1>6. ASSUME NEW slot \in Slots, slot < ring_count' PROVE Covers(ring[slot])'
  <2>1. CASE slot = ring_head BY <1>2, <2>1 DEF Covers
  <2>2. CASE slot # ring_head BY <1>2, <1>5, <1>6, <2>2 DEF Covers, Kept
  <2> QED BY <2>1, <2>2
<1> QED BY <1>2, <1>4, <1>5, <1>6 DEF Kept

-----------------------------------------------------------------------------
(* The service.                                                              *)
LEMMA LoggedIsNext ==
  ASSUME TypeInv, ChainInv, LogDetection, UNCHANGED tampered
  PROVE  ChainInv'
<1>1. /\ pc # "witness" /\ pc' = "witness"
      /\ audit_ref' = next_id /\ next_id' = next_id + 1 /\ next_id \in Nat
      /\ UNCHANGED <<chain_head, chain_ref>>
  BY LogAssumption
  DEF LogDetection, LogEvent, linkVars, chainVars, TypeInv, FilterTypeOK, LogTypeOK
<1>2. \A id \in DOMAIN audit_log :
        id \in DOMAIN audit_log' /\ audit_log'[id] = audit_log[id]
  BY DEF LogDetection, LogEvent
<1>3. \A id \in 1 .. chain_ref : id # next_id BY <1>1 DEF ChainInv
<1>4. DOMAIN audit_log' = DOMAIN audit_log \cup {next_id} BY DEF LogDetection, LogEvent
<1>5. \A id \in DOMAIN audit_log : Canonical(id)' = Canonical(id) /\ Edited(id)' = Edited(id)
  BY <1>2 DEF Canonical, Edited
<1>6. chain_ref = next_id - 1 BY <1>1 DEF ChainInv
<1>7. \A id \in (1 .. chain_ref') \ tampered' :
        id \in DOMAIN audit_log' /\ chain_head'[id] = Canonical(id)'
  BY <1>1, <1>2, <1>5 DEF ChainInv
<1>8. \A id \in tampered' : id \in DOMAIN audit_log' => chain_head'[id] = Edited(id)'
  BY <1>1, <1>3, <1>4, <1>5 DEF ChainInv
<1>9. audit_ref' = next_id' - 1 /\ chain_ref' = next_id' - 2 BY <1>1, <1>6
<1> QED BY <1>1, <1>7, <1>8, <1>9 DEF ChainInv

LEMMA WitnessTells ==
  ASSUME TypeInv, ChainInv, Told, Witness, UNCHANGED tampered
  PROVE  ChainInv' /\ Told' /\ ChainGrows
<1>1. /\ pc = "witness" /\ pc' # "witness" /\ UNCHANGED <<audit_log, next_id, audit_ref>>
      /\ audit_ref \in DOMAIN audit_log /\ LogTypeOK
      /\ next_id \in Nat /\ chain_ref \in Nat
  BY LogAssumption
  DEF Witness, Resume, logVars, frameVars, TypeInv, PlaceOK, FilterTypeOK, LogTypeOK,
      LinkTypeOK
<1>2. audit_ref = chain_ref + 1 /\ audit_ref = next_id - 1 BY <1>1 DEF ChainInv
<1>3. PublishRow(audit_ref) BY <1>1, <1>2 DEF Witness, Record
<1>4. Canonical(audit_ref) \in CanonicalRows BY <1>1, RowIsCanonical
<1>5. chain_head' = Append(chain_head, Canonical(audit_ref)) /\ chain_ref' = audit_ref
  BY <1>3 DEF PublishRow, ChainStep
<1>6. /\ chain_head' \in Seq(CanonicalRows) /\ Len(chain_head') = chain_ref'
      /\ chain_head'[audit_ref] = Canonical(audit_ref)
      /\ \A id \in 1 .. chain_ref : chain_head'[id] = chain_head[id]
  BY <1>2, <1>4, <1>5, Appended DEF ChainInv
<1>7. ChainGrows BY <1>1, <1>2, <1>5, <1>6 DEF ChainGrows
<1>8. ChainInv'
  <2>1. 1 .. chain_ref' = (1 .. chain_ref) \cup {audit_ref} BY <1>1, <1>2, <1>5
  <2>2. \A id : Canonical(id)' = Canonical(id) /\ Edited(id)' = Edited(id)
    BY <1>1 DEF Canonical, Edited
  <2>3. audit_ref \notin tampered BY <1>1, <1>2 DEF ChainInv
  <2>4. \A id \in (1 .. chain_ref') \ tampered' :
          id \in DOMAIN audit_log' /\ chain_head'[id] = Canonical(id)'
    BY <1>1, <1>6, <2>1, <2>2 DEF ChainInv
  <2>5. \A id \in tampered' : id \in DOMAIN audit_log' => chain_head'[id] = Edited(id)'
    BY <1>1, <1>6, <2>2 DEF ChainInv
  <2>6. tampered' \subseteq 1 .. chain_ref' BY <2>1 DEF ChainInv
  <2>7. chain_ref' = next_id' - 1 BY <1>1, <1>2, <1>5
  <2> QED BY <1>1, <1>6, <2>4, <2>5, <2>6, <2>7 DEF ChainInv
<1>9. Told'
  <2> DEFINE digest == DigestFrame(audit_ref, chain_head')
             beat == HeartbeatFrame(audit_ref)
  <2>1. digest \in TierFrames /\ beat \in TierFrames /\ beat.type # "ATTEST_DIGEST"
    <3>1. <<>> \in Seq(CanonicalRows) OBVIOUS
    <3>2. audit_ref \in Nat BY <1>1, <1>2
    <3> QED BY <1>6, <3>1, <3>2 DEF TierFrames, DigestFrame, HeartbeatFrame, GENESIS
  <2>2. digest.ref = chain_ref' /\ digest.digest = chain_head' BY <1>5 DEF DigestFrame
  <2>3. chain_ref' \in 1 .. chain_ref' BY <1>1, <1>2, <1>5
  <2> HIDE DEF digest, beat
  <2> DEFINE old == to_node
  <2>4. old \in Seq(TierFrames) BY DEF Told
  <2>5. \/ to_node' = Append(Append(old, digest), beat)
        \/ to_node' = Append(old, digest)
    <3>1. \/ to_node' = (old \o <<digest>>) \o <<beat>>
          \/ to_node' = (old \o <<digest>>) \o <<>>
      BY <1>3 DEF PublishRow, digest, beat
    <3>2. old \o <<digest>> = Append(old, digest) BY <2>1, <2>4, GluedToOne
    <3> DEFINE more == Append(old, digest)
    <3>3. more \in Seq(TierFrames) BY <2>1, <2>4
    <3> HIDE DEF more
    <3>4. more \o <<beat>> = Append(more, beat) /\ more \o <<>> = more
      BY <2>1, <3>3, GluedToOne, GluedToNothing
    <3> QED BY <3>1, <3>2, <3>4 DEF more
  <2>6. Append(old, digest) \in Seq(TierFrames) BY <2>1, <2>4
  <2>7. to_node' \in Seq(TierFrames) BY <2>1, <2>5, <2>6
  <2>8. ASSUME NEW n \in 1 .. Len(to_node'), to_node'[n].type = "ATTEST_DIGEST"
        PROVE  (n \in 1 .. Len(old) /\ to_node'[n] = old[n]) \/ to_node'[n] = digest
    BY <2>1, <2>4, <2>5, <2>8
  <2>9. ASSUME NEW n \in 1 .. Len(to_node'), to_node'[n].type = "ATTEST_DIGEST"
        PROVE  Covers(to_node[n])'
    <3>1. CASE n \in 1 .. Len(old) /\ to_node'[n] = old[n]
      <4>1. Covers(to_node[n]) BY <2>9, <3>1 DEF Told
      <4> QED BY <1>7, <3>1, <4>1 DEF Covers, ChainGrows
    <3>2. CASE to_node'[n] = digest
      BY <1>6, <2>2, <2>3, <3>2 DEF Covers
    <3> QED BY <2>8, <2>9, <3>1, <3>2
  <2> QED BY <2>7, <2>9 DEF Told
<1> QED BY <1>7, <1>8, <1>9

LEMMA ServiceKeepsEvidence ==
  ASSUME TypeInv, ChainInv, Told, ServiceStep, UNCHANGED tampered
  PROVE  ChainInv' /\ Told' /\ ChainGrows
<1>0. LogTypeOK /\ chain_ref \in Nat
  BY LogAssumption DEF TypeInv, FilterTypeOK, LinkTypeOK
<1>1. CASE Witness BY <1>1, WitnessTells
<1>2. CASE ~Witness
  <2>1. UNCHANGED <<chain_head, chain_ref, to_node>>
    BY <1>2 DEF ServiceStep, BeginFrame, Poll, LogDetection, LogFails, SendCommand,
                SendFails, ReadResponse, ResponseRaises, ResponseTimeout, linkVars,
                chainVars, nodeWires
  <2>2. ChainGrows BY <1>0, <2>1 DEF ChainGrows
  <2>3. Told' BY <2>1, <2>2, ToldStays
  <2>4. ChainInv'
    <3>1. CASE LogDetection BY <3>1, LoggedIsNext
    <3>2. CASE ~LogDetection
      <4>1. pc # "witness" /\ pc' # "witness"
        BY <1>2, <3>2
        DEF ServiceStep, BeginFrame, LogFails, SendCommand, SendFails, ReadResponse,
            ResponseRaises, ResponseTimeout, Resume
      <4>2. RowsStay /\ UNCHANGED next_id
        <5>1. CASE SendFails
          BY <1>0, <5>1, FlagIsKept DEF SendFails, RowsStay
        <5>2. CASE ReadResponse
          <6>1. CASE Answers(Head(from_peer))
            <7>1. {"ACK", "REJECT"} \subseteq Acks BY DEF Acks
            <7> QED BY <1>0, <5>2, <6>1, <7>1, AckIsKept DEF ReadResponse, RowsStay
          <6>2. CASE ~Answers(Head(from_peer))
            BY <5>2, <6>2 DEF ReadResponse, logVars, RowsStay
          <6> QED BY <6>1, <6>2
        <5>3. CASE BeginFrame \/ LogFails \/ SendCommand \/ ResponseRaises \/ ResponseTimeout
          BY <5>3
          DEF BeginFrame, LogFails, SendCommand, ResponseRaises, ResponseTimeout, logVars,
              RowsStay
        <5> QED BY <1>2, <3>2, <5>1, <5>2, <5>3 DEF ServiceStep
      <4> QED BY <2>1, <4>1, <4>2, ChainStays
    <3> QED BY <3>1, <3>2
  <2> QED BY <2>2, <2>3, <2>4
<1> QED BY <1>1, <1>2

(* Whoever edits a row behind the logger is found out, unless he puts it     *)
(* back.                                                                     *)
LEMMA TamperKeepsEvidence ==
  ASSUME TypeInv, ChainInv, Tamper
  PROVE  ChainInv'
<1>1. UNCHANGED <<chain_head, chain_ref, pc, audit_ref>>
  BY DEF Tamper, linkVars, chainVars, serviceVars, frameVars
<1>2. PICK id \in 1 .. chain_ref :
        \/ /\ RewriteRow(id)
           /\ tampered' = IF id \in tampered THEN tampered \ {id} ELSE tampered \cup {id}
        \/ /\ DeleteRow(id)
           /\ tampered' = tampered \cup {id}
  BY DEF Tamper
<1>3. UNCHANGED next_id BY <1>2 DEF RewriteRow, DeleteRow
<1>4. tampered' \subseteq 1 .. chain_ref' BY <1>1, <1>2 DEF ChainInv
<1>5. CASE RewriteRow(id)
  <2>1. audit_log[id].command_sent \in BOOLEAN /\ audit_log[id] \in Row
    BY <1>5 DEF RewriteRow, TypeInv, FilterTypeOK, LogTypeOK, Row
  <2>2. /\ id \in DOMAIN audit_log /\ DOMAIN audit_log' = DOMAIN audit_log
        /\ \A other \in DOMAIN audit_log \ {id} : audit_log'[other] = audit_log[other]
        /\ audit_log'[id] = [audit_log[id] EXCEPT !.command_sent = ~@]
    BY <1>5 DEF RewriteRow
  <2>3. /\ audit_log'[id].confidence = audit_log[id].confidence
        /\ audit_log'[id].command_sent = ~audit_log[id].command_sent
    BY <2>1, <2>2 DEF Row
  <2>4. (~~audit_log[id].command_sent) = audit_log[id].command_sent BY <2>1
  <2>5. Canonical(id)' = Edited(id) /\ Edited(id)' = Canonical(id)
    BY <2>3, <2>4 DEF Canonical, Edited
  <2>6. \A other \in DOMAIN audit_log \ {id} :
          Canonical(other)' = Canonical(other) /\ Edited(other)' = Edited(other)
    BY <2>2 DEF Canonical, Edited
  <2>7. tampered' = IF id \in tampered THEN tampered \ {id} ELSE tampered \cup {id}
    <3>1. ~DeleteRow(id) BY <2>2 DEF DeleteRow
    <3> QED BY <1>2, <3>1
  <2>8. \A other \in (1 .. chain_ref') \ tampered' :
          other \in DOMAIN audit_log' /\ chain_head'[other] = Canonical(other)'
    BY <1>1, <2>2, <2>5, <2>6, <2>7 DEF ChainInv
  <2>9. \A other \in tampered' :
          other \in DOMAIN audit_log' => chain_head'[other] = Edited(other)'
    BY <1>1, <1>2, <2>2, <2>5, <2>6, <2>7 DEF ChainInv
  <2> QED BY <1>1, <1>3, <1>4, <2>8, <2>9 DEF ChainInv
<1>6. CASE DeleteRow(id)
  <2>1. /\ id \in DOMAIN audit_log /\ DOMAIN audit_log' = DOMAIN audit_log \ {id}
        /\ \A other \in DOMAIN audit_log' : audit_log'[other] = audit_log[other]
    BY <1>6 DEF DeleteRow
  <2>2. \A other \in DOMAIN audit_log' :
          Canonical(other)' = Canonical(other) /\ Edited(other)' = Edited(other)
    BY <2>1 DEF Canonical, Edited
  <2>3. tampered' = tampered \cup {id}
    <3>1. ~RewriteRow(id) BY <2>1 DEF RewriteRow
    <3> QED BY <1>2, <3>1
  <2>4. \A other \in (1 .. chain_ref') \ tampered' :
          other \in DOMAIN audit_log' /\ chain_head'[other] = Canonical(other)'
    BY <1>1, <2>1, <2>2, <2>3 DEF ChainInv
  <2>5. \A other \in tampered' :
          other \in DOMAIN audit_log' => chain_head'[other] = Edited(other)'
    BY <1>1, <2>1, <2>2, <2>3 DEF ChainInv
  <2> QED BY <1>1, <1>3, <1>4, <2>4, <2>5 DEF ChainInv
<1> QED BY <1>2, <1>5, <1>6

LEMMA EvidenceStep ==
  ASSUME TypeInv, EvidenceInv, [RigNext]_rigVars
  PROVE  EvidenceInv'
<1> SUFFICES ASSUME restarts' = 0 PROVE ChainInv' /\ Told' /\ Kept'
  BY DEF EvidenceInv
<1>0. restarts = 0 /\ ~Restart BY RestartsOnlyCount
<1>00. ChainInv /\ Told /\ Kept /\ chain_ref \in Nat
  BY <1>0, LogAssumption DEF EvidenceInv, TypeInv, FilterTypeOK, LinkTypeOK
<1> DEFINE ServiceIdles == UNCHANGED <<chain_head, chain_ref, tampered, next_id, pc, audit_ref>>
<1>a. ASSUME UNCHANGED <<chain_head, chain_ref>> PROVE ChainGrows
  BY <1>00, <1>a DEF ChainGrows
<1>b. ASSUME UNCHANGED logVars PROVE RowsStay /\ UNCHANGED next_id
  BY <1>b DEF logVars, RowsStay
<1>1. CASE Service
  <2>1. ServiceStep /\ UNCHANGED tampered /\ UNCHANGED supervisorVars
    BY <1>0, <1>1 DEF Service
  <2>2. ChainInv' /\ Told' /\ ChainGrows BY <1>00, <2>1, ServiceKeepsEvidence
  <2>3. Kept' BY <1>00, <2>1, <2>2, KeptStays DEF supervisorVars, witnessVars
  <2> QED BY <2>2, <2>3
<1>2. CASE NodeHeartbeat
  <2>1. ServiceIdles /\ UNCHANGED logVars /\ UNCHANGED witnessVars
        /\ to_node # <<>> /\ to_node' = Tail(to_node)
    BY <1>2 DEF NodeHeartbeat, OnHeartbeat, logVars, linkVars, chainVars, serviceVars,
                frameVars
  <2>2. ChainInv' BY <1>00, <1>b, <2>1, ChainStays
  <2>3. Told' BY <1>00, <1>a, <2>1, ToldIsRead
  <2>4. Kept' BY <1>00, <1>a, <2>1, KeptStays DEF witnessVars
  <2> QED BY <2>2, <2>3, <2>4
<1>3. CASE NodeDigest
  <2> DEFINE frame == Head(to_node)
  <2>1. ServiceIdles /\ UNCHANGED logVars /\ to_node # <<>> /\ to_node' = Tail(to_node)
        /\ frame.type = "ATTEST_DIGEST" /\ OnDigest(frame.ref, frame.digest)
    BY <1>3 DEF NodeDigest, logVars, linkVars, chainVars, serviceVars, frameVars
  <2>2. ChainInv' BY <1>00, <1>b, <2>1, ChainStays
  <2>3. Told' /\ Covers(frame) BY <1>00, <1>a, <2>1, ToldIsRead
  <2>4. Kept'
    <3>1. CASE FileDigest(frame.ref, frame.digest)
      <4>1. Covers([ref |-> frame.ref, digest |-> frame.digest])
        BY <2>3 DEF Covers
      <4> QED BY <1>00, <2>1, <3>1, <4>1, KeptFiles
    <3>2. CASE RejectDigest(frame.ref)
      BY <1>00, <1>a, <2>1, <3>2, KeptStays DEF RejectDigest, witnessVars
    <3> QED BY <2>1, <3>1, <3>2 DEF OnDigest
  <2> QED BY <2>2, <2>3, <2>4
<1>4. CASE NodeWatchdog \/ NodeOverride \/ NodeClear
  <2>1. ServiceIdles /\ UNCHANGED logVars /\ UNCHANGED to_node
        /\ UNCHANGED <<ring, ring_head, ring_count>>
    <3>1. CASE NodeClear
      BY <3>1 DEF NodeClear, ClearOverride, logVars, linkVars, chainVars, serviceVars,
                  frameVars
    <3>2. CASE NodeWatchdog \/ NodeOverride
      BY <3>2, LatchReasons
      DEF NodeLatches, AssertOverride, logVars, linkVars, chainVars, serviceVars,
          frameVars, witnessVars
    <3> QED BY <1>4, <3>1, <3>2
  <2>2. ChainInv' BY <1>00, <1>b, <2>1, ChainStays
  <2>3. Told' BY <1>00, <1>a, <2>1, ToldStays
  <2>4. Kept' BY <1>00, <1>a, <2>1, KeptStays
  <2> QED BY <2>2, <2>3, <2>4
<1>5. CASE Lose
  <2>1. ServiceIdles /\ UNCHANGED logVars /\ UNCHANGED <<ring, ring_head, ring_count>>
        /\ (UNCHANGED to_node \/ (to_node # <<>> /\ to_node' = Tail(to_node)))
    BY <1>5 DEF Lose, logVars, linkVars, chainVars, serviceVars, frameVars,
                supervisorVars, witnessVars
  <2>2. ChainInv' BY <1>00, <1>b, <2>1, ChainStays
  <2>3. Told' BY <1>00, <1>a, <2>1, ToldStays, ToldIsRead
  <2>4. Kept' BY <1>00, <1>a, <2>1, KeptStays
  <2> QED BY <2>2, <2>3, <2>4
<1>6. CASE RigTick \/ UNCHANGED rigVars
  <2>1. ServiceIdles /\ UNCHANGED logVars /\ UNCHANGED to_node
        /\ UNCHANGED <<ring, ring_head, ring_count>>
    BY <1>6 DEF RigTick, Tick, LinkTick, rigVars, filterVars, logVars, linkVars, chainVars,
                nodeWires, serviceVars, frameVars, supervisorVars, witnessVars
  <2>2. ChainInv' BY <1>00, <1>b, <2>1, ChainStays
  <2>3. Told' BY <1>00, <1>a, <2>1, ToldStays
  <2>4. Kept' BY <1>00, <1>a, <2>1, KeptStays
  <2> QED BY <2>2, <2>3, <2>4
<1>7. CASE Tamper \/ ReviewerFlags
  <2>1. UNCHANGED <<chain_head, chain_ref, to_node, ring, ring_head, ring_count, pc, audit_ref>>
    BY <1>7 DEF Tamper, ReviewerFlags, linkVars, chainVars, nodeWires, serviceVars,
                frameVars, supervisorVars, witnessVars
  <2>2. ChainInv'
    <3>1. CASE Tamper BY <1>00, <3>1, TamperKeepsEvidence
    <3>2. CASE ReviewerFlags
      <4>1. RowsStay /\ UNCHANGED <<next_id, tampered>>
        BY <3>2, FlagIsKept DEF ReviewerFlags, ReviewEvent, RowsStay, TypeInv, FilterTypeOK
      <4> QED BY <1>00, <2>1, <4>1, ChainStays
    <3> QED BY <1>7, <3>1, <3>2
  <2>3. Told' BY <1>00, <1>a, <2>1, ToldStays
  <2>4. Kept' BY <1>00, <1>a, <2>1, KeptStays
  <2> QED BY <2>2, <2>3, <2>4
<1> QED BY <1>1, <1>2, <1>3, <1>4, <1>5, <1>6, <1>7 DEF RigNext

-----------------------------------------------------------------------------
LEMMA RetainedCovers ==
  ASSUME Kept, NEW entry \in NodeRetains
  PROVE  Covers(entry)
<1>1. PICK index \in 0 .. ring_count - 1 : entry = Retained(index) BY DEF NodeRetains
<1>2. DigestCapacity \in Nat \ {0} BY SupervisorAssumption
<1>3. ring_head \in Nat /\ ring_count \in Nat /\ ring_count <= DigestCapacity
  BY <1>2 DEF Kept, Slots
<1> DEFINE at == OldestSlot + index
<1>4. CASE ring_count = DigestCapacity
  <2>1. at \in Nat BY <1>3, <1>4 DEF OldestSlot
  <2> HIDE DEF at
  <2>2. at % DigestCapacity \in 0 .. DigestCapacity - 1 BY <1>2, <2>1
  <2>3. at % DigestCapacity \in Slots /\ at % DigestCapacity < ring_count
    BY <1>2, <1>4, <2>2 DEF Slots
  <2> QED BY <1>1, <2>3 DEF Kept, Retained, at
<1>5. CASE ring_count # DigestCapacity
  <2>1. index \in Nat /\ index < ring_count /\ at = index BY <1>3, <1>5 DEF OldestSlot
  <2>2. index < DigestCapacity BY <1>3, <2>1, <1>2
  <2>3. index % DigestCapacity = index BY <1>2, <2>1, <2>2
  <2>4. index \in Slots BY <1>2, <2>1, <2>2 DEF Slots
  <2> QED BY <1>1, <2>1, <2>3, <2>4 DEF Kept, Retained
<1> QED BY <1>4, <1>5

LEMMA UntouchedVerifies ==
  ASSUME TypeInv, ChainInv, Kept, Intact
  PROVE  VerifyDatabase(NodeRetains)
<1>1. LogTypeOK /\ next_id \in Nat /\ next_id > 0 /\ chain_ref \in Nat
  BY LogAssumption DEF TypeInv, FilterTypeOK, LogTypeOK, LinkTypeOK
<1>2. 1 .. chain_ref \subseteq DOMAIN audit_log
      /\ \A id \in 1 .. chain_ref : chain_head[id] = Canonical(id)
  BY DEF ChainInv, Intact
<1>3. DOMAIN audit_log = 1 .. next_id - 1
  <2>1. DOMAIN audit_log \subseteq 1 .. next_id - 1 BY <1>1 DEF LogTypeOK
  <2>2. CASE pc = "witness"
    <3>1. next_id - 1 \in DOMAIN audit_log /\ chain_ref = next_id - 2
      BY <2>2 DEF ChainInv, TypeInv, PlaceOK
    <3>2. 1 .. next_id - 1 = (1 .. chain_ref) \cup {next_id - 1} BY <1>1, <3>1
    <3> QED BY <1>2, <2>1, <3>1, <3>2
  <2>3. CASE pc # "witness" BY <1>2, <2>1, <2>3 DEF ChainInv
  <2> QED BY <2>2, <2>3
<1>4. Contiguous
  <2>1. Cardinality(1 .. next_id - 1) = next_id - 1 BY <1>1, FS_Interval
  <2> QED BY <1>3, <2>1 DEF Contiguous
<1>5. ASSUME NEW entry \in NodeRetains
      PROVE  entry.ref \in DOMAIN audit_log /\ entry.digest = HeadAt(entry.ref)
  <2>1. Covers(entry) BY RetainedCovers
  <2>2. entry.ref \in 1 .. chain_ref /\ 1 .. entry.ref \subseteq DOMAIN audit_log
    BY <1>1, <1>2, <2>1 DEF Covers
  <2>3. HeadAt(entry.ref) = [id \in 1 .. entry.ref |-> Canonical(id)]
    BY <1>3, <2>2, HeadIsRead
  <2>4. entry.digest = [id \in 1 .. entry.ref |-> entry.digest[id]]
    BY <2>1 DEF Covers
  <2>5. \A id \in 1 .. entry.ref : entry.digest[id] = Canonical(id)
    BY <1>1, <1>2, <2>1, <2>2 DEF Covers
  <2> QED BY <1>2, <2>2, <2>3, <2>4, <2>5
<1> QED BY <1>4, <1>5 DEF VerifyDatabase

LEMMA EditIsFound ==
  ASSUME TypeInv, ChainInv, Kept, NEW id \in tampered, NEW entry \in NodeRetains,
         id <= entry.ref, VerifyDatabase(NodeRetains)
  PROVE  FALSE
<1>1. Covers(entry) BY RetainedCovers
<1>2. /\ entry.ref \in DOMAIN audit_log /\ entry.digest = HeadAt(entry.ref) /\ Contiguous
      /\ LogTypeOK /\ DOMAIN audit_log \subseteq Nat \ {0} /\ chain_ref \in Nat
  BY LogAssumption DEF VerifyDatabase, TypeInv, FilterTypeOK, LogTypeOK, LinkTypeOK
<1>3. 1 .. entry.ref \subseteq DOMAIN audit_log
  <2>1. IsFiniteSet(DOMAIN audit_log)
    <3>1. next_id - 1 \in Int /\ DOMAIN audit_log \subseteq 1 .. next_id - 1
      BY <1>2, LogAssumption DEF LogTypeOK
    <3>2. IsFiniteSet(1 .. next_id - 1) BY <3>1, FS_Interval
    <3> QED BY <3>1, <3>2, FS_Subset
  <2>2. Cardinality(DOMAIN audit_log) \in Nat BY <2>1, FS_CardinalityType
  <2>3. DOMAIN audit_log = 1 .. Cardinality(DOMAIN audit_log) BY <1>2 DEF Contiguous
  <2> DEFINE top == Cardinality(DOMAIN audit_log)
  <2> HIDE DEF top
  <2>4. top \in Nat /\ entry.ref \in 1 .. top /\ DOMAIN audit_log = 1 .. top
    BY <1>2, <2>2, <2>3 DEF top
  <2> QED BY <2>4
<1>4. id \in 1 .. entry.ref /\ id \in DOMAIN audit_log
  BY <1>1, <1>2, <1>3 DEF ChainInv, Covers
<1>5. HeadAt(entry.ref) = [n \in 1 .. entry.ref |-> Canonical(n)]
  BY <1>1, <1>2, <1>3, HeadIsRead DEF Covers
<1>6. entry.digest[id] = Canonical(id) BY <1>2, <1>4, <1>5
<1>7. entry.digest[id] = chain_head[id] BY <1>1, <1>4 DEF Covers
<1>8. chain_head[id] = Edited(id) BY <1>4 DEF ChainInv
<1> QED BY <1>2, <1>4, <1>6, <1>7, <1>8, RowIsCanonical

(* Until the service is restarted, a log nobody touched reconciles with what *)
(* the node retains, whatever was lost on the wire, whatever gaps the        *)
(* operator accepted and wherever the service is between a row and its       *)
(* digest (attestation.py:207-272).                                          *)
THEOREM UntouchedVerify == RigSpec => []UntouchedLogVerifies
<1>1. RigInit => RigTypeInv /\ EvidenceInv BY RigInitTypes, EvidenceInit
<1>2. RigTypeInv /\ EvidenceInv /\ [RigNext]_rigVars => (RigTypeInv /\ EvidenceInv)'
  BY RigTypes, EvidenceStep DEF RigTypeInv
<1>3. RigTypeInv /\ EvidenceInv => UntouchedLogVerifies
  BY UntouchedVerifies DEF RigTypeInv, EvidenceInv, UntouchedLogVerifies
<1> QED BY <1>1, <1>2, <1>3, PTL DEF RigSpec

(* A row the retained digests cover cannot be changed or deleted unseen,     *)
(* however many were, until the service is restarted, which begins its chain *)
(* anew (attestation.py:107-153, 207-272).                                   *)
THEOREM EditsFound == RigSpec => [](restarts = 0 => EditsAreFound)
<1>1. RigInit => RigTypeInv /\ EvidenceInv BY RigInitTypes, EvidenceInit
<1>2. RigTypeInv /\ EvidenceInv /\ [RigNext]_rigVars => (RigTypeInv /\ EvidenceInv)'
  BY RigTypes, EvidenceStep DEF RigTypeInv
<1>3. RigTypeInv /\ EvidenceInv => (restarts = 0 => EditsAreFound)
  <2> SUFFICES ASSUME RigTypeInv, EvidenceInv, restarts = 0,
                      NEW id \in tampered, NEW entry \in NodeRetains, id <= entry.ref,
                      VerifyDatabase(NodeRetains)
               PROVE  FALSE
    BY DEF EditsAreFound
  <2> QED BY EditIsFound DEF RigTypeInv, EvidenceInv
<1> QED BY <1>1, <1>2, <1>3, PTL DEF RigSpec

=============================================================================

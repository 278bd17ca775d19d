--------------------------- MODULE PerceptionProofs ---------------------------
(***************************************************************************)
(* Theorems about the way from the camera to the governance filter, for    *)
(* every number of frames, connections and backends and every backlog: a   *)
(* frame is governed at most once and in order, and never after it was     *)
(* given up.  The argument: a connection carries its frames in order, and  *)
(* the listener reads the connections in the order they were opened, so    *)
(* what is read next is older than anything still under way.               *)
(***************************************************************************)
EXTENDS PerceptionProperties, QueueLemmas

-----------------------------------------------------------------------------
(* The frames among the messages of a connection, and their order.           *)
FramesIn(list) == {n \in 1 .. MaxFrames : \E k \in 1 .. Len(list) : list[k] = n}

Rising(list) ==
  \A j, k \in 1 .. Len(list) :
    j < k /\ list[j] \in 1 .. MaxFrames /\ list[k] \in 1 .. MaxFrames => list[j] < list[k]

LEMMA NoMessages == FramesIn(<<>>) = {} /\ Rising(<<>>) /\ Elements(<<>>) = {}
  BY DEF FramesIn, Rising, Elements

LEMMA AppendedFrames ==
  ASSUME NEW list \in Seq(Message), NEW e \in Message, Rising(list),
         e \in 1 .. MaxFrames => \A f \in FramesIn(list) : f < e
  PROVE  /\ Rising(Append(list, e))
         /\ \A f \in FramesIn(Append(list, e)) : f \in FramesIn(list) \/ f = e
<1> DEFINE longer == Append(list, e)
<1>1. /\ Len(longer) = Len(list) + 1 /\ Len(list) \in Nat
      /\ longer[Len(list) + 1] = e
      /\ \A k \in 1 .. Len(list) : longer[k] = list[k]
  BY Appended
<1> HIDE DEF longer
<1>2. ASSUME NEW f \in FramesIn(longer) PROVE f \in FramesIn(list) \/ f = e
  <2>1. PICK k \in 1 .. Len(longer) : longer[k] = f BY DEF FramesIn
  <2>2. k \in 1 .. Len(list) \/ k = Len(list) + 1 BY <1>1
  <2> QED BY <1>1, <1>2, <2>1, <2>2 DEF FramesIn
<1>3. ASSUME NEW j \in 1 .. Len(longer), NEW k \in 1 .. Len(longer), j < k,
             longer[j] \in 1 .. MaxFrames, longer[k] \in 1 .. MaxFrames
      PROVE  longer[j] < longer[k]
  <2>1. j \in 1 .. Len(list) BY <1>1, <1>3
  <2>2. CASE k \in 1 .. Len(list) BY <1>1, <1>3, <2>1, <2>2 DEF Rising
  <2>3. CASE k = Len(list) + 1
    <3>1. longer[j] = list[j] /\ longer[k] = e BY <1>1, <2>1, <2>3
    <3>2. list[j] \in FramesIn(list) BY <1>3, <2>1, <3>1 DEF FramesIn
    <3> QED BY <1>3, <3>1, <3>2
  <2> QED BY <1>1, <2>2, <2>3
<1> QED BY <1>2, <1>3 DEF Rising, longer

LEMMA TakenFrames ==
  ASSUME NEW list \in Seq(Message), list # <<>>, Rising(list)
  PROVE  /\ Tail(list) \in Seq(Message) /\ Head(list) \in Message
         /\ Rising(Tail(list))
         /\ FramesIn(Tail(list)) \subseteq FramesIn(list)
         /\ Head(list) \in 1 .. MaxFrames =>
              /\ Head(list) \in FramesIn(list)
              /\ \A f \in FramesIn(Tail(list)) : Head(list) < f
<1> DEFINE rest == Tail(list)
<1>1. /\ rest \in Seq(Message) /\ Head(list) \in Message
      /\ Len(list) \in Nat /\ Len(list) > 0 /\ Len(rest) = Len(list) - 1
      /\ Head(list) = list[1]
      /\ \A k \in 1 .. Len(rest) : rest[k] = list[k + 1]
  OBVIOUS
<1> HIDE DEF rest
<1>2. \A k \in 1 .. Len(rest) : k + 1 \in 1 .. Len(list) /\ 1 < k + 1 BY <1>1
<1>3. 1 \in 1 .. Len(list) BY <1>1
<1>4. Rising(rest)
  <2> SUFFICES ASSUME NEW j \in 1 .. Len(rest), NEW k \in 1 .. Len(rest), j < k,
                      rest[j] \in 1 .. MaxFrames, rest[k] \in 1 .. MaxFrames
               PROVE  rest[j] < rest[k]
    BY DEF Rising
  <2>1. j + 1 < k + 1 OBVIOUS
  <2> QED BY <1>1, <1>2, <2>1 DEF Rising
<1>5. \A f \in FramesIn(rest) : f \in FramesIn(list)
                                /\ (Head(list) \in 1 .. MaxFrames => Head(list) < f)
  <2> SUFFICES ASSUME NEW f \in FramesIn(rest)
               PROVE  f \in FramesIn(list)
                      /\ (Head(list) \in 1 .. MaxFrames => Head(list) < f)
    OBVIOUS
  <2>1. PICK k \in 1 .. Len(rest) : rest[k] = f /\ f \in 1 .. MaxFrames BY DEF FramesIn
  <2> QED BY <1>1, <1>2, <1>3, <2>1 DEF FramesIn, Rising
<1> QED BY <1>1, <1>3, <1>4, <1>5 DEF FramesIn, rest

LEMMA CutFrames ==
  ASSUME NEW list \in Seq(Message), NEW n \in 0 .. Len(list), Rising(list)
  PROVE  /\ SubSeq(list, 1, n) \in Seq(Message)
         /\ Rising(SubSeq(list, 1, n))
         /\ FramesIn(SubSeq(list, 1, n)) \subseteq FramesIn(list)
<1> DEFINE first == SubSeq(list, 1, n)
<1>1. /\ first \in Seq(Message) /\ Len(first) = n /\ Len(list) \in Nat
      /\ \A k \in 1 .. n : first[k] = list[k]
  OBVIOUS
<1> HIDE DEF first
<1>2. \A k \in 1 .. Len(first) : k \in 1 .. Len(list) BY <1>1
<1> QED BY <1>1, <1>2 DEF Rising, FramesIn, first

-----------------------------------------------------------------------------
(* The types.                                                                *)
Typed ==
  /\ PerceptionTypeOK
  /\ ear = "yielded" => in_hand # 0
  /\ uno_pc = "send" => frame # 0

LEMMA TypedInit ==
  ASSUME PerceptionInit
  PROVE  Typed
<1>1. \A S : <<>> \in Seq(S) OBVIOUS
<1>2. 0 \in 0 .. MaxFrames /\ 0 \in 0 .. MaxConns /\ 0 \in 0 .. opened /\ 1 \in 1 .. 2
  BY PerceptionAssumption DEF PerceptionInit
<1> QED BY <1>1, <1>2 DEF PerceptionInit, Typed, PerceptionTypeOK

LEMMA AttemptTyped ==
  ASSUME Typed, AttemptFails, uno_pc = "send"
  PROVE  /\ attempt' \in 1 .. 2 /\ uno_pc' \in {"capture", "send", "ended"}
         /\ failed' \subseteq 1 .. MaxFrames
         /\ \/ UNCHANGED <<uno_pc, failed>>
            \/ uno_pc' = "capture" /\ failed' = failed \cup {frame}
<1>1. attempt \in {1, 2} /\ frame \in 1 .. MaxFrames
  BY PerceptionAssumption DEF Typed, PerceptionTypeOK
<1>2. CASE attempt < LastAttempt
  <2>1. attempt' \in 1 .. 2 BY <1>1, <1>2 DEF AttemptFails, LastAttempt
  <2>2. UNCHANGED <<uno_pc, failed>> BY <1>2 DEF AttemptFails
  <2> QED BY <2>1, <2>2 DEF Typed, PerceptionTypeOK
<1>3. CASE ~(attempt < LastAttempt)
  BY <1>1, <1>3 DEF AttemptFails, Typed, PerceptionTypeOK
<1> QED BY <1>2, <1>3

LEMMA HangUpTyped ==
  ASSUME Typed, NEW c \in Conns
  PROVE  HangUp(c) \in [Conns -> {"up", "down", "gone"}]
  BY DEF Typed, PerceptionTypeOK, HangUp

LEMMA OpenTyped ==
  ASSUME Typed, NEW who \in {"uno", "other"}, Open(who)
  PROVE  /\ opened + 1 \in Conns /\ opened \in Nat
         /\ opened' \in 0 .. MaxConns /\ \A n \in 0 .. opened : n \in 0 .. opened'
         /\ opened + 1 \in 0 .. opened'
         /\ peer' \in [Conns -> {"uno", "other"}]
         /\ link' \in [Conns -> {"up", "down", "gone"}]
         /\ backlog' \in Seq(1 .. opened')
<1>1. opened \in Nat /\ MaxConns \in Nat /\ opened < MaxConns /\ opened' = opened + 1
  BY PerceptionAssumption DEF Typed, PerceptionTypeOK, Open, CanConnect
<1>2. opened + 1 \in Conns /\ opened' \in 0 .. MaxConns /\ 1 .. opened \subseteq 1 .. opened'
      /\ opened + 1 \in 1 .. opened' /\ opened + 1 \in 0 .. opened'
      /\ \A n \in 0 .. opened : n \in 0 .. opened'
  BY <1>1 DEF Conns
<1>3. backlog \in Seq(1 .. opened') BY <1>2, WiderSeq DEF Typed, PerceptionTypeOK
<1>4. backlog' \in Seq(1 .. opened') BY <1>2, <1>3, Appended DEF Open
<1> QED BY <1>1, <1>2, <1>4 DEF Open, Typed, PerceptionTypeOK

LEMMA ReadTyped ==
  ASSUME Typed, ear \in {"read", "yielded"}
  PROVE  conn \in Conns /\ data[conn] \in Seq(Message)
<1>1. conn \in Conns
  BY PerceptionAssumption DEF Typed, PerceptionTypeOK, Conns
<1> QED BY <1>1 DEF Typed, PerceptionTypeOK

LEMMA SockTyped ==
  ASSUME Typed, sock # 0
  PROVE  sock \in Conns /\ data[sock] \in Seq(Message)
<1>1. sock \in Conns
  BY PerceptionAssumption DEF Typed, PerceptionTypeOK, Conns
<1> QED BY <1>1 DEF Typed, PerceptionTypeOK

LEMMA UnoTyped ==
  ASSUME Typed, Uno
  PROVE  Typed'
<1> USE DEF Typed, PerceptionTypeOK, connVars, earVars
<1>1. CASE Capture
  <2>1. frame' \in 0 .. MaxFrames /\ 1 \in 1 .. 2
    BY <1>1, PerceptionAssumption DEF Capture
  <2> QED BY <1>1, <2>1 DEF Capture
<1>2. CASE UnoEnds
  <2>1. link' \in [Conns -> {"up", "down", "gone"}]
    BY <1>2, SockTyped, HangUpTyped DEF UnoEnds
  <2>2. 0 \in 0 .. opened BY PerceptionAssumption
  <2> QED BY <1>2, <2>1, <2>2 DEF UnoEnds
<1>3. CASE UnoRestarts
  <2>1. link' \in [Conns -> {"up", "down", "gone"}]
    BY <1>3 DEF UnoRestarts
  <2>2. 0 \in 0 .. opened /\ 1 \in 1 .. 2 BY PerceptionAssumption
  <2> QED BY <1>3, <2>1, <2>2 DEF UnoRestarts
<1>4. CASE Connect
  <2>1. Open("uno") /\ sock' = opened + 1 /\ UNCHANGED <<uno_pc, frame, attempt, failed>>
    BY <1>4 DEF Connect
  <2> QED BY <2>1, OpenTyped DEF Open
<1>5. CASE ConnectFails
  <2>1. /\ attempt' \in 1 .. 2 /\ uno_pc' \in {"capture", "send", "ended"}
        /\ failed' \subseteq 1 .. MaxFrames
    BY <1>5, AttemptTyped DEF ConnectFails
  <2> QED BY <1>5, <2>1 DEF ConnectFails
<1>6. CASE SendAll
  <2>1. sock \in Conns /\ frame \in 1 .. MaxFrames /\ frame \in Message
    BY <1>6, SockTyped, PerceptionAssumption DEF SendAll, Message
  <2>2. data' \in [Conns -> Seq(Message)]
    BY <1>6, <2>1, Appended DEF SendAll
  <2> QED BY <1>6, <2>2 DEF SendAll
<1>7. CASE SendAllFails
  <2>1. /\ attempt' \in 1 .. 2 /\ uno_pc' \in {"capture", "send", "ended"}
        /\ failed' \subseteq 1 .. MaxFrames
    BY <1>7, AttemptTyped DEF SendAllFails
  <2>2. sock \in Conns BY <1>7, SockTyped DEF SendAllFails
  <2>3. link' \in [Conns -> {"up", "down", "gone"}] /\ sock' \in 0 .. opened
    BY <1>7, <2>2, HangUpTyped, PerceptionAssumption DEF SendAllFails, DropSocket
  <2>4. data' \in [Conns -> Seq(Message)]
    <3>1. Append(data[sock], Partial) \in Seq(Message) BY <2>2, Appended DEF Message
    <3> QED BY <1>7, <2>2, <3>1 DEF SendAllFails, LeftBehind
  <2> QED BY <1>7, <2>1, <2>3, <2>4 DEF SendAllFails
<1> QED BY <1>1, <1>2, <1>3, <1>4, <1>5, <1>6, <1>7 DEF Uno

LEMMA Accepted ==
  ASSUME Typed, Accept
  PROVE  /\ conn' \in 1 .. opened /\ conn' \in Conns /\ backlog' \in Seq(1 .. opened)
         /\ backlog \in Seq(1 .. opened) /\ backlog # <<>>
<1>1. backlog \in Seq(1 .. opened) /\ backlog # <<>>
  BY DEF Typed, PerceptionTypeOK, Accept
<1>2. conn' \in 1 .. opened /\ backlog' \in Seq(1 .. opened)
  BY <1>1, Served DEF Accept
<1> QED
  BY <1>1, <1>2, PerceptionAssumption DEF Typed, PerceptionTypeOK, Conns

LEMMA ListenerTyped ==
  ASSUME Typed, Listener
  PROVE  Typed'
<1> USE DEF Typed, PerceptionTypeOK, connVars, unoVars
<1>0. \A S : <<>> \in Seq(S) OBVIOUS
<1>1. CASE Accept
  <2>1. conn' # 0 /\ conn' \in 0 .. opened /\ backlog' \in Seq(1 .. opened)
    BY <1>1, Accepted
  <2> QED BY <1>1, <2>1 DEF Accept
<1>2. CASE ReadFrame \/ ReadEmpty
  <2>1. conn \in Conns /\ data[conn] \in Seq(Message) /\ data[conn] # <<>>
    BY <1>2, ReadTyped DEF ReadFrame, ReadEmpty, Reads
  <2>2. data' \in [Conns -> Seq(Message)]
    <3>1. Tail(data[conn]) \in Seq(Message) BY <2>1, Served
    <3> QED BY <1>2, <2>1, <3>1 DEF ReadFrame, ReadEmpty, Consume
  <2>3. CASE ReadFrame
    <3>1. in_hand' \in 0 .. MaxFrames /\ in_hand' # 0
      BY <2>3, PerceptionAssumption DEF ReadFrame, Reads
    <3> QED BY <2>2, <2>3, <3>1 DEF ReadFrame, Reads
  <2>4. CASE ReadEmpty BY <2>2, <2>4 DEF ReadEmpty, earVars
  <2> QED BY <1>2, <2>3, <2>4
<1>3. CASE Refuse \/ EndOfConnection
  <2>1. CloseConn BY <1>3 DEF Refuse, EndOfConnection
  <2>2. 0 \in 0 .. opened BY PerceptionAssumption
  <2> QED BY <1>0, <2>1, <2>2 DEF CloseConn
<1>4. CASE ListenerRaises \/ StopIsNoticed
  <2>1. CloseAll /\ ear' = "ended" /\ running' = running
    BY <1>4 DEF ListenerRaises, StopIsNoticed
  <2>2. 0 \in 0 .. opened /\ 0 \in 0 .. MaxFrames BY PerceptionAssumption
  <2> QED BY <1>0, <2>1, <2>2 DEF CloseAll
<1>5. CASE Govern
  <2>1. in_hand \in 1 .. MaxFrames BY <1>5, PerceptionAssumption DEF Govern
  <2>2. governed' \in Seq(1 .. MaxFrames) BY <1>5, <2>1, Appended DEF Govern
  <2>3. 0 \in 0 .. MaxFrames BY PerceptionAssumption
  <2> QED BY <1>5, <2>2, <2>3 DEF Govern
<1> QED BY <1>1, <1>2, <1>3, <1>4, <1>5 DEF Listener

LEMMA OthersTyped ==
  ASSUME Typed, Others
  PROVE  Typed'
<1> USE DEF Typed, PerceptionTypeOK, unoVars, connVars, earVars
<1>1. CASE Stop BY <1>1 DEF Stop
<1>2. CASE ServiceRestarts
  <2>1. 0 \in 0 .. opened /\ 0 \in 0 .. MaxFrames /\ \A S : <<>> \in Seq(S)
    BY PerceptionAssumption
  <2> QED BY <1>2, <2>1 DEF ServiceRestarts, CloseAll
<1>3. CASE OtherConnects
  <2>1. Open("other") BY <1>3 DEF OtherConnects
  <2> QED BY <1>3, <2>1, OpenTyped DEF OtherConnects, Open
<1>4. ASSUME NEW c \in Conns, OtherSends(c) PROVE Typed'
  <2>1. PICK m \in Strange : data' = [data EXCEPT ![c] = <<m>>] BY <1>4 DEF OtherSends
  <2>2. <<m>> \in Seq(Message) BY <2>1 DEF Message
  <2> QED BY <1>4, <2>1, <2>2 DEF OtherSends
<1>5. ASSUME NEW c \in Conns, OtherCloses(c) PROVE Typed'
  BY <1>5, HangUpTyped DEF OtherCloses
<1>6. ASSUME NEW c \in Conns, Break(c) PROVE Typed'
  <2>1. PICK n \in 0 .. Len(data[c]) : data' = [data EXCEPT ![c] = SubSeq(@, 1, n)]
    BY <1>6 DEF Break
  <2>2. SubSeq(data[c], 1, n) \in Seq(Message)
    <3>1. data[c] \in Seq(Message) OBVIOUS
    <3> QED BY <3>1, <2>1
  <2> QED BY <1>6, <2>1, <2>2, HangUpTyped DEF Break
<1> QED BY <1>1, <1>2, <1>3, <1>4, <1>5, <1>6 DEF Others

LEMMA TypedStep ==
  ASSUME Typed, [PerceptionNext]_perceptionVars
  PROVE  Typed'
<1>1. CASE UNCHANGED perceptionVars
  BY <1>1 DEF Typed, PerceptionTypeOK, perceptionVars, unoVars, connVars, earVars
<1> QED BY <1>1, UnoTyped, ListenerTyped, OthersTyped DEF PerceptionNext

(* The type invariant holds, for any bounds and any backends.                *)
THEOREM PerceptionTypesHold == PerceptionSpec => []PerceptionTypeOK
<1>1. Typed => PerceptionTypeOK BY DEF Typed
<1> QED BY <1>1, TypedInit, TypedStep, PTL DEF PerceptionSpec

-----------------------------------------------------------------------------
(* The connections in use are the one being read and those queued behind it, *)
(* in the order they were opened; the UNO Q's is the last it opened.         *)
InReach(c) == c = conn \/ c \in Elements(backlog)

QueueOK ==
  /\ \A c \in Conns : data[c] # <<>> \/ link[c] = "up" => InReach(c)
  /\ \A c \in Elements(backlog) : conn < c
  /\ \A m, n \in 1 .. Len(backlog) : m < n => backlog[m] < backlog[n]

SockOK ==
  /\ \A c \in Conns : peer[c] = "other" => FramesIn(data[c]) = {}
  /\ sock # 0 =>
       /\ peer[sock] = "uno"
       /\ \A c \in Conns : sock < c /\ c <= opened => peer[c] = "other"

LEMMA InReachIsOpen ==
  ASSUME Typed, NEW c, InReach(c)
  PROVE  c \in 0 .. opened /\ (c \in Elements(backlog) => c \in 1 .. opened)
  BY DEF Typed, PerceptionTypeOK, InReach, Elements

(* Nothing is opened or accepted, and only an open connection takes messages.*)
QueueStays ==
  /\ UNCHANGED <<backlog, conn>>
  /\ \A c \in Conns : link'[c] = "up" => link[c] = "up"
  /\ \A c \in Conns : data'[c] # <<>> => data[c] # <<>> \/ link[c] = "up"

LEMMA QueueKept ==
  ASSUME QueueOK, QueueStays
  PROVE  QueueOK'
  BY DEF QueueOK, QueueStays, InReach

LEMMA HungUp ==
  ASSUME Typed, NEW c \in Conns, NEW d \in Conns, HangUp(c)[d] = "up"
  PROVE  link[d] = "up"
  BY DEF Typed, PerceptionTypeOK, HangUp

LEMMA MostStepsKeepQueue ==
  ASSUME Typed, [PerceptionNext]_perceptionVars
  PROVE  \/ QueueStays \/ Accept \/ CloseConn \/ CloseAll
         \/ \E who \in {"uno", "other"} : Open(who)
<1> USE DEF QueueStays, connVars, unoVars, earVars
<1>1. CASE Capture \/ ConnectFails \/ Govern \/ Stop \/ UNCHANGED perceptionVars
  BY <1>1 DEF Capture, ConnectFails, Govern, Stop, perceptionVars
<1>2. CASE UnoEnds BY <1>2, SockTyped, HungUp DEF UnoEnds
<1>3. CASE UnoRestarts
  BY <1>3, SockTyped DEF UnoRestarts, Typed, PerceptionTypeOK
<1>4. CASE SendAll
  BY <1>4, SockTyped DEF SendAll, Typed, PerceptionTypeOK
<1>5. CASE SendAllFails
  <2>1. sock \in Conns /\ data \in [Conns -> Seq(Message)]
    BY <1>5, SockTyped DEF SendAllFails, Typed, PerceptionTypeOK
  <2>2. \A c \in Conns : data'[c] # <<>> => data[c] # <<>> \/ link[c] = "up"
    BY <1>5, <2>1 DEF SendAllFails
  <2> QED BY <1>5, <2>1, <2>2, HungUp DEF SendAllFails, DropSocket
<1>6. CASE Connect \/ OtherConnects BY <1>6 DEF Connect, OtherConnects
<1>7. CASE ReadFrame \/ ReadEmpty
  <2>1. conn \in Conns /\ data[conn] # <<>>
    BY <1>7, ReadTyped DEF ReadFrame, ReadEmpty, Reads
  <2> QED
    BY <1>7, <2>1 DEF ReadFrame, ReadEmpty, Consume, Typed, PerceptionTypeOK
<1>8. CASE Refuse \/ EndOfConnection \/ ListenerRaises \/ StopIsNoticed \/ ServiceRestarts
  BY <1>8 DEF Refuse, EndOfConnection, ListenerRaises, StopIsNoticed, ServiceRestarts
<1>9. ASSUME NEW c \in Conns, OtherSends(c) \/ OtherCloses(c) \/ Break(c)
      PROVE  QueueStays
  <2>1. CASE OtherSends(c)
    BY <2>1 DEF OtherSends, Typed, PerceptionTypeOK
  <2>2. CASE OtherCloses(c) BY <2>2, HungUp DEF OtherCloses
  <2>3. CASE Break(c)
    <3>1. \A d \in Conns : link'[d] = "up" => link[d] = "up"
      BY <2>3, HungUp DEF Break
    <3>2. \A d \in Conns : data'[d] # <<>> => data[d] # <<>> \/ link[d] = "up"
      BY <2>3 DEF Break, Typed, PerceptionTypeOK
    <3> QED BY <2>3, <3>1, <3>2 DEF Break
  <2> QED BY <1>9, <2>1, <2>2, <2>3
<1> QED
  BY <1>1, <1>2, <1>3, <1>4, <1>5, <1>6, <1>7, <1>8, <1>9
  DEF PerceptionNext, Uno, Listener, Others

LEMMA QueueStep ==
  ASSUME Typed, QueueOK, [PerceptionNext]_perceptionVars
  PROVE  QueueOK'
<1>0. /\ backlog \in Seq(1 .. opened) /\ opened \in Nat /\ conn \in Nat
      /\ data \in [Conns -> Seq(Message)] /\ link \in [Conns -> {"up", "down", "gone"}]
  BY PerceptionAssumption DEF Typed, PerceptionTypeOK
<1>1. CASE QueueStays BY <1>1, QueueKept
<1>2. CASE Accept
  <2>1. /\ backlog # <<>> /\ conn' = Head(backlog) /\ backlog' = Tail(backlog)
        /\ UNCHANGED <<data, link>> /\ conn = 0
    BY <1>2 DEF Accept, connVars, Typed, PerceptionTypeOK
  <2>2. /\ Len(backlog) \in Nat /\ Len(backlog) > 0 /\ Len(backlog') = Len(backlog) - 1
        /\ conn' = backlog[1] /\ \A k \in 1 .. Len(backlog') : backlog'[k] = backlog[k + 1]
    BY <1>0, <2>1, Served
  <2>3. ASSUME NEW c, InReach(c), c # 0 PROVE InReach(c)'
    <3>1. PICK k \in 1 .. Len(backlog) : backlog[k] = c
      BY <2>1, <2>3 DEF InReach, Elements
    <3>2. CASE k = 1 BY <2>2, <3>1, <3>2 DEF InReach
    <3>3. CASE k # 1
      <4>1. k - 1 \in 1 .. Len(backlog') /\ backlog'[k - 1] = c BY <2>2, <3>1, <3>3
      <4> QED BY <4>1 DEF InReach, Elements
    <3> QED BY <3>2, <3>3
  <2>4. \A c \in Elements(backlog') : conn' < c
    <3> SUFFICES ASSUME NEW k \in 1 .. Len(backlog') PROVE conn' < backlog'[k]
      BY DEF Elements
    <3>1. 1 \in 1 .. Len(backlog) /\ k + 1 \in 1 .. Len(backlog) /\ 1 < k + 1 BY <2>2
    <3> QED BY <2>2, <3>1 DEF QueueOK
  <2>5. ASSUME NEW m \in 1 .. Len(backlog'), NEW n \in 1 .. Len(backlog'), m < n
        PROVE  backlog'[m] < backlog'[n]
    <3>1. m + 1 \in 1 .. Len(backlog) /\ n + 1 \in 1 .. Len(backlog) /\ m + 1 < n + 1
      BY <2>2, <2>5
    <3> QED BY <2>2, <3>1 DEF QueueOK
  <2>6. \A c \in Conns : c # 0 BY DEF Conns
  <2> QED BY <2>1, <2>3, <2>4, <2>5, <2>6 DEF QueueOK
<1>3. CASE CloseConn
  <2>1. UNCHANGED backlog /\ conn' = 0 /\ \A c \in Elements(backlog) : 0 < c
    BY <1>0, <1>3 DEF CloseConn, Elements
  <2>2. \A c \in Conns : data'[c] # <<>> \/ link'[c] = "up" =>
          c # conn /\ (data[c] # <<>> \/ link[c] = "up")
    BY <1>0, <1>3 DEF CloseConn
  <2> QED BY <2>1, <2>2 DEF QueueOK, InReach
<1>4. CASE CloseAll
  BY <1>4, NoMessages DEF CloseAll, QueueOK
<1>5. ASSUME NEW who \in {"uno", "other"}, Open(who) PROVE QueueOK'
  <2>1. /\ UNCHANGED <<data, conn>> /\ backlog' = Append(backlog, opened + 1)
        /\ \A c \in Conns : link'[c] = "up" => link[c] = "up" \/ c = opened + 1
    BY <1>0, <1>5 DEF Open, earVars
  <2>2. /\ Len(backlog') = Len(backlog) + 1 /\ Len(backlog) \in Nat
        /\ backlog'[Len(backlog) + 1] = opened + 1
        /\ \A k \in 1 .. Len(backlog) : backlog'[k] = backlog[k]
    <3>1. backlog \in Seq(1 .. opened + 1) BY <1>0, WiderSeq
    <3>2. opened + 1 \in 1 .. opened + 1 BY <1>0
    <3> QED BY <2>1, <3>1, <3>2, Appended
  <2>3. Elements(backlog') = Elements(backlog) \cup {opened + 1}
    <3>1. backlog \in Seq(1 .. opened + 1) BY <1>0, WiderSeq
    <3>2. opened + 1 \in 1 .. opened + 1 BY <1>0
    <3> QED BY <2>1, <3>1, <3>2, AppendedElements
  <2>4. conn < opened + 1 /\ \A k \in 1 .. Len(backlog) : backlog[k] < opened + 1
    BY <1>0 DEF Typed, PerceptionTypeOK
  <2>5. ASSUME NEW m \in 1 .. Len(backlog'), NEW n \in 1 .. Len(backlog'), m < n
        PROVE  backlog'[m] < backlog'[n]
    <3>1. m \in 1 .. Len(backlog) /\ (n \in 1 .. Len(backlog) \/ n = Len(backlog) + 1)
      BY <2>2, <2>5
    <3> QED BY <2>2, <2>4, <2>5, <3>1 DEF QueueOK
  <2> QED BY <2>1, <2>3, <2>4, <2>5 DEF QueueOK, InReach
<1> QED BY <1>1, <1>2, <1>3, <1>4, <1>5, MostStepsKeepQueue

-----------------------------------------------------------------------------
(* What the steps do to the frames under way: all but one only take frames   *)
(* away.                                                                     *)
RisingAll == \A c \in Conns : Rising(data[c])

NothingAdded ==
  \A c \in Conns : Rising(data'[c]) /\ FramesIn(data'[c]) \subseteq FramesIn(data[c])

LEMMA OddIsNoFrame ==
  \A m \in Strange \cup {Partial} : m \notin 1 .. MaxFrames /\ m \in Message
  BY PerceptionAssumption
  DEF Strange, Message, Partial, Oversized, Undecodable, BareElements, Empty

LEMMA OnlySendAllAdds ==
  ASSUME Typed, RisingAll, [PerceptionNext]_perceptionVars
  PROVE  NothingAdded \/ SendAll
<1> USE DEF NothingAdded, RisingAll
<1>0. data \in [Conns -> Seq(Message)] BY DEF Typed, PerceptionTypeOK
<1>1. CASE UNCHANGED data BY <1>1
<1>2. CASE SendAllFails
  <2>1. sock \in Conns /\ data[sock] \in Seq(Message)
    BY <1>2, SockTyped DEF SendAllFails
  <2>2. PICK list \in {data[sock], Append(data[sock], Partial)} :
          data' = [data EXCEPT ![sock] = list]
    BY <1>2 DEF SendAllFails, LeftBehind
  <2>3. Partial \in Message /\ Partial \notin 1 .. MaxFrames BY OddIsNoFrame
  <2>4. Rising(list) /\ FramesIn(list) \subseteq FramesIn(data[sock])
    <3>1. CASE list = data[sock] BY <2>1, <3>1
    <3>2. CASE list = Append(data[sock], Partial)
      <4>1. \A f \in FramesIn(list) : f \in 1 .. MaxFrames BY DEF FramesIn
      <4> QED BY <2>1, <2>3, <3>2, <4>1, AppendedFrames
    <3> QED BY <3>1, <3>2
  <2> QED BY <1>0, <2>1, <2>2, <2>4
<1>3. CASE ReadFrame \/ ReadEmpty
  <2>1. conn \in Conns /\ data[conn] \in Seq(Message) /\ data[conn] # <<>>
        /\ data' = [data EXCEPT ![conn] = Tail(data[conn])]
    BY <1>3, ReadTyped DEF ReadFrame, ReadEmpty, Reads, Consume
  <2> QED BY <1>0, <2>1, TakenFrames
<1>4. CASE CloseConn \/ CloseAll
  BY <1>0, <1>4, NoMessages DEF CloseConn, CloseAll
<1>5. ASSUME NEW c \in Conns, OtherSends(c) PROVE NothingAdded
  <2>1. PICK m \in Strange : data' = [data EXCEPT ![c] = <<m>>] BY <1>5 DEF OtherSends
  <2>2. m \notin 1 .. MaxFrames BY OddIsNoFrame
  <2>3. Rising(<<m>>) /\ FramesIn(<<m>>) = {}
    BY <2>2 DEF Rising, FramesIn
  <2> QED BY <1>0, <2>1, <2>3
<1>6. ASSUME NEW c \in Conns, Break(c) PROVE NothingAdded
  <2>1. PICK n \in 0 .. Len(data[c]) : data' = [data EXCEPT ![c] = SubSeq(data[c], 1, n)]
    BY <1>6 DEF Break
  <2> QED BY <1>0, <2>1, CutFrames
<1> QED
  BY <1>1, <1>2, <1>3, <1>4, <1>5, <1>6
  DEF PerceptionNext, Uno, Listener, Others, Capture, UnoEnds, UnoRestarts, Connect,
      ConnectFails, Open, Accept, Refuse, EndOfConnection, ListenerRaises, Govern,
      StopIsNoticed, Stop, ServiceRestarts, OtherConnects, OtherCloses, connVars,
      perceptionVars

(* The frame being sent goes to the end of the UNO Q's own connection.       *)
LEMMA SendAllAdds ==
  ASSUME Typed, RisingAll, SendAll,
         \A c \in Conns : \A f \in FramesIn(data[c]) : f < frame
  PROVE  /\ RisingAll'
         /\ \A c \in Conns : \A f \in FramesIn(data'[c]) :
              f \in FramesIn(data[c]) \/ (c = sock /\ f = frame)
<1>1. /\ sock \in Conns /\ data[sock] \in Seq(Message)
      /\ data \in [Conns -> Seq(Message)] /\ frame \in Message
  BY SockTyped, PerceptionAssumption DEF SendAll, Typed, PerceptionTypeOK, Message
<1>2. Rising(Append(data[sock], frame))
      /\ \A f \in FramesIn(Append(data[sock], frame)) : f \in FramesIn(data[sock]) \/ f = frame
  BY <1>1, AppendedFrames DEF RisingAll
<1>3. CASE link[sock] = "up"
  <2>1. data' = [data EXCEPT ![sock] = Append(data[sock], frame)] BY <1>3 DEF SendAll
  <2> QED BY <1>1, <1>2, <2>1 DEF RisingAll
<1>4. CASE link[sock] # "up" BY <1>4 DEF SendAll, RisingAll
<1> QED BY <1>3, <1>4

LEMMA SockStep ==
  ASSUME Typed, QueueOK, SockOK, RisingAll, [PerceptionNext]_perceptionVars,
         uno_pc = "send" => \A c \in Conns : \A f \in FramesIn(data[c]) : f < frame
  PROVE  SockOK'
<1>0. opened \in Nat /\ sock \in 0 .. opened /\ peer \in [Conns -> {"uno", "other"}]
  BY PerceptionAssumption DEF Typed, PerceptionTypeOK
<1>1. ASSUME NEW c \in Conns, peer[c] = "other" PROVE FramesIn(data'[c]) = {}
  <2>1. FramesIn(data[c]) = {} BY <1>1 DEF SockOK
  <2>2. CASE NothingAdded BY <2>1, <2>2 DEF NothingAdded
  <2>3. CASE SendAll
    <3>1. c # sock /\ uno_pc = "send" BY <1>1, <2>3 DEF SockOK, SendAll
    <3> QED BY <2>1, <2>3, <3>1, SendAllAdds
  <2> QED BY <2>2, <2>3, OnlySendAllAdds
<1>2. CASE UNCHANGED <<opened, peer>> /\ sock' \in {sock, 0}
  BY <1>1, <1>2 DEF SockOK
<1>3. ASSUME NEW who \in {"uno", "other"}, Open(who),
             sock' = IF who = "uno" THEN opened + 1 ELSE sock
      PROVE  SockOK'
  <2>1. opened + 1 \in Conns /\ opened' = opened + 1 /\ UNCHANGED data
        /\ peer' = [peer EXCEPT ![opened + 1] = who]
    BY <1>3, OpenTyped DEF Open
  <2>2. data[opened + 1] = <<>>
    <3>1. ~InReach(opened + 1) BY <1>0, InReachIsOpen
    <3> QED BY <2>1, <3>1 DEF QueueOK
  <2>3. \A c \in Conns : peer'[c] = "other" => FramesIn(data'[c]) = {}
    BY <1>0, <1>1, <2>1, <2>2, NoMessages
  <2>4. CASE who = "uno"
    BY <1>0, <1>3, <2>1, <2>3, <2>4 DEF SockOK, Conns
  <2>5. CASE who = "other"
    <3>1. \A c \in Conns : c <= opened' => c <= opened \/ c = opened + 1
      BY <1>0, <2>1 DEF Conns
    <3>2. sock # 0 => sock # opened + 1 /\ sock \in Conns
      BY <1>0, SockTyped
    <3> QED BY <1>0, <1>3, <2>1, <2>3, <2>5, <3>1, <3>2 DEF SockOK
  <2> QED BY <2>4, <2>5
<1>4. CASE Connect \/ OtherConnects
  BY <1>3, <1>4 DEF Connect, OtherConnects, unoVars
<1> QED
  BY <1>2, <1>4
  DEF PerceptionNext, Uno, Listener, Others, Capture, UnoEnds, UnoRestarts, ConnectFails,
      SendAll, SendAllFails, DropSocket, Accept, ReadFrame, ReadEmpty, Refuse,
      EndOfConnection, CloseConn, ListenerRaises, CloseAll, Govern, StopIsNoticed, Stop,
      ServiceRestarts, OtherSends, OtherCloses, Break, unoVars, connVars, perceptionVars

-----------------------------------------------------------------------------
(* The frames governed, in hand and under way, in that order, and later      *)
(* connections after earlier ones.                                           *)
OrderOK ==
  /\ RisingAll
  /\ \A c, d \in Conns : c < d =>
       \A f \in FramesIn(data[c]), g \in FramesIn(data[d]) : f < g
  /\ \A c \in Conns : \A f \in FramesIn(data[c]) :
       in_hand < f /\ \A g \in Elements(governed) : g < f
  /\ in_hand # 0 => \A g \in Elements(governed) : g < in_hand
  /\ \A m, n \in 1 .. Len(governed) : m < n => governed[m] < governed[n]

HandedOver(f) ==
  \/ f \in Elements(governed)
  \/ f = in_hand /\ f # 0
  \/ \E c \in Conns : f \in FramesIn(data[c])

(* The UNO Q has come to frame f, and is done with it.                       *)
Settled(f) == f <= frame /\ (uno_pc = "send" => f < frame)

GivenUpOK ==
  /\ \A f \in 1 .. MaxFrames : HandedOver(f) => Settled(f)
  /\ \A f \in failed : Settled(f) /\ ~HandedOver(f)

PerceptionInv == Typed /\ QueueOK /\ SockOK /\ OrderOK /\ GivenUpOK

LEMMA PerceptionInvInit ==
  ASSUME PerceptionInit
  PROVE  PerceptionInv
<1>1. Typed BY TypedInit
<1>2. QueueOK /\ SockOK /\ OrderOK /\ GivenUpOK
  BY NoMessages
  DEF PerceptionInit, QueueOK, SockOK, OrderOK, RisingAll, GivenUpOK, HandedOver, InReach
<1> QED BY <1>1, <1>2 DEF PerceptionInv

LEMMA UnderWayIsOlder ==
  ASSUME PerceptionInv, uno_pc = "send"
  PROVE  \A c \in Conns : \A f \in FramesIn(data[c]) : f < frame
  BY DEF PerceptionInv, GivenUpOK, HandedOver, Settled, FramesIn

(* What is read next is older than all that is under way.                    *)
LEMMA NextIsOldest ==
  ASSUME PerceptionInv, ReadFrame
  PROVE  LET next == Head(data[conn])
         IN  /\ conn \in Conns /\ next \in FramesIn(data[conn])
             /\ \A c \in Conns : \A f \in FramesIn(data'[c]) :
                  f \in FramesIn(data[c]) /\ next < f
<1> DEFINE next == Head(data[conn])
<1>1. /\ conn \in Conns /\ data[conn] \in Seq(Message) /\ data[conn] # <<>>
      /\ data' = [data EXCEPT ![conn] = Tail(data[conn])] /\ next \in 1 .. MaxFrames
  BY ReadTyped DEF PerceptionInv, ReadFrame, Reads, Consume
<1>2. Rising(data[conn]) BY <1>1 DEF PerceptionInv, OrderOK, RisingAll
<1>3. /\ next \in FramesIn(data[conn])
      /\ FramesIn(Tail(data[conn])) \subseteq FramesIn(data[conn])
      /\ \A f \in FramesIn(Tail(data[conn])) : next < f
  BY <1>1, <1>2, TakenFrames
<1>4. ASSUME NEW c \in Conns, NEW f \in FramesIn(data'[c])
      PROVE  f \in FramesIn(data[c]) /\ next < f
  <2>1. CASE c = conn
    BY <1>1, <1>3, <1>4, <2>1 DEF PerceptionInv, Typed, PerceptionTypeOK
  <2>2. CASE c # conn
    <3>1. f \in FramesIn(data[c])
      BY <1>1, <1>4, <2>2 DEF PerceptionInv, Typed, PerceptionTypeOK
    <3>2. data[c] # <<>> BY <3>1, NoMessages
    <3>3. conn < c
      BY <2>2, <3>2 DEF PerceptionInv, QueueOK, InReach
    <3> QED BY <1>1, <1>3, <3>1, <3>3 DEF PerceptionInv, OrderOK
  <2> QED BY <2>1, <2>2
<1> QED BY <1>1, <1>3, <1>4

LEMMA OrderStep ==
  ASSUME PerceptionInv, [PerceptionNext]_perceptionVars
  PROVE  OrderOK'
<1> USE DEF PerceptionInv
<1>0. in_hand \in 0 .. MaxFrames /\ governed \in Seq(1 .. MaxFrames) /\ MaxFrames \in Nat
      /\ \A c \in Conns : FramesIn(data'[c]) \subseteq 1 .. MaxFrames
  BY PerceptionAssumption DEF Typed, PerceptionTypeOK, FramesIn
<1>1. CASE SendAll
  <2>1. \A c \in Conns : \A f \in FramesIn(data[c]) : f < frame
    BY <1>1, UnderWayIsOlder DEF SendAll
  <2>2. /\ RisingAll'
        /\ \A c \in Conns : \A f \in FramesIn(data'[c]) :
             f \in FramesIn(data[c]) \/ (c = sock /\ f = frame)
    BY <1>1, <2>1, SendAllAdds DEF OrderOK
  <2>3. /\ UNCHANGED <<in_hand, governed>> /\ sock \in Conns /\ sock # 0
        /\ in_hand < frame /\ \A g \in Elements(governed) : g < frame
    <3>1. UNCHANGED <<in_hand, governed>> /\ sock \in Conns /\ uno_pc = "send" /\ sock # 0
          /\ frame \in 1 .. MaxFrames
      BY <1>0, <1>1, SockTyped DEF SendAll, earVars, Typed, PerceptionTypeOK
    <3>2. \A g \in Elements(governed) : g \in 1 .. MaxFrames
      BY <1>0 DEF Elements
    <3>3. \A g \in Elements(governed) : g < frame
      BY <3>1, <3>2 DEF GivenUpOK, HandedOver, Settled
    <3>4. in_hand < frame
      <4>1. CASE in_hand = 0 BY <3>1, <4>1
      <4>2. CASE in_hand # 0
        <5>1. in_hand \in 1 .. MaxFrames BY <1>0, <4>2
        <5> QED BY <3>1, <4>2, <5>1 DEF GivenUpOK, HandedOver, Settled
      <4> QED BY <4>1, <4>2
    <3> QED BY <3>1, <3>3, <3>4
  <2>4. ASSUME NEW c \in Conns, NEW d \in Conns, c < d,
               NEW f \in FramesIn(data'[c]), NEW g \in FramesIn(data'[d])
        PROVE  f < g
    <3>1. CASE f \in FramesIn(data[c]) /\ g \in FramesIn(data[d])
      BY <2>4, <3>1 DEF OrderOK
    <3>2. CASE f \in FramesIn(data[c]) /\ d = sock /\ g = frame
      BY <2>1, <3>2
    <3>3. CASE c = sock /\ f = frame
      <4>1. d # sock
        <5>1. c \in Nat /\ d \in Nat BY DEF Conns
        <5> QED BY <2>4, <3>3, <5>1
      <4>2. g \in FramesIn(data[d]) BY <2>2, <4>1
      <4>3. data[d] # <<>> BY <4>2, NoMessages
      <4>4. d <= opened
        BY <4>3, InReachIsOpen, PerceptionAssumption
        DEF QueueOK, Typed, PerceptionTypeOK
      <4>5. FramesIn(data[d]) = {} BY <2>3, <2>4, <3>3, <4>4 DEF SockOK
      <4> QED BY <4>2, <4>5
    <3> QED BY <2>2, <3>1, <3>2, <3>3
  <2> QED BY <2>2, <2>3, <2>4 DEF OrderOK
<1>2. CASE ReadFrame
  <2>1. NothingAdded
    BY <1>2, OnlySendAllAdds
       DEF ReadFrame, SendAll, unoVars, OrderOK, PerceptionNext, Listener
  <2> DEFINE next == Head(data[conn])
  <2>2. /\ conn \in Conns /\ next \in FramesIn(data[conn])
        /\ \A c \in Conns : \A f \in FramesIn(data'[c]) :
             f \in FramesIn(data[c]) /\ next < f
    BY <1>2, NextIsOldest
  <2>3. in_hand' = next /\ UNCHANGED governed BY <1>2 DEF ReadFrame
  <2>4. RisingAll' BY <2>1 DEF NothingAdded, RisingAll
  <2>5. \A g \in Elements(governed) : g < next BY <2>2 DEF OrderOK
  <2> HIDE DEF next
  <2> QED BY <2>2, <2>3, <2>4, <2>5 DEF OrderOK
<1>3. CASE Govern
  <2>1. in_hand \in 1 .. MaxFrames /\ in_hand # 0 /\ governed' = Append(governed, in_hand)
        /\ in_hand' = 0 /\ UNCHANGED data
    BY <1>0, <1>3 DEF Govern, Typed, connVars
  <2>2. Elements(governed') = Elements(governed) \cup {in_hand}
    BY <1>0, <2>1, AppendedElements
  <2>3. \A m, n \in 1 .. Len(governed') : m < n => governed'[m] < governed'[n]
    <3> SUFFICES ASSUME NEW m \in 1 .. Len(governed'), NEW n \in 1 .. Len(governed'), m < n
                 PROVE  governed'[m] < governed'[n]
      OBVIOUS
    <3>1. /\ Len(governed') = Len(governed) + 1 /\ Len(governed) \in Nat
          /\ governed'[Len(governed) + 1] = in_hand
          /\ \A k \in 1 .. Len(governed) : governed'[k] = governed[k]
      BY <1>0, <2>1, Appended
    <3>2. m \in 1 .. Len(governed) BY <3>1
    <3>3. CASE n \in 1 .. Len(governed) BY <3>1, <3>2, <3>3 DEF OrderOK
    <3>4. CASE n = Len(governed) + 1
      <4>1. governed[m] \in Elements(governed) BY <3>2 DEF Elements
      <4>2. governed[m] < in_hand BY <2>1, <4>1 DEF OrderOK
      <4> QED BY <3>1, <3>2, <3>4, <4>2
    <3> QED BY <3>1, <3>3, <3>4
  <2>4. \A c \in Conns : \A f \in FramesIn(data[c]) : 0 < f
    BY <1>0 DEF FramesIn
  <2> QED BY <2>1, <2>2, <2>3, <2>4 DEF OrderOK, RisingAll
<1>4. CASE NothingAdded /\ UNCHANGED governed /\ in_hand' \in {in_hand, 0}
  <2>1. \A c \in Conns : \A f \in FramesIn(data'[c]) : 0 < f BY <1>0
  <2> QED BY <1>4, <2>1 DEF NothingAdded, OrderOK, RisingAll
<1>5. SendAll \/ ReadFrame \/ Govern \/ (UNCHANGED governed /\ in_hand' \in {in_hand, 0})
  BY DEF PerceptionNext, Uno, Listener, Others, Capture, UnoEnds, UnoRestarts, Connect,
      ConnectFails, SendAllFails, Open, Accept, ReadEmpty, Refuse, EndOfConnection,
      CloseConn, ListenerRaises, CloseAll, StopIsNoticed, Stop, ServiceRestarts,
      OtherConnects, OtherSends, OtherCloses, Break, earVars, perceptionVars
<1> QED BY <1>1, <1>2, <1>3, <1>4, <1>5, OnlySendAllAdds DEF OrderOK

(* A frame is given up by the sender before it goes on, so never after it    *)
(* was handed over.                                                          *)
LEMMA GivenUpStep ==
  ASSUME PerceptionInv, [PerceptionNext]_perceptionVars
  PROVE  GivenUpOK'
<1> USE DEF PerceptionInv
<1>0. /\ frame \in 0 .. MaxFrames /\ MaxFrames \in Nat /\ failed \subseteq 1 .. MaxFrames
      /\ in_hand \in 0 .. MaxFrames /\ governed \in Seq(1 .. MaxFrames)
  BY PerceptionAssumption DEF Typed, PerceptionTypeOK
<1>1. CASE SendAll
  <2>1. \A c \in Conns : \A f \in FramesIn(data'[c]) : f \in FramesIn(data[c]) \/ f = frame
    BY <1>1, UnderWayIsOlder, SendAllAdds DEF SendAll, OrderOK
  <2>2. uno_pc = "send" /\ uno_pc' = "capture"
        /\ UNCHANGED <<frame, failed, in_hand, governed>>
    BY <1>1 DEF SendAll, earVars
  <2>3. \A f : HandedOver(f)' => HandedOver(f) \/ f = frame
    BY <2>1, <2>2 DEF HandedOver
  <2>4. \A f : Settled(f) => Settled(f)' /\ f # frame
    BY <1>0, <2>2 DEF Settled
  <2>5. frame \in failed => FALSE BY <2>4 DEF GivenUpOK
  <2>6. Settled(frame)' BY <1>0, <2>2 DEF Settled
  <2> QED BY <2>2, <2>3, <2>4, <2>5, <2>6 DEF GivenUpOK
<1>2. CASE ~SendAll
  <2>1. NothingAdded BY <1>2, OnlySendAllAdds DEF OrderOK
  <2>2. \A f : HandedOver(f)' => HandedOver(f)
    <3>1. CASE UNCHANGED governed /\ in_hand' \in {in_hand, 0}
      BY <2>1, <3>1 DEF HandedOver, NothingAdded
    <3>2. CASE ReadFrame
      <4>1. conn \in Conns /\ Head(data[conn]) \in FramesIn(data[conn])
        BY <3>2, NextIsOldest
      <4> QED BY <2>1, <3>2, <4>1 DEF ReadFrame, HandedOver, NothingAdded
    <3>3. CASE Govern
      <4>1. in_hand \in 1 .. MaxFrames /\ governed' = Append(governed, in_hand)
            /\ in_hand' = 0 /\ in_hand # 0
        BY <1>0, <3>3 DEF Govern, Typed
      <4>2. Elements(governed') = Elements(governed) \cup {in_hand}
        BY <1>0, <4>1, AppendedElements
      <4> QED BY <2>1, <4>1, <4>2 DEF HandedOver, NothingAdded
    <3>4. ReadFrame \/ Govern \/ (UNCHANGED governed /\ in_hand' \in {in_hand, 0})
      BY <1>2
      DEF PerceptionNext, Uno, Listener, Others, Capture, UnoEnds, UnoRestarts, Connect,
          ConnectFails, SendAllFails, Open, Accept, ReadEmpty, Refuse, EndOfConnection,
          CloseConn, ListenerRaises, CloseAll, StopIsNoticed, Stop, ServiceRestarts,
          OtherConnects, OtherSends, OtherCloses, Break, earVars, perceptionVars
    <3> QED BY <3>1, <3>2, <3>3, <3>4
  <2>3. CASE Capture
    <3>1. frame' = frame + 1 /\ UNCHANGED failed BY <2>3 DEF Capture
    <3>2. \A f \in 1 .. MaxFrames : Settled(f) => Settled(f)'
      BY <1>0, <3>1 DEF Settled
    <3> QED BY <1>0, <2>2, <3>1, <3>2 DEF GivenUpOK
  <2>4. CASE UNCHANGED <<frame, failed>> /\ uno_pc' \in {uno_pc, "capture", "ended"}
    <3>1. \A f : Settled(f) => Settled(f)' BY <2>4 DEF Settled
    <3> QED BY <2>2, <2>4, <3>1 DEF GivenUpOK
  <2>5. CASE UNCHANGED frame /\ uno_pc = "send" /\ uno_pc' = "capture"
             /\ failed' = failed \cup {frame}
    <3>1. \A f : Settled(f) => Settled(f)' BY <2>5 DEF Settled
    <3>2. Settled(frame)' BY <1>0, <2>5 DEF Settled
    <3>3. ~HandedOver(frame)
      <4>1. frame \in 1 .. MaxFrames BY <1>0, <2>5 DEF Typed
      <4>2. ~Settled(frame) BY <1>0, <2>5 DEF Settled
      <4> QED BY <4>1, <4>2 DEF GivenUpOK
    <3> QED BY <2>2, <2>5, <3>1, <3>2, <3>3 DEF GivenUpOK
  <2>6. CASE ConnectFails \/ SendAllFails
    <3>1. AttemptFails /\ uno_pc = "send" /\ UNCHANGED frame
      BY <2>6 DEF ConnectFails, SendAllFails
    <3> QED BY <2>4, <2>5, <3>1, AttemptTyped
  <2>7. Capture \/ ConnectFails \/ SendAllFails
        \/ (UNCHANGED <<frame, failed>> /\ uno_pc' \in {uno_pc, "capture", "ended"})
    BY <1>2
    DEF PerceptionNext, Uno, Listener, Others, UnoEnds, UnoRestarts, Connect, Accept,
        ReadFrame, ReadEmpty, Refuse, EndOfConnection, CloseConn, ListenerRaises, CloseAll,
        Govern, StopIsNoticed, Stop, ServiceRestarts, OtherConnects, OtherSends,
        OtherCloses, Break, unoVars, perceptionVars
  <2> QED BY <2>3, <2>4, <2>6, <2>7
<1> QED BY <1>1, <1>2

LEMMA PerceptionInvStep ==
  ASSUME PerceptionInv, [PerceptionNext]_perceptionVars
  PROVE  PerceptionInv'
<1>1. Typed' /\ QueueOK' BY TypedStep, QueueStep DEF PerceptionInv
<1>2. SockOK' BY SockStep, UnderWayIsOlder DEF PerceptionInv, OrderOK
<1>3. OrderOK' /\ GivenUpOK' BY OrderStep, GivenUpStep
<1> QED BY <1>1, <1>2, <1>3 DEF PerceptionInv

(* A frame is governed at most once, in the order it was taken, and never    *)
(* after it was given up, whatever connections break, hang or are refused    *)
(* and whichever end is restarted.                                           *)
THEOREM FramesGovernedOnce == PerceptionSpec => []GovernedOnceInOrder
<1>1. PerceptionInv => GovernedOnceInOrder
  <2>1. ASSUME PerceptionInv, NEW n \in 1 .. Len(governed) PROVE governed[n] \notin failed
    <3>1. HandedOver(governed[n]) BY DEF HandedOver, Elements
    <3> QED BY <2>1, <3>1 DEF PerceptionInv, GivenUpOK
  <2> QED BY <2>1 DEF PerceptionInv, OrderOK, GovernedOnceInOrder
<1> QED BY <1>1, PerceptionInvInit, PerceptionInvStep, PTL DEF PerceptionSpec
=============================================================================

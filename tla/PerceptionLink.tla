---------------------------- MODULE PerceptionLink ----------------------------
(***************************************************************************)
(* How detections reach the governance node: PerceptionService.run of      *)
(* linux-stack/perception/uno_q_service.py on the UNO Q, the TCP client    *)
(* and the listener of linux-stack/perception/network.py, and the loop of  *)
(* ventuno_q_service.py that takes frames from the listener.               *)
(*                                                                         *)
(* A message is a number: a frame by its own, and the rest below.  A       *)
(* connection carries messages in order until an end closes or breaks it   *)
(* ("down", which the other end finds out when it next uses it), or until  *)
(* the far host loses power ("gone": nothing comes any more, not even the  *)
(* end).  The listener reads without a timeout.                            *)
(***************************************************************************)
EXTENDS Integers, Sequences

CONSTANTS
  Backends,    (* the perception backends run on every frame                 *)
  Backlog,     (* connections the kernel queues behind the one being read    *)
  MaxFrames,   (* bound: frames the camera takes                             *)
  MaxConns     (* bound: connections opened                                  *)

ASSUME PerceptionAssumption ==
  /\ Backlog \in Nat \ {0}
  /\ MaxFrames \in Nat /\ MaxConns \in Nat

Partial == 0        (* the beginning of a message whose rest was never sent  *)
Oversized == -1     (* a length above MAX_MESSAGE_BYTES                      *)
Undecodable == -2   (* ValueError, KeyError or TypeError when decoded        *)
BareElements == -3  (* JSON whose elements are no objects: AttributeError    *)
Empty == -4         (* no detections at all                                  *)
Strange == {Oversized, Undecodable, BareElements, Empty}
Message == Strange \cup {Partial} \cup 1 .. MaxFrames
Conns == 1 .. MaxConns

VARIABLES
  uno_pc, frame,   (* the UNO Q's loop, and the frame it is at               *)
  attempt, sock,   (* send(): which of its two attempts; _sock, 0 for None   *)
  failed,          (* history: the frames send() gave up                     *)
  opened, peer, link, data,   (* the connections, numbered as they are opened*)
  backlog,         (* those not yet accepted, oldest first                   *)
  conn,            (* the one being read, or 0                               *)
  ear,             (* where the listener and the loop over it are            *)
  in_hand,         (* the frame yielded to the loop, or 0                    *)
  running,         (* GovernanceService._running                             *)
  governed         (* history: the frames process_frame was called with      *)

unoVars == <<uno_pc, frame, attempt, sock, failed>>
connVars == <<opened, peer, link, data>>
earVars == <<conn, ear, in_hand, running, governed>>
perceptionVars == <<unoVars, connVars, backlog, earVars>>

PerceptionTypeOK ==
  /\ uno_pc \in {"capture", "send", "ended"}
  /\ frame \in 0 .. MaxFrames
  /\ attempt \in 1 .. 2
  /\ sock \in 0 .. opened
  /\ failed \subseteq 1 .. MaxFrames
  /\ opened \in 0 .. MaxConns
  /\ peer \in [Conns -> {"uno", "other"}]
  /\ link \in [Conns -> {"up", "down", "gone"}]
  /\ data \in [Conns -> Seq(Message)]
  /\ backlog \in Seq(1 .. opened)
  /\ conn \in 0 .. opened
  /\ ear \in {"accept", "read", "yielded", "ended"}
  /\ conn # 0 <=> ear \in {"read", "yielded"}
  /\ in_hand \in 0 .. MaxFrames
  /\ running \in BOOLEAN
  /\ governed \in Seq(1 .. MaxFrames)

PerceptionInit ==
  /\ uno_pc = "capture" /\ frame = 0
  /\ attempt = 1 /\ sock = 0
  /\ failed = {}
  /\ opened = 0
  /\ peer = [c \in Conns |-> "uno"]
  /\ link = [c \in Conns |-> "down"]
  /\ data = [c \in Conns |-> <<>>]
  /\ backlog = <<>>
  /\ conn = 0 /\ ear = "accept" /\ in_hand = 0
  /\ running = TRUE
  /\ governed = <<>>

-----------------------------------------------------------------------------
(* The UNO Q.  A frame is sent if some backend found something in it; one    *)
(* that raises counts for nothing.                                           *)
Outputs == [Backends -> {"detections", "nothing", "raises"}]
Detected(output) == \E b \in Backends : output[b] = "detections"

Capture ==
  /\ uno_pc = "capture"
  /\ frame < MaxFrames
  /\ frame' = frame + 1
  /\ \E output \in Outputs : uno_pc' = IF Detected(output) THEN "send" ELSE "capture"
  /\ attempt' = 1
  /\ UNCHANGED <<sock, failed, connVars, backlog, earVars>>

HangUp(c) == [link EXCEPT ![c] = IF @ = "up" THEN "down" ELSE @]

(* The loop ends, because it was told to or the camera gave out.             *)
UnoEnds ==
  /\ uno_pc = "capture"
  /\ uno_pc' = "ended"
  /\ link' = IF sock = 0 THEN link ELSE HangUp(sock)
  /\ sock' = 0
  /\ UNCHANGED <<frame, attempt, failed, opened, peer, data, backlog, earVars>>

(* Started again after a crash, which closes the connection, or a loss of    *)
(* power, which leaves it hanging.                                           *)
UnoRestarts ==
  /\ uno_pc' = "capture"
  /\ \E left \in {"down", "gone"} :
       link' = IF sock = 0 \/ link[sock] = "down" THEN link
               ELSE [link EXCEPT ![sock] = left]
  /\ attempt' = 1 /\ sock' = 0
  /\ UNCHANGED <<frame, failed, opened, peer, data, backlog, earVars>>

(* An attempt of send() raised OSError: another one, or the frame is given   *)
(* up and the loop goes on without it.                                       *)
LastAttemptOffByOne == 3   (* mutant *)
LastAttempt == 2
AttemptFails ==
  IF attempt < LastAttempt
    THEN attempt' = attempt + 1 /\ UNCHANGED <<uno_pc, failed>>
    ELSE uno_pc' = "capture" /\ failed' = failed \cup {frame} /\ UNCHANGED attempt

CanConnect == ear # "ended" /\ Len(backlog) < Backlog /\ opened < MaxConns

Open(who) ==
  /\ CanConnect
  /\ opened' = opened + 1
  /\ peer' = [peer EXCEPT ![opened + 1] = who]
  /\ link' = [link EXCEPT ![opened + 1] = "up"]
  /\ backlog' = Append(backlog, opened + 1)
  /\ UNCHANGED <<data, earVars>>

Connect ==
  /\ uno_pc = "send" /\ sock = 0
  /\ Open("uno")
  /\ sock' = opened + 1
  /\ UNCHANGED <<uno_pc, frame, attempt, failed>>

ConnectFails ==
  /\ uno_pc = "send" /\ sock = 0
  /\ AttemptFails
  /\ UNCHANGED <<frame, sock, connVars, backlog, earVars>>

(* sendall returns when the kernel has it all; what it accepts for a         *)
(* connection that is no longer up goes nowhere.                             *)
SendAll ==
  /\ uno_pc = "send" /\ sock # 0
  /\ uno_pc' = "capture"
  /\ data' = IF link[sock] = "up" THEN [data EXCEPT ![sock] = Append(@, frame)] ELSE data
  /\ UNCHANGED <<frame, attempt, sock, failed, opened, peer, link, backlog, earVars>>

(* It raises, or its timeout does, only before that: a part may have gone.   *)
LeftBehindWhole(c) == {data[c], Append(data[c], frame)}   (* mutant *)
LeftBehind(c) == {data[c], Append(data[c], Partial)}

KeepSocket == UNCHANGED <<link, sock>>   (* mutant: the error does not close *)
DropSocket == link' = HangUp(sock) /\ sock' = 0

SendAllFails ==
  /\ uno_pc = "send" /\ sock # 0
  /\ AttemptFails
  /\ \E left \in IF link[sock] = "up" THEN LeftBehind(sock) ELSE {data[sock]} :
       data' = [data EXCEPT ![sock] = left]
  /\ DropSocket
  /\ UNCHANGED <<frame, opened, peer, backlog, earVars>>

-----------------------------------------------------------------------------
(* The listener and the loop over its frames, which are one thread.          *)
Accept ==
  /\ ear = "accept" /\ backlog # <<>>
  /\ conn' = Head(backlog) /\ backlog' = Tail(backlog)
  /\ ear' = "read"
  /\ UNCHANGED <<unoVars, connVars, in_hand, running, governed>>

Reads(kinds) ==
  ear = "read" /\ data[conn] # <<>> /\ Head(data[conn]) \in kinds
Consume == data' = [data EXCEPT ![conn] = Tail(@)]

ReadFrame ==
  /\ Reads(1 .. MaxFrames)
  /\ Consume
  /\ in_hand' = Head(data[conn])
  /\ ear' = "yielded"
  /\ UNCHANGED <<unoVars, opened, peer, link, backlog, conn, running, governed>>

ReadEmpty ==
  /\ Reads({Empty})
  /\ Consume
  /\ UNCHANGED <<unoVars, opened, peer, link, backlog, earVars>>

CloseConn ==
  /\ link' = [link EXCEPT ![conn] = "down"]
  /\ data' = [data EXCEPT ![conn] = <<>>]
  /\ conn' = 0
  /\ ear' = "accept"
  /\ UNCHANGED <<unoVars, opened, peer, backlog, in_hand, running, governed>>

(* ProtocolError: the connection is dropped.                                 *)
Refuse == Reads({Oversized, Undecodable}) /\ CloseConn

(* EOFError or OSError: nothing is left, or a message that breaks off.       *)
AtItsEnd == data[conn] # <<>> => Head(data[conn]) = Partial
EndOfConnection == ear = "read" /\ AtItsEnd /\ link[conn] = "down" /\ CloseConn

(* The process closes its end of everything.                                 *)
CloseAll ==
  /\ link' = [c \in Conns |-> "down"]
  /\ data' = [c \in Conns |-> <<>>]
  /\ backlog' = <<>>
  /\ conn' = 0 /\ in_hand' = 0
  /\ UNCHANGED <<unoVars, opened, peer, governed>>

(* AttributeError, which nothing catches, ends the loop and the process.     *)
ListenerRaises == Reads({BareElements}) /\ CloseAll /\ ear' = "ended" /\ UNCHANGED running

(* The frame goes through process_frame, whose exceptions are caught, unless *)
(* the service has been stopped, which is noticed only now.                  *)
Govern ==
  /\ ear = "yielded" /\ running
  /\ governed' = Append(governed, in_hand)
  /\ in_hand' = 0
  /\ ear' = "read"
  /\ UNCHANGED <<unoVars, connVars, backlog, conn, running>>

Stop == running /\ running' = FALSE
        /\ UNCHANGED <<unoVars, connVars, backlog, conn, ear, in_hand, governed>>
StopIsNoticed ==
  ear = "yielded" /\ ~running /\ CloseAll /\ ear' = "ended" /\ UNCHANGED running
ServiceRestarts == CloseAll /\ ear' = "accept" /\ running' = TRUE

-----------------------------------------------------------------------------
(* Any other peer on the network, and the network itself.                    *)
OtherConnects == Open("other") /\ UNCHANGED unoVars

OtherSends(c) ==
  /\ peer[c] = "other" /\ link[c] = "up" /\ data[c] = <<>>
  /\ \E m \in Strange : data' = [data EXCEPT ![c] = <<m>>]
  /\ UNCHANGED <<unoVars, opened, peer, link, backlog, earVars>>

OtherCloses(c) ==
  /\ peer[c] = "other" /\ link[c] = "up"
  /\ link' = HangUp(c)
  /\ UNCHANGED <<unoVars, opened, peer, data, backlog, earVars>>

(* A connection is reset: what was still under way on it is cut off.         *)
Break(c) ==
  /\ link[c] = "up"
  /\ link' = HangUp(c)
  /\ \E n \in 0 .. Len(data[c]) : data' = [data EXCEPT ![c] = SubSeq(@, 1, n)]
  /\ UNCHANGED <<unoVars, opened, peer, backlog, earVars>>

Uno == Capture \/ UnoEnds \/ UnoRestarts
       \/ Connect \/ ConnectFails \/ SendAll \/ SendAllFails
Listener == Accept \/ ReadFrame \/ ReadEmpty \/ Refuse \/ EndOfConnection
            \/ ListenerRaises \/ Govern \/ StopIsNoticed
Others == Stop \/ ServiceRestarts \/ OtherConnects
          \/ \E c \in Conns : OtherSends(c) \/ OtherCloses(c) \/ Break(c)

PerceptionNext == Uno \/ Listener \/ Others

PerceptionSpec == PerceptionInit /\ [][PerceptionNext]_perceptionVars

(* Fairness: the listener's thread gets on with what it can do.  Nothing is  *)
(* assumed of the UNO Q, of other peers or of the network.                   *)
FairPerceptionSpec == PerceptionSpec /\ WF_perceptionVars(Listener)
=============================================================================

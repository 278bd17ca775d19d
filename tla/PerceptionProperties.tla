------------------------- MODULE PerceptionProperties -------------------------
(***************************************************************************)
(* What the way from the camera to the governance filter guarantees.       *)
(***************************************************************************)
EXTENDS PerceptionLink

(* A frame is governed at most once and in the order it was taken, whatever  *)
(* reconnects, half-sent messages, resets and restarts come between, and a   *)
(* frame reported as not delivered is never governed after all               *)
(* (network.py:126-158, 194-248, uno_q_service.py:94-111).                   *)
GovernedOnceInOrder ==
  /\ \A m, n \in 1 .. Len(governed) : m < n => governed[m] < governed[n]
  /\ \A n \in 1 .. Len(governed) : governed[n] \notin failed

(* The listener is held by a connection that does not end: its host has lost *)
(* power, or it belongs to another peer that keeps it open.                  *)
HeldUp ==
  /\ conn # 0
  /\ \/ link[conn] = "gone" /\ data[conn] = <<>>
     \/ link[conn] = "up" /\ peer[conn] = "other"

InFlight(n) == \E c \in Conns : \E k \in 1 .. Len(data[c]) : data[c][k] = n

(* The ear comes back: as long as the listener is not held up for good, a    *)
(* frame handed over is read, or lost with its connection, past any refused  *)
(* message and any connection that ended (network.py:200-243).  Without the  *)
(* premise this fails, and the ProtocolError comment's "one hostile or       *)
(* broken client must not take the governance node's ear off everyone else"  *)
(* (network.py:104-105) with it.                                             *)
EarComesBack ==
  []<>~HeldUp => \A n \in 1 .. MaxFrames : InFlight(n) ~> ~InFlight(n)

(* Nothing that comes over a connection ends the listener: a message it will *)
(* not read costs its connection, and the service ends only when it was told *)
(* to ("The listener drops it and keeps serving", network.py:103-104).       *)
ListenerKeepsServing == [][ear' = "ended" => ear = "ended" \/ ~running]_perceptionVars
=============================================================================

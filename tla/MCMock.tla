------------------------------- MODULE MCMock -------------------------------
(* The simulated node with a short watchdog and a few rows.                  *)
EXTENDS MockProperties

(* Three threads at once over a module that works, two references ...        *)
Threaded == [serialised |-> FALSE, refs |-> 0 .. 1, requests |-> {}, fails |-> FALSE]

(* ... or one handler at a time, a third reference, so that the store of     *)
(* digests wraps, requests for the relay and a module that fails.            *)
Serial ==
  [serialised |-> TRUE, refs |-> 0 .. 2, requests |-> {"OPEN", "CLOSED"}, fails |-> TRUE]

EitherSetting == {Threaded, Serial}

JustHeartbeats == {[Threaded EXCEPT !.refs = {0}]}
=============================================================================

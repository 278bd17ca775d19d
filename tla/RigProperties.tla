------------------------- MODULE RigProperties -------------------------
(***************************************************************************)
(* What the governance tier and its witness guarantee together.            *)
(***************************************************************************)
EXTENDS GovernedRig

Intact == tampered = {}

(* An override the node has latched stops the rig after at most one more     *)
(* command, the one whose frame had already been admitted, whatever is lost  *)
(* on the way to the node and however late its answers are read              *)
(* (filter.py:164-176, supervisor_link.py:177-187, 286-303).                 *)
AtMostOneAfterLatch == mode = "OVERRIDE" /\ restarts = 0 => since_latch <= 1

(* The retained digests reconcile with a log nobody has touched, and do not  *)
(* with one in which a row they cover was changed or deleted, whatever the   *)
(* wire lost and the operator accepted in between                            *)
(* (attestation.py:107-153, 207-272, supervisor_link.py:189-215).             *)
NodeRetains == {Retained(index) : index \in 0 .. ring_count - 1}

UntouchedLogVerifies == Intact /\ restarts = 0 => VerifyDatabase(NodeRetains)

EditsAreFound ==
  (\E id \in tampered : \E entry \in NodeRetains : id <= entry.ref)
    => ~VerifyDatabase(NodeRetains)

-----------------------------------------------------------------------------
(* Claims made about this code that it does not meet.                        *)

(* attestation.py:253-257 reports any other failure to reconcile as "the row *)
(* was altered after it was witnessed": a log nobody touched reconciles.     *)
FailureMeansAltered == Intact => VerifyDatabase(NodeRetains)
=============================================================================

----------------------------- MODULE MCPerception -----------------------------
(* A few frames over a few connections, some of them other peers'.           *)
EXTENDS PerceptionProperties

=============================================================================

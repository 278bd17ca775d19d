-------------------------- MODULE MCSupervisorState --------------------------
(* SupervisorState on a small ring, a short clock and a handful of rows.     *)
EXTENDS SupervisorProperties

=============================================================================

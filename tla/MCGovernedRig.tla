----------------------------- MODULE MCGovernedRig -----------------------------
(* The governed rig with a few rows and one row tampered with.               *)
EXTENDS RigProperties

(* Every detection passes the gate: what is not sent was vetoed.             *)
OneDetection == {<<"above">>}
=============================================================================

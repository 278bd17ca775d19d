------------------------------ MODULE MCR4Sketch ------------------------------
(* The firmware with a short clock, a small ring and a few rows.             *)
EXTENDS SketchProperties

=============================================================================

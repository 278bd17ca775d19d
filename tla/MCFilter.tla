------------------------------- MODULE MCFilter -------------------------------
(* The governance tier with a few rows and one restart.                      *)
EXTENDS FilterProperties

(* Both sides of the gate, and a frame whose runner-up passes it too.        *)
SomeFrames == {<<"below">>, <<"above", "at">>}
OneFrame == {<<"above">>}
=============================================================================

----------------------------- MODULE MCFrameLine -----------------------------
(* Two message types; a frame whose payload looks like the start of another, *)
(* and one with a value no enumeration has.                                  *)
EXTENDS LineProperties

TwoTypes == (1 :> 1) @@ (2 :> 3)
SomeFrames == {EncodeFrame(1, <<Byte(0)>>),
               EncodeFrame(2, <<Byte(0), Byte(NoMember), Byte(0)>>),
               EncodeFrame(2, <<Byte(MAGIC), Byte(1), Byte(1)>>)}
=============================================================================

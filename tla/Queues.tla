-------------------------------- MODULE Queues --------------------------------
(* What is in a queue, in whatever order.                                    *)
EXTENDS Integers, Sequences

Elements(list) == {list[n] : n \in 1 .. Len(list)}
=============================================================================

-------------------------------- MODULE Clock --------------------------------
(***************************************************************************)
(* The firmware's clock.  millis() is an unsigned 32 bit counter, and both *)
(* supervisor_state.cpp and latch.cpp only ever use it through             *)
(* elapsed(now, then) = now - then in that width.  Such a difference is    *)
(* kept as an age: zero when "then" is set to now, and one more, modulo    *)
(* ClockModulus, for each unit of time.                                    *)
(***************************************************************************)
EXTENDS Integers

CONSTANT ClockModulus
ASSUME ClockAssumption == ClockModulus \in Nat /\ ClockModulus > 1

Ages == 0 .. ClockModulus - 1
Older(age) == (age + 1) % ClockModulus
=============================================================================

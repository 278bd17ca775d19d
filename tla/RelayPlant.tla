----------------------------- MODULE RelayPlant -----------------------------
(***************************************************************************)
(* The Modulino latch relay and the sense circuit across its contact: the  *)
(* hardware both oversight nodes drive, as linux-stack/oversight/latch.py  *)
(* simulates it (class SimulatedLatch) and as r4_supervisor.ino reads it.  *)
(*                                                                         *)
(* The contact is bistable.  What can go wrong with it: the contact sticks *)
(* and pulses no longer move it; the module falls off the I2C bus, so that *)
(* pulses are lost and its register cannot be read; the module restarts    *)
(* and its register forgets the last command; either channel of the sense  *)
(* pair goes dark.  Each fault can come and go at any moment.              *)
(***************************************************************************)
EXTENDS Integers

CONSTANTS
  RegisterEchoes,  (* the register repeats the command, not the contact      *)
  ModuleFaults,    (* what can go wrong with the module                      *)
  SenseFails       (* can a channel of the sense pair go dark?               *)

ASSUME PlantAssumption ==
  /\ RegisterEchoes \in BOOLEAN
  /\ ModuleFaults \subseteq {"stuck", "off_bus"}
  /\ SenseFails \in BOOLEAN

VARIABLES
  contact,        (* where the contact physically is                         *)
  register,       (* what the module's own MCU would answer                  *)
  fault,          (* what is wrong with the module                           *)
  sense_a_live,   (* the channel lit while the contact is open               *)
  sense_b_live    (* the channel lit while the motor rail is live            *)

plantVars == <<contact, register, fault, sense_a_live, sense_b_live>>

Contacts == {"OPEN", "CLOSED"}
Positions == Contacts \cup {"UNKNOWN"}
Faults == ModuleFaults \cup {"none"}
ChannelStates == IF SenseFails THEN BOOLEAN ELSE {TRUE}

PlantTypeOK ==
  /\ contact \in Contacts
  /\ register \in Contacts
  /\ fault \in Faults
  /\ sense_a_live \in BOOLEAN
  /\ sense_b_live \in BOOLEAN

(* The contact comes up wherever it was left, in whatever state of repair.   *)
PlantInit ==
  /\ contact \in Contacts
  /\ register = contact
  /\ fault \in Faults
  /\ sense_a_live \in ChannelStates
  /\ sense_b_live \in ChannelStates

(* A coil pulse towards a position.                                          *)
ContactAfter(target) == IF fault = "none" THEN target ELSE contact

RegisterAfter(target) ==
  CASE fault = "off_bus" -> register
    [] RegisterEchoes    -> target
    [] OTHER             -> ContactAfter(target)

(* The two read-backs.  The register cross-checks; the antivalent sense pair *)
(* is the source of truth.                                                   *)
ReadRegister(value) == IF fault = "off_bus" THEN "UNKNOWN" ELSE value

ReadOneChannel(position) ==   (* mutant: a dark channel b reads as open *)
  IF sense_b_live /\ position = "CLOSED" THEN "CLOSED" ELSE "OPEN"

ReadSense(position) ==
  LET channel_a == sense_a_live /\ position = "OPEN"
      channel_b == sense_b_live /\ position = "CLOSED"
  IN  CASE channel_a /\ ~channel_b -> "OPEN"
        [] channel_b /\ ~channel_a -> "CLOSED"
        [] OTHER                   -> "UNKNOWN"

-----------------------------------------------------------------------------
ModuleFault ==
  /\ fault' \in Faults \ {fault}
  /\ UNCHANGED <<contact, register, sense_a_live, sense_b_live>>

SenseFault ==
  /\ SenseFails
  /\ \/ sense_a_live' = ~sense_a_live /\ UNCHANGED sense_b_live
     \/ sense_b_live' = ~sense_b_live /\ UNCHANGED sense_a_live
  /\ UNCHANGED <<contact, register, fault>>

(* The module loses power and comes back: the contact has not moved.         *)
PowerCycle ==
  /\ register' = contact
  /\ UNCHANGED <<contact, fault, sense_a_live, sense_b_live>>

PlantNext == ModuleFault \/ SenseFault \/ PowerCycle
=============================================================================

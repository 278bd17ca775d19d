-------------------------- MODULE OversightContract --------------------------
(***************************************************************************)
(* What the oversight node promises the rest of the system, whatever board *)
(* or thread runs it: a veto that any cause may raise, that keeps the      *)
(* cause which raised it, that stands at least as long as the operator's   *)
(* button is held, and that only a release takes down; and a witness of    *)
(* the audit log that grows one reference at a time and never rewrites     *)
(* what it holds, except for the jumps a release has accepted.             *)
(***************************************************************************)
EXTENDS Integers, Sequences

CONSTANTS Causes, NoCause, MaxRef, Digests, NoDigest

VARIABLES
  veto,    (* may the motors be powered?                                     *)
  cause,   (* what raised the veto, NoCause when there is none               *)
  held,    (* the operator is holding the button                             *)
  ledger   (* what has been witnessed, in order                              *)

contract == <<veto, cause, held, ledger>>

LastWitnessed == IF ledger = <<>> THEN 0 ELSE ledger[Len(ledger)].ref

ContractInit ==
  /\ veto = FALSE
  /\ cause = NoCause
  /\ held = FALSE
  /\ ledger = <<>>

Raise ==
  /\ ~veto
  /\ veto' = TRUE
  /\ cause' \in Causes
  /\ held' \in BOOLEAN
  /\ UNCHANGED ledger

(* The button moves while a veto already stands.                             *)
Hold ==
  /\ veto
  /\ held' \in BOOLEAN
  /\ UNCHANGED <<veto, cause, ledger>>

Witness ==
  /\ LastWitnessed < MaxRef
  /\ \E digest \in Digests :
       ledger' = Append(ledger, [ref |-> LastWitnessed + 1, digest |-> digest,
                                 by |-> "digest"])
  /\ UNCHANGED <<veto, cause, held>>

Release ==
  /\ veto
  /\ ~held
  /\ veto' = FALSE
  /\ cause' = NoCause
  /\ UNCHANGED held
  /\ \/ UNCHANGED ledger
     \/ \E ref \in LastWitnessed + 1 .. MaxRef :
          ledger' = Append(ledger, [ref |-> ref, digest |-> NoDigest,
                                    by |-> "operator"])

ContractNext == Raise \/ Hold \/ Witness \/ Release

ContractSpec == ContractInit /\ [][ContractNext]_contract
=============================================================================

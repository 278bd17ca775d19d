------------------------ MODULE SupervisorProperties ------------------------
(***************************************************************************)
(* What SupervisorState is meant to guarantee to every caller.             *)
(***************************************************************************)
EXTENDS SupervisorState

(* No cause can be papered over: while the operator's button is held, or a   *)
(* chain alert stands, the override stands too, whatever order the button,   *)
(* the digests and the clears arrive in; and the node shows a reason exactly *)
(* while it is halted (supervisor_state.cpp:35-60, 93-97, 113-120).          *)
CausesHoldOverride ==
  /\ button_pressed => mode = "OVERRIDE"
  /\ chain_alert => mode = "OVERRIDE"
  /\ override_reason # NoReason <=> mode = "OVERRIDE"

(* What an auditor reads off the node, oldest first, is the tail of what it  *)
(* filed, reference and digest both, however often the ring has wrapped and  *)
(* however many clears and rejected digests came in between: index by index  *)
(* it comes from later and later places of the ledger, and nothing filed is  *)
(* missing but what a full ring has overwritten, which is older than all it  *)
(* holds (supervisor_state.cpp:85-92, 145-156).                              *)
Filed == {n \in 1 .. Len(ledger) : ledger[n].by = "digest"}
Indices == 0 .. ring_count - 1

IsTailOfFiled(at) ==
  /\ \A index \in Indices :
       Retained(index) = [ref |-> ledger[at[index]].ref, digest |-> ledger[at[index]].digest]
  /\ \A i, j \in Indices : i < j => at[i] < at[j]
  /\ \A n \in Filed : \/ \E index \in Indices : at[index] = n
                      \/ ring_count = DigestCapacity /\ n < at[0]

RetainedIsTailOfFiled == \E at \in [Indices -> Filed] : IsTailOfFiled(at)

(* A hole in the references an auditor reads off the node is one an operator *)
(* accepted: its upper edge is where a clear moved last_ref to               *)
(* (supervisor_state.cpp:48-54, 76-83).                                      *)
HolesWereAccepted ==
  \A index \in 0 .. ring_count - 2 :
    LET older == Retained(index).ref
        newer == Retained(index + 1).ref
    IN  /\ older < newer
        /\ newer # older + 1 =>
             \E k \in 1 .. Len(ledger) :
               ledger[k].by = "operator" /\ ledger[k].ref = newer - 1

(* The inductive invariant behind the theorems: the causes hold the override,*)
(* the age the code computes is the real silence until the clock has turned  *)
(* once, last_ref is where the ledger ends, every entry of the ledger is     *)
(* above those before it and a digest's is the next reference, and the ring  *)
(* fills from its first slot on                                              *)
(* (supervisor_state.cpp:13-15, 52-54, 62-66, 76-92).                        *)
LedgerTop == IF ledger = <<>> THEN 0 ELSE ledger[Len(ledger)].ref

AgeIsSilence == silence < ClockModulus => heartbeat_age = silence

LedgerRises ==
  /\ \A n \in 1 .. Len(ledger) : \A m \in 1 .. n - 1 : ledger[m].ref < ledger[n].ref
  /\ \A n \in Filed : ledger[n].ref = (IF n = 1 THEN 0 ELSE ledger[n - 1].ref) + 1

FillsFromFirst == ring_count < DigestCapacity => ring_head = ring_count

IndInv ==
  /\ TypeOK
  /\ CausesHoldOverride
  /\ AgeIsSilence
  /\ last_ref = LedgerTop
  /\ LedgerRises
  /\ FillsFromFirst
  /\ RetainedIsTailOfFiled

(* An override ends only with the button up, a heartbeat received and, short *)
(* of a full turn of the clock, no older than the timeout; and it never      *)
(* changes its reason on the way (supervisor_state.cpp:25-47).               *)
ReleaseIsEarned ==
  [][mode = "OVERRIDE" =>
       \/ mode' = "OVERRIDE" /\ override_reason' = override_reason
       \/ /\ mode' = "WATCHING"
          /\ ~button_pressed'
          /\ heartbeat_seen'
          /\ silence' <= HeartbeatTimeout \/ silence' = ClockModulus]_supervisorVars

(* The state machine keeps the promise of OversightContract.                 *)
Contract == INSTANCE OversightContract
  WITH veto <- mode = "OVERRIDE", cause <- override_reason,
       held <- button_pressed, Causes <- Reasons, NoCause <- NoReason

ImplementsContract == Contract!ContractSpec
=============================================================================

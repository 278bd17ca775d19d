---------------------------- MODULE MockProperties ----------------------------
(***************************************************************************)
(* What the simulated oversight node is meant to guarantee, threads and    *)
(* all.  The first group holds however the threads interleave; the second  *)
(* only when one handler runs at a time, which is how the sketch runs and  *)
(* how the mock's tests mostly drive it.                                   *)
(***************************************************************************)
EXTENDS MockSupervisor

(* The node keeps the promise of OversightContract with three threads at it: *)
(* no clear slips between a press and the override it raises, the first      *)
(* reason wins whoever comes second, and digests are witnessed in order      *)
(* (mock_supervisor.py:228-236, 243-276, 419-437, 446-459).                  *)
Contract == INSTANCE OversightContract
  WITH veto <- override, cause <- override_reason,
       held <- button_pressed /\ override, Causes <- Reasons, NoCause <- NoReason

MockImplementsContract == Contract!ContractSpec

(* A thread that has been told to raise an override leaves one behind when   *)
(* it is done: an operator holding the button sees an override, and a chain  *)
(* alert is never left standing without one, unless a clear took the alert   *)
(* away between the verdict and the latch (mock_supervisor.py:228-232,       *)
(* 267-276, 433-440).                                                        *)
CausesLatch ==
  /\ button_pressed /\ Idle("operator") => override
  /\ chain_alert /\ Idle("reader") => override

(* The digests an auditor reads off are the tail of what the node filed,     *)
(* whichever thread moved last_ref in between: place by place they come from *)
(* later and later entries of the ledger, and nothing filed is missing but   *)
(* what a full store has dropped, which is older than all it holds           *)
(* (mock_supervisor.py:267-270, 430-432).                                    *)
Filed == {n \in 1 .. Len(ledger) : ledger[n].by = "digest"}
Places == 1 .. Len(digests)

IsTailOfFiled(at) ==
  /\ \A k \in Places :
       digests[k] = [ref |-> ledger[at[k]].ref, digest |-> ledger[at[k]].digest]
  /\ \A j, k \in Places : j < k => at[j] < at[k]
  /\ \A n \in Filed : \/ \E k \in Places : at[k] = n
                      \/ Len(digests) = Capacity /\ n < at[1]

RetainedIsTail == \E at \in [Places -> Filed] : IsTailOfFiled(at)

-----------------------------------------------------------------------------
(* Handlers have run one at a time, and none is running.                     *)
InTurn == setting.serialised /\ Quiet

(* Between handlers an override isolates: whatever the tier has asked for in *)
(* the meantime, the relay was last sent open                                *)
(* (mock_supervisor.py:400-417, 460-464).                                    *)
OverrideOpens == InTurn /\ override => commanded = "OPEN"

(* Between handlers the tier has been told what stands                       *)
(* (mock_supervisor.py:276-280, 460-466).                                    *)
WireTellsOverride == InTurn => (announced <=> override)

(* Between handlers motor_power_cut claims only what is so: no poll, command,*)
(* fault or repair leaves it showing an open contact that is closed          *)
(* (mock_supervisor.py:172-182, latch.py:203-215, 238-246).                  *)
CutIsSeen == InTurn /\ last_observed = "OPEN" => contact = "OPEN"

(* An attestation override can be lived down: the chain alert a clear needs  *)
(* in order to resynchronise is still there (mock_supervisor.py:267-276,     *)
(* 433-440).                                                                 *)
AttestationCanResume ==
  InTurn /\ override_reason = "ATTESTATION_MISMATCH" => chain_alert

-----------------------------------------------------------------------------
(* A claim made about this code that it does not meet.                      *)

(* mock_supervisor.py:395 "An override already latched keeps the contact     *)
(* open": however handlers interleave, once none is running.                 *)
LatchedStaysOpen == Quiet /\ override => commanded = "OPEN"
=============================================================================

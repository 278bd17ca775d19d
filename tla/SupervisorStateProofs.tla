------------------------ MODULE SupervisorStateProofs ------------------------
(***************************************************************************)
(* Theorems about SupervisorState for every ring capacity, clock width,    *)
(* timeout, set of digests and range of references.                        *)
(***************************************************************************)
EXTENDS SupervisorProperties, TLAPS

(* A number reduced modulo a positive one lies below it.                     *)
LEMMA ModRange ==
  ASSUME NEW a \in Nat, NEW n \in Nat, n > 0
  PROVE  a % n \in 0 .. n - 1
  OBVIOUS

(* A number already below the modulus is its own remainder.                  *)
LEMMA ModSmall ==
  ASSUME NEW n \in Nat, NEW a \in Nat, a < n
  PROVE  a % n = a
  OBVIOUS

(* Stepping past the top of 0 .. n - 1 comes back to 0.                      *)
LEMMA ModStep ==
  ASSUME NEW n \in Nat, NEW a \in Nat, n <= a, a < 2 * n
  PROVE  a % n = a - n
  OBVIOUS

-----------------------------------------------------------------------------
(* TypeOK is inductive: no call of the state machine leaves the ring, the    *)
(* clock or the references outside their ranges.                             *)
LEMMA TypeInit == SupervisorInit => TypeOK
<1> SUFFICES ASSUME SupervisorInit PROVE TypeOK
  OBVIOUS
<1>1. ring \in [Slots -> Entry]
  <2>1. EmptySlot \in Entry
    BY SupervisorAssumption DEF Entry, EmptySlot, Refs
  <2> QED BY <2>1 DEF SupervisorInit
<1>2. ledger \in Seq(LedgerEntry)
  BY DEF SupervisorInit
<1>3. /\ 0 \in Refs
      /\ 0 \in Slots
      /\ 0 \in 0 .. DigestCapacity
      /\ 0 \in Ages
      /\ 0 \in 0 .. ClockModulus
  BY SupervisorAssumption, ClockAssumption DEF Refs, Slots, Ages
<1> QED BY <1>1, <1>2, <1>3 DEF SupervisorInit, TypeOK, Modes, Ages

LEMMA AssertType ==
  ASSUME TypeOK, NEW reason \in Reasons, Assert(reason)
  PROVE  mode' \in Modes /\ override_reason' \in Reasons \cup {NoReason}
  BY DEF TypeOK, Assert, Modes

LEMMA LedgerGrows ==
  ASSUME TypeOK, NEW ref \in Refs, NEW digest \in Digests \cup {NoDigest},
         NEW by \in {"digest", "operator"}
  PROVE  Append(ledger, [ref |-> ref, digest |-> digest, by |-> by]) \in Seq(LedgerEntry)
<1> DEFINE entry == [ref |-> ref, digest |-> digest, by |-> by]
<1>1. entry \in LedgerEntry BY DEF LedgerEntry
<1>2. ledger \in Seq(LedgerEntry) BY DEF TypeOK
<1> QED BY <1>1, <1>2

LEMMA TypeStep == TypeOK /\ [SupervisorNext]_supervisorVars => TypeOK'
<1> SUFFICES ASSUME TypeOK, [SupervisorNext]_supervisorVars PROVE TypeOK'
  OBVIOUS
<1> USE DEF contextVars, overrideVars, tierVars, witnessVars, supervisorVars
<1>1. CASE Tick
  <2>1. heartbeat_age' \in Ages
    <3>1. heartbeat_age + 1 \in Nat /\ ClockModulus \in Nat /\ ClockModulus > 0
      BY ClockAssumption DEF TypeOK, Ages
    <3> QED BY <1>1, <3>1, ModRange DEF Tick, Older, Ages
  <2>2. silence' \in 0 .. ClockModulus
    BY <1>1, ClockAssumption DEF Tick, TypeOK
  <2> QED BY <1>1, <2>1, <2>2 DEF Tick, TypeOK
<1>2. CASE SupervisorTick
  <2>1. "GOVERNANCE_HEARTBEAT_LOST" \in Reasons BY DEF Reasons
  <2> QED BY <1>2, <2>1, AssertType DEF SupervisorTick, AssertOverride, TypeOK
<1>3. CASE ClearOverride
  <2>1. mode' \in Modes /\ override_reason' \in Reasons \cup {NoReason}
    BY <1>3 DEF ClearOverride, Modes
  <2>2. last_ref' \in Refs BY <1>3 DEF ClearOverride, TypeOK
  <2>3. ledger' \in Seq(LedgerEntry)
    <3>1. CASE Resynchronises
      BY <1>3, <3>1, LedgerGrows DEF ClearOverride, TypeOK
    <3>2. CASE ~Resynchronises
      BY <1>3, <3>2 DEF ClearOverride, TypeOK
    <3> QED BY <3>1, <3>2
  <2> QED BY <1>3, <2>1, <2>2, <2>3 DEF ClearOverride, TypeOK
<1>4. CASE \E reason \in {"REMOTE_CONSOLE", "LATCH_MISMATCH"} : AssertOverride(reason)
  <2>1. PICK reason \in {"REMOTE_CONSOLE", "LATCH_MISMATCH"} : AssertOverride(reason)
    BY <1>4
  <2>2. reason \in Reasons BY DEF Reasons
  <2> QED BY <2>1, <2>2, AssertType DEF AssertOverride, TypeOK
<1>5. CASE \E ref \in Refs : OnHeartbeat(ref)
  BY <1>5, ClockAssumption DEF OnHeartbeat, TypeOK, Ages
<1>6. CASE \E ref \in Refs, digest \in Digests : OnDigest(ref, digest)
  <2>1. PICK ref \in Refs, digest \in Digests : OnDigest(ref, digest)
    BY <1>6
  <2>2. CASE FileDigest(ref, digest)
    <3>1. ring' \in [Slots -> Entry] BY <2>2 DEF FileDigest, TypeOK, Entry
    <3>2. ring_head' \in Slots
      <4>1. ring_head + 1 \in Nat /\ DigestCapacity \in Nat /\ DigestCapacity > 0
        BY SupervisorAssumption DEF TypeOK, Slots
      <4> QED BY <2>2, <4>1, ModRange DEF FileDigest, NextSlot, Slots
    <3>3. ring_count' \in 0 .. DigestCapacity
      BY <2>2, SupervisorAssumption DEF FileDigest, TypeOK
    <3>4. ledger' \in Seq(LedgerEntry)
      BY <2>2, LedgerGrows DEF FileDigest
    <3> QED BY <2>2, <3>1, <3>2, <3>3, <3>4 DEF FileDigest, TypeOK
  <2>3. CASE RejectDigest(ref)
    <3>1. "ATTESTATION_MISMATCH" \in Reasons BY DEF Reasons
    <3> QED BY <2>3, <3>1, AssertType DEF RejectDigest, TypeOK
  <2> QED BY <2>1, <2>2, <2>3 DEF OnDigest
<1>7. CASE \E pressed_now \in BOOLEAN : SetButton(pressed_now)
  <2>1. PICK pressed_now \in BOOLEAN : SetButton(pressed_now)
    BY <1>7
  <2>2. "OPERATOR_BUTTON" \in Reasons BY DEF Reasons
  <2>3. mode' \in Modes /\ override_reason' \in Reasons \cup {NoReason}
    BY <2>1, <2>2, AssertType DEF SetButton, TypeOK
  <2> QED BY <2>1, <2>3 DEF SetButton, TypeOK
<1>8. CASE UNCHANGED supervisorVars
  BY <1>8 DEF TypeOK
<1> QED BY <1>1, <1>2, <1>3, <1>4, <1>5, <1>6, <1>7, <1>8 DEF SupervisorNext

(* The state machine's variables keep their types (supervisor_state.h:56-84).*)
THEOREM SupervisorTypeCorrect == SupervisorSpec => []TypeOK
  BY TypeInit, TypeStep, PTL DEF SupervisorSpec

-----------------------------------------------------------------------------
(* The inductive invariant.  An override holds as long as its cause because  *)
(* every cause latches it and the one action that ends it clears the alert   *)
(* and refuses a held button.                                                *)
LEMMA IndInvInit == SupervisorInit => IndInv
<1> SUFFICES ASSUME SupervisorInit PROVE IndInv
  OBVIOUS
<1>1. TypeOK BY TypeInit
<1>2. CausesHoldOverride BY DEF SupervisorInit, CausesHoldOverride
<1>3. AgeIsSilence BY DEF SupervisorInit, AgeIsSilence
<1>4. last_ref = LedgerTop BY DEF SupervisorInit, LedgerTop
<1>5. LedgerRises /\ FillsFromFirst
  BY DEF SupervisorInit, LedgerRises, FillsFromFirst, Filed
<1>6. RetainedIsTailOfFiled
  <2>1. Filed = {} /\ Indices = {} BY DEF SupervisorInit, Filed, Indices
  <2> DEFINE at == [index \in Indices |-> 0]
  <2>2. at \in [Indices -> Filed] /\ IsTailOfFiled(at) BY <2>1 DEF IsTailOfFiled
  <2> QED BY <2>2 DEF RetainedIsTailOfFiled
<1> QED BY <1>1, <1>2, <1>3, <1>4, <1>5, <1>6 DEF IndInv

LEMMA CausesStep ==
  ASSUME TypeOK, CausesHoldOverride, [SupervisorNext]_supervisorVars
  PROVE  CausesHoldOverride'
<1> USE DEF contextVars, overrideVars, tierVars, witnessVars, supervisorVars,
            CausesHoldOverride
<1>0. NoReason \notin Reasons BY DEF NoReason, Reasons
<1>1. CASE Tick BY <1>1 DEF Tick
<1>2. CASE SupervisorTick
  BY <1>2 DEF SupervisorTick, AssertOverride, Assert, NoReason
<1>3. CASE ClearOverride BY <1>3 DEF ClearOverride, ClearAllowed
<1>4. CASE \E reason \in {"REMOTE_CONSOLE", "LATCH_MISMATCH"} : AssertOverride(reason)
  BY <1>4 DEF AssertOverride, Assert, NoReason
<1>5. CASE \E ref \in Refs : OnHeartbeat(ref) BY <1>5 DEF OnHeartbeat
<1>6. CASE \E ref \in Refs, digest \in Digests : OnDigest(ref, digest)
  <2>1. PICK ref \in Refs, digest \in Digests : OnDigest(ref, digest)
    BY <1>6
  <2>2. CASE FileDigest(ref, digest) BY <2>2 DEF FileDigest
  <2>3. CASE RejectDigest(ref) BY <2>3 DEF RejectDigest, Assert, NoReason
  <2> QED BY <2>1, <2>2, <2>3 DEF OnDigest
<1>7. CASE \E pressed_now \in BOOLEAN : SetButton(pressed_now)
  <2>1. PICK pressed_now \in BOOLEAN : SetButton(pressed_now)
    BY <1>7
  <2>2. CASE pressed_now /\ ~button_pressed
    BY <2>1, <2>2 DEF SetButton, Assert, NoReason
  <2>3. CASE ~(pressed_now /\ ~button_pressed)
    BY <2>1, <2>3 DEF SetButton
  <2> QED BY <2>2, <2>3
<1>8. CASE UNCHANGED supervisorVars BY <1>8
<1> QED BY <1>1, <1>2, <1>3, <1>4, <1>5, <1>6, <1>7, <1>8 DEF SupervisorNext

LEMMA AgeStep ==
  ASSUME TypeOK, AgeIsSilence, [SupervisorNext]_supervisorVars
  PROVE  AgeIsSilence'
<1> USE DEF contextVars, overrideVars, tierVars, witnessVars, supervisorVars,
            AgeIsSilence
<1>1. CASE Tick
  <2> SUFFICES ASSUME silence' < ClockModulus PROVE heartbeat_age' = silence'
    OBVIOUS
  <2>1. /\ ClockModulus \in Nat
        /\ silence \in 0 .. ClockModulus
    BY ClockAssumption DEF TypeOK
  <2>2. silence' = silence + 1 /\ silence + 1 < ClockModulus
    BY <1>1, <2>1 DEF Tick
  <2>3. heartbeat_age = silence BY <2>1, <2>2
  <2>4. (silence + 1) % ClockModulus = silence + 1
    BY <2>1, <2>2, ModSmall
  <2> QED BY <1>1, <2>2, <2>3, <2>4 DEF Tick, Older
<1>2. CASE \E ref \in Refs : OnHeartbeat(ref) BY <1>2 DEF OnHeartbeat
<1>3. CASE UNCHANGED <<heartbeat_age, silence>> BY <1>3
<1>4. CASE SupervisorTick BY <1>4 DEF SupervisorTick, AssertOverride
<1>5. CASE ClearOverride BY <1>5 DEF ClearOverride
<1>6. CASE \E reason \in {"REMOTE_CONSOLE", "LATCH_MISMATCH"} : AssertOverride(reason)
  BY <1>6 DEF AssertOverride
<1>7. CASE \E ref \in Refs, digest \in Digests : OnDigest(ref, digest)
  BY <1>7 DEF OnDigest, FileDigest, RejectDigest
<1>8. CASE \E pressed_now \in BOOLEAN : SetButton(pressed_now)
  BY <1>8 DEF SetButton
<1> QED BY <1>1, <1>2, <1>3, <1>4, <1>5, <1>6, <1>7, <1>8 DEF SupervisorNext

LEMMA TopOfAppend ==
  ASSUME TypeOK, NEW entry \in LedgerEntry, ledger' = Append(ledger, entry)
  PROVE  LedgerTop' = entry.ref
<1>1. ledger \in Seq(LedgerEntry) BY DEF TypeOK
<1>2. /\ Append(ledger, entry) # <<>>
      /\ Append(ledger, entry)[Len(Append(ledger, entry))] = entry
  BY <1>1
<1> QED BY <1>2 DEF LedgerTop

LEMMA LedgerStep ==
  ASSUME TypeOK, last_ref = LedgerTop, [SupervisorNext]_supervisorVars
  PROVE  last_ref' = LedgerTop'
<1> USE DEF contextVars, overrideVars, tierVars, witnessVars, supervisorVars
<1>1. CASE ClearOverride
  <2>1. CASE Resynchronises
    <3> DEFINE entry == [ref |-> reported_audit_ref, digest |-> NoDigest,
                         by |-> "operator"]
    <3>1. entry \in LedgerEntry BY DEF TypeOK, LedgerEntry
    <3>2. ledger' = Append(ledger, entry) BY <1>1, <2>1 DEF ClearOverride
    <3>3. LedgerTop' = entry.ref BY <3>1, <3>2, TopOfAppend
    <3> QED BY <1>1, <2>1, <3>3 DEF ClearOverride
  <2>2. CASE ~Resynchronises
    BY <1>1, <2>2 DEF ClearOverride, LedgerTop
  <2> QED BY <2>1, <2>2
<1>2. CASE \E ref \in Refs, digest \in Digests : OnDigest(ref, digest)
  <2>1. PICK ref \in Refs, digest \in Digests : OnDigest(ref, digest)
    BY <1>2
  <2>2. CASE FileDigest(ref, digest)
    <3> DEFINE entry == [ref |-> ref, digest |-> digest, by |-> "digest"]
    <3>1. entry \in LedgerEntry BY DEF LedgerEntry
    <3>2. ledger' = Append(ledger, entry) BY <2>2 DEF FileDigest
    <3>3. LedgerTop' = entry.ref BY <3>1, <3>2, TopOfAppend
    <3> QED BY <2>2, <3>3 DEF FileDigest
  <2>3. CASE RejectDigest(ref) BY <2>3 DEF RejectDigest, LedgerTop
  <2> QED BY <2>1, <2>2, <2>3 DEF OnDigest
<1>3. CASE UNCHANGED witnessVars BY <1>3 DEF LedgerTop
<1>4. CASE Tick BY <1>4 DEF Tick, LedgerTop
<1>5. CASE SupervisorTick BY <1>5 DEF SupervisorTick, AssertOverride, LedgerTop
<1>6. CASE \E reason \in {"REMOTE_CONSOLE", "LATCH_MISMATCH"} : AssertOverride(reason)
  BY <1>6 DEF AssertOverride, LedgerTop
<1>7. CASE \E ref \in Refs : OnHeartbeat(ref) BY <1>7 DEF OnHeartbeat, LedgerTop
<1>8. CASE \E pressed_now \in BOOLEAN : SetButton(pressed_now)
  BY <1>8 DEF SetButton, LedgerTop
<1> QED BY <1>1, <1>2, <1>3, <1>4, <1>5, <1>6, <1>7, <1>8 DEF SupervisorNext

(* What a step does to the witness: nothing, a jump an operator accepts, or   *)
(* a digest filed.                                                           *)
LEMMA WitnessMoves ==
  ASSUME [SupervisorNext]_supervisorVars
  PROVE  \/ UNCHANGED witnessVars
         \/ ClearOverride /\ Resynchronises
         \/ \E ref \in Refs, digest \in Digests : FileDigest(ref, digest)
<1> USE DEF contextVars, overrideVars, tierVars, witnessVars, supervisorVars
<1>1. CASE Tick BY <1>1 DEF Tick
<1>2. CASE SupervisorTick BY <1>2 DEF SupervisorTick, AssertOverride
<1>3. CASE ClearOverride BY <1>3 DEF ClearOverride
<1>4. CASE \E reason \in {"REMOTE_CONSOLE", "LATCH_MISMATCH"} : AssertOverride(reason)
  BY <1>4 DEF AssertOverride
<1>5. CASE \E ref \in Refs : OnHeartbeat(ref) BY <1>5 DEF OnHeartbeat
<1>6. CASE \E ref \in Refs, digest \in Digests : OnDigest(ref, digest)
  BY <1>6 DEF OnDigest, RejectDigest
<1>7. CASE \E pressed_now \in BOOLEAN : SetButton(pressed_now)
  BY <1>7 DEF SetButton
<1>8. CASE UNCHANGED supervisorVars BY <1>8
<1> QED BY <1>1, <1>2, <1>3, <1>4, <1>5, <1>6, <1>7, <1>8 DEF SupervisorNext

(* One entry more: the others stay where they are.                           *)
LEMMA LedgerAppended ==
  ASSUME TypeOK, NEW entry \in LedgerEntry, ledger' = Append(ledger, entry)
  PROVE  /\ Len(ledger) \in Nat /\ Len(ledger') = Len(ledger) + 1
         /\ \A n \in 1 .. Len(ledger) : ledger'[n] = ledger[n] /\ ledger[n] \in LedgerEntry
         /\ ledger'[Len(ledger) + 1] = entry
         /\ Filed' = IF entry.by = "digest" THEN Filed \cup {Len(ledger) + 1} ELSE Filed
<1>1. ledger \in Seq(LedgerEntry) BY DEF TypeOK
<1>2. /\ Len(ledger) \in Nat /\ Len(ledger') = Len(ledger) + 1
      /\ \A n \in 1 .. Len(ledger) : ledger'[n] = ledger[n] /\ ledger[n] \in LedgerEntry
      /\ ledger'[Len(ledger) + 1] = entry
  BY <1>1
<1>3. 1 .. Len(ledger') = (1 .. Len(ledger)) \cup {Len(ledger) + 1} BY <1>2
<1> QED BY <1>2, <1>3 DEF Filed

LEMMA RisesOnAppend ==
  ASSUME TypeOK, last_ref = LedgerTop, LedgerRises,
         NEW entry \in LedgerEntry, ledger' = Append(ledger, entry),
         entry.ref > last_ref,
         entry.by = "digest" => entry.ref = last_ref + 1
  PROVE  LedgerRises'
<1> DEFINE L == Len(ledger)
<1>1. /\ L \in Nat /\ Len(ledger') = L + 1
      /\ \A n \in 1 .. L : ledger'[n] = ledger[n] /\ ledger[n].ref \in Nat
      /\ ledger'[L + 1] = entry
      /\ Filed' = IF entry.by = "digest" THEN Filed \cup {L + 1} ELSE Filed
      /\ entry.ref \in Nat
  BY LedgerAppended, SupervisorAssumption DEF LedgerEntry, Refs
<1>2. L > 0 => ledger[L].ref = last_ref
  <2>1. ledger \in Seq(LedgerEntry) BY DEF TypeOK
  <2> QED BY <2>1 DEF LedgerTop
<1>3. L = 0 => last_ref = 0
  <2>1. ledger \in Seq(LedgerEntry) BY DEF TypeOK
  <2> QED BY <2>1 DEF LedgerTop
<1>4. \A m \in 1 .. L : ledger[m].ref <= last_ref
  BY <1>1, <1>2 DEF LedgerRises
<1>5. ASSUME NEW n \in 1 .. L + 1, NEW m \in 1 .. n - 1
      PROVE  ledger'[m].ref < ledger'[n].ref
  <2>1. m \in 1 .. L BY <1>1
  <2>2. CASE n \in 1 .. L BY <1>1, <2>1, <2>2 DEF LedgerRises
  <2>3. CASE n = L + 1
    <3>1. last_ref \in Nat BY SupervisorAssumption DEF TypeOK, Refs
    <3> QED BY <1>1, <1>4, <2>1, <2>3, <3>1
  <2> QED BY <1>1, <2>2, <2>3
<1>6. ASSUME NEW n \in Filed'
      PROVE  ledger'[n].ref = (IF n = 1 THEN 0 ELSE ledger'[n - 1].ref) + 1
  <2>1. CASE n \in Filed
    <3>1. n \in 1 .. L BY <2>1 DEF Filed
    <3>2. n # 1 => n - 1 \in 1 .. L BY <1>1, <3>1
    <3> QED BY <1>1, <2>1, <3>1, <3>2 DEF LedgerRises
  <2>2. CASE n = L + 1 /\ entry.by = "digest"
    <3>1. CASE L = 0 BY <1>1, <1>3, <2>2, <3>1
    <3>2. CASE L > 0
      <4>1. n # 1 /\ n - 1 = L /\ L \in 1 .. L BY <1>1, <2>2, <3>2
      <4> QED BY <1>1, <1>2, <2>2, <3>2, <4>1
    <3>3. L = 0 \/ L > 0 BY <1>1
    <3> QED BY <3>1, <3>2, <3>3
  <2> QED BY <1>1, <2>1, <2>2
<1> QED BY <1>1, <1>5, <1>6 DEF LedgerRises

LEMMA RisesStep ==
  ASSUME TypeOK, last_ref = LedgerTop, LedgerRises, [SupervisorNext]_supervisorVars
  PROVE  LedgerRises'
<1>1. CASE UNCHANGED witnessVars BY <1>1 DEF witnessVars, LedgerRises, Filed
<1>2. CASE ClearOverride /\ Resynchronises
  <2> DEFINE entry == [ref |-> reported_audit_ref, digest |-> NoDigest, by |-> "operator"]
  <2>1. entry \in LedgerEntry BY DEF TypeOK, LedgerEntry
  <2>2. ledger' = Append(ledger, entry) BY <1>2 DEF ClearOverride
  <2>3. entry.ref > last_ref /\ entry.by # "digest" BY <1>2 DEF Resynchronises
  <2> QED BY <2>1, <2>2, <2>3, RisesOnAppend
<1>3. CASE \E ref \in Refs, digest \in Digests : FileDigest(ref, digest)
  <2>1. PICK ref \in Refs, digest \in Digests : FileDigest(ref, digest) BY <1>3
  <2> DEFINE entry == [ref |-> ref, digest |-> digest, by |-> "digest"]
  <2>2. entry \in LedgerEntry BY DEF LedgerEntry
  <2>3. ledger' = Append(ledger, entry) BY <2>1 DEF FileDigest
  <2>4. ref = last_ref + 1 /\ ref > last_ref
    BY <2>1, SupervisorAssumption DEF FileDigest, Verdict, TypeOK, Refs
  <2>5. entry.ref > last_ref /\ entry.ref = last_ref + 1 BY <2>4
  <2> HIDE DEF entry
  <2> QED BY <2>2, <2>3, <2>5, RisesOnAppend
<1> QED BY <1>1, <1>2, <1>3, WitnessMoves

(* Two places in a row on the ring are two slots in a row.                   *)
LEMMA ModNext ==
  ASSUME NEW n \in Nat \ {0}, NEW a \in 0 .. n - 1, NEW i \in 0 .. n - 1
  PROVE  /\ (((a + 1) % n) + i) % n = IF i = n - 1 THEN a ELSE (a + (i + 1)) % n
         /\ i < n - 1 => (a + (i + 1)) % n # a
<1>1. n \in Nat /\ n > 0 /\ a \in Nat /\ i \in Nat /\ a < n /\ i < n OBVIOUS
<1>2. CASE a + 1 < n
  <2>1. (a + 1) % n = a + 1 BY <1>1, <1>2, ModSmall
  <2>2. CASE i = n - 1
    <3>1. a + 1 + i \in Nat /\ n <= a + 1 + i /\ a + 1 + i < 2 * n BY <1>1, <1>2, <2>2
    <3>2. (a + 1 + i) % n = a + 1 + i - n BY <1>1, <3>1, ModStep
    <3> QED BY <1>1, <2>1, <2>2, <3>2
  <2>3. CASE i < n - 1
    <3>1. a + 1 + i = a + (i + 1) /\ a + (i + 1) \in Nat BY <1>1
    <3>2. CASE a + (i + 1) < n
      BY <1>1, <2>1, <2>3, <3>1, <3>2, ModSmall
    <3>3. CASE a + (i + 1) >= n
      <4>1. a + (i + 1) < 2 * n BY <1>1, <2>3
      <4>2. (a + (i + 1)) % n = a + (i + 1) - n BY <1>1, <3>1, <3>3, <4>1, ModStep
      <4> QED BY <1>1, <2>1, <2>3, <3>1, <4>2
    <3> QED BY <1>1, <3>1, <3>2, <3>3
  <2> QED BY <1>1, <2>2, <2>3
<1>3. CASE a + 1 = n
  <2>1. (a + 1) % n = 0
    <3>1. n % n = n - n BY <1>1, ModStep
    <3> QED BY <1>1, <1>3, <3>1
  <2>2. i % n = i BY <1>1, ModSmall
  <2>3. (((a + 1) % n) + i) % n = i BY <1>1, <2>1, <2>2
  <2>4. ASSUME i < n - 1 PROVE (a + (i + 1)) % n = i
    <3>1. a + (i + 1) = n + i /\ n + i \in Nat /\ n <= n + i /\ n + i < 2 * n
      BY <1>1, <1>3
    <3> QED BY <1>1, <3>1, ModStep
  <2> QED BY <1>1, <1>3, <2>3, <2>4
<1> QED BY <1>1, <1>2, <1>3

(* Filing writes one slot and leaves the ring, read oldest first, as it was  *)
(* with the new digest at its end, less the oldest if it was full.           *)
LEMMA RingOnFile ==
  ASSUME TypeOK, FillsFromFirst, NEW ref \in Refs, NEW digest \in Digests,
         FileDigest(ref, digest)
  PROVE  /\ FillsFromFirst'
         /\ ring_count' = IF ring_count < DigestCapacity THEN ring_count + 1 ELSE ring_count
         /\ ring_count' > 0
         /\ \A i \in 0 .. ring_count' - 1 :
              Retained(i)' = IF i = ring_count' - 1 THEN [ref |-> ref, digest |-> digest]
                             ELSE IF ring_count < DigestCapacity
                               THEN Retained(i) ELSE Retained(i + 1)
<1> DEFINE C == DigestCapacity
           entry == [ref |-> ref, digest |-> digest]
<1>1. /\ C \in Nat \ {0} /\ C \in Nat /\ C > 0 /\ ring_head \in 0 .. C - 1
      /\ ring_count \in 0 .. C /\ ring \in [0 .. C - 1 -> Entry]
  BY SupervisorAssumption DEF TypeOK, Slots
<1>2. /\ ring' = [ring EXCEPT ![ring_head] = entry]
      /\ ring_head' = (ring_head + 1) % C
      /\ ring_count' = IF ring_count < C THEN ring_count + 1 ELSE ring_count
  BY DEF FileDigest, NextSlot
<1> HIDE DEF entry
<1>3. /\ ring'[ring_head] = entry
      /\ \A slot \in 0 .. C - 1 : slot # ring_head => ring'[slot] = ring[slot]
  BY <1>1, <1>2
<1>4. CASE ring_count < C
  <2>1. ring_head = ring_count BY <1>4 DEF FillsFromFirst
  <2>2. OldestSlot = 0 BY <1>1, <1>4 DEF OldestSlot
  <2>3. OldestSlot' = 0 /\ FillsFromFirst'
    <3>1. CASE ring_count + 1 = C
      <4>1. C % C = C - C BY <1>1, ModStep
      <4> QED BY <1>1, <1>2, <2>1, <3>1, <4>1 DEF OldestSlot, FillsFromFirst
    <3>2. CASE ring_count + 1 < C
      <4>1. (ring_count + 1) % C = ring_count + 1 BY <1>1, <3>2, ModSmall
      <4> QED BY <1>1, <1>2, <2>1, <3>2, <4>1 DEF OldestSlot, FillsFromFirst
    <3> QED BY <1>1, <1>4, <3>1, <3>2
  <2>4. \A i \in 0 .. C - 1 : Retained(i) = ring[i] /\ Retained(i)' = ring'[i]
    <3> TAKE i \in 0 .. C - 1
    <3>1. (0 + i) % C = i BY <1>1, ModSmall
    <3> QED BY <2>2, <2>3, <3>1 DEF Retained
  <2> QED BY <1>1, <1>2, <1>3, <1>4, <2>1, <2>3, <2>4 DEF entry
<1>5. CASE ring_count = C
  <2>1. OldestSlot = ring_head /\ OldestSlot' = (ring_head + 1) % C
    BY <1>1, <1>2, <1>5 DEF OldestSlot
  <2>2. FillsFromFirst' BY <1>1, <1>2, <1>5 DEF FillsFromFirst
  <2>3. Retained(C - 1)' = entry
    <3>1. C - 1 \in 0 .. C - 1 BY <1>1
    <3>2. (((ring_head + 1) % C) + (C - 1)) % C = ring_head BY <1>1, <3>1, ModNext
    <3> QED BY <1>3, <2>1, <3>2 DEF Retained
  <2>4. ASSUME NEW i \in 0 .. C - 2 PROVE Retained(i)' = Retained(i + 1)
    <3>1. i \in 0 .. C - 1 /\ i < C - 1 /\ i # C - 1 BY <1>1
    <3>2. /\ (((ring_head + 1) % C) + i) % C = (ring_head + (i + 1)) % C
          /\ (ring_head + (i + 1)) % C # ring_head
      BY <1>1, <3>1, ModNext
    <3>3. (ring_head + (i + 1)) % C \in 0 .. C - 1
      <4>1. ring_head + (i + 1) \in Nat BY <1>1
      <4> QED BY <1>1, <4>1, ModRange
    <3> QED BY <1>3, <2>1, <3>2, <3>3 DEF Retained
  <2> QED BY <1>1, <1>2, <1>5, <2>2, <2>3, <2>4 DEF entry
<1> QED BY <1>1, <1>4, <1>5

LEMMA RetainedOnFile ==
  ASSUME TypeOK, FillsFromFirst, RetainedIsTailOfFiled,
         NEW ref \in Refs, NEW digest \in Digests, FileDigest(ref, digest)
  PROVE  RetainedIsTailOfFiled'
<1> DEFINE C == DigestCapacity
           entry == [ref |-> ref, digest |-> digest, by |-> "digest"]
<1>0. PICK c, L : c = ring_count /\ L = Len(ledger) OBVIOUS
<1>1. PICK at \in [Indices -> Filed] : IsTailOfFiled(at) BY DEF RetainedIsTailOfFiled
<1>2. /\ L \in Nat /\ Len(ledger') = L + 1
      /\ \A n \in 1 .. L : ledger'[n] = ledger[n]
      /\ ledger'[L + 1].ref = ref /\ ledger'[L + 1].digest = digest
      /\ Filed' = Filed \cup {L + 1}
  <2>1. entry \in LedgerEntry BY DEF LedgerEntry
  <2>2. ledger' = Append(ledger, entry) BY DEF FileDigest
  <2> QED BY <1>0, <2>1, <2>2, LedgerAppended
<1>3. Filed \subseteq 1 .. L BY <1>0 DEF Filed
<1>4. C \in Nat /\ C > 0 /\ c \in 0 .. C BY <1>0, SupervisorAssumption DEF TypeOK
<1>5. /\ ring_count' = IF c < C THEN c + 1 ELSE c
      /\ ring_count' > 0
      /\ \A i \in 0 .. ring_count' - 1 :
           Retained(i)' = IF i = ring_count' - 1 THEN [ref |-> ref, digest |-> digest]
                          ELSE IF c < C THEN Retained(i) ELSE Retained(i + 1)
  BY <1>0, RingOnFile
<1>6. /\ \A i \in 0 .. c - 1 : at[i] \in Filed /\ at[i] \in 1 .. L
      /\ \A i \in 0 .. c - 1 :
           Retained(i) = [ref |-> ledger[at[i]].ref, digest |-> ledger[at[i]].digest]
      /\ \A i, j \in 0 .. c - 1 : i < j => at[i] < at[j]
      /\ \A n \in Filed : \/ \E i \in 0 .. c - 1 : at[i] = n
                          \/ c = C /\ n < at[0]
  BY <1>0, <1>1, <1>3 DEF IsTailOfFiled, Indices
<1>7. CASE c < C
  <2> DEFINE later == [i \in 0 .. c |-> IF i = c THEN L + 1 ELSE at[i]]
  <2>1. Indices' = 0 .. c /\ ring_count' = c + 1 BY <1>4, <1>5, <1>7 DEF Indices
  <2>2. \A i \in 0 .. c : i = c \/ i \in 0 .. c - 1 BY <1>4
  <2>3. /\ later[c] = L + 1
        /\ \A i \in 0 .. c - 1 : later[i] = at[i] /\ i # c /\ i \in 0 .. c
        /\ c \in 0 .. c
    BY <1>4
  <2>4. later \in [Indices' -> Filed'] BY <1>2, <1>6, <2>1, <2>2
  <2> HIDE DEF later
  <2>5. \A i \in 0 .. c :
          Retained(i)' = [ref |-> ledger'[later[i]].ref, digest |-> ledger'[later[i]].digest]
    <3>1. Retained(c)' = [ref |-> ledger'[later[c]].ref, digest |-> ledger'[later[c]].digest]
      BY <1>2, <1>4, <1>5, <2>1, <2>3
    <3>2. ASSUME NEW i \in 0 .. c - 1
          PROVE  Retained(i)' = [ref |-> ledger'[later[i]].ref,
                                 digest |-> ledger'[later[i]].digest]
      <4>1. Retained(i)' = Retained(i) BY <1>4, <1>5, <1>7, <2>1
      <4>2. ledger'[later[i]] = ledger[at[i]] BY <1>2, <1>6, <2>3
      <4> QED BY <1>6, <4>1, <4>2
    <3>3. ASSUME NEW i \in 0 .. c
          PROVE  Retained(i)' = [ref |-> ledger'[later[i]].ref,
                                 digest |-> ledger'[later[i]].digest]
      <4>1. CASE i = c BY <3>1, <4>1
      <4>2. CASE i \in 0 .. c - 1 BY <3>2, <4>2
      <4> QED BY <2>2, <4>1, <4>2
    <3> QED BY <3>3
  <2>6. \A i, j \in 0 .. c : i < j => later[i] < later[j]
    BY <1>2, <1>4, <1>6, <2>2, <2>3
  <2>7. \A n \in Filed' : \E i \in 0 .. c : later[i] = n
    <3> SUFFICES ASSUME NEW n \in Filed' PROVE \E i \in 0 .. c : later[i] = n
      OBVIOUS
    <3>1. c # C BY <1>4, <1>7
    <3>2. CASE n = L + 1 BY <2>3, <3>2
    <3>3. CASE n \in Filed BY <1>6, <2>3, <3>1, <3>3
    <3> QED BY <1>2, <3>2, <3>3
  <2>8. IsTailOfFiled(later)' BY <2>1, <2>5, <2>6, <2>7 DEF IsTailOfFiled
  <2> QED BY <2>4, <2>8 DEF RetainedIsTailOfFiled
<1>8. CASE c = C
  <2> DEFINE later == [i \in 0 .. C - 1 |-> IF i = C - 1 THEN L + 1 ELSE at[i + 1]]
  <2>1. Indices' = 0 .. C - 1 /\ ring_count' = C BY <1>4, <1>5, <1>8 DEF Indices
  <2>2. \A i \in 0 .. C - 1 : i = C - 1 \/ i \in 0 .. C - 2 BY <1>4
  <2>3. /\ later[C - 1] = L + 1
        /\ \A i \in 0 .. C - 2 : later[i] = at[i + 1] /\ i \in 0 .. C - 1
                                 /\ i + 1 \in 0 .. C - 1 /\ i # C - 1
        /\ C - 1 \in 0 .. C - 1
    BY <1>4
  <2>4. later \in [Indices' -> Filed']
    <3>1. ASSUME NEW i \in 0 .. C - 1 PROVE later[i] \in Filed'
      BY <1>2, <1>6, <1>8, <2>2, <2>3
    <3> QED BY <2>1, <3>1
  <2> HIDE DEF later
  <2>5. \A i \in 0 .. C - 1 :
          Retained(i)' = [ref |-> ledger'[later[i]].ref, digest |-> ledger'[later[i]].digest]
    <3>1. Retained(C - 1)' = [ref |-> ledger'[later[C - 1]].ref,
                              digest |-> ledger'[later[C - 1]].digest]
      BY <1>2, <1>4, <1>5, <2>1, <2>3
    <3>2. ASSUME NEW i \in 0 .. C - 2
          PROVE  Retained(i)' = [ref |-> ledger'[later[i]].ref,
                                 digest |-> ledger'[later[i]].digest]
      <4>1. Retained(i)' = Retained(i + 1) BY <1>4, <1>5, <1>8, <2>1
      <4>2. ledger'[later[i]] = ledger[at[i + 1]] BY <1>2, <1>6, <1>8, <2>3
      <4> QED BY <1>6, <1>8, <2>3, <4>1, <4>2
    <3> QED BY <2>2, <3>1, <3>2
  <2>6. \A i, j \in 0 .. C - 1 : i < j => later[i] < later[j]
    <3> SUFFICES ASSUME NEW i \in 0 .. C - 1, NEW j \in 0 .. C - 1, i < j
                 PROVE  later[i] < later[j]
      OBVIOUS
    <3>1. i \in 0 .. C - 2 BY <1>4
    <3>2. CASE j = C - 1
      <4>1. at[i + 1] \in 1 .. L BY <1>6, <1>8, <2>3, <3>1
      <4> QED BY <1>2, <2>3, <3>1, <3>2, <4>1
    <3>3. CASE j \in 0 .. C - 2
      <4>1. i + 1 < j + 1 /\ i + 1 \in 0 .. c - 1 /\ j + 1 \in 0 .. c - 1
        BY <1>4, <1>8, <3>1, <3>3
      <4> QED BY <1>6, <2>3, <3>1, <3>3, <4>1
    <3> QED BY <2>2, <3>2, <3>3
  <2>7. ASSUME NEW n \in Filed'
        PROVE  (\E i \in 0 .. C - 1 : later[i] = n) \/ n < later[0]
    <3>0. later[0] = IF C = 1 THEN L + 1 ELSE at[1]
      <4>1. CASE C = 1 BY <2>3, <4>1
      <4>2. CASE C # 1
        <5>1. 0 \in 0 .. C - 2 BY <1>4, <4>2
        <5> QED BY <2>3, <4>2, <5>1
      <4> QED BY <4>1, <4>2
    <3>1. CASE n = L + 1 BY <2>3, <3>1
    <3>2. CASE n \in Filed /\ n <= at[0]
      <4>1. 0 \in 0 .. c - 1 BY <1>4, <1>8
      <4>2. C # 1 => at[0] < at[1]
        <5>1. C # 1 => 1 \in 0 .. c - 1 BY <1>4, <1>8
        <5> QED BY <1>6, <4>1, <5>1
      <4>3. n \in 1 .. L /\ at[0] \in 1 .. L /\ (C # 1 => at[1] \in 1 .. L)
        <5>1. C # 1 => 1 \in 0 .. c - 1 BY <1>4, <1>8
        <5> QED BY <1>3, <1>6, <3>2, <4>1, <5>1
      <4> QED BY <1>2, <3>0, <3>2, <4>2, <4>3
    <3>3. CASE n \in Filed /\ ~(n <= at[0])
      <4>1. 0 \in 0 .. c - 1 /\ at[0] \in 1 .. L /\ n \in 1 .. L
        BY <1>3, <1>4, <1>6, <1>8, <3>3
      <4>2. ~(n < at[0]) BY <1>2, <3>3, <4>1
      <4>3. PICK i \in 0 .. c - 1 : at[i] = n BY <1>6, <3>3, <4>2
      <4>4. i # 0 BY <1>2, <3>3, <4>1, <4>3
      <4>5. i - 1 \in 0 .. C - 2 /\ (i - 1) + 1 = i BY <1>4, <1>8, <4>4
      <4>6. later[i - 1] = n /\ i - 1 \in 0 .. C - 1 BY <2>3, <4>3, <4>5
      <4> QED BY <4>6
    <3> QED BY <1>2, <3>1, <3>2, <3>3
  <2>8. IsTailOfFiled(later)' BY <2>1, <2>5, <2>6, <2>7 DEF IsTailOfFiled
  <2> QED BY <2>4, <2>8 DEF RetainedIsTailOfFiled
<1> QED BY <1>4, <1>7, <1>8

LEMMA RingStep ==
  ASSUME TypeOK, FillsFromFirst, RetainedIsTailOfFiled, [SupervisorNext]_supervisorVars
  PROVE  FillsFromFirst' /\ RetainedIsTailOfFiled'
<1>1. CASE UNCHANGED witnessVars
  <2>1. Filed' = Filed /\ Indices' = Indices /\ UNCHANGED <<ledger, ring_count>>
    BY <1>1 DEF witnessVars, Filed, Indices
  <2>2. \A i \in Indices : Retained(i)' = Retained(i)
    BY <1>1 DEF witnessVars, Retained, OldestSlot
  <2>3. \A at : IsTailOfFiled(at) => IsTailOfFiled(at)'
    BY <2>1, <2>2 DEF IsTailOfFiled
  <2>4. FillsFromFirst' BY <1>1 DEF witnessVars, FillsFromFirst
  <2> QED BY <2>1, <2>3, <2>4 DEF RetainedIsTailOfFiled
<1>2. CASE ClearOverride /\ Resynchronises
  <2> DEFINE entry == [ref |-> reported_audit_ref, digest |-> NoDigest, by |-> "operator"]
  <2>1. entry \in LedgerEntry BY DEF TypeOK, LedgerEntry
  <2>2. ledger' = Append(ledger, entry) /\ UNCHANGED <<ring, ring_head, ring_count>>
    BY <1>2 DEF ClearOverride
  <2>3. Filed' = Filed /\ \A n \in Filed : ledger'[n] = ledger[n]
    BY <2>1, <2>2, LedgerAppended DEF Filed
  <2>4. PICK at \in [Indices -> Filed] : IsTailOfFiled(at) BY DEF RetainedIsTailOfFiled
  <2>5. Indices' = Indices /\ \A i \in Indices : Retained(i)' = Retained(i)
    BY <2>2 DEF Indices, Retained, OldestSlot
  <2>6. \A i \in Indices : at[i] \in Filed OBVIOUS
  <2>7. IsTailOfFiled(at)' BY <2>2, <2>3, <2>4, <2>5, <2>6 DEF IsTailOfFiled
  <2>8. FillsFromFirst' BY <2>2 DEF FillsFromFirst
  <2> QED BY <2>3, <2>5, <2>7, <2>8 DEF RetainedIsTailOfFiled
<1>3. CASE \E ref \in Refs, digest \in Digests : FileDigest(ref, digest)
  BY <1>3, RingOnFile, RetainedOnFile
<1> QED BY <1>1, <1>2, <1>3, WitnessMoves

LEMMA IndInvStep == IndInv /\ [SupervisorNext]_supervisorVars => IndInv'
  BY TypeStep, CausesStep, AgeStep, LedgerStep, RisesStep, RingStep DEF IndInv

THEOREM IndInvCorrect == SupervisorSpec => []IndInv
  BY IndInvInit, IndInvStep, PTL DEF SupervisorSpec

(* While the button is held or a chain alert stands the override stands, and *)
(* a reason is shown exactly while it does (supervisor_state.cpp:25-60,      *)
(* 93-97, 113-120).                                                          *)
THEOREM CausesAlwaysHold == SupervisorSpec => []CausesHoldOverride
<1>1. IndInv => CausesHoldOverride BY DEF IndInv
<1> QED BY <1>1, IndInvCorrect, PTL

-----------------------------------------------------------------------------
(* What an auditor reads off the node is the tail of what it filed, however  *)
(* often the ring has wrapped (supervisor_state.cpp:85-92, 145-156).         *)
THEOREM RetainedAlwaysTail == SupervisorSpec => []RetainedIsTailOfFiled
<1>1. IndInv => RetainedIsTailOfFiled BY DEF IndInv
<1> QED BY <1>1, IndInvCorrect, PTL

(* Between two digests that follow one another on the ring, the ledger holds *)
(* an operator's jump or nothing.                                            *)
LEMMA HolesFollow == IndInv => HolesWereAccepted
<1> SUFFICES ASSUME IndInv, NEW index \in 0 .. ring_count - 2
             PROVE  /\ Retained(index).ref < Retained(index + 1).ref
                    /\ Retained(index + 1).ref # Retained(index).ref + 1 =>
                         \E k \in 1 .. Len(ledger) :
                           /\ ledger[k].by = "operator"
                           /\ ledger[k].ref = Retained(index + 1).ref - 1
  BY DEF HolesWereAccepted
<1> DEFINE L == Len(ledger)
<1>1. PICK at \in [Indices -> Filed] : IsTailOfFiled(at)
  BY DEF IndInv, RetainedIsTailOfFiled
<1>2. ring_count \in Nat /\ index \in Nat /\ index \in Indices /\ index + 1 \in Indices
      /\ 0 \in Indices
  BY SupervisorAssumption DEF IndInv, TypeOK, Indices
<1> DEFINE m == at[index]
           n == at[index + 1]
<1>3. /\ Retained(index).ref = ledger[m].ref
      /\ Retained(index + 1).ref = ledger[n].ref
      /\ m < n /\ m \in Filed /\ n \in Filed /\ m \in 1 .. L /\ n \in 1 .. L
      /\ L \in Nat
  <2>1. L \in Nat BY DEF IndInv, TypeOK
  <2> QED BY <1>1, <1>2, <2>1 DEF IsTailOfFiled, Filed
<1>4. ASSUME NEW k \in Filed, m < k PROVE k >= n
  <2>1. k \in 1 .. L BY DEF Filed
  <2>2. at[0] <= m
    <3>1. at[0] \in 1 .. L BY <1>2 DEF Filed
    <3> QED BY <1>1, <1>2, <1>3, <3>1 DEF IsTailOfFiled
  <2>3. ~(k < at[0])
    <3>1. at[0] \in 1 .. L BY <1>2 DEF Filed
    <3> QED BY <1>3, <1>4, <2>1, <2>2, <3>1
  <2>4. PICK j \in Indices : at[j] = k BY <1>1, <2>3 DEF IsTailOfFiled
  <2>5. j \in Nat BY <1>2 DEF Indices
  <2>6. ~(j <= index)
    <3>1. j = index \/ j < index => at[j] <= m
      BY <1>1, <1>2, <1>3, <2>1, <2>4 DEF IsTailOfFiled
    <3> QED BY <1>2, <1>3, <1>4, <2>1, <2>4, <2>5, <3>1
  <2>7. j = index + 1 \/ index + 1 < j BY <1>2, <2>5, <2>6
  <2> QED BY <1>1, <1>2, <1>3, <2>1, <2>4, <2>7 DEF IsTailOfFiled
<1>5. n # 1 /\ n - 1 \in 1 .. L /\ n - 1 >= m BY <1>3
<1>6. /\ ledger[n].ref = ledger[n - 1].ref + 1
      /\ \A k \in 1 .. L : ledger[k] \in LedgerEntry /\ ledger[k].ref \in Nat
      /\ ledger[m].ref < ledger[n].ref
  <2>1. ledger \in Seq(LedgerEntry) BY DEF IndInv, TypeOK
  <2>2. \A k \in 1 .. L : ledger[k] \in LedgerEntry BY <2>1
  <2>3. \A k \in 1 .. L : ledger[k].ref \in Nat
    BY <2>2, SupervisorAssumption DEF LedgerEntry, Refs
  <2>4. ledger[n].ref = ledger[n - 1].ref + 1 BY <1>3, <1>5 DEF IndInv, LedgerRises
  <2>5. m \in 1 .. n - 1 BY <1>3
  <2>6. ledger[m].ref < ledger[n].ref BY <1>3, <2>5 DEF IndInv, LedgerRises
  <2> QED BY <2>2, <2>3, <2>4, <2>6
<1>7. CASE n - 1 = m
  <2>1. ledger[n].ref = ledger[m].ref + 1 BY <1>6, <1>7
  <2> QED BY <1>3, <1>6, <2>1
<1>8. CASE n - 1 # m
  <2>1. n - 1 \notin Filed
    <3>1. m < n - 1 /\ ~(n - 1 >= n) BY <1>3, <1>5, <1>8
    <3> QED BY <1>4, <3>1
  <2>2. ledger[n - 1].by = "operator"
    BY <1>5, <1>6, <2>1 DEF Filed, LedgerEntry
  <2>3. ledger[n - 1].ref = ledger[n].ref - 1 BY <1>3, <1>5, <1>6
  <2> QED BY <1>3, <1>5, <1>6, <2>2, <2>3
<1> QED BY <1>7, <1>8

(* A hole in the references an auditor reads is one an operator accepted     *)
(* (supervisor_state.cpp:48-54, 76-83).                                      *)
THEOREM HolesAlwaysAccepted == SupervisorSpec => []HolesWereAccepted
  BY HolesFollow, IndInvCorrect, PTL

-----------------------------------------------------------------------------
(* An override ends only with the button up and a heartbeat received no      *)
(* longer ago than the timeout, unless the clock has turned a full circle,   *)
(* and keeps its reason until then (supervisor_state.cpp:25-47).             *)
LEMMA ReleaseStep ==
  ASSUME IndInv, [SupervisorNext]_supervisorVars, mode = "OVERRIDE"
  PROVE  \/ mode' = "OVERRIDE" /\ override_reason' = override_reason
         \/ /\ mode' = "WATCHING"
            /\ ~button_pressed'
            /\ heartbeat_seen'
            /\ silence' <= HeartbeatTimeout \/ silence' = ClockModulus
<1> USE DEF contextVars, overrideVars, tierVars, witnessVars, supervisorVars
<1>1. CASE Tick BY <1>1 DEF Tick
<1>2. CASE SupervisorTick BY <1>2 DEF SupervisorTick, AssertOverride, Assert
<1>3. CASE ClearOverride
  <2>1. /\ mode' = "WATCHING"
        /\ ~button_pressed'
        /\ heartbeat_seen'
        /\ ~Stale
        /\ silence' = silence
    BY <1>3 DEF ClearOverride, ClearAllowed
  <2>2. silence <= HeartbeatTimeout \/ silence = ClockModulus
    <3>1. /\ silence \in 0 .. ClockModulus
          /\ ClockModulus \in Nat /\ HeartbeatTimeout \in Nat
          /\ silence < ClockModulus => heartbeat_age = silence
      BY SupervisorAssumption, ClockAssumption DEF IndInv, TypeOK, AgeIsSilence
    <3> QED BY <2>1, <3>1 DEF Stale
  <2> QED BY <2>1, <2>2
<1>4. CASE \E reason \in {"REMOTE_CONSOLE", "LATCH_MISMATCH"} : AssertOverride(reason)
  BY <1>4 DEF AssertOverride, Assert
<1>5. CASE \E ref \in Refs : OnHeartbeat(ref) BY <1>5 DEF OnHeartbeat
<1>6. CASE \E ref \in Refs, digest \in Digests : OnDigest(ref, digest)
  BY <1>6 DEF OnDigest, FileDigest, RejectDigest, Assert
<1>7. CASE \E pressed_now \in BOOLEAN : SetButton(pressed_now)
  BY <1>7 DEF SetButton, Assert
<1>8. CASE UNCHANGED supervisorVars BY <1>8
<1> QED BY <1>1, <1>2, <1>3, <1>4, <1>5, <1>6, <1>7, <1>8 DEF SupervisorNext

THEOREM ReleaseAlwaysEarned == SupervisorSpec => ReleaseIsEarned
<1>1. IndInv /\ [SupervisorNext]_supervisorVars =>
        [mode = "OVERRIDE" =>
           \/ mode' = "OVERRIDE" /\ override_reason' = override_reason
           \/ /\ mode' = "WATCHING"
              /\ ~button_pressed'
              /\ heartbeat_seen'
              /\ silence' <= HeartbeatTimeout \/ silence' = ClockModulus]_supervisorVars
  BY ReleaseStep
<1> QED BY <1>1, IndInvCorrect, PTL DEF SupervisorSpec, ReleaseIsEarned

-----------------------------------------------------------------------------
(* The state machine implements OversightContract: the override is the veto, *)
(* the reason its cause, the ledger what has been witnessed.                 *)
LEMMA ContractStep ==
  ASSUME IndInv, [SupervisorNext]_supervisorVars
  PROVE  Contract!ContractNext \/ UNCHANGED Contract!contract
<1> USE DEF contextVars, overrideVars, tierVars, witnessVars, supervisorVars,
            Contract!contract
<1>0. /\ TypeOK
      /\ CausesHoldOverride
      /\ last_ref = LedgerTop
      /\ LedgerTop = Contract!LastWitnessed
  BY DEF IndInv, LedgerTop, Contract!LastWitnessed
<1>a. ASSUME NEW reason \in Reasons, Assert(reason), UNCHANGED ledger,
             button_pressed' \in BOOLEAN,
             mode = "OVERRIDE" => UNCHANGED button_pressed
      PROVE  Contract!Raise \/ UNCHANGED Contract!contract
  <2>1. CASE mode = "OVERRIDE" BY <1>a, <2>1 DEF Assert
  <2>2. CASE mode # "OVERRIDE" BY <1>a, <2>2 DEF Assert, Contract!Raise
  <2> QED BY <2>1, <2>2
<1>b. /\ "GOVERNANCE_HEARTBEAT_LOST" \in Reasons
      /\ "ATTESTATION_MISMATCH" \in Reasons
      /\ "OPERATOR_BUTTON" \in Reasons
      /\ {"REMOTE_CONSOLE", "LATCH_MISMATCH"} \subseteq Reasons
  BY DEF Reasons
<1>1. CASE Tick BY <1>1 DEF Tick
<1>2. CASE SupervisorTick
  BY <1>0, <1>2, <1>a, <1>b DEF SupervisorTick, AssertOverride, Contract!ContractNext, TypeOK
<1>3. CASE ClearOverride
  <2>1. mode = "OVERRIDE" /\ mode' = "WATCHING" /\ override_reason' = NoReason
        /\ ~button_pressed /\ UNCHANGED button_pressed
    BY <1>3 DEF ClearOverride, ClearAllowed
  <2>2. CASE Resynchronises
    <3>1. reported_audit_ref \in Contract!LastWitnessed + 1 .. MaxRef
      BY <1>0, <2>2, SupervisorAssumption DEF Resynchronises, TypeOK, Refs
    <3>2. ledger' = Append(ledger, [ref |-> reported_audit_ref,
                                    digest |-> NoDigest, by |-> "operator"])
      BY <1>3, <2>2 DEF ClearOverride
    <3> QED BY <2>1, <3>1, <3>2 DEF Contract!Release, Contract!ContractNext
  <2>3. CASE ~Resynchronises
    BY <1>3, <2>1, <2>3 DEF ClearOverride, Contract!Release, Contract!ContractNext
  <2> QED BY <2>2, <2>3
<1>4. CASE \E reason \in {"REMOTE_CONSOLE", "LATCH_MISMATCH"} : AssertOverride(reason)
  <2>1. PICK reason \in {"REMOTE_CONSOLE", "LATCH_MISMATCH"} : AssertOverride(reason)
    BY <1>4
  <2> QED BY <1>0, <1>a, <1>b, <2>1 DEF AssertOverride, Contract!ContractNext, TypeOK
<1>5. CASE \E ref \in Refs : OnHeartbeat(ref) BY <1>5 DEF OnHeartbeat
<1>6. CASE \E ref \in Refs, digest \in Digests : OnDigest(ref, digest)
  <2>1. PICK ref \in Refs, digest \in Digests : OnDigest(ref, digest)
    BY <1>6
  <2>2. CASE FileDigest(ref, digest)
    <3>1. /\ ref = Contract!LastWitnessed + 1
          /\ Contract!LastWitnessed < MaxRef
      BY <1>0, <2>2, SupervisorAssumption DEF FileDigest, Verdict, TypeOK, Refs
    <3>2. ledger' = Append(ledger, [ref |-> ref, digest |-> digest, by |-> "digest"])
      BY <2>2 DEF FileDigest
    <3>3. UNCHANGED <<mode, override_reason, button_pressed>>
      BY <2>2 DEF FileDigest
    <3> QED BY <3>1, <3>2, <3>3 DEF Contract!Witness, Contract!ContractNext
  <2>3. CASE RejectDigest(ref)
    BY <1>0, <1>a, <1>b, <2>3 DEF RejectDigest, Contract!ContractNext, TypeOK
  <2> QED BY <2>1, <2>2, <2>3 DEF OnDigest
<1>7. CASE \E pressed_now \in BOOLEAN : SetButton(pressed_now)
  <2>1. PICK pressed_now \in BOOLEAN : SetButton(pressed_now)
    BY <1>7
  <2>2. button_pressed' \in BOOLEAN /\ UNCHANGED ledger BY <2>1 DEF SetButton
  <2>3. CASE mode = "OVERRIDE"
    <3>1. UNCHANGED <<mode, override_reason>>
      BY <2>1, <2>3 DEF SetButton, Assert
    <3> QED BY <2>2, <2>3, <3>1 DEF Contract!Hold, Contract!ContractNext
  <2>4. CASE mode # "OVERRIDE"
    <3>1. ~button_pressed BY <1>0, <2>4 DEF CausesHoldOverride
    <3>2. CASE pressed_now
      BY <1>a, <1>b, <2>1, <2>2, <2>4, <3>1, <3>2 DEF SetButton, Contract!ContractNext
    <3>3. CASE ~pressed_now
      BY <1>0, <2>1, <2>2, <3>1, <3>3 DEF SetButton, TypeOK
    <3> QED BY <2>1, <3>2, <3>3
  <2> QED BY <2>3, <2>4
<1>8. CASE UNCHANGED supervisorVars BY <1>8
<1> QED BY <1>1, <1>2, <1>3, <1>4, <1>5, <1>6, <1>7, <1>8 DEF SupervisorNext

THEOREM SupervisorImplementsContract == SupervisorSpec => ImplementsContract
<1>1. SupervisorInit => Contract!ContractInit
  BY DEF SupervisorInit, Contract!ContractInit
<1>2. IndInv /\ [SupervisorNext]_supervisorVars =>
        [Contract!ContractNext]_Contract!contract
  BY ContractStep
<1> QED BY <1>1, <1>2, IndInvCorrect, PTL
        DEF SupervisorSpec, ImplementsContract, Contract!ContractSpec
=============================================================================

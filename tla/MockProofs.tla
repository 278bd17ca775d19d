------------------------------ MODULE MockProofs ------------------------------
(***************************************************************************)
(* Theorems about the simulated node, for every timeout, capacity, range   *)
(* of references, relay module and setting: its threads keep the promise   *)
(* of OversightContract and leave no cause without an override however     *)
(* they interleave; and when handlers take turns, relay, wire, read-back   *)
(* and alert agree with the override between them.  The argument is about  *)
(* what the threads still have to do.                                      *)
(***************************************************************************)
EXTENDS MockProperties, QueueLemmas

-----------------------------------------------------------------------------
(* What a thread can still have to do: a handler's steps, or their last part.*)
After(kind) ==
  CASE kind = "arm"                          -> {"pulse"}
    [] kind \in {"pulse", "read_register"}   -> {"read_sense"}
    [] kind = "read_sense"                   -> {"record", "record_poll"}
    [] kind = "record"                       -> {"write"}
    [] OTHER                                 -> {}

NeverLast == {"pulse", "read_register", "read_sense"}

Plans ==
  {plan \in Seq(Steps) : \A k \in 1 .. Len(plan) :
     /\ k < Len(plan) => plan[k + 1][1] \in After(plan[k][1])
     /\ plan[k][1] \in NeverLast => k < Len(plan)}

(* Will it close the relay?  Which frame does it end with?                   *)
Closes(plan) ==
  /\ plan # <<>>
  /\ \/ plan[1][1] = "pulse" /\ plan[1][2] = "CLOSED"
     \/ plan[1][1] = "arm" /\ Len(plan) > 1

Writes(plan, frame) ==
  plan # <<>> /\ plan[Len(plan)][1] = "write" /\ plan[Len(plan)][2] = frame

LEMMA StepKinds ==
  ASSUME NEW step \in Steps
  PROVE  /\ step[1] = "pulse" => step[2] \in Contacts
         /\ step[1] = "assert" => step[2] \in Reasons
         /\ step[1] = "write" => step[2] \in OverrideFrames
  BY DEF Steps, Contacts, Reasons, OverrideFrames

LEMMA PlanStep ==
  ASSUME NEW plan \in Plans, plan # <<>>
  PROVE  LET first == Head(plan)
             rest == Tail(plan)
         IN  /\ rest \in Plans
             /\ first \in Steps
             /\ rest # <<>> => Head(rest)[1] \in After(first[1])
             /\ first[1] \in NeverLast => rest # <<>>
             /\ Closes(rest) => Closes(plan) /\ first[1] = "arm"
             /\ Closes(plan) => first[1] \in {"pulse", "arm"}
             /\ first[1] = "pulse" => (Closes(plan) <=> first[2] = "CLOSED")
             /\ first[1] # "write" => \A frame : Writes(rest, frame) <=> Writes(plan, frame)
             /\ first[1] = "write" => \A frame : Writes(plan, frame) <=> frame = first[2]
<1> DEFINE first == Head(plan)
           rest == Tail(plan)
<1>1. plan \in Seq(Steps) BY DEF Plans
<1>2. /\ rest \in Seq(Steps) /\ first \in Steps
      /\ Len(plan) \in Nat /\ Len(plan) > 0 /\ Len(rest) = Len(plan) - 1
      /\ first = plan[1]
      /\ \A k \in 1 .. Len(rest) : rest[k] = plan[k + 1]
  BY <1>1, Served
<1> HIDE DEF first, rest
<1>3. \A k \in 1 .. Len(plan) :
        /\ k < Len(plan) => plan[k + 1][1] \in After(plan[k][1])
        /\ plan[k][1] \in NeverLast => k < Len(plan)
  BY DEF Plans
<1>4. ASSUME NEW k \in 1 .. Len(rest)
      PROVE  /\ k < Len(rest) => rest[k + 1][1] \in After(rest[k][1])
             /\ rest[k][1] \in NeverLast => k < Len(rest)
  <2>1. k + 1 \in 1 .. Len(plan) /\ rest[k] = plan[k + 1] BY <1>2
  <2>2. k < Len(rest) => k + 1 < Len(plan) /\ rest[k + 1] = plan[(k + 1) + 1] BY <1>2
  <2> QED BY <1>2, <1>3, <2>1, <2>2
<1>5. rest \in Plans BY <1>2, <1>4 DEF Plans
<1>6. rest # <<>> <=> Len(rest) > 0 BY <1>2
<1>7. rest # <<>> => Head(rest) = rest[1] /\ rest[1] = plan[2] /\ 1 < Len(plan)
      /\ rest[Len(rest)] = plan[Len(plan)]
  <2>1. rest # <<>> => Head(rest) = rest[1] BY <1>2
  <2>2. rest # <<>> => 1 \in 1 .. Len(rest) /\ Len(rest) \in 1 .. Len(rest) /\ Len(rest) + 1 = Len(plan)
    BY <1>2, <1>6
  <2> QED BY <1>2, <2>1, <2>2
<1>8. 1 \in 1 .. Len(plan) BY <1>2
<1>9. rest # <<>> => Head(rest)[1] \in After(first[1]) BY <1>2, <1>3, <1>7, <1>8
<1>10. first[1] \in NeverLast => rest # <<>> BY <1>2, <1>3, <1>6, <1>8
<1>11. rest = <<>> => Len(plan) = 1 /\ plan[Len(plan)] = first BY <1>2, <1>6
<1>12. first[1] = "write" => rest = <<>> BY <1>9 DEF After
<1>13. Closes(rest) => Closes(plan) /\ first[1] = "arm"
  <2>1. ASSUME Closes(rest) PROVE first[1] = "arm" /\ 1 < Len(plan)
    BY <2>1, <1>7, <1>9 DEF Closes, After
  <2> QED BY <2>1, <1>2 DEF Closes
<1>14. ASSUME first[1] # "write", NEW frame
       PROVE  Writes(rest, frame) <=> Writes(plan, frame)
  BY <1>14, <1>7, <1>11 DEF Writes
<1>15. ASSUME first[1] = "write", NEW frame
       PROVE  Writes(plan, frame) <=> frame = first[2]
  BY <1>15, <1>11, <1>12 DEF Writes
<1>16. Closes(plan) => first[1] \in {"pulse", "arm"} BY <1>2 DEF Closes
<1>17. first[1] = "pulse" => (Closes(plan) <=> first[2] = "CLOSED") BY <1>2 DEF Closes
<1> QED BY <1>2, <1>5, <1>9, <1>10, <1>13, <1>14, <1>15, <1>16, <1>17 DEF first, rest

(* What the handlers leave to be done.                                       *)
LEMMA Joined ==
  /\ Enforce = << <<"pulse", "OPEN">>, <<"read_sense">>, <<"record">>,
                  <<"write", "OVERRIDE_ASSERT">> >>
  /\ Permit \o Write("OVERRIDE_CLEAR")
       = << <<"pulse", "CLOSED">>, <<"read_sense">>, <<"record">>,
            <<"write", "OVERRIDE_CLEAR">> >>
  /\ << <<"arm">> >> \o Permit
       = << <<"arm">>, <<"pulse", "CLOSED">>, <<"read_sense">>, <<"record">> >>
  /\ << <<"arm">> >> \o <<>> = << <<"arm">> >>
<1>1. ASSUME NEW a, NEW b, NEW c, NEW d
      PROVE  /\ <<a, b, c>> \o <<d>> = <<a, b, c, d>>
             /\ <<a>> \o <<b, c, d>> = <<a, b, c, d>>
             /\ <<a>> \o <<>> = <<a>>
  <2> DEFINE S == {a, b, c, d}
             abc == <<a, b, c>>
             bcd == <<b, c, d>>
             abcd == <<a, b, c, d>>
  <2>1. abc \in Seq(S) /\ Len(abc) = 3 /\ abc[1] = a /\ abc[2] = b /\ abc[3] = c OBVIOUS
  <2>2. bcd \in Seq(S) /\ Len(bcd) = 3 /\ bcd[1] = b /\ bcd[2] = c /\ bcd[3] = d OBVIOUS
  <2>3. /\ abcd \in Seq(S) /\ Len(abcd) = 4
        /\ abcd[1] = a /\ abcd[2] = b /\ abcd[3] = c /\ abcd[4] = d
    OBVIOUS
  <2>4. \A x \in S : <<x>> \in Seq(S) /\ Len(<<x>>) = 1 /\ <<x>>[1] = x OBVIOUS
  <2>5. a \in S /\ d \in S OBVIOUS
  <2> HIDE DEF S, abc, bcd, abcd
  <2>6. abc \o <<d>> = abcd
    <3> DEFINE last == <<d>>
    <3>1. last \in Seq(S) /\ Len(last) = 1 /\ last[1] = d BY <2>4, <2>5
    <3> HIDE DEF last
    <3>2. Len(abcd) = Len(abc) + Len(last) BY <3>1, <2>1, <2>3
    <3>3. \A k \in 1 .. Len(abc) : abcd[k] = abc[k] BY <2>1, <2>3
    <3>4. \A k \in 1 .. Len(last) : abcd[Len(abc) + k] = last[k] BY <3>1, <2>1, <2>3
    <3>5. abc \o last = abcd BY <2>1, <2>3, <3>1, <3>2, <3>3, <3>4, Glued
    <3> QED BY <3>5 DEF last
  <2>7. <<a>> \o bcd = abcd
    <3> DEFINE first == <<a>>
    <3>1. first \in Seq(S) /\ Len(first) = 1 /\ first[1] = a BY <2>4, <2>5
    <3> HIDE DEF first
    <3>2. Len(abcd) = Len(first) + Len(bcd) BY <3>1, <2>2, <2>3
    <3>3. \A k \in 1 .. Len(first) : abcd[k] = first[k] BY <3>1, <2>3
    <3>4. \A k \in 1 .. Len(bcd) : abcd[Len(first) + k] = bcd[k] BY <3>1, <2>2, <2>3
    <3>5. first \o bcd = abcd BY <2>2, <2>3, <3>1, <3>2, <3>3, <3>4, Glued
    <3> QED BY <3>5 DEF first
  <2>8. <<a>> \o <<>> = <<a>> BY <2>4, <2>5, GluedToNothing
  <2> QED BY <2>6, <2>7, <2>8 DEF abc, bcd, abcd
<1>2. Enforce = << <<"pulse", "OPEN">>, <<"read_sense">>, <<"record">>,
                   <<"write", "OVERRIDE_ASSERT">> >>
  BY <1>1, Zenon DEF Enforce, Halt, Write
<1>3. Permit \o Write("OVERRIDE_CLEAR")
        = << <<"pulse", "CLOSED">>, <<"read_sense">>, <<"record">>,
             <<"write", "OVERRIDE_CLEAR">> >>
  BY <1>1, Zenon DEF Permit, Write
<1>4. << <<"arm">> >> \o Permit
        = << <<"arm">>, <<"pulse", "CLOSED">>, <<"read_sense">>, <<"record">> >>
  <2>1. \A a, b, c, d : <<a>> \o <<b, c, d>> = <<a, b, c, d>> BY <1>1
  <2> QED BY <2>1, Zenon DEF Permit
<1>5. << <<"arm">> >> \o <<>> = << <<"arm">> >> BY <1>1, Zenon
<1> QED BY <1>2, <1>3, <1>4, <1>5, Zenon

LEMMA PlanOfOne ==
  ASSUME NEW a \in Steps, a[1] \notin NeverLast
  PROVE  LET plan == <<a>>
         IN  /\ plan \in Plans /\ plan # <<>> /\ Head(plan) = a
             /\ Closes(plan) <=> a[1] = "pulse" /\ a[2] = "CLOSED"
             /\ \A frame : Writes(plan, frame) <=> a[1] = "write" /\ a[2] = frame
<1> DEFINE plan == <<a>>
<1>1. plan \in Seq(Steps) /\ Len(plan) = 1 /\ plan[1] = a /\ plan # <<>> /\ Head(plan) = a
  OBVIOUS
<1> HIDE DEF plan
<1> QED BY <1>1 DEF Plans, Closes, Writes, plan

LEMMA PlanOfThree ==
  ASSUME NEW a \in Steps, NEW b \in Steps, NEW c \in Steps,
         b[1] \in After(a[1]), c[1] \in After(b[1]), c[1] \notin NeverLast
  PROVE  LET plan == <<a, b, c>>
         IN  /\ plan \in Plans /\ plan # <<>> /\ Head(plan) = a
             /\ Closes(plan) <=> (a[1] = "pulse" /\ a[2] = "CLOSED") \/ a[1] = "arm"
             /\ \A frame : Writes(plan, frame) <=> c[1] = "write" /\ c[2] = frame
<1> DEFINE plan == <<a, b, c>>
<1>1. /\ plan \in Seq(Steps) /\ Len(plan) = 3 /\ plan # <<>> /\ Head(plan) = a
      /\ plan[1] = a /\ plan[2] = b /\ plan[3] = c
  OBVIOUS
<1> HIDE DEF plan
<1>2. ASSUME NEW k \in 1 .. 3
      PROVE  /\ k < 3 => plan[k + 1][1] \in After(plan[k][1])
             /\ plan[k][1] \in NeverLast => k < 3
  <2>1. CASE k = 1 BY <1>1, <2>1
  <2>2. CASE k = 2 BY <1>1, <2>2
  <2>3. CASE k = 3 BY <1>1, <2>3
  <2> QED BY <2>1, <2>2, <2>3
<1> QED BY <1>1, <1>2 DEF Plans, Closes, Writes, plan

LEMMA PlanOfFour ==
  ASSUME NEW a \in Steps, NEW b \in Steps, NEW c \in Steps, NEW d \in Steps,
         b[1] \in After(a[1]), c[1] \in After(b[1]), d[1] \in After(c[1]),
         d[1] \notin NeverLast
  PROVE  LET plan == <<a, b, c, d>>
         IN  /\ plan \in Plans /\ plan # <<>> /\ Head(plan) = a
             /\ Closes(plan) <=> (a[1] = "pulse" /\ a[2] = "CLOSED") \/ a[1] = "arm"
             /\ \A frame : Writes(plan, frame) <=> d[1] = "write" /\ d[2] = frame
<1> DEFINE plan == <<a, b, c, d>>
<1>1. /\ plan \in Seq(Steps) /\ Len(plan) = 4 /\ plan # <<>> /\ Head(plan) = a
      /\ plan[1] = a /\ plan[2] = b /\ plan[3] = c /\ plan[4] = d
  OBVIOUS
<1> HIDE DEF plan
<1>2. ASSUME NEW k \in 1 .. 4
      PROVE  /\ k < 4 => plan[k + 1][1] \in After(plan[k][1])
             /\ plan[k][1] \in NeverLast => k < 4
  <2>1. CASE k = 1 BY <1>1, <2>1
  <2>2. CASE k = 2 BY <1>1, <2>2
  <2>3. CASE k = 3 BY <1>1, <2>3
  <2>4. CASE k = 4 BY <1>1, <2>4
  <2> QED BY <2>1, <2>2, <2>3, <2>4
<1> QED BY <1>1, <1>2 DEF Plans, Closes, Writes, plan

(* A plan that is made, begins with first, and ends in no frame, or in one.  *)
Made(plan, first) == plan \in Plans /\ plan # <<>> /\ Head(plan) = first
Silent(plan) == \A frame : ~Writes(plan, frame)
Tells(plan, told) == \A frame : Writes(plan, frame) <=> frame = told

LEMMA PlansMade ==
  /\ <<>> \in Plans /\ ~Closes(<<>>) /\ Silent(<<>>)
  /\ Made(Halt, <<"pulse", "OPEN">>) /\ ~Closes(Halt) /\ Silent(Halt)
  /\ Made(Permit, <<"pulse", "CLOSED">>) /\ Silent(Permit)
  /\ Made(Poll, <<"read_register">>) /\ ~Closes(Poll) /\ Silent(Poll)
  /\ Made(Enforce, <<"pulse", "OPEN">>) /\ ~Closes(Enforce) /\ Tells(Enforce, "OVERRIDE_ASSERT")
  /\ LET cleared == Permit \o Write("OVERRIDE_CLEAR")
     IN  Made(cleared, <<"pulse", "CLOSED">>) /\ Tells(cleared, "OVERRIDE_CLEAR")
  /\ Made(<< <<"arm">> >> \o Permit, <<"arm">>) /\ Silent(<< <<"arm">> >> \o Permit)
  /\ LET arming == << <<"arm">> >> \o <<>>
     IN  Made(arming, <<"arm">>) /\ ~Closes(arming) /\ Silent(arming)
  /\ \A reason \in Reasons : /\ Made(Raise(reason), <<"assert", reason>>)
                             /\ ~Closes(Raise(reason)) /\ Silent(Raise(reason))
<1> DEFINE open == <<"pulse", "OPEN">>
           close == <<"pulse", "CLOSED">>
           register_read == <<"read_register">>
           sense_read == <<"read_sense">>
           recorded == <<"record">>
           poll_recorded == <<"record_poll">>
           arm == <<"arm">>
           asserted == <<"write", "OVERRIDE_ASSERT">>
           cleared == <<"write", "OVERRIDE_CLEAR">>
<1>1. /\ {open, close, register_read, sense_read, recorded, poll_recorded, arm,
          asserted, cleared} \subseteq Steps
      /\ \A reason \in Reasons : <<"assert", reason>> \in Steps
  BY DEF Steps, Contacts, OverrideFrames
<1>2. /\ open[1] = "pulse" /\ open[2] = "OPEN" /\ close[1] = "pulse" /\ close[2] = "CLOSED"
      /\ register_read[1] = "read_register" /\ sense_read[1] = "read_sense"
      /\ recorded[1] = "record" /\ poll_recorded[1] = "record_poll" /\ arm[1] = "arm"
      /\ asserted[1] = "write" /\ asserted[2] = "OVERRIDE_ASSERT"
      /\ cleared[1] = "write" /\ cleared[2] = "OVERRIDE_CLEAR"
      /\ \A reason \in Reasons : <<"assert", reason>>[1] = "assert"
  OBVIOUS
<1>3. /\ After("arm") = {"pulse"} /\ After("pulse") = {"read_sense"}
      /\ After("read_register") = {"read_sense"}
      /\ After("read_sense") = {"record", "record_poll"} /\ After("record") = {"write"}
  BY DEF After
<1>4. {"arm", "record", "record_poll", "assert", "write"} \cap NeverLast = {}
  BY DEF NeverLast
<1> HIDE DEF open, close, register_read, sense_read, recorded, poll_recorded, arm, asserted,
             cleared
<1>5. <<>> \in Plans /\ ~Closes(<<>>) /\ Silent(<<>>)
  <2>1. <<>> \in Seq(Steps) /\ \A k \in 1 .. Len(<<>>) : FALSE OBVIOUS
  <2> QED BY <2>1 DEF Plans, Closes, Writes, Silent
<1>6. /\ Made(<<open, sense_read, recorded>>, open)
      /\ ~Closes(<<open, sense_read, recorded>>)
      /\ Silent(<<open, sense_read, recorded>>)
  BY <1>1, <1>2, <1>3, <1>4, PlanOfThree DEF Made, Silent
<1>7. /\ Made(<<close, sense_read, recorded>>, close)
      /\ Silent(<<close, sense_read, recorded>>)
  BY <1>1, <1>2, <1>3, <1>4, PlanOfThree DEF Made, Silent
<1>8. /\ Made(<<register_read, sense_read, poll_recorded>>, register_read)
      /\ ~Closes(<<register_read, sense_read, poll_recorded>>)
      /\ Silent(<<register_read, sense_read, poll_recorded>>)
  BY <1>1, <1>2, <1>3, <1>4, PlanOfThree DEF Made, Silent
<1>9. /\ Made(<<open, sense_read, recorded, asserted>>, open)
      /\ ~Closes(<<open, sense_read, recorded, asserted>>)
      /\ Tells(<<open, sense_read, recorded, asserted>>, "OVERRIDE_ASSERT")
  BY <1>1, <1>2, <1>3, <1>4, PlanOfFour DEF Made, Tells
<1>10. /\ Made(<<close, sense_read, recorded, cleared>>, close)
       /\ Tells(<<close, sense_read, recorded, cleared>>, "OVERRIDE_CLEAR")
  BY <1>1, <1>2, <1>3, <1>4, PlanOfFour DEF Made, Tells
<1>11. /\ Made(<<arm, close, sense_read, recorded>>, arm)
       /\ Silent(<<arm, close, sense_read, recorded>>)
  BY <1>1, <1>2, <1>3, <1>4, PlanOfFour DEF Made, Silent
<1>12. Made(<<arm>>, arm) /\ ~Closes(<<arm>>) /\ Silent(<<arm>>)
  BY <1>1, <1>2, <1>3, <1>4, PlanOfOne DEF Made, Silent
<1>13. \A reason \in Reasons :
         /\ Made(Raise(reason), <<"assert", reason>>)
         /\ ~Closes(Raise(reason)) /\ Silent(Raise(reason))
  BY <1>1, <1>2, <1>4, PlanOfOne DEF Made, Silent, Raise
<1> QED
  BY <1>5, <1>6, <1>7, <1>8, <1>9, <1>10, <1>11, <1>12, <1>13, Joined, Zenon
     DEF Halt, Permit, Poll, open, close, register_read, sense_read, recorded,
         poll_recorded, arm, asserted, cleared
-----------------------------------------------------------------------------
(* The inductive invariant.                                                  *)
LedgerEntry == [ref : Refs, digest : Digests \cup {NoDigest}, by : {"digest", "operator"}]

Typed ==
  /\ MockTypeOK
  /\ todo \in [Threads -> Plans]
  /\ setting \in Settings
  /\ ledger \in Seq(LedgerEntry)
  /\ last_ref = Contract!LastWitnessed

(* A cause without an override is on a thread that is about to latch it.     *)
StillToLatch ==
  /\ button_pressed /\ ~override => Upcoming("operator", "assert")
  /\ chain_alert /\ ~override => Upcoming("reader", "assert")

(* The rest holds when handlers take turns: t is the one that may be busy.   *)
Alone(t) == \A s \in Threads \ {t} : todo[s] = <<>>

(* The node takes a request for UNKNOWN for one to close, and grants it.     *)
PlainRequests == setting.requests \subseteq Contacts

RelayTurn(t) ==
  PlainRequests /\ override =>
    ~Closes(todo[t]) /\ (commanded = "OPEN" \/ Upcoming(t, "pulse"))

ToBeTold == IF override THEN "OVERRIDE_ASSERT" ELSE "OVERRIDE_CLEAR"

WireTurn(t) ==
  ((announced <=> override) /\ Silent(todo[t])) \/ Tells(todo[t], ToBeTold)

Recorded(t) == Upcoming(t, "record") \/ Upcoming(t, "record_poll")

ReadingTurn(t) ==
  /\ last_observed = "OPEN" => contact = "OPEN" \/ Upcoming(t, "read_sense") \/ Recorded(t)
  /\ Recorded(t) => (sampled[t].observed = "OPEN" => contact = "OPEN")

AlertTurn(t) ==
  /\ override_reason = "ATTESTATION_MISMATCH" => chain_alert
  /\ Upcoming(t, "assert") /\ Argument(t) = "ATTESTATION_MISMATCH" => chain_alert

Turn(t) == Alone(t) /\ RelayTurn(t) /\ WireTurn(t) /\ ReadingTurn(t) /\ AlertTurn(t)

TurnInv == \E t \in Threads : Turn(t)

MockInv == Typed /\ RetainedIsTail /\ StillToLatch /\ (setting.serialised => TurnInv)

-----------------------------------------------------------------------------
(* How the lists change.                                                     *)
LEMMA Begun ==
  ASSUME todo \in [Threads -> Plans], NEW t \in Threads, NEW steps \in Plans, Begin(t, steps)
  PROVE  /\ todo' \in [Threads -> Plans] /\ todo'[t] = steps /\ UNCHANGED setting
         /\ \A s \in Threads \ {t} : todo'[s] = todo[s]
  BY DEF Begin

LEMMA Continued ==
  ASSUME todo \in [Threads -> Plans], NEW t \in Threads, ~Idle(t),
         NEW more \in Plans, Continue(t, more),
         more # <<>> => Tail(todo[t]) = <<>>
  PROVE  /\ todo' \in [Threads -> Plans] /\ UNCHANGED setting
         /\ todo'[t] = IF more = <<>> THEN Tail(todo[t]) ELSE more
         /\ \A s \in Threads \ {t} : todo'[s] = todo[s]
<1>1. todo[t] \in Plans /\ Tail(todo[t]) \in Plans BY PlanStep DEF Idle
<1>2. Tail(todo[t]) \in Seq(Steps) /\ more \in Seq(Steps) BY <1>1 DEF Plans
<1>3. more \o Tail(todo[t]) = IF more = <<>> THEN Tail(todo[t]) ELSE more
  BY <1>2, GluedToNothing
<1> QED BY <1>1, <1>3 DEF Continue

LEMMA StepTaken ==
  ASSUME Typed, NEW t \in Threads, Step(t)
  PROVE  /\ ~Idle(t) /\ todo[t] \in Plans
         /\ todo' \in [Threads -> Plans] /\ UNCHANGED setting
         /\ \A s \in Threads \ {t} : todo'[s] = todo[s]
         /\ Head(todo[t])[1] \notin {"assert", "record_poll"} => todo'[t] = Tail(todo[t])
         /\ Head(todo[t])[1] = "record_poll" => todo'[t] \in {<<>>, Raise("LATCH_MISMATCH")}
         /\ Head(todo[t])[1] = "assert" => todo'[t] = IF override THEN <<>> ELSE Enforce
         /\ UNCHANGED <<button_pressed, chain_alert, witnessVars, last_heartbeat>>
         /\ IF Head(todo[t])[1] = "assert" THEN override' ELSE UNCHANGED overrideVars
<1>1. todo \in [Threads -> Plans] BY DEF Typed
<1>2. <<>> \in Plans /\ Enforce \in Plans /\ Enforce # <<>>
      /\ Raise("LATCH_MISMATCH") \in Plans /\ Raise("LATCH_MISMATCH") # <<>>
  BY PlansMade DEF Made, Reasons
<1> USE DEF Upcoming, nodeVars, overrideVars, witnessVars
<1>3. CASE Pulse(t) BY <1>1, <1>2, <1>3, Continued DEF Pulse
<1>4. CASE SampleRegister(t) BY <1>1, <1>2, <1>4, Continued DEF SampleRegister, Sampling
<1>5. CASE SampleSense(t) BY <1>1, <1>2, <1>5, Continued DEF SampleSense, Sampling
<1>6. CASE RecordReading(t) BY <1>1, <1>2, <1>6, Continued DEF RecordReading, Recording
<1>7. CASE RecordPoll(t)
  <2>1. ~Idle(t) /\ Head(todo[t])[1] = "record_poll" BY <1>7 DEF RecordPoll, Recording
  <2>2. todo[t] \in Plans /\ Tail(todo[t]) = <<>>
    BY <1>1, <2>1, PlanStep DEF Idle, After
  <2>3. PICK more \in {<<>>, Raise("LATCH_MISMATCH")} : Continue(t, more)
    BY <1>7 DEF RecordPoll
  <2>4. /\ todo' \in [Threads -> Plans] /\ UNCHANGED setting
        /\ todo'[t] = IF more = <<>> THEN Tail(todo[t]) ELSE more
        /\ \A s \in Threads \ {t} : todo'[s] = todo[s]
    BY <1>1, <1>2, <2>1, <2>2, <2>3, Continued
  <2> QED BY <1>7, <2>1, <2>2, <2>3, <2>4 DEF RecordPoll, Recording
<1>8. CASE AssertOverride(t)
  <2>1. ~Idle(t) /\ Head(todo[t])[1] = "assert" BY <1>8 DEF AssertOverride
  <2>2. todo[t] \in Plans /\ Tail(todo[t]) = <<>>
    BY <1>1, <2>1, PlanStep DEF Idle, After
  <2>3. Continue(t, IF override THEN <<>> ELSE Enforce) BY <1>8 DEF AssertOverride
  <2>4. /\ todo' \in [Threads -> Plans] /\ UNCHANGED setting
        /\ todo'[t] = IF override THEN <<>> ELSE Enforce
        /\ \A s \in Threads \ {t} : todo'[s] = todo[s]
    BY <1>1, <1>2, <2>1, <2>2, <2>3, Continued
  <2> QED BY <1>8, <2>1, <2>2, <2>4 DEF AssertOverride
<1>9. CASE WriteFrame(t) BY <1>1, <1>2, <1>9, Continued DEF WriteFrame
<1>10. CASE ArmWatchdog(t) BY <1>1, <1>2, <1>10, Continued DEF ArmWatchdog
<1> QED BY <1>3, <1>4, <1>5, <1>6, <1>7, <1>8, <1>9, <1>10 DEF Step

(* What a handler begins with.                                               *)
LEMMA HandlerBegun ==
  ASSUME Typed, MockNext
  PROVE  \/ \E t \in Threads : Step(t)
         \/ (ReleaseButton \/ ClockTick \/ RelayChanges) /\ UNCHANGED <<todo, setting>>
         \/ (\E ref \in setting.refs, digest \in Digests :
               Idle("reader") /\ OnDigest(ref, digest) /\ AcceptDigest(ref, digest))
            /\ UNCHANGED <<todo, setting>>
         \/ \E t \in Threads, steps \in Plans :
              /\ Free(t) /\ Begin(t, steps)
              /\ \/ t = "reader" /\ steps = Poll /\ PollLatch
                 \/ t = "reader" /\ \E ref \in setting.refs :
                      /\ OnHeartbeat(ref)
                      /\ \/ steps = << <<"arm">> >> \o Permit /\ ~override
                         \/ steps = << <<"arm">> >> \o <<>>
                 \/ t = "reader" /\ \E desired \in setting.requests :
                      /\ OnLatchRequest(desired)
                      /\ \/ steps = <<>> \/ steps = Halt
                         \/ steps = Permit /\ (PlainRequests => ~override)
                 \/ t = "reader" /\ steps = Raise("ATTESTATION_MISMATCH")
                    /\ \E ref \in setting.refs, digest \in Digests :
                         OnDigest(ref, digest) /\ RejectDigest(ref)
                 \/ t = "timer" /\ steps = Raise("GOVERNANCE_HEARTBEAT_LOST") /\ WatchdogExpires
                 \/ t = "operator" /\ steps = Raise("OPERATOR_BUTTON") /\ PressButton
                 \/ t = "operator" /\ steps = Raise("REMOTE_CONSOLE") /\ RemoteOverride
                 \/ t = "operator" /\ steps = Permit \o Write("OVERRIDE_CLEAR") /\ ClearOverride
<1> USE DEF Threads
<1>a. /\ {<<>>, Halt, Permit, Poll, Permit \o Write("OVERRIDE_CLEAR"),
          << <<"arm">> >> \o Permit, << <<"arm">> >> \o <<>>} \subseteq Plans
      /\ \A reason \in Reasons : Raise(reason) \in Plans
  BY PlansMade DEF Made
<1>b. {"ATTESTATION_MISMATCH", "GOVERNANCE_HEARTBEAT_LOST", "OPERATOR_BUTTON",
       "REMOTE_CONSOLE"} \subseteq Reasons
  BY DEF Reasons
<1>1. CASE \E t \in Threads : Step(t) BY <1>1
<1>2. CASE PollLatch BY <1>2, <1>a DEF PollLatch
<1>3. ASSUME NEW ref \in setting.refs, OnHeartbeat(ref)
      PROVE  \E steps \in Plans :
               /\ Free("reader") /\ Begin("reader", steps)
               /\ \/ steps = << <<"arm">> >> \o Permit /\ ~override
                  \/ steps = << <<"arm">> >> \o <<>>
  <2>1. CASE last_heartbeat = None /\ ~override BY <1>3, <1>a, <2>1 DEF OnHeartbeat
  <2>2. CASE ~(last_heartbeat = None /\ ~override) BY <1>3, <1>a, <2>2 DEF OnHeartbeat
  <2> QED BY <2>1, <2>2
<1>4. ASSUME NEW desired \in setting.requests, OnLatchRequest(desired)
      PROVE  \E steps \in Plans :
               /\ Free("reader") /\ Begin("reader", steps)
               /\ \/ steps = <<>> \/ steps = Halt
                  \/ steps = Permit /\ (PlainRequests => ~override)
  <2>1. CASE Refused(desired) BY <1>4, <1>a, <2>1 DEF OnLatchRequest
  <2>2. CASE ~Refused(desired) /\ desired = "OPEN"
    BY <1>4, <1>a, <2>2 DEF OnLatchRequest, Refused
  <2>3. CASE ~Refused(desired) /\ desired # "OPEN"
    BY <1>4, <1>a, <2>3 DEF OnLatchRequest, Refused, PlainRequests, Contacts
  <2> QED BY <2>1, <2>2, <2>3
<1>5. ASSUME NEW ref \in setting.refs, NEW digest \in Digests, OnDigest(ref, digest)
      PROVE  \/ Idle("reader") /\ AcceptDigest(ref, digest) /\ UNCHANGED <<todo, setting>>
             \/ Free("reader") /\ RejectDigest(ref)
                /\ Begin("reader", Raise("ATTESTATION_MISMATCH"))
  BY <1>5 DEF OnDigest, AcceptDigest, RejectDigest, Free
<1>6. CASE WatchdogExpires BY <1>6, <1>a, <1>b DEF WatchdogExpires
<1>7. CASE PressButton BY <1>7, <1>a, <1>b DEF PressButton
<1>8. CASE ReleaseButton BY <1>8 DEF ReleaseButton, threadVars
<1>9. CASE RemoteOverride BY <1>9, <1>a, <1>b DEF RemoteOverride
<1>10. CASE ClearOverride BY <1>10, <1>a DEF ClearOverride
<1>11. CASE ClockTick BY <1>11 DEF ClockTick, threadVars
<1>12. CASE RelayChanges BY <1>12 DEF RelayChanges, threadVars
<1>13. CASE \E ref \in setting.refs : OnHeartbeat(ref) BY <1>3, <1>13
<1>14. CASE \E desired \in setting.requests : OnLatchRequest(desired) BY <1>4, <1>14
<1>15. CASE \E ref \in setting.refs, digest \in Digests : OnDigest(ref, digest)
  BY <1>5, <1>15, <1>a, <1>b
<1> QED BY <1>1, <1>2, <1>6, <1>7, <1>8, <1>9, <1>10, <1>11, <1>12, <1>13, <1>14, <1>15
        DEF MockNext

-----------------------------------------------------------------------------
(* The types.                                                                *)
LEMMA InvInit ==
  ASSUME MockInit
  PROVE  MockInv
<1> USE DEF MockInit
<1>1. todo \in [Threads -> Plans] BY PlansMade
<1>2. /\ PlantTypeOK /\ last_observed \in Positions
      /\ (last_observed = "OPEN" => contact = "OPEN")
  BY DEF PlantTypeOK, Contacts, Positions, Faults, ChannelStates, ReadSense
<1>3. sampled \in [Threads -> Sample] BY DEF Sample, Nothing, Positions
<1>4. <<>> \in Seq(Entry) /\ Len(<<>>) = 0 /\ <<>> \in Seq(LedgerEntry) OBVIOUS
<1>5. MockTypeOK
  <2>1. todo \in [Threads -> Seq(Steps)] BY <1>1 DEF Plans
  <2>2. 0 \in Refs /\ 0 \in 0 .. HeartbeatTimeout + 1 /\ 0 \in 0 .. HeartbeatTimeout
        /\ 0 \in 0 .. PollInterval /\ 0 <= Capacity
    BY MockAssumption DEF Refs
  <2> QED BY <1>2, <1>3, <1>4, <2>1, <2>2 DEF MockTypeOK, Disarmed
<1>6. Typed BY <1>1, <1>4, <1>5 DEF Typed, Contract!LastWitnessed
<1>7. \A t \in Threads : todo[t] = <<>> BY <1>1
<1>8. StillToLatch BY DEF StillToLatch
<1>10. RetainedIsTail
  <2>1. Places = {} /\ Filed = {} BY <1>4 DEF Places, Filed
  <2> DEFINE nowhere == [k \in Places |-> 0]
  <2>2. nowhere \in [Places -> Filed] BY <2>1
  <2> HIDE DEF nowhere
  <2>3. IsTailOfFiled(nowhere) BY <2>1 DEF IsTailOfFiled
  <2> QED BY <2>2, <2>3 DEF RetainedIsTail
<1>9. "reader" \in Threads /\ Turn("reader")
  BY <1>2, <1>7, PlansMade
     DEF Threads, Turn, Alone, RelayTurn, WireTurn, ReadingTurn, AlertTurn,
     Recorded, Idle, Upcoming, NoReason
<1> QED BY <1>6, <1>8, <1>9, <1>10 DEF MockInv, TurnInv

(* The witness moves by an accepted digest or by a clear, and no other way.  *)
LEMMA WitnessMoves ==
  ASSUME Typed, [MockNext]_mockVars
  PROVE  \/ UNCHANGED witnessVars
         \/ ClearOverride /\ Resynchronises
         \/ \E ref \in setting.refs, digest \in Digests : AcceptDigest(ref, digest)
<1> USE DEF nodeVars, witnessVars
<1>1. ASSUME NEW t \in Threads, Step(t) PROVE UNCHANGED witnessVars BY <1>1, StepTaken
<1>2. CASE UNCHANGED mockVars BY <1>2 DEF mockVars
<1>3. \/ PollLatch \/ (\E ref \in setting.refs : OnHeartbeat(ref))
      \/ (\E desired \in setting.requests : OnLatchRequest(desired))
      \/ WatchdogExpires \/ PressButton \/ ReleaseButton \/ RemoteOverride \/ ClockTick
      \/ RelayChanges
      => UNCHANGED witnessVars
  BY DEF PollLatch, OnHeartbeat, OnLatchRequest, WatchdogExpires, PressButton, ReleaseButton,
         RemoteOverride, ClockTick, RelayChanges
<1>4. CASE ClearOverride BY <1>4 DEF ClearOverride
<1>5. CASE \E ref \in setting.refs, digest \in Digests : OnDigest(ref, digest)
  BY <1>5 DEF OnDigest, RejectDigest
<1> QED BY <1>1, <1>2, <1>3, <1>4, <1>5 DEF MockNext

(* The witness, the node's and the driver's variables, action by action.     *)
LEMMA WitnessTyped ==
  ASSUME Typed, [MockNext]_mockVars
  PROVE  /\ last_ref' \in Refs
         /\ digests' \in Seq(Entry) /\ Len(digests') <= Capacity
         /\ ledger' \in Seq(LedgerEntry)
         /\ last_ref' = Contract!LastWitnessed'
<1> USE DEF nodeVars, overrideVars, witnessVars
<1>0. /\ last_ref \in Refs /\ digests \in Seq(Entry) /\ Len(digests) <= Capacity
      /\ ledger \in Seq(LedgerEntry) /\ last_ref = Contract!LastWitnessed
      /\ last_heartbeat \in Refs \cup {None} /\ setting \in Settings
  BY DEF Typed, MockTypeOK
<1>1. CASE UNCHANGED witnessVars BY <1>0, <1>1 DEF Contract!LastWitnessed
<1>2. ASSUME NEW entry \in LedgerEntry, ledger' = Append(ledger, entry), last_ref' = entry.ref
      PROVE  last_ref' \in Refs /\ ledger' \in Seq(LedgerEntry)
             /\ last_ref' = Contract!LastWitnessed'
  BY <1>0, <1>2, Appended DEF Contract!LastWitnessed, LedgerEntry
<1>3. ASSUME NEW ref \in setting.refs, NEW digest \in Digests, AcceptDigest(ref, digest)
      PROVE  /\ last_ref' \in Refs
             /\ digests' \in Seq(Entry) /\ Len(digests') <= Capacity
             /\ ledger' \in Seq(LedgerEntry)
             /\ last_ref' = Contract!LastWitnessed'
  <2>1. ref \in Refs BY <1>0, MockAssumption DEF Refs
  <2> DEFINE filed == [ref |-> ref, digest |-> digest, by |-> "digest"]
             entry == [ref |-> ref, digest |-> digest]
  <2>2. filed \in LedgerEntry /\ filed.ref = ref /\ entry \in Entry
    BY <2>1 DEF LedgerEntry, Entry
  <2>3. ledger' = Append(ledger, filed) /\ last_ref' = filed.ref BY <1>3 DEF AcceptDigest
  <2>4. digests' = Retain(entry) BY <1>3 DEF AcceptDigest
  <2> HIDE DEF filed, entry
  <2>5. /\ Append(digests, entry) \in Seq(Entry) /\ Append(digests, entry) # <<>>
        /\ Len(Append(digests, entry)) = Len(digests) + 1 /\ Len(digests) \in Nat
    BY <1>0, <2>2, Appended
  <2>6. /\ Tail(Append(digests, entry)) \in Seq(Entry)
        /\ Len(Tail(Append(digests, entry))) = Len(digests)
    BY <2>5, Served
  <2>7. digests' \in Seq(Entry) /\ Len(digests') <= Capacity
    BY <1>0, <2>4, <2>5, <2>6, MockAssumption DEF Retain
  <2> QED BY <1>2, <2>2, <2>3, <2>7
<1>4. CASE ClearOverride
  <2>1. CASE Resynchronises
    <3>1. last_heartbeat \in Refs
      BY <1>0, <1>4 DEF ClearOverride, ClearAllowed
    <3> DEFINE jump == [ref |-> last_heartbeat, digest |-> NoDigest, by |-> "operator"]
    <3>2. jump \in LedgerEntry /\ jump.ref = last_heartbeat BY <3>1 DEF LedgerEntry
    <3>3. ledger' = Append(ledger, jump) /\ last_ref' = jump.ref /\ UNCHANGED digests
      BY <1>4, <2>1 DEF ClearOverride
    <3> HIDE DEF jump
    <3> QED BY <1>0, <1>2, <3>2, <3>3
  <2>2. CASE ~Resynchronises
    <3>1. UNCHANGED witnessVars BY <1>4, <2>2 DEF ClearOverride
    <3> QED BY <1>1, <3>1
  <2> QED BY <2>1, <2>2
<1> QED BY <1>1, <1>3, <1>4, WitnessMoves

(* One entry more: the others stay where they are.                           *)
LEMMA LedgerAppended ==
  ASSUME Typed, NEW entry \in LedgerEntry, ledger' = Append(ledger, entry)
  PROVE  /\ Len(ledger) \in Nat /\ Len(ledger') = Len(ledger) + 1
         /\ \A n \in 1 .. Len(ledger) : ledger'[n] = ledger[n]
         /\ ledger'[Len(ledger) + 1] = entry
         /\ Filed' = IF entry.by = "digest" THEN Filed \cup {Len(ledger) + 1} ELSE Filed
<1>1. ledger \in Seq(LedgerEntry) BY DEF Typed
<1>2. /\ Len(ledger) \in Nat /\ Len(ledger') = Len(ledger) + 1
      /\ \A n \in 1 .. Len(ledger) : ledger'[n] = ledger[n]
      /\ ledger'[Len(ledger) + 1] = entry
  BY <1>1
<1>3. 1 .. Len(ledger') = (1 .. Len(ledger)) \cup {Len(ledger) + 1} BY <1>2
<1> QED BY <1>2, <1>3 DEF Filed

(* A digest comes to stand at the end of the store, and moves the others up  *)
(* one place if the store was full.                                          *)
LEMMA StoreOnDigest ==
  ASSUME Typed, NEW entry \in Entry, digests' = Retain(entry)
  PROVE  /\ Len(digests) \in 0 .. Capacity
         /\ Len(digests') = IF Len(digests) < Capacity THEN Len(digests) + 1 ELSE Capacity
         /\ digests'[Len(digests')] = entry
         /\ \A k \in 1 .. Len(digests') - 1 :
              digests'[k] = IF Len(digests) < Capacity THEN digests[k] ELSE digests[k + 1]
<1>0. /\ digests \in Seq(Entry) /\ Len(digests) <= Capacity
      /\ Capacity \in Nat /\ Capacity > 0
  BY MockAssumption DEF Typed, MockTypeOK
<1> DEFINE longer == Append(digests, entry)
<1>1. /\ longer \in Seq(Entry) /\ longer # <<>> /\ Len(digests) \in Nat
      /\ Len(longer) = Len(digests) + 1 /\ longer[Len(digests) + 1] = entry
      /\ \A k \in 1 .. Len(digests) : longer[k] = digests[k]
  BY <1>0, Appended
<1>2. digests' = IF Len(digests) < Capacity THEN longer ELSE Tail(longer) BY DEF Retain
<1> HIDE DEF longer
<1>3. /\ Len(Tail(longer)) = Len(digests)
      /\ \A k \in 1 .. Len(digests) : Tail(longer)[k] = longer[k + 1]
  BY <1>1, Served
<1>4. CASE Len(digests) < Capacity BY <1>0, <1>1, <1>2, <1>4
<1>5. CASE Len(digests) = Capacity
  <2>1. Len(digests') = Capacity /\ Capacity \in 1 .. Len(digests)
    BY <1>0, <1>2, <1>3, <1>5
  <2>2. \A k \in 1 .. Capacity - 1 : k \in 1 .. Len(digests) /\ k + 1 \in 1 .. Len(digests)
    BY <1>0, <1>5
  <2> QED BY <1>0, <1>1, <1>2, <1>3, <1>5, <2>1, <2>2
<1> QED BY <1>0, <1>1, <1>4, <1>5

LEMMA TailOnDigest ==
  ASSUME Typed, RetainedIsTail,
         NEW ref \in setting.refs, NEW digest \in Digests, AcceptDigest(ref, digest)
  PROVE  RetainedIsTail'
<1> DEFINE C == Capacity
           entry == [ref |-> ref, digest |-> digest, by |-> "digest"]
           stored == [ref |-> ref, digest |-> digest]
<1>0. PICK c, L : c = Len(digests) /\ L = Len(ledger) OBVIOUS
<1>1. PICK at \in [Places -> Filed] : IsTailOfFiled(at) BY DEF RetainedIsTail
<1>2. /\ L \in Nat /\ Len(ledger') = L + 1
      /\ \A n \in 1 .. L : ledger'[n] = ledger[n]
      /\ ledger'[L + 1].ref = ref /\ ledger'[L + 1].digest = digest
      /\ Filed' = Filed \cup {L + 1}
  <2>1. ref \in Refs BY MockAssumption DEF Typed, Refs
  <2>2. entry \in LedgerEntry BY <2>1 DEF LedgerEntry
  <2>3. ledger' = Append(ledger, entry) BY DEF AcceptDigest
  <2> QED BY <1>0, <2>2, <2>3, LedgerAppended
<1>3. Filed \subseteq 1 .. L BY <1>0 DEF Filed
<1>4. C \in Nat /\ C > 0 BY MockAssumption
<1>5. /\ c \in 0 .. C
      /\ Len(digests') = IF c < C THEN c + 1 ELSE C
      /\ digests'[Len(digests')] = stored
      /\ \A k \in 1 .. Len(digests') - 1 :
           digests'[k] = IF c < C THEN digests[k] ELSE digests[k + 1]
  <2>1. ref \in Refs BY MockAssumption DEF Typed, Refs
  <2>2. stored \in Entry BY <2>1 DEF Entry
  <2>3. digests' = Retain(stored) BY DEF AcceptDigest
  <2> QED BY <1>0, <2>2, <2>3, StoreOnDigest
<1>6. /\ \A k \in 1 .. c : at[k] \in Filed /\ at[k] \in 1 .. L
      /\ \A k \in 1 .. c :
           digests[k] = [ref |-> ledger[at[k]].ref, digest |-> ledger[at[k]].digest]
      /\ \A j, k \in 1 .. c : j < k => at[j] < at[k]
      /\ \A n \in Filed : \/ \E k \in 1 .. c : at[k] = n
                          \/ c = C /\ n < at[1]
  BY <1>0, <1>1, <1>3 DEF IsTailOfFiled, Places
<1> HIDE DEF entry
<1>7. CASE c < C
  <2> DEFINE later == [k \in 1 .. c + 1 |-> IF k = c + 1 THEN L + 1 ELSE at[k]]
  <2>1. Places' = 1 .. c + 1 /\ Len(digests') = c + 1 BY <1>4, <1>5, <1>7 DEF Places
  <2>2. \A k \in 1 .. c + 1 : k = c + 1 \/ k \in 1 .. c BY <1>5
  <2>3. /\ later[c + 1] = L + 1
        /\ \A k \in 1 .. c : later[k] = at[k] /\ k # c + 1 /\ k \in 1 .. c + 1
        /\ c + 1 \in 1 .. c + 1
    BY <1>5
  <2>4. later \in [Places' -> Filed'] BY <1>2, <1>6, <2>1, <2>2
  <2> HIDE DEF later
  <2>5. \A k \in 1 .. c + 1 :
          digests'[k] = [ref |-> ledger'[later[k]].ref, digest |-> ledger'[later[k]].digest]
    <3>1. digests'[c + 1] = [ref |-> ledger'[later[c + 1]].ref,
                             digest |-> ledger'[later[c + 1]].digest]
      BY <1>2, <1>5, <2>1, <2>3
    <3>2. ASSUME NEW k \in 1 .. c
          PROVE  digests'[k] = [ref |-> ledger'[later[k]].ref, digest |-> ledger'[later[k]].digest]
      <4>1. digests'[k] = digests[k] BY <1>5, <1>7, <2>1
      <4>2. ledger'[later[k]] = ledger[at[k]] BY <1>2, <1>6, <2>3
      <4> QED BY <1>6, <4>1, <4>2
    <3>3. ASSUME NEW k \in 1 .. c + 1
          PROVE  digests'[k] = [ref |-> ledger'[later[k]].ref, digest |-> ledger'[later[k]].digest]
      <4>1. CASE k = c + 1 BY <3>1, <4>1
      <4>2. CASE k \in 1 .. c BY <3>2, <4>2
      <4> QED BY <2>2, <4>1, <4>2
    <3> QED BY <3>3
  <2>6. \A j, k \in 1 .. c + 1 : j < k => later[j] < later[k]
    BY <1>2, <1>5, <1>6, <2>2, <2>3
  <2>7. \A n \in Filed' : \E k \in 1 .. c + 1 : later[k] = n
    <3> SUFFICES ASSUME NEW n \in Filed' PROVE \E k \in 1 .. c + 1 : later[k] = n
      OBVIOUS
    <3>1. c # C BY <1>4, <1>7
    <3>2. CASE n = L + 1 BY <2>3, <3>2
    <3>3. CASE n \in Filed BY <1>6, <2>3, <3>1, <3>3
    <3> QED BY <1>2, <3>2, <3>3
  <2>8. IsTailOfFiled(later)' BY <2>1, <2>5, <2>6, <2>7 DEF IsTailOfFiled
  <2> QED BY <2>4, <2>8 DEF RetainedIsTail
<1>8. CASE c = C
  <2> DEFINE later == [k \in 1 .. C |-> IF k = C THEN L + 1 ELSE at[k + 1]]
  <2>1. Places' = 1 .. C /\ Len(digests') = C BY <1>4, <1>5, <1>8 DEF Places
  <2>2. \A k \in 1 .. C : k = C \/ k \in 1 .. C - 1 BY <1>4
  <2>3. /\ later[C] = L + 1
        /\ \A k \in 1 .. C - 1 : later[k] = at[k + 1] /\ k \in 1 .. C
                                 /\ k + 1 \in 1 .. C /\ k # C
        /\ C \in 1 .. C
    BY <1>4
  <2>4. later \in [Places' -> Filed']
    <3>1. ASSUME NEW k \in 1 .. C PROVE later[k] \in Filed'
      BY <1>2, <1>6, <1>8, <2>2, <2>3
    <3> QED BY <2>1, <3>1
  <2> HIDE DEF later
  <2>5. \A k \in 1 .. C :
          digests'[k] = [ref |-> ledger'[later[k]].ref, digest |-> ledger'[later[k]].digest]
    <3>1. digests'[C] = [ref |-> ledger'[later[C]].ref, digest |-> ledger'[later[C]].digest]
      BY <1>2, <1>5, <2>1, <2>3
    <3>2. ASSUME NEW k \in 1 .. C - 1
          PROVE  digests'[k] = [ref |-> ledger'[later[k]].ref, digest |-> ledger'[later[k]].digest]
      <4>1. digests'[k] = digests[k + 1] BY <1>4, <1>5, <1>8, <2>1
      <4>2. ledger'[later[k]] = ledger[at[k + 1]] BY <1>2, <1>6, <1>8, <2>3
      <4> QED BY <1>6, <1>8, <2>3, <4>1, <4>2
    <3> QED BY <2>2, <3>1, <3>2
  <2>6. \A j, k \in 1 .. C : j < k => later[j] < later[k]
    <3> SUFFICES ASSUME NEW j \in 1 .. C, NEW k \in 1 .. C, j < k
                 PROVE  later[j] < later[k]
      OBVIOUS
    <3>1. j \in 1 .. C - 1 BY <1>4
    <3>2. CASE k = C
      <4>1. at[j + 1] \in 1 .. L BY <1>6, <1>8, <2>3, <3>1
      <4> QED BY <1>2, <2>3, <3>1, <3>2, <4>1
    <3>3. CASE k \in 1 .. C - 1
      <4>1. j + 1 < k + 1 /\ j + 1 \in 1 .. c /\ k + 1 \in 1 .. c
        BY <1>4, <1>8, <3>1, <3>3
      <4> QED BY <1>6, <2>3, <3>1, <3>3, <4>1
    <3> QED BY <2>2, <3>2, <3>3
  <2>7. ASSUME NEW n \in Filed'
        PROVE  (\E k \in 1 .. C : later[k] = n) \/ n < later[1]
    <3>0. later[1] = IF C = 1 THEN L + 1 ELSE at[2]
      <4>1. CASE C = 1 BY <2>3, <4>1
      <4>2. CASE C # 1
        <5>1. 1 \in 1 .. C - 1 BY <1>4, <4>2
        <5> QED BY <2>3, <4>2, <5>1
      <4> QED BY <4>1, <4>2
    <3>1. CASE n = L + 1 BY <2>3, <3>1
    <3>2. CASE n \in Filed /\ n <= at[1]
      <4>1. 1 \in 1 .. c BY <1>4, <1>8
      <4>2. C # 1 => at[1] < at[2] /\ at[2] \in 1 .. L
        <5>1. C # 1 => 2 \in 1 .. c BY <1>4, <1>8
        <5> QED BY <1>6, <4>1, <5>1
      <4>3. n \in 1 .. L /\ at[1] \in 1 .. L BY <1>3, <1>6, <3>2, <4>1
      <4> QED BY <1>2, <3>0, <3>2, <4>2, <4>3
    <3>3. CASE n \in Filed /\ ~(n <= at[1])
      <4>1. 1 \in 1 .. c /\ at[1] \in 1 .. L /\ n \in 1 .. L
        BY <1>3, <1>4, <1>6, <1>8, <3>3
      <4>2. ~(n < at[1]) BY <1>2, <3>3, <4>1
      <4>3. PICK k \in 1 .. c : at[k] = n BY <1>6, <3>3, <4>2
      <4>4. k # 1 BY <1>2, <3>3, <4>1, <4>3
      <4>5. k - 1 \in 1 .. C - 1 /\ (k - 1) + 1 = k BY <1>4, <1>8, <4>4
      <4>6. later[k - 1] = n /\ k - 1 \in 1 .. C BY <2>3, <4>3, <4>5
      <4> QED BY <4>6
    <3> QED BY <1>2, <3>1, <3>2, <3>3
  <2>8. IsTailOfFiled(later)' BY <2>1, <2>5, <2>6, <2>7 DEF IsTailOfFiled
  <2> QED BY <2>4, <2>8 DEF RetainedIsTail
<1> QED BY <1>4, <1>5, <1>7, <1>8

LEMMA TailStep ==
  ASSUME Typed, RetainedIsTail, [MockNext]_mockVars
  PROVE  RetainedIsTail'
<1>1. CASE UNCHANGED witnessVars
  BY <1>1 DEF witnessVars, RetainedIsTail, IsTailOfFiled, Places, Filed
<1>2. CASE ClearOverride /\ Resynchronises
  <2> DEFINE entry == [ref |-> last_heartbeat, digest |-> NoDigest, by |-> "operator"]
  <2>1. entry \in LedgerEntry
    <3>1. last_heartbeat \in Refs
      BY <1>2 DEF ClearOverride, ClearAllowed, Typed, MockTypeOK
    <3> QED BY <3>1 DEF LedgerEntry
  <2>2. ledger' = Append(ledger, entry) /\ UNCHANGED digests BY <1>2 DEF ClearOverride
  <2>3. Filed' = Filed /\ \A n \in Filed : ledger'[n] = ledger[n]
    BY <2>1, <2>2, LedgerAppended DEF Filed
  <2>4. PICK at \in [Places -> Filed] : IsTailOfFiled(at) BY DEF RetainedIsTail
  <2>5. \A k \in Places : at[k] \in Filed OBVIOUS
  <2>6. IsTailOfFiled(at)' BY <2>2, <2>3, <2>4, <2>5 DEF IsTailOfFiled, Places
  <2> QED BY <2>2, <2>3, <2>6 DEF RetainedIsTail, Places
<1>3. CASE \E ref \in setting.refs, digest \in Digests : AcceptDigest(ref, digest)
  BY <1>3, TailOnDigest
<1> QED BY <1>1, <1>2, <1>3, WitnessMoves

LEMMA TodoTyped ==
  ASSUME Typed, [MockNext]_mockVars
  PROVE  todo' \in [Threads -> Plans] /\ UNCHANGED setting
<1>1. todo \in [Threads -> Plans] BY DEF Typed
<1>2. CASE UNCHANGED mockVars BY <1>1, <1>2 DEF mockVars, threadVars
<1>3. CASE MockNext
  <2>1. ASSUME NEW t \in Threads, Step(t) PROVE todo' \in [Threads -> Plans] /\ UNCHANGED setting
    BY <2>1, StepTaken
  <2>2. ASSUME NEW t \in Threads, NEW steps \in Plans, Begin(t, steps)
        PROVE  todo' \in [Threads -> Plans] /\ UNCHANGED setting
    BY <1>1, <2>2, Begun
  <2> QED BY <1>1, <1>3, <2>1, <2>2, HandlerBegun
<1> QED BY <1>2, <1>3

(* The rest of the types.                                                    *)
NodeTyped ==
  /\ override \in BOOLEAN
  /\ override_reason \in Reasons \cup {NoReason}
  /\ button_pressed \in BOOLEAN
  /\ chain_alert \in BOOLEAN
  /\ last_heartbeat \in Refs \cup {None}
  /\ announced \in BOOLEAN

TimeTyped ==
  /\ heartbeat_age \in 0 .. HeartbeatTimeout + 1
  /\ watchdog \in {Disarmed} \cup 0 .. HeartbeatTimeout
  /\ poll_age \in 0 .. PollInterval

RelayTyped ==
  /\ PlantTypeOK
  /\ commanded \in {"OPEN", "CLOSED"}
  /\ last_observed \in Positions
  /\ sampled \in [Threads -> Sample]

LEMMA RestTyped ==
  ASSUME Typed, [MockNext]_mockVars
  PROVE  NodeTyped' /\ TimeTyped' /\ RelayTyped'
<1>0. /\ NodeTyped /\ TimeTyped /\ RelayTyped
      /\ todo \in [Threads -> Plans] /\ setting \in Settings
  BY DEF Typed, MockTypeOK, NodeTyped, TimeTyped, RelayTyped
<1>2. PlantTypeOK BY <1>0 DEF RelayTyped
<1>3. ASSUME NEW t \in Threads, Step(t) PROVE NodeTyped' /\ TimeTyped' /\ RelayTyped'
  <2> USE DEF nodeVars, overrideVars, witnessVars, timeVars, driverVars, plantVars
  <2>1. todo[t] \in Plans /\ ~Idle(t) BY <1>3, StepTaken
  <2>2. Head(todo[t]) \in Steps BY <2>1, PlanStep DEF Idle
  <2>3. 0 \in 0 .. HeartbeatTimeout /\ 0 \in 0 .. PollInterval BY MockAssumption
  <2>4. CASE Pulse(t)
    <3>1. Argument(t) \in Contacts BY <2>2, <2>4, StepKinds DEF Pulse, Upcoming, Argument
    <3>2. contact' \in Contacts /\ register' \in Contacts
      BY <1>2, <2>4, <3>1 DEF Pulse, PlantTypeOK, ContactAfter, RegisterAfter
    <3>3. commanded' \in {"OPEN", "CLOSED"} BY <2>4, <3>1 DEF Pulse, Contacts
    <3> QED BY <1>0, <2>4, <3>2, <3>3
            DEF Pulse, NodeTyped, TimeTyped, RelayTyped, PlantTypeOK, Faults
  <2>5. \A position \in Contacts : ReadRegister(position) \in Positions
                                   /\ ReadSense(position) \in Positions
    BY DEF ReadRegister, ReadSense, Positions, Contacts
  <2>6. ASSUME NEW sample \in Sample, NEW value \in Positions
        PROVE  /\ [sample EXCEPT !.reported = value] \in Sample
               /\ [sample EXCEPT !.observed = value] \in Sample
    BY <2>6 DEF Sample
  <2>7. Nothing \in Sample BY DEF Nothing, Sample, Positions
  <2>8. CASE SampleRegister(t)
    <3>1. sampled' = [sampled EXCEPT ![t] = [sampled[t] EXCEPT !.reported = ReadRegister(register)]]
      BY <2>8 DEF SampleRegister
    <3>2. sampled' \in [Threads -> Sample]
      BY <1>0, <1>2, <2>5, <2>6, <3>1 DEF RelayTyped, PlantTypeOK
    <3> QED BY <1>0, <2>8, <3>2
            DEF SampleRegister, Sampling, NodeTyped, TimeTyped, RelayTyped, PlantTypeOK, Faults
  <2>9. CASE SampleSense(t)
    <3>1. sampled' = [sampled EXCEPT ![t] = [sampled[t] EXCEPT !.observed = ReadSense(contact)]]
      BY <2>9 DEF SampleSense
    <3>2. sampled' \in [Threads -> Sample]
      BY <1>0, <1>2, <2>5, <2>6, <3>1 DEF RelayTyped, PlantTypeOK
    <3> QED BY <1>0, <2>9, <3>2
            DEF SampleSense, Sampling, NodeTyped, TimeTyped, RelayTyped, PlantTypeOK, Faults
  <2>10. CASE RecordReading(t) \/ RecordPoll(t)
    <3>1. last_observed' = sampled[t].observed /\ sampled' = [sampled EXCEPT ![t] = Nothing]
          /\ poll_age' = 0
      BY <2>10 DEF RecordReading, RecordPoll, Recording
    <3>2. sampled[t] \in Sample BY <1>0 DEF RelayTyped
    <3>3. last_observed' \in Positions BY <3>1, <3>2 DEF Sample
    <3>4. sampled' \in [Threads -> Sample] BY <1>0, <2>7, <3>1 DEF RelayTyped
    <3> QED BY <1>0, <2>3, <2>10, <3>1, <3>3, <3>4
            DEF RecordReading, RecordPoll, Recording, NodeTyped, TimeTyped, RelayTyped,
                PlantTypeOK, Faults
  <2>11. CASE AssertOverride(t)
    <3>1. Argument(t) \in Reasons
      BY <2>2, <2>11, StepKinds DEF AssertOverride, Upcoming, Argument
    <3> QED BY <1>0, <2>11, <3>1
            DEF AssertOverride, NodeTyped, TimeTyped, RelayTyped, PlantTypeOK, Faults
  <2>12. CASE WriteFrame(t)
    BY <1>0, <2>12 DEF WriteFrame, NodeTyped, TimeTyped, RelayTyped, PlantTypeOK, Faults
  <2>13. CASE ArmWatchdog(t)
    BY <1>0, <2>3, <2>13
       DEF ArmWatchdog, NodeTyped, TimeTyped, RelayTyped, PlantTypeOK, Faults
  <2> QED BY <1>3, <2>4, <2>8, <2>9, <2>10, <2>11, <2>12, <2>13 DEF Step
<1>4. ASSUME UNCHANGED <<timeVars, driverVars, plantVars, sampled, announced>>,
             NodeTyped' \/ UNCHANGED nodeVars
      PROVE  NodeTyped' /\ TimeTyped' /\ RelayTyped'
  BY <1>0, <1>4
     DEF NodeTyped, TimeTyped, RelayTyped, PlantTypeOK, Faults, nodeVars, overrideVars,
                    timeVars, driverVars, plantVars
<1>5. CASE PollLatch BY <1>4, <1>5 DEF PollLatch
<1>6. ASSUME NEW ref \in setting.refs, OnHeartbeat(ref)
      PROVE  NodeTyped' /\ TimeTyped' /\ RelayTyped'
  <2>1. ref \in Refs BY <1>0, MockAssumption DEF Refs
  <2>2. 0 \in 0 .. HeartbeatTimeout + 1 BY MockAssumption
  <2> QED BY <1>0, <1>6, <2>1, <2>2
          DEF OnHeartbeat, NodeTyped, TimeTyped, RelayTyped, PlantTypeOK, Faults, overrideVars,
              witnessVars, driverVars, plantVars
<1>7. ASSUME NEW desired \in setting.requests, OnLatchRequest(desired)
      PROVE  NodeTyped' /\ TimeTyped' /\ RelayTyped'
  BY <1>4, <1>7 DEF OnLatchRequest
<1>8. ASSUME NEW ref \in setting.refs, NEW digest \in Digests, OnDigest(ref, digest)
      PROVE  NodeTyped' /\ TimeTyped' /\ RelayTyped'
  <2>1. chain_alert' \in BOOLEAN
    BY <1>0, <1>8 DEF OnDigest, AcceptDigest, RejectDigest, NodeTyped
  <2>2. UNCHANGED <<overrideVars, button_pressed, last_heartbeat, timeVars, driverVars,
                    plantVars, sampled, announced>>
    BY <1>8 DEF OnDigest
  <2>3. NodeTyped' BY <1>0, <2>1, <2>2 DEF NodeTyped, overrideVars
  <2> QED BY <1>4, <2>2, <2>3
<1>9. CASE WatchdogExpires
  BY <1>0, <1>9 DEF WatchdogExpires, NodeTyped, TimeTyped, RelayTyped, PlantTypeOK, Faults,
     nodeVars, overrideVars, driverVars, plantVars
<1>10. CASE PressButton \/ ReleaseButton
  <2>1. /\ button_pressed' \in BOOLEAN
        /\ UNCHANGED <<overrideVars, chain_alert, last_heartbeat, timeVars, driverVars,
                       plantVars, sampled, announced>>
    BY <1>10 DEF PressButton, ReleaseButton, threadVars
  <2>2. NodeTyped' BY <1>0, <2>1 DEF NodeTyped, overrideVars
  <2> QED BY <1>4, <2>1, <2>2
<1>11. CASE RemoteOverride BY <1>4, <1>11 DEF RemoteOverride
<1>12. CASE ClearOverride
  <2>1. /\ override' = FALSE /\ override_reason' = NoReason /\ chain_alert' = FALSE
        /\ UNCHANGED <<button_pressed, last_heartbeat, timeVars, driverVars, plantVars,
                       sampled, announced>>
    BY <1>12 DEF ClearOverride
  <2>2. NodeTyped' BY <1>0, <2>1 DEF NodeTyped
  <2> QED BY <1>4, <2>1, <2>2
<1>13. CASE ClockTick
  <2>1. /\ heartbeat_age \in 0 .. HeartbeatTimeout + 1 /\ poll_age \in 0 .. PollInterval
        /\ watchdog \in {Disarmed} \cup 0 .. HeartbeatTimeout
    BY <1>0 DEF TimeTyped
  <2>2. heartbeat_age' \in 0 .. HeartbeatTimeout + 1
    BY <1>13, <2>1, MockAssumption DEF ClockTick, Stale
  <2>3. poll_age' \in 0 .. PollInterval BY <1>13, <2>1, MockAssumption DEF ClockTick
  <2>4. watchdog' \in {Disarmed} \cup 0 .. HeartbeatTimeout
    BY <1>13, <2>1, MockAssumption DEF ClockTick, Disarmed
  <2> QED BY <1>0, <1>13, <2>2, <2>3, <2>4
          DEF ClockTick, NodeTyped, TimeTyped, RelayTyped, PlantTypeOK, Faults, nodeVars,
              overrideVars, driverVars, plantVars, threadVars
<1>14. CASE RelayChanges
  <2>1. PlantTypeOK'
    BY <1>2, <1>14
       DEF RelayChanges, PlantNext, ModuleFault, SenseFault, PowerCycle, PlantTypeOK,
       Faults
  <2> QED BY <1>0, <1>14, <2>1
          DEF RelayChanges, NodeTyped, TimeTyped, RelayTyped, nodeVars, overrideVars, timeVars,
              driverVars, threadVars
<1>15. CASE UNCHANGED mockVars BY <1>4, <1>15 DEF mockVars, threadVars
<1> QED
  BY <1>3, <1>5, <1>6, <1>7, <1>8, <1>9, <1>10, <1>11, <1>12, <1>13, <1>14, <1>15
     DEF MockNext

LEMMA TypedStep ==
  ASSUME Typed, [MockNext]_mockVars
  PROVE  Typed'
<1>1. /\ todo' \in [Threads -> Plans] /\ UNCHANGED setting
      /\ last_ref' \in Refs
      /\ digests' \in Seq(Entry) /\ Len(digests') <= Capacity
      /\ ledger' \in Seq(LedgerEntry)
      /\ last_ref' = Contract!LastWitnessed'
  BY TodoTyped, WitnessTyped
<1>2. todo' \in [Threads -> Seq(Steps)] BY <1>1 DEF Plans
<1>3. setting \in Settings BY DEF Typed
<1> QED
  BY <1>1, <1>2, <1>3, RestTyped DEF Typed, MockTypeOK, NodeTyped, TimeTyped, RelayTyped

-----------------------------------------------------------------------------
(* However the threads interleave, a cause is latched or about to be.        *)
LEMMA LatchStep ==
  ASSUME Typed, StillToLatch, [MockNext]_mockVars
  PROVE  StillToLatch'
<1>0. todo \in [Threads -> Plans] /\ override \in BOOLEAN BY DEF Typed, MockTypeOK
<1>1. {"reader", "timer", "operator"} = Threads BY DEF Threads
<1> USE DEF StillToLatch, Upcoming, nodeVars, overrideVars
<1>2. CASE UNCHANGED mockVars BY <1>2 DEF mockVars, threadVars, Idle
<1>3. ASSUME NEW t \in Threads, Step(t) PROVE StillToLatch'
  <2>1. CASE Head(todo[t])[1] = "assert" BY <1>3, <2>1, StepTaken
  <2>2. CASE Head(todo[t])[1] # "assert"
    <3>1. /\ UNCHANGED <<override, button_pressed, chain_alert>>
          /\ \A s \in Threads \ {t} : todo'[s] = todo[s]
      BY <1>3, <2>2, StepTaken
    <3>2. \A s \in Threads : Upcoming(s, "assert") => Upcoming(s, "assert")'
      BY <2>2, <3>1 DEF Idle
    <3> QED BY <1>1, <3>1, <3>2
  <2> QED BY <2>1, <2>2
<1>4. ASSUME UNCHANGED <<override, button_pressed, chain_alert, todo>> PROVE StillToLatch'
  BY <1>4 DEF Idle
<1>5. ReleaseButton \/ ClockTick \/ RelayChanges => override' = override /\ chain_alert' = chain_alert
        /\ (button_pressed' => button_pressed)
  BY DEF ReleaseButton, ClockTick, RelayChanges
<1>6. ASSUME NEW ref, NEW digest, OnDigest(ref, digest), AcceptDigest(ref, digest)
      PROVE  UNCHANGED <<override, button_pressed, chain_alert>>
  BY <1>6 DEF OnDigest, AcceptDigest
<1>7. ASSUME NEW t \in Threads, NEW steps \in Plans, Free(t), Begin(t, steps)
      PROVE  /\ Idle(t) /\ todo'[t] = steps /\ \A s \in Threads \ {t} : todo'[s] = todo[s]
             /\ t = "operator" => (button_pressed => override)
             /\ t = "reader" => (chain_alert => override)
  BY <1>0, <1>7, Begun DEF Free
<1>8. ASSUME NEW reason \in Reasons
      PROVE  Raise(reason) # <<>> /\ Head(Raise(reason))[1] = "assert"
  BY PlansMade DEF Made
<1>9. {"ATTESTATION_MISMATCH", "OPERATOR_BUTTON"} \subseteq Reasons BY DEF Reasons
<1>10. ASSUME NEW t \in Threads, NEW steps \in Plans, Free(t), Begin(t, steps),
              UNCHANGED override,
              button_pressed' => button_pressed \/ (t = "operator" /\ steps = Raise("OPERATOR_BUTTON")),
              chain_alert' => chain_alert \/ (t = "reader" /\ steps = Raise("ATTESTATION_MISMATCH"))
       PROVE  StillToLatch'
  BY <1>1, <1>7, <1>8, <1>9, <1>10 DEF Idle
<1>11. ASSUME NEW t \in Threads, NEW steps \in Plans, Free(t), Begin(t, steps),
              t = "operator", ClearOverride
       PROVE  StillToLatch'
  BY <1>11 DEF ClearOverride, ClearAllowed
<1>13. PollLatch \/ WatchdogExpires \/ RemoteOverride
       \/ (\E ref \in setting.refs : OnHeartbeat(ref))
       \/ (\E desired \in setting.requests : OnLatchRequest(desired))
       => UNCHANGED <<override, button_pressed, chain_alert>>
  BY DEF PollLatch, WatchdogExpires, RemoteOverride, OnHeartbeat, OnLatchRequest
<1>14. PressButton => UNCHANGED <<override, chain_alert>> BY DEF PressButton
<1>15. ASSUME NEW ref, NEW digest, OnDigest(ref, digest), RejectDigest(ref)
       PROVE  UNCHANGED <<override, button_pressed>>
  BY <1>15 DEF OnDigest, RejectDigest
<1>16. CASE MockNext
  <2>1. CASE \E t \in Threads : Step(t) BY <1>3, <2>1
  <2>2. CASE (ReleaseButton \/ ClockTick \/ RelayChanges) /\ UNCHANGED <<todo, setting>>
    BY <1>5, <2>2 DEF Idle
  <2>3. CASE (\E ref \in setting.refs, digest \in Digests :
                Idle("reader") /\ OnDigest(ref, digest) /\ AcceptDigest(ref, digest))
             /\ UNCHANGED <<todo, setting>>
    BY <1>4, <1>6, <2>3
  <2>4. ASSUME NEW t \in Threads, NEW steps \in Plans, Free(t), Begin(t, steps)
        PROVE  /\ PollLatch \/ WatchdogExpires \/ RemoteOverride
                  \/ (\E ref \in setting.refs : OnHeartbeat(ref))
                  \/ (\E desired \in setting.requests : OnLatchRequest(desired)) => StillToLatch'
               /\ t = "operator" /\ steps = Raise("OPERATOR_BUTTON") /\ PressButton => StillToLatch'
               /\ t = "operator" /\ ClearOverride => StillToLatch'
               /\ t = "reader" /\ steps = Raise("ATTESTATION_MISMATCH")
                  /\ (\E ref \in setting.refs, digest \in Digests :
                        OnDigest(ref, digest) /\ RejectDigest(ref)) => StillToLatch'
    BY <1>10, <1>11, <1>13, <1>14, <1>15, <2>4
  <2> QED BY <1>16, <2>1, <2>2, <2>3, <2>4, HandlerBegun
<1> QED BY <1>2, <1>16

-----------------------------------------------------------------------------
(* When handlers take turns: a step of the one that is busy.                 *)
LEMMA TurnOfStep ==
  ASSUME Typed, NEW t \in Threads, Turn(t), Step(t)
  PROVE  Turn(t)'
<1> DEFINE first == Head(todo[t])
           rest == Tail(todo[t])
<1>1. /\ ~Idle(t) /\ todo[t] \in Plans /\ UNCHANGED setting
      /\ \A s \in Threads \ {t} : todo'[s] = todo[s]
      /\ first[1] \notin {"assert", "record_poll"} => todo'[t] = rest
      /\ first[1] = "record_poll" => todo'[t] \in {<<>>, Raise("LATCH_MISMATCH")}
      /\ first[1] = "assert" => todo'[t] = IF override THEN <<>> ELSE Enforce
      /\ UNCHANGED chain_alert
      /\ IF first[1] = "assert" THEN override' ELSE UNCHANGED overrideVars
  BY StepTaken
<1>2. /\ rest \in Plans /\ first \in Steps
      /\ rest # <<>> => Head(rest)[1] \in After(first[1])
      /\ first[1] \in NeverLast => rest # <<>>
      /\ Closes(rest) => Closes(todo[t]) /\ first[1] = "arm"
      /\ Closes(todo[t]) => first[1] \in {"pulse", "arm"}
      /\ first[1] = "pulse" => (Closes(todo[t]) <=> first[2] = "CLOSED")
      /\ first[1] # "write" => \A frame : Writes(rest, frame) <=> Writes(todo[t], frame)
      /\ first[1] = "write" => \A frame : Writes(todo[t], frame) <=> frame = first[2]
  BY <1>1, PlanStep DEF Idle
<1>3. Alone(t)' BY <1>1 DEF Turn, Alone
<1>4. /\ first[1] = "pulse" => first[2] \in Contacts
      /\ first[1] = "write" => first[2] \in OverrideFrames
  BY <1>2, StepKinds
<1>5. /\ override \in BOOLEAN /\ announced \in BOOLEAN /\ contact \in Contacts
      /\ sampled \in [Threads -> Sample]
  BY DEF Typed, MockTypeOK, PlantTypeOK
<1>6. RelayTurn(t) /\ WireTurn(t) /\ ReadingTurn(t) /\ AlertTurn(t) BY DEF Turn
<1> HIDE DEF first, rest
<1>7. \A kind : Upcoming(t, kind) <=> first[1] = kind BY <1>1 DEF Upcoming, first
<1>8. Argument(t) = first[2] BY DEF Argument, first
<1>9. first[1] \notin {"assert", "record_poll"} =>
        \A kind : Upcoming(t, kind)' <=> rest # <<>> /\ Head(rest)[1] = kind
  BY <1>1 DEF Upcoming, Idle
<1>10. UNCHANGED PlainRequests BY <1>1 DEF PlainRequests
<1>11. CASE Pulse(t)
  <2>1. first[1] = "pulse" BY <1>7, <1>11 DEF Pulse
  <2>2. todo'[t] = rest /\ rest # <<>> /\ Head(rest)[1] = "read_sense"
    BY <1>1, <1>2, <2>1 DEF After, NeverLast
  <2>3. /\ commanded' = first[2] /\ UNCHANGED <<overrideVars, chain_alert, announced>>
        /\ UNCHANGED <<last_observed, sampled>>
    BY <1>8, <1>11 DEF Pulse, nodeVars
  <2>4. RelayTurn(t)'
    BY <1>2, <1>4, <1>6, <1>7, <1>10, <2>1, <2>2, <2>3 DEF RelayTurn, Contacts, overrideVars
  <2>5. WireTurn(t)'
    BY <1>2, <1>6, <2>1, <2>2, <2>3 DEF WireTurn, Silent, Tells, ToBeTold, overrideVars
  <2>6. ReadingTurn(t)' BY <1>9, <2>1, <2>2 DEF ReadingTurn, Recorded
  <2>7. AlertTurn(t)' BY <1>6, <1>9, <2>1, <2>2, <2>3 DEF AlertTurn, overrideVars
  <2> QED BY <1>3, <2>4, <2>5, <2>6, <2>7 DEF Turn
<1>12. CASE SampleRegister(t) \/ SampleSense(t)
  <2>1. first[1] \in {"read_register", "read_sense"}
    BY <1>7, <1>12 DEF SampleRegister, SampleSense, Sampling
  <2>2. todo'[t] = rest /\ rest # <<>> /\ Head(rest)[1] \in After(first[1])
    BY <1>1, <1>2, <2>1 DEF NeverLast
  <2>3. UNCHANGED <<overrideVars, chain_alert, announced, driverVars, plantVars>>
    BY <1>12 DEF SampleRegister, SampleSense, Sampling, nodeVars
  <2>4. RelayTurn(t)'
    BY <1>2, <1>6, <1>7, <1>10, <2>1, <2>2, <2>3 DEF RelayTurn, overrideVars, driverVars
  <2>5. WireTurn(t)'
    BY <1>2, <1>6, <2>1, <2>2, <2>3 DEF WireTurn, Silent, Tells, ToBeTold, overrideVars
  <2>6. ReadingTurn(t)'
    <3>1. CASE first[1] = "read_register"
      <4>1. Head(rest)[1] = "read_sense" BY <2>2, <3>1 DEF After
      <4> QED BY <1>6, <1>9, <2>1, <2>2, <2>3, <3>1, <4>1
              DEF ReadingTurn, Recorded, driverVars, plantVars
    <3>2. CASE first[1] = "read_sense"
      <4>1. Recorded(t)' BY <1>9, <2>1, <2>2, <3>2 DEF After, Recorded
      <4>2. SampleSense(t) BY <1>7, <1>12, <3>2 DEF SampleRegister, Sampling
      <4>3. sampled'[t].observed = ReadSense(contact) BY <1>5, <4>2 DEF SampleSense, Sample
      <4>4. sampled'[t].observed = "OPEN" => contact' = "OPEN"
        BY <1>5, <2>3, <4>3 DEF ReadSense, plantVars, Contacts
      <4> QED BY <4>1, <4>4 DEF ReadingTurn
    <3> QED BY <2>1, <3>1, <3>2
  <2>7. AlertTurn(t)'
    <3>1. Head(rest)[1] # "assert" BY <2>1, <2>2 DEF After
    <3> QED BY <1>6, <1>9, <2>1, <2>2, <2>3, <3>1 DEF AlertTurn, overrideVars
  <2> QED BY <1>3, <2>4, <2>5, <2>6, <2>7 DEF Turn
<1>13. CASE RecordReading(t) \/ RecordPoll(t)
  <2>1. first[1] \in {"record", "record_poll"}
    BY <1>7, <1>13 DEF RecordReading, RecordPoll, Recording
  <2>2. /\ UNCHANGED <<overrideVars, chain_alert, announced, commanded, contact>>
        /\ last_observed' = sampled[t].observed
    BY <1>13 DEF RecordReading, RecordPoll, Recording, nodeVars, plantVars
  <2>3. last_observed' = "OPEN" => contact' = "OPEN"
    BY <1>6, <1>7, <2>1, <2>2 DEF ReadingTurn, Recorded
  <2>4. ~Closes(todo[t]) BY <1>2, <2>1
  <2>5. CASE first[1] = "record"
    <3>1. todo'[t] = rest BY <1>1, <2>5
    <3>2. rest # <<>> => Head(rest)[1] = "write" BY <1>2, <2>5 DEF After
    <3>3. RelayTurn(t)'
      BY <1>2, <1>6, <1>7, <1>10, <2>2, <2>5, <3>1 DEF RelayTurn, overrideVars
    <3>4. WireTurn(t)'
      BY <1>2, <1>6, <2>2, <2>5, <3>1 DEF WireTurn, Silent, Tells, ToBeTold, overrideVars
    <3>5. ReadingTurn(t)' BY <1>9, <2>3, <2>5, <3>1, <3>2 DEF ReadingTurn, Recorded
    <3>6. AlertTurn(t)' BY <1>6, <1>9, <2>2, <2>5, <3>1, <3>2 DEF AlertTurn, overrideVars
    <3> QED BY <1>3, <3>3, <3>4, <3>5, <3>6 DEF Turn
  <2>6. CASE first[1] = "record_poll"
    <3>1. /\ ~Closes(todo'[t]) /\ Silent(todo'[t])
          /\ todo'[t] # <<>> => Head(todo'[t]) = <<"assert", "LATCH_MISMATCH">>
      BY <1>1, <2>6, PlansMade DEF Made, Reasons
    <3>2. rest = <<>> BY <1>2, <2>6 DEF After
    <3>3. Silent(todo[t]) BY <1>2, <2>6, <3>2, PlansMade DEF Silent
    <3>4. RelayTurn(t)' BY <1>6, <1>7, <1>10, <2>2, <2>6, <3>1 DEF RelayTurn, overrideVars
    <3>5. ~Tells(todo[t], ToBeTold) BY <3>3 DEF Silent, Tells
    <3>6. WireTurn(t)' BY <1>6, <2>2, <3>1, <3>5 DEF WireTurn, overrideVars
    <3>7. ~Recorded(t)' BY <3>1 DEF Recorded, Upcoming, Idle
    <3>8. ReadingTurn(t)' BY <2>3, <3>7 DEF ReadingTurn
    <3>9. ~(Upcoming(t, "assert")' /\ Argument(t)' = "ATTESTATION_MISMATCH")
      BY <3>1 DEF Upcoming, Argument, Idle
    <3>10. AlertTurn(t)' BY <1>6, <2>2, <3>9 DEF AlertTurn, overrideVars
    <3> QED BY <1>3, <3>4, <3>6, <3>8, <3>10 DEF Turn
  <2> QED BY <2>1, <2>5, <2>6
<1>14. CASE AssertOverride(t)
  <2>1. first[1] = "assert" BY <1>7, <1>14 DEF AssertOverride
  <2>2. /\ todo'[t] = IF override THEN <<>> ELSE Enforce
        /\ override'
        /\ UNCHANGED <<chain_alert, announced, driverVars, plantVars>>
        /\ IF override THEN UNCHANGED overrideVars ELSE override_reason' = first[2]
    BY <1>1, <1>8, <1>14, <2>1 DEF AssertOverride
  <2>3. rest = <<>> BY <1>2, <2>1 DEF After
  <2>4. Silent(todo[t]) /\ ~Tells(todo[t], ToBeTold)
    BY <1>2, <2>1, <2>3, PlansMade DEF Silent, Tells
  <2>5. CASE override
    <3>1. todo'[t] = <<>> BY <2>2, <2>5
    <3>2. RelayTurn(t)'
      BY <1>6, <1>7, <1>10, <2>1, <2>2, <2>5, <3>1, PlansMade DEF RelayTurn, driverVars
    <3>3. WireTurn(t)' BY <1>6, <2>2, <2>4, <2>5, <3>1, PlansMade DEF WireTurn
    <3>4. \A kind : ~Upcoming(t, kind)' BY <3>1 DEF Upcoming, Idle
    <3>5. ReadingTurn(t)'
      BY <1>6, <1>7, <2>1, <2>2, <3>4 DEF ReadingTurn, Recorded, driverVars, plantVars
    <3>6. AlertTurn(t)' BY <1>6, <2>2, <2>5, <3>4 DEF AlertTurn, overrideVars
    <3> QED BY <1>3, <3>2, <3>3, <3>5, <3>6 DEF Turn
  <2>6. CASE ~override
    <3>1. /\ todo'[t] = Enforce /\ Enforce # <<>> /\ Head(Enforce)[1] = "pulse"
          /\ ~Closes(Enforce) /\ Tells(Enforce, "OVERRIDE_ASSERT")
      BY <2>2, <2>6, PlansMade DEF Made
    <3>2. \A kind : Upcoming(t, kind)' <=> kind = "pulse" BY <3>1 DEF Upcoming, Idle
    <3>3. RelayTurn(t)' BY <3>1, <3>2 DEF RelayTurn
    <3>4. WireTurn(t)' BY <2>2, <3>1 DEF WireTurn, ToBeTold
    <3>5. ReadingTurn(t)'
      BY <1>6, <1>7, <2>1, <2>2, <3>2 DEF ReadingTurn, Recorded, driverVars, plantVars
    <3>6. AlertTurn(t)' BY <1>6, <1>7, <1>8, <2>1, <2>2, <2>6, <3>2 DEF AlertTurn
    <3> QED BY <1>3, <3>3, <3>4, <3>5, <3>6 DEF Turn
  <2> QED BY <2>5, <2>6
<1>15. CASE WriteFrame(t)
  <2>1. first[1] = "write" BY <1>7, <1>15 DEF WriteFrame
  <2>2. /\ rest = <<>> /\ todo'[t] = <<>> BY <1>1, <1>2, <2>1 DEF After
  <2>3. /\ announced' = (first[2] = "OVERRIDE_ASSERT")
        /\ UNCHANGED <<overrideVars, chain_alert, driverVars, plantVars>>
    BY <1>8, <1>15 DEF WriteFrame, nodeVars
  <2>4. ~Silent(todo[t]) BY <1>2, <2>1 DEF Silent
  <2>5. Tells(todo[t], ToBeTold) BY <1>6, <2>4 DEF WireTurn
  <2>6. first[2] = ToBeTold BY <1>2, <2>1, <2>5 DEF Tells
  <2>7. \A kind : ~Upcoming(t, kind)' BY <2>2 DEF Upcoming, Idle
  <2>8. RelayTurn(t)'
    BY <1>6, <1>7, <1>10, <2>1, <2>2, <2>3, PlansMade
       DEF RelayTurn, driverVars, overrideVars
  <2>9. WireTurn(t)'
    BY <1>5, <2>2, <2>3, <2>6, PlansMade DEF WireTurn, ToBeTold, overrideVars
  <2>10. ReadingTurn(t)'
    BY <1>6, <1>7, <2>1, <2>3, <2>7 DEF ReadingTurn, Recorded, driverVars, plantVars
  <2>11. AlertTurn(t)' BY <1>6, <2>3, <2>7 DEF AlertTurn, overrideVars
  <2> QED BY <1>3, <2>8, <2>9, <2>10, <2>11 DEF Turn
<1>16. CASE ArmWatchdog(t)
  <2>1. first[1] = "arm" BY <1>7, <1>16 DEF ArmWatchdog
  <2>2. todo'[t] = rest BY <1>1, <2>1
  <2>3. rest # <<>> => Head(rest)[1] = "pulse" BY <1>2, <2>1 DEF After
  <2>4. UNCHANGED <<overrideVars, chain_alert, announced, driverVars, plantVars>>
    BY <1>16 DEF ArmWatchdog, nodeVars
  <2>5. RelayTurn(t)'
    BY <1>2, <1>6, <1>7, <1>10, <2>1, <2>2, <2>4 DEF RelayTurn, overrideVars, driverVars
  <2>6. WireTurn(t)'
    BY <1>2, <1>6, <2>1, <2>2, <2>4 DEF WireTurn, Silent, Tells, ToBeTold, overrideVars
  <2>7. ~Recorded(t)' /\ ~Upcoming(t, "assert")' BY <1>9, <2>1, <2>2, <2>3 DEF Recorded
  <2>8. ReadingTurn(t)'
    BY <1>6, <1>7, <2>1, <2>4, <2>7 DEF ReadingTurn, Recorded, driverVars, plantVars
  <2>9. AlertTurn(t)' BY <1>6, <2>4, <2>7 DEF AlertTurn, overrideVars
  <2> QED BY <1>3, <2>5, <2>6, <2>8, <2>9 DEF Turn
<1> QED BY <1>11, <1>12, <1>13, <1>14, <1>15, <1>16 DEF Step

(* Between handlers, whoever was last.                                       *)
LEMMA TurnOver ==
  ASSUME NEW t \in Threads, Turn(t), Quiet
  PROVE  /\ PlainRequests /\ override => commanded = "OPEN"
         /\ announced <=> override
         /\ last_observed = "OPEN" => contact = "OPEN"
         /\ override_reason = "ATTESTATION_MISMATCH" => chain_alert
<1>1. todo[t] = <<>> /\ \A kind : ~Upcoming(t, kind) BY DEF Quiet, Idle, Upcoming
<1>2. \E frame : ~Writes(todo[t], frame) /\ frame = ToBeTold BY <1>1, PlansMade DEF Silent
<1> QED BY <1>1, <1>2 DEF Turn, RelayTurn, WireTurn, Tells, ReadingTurn, Recorded, AlertTurn

(* A thread begins a handler.                                                *)
LEMMA TurnTaken ==
  ASSUME Typed, setting.serialised, TurnInv,
         NEW t \in Threads, NEW steps \in Plans, Free(t), Begin(t, steps),
         UNCHANGED <<driverVars, plantVars, announced>>
  PROVE  /\ /\ PlainRequests /\ override => commanded = "OPEN"
            /\ announced <=> override
            /\ last_observed = "OPEN" => contact = "OPEN"
            /\ override_reason = "ATTESTATION_MISMATCH" => chain_alert
         /\ Alone(t)' /\ todo'[t] = steps /\ UNCHANGED PlainRequests
         /\ steps = <<>> \/ Head(steps)[1] \notin {"record", "record_poll"} => ReadingTurn(t)'
         /\ Silent(steps) /\ UNCHANGED override => WireTurn(t)'
         /\ steps = <<>> \/ Head(steps)[1] # "assert" => ~Upcoming(t, "assert")'
<1>1. Quiet /\ todo \in [Threads -> Plans] BY DEF Free, Typed
<1>2. /\ todo'[t] = steps /\ UNCHANGED setting
      /\ \A s \in Threads \ {t} : todo'[s] = todo[s]
  BY <1>1, Begun
<1>3. PICK u \in Threads : Turn(u) BY DEF TurnInv
<1>4. Alone(t)' BY <1>1, <1>2 DEF Alone, Quiet, Idle
<1>5. /\ PlainRequests /\ override => commanded = "OPEN"
      /\ announced <=> override
      /\ last_observed = "OPEN" => contact = "OPEN"
      /\ override_reason = "ATTESTATION_MISMATCH" => chain_alert
  BY <1>1, <1>3, TurnOver
<1>6. UNCHANGED PlainRequests BY <1>2 DEF PlainRequests
<1>7. \A kind : Upcoming(t, kind)' <=> steps # <<>> /\ Head(steps)[1] = kind
  BY <1>2 DEF Upcoming, Idle
<1>8. steps = <<>> \/ Head(steps)[1] \notin {"record", "record_poll"} => ReadingTurn(t)'
  BY <1>5, <1>7 DEF ReadingTurn, Recorded, driverVars, plantVars
<1>9. Silent(steps) /\ UNCHANGED override => WireTurn(t)' BY <1>2, <1>5 DEF WireTurn
<1> QED BY <1>2, <1>4, <1>5, <1>6, <1>7, <1>8, <1>9

LEMMA TurnOfHandler ==
  ASSUME Typed, setting.serialised, TurnInv, MockNext
  PROVE  TurnInv'
<1>0. todo \in [Threads -> Plans] BY DEF Typed
<1>1. CASE \E t \in Threads : Step(t)
  <2>1. PICK t \in Threads : Step(t) BY <1>1
  <2>2. PICK u \in Threads : Turn(u) BY DEF TurnInv
  <2>3. t = u BY <2>1, <2>2, StepTaken DEF Turn, Alone, Idle
  <2> QED BY <2>1, <2>2, <2>3, TurnOfStep DEF TurnInv
<1>2. ASSUME UNCHANGED <<todo, setting, overrideVars, driverVars, contact, sampled, announced>>,
             UNCHANGED chain_alert
      PROVE  TurnInv'
  <2>1. PICK u \in Threads : Turn(u) BY DEF TurnInv
  <2>2. UNCHANGED PlainRequests /\ UNCHANGED ToBeTold
    BY <1>2 DEF PlainRequests, ToBeTold, overrideVars
  <2>3. Turn(u)'
    BY <1>2, <2>1, <2>2
       DEF Turn, Alone, RelayTurn, WireTurn, ReadingTurn, Recorded, AlertTurn,
       Upcoming, Argument, Idle, overrideVars, driverVars
  <2> QED BY <2>3 DEF TurnInv
<1>3. CASE (ReleaseButton \/ ClockTick \/ RelayChanges) /\ UNCHANGED <<todo, setting>>
  <2>1. UNCHANGED <<overrideVars, driverVars, contact, sampled, announced, chain_alert>>
    BY <1>3 DEF ReleaseButton, ClockTick, RelayChanges, PlantNext, ModuleFault, SenseFault,
       PowerCycle, nodeVars, threadVars, plantVars
  <2> QED BY <1>2, <1>3, <2>1
<1>4. CASE (\E ref \in setting.refs, digest \in Digests :
              Idle("reader") /\ OnDigest(ref, digest) /\ AcceptDigest(ref, digest))
           /\ UNCHANGED <<todo, setting>>
  <2>1. UNCHANGED <<overrideVars, driverVars, contact, sampled, announced, chain_alert>>
    BY <1>4 DEF OnDigest, AcceptDigest, plantVars
  <2> QED BY <1>2, <1>4, <2>1
<1>5. ASSUME NEW t \in Threads, NEW steps \in Plans, Free(t), Begin(t, steps),
             UNCHANGED <<driverVars, plantVars, announced, override, override_reason>>,
             Silent(steps),
             steps = <<>> \/ Head(steps)[1] \notin {"record", "record_poll"},
             PlainRequests /\ override => ~Closes(steps),
             chain_alert => chain_alert',
             steps = <<>> \/ Head(steps)[1] # "assert"
             \/ Head(steps)[2] # "ATTESTATION_MISMATCH" \/ chain_alert'
      PROVE  TurnInv'
  <2>1. /\ PlainRequests /\ override => commanded = "OPEN"
        /\ override_reason = "ATTESTATION_MISMATCH" => chain_alert
        /\ Alone(t)' /\ todo'[t] = steps /\ UNCHANGED PlainRequests
        /\ ReadingTurn(t)' /\ WireTurn(t)'
    BY <1>5, TurnTaken
  <2>2. RelayTurn(t)' BY <1>5, <2>1 DEF RelayTurn, driverVars
  <2>3. AlertTurn(t)' BY <1>5, <2>1 DEF AlertTurn, Upcoming, Argument, Idle
  <2> QED BY <2>1, <2>2, <2>3 DEF TurnInv, Turn
<1>6. ASSUME NEW t \in Threads, NEW steps \in Plans, Free(t), Begin(t, steps),
             steps = Permit \o Write("OVERRIDE_CLEAR"), ClearOverride
      PROVE  TurnInv'
  <2>1. /\ ~override' /\ override_reason' = NoReason
        /\ UNCHANGED <<driverVars, plantVars, announced>>
    BY <1>6 DEF ClearOverride
  <2>2. /\ steps # <<>> /\ Head(steps)[1] = "pulse" /\ Tells(steps, "OVERRIDE_CLEAR")
    BY <1>6, PlansMade DEF Made
  <2>3. /\ Alone(t)' /\ todo'[t] = steps /\ ReadingTurn(t)' /\ ~Upcoming(t, "assert")'
    BY <1>6, <2>1, <2>2, TurnTaken
  <2>4. RelayTurn(t)' BY <2>1 DEF RelayTurn
  <2>5. WireTurn(t)' BY <2>1, <2>2, <2>3 DEF WireTurn, ToBeTold
  <2>6. AlertTurn(t)' BY <2>1, <2>3 DEF AlertTurn, NoReason
  <2> QED BY <2>3, <2>4, <2>5, <2>6 DEF TurnInv, Turn
<1>7. ASSUME PollLatch \/ WatchdogExpires \/ PressButton \/ RemoteOverride
             \/ (\E ref \in setting.refs : OnHeartbeat(ref))
             \/ (\E desired \in setting.requests : OnLatchRequest(desired))
      PROVE  UNCHANGED <<driverVars, plantVars, announced, override, override_reason, chain_alert>>
  BY <1>7 DEF PollLatch, WatchdogExpires, PressButton, RemoteOverride, OnHeartbeat,
     OnLatchRequest, nodeVars, overrideVars
<1>8. ASSUME NEW ref, NEW digest, OnDigest(ref, digest), RejectDigest(ref)
      PROVE  /\ UNCHANGED <<driverVars, plantVars, announced, override, override_reason>>
             /\ chain_alert'
  BY <1>8 DEF OnDigest, RejectDigest, overrideVars
<1>9. \A reason \in Reasons :
        /\ Raise(reason) # <<>> /\ Head(Raise(reason)) = <<"assert", reason>>
        /\ ~Closes(Raise(reason)) /\ Silent(Raise(reason))
  BY PlansMade DEF Made
<1>10. {"ATTESTATION_MISMATCH", "GOVERNANCE_HEARTBEAT_LOST", "OPERATOR_BUTTON",
        "REMOTE_CONSOLE"} \subseteq Reasons
  BY DEF Reasons
<1>11. ASSUME NEW t \in Threads, NEW steps \in Plans, Free(t), Begin(t, steps)
       PROVE  /\ steps = Poll /\ PollLatch => TurnInv'
              /\ (\E ref \in setting.refs :
                    /\ OnHeartbeat(ref)
                    /\ \/ steps = << <<"arm">> >> \o Permit /\ ~override
                       \/ steps = << <<"arm">> >> \o <<>>) => TurnInv'
              /\ (\E desired \in setting.requests :
                    /\ OnLatchRequest(desired)
                    /\ \/ steps = <<>> \/ steps = Halt
                       \/ steps = Permit /\ (PlainRequests => ~override)) => TurnInv'
              /\ steps = Raise("ATTESTATION_MISMATCH")
                 /\ (\E ref \in setting.refs, digest \in Digests :
                       OnDigest(ref, digest) /\ RejectDigest(ref)) => TurnInv'
              /\ steps = Raise("GOVERNANCE_HEARTBEAT_LOST") /\ WatchdogExpires => TurnInv'
              /\ steps = Raise("OPERATOR_BUTTON") /\ PressButton => TurnInv'
              /\ steps = Raise("REMOTE_CONSOLE") /\ RemoteOverride => TurnInv'
              /\ steps = Permit \o Write("OVERRIDE_CLEAR") /\ ClearOverride => TurnInv'
  <2>1. ASSUME steps = Poll, PollLatch PROVE TurnInv'
    <3>1. Silent(steps) /\ ~Closes(steps) /\ Head(steps)[1] = "read_register"
      BY <2>1, PlansMade DEF Made
    <3> QED BY <1>5, <1>7, <1>11, <2>1, <3>1
  <2>2. ASSUME NEW ref \in setting.refs, OnHeartbeat(ref),
               \/ steps = << <<"arm">> >> \o Permit /\ ~override
               \/ steps = << <<"arm">> >> \o <<>>
        PROVE  TurnInv'
    <3>a. ASSUME steps = << <<"arm">> >> \o Permit
          PROVE  Silent(steps) /\ Head(steps)[1] = "arm"
      BY <3>a, PlansMade DEF Made
    <3>b. ASSUME steps = << <<"arm">> >> \o <<>>
          PROVE  Silent(steps) /\ ~Closes(steps) /\ Head(steps)[1] = "arm"
      BY <3>b, PlansMade DEF Made
    <3>1. Silent(steps) /\ (override => ~Closes(steps)) /\ Head(steps)[1] = "arm"
      BY <2>2, <3>a, <3>b
    <3> QED BY <1>5, <1>7, <1>11, <2>2, <3>1
  <2>3. ASSUME NEW desired \in setting.requests, OnLatchRequest(desired),
               \/ steps = <<>> \/ steps = Halt
               \/ steps = Permit /\ (PlainRequests => ~override)
        PROVE  TurnInv'
    <3>1. Silent(steps) /\ (PlainRequests /\ override => ~Closes(steps))
          /\ (steps = <<>> \/ Head(steps)[1] = "pulse")
      BY <2>3, PlansMade DEF Made
    <3> QED BY <1>5, <1>7, <1>11, <2>3, <3>1
  <2>4. ASSUME steps = Raise("ATTESTATION_MISMATCH"), NEW ref, NEW digest,
               OnDigest(ref, digest), RejectDigest(ref)
        PROVE  TurnInv'
    BY <1>5, <1>8, <1>9, <1>10, <1>11, <2>4
  <2>5. ASSUME \/ steps = Raise("GOVERNANCE_HEARTBEAT_LOST") /\ WatchdogExpires
               \/ steps = Raise("OPERATOR_BUTTON") /\ PressButton
               \/ steps = Raise("REMOTE_CONSOLE") /\ RemoteOverride
        PROVE  TurnInv'
    <3>1. PICK reason \in Reasons : steps = Raise(reason) /\ reason # "ATTESTATION_MISMATCH"
      BY <1>10, <2>5
    <3>2. Silent(steps) /\ ~Closes(steps) /\ Head(steps)[1] = "assert" /\ Head(steps)[2] = reason
      BY <1>9, <3>1
    <3> QED BY <1>5, <1>7, <1>11, <2>5, <3>1, <3>2
  <2> QED BY <1>6, <1>11, <2>1, <2>2, <2>3, <2>4, <2>5
<1> QED BY <1>1, <1>3, <1>4, <1>11, HandlerBegun

-----------------------------------------------------------------------------
(* The invariant, and what it gives.                                         *)
LEMMA InvStep ==
  ASSUME MockInv, [MockNext]_mockVars
  PROVE  MockInv'
<1>1. Typed' /\ RetainedIsTail' /\ StillToLatch' BY TypedStep, TailStep, LatchStep DEF MockInv
<1>2. UNCHANGED setting BY TodoTyped DEF MockInv
<1>3. CASE MockNext BY <1>1, <1>2, <1>3, TurnOfHandler DEF MockInv
<1>4. CASE UNCHANGED mockVars
  <2>1. TurnInv => TurnInv'
    BY <1>4
       DEF mockVars, nodeVars, overrideVars, driverVars, plantVars, threadVars, TurnInv, Turn,
       Alone, RelayTurn, WireTurn, ReadingTurn, Recorded, AlertTurn, Upcoming, Argument, Idle,
       PlainRequests, ToBeTold
  <2> QED BY <1>1, <1>2, <2>1 DEF MockInv
<1> QED BY <1>3, <1>4

LEMMA MockInvariant == MockSpec => []MockInv
<1>1. MockInit => MockInv BY InvInit
<1>2. MockInv /\ [MockNext]_mockVars => MockInv' BY InvStep
<1> QED BY <1>1, <1>2, PTL DEF MockSpec

(* Every variable of the node, its threads' lists included, keeps its type   *)
(* (mock_supervisor.py).                                                     *)
THEOREM MockTypesHold == MockSpec => []MockTypeOK
<1>1. MockInv => MockTypeOK BY DEF MockInv, Typed
<1> QED BY <1>1, MockInvariant, PTL

(* However the three threads interleave, an operator who holds the button    *)
(* when his call is done sees an override, and so does a chain alert whose   *)
(* handler is done (mock_supervisor.py:228-232, 267-276, 433-440).           *)
THEOREM CausesAreLatched == MockSpec => []CausesLatch
<1>1. MockInv => CausesLatch BY DEF MockInv, StillToLatch, CausesLatch, Upcoming
<1> QED BY <1>1, MockInvariant, PTL

(* Whichever thread moves last_ref, and whenever, what an auditor reads off  *)
(* the node is the tail of what it filed (mock_supervisor.py:267-270,        *)
(* 430-432).                                                                 *)
THEOREM RetainedAlwaysTail == MockSpec => []RetainedIsTail
<1>1. MockInv => RetainedIsTail BY DEF MockInv
<1> QED BY <1>1, MockInvariant, PTL

LEMMA InTurnFacts ==
  ASSUME MockInv, InTurn
  PROVE  /\ PlainRequests /\ override => commanded = "OPEN"
         /\ announced <=> override
         /\ last_observed = "OPEN" => contact = "OPEN"
         /\ override_reason = "ATTESTATION_MISMATCH" => chain_alert
<1>1. PICK t \in Threads : Turn(t) BY DEF MockInv, InTurn, TurnInv
<1> QED BY <1>1, TurnOver DEF InTurn

(* Between handlers an override isolates, as long as nobody asks for the     *)
(* position UNKNOWN (mock_supervisor.py:400-417, 460-464).                   *)
THEOREM OverrideIsolates ==
  ASSUME \A s \in Settings : s.requests \subseteq Contacts
  PROVE  MockSpec => []OverrideOpens
<1>1. MockInv => OverrideOpens
  BY InTurnFacts DEF MockInv, Typed, OverrideOpens, PlainRequests
<1> QED BY <1>1, MockInvariant, PTL

(* Between handlers the tier has been told what stands                       *)
(* (mock_supervisor.py:276-280, 460-466).                                    *)
THEOREM TierIsTold == MockSpec => []WireTellsOverride
<1>1. MockInv => WireTellsOverride BY InTurnFacts DEF WireTellsOverride
<1> QED BY <1>1, MockInvariant, PTL

(* Between handlers an isolation that is shown is there, whatever fails in   *)
(* the relay or the sense pair (mock_supervisor.py:172-182, latch.py:203-215,*)
(* 238-246).                                                                 *)
THEOREM CutIsThere == MockSpec => []CutIsSeen
<1>1. MockInv => CutIsSeen BY InTurnFacts DEF CutIsSeen
<1> QED BY <1>1, MockInvariant, PTL

(* Between handlers an attestation override still has the alert a clear      *)
(* needs (mock_supervisor.py:267-276, 433-440).                              *)
THEOREM AlertOutlivesItsOverride == MockSpec => []AttestationCanResume
<1>1. MockInv => AttestationCanResume BY InTurnFacts DEF AttestationCanResume
<1> QED BY <1>1, MockInvariant, PTL

-----------------------------------------------------------------------------
(* The node implements OversightContract.                                    *)
LEMMA ContractStep ==
  ASSUME Typed, [MockNext]_mockVars
  PROVE  Contract!ContractNext \/ UNCHANGED Contract!contract
<1> USE DEF nodeVars, overrideVars, witnessVars, Contract!contract
<1>0. /\ last_ref = Contract!LastWitnessed /\ last_ref \in Refs
      /\ last_heartbeat \in Refs \cup {None} /\ override \in BOOLEAN
      /\ button_pressed \in BOOLEAN /\ setting \in Settings
  BY DEF Typed, MockTypeOK
<1>1. ASSUME UNCHANGED <<override, override_reason, ledger>>, button_pressed' \in BOOLEAN
      PROVE  Contract!ContractNext \/ UNCHANGED Contract!contract
  BY <1>0, <1>1 DEF Contract!ContractNext, Contract!Hold
<1>2. ASSUME NEW t \in Threads, Step(t)
      PROVE  Contract!ContractNext \/ UNCHANGED Contract!contract
  <2>1. UNCHANGED <<button_pressed, ledger>> BY <1>2, StepTaken
  <2>2. CASE UNCHANGED <<override, override_reason>> BY <1>0, <1>1, <2>1, <2>2
  <2>3. CASE ~UNCHANGED <<override, override_reason>>
    <3>1. Head(todo[t])[1] = "assert" BY <1>2, <2>3, StepTaken
    <3>2. todo[t] \in Plans /\ todo[t] # <<>> BY <1>2, StepTaken DEF Idle
    <3>3. Argument(t) \in Reasons BY <3>1, <3>2, PlanStep, StepKinds DEF Argument
    <3>4. AssertOverride(t)
      BY <1>2, <2>3 DEF Step, Pulse, SampleRegister, SampleSense, Sampling, RecordReading,
         RecordPoll, Recording, WriteFrame, ArmWatchdog
    <3>5. ~override /\ override' = TRUE /\ override_reason' \in Reasons
      BY <2>3, <3>3, <3>4 DEF AssertOverride
    <3> QED BY <1>0, <2>1, <3>5 DEF Contract!ContractNext, Contract!Raise
  <2> QED BY <2>2, <2>3
<1>3. \/ PollLatch \/ (\E ref \in setting.refs : OnHeartbeat(ref))
      \/ (\E desired \in setting.requests : OnLatchRequest(desired))
      \/ WatchdogExpires \/ PressButton \/ ReleaseButton \/ RemoteOverride \/ ClockTick
      \/ RelayChanges \/ UNCHANGED mockVars
      => UNCHANGED <<override, override_reason, ledger>> /\ button_pressed' \in BOOLEAN
  BY <1>0 DEF PollLatch, OnHeartbeat, OnLatchRequest, WatchdogExpires, PressButton,
     ReleaseButton, RemoteOverride, ClockTick, RelayChanges, mockVars
<1>4. ASSUME NEW ref \in setting.refs, NEW digest \in Digests, OnDigest(ref, digest)
      PROVE  Contract!ContractNext \/ UNCHANGED Contract!contract
  <2>1. UNCHANGED <<override, override_reason, button_pressed>> BY <1>4 DEF OnDigest
  <2>2. CASE AcceptDigest(ref, digest)
    <3>1. ref \in Refs BY <1>0, MockAssumption DEF Refs
    <3>2. Contract!LastWitnessed < MaxRef /\ ref = Contract!LastWitnessed + 1
      BY <1>0, <2>2, <3>1, MockAssumption DEF AcceptDigest, Refs
    <3>3. ledger' = Append(ledger, [ref |-> Contract!LastWitnessed + 1, digest |-> digest,
                                    by |-> "digest"])
      BY <2>2, <3>2 DEF AcceptDigest
    <3> QED BY <2>1, <3>2, <3>3 DEF Contract!ContractNext, Contract!Witness
  <2>3. CASE RejectDigest(ref) BY <1>0, <1>1, <2>1, <2>3 DEF RejectDigest
  <2> QED BY <1>4, <2>2, <2>3 DEF OnDigest
<1>5. CASE ClearOverride
  <2>1. /\ override /\ ~button_pressed /\ UNCHANGED button_pressed
        /\ override' = FALSE /\ override_reason' = NoReason
    BY <1>5 DEF ClearOverride, ClearAllowed
  <2>2. CASE Resynchronises
    <3>1. last_heartbeat \in Contract!LastWitnessed + 1 .. MaxRef
      BY <1>0, <1>5, <2>2, MockAssumption
         DEF ClearOverride, ClearAllowed, Resynchronises, Refs
    <3>2. ledger' = Append(ledger, [ref |-> last_heartbeat, digest |-> NoDigest,
                                    by |-> "operator"])
      BY <1>5, <2>2 DEF ClearOverride
    <3> QED BY <2>1, <3>1, <3>2 DEF Contract!ContractNext, Contract!Release
  <2>3. CASE ~Resynchronises
    BY <1>5, <2>1, <2>3 DEF ClearOverride, Contract!ContractNext, Contract!Release
  <2> QED BY <2>2, <2>3
<1> QED BY <1>1, <1>2, <1>3, <1>4, <1>5 DEF MockNext

(* With three threads at it, the node still vetoes, holds, witnesses and     *)
(* releases as OversightContract says (mock_supervisor.py:228-236, 243-276,  *)
(* 419-437, 446-459).                                                        *)
THEOREM MockKeepsContract == MockSpec => MockImplementsContract
<1>1. MockInit => Contract!ContractInit
  BY DEF MockInit, Contract!ContractInit
<1>2. MockInv /\ [MockNext]_mockVars => [Contract!ContractNext]_Contract!contract
  BY ContractStep DEF MockInv
<1> QED BY <1>1, <1>2, MockInvariant, PTL
        DEF MockSpec, MockImplementsContract, Contract!ContractSpec
=============================================================================

------------------------------ MODULE QueueLemmas ------------------------------
(***************************************************************************)
(* What a queue holds after something is put at its end, taken from its    *)
(* front or cut out of it: the lemmas the proofs about wires and           *)
(* connections share.                                                      *)
(***************************************************************************)
EXTENDS Queues, TLAPS

LEMMA Appended ==
  ASSUME NEW S, NEW list \in Seq(S), NEW e \in S
  PROVE  /\ Append(list, e) \in Seq(S) /\ Append(list, e) # <<>>
         /\ Len(Append(list, e)) = Len(list) + 1 /\ Len(list) \in Nat
         /\ Append(list, e)[Len(list) + 1] = e
         /\ \A n \in 1 .. Len(list) : Append(list, e)[n] = list[n]
  OBVIOUS

LEMMA AppendedElements ==
  ASSUME NEW S, NEW list \in Seq(S), NEW e \in S
  PROVE  Elements(Append(list, e)) = Elements(list) \cup {e}
<1>1. ASSUME NEW x \in Elements(Append(list, e)) PROVE x \in Elements(list) \cup {e}
  <2>1. PICK n \in 1 .. Len(list) + 1 : x = Append(list, e)[n]
    BY Appended DEF Elements
  <2>2. n = Len(list) + 1 \/ n \in 1 .. Len(list) BY Appended
  <2> QED BY <2>1, <2>2, Appended DEF Elements
<1>2. ASSUME NEW x \in Elements(list) PROVE x \in Elements(Append(list, e))
  <2>1. PICK n \in 1 .. Len(list) : x = list[n] BY DEF Elements
  <2>2. n \in 1 .. Len(Append(list, e)) BY Appended
  <2> QED BY <2>1, <2>2, Appended DEF Elements
<1>3. e \in Elements(Append(list, e))
  <2>1. Len(list) + 1 \in 1 .. Len(Append(list, e)) BY Appended
  <2> QED BY <2>1, Appended DEF Elements
<1> QED BY <1>1, <1>2, <1>3

LEMMA Served ==
  ASSUME NEW S, NEW list \in Seq(S), list # <<>>
  PROVE  /\ Tail(list) \in Seq(S) /\ Head(list) \in S
         /\ Len(list) \in Nat /\ Len(list) > 0 /\ Len(Tail(list)) = Len(list) - 1
         /\ Head(list) = list[1]
         /\ \A n \in 1 .. Len(Tail(list)) : Tail(list)[n] = list[n + 1]
  OBVIOUS

LEMMA ServedElements ==
  ASSUME NEW S, NEW list \in Seq(S), list # <<>>
  PROVE  Elements(Tail(list)) \subseteq Elements(list) /\ Head(list) \in Elements(list)
<1>1. ASSUME NEW x \in Elements(Tail(list)) PROVE x \in Elements(list)
  <2>1. PICK n \in 1 .. Len(Tail(list)) : x = Tail(list)[n] BY DEF Elements
  <2>2. n + 1 \in 1 .. Len(list) /\ x = list[n + 1] BY <2>1, Served
  <2> QED BY <2>2 DEF Elements
<1>2. 1 \in 1 .. Len(list) /\ Head(list) = list[1] BY Served
<1> QED BY <1>1, <1>2 DEF Elements

LEMMA CutOut ==
  ASSUME NEW S, NEW list \in Seq(S), NEW k \in 1 .. Len(list)
  PROVE  LET rest == SubSeq(list, 1, k - 1) \o SubSeq(list, k + 1, Len(list))
         IN  /\ rest \in Seq(S)
             /\ Len(rest) = Len(list) - 1
             /\ Elements(rest) \subseteq Elements(list)
<1> DEFINE before == SubSeq(list, 1, k - 1)
           after == SubSeq(list, k + 1, Len(list))
           rest == before \o after
<1>1. Len(list) \in Nat /\ k \in Nat OBVIOUS
<1>2. before \in Seq(S) /\ Len(before) = k - 1
      /\ \A n \in 1 .. k - 1 : before[n] = list[n]
  BY <1>1
<1>3. after \in Seq(S) /\ Len(after) = Len(list) - k
      /\ \A n \in 1 .. Len(list) - k : after[n] = list[k + n]
  BY <1>1
<1>4. rest \in Seq(S) /\ Len(rest) = Len(list) - 1
  <2> HIDE DEF before, after
  <2>1. rest \in Seq(S) /\ Len(rest) = Len(before) + Len(after)
    BY <1>2, <1>3
  <2> QED BY <2>1, <1>1, <1>2, <1>3
<1>5. ASSUME NEW x \in Elements(rest) PROVE x \in Elements(list)
  <2> HIDE DEF before, after
  <2>1. PICK n \in 1 .. Len(rest) : x = rest[n] BY DEF Elements
  <2>2. n \in 1 .. Len(list) - 1 BY <2>1, <1>4
  <2>3. CASE n <= k - 1
    <3>1. n \in 1 .. k - 1 BY <2>2, <2>3, <1>1
    <3>2. rest[n] = before[n] BY <3>1, <1>1, <1>2, <1>3
    <3>3. x = list[n] /\ n \in 1 .. Len(list) BY <2>1, <3>1, <3>2, <1>1, <1>2
    <3> QED BY <3>3 DEF Elements
  <2>4. CASE n > k - 1
    <3>1. n - (k - 1) \in 1 .. Len(list) - k BY <2>2, <2>4, <1>1
    <3>2. rest[n] = after[n - (k - 1)] BY <2>2, <2>4, <3>1, <1>1, <1>2, <1>3
    <3>3. x = list[k + (n - (k - 1))] /\ k + (n - (k - 1)) \in 1 .. Len(list)
      BY <2>1, <3>1, <3>2, <1>1, <1>3
    <3> QED BY <3>3 DEF Elements
  <2> QED BY <2>2, <2>3, <2>4, <1>1
<1>6. Elements(rest) \subseteq Elements(list)
  <2> HIDE DEF rest
  <2> QED BY <1>5
<1> QED BY <1>4, <1>6

(* A queue of fewer things is one of more.                                   *)
LEMMA WiderSeq ==
  ASSUME NEW S, NEW T, S \subseteq T, NEW list \in Seq(S)
  PROVE  list \in Seq(T)
<1>1. Len(list) \in Nat /\ list \in [1 .. Len(list) -> S] OBVIOUS
<1>2. list \in [1 .. Len(list) -> T] BY <1>1
<1> QED BY <1>1, <1>2

LEMMA GluedParts ==
  ASSUME NEW S, NEW front \in Seq(S), NEW back \in Seq(S)
  PROVE  /\ front \o back \in Seq(S)
         /\ Len(front) \in Nat /\ Len(back) \in Nat
         /\ Len(front \o back) = Len(front) + Len(back)
         /\ \A k \in 1 .. Len(front) : (front \o back)[k] = front[k]
         /\ \A k \in 1 .. Len(back) : (front \o back)[Len(front) + k] = back[k]
<1> DEFINE glued == front \o back
<1>1. /\ glued \in Seq(S) /\ Len(glued) = Len(front) + Len(back)
      /\ Len(front) \in Nat /\ Len(back) \in Nat
      /\ \A k \in 1 .. Len(glued) :
           glued[k] = IF k <= Len(front) THEN front[k] ELSE back[k - Len(front)]
  OBVIOUS
<1> HIDE DEF glued
<1>2. \A k \in 1 .. Len(front) : glued[k] = front[k] BY <1>1
<1>3. ASSUME NEW k \in 1 .. Len(back) PROVE glued[Len(front) + k] = back[k]
  <2>1. Len(front) + k \in 1 .. Len(glued) /\ ~(Len(front) + k <= Len(front))
        /\ (Len(front) + k) - Len(front) = k
    BY <1>1
  <2> QED BY <1>1, <2>1
<1> QED BY <1>1, <1>2, <1>3 DEF glued

(* The part of a queue between two places.                                   *)
LEMMA Cut ==
  ASSUME NEW S, NEW list \in Seq(S), NEW m \in 1 .. Len(list) + 1, NEW n \in 0 .. Len(list),
         m <= n + 1
  PROVE  /\ SubSeq(list, m, n) \in Seq(S)
         /\ Len(SubSeq(list, m, n)) = n - m + 1
         /\ \A k \in 1 .. n - m + 1 : SubSeq(list, m, n)[k] = list[m - 1 + k]
  OBVIOUS

(* Two queues in a row, known by their parts.                                *)
LEMMA Glued ==
  ASSUME NEW S, NEW front \in Seq(S), NEW back \in Seq(S), NEW whole \in Seq(S),
         Len(whole) = Len(front) + Len(back),
         \A k \in 1 .. Len(front) : whole[k] = front[k],
         \A k \in 1 .. Len(back) : whole[Len(front) + k] = back[k]
  PROVE  front \o back = whole
<1> DEFINE glued == front \o back
<1>1. /\ glued \in Seq(S) /\ Len(glued) = Len(front) + Len(back)
      /\ Len(front) \in Nat /\ Len(back) \in Nat
      /\ \A k \in 1 .. Len(glued) :
           glued[k] = IF k <= Len(front) THEN front[k] ELSE back[k - Len(front)]
  OBVIOUS
<1> HIDE DEF glued
<1>2. ASSUME NEW k \in 1 .. Len(glued) PROVE glued[k] = whole[k]
  <2>1. CASE k <= Len(front)
    <3>1. k \in 1 .. Len(front) BY <1>1, <2>1
    <3> QED BY <3>1, <1>1, <2>1
  <2>2. CASE k > Len(front)
    <3>1. k - Len(front) \in 1 .. Len(back) BY <1>1, <2>2
    <3>2. Len(front) + (k - Len(front)) = k BY <1>1
    <3>3. whole[Len(front) + (k - Len(front))] = back[k - Len(front)] BY <3>1
    <3>4. glued[k] = back[k - Len(front)] BY <1>1, <2>2
    <3> QED BY <3>2, <3>3, <3>4
  <2> QED BY <2>1, <2>2, <1>1
<1>3. glued = whole
  <2>1. glued \in [1 .. Len(glued) -> S] BY <1>1
  <2>2. whole \in [1 .. Len(whole) -> S] OBVIOUS
  <2>3. Len(whole) = Len(glued) BY <1>1
  <2>4. glued = [k \in 1 .. Len(glued) |-> glued[k]] BY <2>1
  <2>5. whole = [k \in 1 .. Len(glued) |-> whole[k]] BY <2>2, <2>3
  <2> QED BY <1>2, <2>4, <2>5
<1> QED BY <1>3 DEF glued

LEMMA GluedToNothing ==
  ASSUME NEW S, NEW list \in Seq(S)
  PROVE  list \o <<>> = list /\ <<>> \o list = list
  OBVIOUS

LEMMA GluedToOne ==
  ASSUME NEW S, NEW list \in Seq(S), NEW e \in S
  PROVE  list \o <<e>> = Append(list, e)
<1> DEFINE one == <<e>>
           whole == Append(list, e)
<1>1. one \in Seq(S) /\ Len(one) = 1 /\ one[1] = e OBVIOUS
<1>2. /\ whole \in Seq(S) /\ Len(whole) = Len(list) + Len(one)
      /\ \A k \in 1 .. Len(list) : whole[k] = list[k]
      /\ \A k \in 1 .. Len(one) : whole[Len(list) + k] = one[k]
  BY Appended
<1> HIDE DEF one, whole
<1>3. list \o one = whole BY <1>1, <1>2, Glued
<1> QED BY <1>3 DEF one, whole

=============================================================================

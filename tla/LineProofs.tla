------------------------------ MODULE LineProofs ------------------------------
(***************************************************************************)
(* Theorems about the damaged line, for every set of frames, every buffer, *)
(* noise, amount of damage and size of read: only frames that were sent    *)
(* arrive, and damage takes no more than its neighbourhood along.          *)
(*                                                                         *)
(* The argument follows every unit on its way.  What has not been parsed   *)
(* yet is one wire, the buffer and then the line.  A checksum on it stands *)
(* somewhere in the stream of what was sent, further on than all that have *)
(* arrived; and where the wire is past the damage it is the stream.        *)
(***************************************************************************)
EXTENDS LineProperties, QueueLemmas, FiniteSetTheorems, WellFoundedInduction

-----------------------------------------------------------------------------
(* Sets of numbers, and of two numbers.                                      *)
LEMMA Least ==
  ASSUME NEW bound \in Nat, NEW D, D \subseteq 1 .. bound, D # {}
  PROVE  \E n \in D : \A m \in D : n <= m
<1> DEFINE S == 1 .. bound
           UpTo(n) == {k \in D : k <= n}
           T == {UpTo(n) : n \in D}
<1>1. IsFiniteSet(S) BY FS_Interval
<1>2. IsWellFoundedOn(StrictSubsetOrdering(S), SUBSET S)
  BY <1>1, FS_StrictSubsetOrderingWellFounded, FS_FiniteSubsetsOfFinite
<1>3. T \subseteq SUBSET S /\ T # {} OBVIOUS
<1>4. PICK X \in T : \A Y \in T : <<Y, X>> \notin StrictSubsetOrdering(S)
  <2> HIDE DEF S, T
  <2> QED BY <1>2, <1>3, WFMin
<1>5. PICK n \in D : X = UpTo(n) BY <1>4
<1>6. ASSUME NEW m \in D, ~(n <= m) PROVE FALSE
  <2>1. m \in Nat /\ n \in Nat /\ m < n BY <1>6
  <2>2. \A k \in D : k <= m => k <= n BY <2>1
  <2>3. n \in UpTo(n) /\ n \notin UpTo(m) BY <2>1
  <2>4. <<UpTo(m), X>> \in StrictSubsetOrdering(S)
    <3>1. UpTo(m) \subseteq UpTo(n) BY <2>2
    <3>2. UpTo(m) \in SUBSET S /\ UpTo(n) \in SUBSET S OBVIOUS
    <3> HIDE DEF UpTo, S
    <3> QED BY <1>5, <2>3, <3>1, <3>2 DEF StrictSubsetOrdering
  <2> QED BY <1>4, <2>4
<1> QED BY <1>6

LEMMA MinIsLeast ==
  ASSUME NEW bound \in Nat, NEW D, D \subseteq 1 .. bound, D # {}
  PROVE  Min(D) \in D /\ \A m \in D : Min(D) <= m
<1>1. \E n \in D : \A m \in D : n <= m BY Least
<1> QED BY <1>1 DEF Min

LEMMA MaxOfTwo ==
  ASSUME NEW a \in Int, NEW b \in Int
  PROVE  Max({a, b}) = IF a >= b THEN a ELSE b
<1>1. \E x \in {a, b} : \A y \in {a, b} : x >= y OBVIOUS
<1>2. Max({a, b}) \in {a, b} /\ \A y \in {a, b} : Max({a, b}) >= y BY <1>1 DEF Max
<1> QED BY <1>2

-----------------------------------------------------------------------------
(* Units and frames.                                                         *)
Checksums == {"crc"} \X Seq(Bytes)
Units == Bytes \cup Checksums

LEMMA UnitKinds ==
  /\ \A unit \in Bytes : unit[1] = "byte" /\ unit[2] \in Nat /\ unit \notin Checksums
  /\ \A unit \in Checksums : unit[1] = "crc" /\ unit[2] \in Seq(Bytes)
  /\ \A value \in Nat : Byte(value) \in Bytes
  /\ \A units \in Seq(Bytes) : Checksum(units) \in Checksums
  /\ \A a, b : Checksum(a) = Checksum(b) => a = b
  /\ Byte(MAGIC) \in Bytes
  BY CodecAssumption DEF Bytes, Checksums, Byte, Checksum

LEMMA LengthFieldType ==
  ASSUME NEW units \in Seq(Units), Len(units) >= HeaderSize
  PROVE  /\ LengthField(units) \in Nat
         /\ FrameSize(LengthField(units)) \in Nat
         /\ FrameSize(LengthField(units)) > HeaderSize
<1>1. units[3] \in Units BY DEF HeaderSize
<1>2. LengthField(units) \in Nat
  BY <1>1, UnitKinds, CodecAssumption DEF LengthField, HeaderSize, Units
<1> QED BY <1>2 DEF FrameSize, HeaderSize

(* What is known of a frame that was sent.                                   *)
LEMMA FrameFacts ==
  ASSUME NEW frame \in Frames
  PROVE  /\ frame \in Seq(Units)
         /\ Len(frame) \in Nat /\ Len(frame) > HeaderSize
         /\ Len(frame) <= MaxFrame /\ Len(frame) <= FrameSize(MaxPayload)
         /\ IsMagic(frame[1])
         /\ \A k \in 1 .. Len(frame) - 1 : frame[k] \in Bytes
         /\ Body(frame) \in Seq(Bytes)
         /\ frame[Len(frame)] = Checksum(Body(frame))
         /\ LengthField(frame) \in Nat /\ LengthField(frame) <= MaxPayload
         /\ Len(frame) = FrameSize(LengthField(frame))
         /\ Known(frame)
<1> DEFINE payload == SubSeq(frame, HeaderSize + 1, Len(frame) - 1)
<1>1. payload \in Seq(Bytes) /\ \E type \in DOMAIN PayloadLength :
        Len(payload) = PayloadLength[type] /\ frame = EncodeFrame(type, payload)
  BY LineAssumption DEF IsEncoded
<1> HIDE DEF payload
<1>2. PICK type \in DOMAIN PayloadLength :
        Len(payload) = PayloadLength[type] /\ frame = EncodeFrame(type, payload)
  BY <1>1
<1> DEFINE header == <<Byte(MAGIC), Byte(type), Byte(Len(payload))>>
           body == header \o payload
<1>3. /\ type \in Nat /\ Len(payload) \in Nat /\ MaxPayload \in Nat /\ MaxFrame \in Nat
      /\ Len(payload) <= MaxPayload /\ FrameSize(Len(payload)) <= MaxFrame
  BY <1>1, <1>2, CodecAssumption, LineAssumption
<1>4. /\ header \in Seq(Bytes) /\ Len(header) = 3
      /\ header[1] = Byte(MAGIC) /\ header[2] = Byte(type) /\ header[3] = Byte(Len(payload))
  <2>1. Byte(MAGIC) \in Bytes /\ Byte(type) \in Bytes /\ Byte(Len(payload)) \in Bytes
    BY <1>3, UnitKinds
  <2> QED BY <2>1
<1> HIDE DEF header
<1>5. /\ body \in Seq(Bytes) /\ Len(body) = 3 + Len(payload)
      /\ body[1] = Byte(MAGIC) /\ body[2] = Byte(type) /\ body[3] = Byte(Len(payload))
  <2>1. /\ body \in Seq(Bytes) /\ Len(body) = Len(header) + Len(payload)
        /\ \A k \in 1 .. Len(header) : body[k] = header[k]
    BY <1>1, <1>4, GluedParts
  <2>2. 1 \in 1 .. Len(header) /\ 2 \in 1 .. Len(header) /\ 3 \in 1 .. Len(header)
    BY <1>4
  <2> HIDE DEF body
  <2> QED BY <1>4, <2>1, <2>2
<1>6. frame = Append(body, Checksum(body)) BY <1>2 DEF EncodeFrame, header
<1> HIDE DEF body
<1>7. Checksum(body) \in Units /\ body \in Seq(Units)
  <2>1. Bytes \subseteq Units BY DEF Units
  <2> QED BY <1>5, <2>1, UnitKinds, WiderSeq DEF Units
<1>8. /\ frame \in Seq(Units) /\ Len(frame) = Len(body) + 1
      /\ frame[Len(frame)] = Checksum(body)
      /\ \A k \in 1 .. Len(body) : frame[k] = body[k]
  BY <1>6, <1>7
<1>9. Body(frame) = body
  <2> DEFINE cut == SubSeq(frame, 1, Len(frame) - 1)
  <2>1. /\ cut \in Seq(Units) /\ Len(cut) = Len(body)
        /\ \A k \in 1 .. Len(body) : cut[k] = frame[k]
    BY <1>5, <1>8
  <2> HIDE DEF cut
  <2>2. cut = body BY <1>7, <1>8, <2>1
  <2> QED BY <2>2 DEF Body, Front, cut
<1>10. LengthField(frame) = Len(payload)
  <2>1. frame[3] = Byte(Len(payload)) BY <1>3, <1>5, <1>8
  <2> QED BY <2>1 DEF LengthField, HeaderSize, Byte
<1>11. Known(frame)
  <2>1. frame[2] = Byte(type) BY <1>3, <1>5, <1>8
  <2> QED BY <1>2, <1>10, <2>1 DEF Known
<1>12. Len(frame) = FrameSize(Len(payload)) BY <1>3, <1>5, <1>8 DEF FrameSize, HeaderSize
<1>13. FrameSize(Len(payload)) <= FrameSize(MaxPayload) /\ FrameSize(Len(payload)) > HeaderSize
       /\ FrameSize(Len(payload)) \in Nat
  BY <1>3 DEF FrameSize, HeaderSize
<1>14. IsMagic(frame[1]) BY <1>3, <1>5, <1>8 DEF IsMagic
<1>15. \A k \in 1 .. Len(frame) - 1 : frame[k] \in Bytes BY <1>3, <1>5, <1>8
<1> QED BY <1>3, <1>5, <1>8, <1>9, <1>10, <1>11, <1>12, <1>13, <1>14, <1>15

-----------------------------------------------------------------------------
(* Where the checksums come from.  before units of the stream all have left  *)
(* the wire; whole is where the damage ends; where[i] is the place in all of *)
(* a checksum wire[i], and past[i] that of the checksum got[i] came with.    *)
Aligned(wire, before, all, whole) ==
  /\ wire \in Seq(Units) /\ all \in Seq(Units)
  /\ before \in Int /\ whole \in 0 .. Len(all)
  /\ Len(all) = before + Len(wire)

Tracks(wire, before, all, whole, got, where, past) ==
  /\ \A i \in 1 .. Len(wire) :
       IF before + i > whole THEN wire[i] = all[before + i] /\ where[i] = before + i
                             ELSE where[i] <= whole
  /\ \A i \in 1 .. Len(wire) : wire[i] \in Checksums =>
       where[i] \in 1 .. Len(all) /\ all[where[i]] = wire[i]
  /\ \A i, j \in 1 .. Len(wire) :
       i < j /\ wire[i] \in Checksums /\ wire[j] \in Checksums => where[i] < where[j]
  /\ \A i \in 1 .. Len(got) :
       /\ past[i] \in 1 .. Len(all) /\ all[past[i]] = Checksum(got[i])
       /\ past[i] <= before \/ past[i] <= whole
  /\ \A i, j \in 1 .. Len(got) : i < j => past[i] < past[j]
  /\ \A i \in 1 .. Len(got), j \in 1 .. Len(wire) :
       wire[j] \in Checksums => past[i] < where[j]

(* rest is what k units leave of a wire; longer is a wire and a frame, or got *)
(* and one more.                                                             *)
Behind(rest, wire, k) ==
  /\ rest \in Seq(Units) /\ k \in 0 .. Len(wire) /\ Len(rest) = Len(wire) - k
  /\ \A i \in 1 .. Len(rest) : rest[i] = wire[i + k]

Joined(longer, wire, frame) ==
  /\ longer \in Seq(Units) /\ Len(longer) = Len(wire) + Len(frame)
  /\ \A i \in 1 .. Len(wire) : longer[i] = wire[i]
  /\ \A i \in 1 .. Len(frame) : longer[Len(wire) + i] = frame[i]

Longer(longer, got, body) ==
  /\ Len(got) \in Nat /\ Len(longer) = Len(got) + 1 /\ longer[Len(got) + 1] = body
  /\ \A i \in 1 .. Len(got) : longer[i] = got[i]

LEMMA GluedIsJoined ==
  ASSUME NEW wire \in Seq(Units), NEW frame \in Seq(Units)
  PROVE  Joined(wire \o frame, wire, frame)
  BY GluedParts DEF Joined

LEMMA Split ==
  /\ \A n \in Nat : \A i \in 1 .. n + 1 : i = n + 1 \/ i \in 1 .. n
  /\ \A m, n \in Nat : \A i \in 1 .. n : i \in 1 .. m \/ i \in m + 1 .. n
  OBVIOUS

(* Units leave the wire at its front, ...                                    *)
LEMMA TracksDrop ==
  ASSUME NEW wire, NEW before, NEW all, NEW whole, Aligned(wire, before, all, whole),
         NEW got, Len(got) \in Nat,
         NEW where \in [1 .. Len(wire) -> Nat], NEW past,
         Tracks(wire, before, all, whole, got, where, past),
         NEW k, NEW rest, Behind(rest, wire, k)
  PROVE  /\ Aligned(rest, before + k, all, whole)
         /\ \E there \in [1 .. Len(rest) -> Nat] :
              Tracks(rest, before + k, all, whole, got, there, past)
<1>1. /\ rest \in Seq(Units) /\ Len(rest) = Len(wire) - k
      /\ Len(wire) \in Nat /\ Len(rest) \in Nat /\ Len(all) \in Nat
      /\ before \in Int /\ whole \in Nat /\ k \in Nat /\ k >= 0
      /\ Len(all) = before + Len(wire)
  BY DEF Aligned, Behind
<1>2. Aligned(rest, before + k, all, whole) BY <1>1 DEF Aligned
<1> DEFINE there == [i \in 1 .. Len(rest) |-> where[i + k]]
<1>3. \A i \in 1 .. Len(rest) : i + k \in 1 .. Len(wire) BY <1>1
<1>4. there \in [1 .. Len(rest) -> Nat] BY <1>3
<1>5. \A i \in 1 .. Len(rest) : there[i] = where[i + k] /\ rest[i] = wire[i + k]
  BY DEF Behind
<1> HIDE DEF there
<1>6. \A i \in 1 .. Len(rest) :
        IF (before + k) + i > whole
          THEN rest[i] = all[(before + k) + i] /\ there[i] = (before + k) + i
          ELSE there[i] <= whole
  <2> SUFFICES ASSUME NEW i \in 1 .. Len(rest)
               PROVE  IF (before + k) + i > whole
                        THEN rest[i] = all[(before + k) + i] /\ there[i] = (before + k) + i
                        ELSE there[i] <= whole
    OBVIOUS
  <2>1. (before + k) + i = before + (i + k) BY <1>1
  <2> QED BY <1>3, <1>5, <2>1 DEF Tracks
<1>7. \A i \in 1 .. Len(rest) : rest[i] \in Checksums =>
        there[i] \in 1 .. Len(all) /\ all[there[i]] = rest[i]
  BY <1>3, <1>5 DEF Tracks
<1>8. \A i, j \in 1 .. Len(rest) :
        i < j /\ rest[i] \in Checksums /\ rest[j] \in Checksums => there[i] < there[j]
  <2> SUFFICES ASSUME NEW i \in 1 .. Len(rest), NEW j \in 1 .. Len(rest), i < j,
                      rest[i] \in Checksums, rest[j] \in Checksums
               PROVE  there[i] < there[j]
    OBVIOUS
  <2>1. i + k < j + k BY <1>1
  <2> QED BY <1>3, <1>5, <2>1 DEF Tracks
<1>9. \A i \in 1 .. Len(got) :
        /\ past[i] \in 1 .. Len(all) /\ all[past[i]] = Checksum(got[i])
        /\ past[i] <= before + k \/ past[i] <= whole
  <2> SUFFICES ASSUME NEW i \in 1 .. Len(got)
               PROVE  /\ past[i] \in 1 .. Len(all) /\ all[past[i]] = Checksum(got[i])
                      /\ past[i] <= before + k \/ past[i] <= whole
    OBVIOUS
  <2>1. /\ past[i] \in 1 .. Len(all) /\ all[past[i]] = Checksum(got[i])
        /\ past[i] <= before \/ past[i] <= whole
    BY DEF Tracks
  <2> QED BY <1>1, <2>1
<1>10. \A i \in 1 .. Len(got), j \in 1 .. Len(rest) :
         rest[j] \in Checksums => past[i] < there[j]
  BY <1>3, <1>5 DEF Tracks
<1>11. \A i, j \in 1 .. Len(got) : i < j => past[i] < past[j] BY DEF Tracks
<1>12. Tracks(rest, before + k, all, whole, got, there, past)
  BY <1>6, <1>7, <1>8, <1>9, <1>10, <1>11 DEF Tracks
<1> QED BY <1>2, <1>4, <1>12

(* ... the last of them the checksum of what is handed on; ...               *)
HandedOn(rest, before, all, whole, more, got, past, place) ==
  \E there \in [1 .. Len(rest) -> Nat], passed \in [1 .. Len(got) + 1 -> Nat] :
    /\ Tracks(rest, before, all, whole, more, there, passed)
    /\ \A i \in 1 .. Len(got) : passed[i] = past[i]
    /\ passed[Len(got) + 1] = place

LEMMA TracksDeliver ==
  ASSUME NEW wire, NEW before, NEW all, NEW whole, Aligned(wire, before, all, whole),
         NEW got, NEW body, NEW more, Longer(more, got, body),
         NEW where \in [1 .. Len(wire) -> Nat], NEW past \in [1 .. Len(got) -> Nat],
         Tracks(wire, before, all, whole, got, where, past),
         NEW k \in 1 .. Len(wire), wire[k] \in Checksums, wire[k] = Checksum(body),
         NEW rest, Behind(rest, wire, k)
  PROVE  HandedOn(rest, before + k, all, whole, more, got, past, where[k])
<1>1. /\ rest \in Seq(Units) /\ Len(rest) = Len(wire) - k /\ Len(more) = Len(got) + 1
      /\ Len(wire) \in Nat /\ Len(rest) \in Nat /\ Len(all) \in Nat /\ Len(got) \in Nat
      /\ before \in Int /\ whole \in Nat /\ k \in Nat /\ k >= 1
      /\ Len(all) = before + Len(wire) /\ k \in 0 .. Len(wire)
  BY DEF Aligned, Behind, Longer
<1>2. more[Len(got) + 1] = body /\ \A i \in 1 .. Len(got) : more[i] = got[i]
  BY DEF Longer
<1> DEFINE there == [i \in 1 .. Len(rest) |-> where[i + k]]
           passed == [i \in 1 .. Len(got) + 1 |-> IF i = Len(got) + 1 THEN where[k] ELSE past[i]]
<1>3. \A i \in 1 .. Len(rest) : i + k \in 1 .. Len(wire) /\ k < i + k BY <1>1
<1>4. there \in [1 .. Len(rest) -> Nat] BY <1>3
<1>5. \A i \in 1 .. Len(rest) : there[i] = where[i + k] /\ rest[i] = wire[i + k]
  BY DEF Behind
<1>6. passed \in [1 .. Len(got) + 1 -> Nat]
  <2>1. \A i \in 1 .. Len(got) + 1 : i # Len(got) + 1 => i \in 1 .. Len(got)
    BY <1>1, Split, Zenon
  <2>2. where[k] \in Nat /\ \A i \in 1 .. Len(got) : past[i] \in Nat OBVIOUS
  <2> QED BY <2>1, <2>2
<1>7. /\ passed[Len(got) + 1] = where[k]
      /\ \A i \in 1 .. Len(got) : passed[i] = past[i] /\ i # Len(got) + 1
  BY <1>1
<1> HIDE DEF there, passed
<1>8. \A i \in 1 .. Len(got) + 1 : i = Len(got) + 1 \/ i \in 1 .. Len(got) BY <1>1
<1>9. /\ where[k] \in 1 .. Len(all) /\ all[where[k]] = Checksum(body)
      /\ where[k] <= before + k \/ where[k] <= whole
  <2>1. where[k] \in 1 .. Len(all) /\ all[where[k]] = wire[k] BY DEF Tracks
  <2>2. where[k] = before + k \/ where[k] <= whole BY DEF Tracks
  <2> QED BY <1>1, <2>1, <2>2
<1>10. \A i \in 1 .. Len(rest) :
        IF (before + k) + i > whole
          THEN rest[i] = all[(before + k) + i] /\ there[i] = (before + k) + i
          ELSE there[i] <= whole
  <2> SUFFICES ASSUME NEW i \in 1 .. Len(rest)
               PROVE  IF (before + k) + i > whole
                        THEN rest[i] = all[(before + k) + i] /\ there[i] = (before + k) + i
                        ELSE there[i] <= whole
    OBVIOUS
  <2>1. (before + k) + i = before + (i + k) BY <1>1
  <2> QED BY <1>3, <1>5, <2>1 DEF Tracks
<1>11. \A i \in 1 .. Len(rest) : rest[i] \in Checksums =>
        there[i] \in 1 .. Len(all) /\ all[there[i]] = rest[i]
  <2>1. \A i \in 1 .. Len(wire) : wire[i] \in Checksums =>
          where[i] \in 1 .. Len(all) /\ all[where[i]] = wire[i]
    BY DEF Tracks
  <2> QED BY <1>3, <1>5, <2>1
<1>12. \A i, j \in 1 .. Len(rest) :
        i < j /\ rest[i] \in Checksums /\ rest[j] \in Checksums => there[i] < there[j]
  <2> SUFFICES ASSUME NEW i \in 1 .. Len(rest), NEW j \in 1 .. Len(rest), i < j,
                      rest[i] \in Checksums, rest[j] \in Checksums
               PROVE  there[i] < there[j]
    OBVIOUS
  <2>1. i + k < j + k BY <1>1
  <2> QED BY <1>3, <1>5, <2>1 DEF Tracks
<1>13. \A i \in 1 .. Len(got) + 1 :
        /\ passed[i] \in 1 .. Len(all) /\ all[passed[i]] = Checksum(more[i])
        /\ passed[i] <= before + k \/ passed[i] <= whole
  <2>1. ASSUME NEW i \in 1 .. Len(got)
        PROVE  /\ passed[i] \in 1 .. Len(all) /\ all[passed[i]] = Checksum(more[i])
               /\ passed[i] <= before + k \/ passed[i] <= whole
    <3>1. /\ past[i] \in 1 .. Len(all) /\ all[past[i]] = Checksum(got[i])
          /\ past[i] <= before \/ past[i] <= whole
      BY DEF Tracks
    <3>2. passed[i] = past[i] /\ more[i] = got[i] BY <1>2, <1>7
    <3> QED BY <1>1, <3>1, <3>2
  <2>2. /\ passed[Len(got) + 1] \in 1 .. Len(all)
        /\ all[passed[Len(got) + 1]] = Checksum(more[Len(got) + 1])
        /\ passed[Len(got) + 1] <= before + k \/ passed[Len(got) + 1] <= whole
    <3>1. PICK last : last = Len(got) + 1 OBVIOUS
    <3>2. passed[last] = where[k] /\ more[last] = body BY <1>2, <1>7, <3>1
    <3>3. /\ passed[last] \in 1 .. Len(all) /\ all[passed[last]] = Checksum(more[last])
          /\ passed[last] <= before + k \/ passed[last] <= whole
      BY <1>9, <3>2
    <3> QED BY <3>1, <3>3
  <2> QED BY <1>8, <2>1, <2>2, Zenon
<1>14. \A i, j \in 1 .. Len(got) + 1 : i < j => passed[i] < passed[j]
  <2> SUFFICES ASSUME NEW i \in 1 .. Len(got) + 1, NEW j \in 1 .. Len(got) + 1, i < j
               PROVE  passed[i] < passed[j]
    OBVIOUS
  <2>1. i \in 1 .. Len(got) BY <1>1
  <2>2. CASE j \in 1 .. Len(got) BY <1>7, <2>1, <2>2 DEF Tracks
  <2>3. CASE j = Len(got) + 1
    <3>1. past[i] < where[k] BY <2>1 DEF Tracks
    <3> QED BY <1>7, <2>1, <2>3, <3>1
  <2> QED BY <1>8, <2>2, <2>3
<1>15. \A i \in 1 .. Len(got) + 1, j \in 1 .. Len(rest) :
         rest[j] \in Checksums => passed[i] < there[j]
  <2> SUFFICES ASSUME NEW i \in 1 .. Len(got) + 1, NEW j \in 1 .. Len(rest),
                      rest[j] \in Checksums
               PROVE  passed[i] < there[j]
    OBVIOUS
  <2>1. CASE i \in 1 .. Len(got) BY <1>3, <1>5, <1>7, <2>1 DEF Tracks
  <2>2. CASE i = Len(got) + 1
    <3>1. where[k] < where[j + k] BY <1>3, <1>5 DEF Tracks
    <3> QED BY <1>5, <1>7, <2>2, <3>1
  <2> QED BY <1>8, <2>1, <2>2
<1>16. Tracks(rest, before + k, all, whole, more, there, passed)
  <2>1. Len(more) = Len(got) + 1 BY <1>1
  <2> QED BY <2>1, <1>10, <1>11, <1>12, <1>13, <1>14, <1>15 DEF Tracks
<1> QED BY <1>4, <1>6, <1>7, <1>16 DEF HandedOn

(* ... a frame comes to stand at its end; ...                                *)
LEMMA TracksSend ==
  ASSUME NEW wire, NEW before, NEW all, NEW whole, Aligned(wire, before, all, whole),
         NEW got, Len(got) \in Nat,
         NEW where \in [1 .. Len(wire) -> Nat], NEW past,
         Tracks(wire, before, all, whole, got, where, past),
         NEW frame \in Seq(Units),
         NEW longer, Joined(longer, wire, frame), NEW more, Joined(more, all, frame)
  PROVE  /\ Aligned(longer, before, more, whole)
         /\ \E there \in [1 .. Len(longer) -> Nat] :
              Tracks(longer, before, more, whole, got, there, past)
<1> USE DEF Joined
<1>1. /\ Len(wire) \in Nat /\ Len(longer) \in Nat /\ Len(all) \in Nat /\ Len(more) \in Nat
      /\ before \in Int /\ whole \in Nat /\ whole <= Len(all) /\ Len(frame) \in Nat
      /\ Len(all) = before + Len(wire)
      /\ Len(longer) = Len(wire) + Len(frame) /\ Len(more) = Len(all) + Len(frame)
  BY DEF Aligned
<1>2. Aligned(longer, before, more, whole) BY <1>1 DEF Aligned
<1> DEFINE there == [i \in 1 .. Len(longer) |-> IF i <= Len(wire) THEN where[i] ELSE before + i]
<1>3. there \in [1 .. Len(longer) -> Nat] BY <1>1
<1>4. /\ \A i \in 1 .. Len(wire) :
           i \in 1 .. Len(longer) /\ there[i] = where[i] /\ longer[i] = wire[i]
      /\ \A i \in Len(wire) + 1 .. Len(longer) :
           /\ there[i] = before + i /\ before + i \in Len(all) + 1 .. Len(more)
           /\ longer[i] = more[before + i]
      /\ \A i \in 1 .. Len(longer) : i \in 1 .. Len(wire) \/ i \in Len(wire) + 1 .. Len(longer)
  <2>1. ASSUME NEW i \in 1 .. Len(wire)
        PROVE  i \in 1 .. Len(longer) /\ there[i] = where[i] /\ longer[i] = wire[i]
    BY <1>1
  <2>2. ASSUME NEW i \in Len(wire) + 1 .. Len(longer)
        PROVE  /\ there[i] = before + i /\ before + i \in Len(all) + 1 .. Len(more)
               /\ longer[i] = more[before + i]
    <3>1. /\ i - Len(wire) \in 1 .. Len(frame) /\ Len(wire) + (i - Len(wire)) = i
          /\ Len(all) + (i - Len(wire)) = before + i
      BY <1>1
    <3>2. longer[i] = frame[i - Len(wire)] BY <3>1
    <3>3. more[before + i] = frame[i - Len(wire)] BY <3>1
    <3> QED BY <1>1, <3>1, <3>2, <3>3
  <2>3. \A i \in 1 .. Len(longer) : i \in 1 .. Len(wire) \/ i \in Len(wire) + 1 .. Len(longer)
    BY <1>1, Split, Zenon
  <2> HIDE DEF there
  <2> QED BY <2>1, <2>2, <2>3, Zenon
<1>5. /\ \A i \in 1 .. Len(wire) : where[i] \in Nat
      /\ \A i \in 1 .. Len(all) : more[i] = all[i]
  OBVIOUS
<1> HIDE DEF there, Joined
<1>6. \A i \in 1 .. Len(longer) :
        IF before + i > whole THEN longer[i] = more[before + i] /\ there[i] = before + i
                              ELSE there[i] <= whole
  <2> SUFFICES ASSUME NEW i \in 1 .. Len(longer)
               PROVE  IF before + i > whole
                        THEN longer[i] = more[before + i] /\ there[i] = before + i
                        ELSE there[i] <= whole
    OBVIOUS
  <2>1. CASE i \in 1 .. Len(wire)
    <3>1. before + i > whole => before + i \in 1 .. Len(all) BY <1>1, <2>1
    <3>2. IF before + i > whole THEN wire[i] = all[before + i] /\ where[i] = before + i
                                ELSE where[i] <= whole
      BY <2>1 DEF Tracks
    <3>3. there[i] = where[i] /\ longer[i] = wire[i] BY <1>4, <2>1
    <3>4. before + i > whole => more[before + i] = all[before + i] BY <1>5, <3>1
    <3> QED BY <3>2, <3>3, <3>4
  <2>2. CASE i \in Len(wire) + 1 .. Len(longer) BY <1>1, <1>4, <2>2
  <2> QED BY <1>4, <2>1, <2>2
<1>7. \A i \in 1 .. Len(longer) : longer[i] \in Checksums =>
        there[i] \in 1 .. Len(more) /\ more[there[i]] = longer[i]
  <2> SUFFICES ASSUME NEW i \in 1 .. Len(longer), longer[i] \in Checksums
               PROVE  there[i] \in 1 .. Len(more) /\ more[there[i]] = longer[i]
    OBVIOUS
  <2>1. CASE i \in 1 .. Len(wire)
    <3>1. longer[i] = wire[i] /\ there[i] = where[i] BY <1>1, <1>4, <2>1
    <3>2. where[i] \in 1 .. Len(all) /\ all[where[i]] = wire[i] BY <2>1, <3>1 DEF Tracks
    <3> QED BY <1>1, <1>5, <3>1, <3>2
  <2>2. CASE i \in Len(wire) + 1 .. Len(longer) BY <1>1, <1>4, <2>2
  <2> QED BY <1>4, <2>1, <2>2
<1>8. \A i \in 1 .. Len(wire) : wire[i] \in Checksums => where[i] <= Len(all)
  BY <1>1 DEF Tracks
<1>9. \A i, j \in 1 .. Len(longer) :
        i < j /\ longer[i] \in Checksums /\ longer[j] \in Checksums => there[i] < there[j]
  <2> SUFFICES ASSUME NEW i \in 1 .. Len(longer), NEW j \in 1 .. Len(longer), i < j,
                      longer[i] \in Checksums, longer[j] \in Checksums
               PROVE  there[i] < there[j]
    OBVIOUS
  <2>1. CASE j \in 1 .. Len(wire)
    <3>1. i \in 1 .. Len(wire) BY <1>1, <2>1
    <3>2. wire[i] \in Checksums /\ wire[j] \in Checksums BY <1>4, <2>1, <3>1
    <3>3. where[i] < where[j] BY <2>1, <3>1, <3>2 DEF Tracks
    <3> QED BY <1>4, <2>1, <3>1, <3>3
  <2>2. CASE j \in Len(wire) + 1 .. Len(longer) /\ i \in 1 .. Len(wire)
    <3>1. there[i] = where[i] /\ wire[i] \in Checksums BY <1>1, <1>4, <2>2
    <3>2. there[j] = before + j /\ before + j >= Len(all) + 1 BY <1>1, <1>4, <2>2
    <3>3. where[i] <= Len(all) /\ where[i] \in Nat BY <1>8, <2>2, <3>1
    <3> QED BY <1>1, <3>1, <3>2, <3>3
  <2>3. CASE i \in Len(wire) + 1 .. Len(longer) /\ j \in Len(wire) + 1 .. Len(longer)
    BY <1>1, <1>4, <2>3
  <2>4. i \in Len(wire) + 1 .. Len(longer) => j \in Len(wire) + 1 .. Len(longer) BY <1>1
  <2> QED BY <1>4, <2>1, <2>2, <2>3, <2>4
<1>10. \A i \in 1 .. Len(got) :
        /\ past[i] \in 1 .. Len(more) /\ more[past[i]] = Checksum(got[i])
        /\ past[i] <= before \/ past[i] <= whole
        /\ past[i] \in 1 .. Len(all)
  <2> SUFFICES ASSUME NEW i \in 1 .. Len(got)
               PROVE  /\ past[i] \in 1 .. Len(more) /\ more[past[i]] = Checksum(got[i])
                      /\ past[i] <= before \/ past[i] <= whole
                      /\ past[i] \in 1 .. Len(all)
    OBVIOUS
  <2>1. /\ past[i] \in 1 .. Len(all) /\ all[past[i]] = Checksum(got[i])
        /\ past[i] <= before \/ past[i] <= whole
    BY DEF Tracks
  <2> QED BY <1>1, <1>5, <2>1
<1>11. \A i, j \in 1 .. Len(got) : i < j => past[i] < past[j] BY DEF Tracks
<1>12. \A i \in 1 .. Len(got), j \in 1 .. Len(longer) :
         longer[j] \in Checksums => past[i] < there[j]
  <2> SUFFICES ASSUME NEW i \in 1 .. Len(got), NEW j \in 1 .. Len(longer),
                      longer[j] \in Checksums
               PROVE  past[i] < there[j]
    OBVIOUS
  <2>1. CASE j \in 1 .. Len(wire)
    <3>1. wire[j] \in Checksums /\ there[j] = where[j] BY <1>4, <2>1
    <3>2. past[i] < where[j] BY <2>1, <3>1 DEF Tracks
    <3> QED BY <3>1, <3>2
  <2>2. CASE j \in Len(wire) + 1 .. Len(longer)
    <3>1. there[j] = before + j /\ before + j >= Len(all) + 1 BY <1>1, <1>4, <2>2
    <3>2. past[i] \in Nat /\ past[i] <= Len(all) BY <1>1, <1>10
    <3>3. before + j \in Int BY <1>1
    <3> QED BY <1>1, <3>1, <3>2, <3>3
  <2> QED BY <1>4, <2>1, <2>2
<1>13. Tracks(longer, before, more, whole, got, there, past)
  BY <1>6, <1>7, <1>9, <1>10, <1>11, <1>12 DEF Tracks
<1> QED BY <1>2, <1>3, <1>13

(* ... and damage at the start of the line, behind the held units of the     *)
(* buffer, shifts what follows and leaves a byte at most: no checksum.       *)
Damaged(now, wire, held, shift, before, whole) ==
  /\ now \in Seq(Units) /\ Len(now) = Len(wire) - shift /\ held \in 0 .. Len(wire)
  /\ \A i \in 1 .. Len(now) : i <= held => i \in 1 .. Len(wire) /\ now[i] = wire[i]
  /\ \A i \in 1 .. Len(now) : i > held =>
       \/ i + shift > held /\ i + shift \in 1 .. Len(wire) /\ now[i] = wire[i + shift]
       \/ (before + shift) + i <= whole /\ now[i] \in Bytes

LEMMA TracksDamage ==
  ASSUME NEW wire, NEW before, NEW all, NEW whole, Aligned(wire, before, all, whole),
         NEW got, Len(got) \in Nat,
         NEW where \in [1 .. Len(wire) -> Nat], NEW past,
         Tracks(wire, before, all, whole, got, where, past),
         NEW held, NEW shift \in {-1, 0, 1},
         NEW whole_now \in 0 .. Len(all), whole <= whole_now,
         before + held <= whole_now, (before + shift) + held <= whole_now,
         NEW now, Damaged(now, wire, held, shift, before, whole_now)
  PROVE  /\ Aligned(now, before + shift, all, whole_now)
         /\ \E there \in [1 .. Len(now) -> Nat] :
              Tracks(now, before + shift, all, whole_now, got, there, past)
<1> USE DEF Damaged
<1>1. /\ Len(wire) \in Nat /\ Len(now) \in Nat /\ Len(all) \in Nat
      /\ before \in Int /\ whole \in Nat /\ whole_now \in Nat
      /\ shift \in Int /\ held \in Nat
      /\ Len(all) = before + Len(wire)
  BY DEF Aligned
<1>2. Aligned(now, before + shift, all, whole_now) BY <1>1 DEF Aligned
<1> DEFINE Noise(i) == (before + shift) + i <= whole_now /\ now[i] \in Bytes
           there == [i \in 1 .. Len(now) |->
                       IF i <= held THEN where[i]
                       ELSE IF Noise(i) THEN 0 ELSE where[i + shift]]
<1>3. \A i \in 1 .. Len(now) :
        \/ i <= held /\ i \in 1 .. Len(wire) /\ now[i] = wire[i] /\ there[i] = where[i]
        \/ i > held /\ Noise(i) /\ there[i] = 0
        \/ /\ i > held /\ i + shift > held /\ i + shift \in 1 .. Len(wire)
           /\ now[i] = wire[i + shift] /\ there[i] = where[i + shift]
  <2> SUFFICES ASSUME NEW i \in 1 .. Len(now)
               PROVE  \/ /\ i <= held /\ i \in 1 .. Len(wire) /\ now[i] = wire[i]
                         /\ there[i] = where[i]
                      \/ i > held /\ Noise(i) /\ there[i] = 0
                      \/ /\ i > held /\ i + shift > held /\ i + shift \in 1 .. Len(wire)
                         /\ now[i] = wire[i + shift] /\ there[i] = where[i + shift]
    OBVIOUS
  <2>1. there[i] = IF i <= held THEN where[i] ELSE IF Noise(i) THEN 0 ELSE where[i + shift]
    OBVIOUS
  <2> HIDE DEF there
  <2>2. CASE i <= held BY <2>1, <2>2
  <2>3. CASE i > held /\ Noise(i) BY <1>1, <2>1, <2>3
  <2>4. CASE i > held /\ ~Noise(i) BY <1>1, <2>1, <2>4
  <2>5. i <= held \/ i > held BY <1>1
  <2> QED BY <2>2, <2>3, <2>4, <2>5
<1>4. there \in [1 .. Len(now) -> Nat]
  <2>1. \A i \in 1 .. Len(now) : there[i] \in Nat BY <1>3
  <2> QED BY <2>1
<1> HIDE DEF there
<1>5. \A i \in 1 .. Len(now) :
        IF (before + shift) + i > whole_now
          THEN now[i] = all[(before + shift) + i] /\ there[i] = (before + shift) + i
          ELSE there[i] <= whole_now
  <2> SUFFICES ASSUME NEW i \in 1 .. Len(now)
               PROVE  IF (before + shift) + i > whole_now
                        THEN /\ now[i] = all[(before + shift) + i]
                             /\ there[i] = (before + shift) + i
                        ELSE there[i] <= whole_now
    OBVIOUS
  <2>1. CASE i <= held /\ i \in 1 .. Len(wire) /\ there[i] = where[i]
    <3>1. where[i] = before + i \/ where[i] <= whole BY <2>1 DEF Tracks
    <3>2. where[i] \in Nat BY <2>1
    <3>3. before + i <= whole_now /\ (before + shift) + i <= whole_now
      <4>1. i \in Int /\ before \in Int /\ shift \in Int /\ held \in Int /\ whole_now \in Int
            /\ before + held <= whole_now /\ (before + shift) + held <= whole_now /\ i <= held
        BY <1>1, <2>1
      <4> QED BY <4>1
    <3>4. where[i] <= whole_now
      <4>1. where[i] \in Int /\ whole \in Int /\ whole_now \in Int /\ whole <= whole_now
            /\ before + i <= whole_now /\ before \in Int /\ i \in Int
        BY <1>1, <3>2, <3>3
      <4> QED BY <3>1, <4>1
    <3>5. ~((before + shift) + i > whole_now) BY <1>1, <3>3
    <3> QED BY <2>1, <3>4, <3>5
  <2>2. CASE Noise(i) /\ there[i] = 0 BY <1>1, <2>2
  <2>3. CASE /\ i + shift \in 1 .. Len(wire) /\ now[i] = wire[i + shift]
             /\ there[i] = where[i + shift]
    <3>1. IF before + (i + shift) > whole
            THEN /\ wire[i + shift] = all[before + (i + shift)]
                 /\ where[i + shift] = before + (i + shift)
            ELSE where[i + shift] <= whole
      BY <2>3 DEF Tracks
    <3>2. (before + shift) + i = before + (i + shift) BY <1>1
    <3>3. where[i + shift] \in Nat BY <2>3
    <3>4. CASE before + (i + shift) > whole
      <4>1. /\ now[i] = all[before + (i + shift)]
            /\ there[i] = before + (i + shift)
        BY <2>3, <3>1, <3>4
      <4> QED
        <5>1. /\ now[i] = all[(before + shift) + i]
              /\ there[i] = (before + shift) + i
          BY <4>1, <3>2, Zenon
        <5>2. (before + shift) + i \in Int BY <1>1
        <5> QED BY <1>1, <5>1, <5>2
    <3>5. CASE ~(before + (i + shift) > whole)
      <4>1. where[i + shift] <= whole_now BY <1>1, <3>1, <3>3, <3>5
      <4>2. ~((before + shift) + i > whole_now) BY <1>1, <3>2, <3>5
      <4> QED BY <2>3, <4>1, <4>2
    <3> QED BY <3>4, <3>5
  <2> QED BY <1>3, <2>1, <2>2, <2>3
<1>6. \A i \in 1 .. Len(now) : now[i] \in Checksums =>
        \/ i <= held /\ i \in 1 .. Len(wire) /\ now[i] = wire[i] /\ there[i] = where[i]
        \/ /\ i > held /\ i + shift > held /\ i + shift \in 1 .. Len(wire)
           /\ now[i] = wire[i + shift] /\ there[i] = where[i + shift]
  <2>1. \A i : Noise(i) => now[i] \notin Checksums
    <3>1. \A unit \in Bytes : unit \notin Checksums BY UnitKinds
    <3> QED BY <3>1
  <2> HIDE DEF Noise
  <2> QED BY <1>3, <2>1
<1> HIDE DEF Noise
<1>7. \A i \in 1 .. Len(now) : now[i] \in Checksums =>
        there[i] \in 1 .. Len(all) /\ all[there[i]] = now[i]
  <2>1. \A i \in 1 .. Len(wire) : wire[i] \in Checksums =>
          where[i] \in 1 .. Len(all) /\ all[where[i]] = wire[i]
    BY DEF Tracks
  <2> QED BY <1>6, <2>1
<1>8. \A i, j \in 1 .. Len(now) :
        i < j /\ now[i] \in Checksums /\ now[j] \in Checksums => there[i] < there[j]
  <2> SUFFICES ASSUME NEW i \in 1 .. Len(now), NEW j \in 1 .. Len(now), i < j,
                      now[i] \in Checksums, now[j] \in Checksums
               PROVE  there[i] < there[j]
    OBVIOUS
  <2>1. ASSUME NEW m \in 1 .. Len(wire), NEW n \in 1 .. Len(wire), m < n,
               now[i] = wire[m], now[j] = wire[n]
        PROVE  where[m] < where[n]
    <3>1. wire[m] \in Checksums /\ wire[n] \in Checksums BY <2>1
    <3> QED BY <2>1, <3>1 DEF Tracks
  <2>2. CASE i <= held /\ j <= held
    <3>1. i \in 1 .. Len(wire) /\ now[i] = wire[i] /\ there[i] = where[i]
      BY <1>1, <1>6, <2>2
    <3>2. j \in 1 .. Len(wire) /\ now[j] = wire[j] /\ there[j] = where[j]
      BY <1>1, <1>6, <2>2
    <3> QED BY <2>1, <3>1, <3>2
  <2>3. CASE i <= held /\ j > held
    <3>1. i \in 1 .. Len(wire) /\ now[i] = wire[i] /\ there[i] = where[i]
      BY <1>1, <1>6, <2>3
    <3>2. /\ j + shift > held /\ j + shift \in 1 .. Len(wire)
          /\ now[j] = wire[j + shift] /\ there[j] = where[j + shift]
      BY <1>1, <1>6, <2>3
    <3>3. i < j + shift BY <1>1, <2>3, <3>2
    <3> QED BY <2>1, <3>1, <3>2, <3>3
  <2>4. CASE i > held /\ j > held
    <3>1. /\ i + shift \in 1 .. Len(wire) /\ now[i] = wire[i + shift]
          /\ there[i] = where[i + shift]
      <4>1. ~(i <= held) BY <1>1, <2>4
      <4> QED BY <1>6, <4>1
    <3>2. /\ j + shift \in 1 .. Len(wire) /\ now[j] = wire[j + shift]
          /\ there[j] = where[j + shift]
      <4>1. ~(j <= held) BY <1>1, <2>4
      <4> QED BY <1>6, <4>1
    <3>3. i + shift < j + shift BY <1>1
    <3> HIDE DEF Noise
    <3> QED BY <2>1, <3>1, <3>2, <3>3
  <2>5. i > held => j > held BY <1>1
  <2>6. (i <= held \/ i > held) /\ (j <= held \/ j > held) BY <1>1
  <2> QED BY <2>2, <2>3, <2>4, <2>5, <2>6
<1>9. \A i \in 1 .. Len(got) :
        /\ past[i] \in 1 .. Len(all) /\ all[past[i]] = Checksum(got[i])
        /\ past[i] <= whole_now
  <2> SUFFICES ASSUME NEW i \in 1 .. Len(got)
               PROVE  /\ past[i] \in 1 .. Len(all) /\ all[past[i]] = Checksum(got[i])
                      /\ past[i] <= whole_now
    OBVIOUS
  <2>1. /\ past[i] \in 1 .. Len(all) /\ all[past[i]] = Checksum(got[i])
        /\ past[i] <= before \/ past[i] <= whole
    BY DEF Tracks
  <2> QED BY <1>1, <2>1
<1>10. \A i, j \in 1 .. Len(got) : i < j => past[i] < past[j] BY DEF Tracks
<1>11. \A i \in 1 .. Len(got), j \in 1 .. Len(now) :
         now[j] \in Checksums => past[i] < there[j]
  BY <1>6 DEF Tracks
<1>12. Tracks(now, before + shift, all, whole_now, got, there, past)
  BY <1>5, <1>7, <1>8, <1>9, <1>10, <1>11 DEF Tracks
<1> QED BY <1>2, <1>4, <1>12

-----------------------------------------------------------------------------
(* The stream is the frames sent, one after another and nothing else.        *)
Sendings == [frame : Frames, start : Nat]

Laid(list, all) ==
  /\ \A n \in 1 .. Len(list) :
       /\ list[n].start + Len(list[n].frame) <= Len(all)
       /\ \A k \in 1 .. Len(list[n].frame) : all[list[n].start + k] = list[n].frame[k]
  /\ \A m, n \in 1 .. Len(list) : m < n => list[m].start + Len(list[m].frame) <= list[n].start
  /\ \A p \in 1 .. Len(all) : \E n \in 1 .. Len(list) :
       list[n].start < p /\ p <= list[n].start + Len(list[n].frame)

LEMMA SendingFacts ==
  ASSUME NEW list \in Seq(Sendings), NEW n \in 1 .. Len(list)
  PROVE  /\ n \in Nat /\ list[n] \in Sendings
         /\ list[n].frame \in Frames /\ list[n].start \in Nat
         /\ Len(list[n].frame) \in Nat /\ Len(list[n].frame) > HeaderSize
<1>1. list[n] \in Sendings /\ n \in Nat OBVIOUS
<1>2. list[n].frame \in Frames /\ list[n].start \in Nat BY <1>1 DEF Sendings
<1> QED BY <1>1, <1>2, FrameFacts

LEMMA Inside ==
  /\ \A a, n, top \in Nat : a + n <= top => \A k \in 1 .. n : a + k \in 1 .. top
  /\ \A m, n \in Nat, l \in Nat : m <= n => m <= n + l
  OBVIOUS

LEMMA LaidSend ==
  ASSUME NEW list \in Seq(Sendings), NEW all \in Seq(Units), Laid(list, all),
         NEW frame \in Frames, NEW more, Joined(more, all, frame)
  PROVE  Laid(Append(list, [frame |-> frame, start |-> Len(all)]), more)
<1> USE DEF Joined
<1>1. PICK record : record = [frame |-> frame, start |-> Len(all)] OBVIOUS
<1>2. PICK longer : longer = Append(list, record) OBVIOUS
<1>3. /\ Len(all) \in Nat /\ Len(frame) \in Nat /\ Len(list) \in Nat
      /\ record \in Sendings /\ record.frame = frame /\ record.start = Len(all)
  BY <1>1, FrameFacts DEF Sendings
<1>4. /\ longer \in Seq(Sendings) /\ Len(longer) = Len(list) + 1
      /\ longer[Len(list) + 1] = record
      /\ \A n \in 1 .. Len(list) : longer[n] = list[n]
  BY <1>2, <1>3, Appended
<1>5. \A n \in 1 .. Len(list) + 1 : n \in 1 .. Len(list) \/ n = Len(list) + 1
  BY <1>3, Split, Zenon
<1>6. \A n \in 1 .. Len(list) :
        /\ list[n].start \in Nat /\ Len(list[n].frame) \in Nat
        /\ list[n].start + Len(list[n].frame) <= Len(all)
        /\ \A k \in 1 .. Len(list[n].frame) :
             list[n].start + k \in 1 .. Len(all) /\ all[list[n].start + k] = list[n].frame[k]
  <2> TAKE n \in 1 .. Len(list)
  <2>1. list[n].start \in Nat /\ Len(list[n].frame) \in Nat BY SendingFacts
  <2>2. /\ list[n].start + Len(list[n].frame) <= Len(all)
        /\ \A k \in 1 .. Len(list[n].frame) : all[list[n].start + k] = list[n].frame[k]
    BY DEF Laid
  <2>3. \A k \in 1 .. Len(list[n].frame) : list[n].start + k \in 1 .. Len(all)
    BY <1>3, <2>1, <2>2, Inside, Zenon
  <2> QED BY <2>1, <2>2, <2>3
<1>7. \A n \in 1 .. Len(list) + 1 :
        /\ longer[n].start + Len(longer[n].frame) <= Len(more)
        /\ \A k \in 1 .. Len(longer[n].frame) : more[longer[n].start + k] = longer[n].frame[k]
  <2> SUFFICES ASSUME NEW n \in 1 .. Len(list) + 1
               PROVE  /\ longer[n].start + Len(longer[n].frame) <= Len(more)
                      /\ \A k \in 1 .. Len(longer[n].frame) :
                           more[longer[n].start + k] = longer[n].frame[k]
    OBVIOUS
  <2>1. CASE n \in 1 .. Len(list)
    <3>1. longer[n] = list[n] BY <1>4, <2>1
    <3>2. PICK start, own : start = list[n].start /\ own = list[n].frame OBVIOUS
    <3>3. /\ start \in Nat /\ Len(own) \in Nat /\ start + Len(own) <= Len(all)
          /\ \A k \in 1 .. Len(own) :
               start + k \in 1 .. Len(all) /\ all[start + k] = own[k]
      BY <1>6, <2>1, <3>2
    <3>4. start + Len(own) <= Len(more) BY <1>3, <3>3
    <3>5. \A k \in 1 .. Len(own) : more[start + k] = own[k] BY <3>3
    <3> QED BY <3>1, <3>2, <3>4, <3>5
  <2>2. CASE n = Len(list) + 1
    <3>1. longer[n].start = Len(all) /\ longer[n].frame = frame BY <1>3, <1>4, <2>2
    <3>2. Len(all) + Len(frame) <= Len(more) BY <1>3
    <3> QED BY <3>1, <3>2
  <2> QED BY <1>5, <2>1, <2>2
<1>8. \A m, n \in 1 .. Len(list) + 1 :
        m < n => longer[m].start + Len(longer[m].frame) <= longer[n].start
  <2> SUFFICES ASSUME NEW m \in 1 .. Len(list) + 1, NEW n \in 1 .. Len(list) + 1, m < n
               PROVE  longer[m].start + Len(longer[m].frame) <= longer[n].start
    OBVIOUS
  <2>1. m \in 1 .. Len(list) BY <1>3
  <2>2. CASE n \in 1 .. Len(list) BY <1>4, <2>1, <2>2 DEF Laid
  <2>3. CASE n = Len(list) + 1 BY <1>3, <1>4, <1>6, <2>1, <2>3
  <2> QED BY <1>5, <2>2, <2>3
<1>9. \A p \in 1 .. Len(more) : \E n \in 1 .. Len(list) + 1 :
        longer[n].start < p /\ p <= longer[n].start + Len(longer[n].frame)
  <2> SUFFICES ASSUME NEW p \in 1 .. Len(more)
               PROVE  \E n \in 1 .. Len(list) + 1 :
                        longer[n].start < p /\ p <= longer[n].start + Len(longer[n].frame)
    OBVIOUS
  <2>1. CASE p \in 1 .. Len(all)
    <3>1. PICK n \in 1 .. Len(list) :
            list[n].start < p /\ p <= list[n].start + Len(list[n].frame)
      BY <2>1 DEF Laid
    <3>2. n \in 1 .. Len(list) + 1 BY <1>3
    <3> QED BY <1>4, <3>1, <3>2
  <2>2. CASE p > Len(all)
    <3>1. Len(list) + 1 \in 1 .. Len(list) + 1 BY <1>3
    <3>2. record.start < p /\ p <= record.start + Len(record.frame) BY <1>3, <2>2
    <3> QED BY <1>4, <3>1, <3>2
  <2> QED BY <1>3, <2>1, <2>2
<1>10. Laid(longer, more) BY <1>4, <1>7, <1>8, <1>9 DEF Laid
<1> QED BY <1>1, <1>2, <1>10

(* So a checksum in the stream is the last unit of a frame, ...              *)
LEMMA ChecksumPlace ==
  ASSUME NEW list \in Seq(Sendings), NEW all \in Seq(Units), Laid(list, all),
         NEW p \in 1 .. Len(all), all[p] \in Checksums
  PROVE  \E n \in 1 .. Len(list) :
           /\ p = list[n].start + Len(list[n].frame)
           /\ all[p] = Checksum(Body(list[n].frame))
<1>1. PICK n \in 1 .. Len(list) : list[n].start < p /\ p <= list[n].start + Len(list[n].frame)
  BY DEF Laid
<1>2. PICK frame : frame = list[n].frame OBVIOUS
<1>3. /\ frame \in Frames /\ list[n].start \in Nat /\ Len(frame) \in Nat
      /\ \A k \in 1 .. Len(frame) - 1 : frame[k] \in Bytes
      /\ frame[Len(frame)] = Checksum(Body(frame))
  BY <1>2, SendingFacts, FrameFacts
<1>4. PICK k \in 1 .. Len(frame) : p = list[n].start + k
  <2>1. p - list[n].start \in 1 .. Len(frame) /\ p = list[n].start + (p - list[n].start)
    BY <1>1, <1>2, <1>3
  <2> QED BY <2>1
<1>5. all[p] = frame[k] BY <1>2, <1>4 DEF Laid
<1>6. k = Len(frame)
  <2>1. frame[k] \notin Bytes BY <1>5, UnitKinds
  <2>2. k \notin 1 .. Len(frame) - 1 BY <1>3, <2>1
  <2> QED BY <1>3, <2>2
<1> QED BY <1>2, <1>3, <1>4, <1>5, <1>6

(* ... and, unless a frame holds another, a magic byte the first.            *)
PlainFrames(list) == \A n \in 1 .. Len(list) : Plain(list[n].frame)

LEMMA MagicPlace ==
  ASSUME NEW list \in Seq(Sendings), NEW all \in Seq(Units), Laid(list, all),
         PlainFrames(list),
         NEW p \in 1 .. Len(all), IsMagic(all[p])
  PROVE  \E n \in 1 .. Len(list) : p = list[n].start + 1
<1>1. PICK n \in 1 .. Len(list) : list[n].start < p /\ p <= list[n].start + Len(list[n].frame)
  BY DEF Laid
<1>2. list[n].start \in Nat /\ Len(list[n].frame) \in Nat BY SendingFacts
<1>3. PICK k \in 1 .. Len(list[n].frame) : p = list[n].start + k
  <2>1. /\ p - list[n].start \in 1 .. Len(list[n].frame)
        /\ p = list[n].start + (p - list[n].start)
    BY <1>1, <1>2
  <2> QED BY <2>1
<1>4. IsMagic(list[n].frame[k]) BY <1>3 DEF Laid
<1>5. k \notin 2 .. Len(list[n].frame) BY <1>4 DEF Plain, PlainFrames
<1>6. k = 1 BY <1>2, <1>5
<1> QED BY <1>3, <1>6

(* No two frames end, or start, at the same place.                           *)
LEMMA OneFrameAtAPlace ==
  ASSUME NEW list \in Seq(Sendings), NEW all, Laid(list, all),
         NEW m \in 1 .. Len(list), NEW n \in 1 .. Len(list)
  PROVE  /\ list[m].start < list[n].start => list[m].start + Len(list[m].frame) <= list[n].start
         /\ list[m].start + Len(list[m].frame) = list[n].start + Len(list[n].frame) => m = n
         /\ list[m].start + Len(list[m].frame) < list[n].start + Len(list[n].frame) <=> m < n
<1>1. /\ m \in Nat /\ list[m].start \in Nat /\ Len(list[m].frame) \in Nat
      /\ Len(list[m].frame) > 0
  BY SendingFacts DEF HeaderSize
<1>2. /\ n \in Nat /\ list[n].start \in Nat /\ Len(list[n].frame) \in Nat
      /\ Len(list[n].frame) > 0
  BY SendingFacts DEF HeaderSize
<1>3. m < n => list[m].start + Len(list[m].frame) <= list[n].start BY DEF Laid
<1>4. n < m => list[n].start + Len(list[n].frame) <= list[m].start BY DEF Laid
<1>5. m < n \/ n < m \/ m = n BY <1>1, <1>2
<1>6. PICK a, b, c, d : /\ a = list[m].start /\ b = Len(list[m].frame)
                        /\ c = list[n].start /\ d = Len(list[n].frame)
  OBVIOUS
<1>7. /\ a \in Nat /\ b \in Nat /\ b > 0 /\ c \in Nat /\ d \in Nat /\ d > 0
      /\ m < n => a + b <= c
      /\ n < m => c + d <= a
      /\ m = n => a = c /\ b = d
  BY <1>1, <1>2, <1>3, <1>4, <1>6
<1>8. /\ a < c => a + b <= c
      /\ a + b = c + d => m = n
      /\ a + b < c + d <=> m < n
  BY <1>1, <1>2, <1>5, <1>7
<1> QED BY <1>6, <1>8

-----------------------------------------------------------------------------
(* A parser drops what precedes a magic byte and nothing else.               *)
LEMMA FromMagicFacts ==
  ASSUME NEW units \in Seq(Units)
  PROVE  \E s \in 0 .. Len(units) :
           /\ FromMagic(units) \in Seq(Units) /\ Len(FromMagic(units)) = Len(units) - s
           /\ \A i \in 1 .. Len(units) - s : FromMagic(units)[i] = units[i + s]
           /\ \A i \in 1 .. s : ~IsMagic(units[i])
           /\ s < Len(units) => IsMagic(units[s + 1])
<1> DEFINE starts == {n \in 1 .. Len(units) : IsMagic(units[n])}
<1>1. Len(units) \in Nat OBVIOUS
<1>2. CASE starts = {}
  <2>1. FromMagic(units) = <<>> BY <1>2 DEF FromMagic
  <2>2. <<>> \in Seq(Units) /\ Len(<<>>) = 0 OBVIOUS
  <2>3. \A i \in 1 .. Len(units) : ~IsMagic(units[i]) BY <1>2
  <2>4. /\ Len(units) \in 0 .. Len(units) /\ Len(units) - Len(units) = 0
        /\ ~(Len(units) < Len(units)) /\ 1 .. 0 = {}
    BY <1>1
  <2> QED BY <2>1, <2>2, <2>3, <2>4
<1>3. CASE starts # {}
  <2>1. PICK first : first = Min(starts) OBVIOUS
  <2>2. first \in starts /\ \A m \in starts : first <= m
    <3>1. starts \subseteq 1 .. Len(units) OBVIOUS
    <3> HIDE DEF starts
    <3> QED BY <1>1, <1>3, <2>1, <3>1, MinIsLeast
  <2>3. first \in 1 .. Len(units) /\ IsMagic(units[first]) BY <2>2
  <2>4. FromMagic(units) = SubSeq(units, first, Len(units))
    BY <1>3, <2>1 DEF FromMagic
  <2>5. PICK s : s = first - 1 OBVIOUS
  <2>6. s \in 0 .. Len(units) /\ s \in Nat /\ first = s + 1 /\ s < Len(units)
    BY <1>1, <2>3, <2>5
  <2>7. /\ FromMagic(units) \in Seq(Units) /\ Len(FromMagic(units)) = Len(units) - first + 1
        /\ \A i \in 1 .. Len(units) - first + 1 : FromMagic(units)[i] = units[first - 1 + i]
    <3>1. /\ first \in 1 .. Len(units) + 1 /\ Len(units) \in 0 .. Len(units)
          /\ first <= Len(units) + 1
      BY <1>1, <2>3
    <3> QED BY <2>4, <3>1, Cut
  <2>8. Len(units) - first + 1 = Len(units) - s BY <1>1, <2>6
  <2>9. \A i \in 1 .. Len(units) - s : first - 1 + i = i + s BY <1>1, <2>6
  <2>10. \A i \in 1 .. s : ~IsMagic(units[i])
    <3> SUFFICES ASSUME NEW i \in 1 .. s, IsMagic(units[i]) PROVE FALSE OBVIOUS
    <3>1. i \in starts BY <1>1, <2>6
    <3>2. first <= i BY <2>2, <3>1
    <3> QED BY <1>1, <2>6, <3>2
  <2> HIDE DEF starts
  <2> QED BY <2>3, <2>6, <2>7, <2>8, <2>9, <2>10
<1> QED BY <1>2, <1>3

(* What is behind the damage is on the wire as it was sent.                  *)
LEMMA BehindTheDamage ==
  ASSUME NEW wire, NEW before, NEW all, NEW whole, Aligned(wire, before, all, whole),
         NEW got, NEW where, NEW past, Tracks(wire, before, all, whole, got, where, past),
         NEW list \in Seq(Sendings), Laid(list, all),
         NEW n \in 1 .. Len(list), list[n].start >= before, list[n].start >= whole,
         NEW k \in 1 .. Len(list[n].frame)
  PROVE  /\ (list[n].start - before) + k \in 1 .. Len(wire)
         /\ wire[(list[n].start - before) + k] = list[n].frame[k]
         /\ where[(list[n].start - before) + k] = list[n].start + k
<1>1. PICK start, frame, i :
        start = list[n].start /\ frame = list[n].frame /\ i = (list[n].start - before) + k
  OBVIOUS
<1>2. start \in Nat /\ Len(frame) \in Nat /\ k \in 1 .. Len(frame) BY <1>1, SendingFacts
<1>3. start + Len(frame) <= Len(all) /\ all[start + k] = frame[k] BY <1>1 DEF Laid
<1>4. /\ before \in Int /\ whole \in Nat /\ Len(wire) \in Nat /\ Len(all) \in Nat
      /\ Len(all) = before + Len(wire)
  BY DEF Aligned
<1>5. /\ i \in 1 .. Len(wire) /\ before + i = start + k /\ before + i > whole
  <2>1. start >= before /\ start >= whole /\ i = (start - before) + k /\ k \in Nat /\ k >= 1
        /\ k <= Len(frame)
    BY <1>1, <1>2
  <2> QED BY <1>2, <1>3, <1>4, <2>1
<1>6. wire[i] = all[before + i] /\ where[i] = before + i BY <1>5 DEF Tracks
<1> QED BY <1>1, <1>3, <1>5, <1>6

(* So a magic byte behind the damage starts a frame, even if it is met in    *)
(* search of a later one; the two are one frame or do not touch.             *)
FrameFrom(wire, before, f, list, n) ==
  \E m \in 1 .. Len(list) :
    /\ before + f = list[m].start + 1
    /\ m = n \/ list[m].start + Len(list[m].frame) <= list[n].start
    /\ \A k \in 1 .. Len(list[m].frame) :
         (f - 1) + k \in 1 .. Len(wire) /\ wire[(f - 1) + k] = list[m].frame[k]

LEMMA FrameAt ==
  ASSUME NEW wire, NEW before, NEW all, NEW whole, Aligned(wire, before, all, whole),
         NEW got, NEW where, NEW past, Tracks(wire, before, all, whole, got, where, past),
         NEW list \in Seq(Sendings), Laid(list, all),
         PlainFrames(list),
         NEW n \in 1 .. Len(list),
         NEW f \in 1 .. Len(wire), IsMagic(wire[f]),
         before + f > whole, before + f <= list[n].start + 1
  PROVE  FrameFrom(wire, before, f, list, n)
<1>1. /\ before \in Int /\ whole \in Nat /\ Len(wire) \in Nat /\ Len(all) \in Nat
      /\ Len(all) = before + Len(wire)
  BY DEF Aligned
<1>2. before + f \in 1 .. Len(all) BY <1>1
<1>3. wire[f] = all[before + f] BY DEF Tracks
<1>4. PICK m \in 1 .. Len(list) : before + f = list[m].start + 1
  <2>1. PICK p \in 1 .. Len(all) : p = before + f BY <1>2
  <2>2. all \in Seq(Units) /\ IsMagic(all[p]) BY <1>3, <2>1 DEF Aligned
  <2>3. \E m \in 1 .. Len(list) : p = list[m].start + 1 BY <2>2, MagicPlace
  <2> QED BY <2>1, <2>3
<1>5. list[m].start \in Nat /\ list[n].start \in Nat BY SendingFacts
<1>6. list[m].start >= before /\ list[m].start >= whole /\ list[m].start - before = f - 1
  <2>1. PICK start : start = list[m].start OBVIOUS
  <2>2. start \in Nat /\ before + f = start + 1 /\ f \in Nat /\ f >= 1 BY <1>1, <1>4, <1>5, <2>1
  <2>3. start >= before /\ start >= whole /\ start - before = f - 1 BY <1>1, <2>2
  <2> QED BY <2>1, <2>3
<1>7. m = n \/ list[m].start + Len(list[m].frame) <= list[n].start
  <2>1. list[m].start <= list[n].start
    <3>1. PICK a, b : a = list[m].start /\ b = list[n].start OBVIOUS
    <3>2. a \in Nat /\ b \in Nat /\ before + f = a + 1 /\ before + f <= b + 1
      BY <1>4, <1>5, <3>1
    <3>3. a <= b BY <3>2
    <3> QED BY <3>1, <3>3
  <2>2. list[m].start = list[n].start => m = n
    <3> SUFFICES ASSUME list[m].start = list[n].start, m # n PROVE FALSE OBVIOUS
    <3>1. /\ Len(list[m].frame) > 0 /\ Len(list[m].frame) \in Nat
          /\ Len(list[n].frame) > 0 /\ Len(list[n].frame) \in Nat /\ m \in Nat /\ n \in Nat
      BY SendingFacts DEF HeaderSize
    <3>2. m < n => list[m].start + Len(list[m].frame) <= list[n].start BY DEF Laid
    <3>3. n < m => list[n].start + Len(list[n].frame) <= list[m].start BY DEF Laid
    <3>4. m < n \/ n < m BY <3>1
    <3>5. CASE m < n BY <1>5, <3>1, <3>2, <3>5
    <3>6. CASE n < m BY <1>5, <3>1, <3>3, <3>6
    <3> QED BY <3>4, <3>5, <3>6
  <2>3. CASE list[m].start < list[n].start BY <2>3, OneFrameAtAPlace
  <2> QED BY <1>5, <2>1, <2>2, <2>3
<1>8. \A k \in 1 .. Len(list[m].frame) :
        (f - 1) + k \in 1 .. Len(wire) /\ wire[(f - 1) + k] = list[m].frame[k]
  BY <1>6, BehindTheDamage
<1> QED BY <1>4, <1>7, <1>8 DEF FrameFrom

-----------------------------------------------------------------------------
(* The invariant.  What has not been parsed is one wire; Before says how     *)
(* much of the stream came before it.                                        *)
Wire == buf \o line
Before == Len(stream) - Len(buf) - Len(line)

LineTyped ==
  /\ receiver \in Receivers /\ parsing \in BOOLEAN /\ damages \in 0 .. MaxDamage
  /\ buf \in Seq(Units) /\ line \in Seq(Units) /\ stream \in Seq(Units)
  /\ messages \in Seq(Seq(Bytes)) /\ sent \in Seq(Sendings)
  /\ whole_from \in 0 .. Len(stream)

NodeBuffer == receiver = "node" =>
  /\ ~parsing
  /\ Len(buf) < MaxFrame
  /\ buf # <<>> => IsMagic(buf[1])
  /\ Len(buf) >= HeaderSize =>
       Len(buf) < FrameSize(LengthField(buf)) /\ FrameSize(LengthField(buf)) <= MaxFrame

AllMembers == \A n \in 1 .. Len(sent) : ~HasNoMember(sent[n].frame)
TierBuffer ==
  receiver = "tier" /\ ~parsing /\ AllMembers => Len(buf) < FrameSize(MaxPayload)

MembersArrive == receiver = "tier" =>
  \A i \in 1 .. Len(messages) : \A k \in 4 .. Len(messages[i]) : messages[i][k] # Byte(NoMember)

UndamagedSoFar == damages = 0 => whole_from = 0 /\ Before >= 0

Due(n) == receiver # "controller" /\ AllPlain /\ Clear(n) /\ ~Raises(n)
Covered(past) == \A n \in 1 .. Len(sent) :
  Due(n) /\ sent[n].start < Before => \E i \in 1 .. Len(messages) : past[i] = End(n)

Tracking == \E where \in [1 .. Len(Wire) -> Nat], past \in [1 .. Len(messages) -> Nat] :
  Tracks(Wire, Before, stream, whole_from, messages, where, past) /\ Covered(past)

LineInv ==
  /\ LineTyped /\ NodeBuffer /\ TierBuffer /\ MembersArrive
  /\ Laid(sent, stream) /\ UndamagedSoFar /\ Tracking

WireTyped ==
  /\ Wire \in Seq(Units) /\ Len(Wire) = Len(buf) + Len(line) /\ Len(Wire) \in Nat
  /\ Before \in Int /\ Len(stream) = Before + Len(Wire)
  /\ \A i \in 1 .. Len(buf) : i \in 1 .. Len(Wire) /\ Wire[i] = buf[i]
  /\ \A i \in 1 .. Len(line) : Wire[Len(buf) + i] = line[i]

LEMMA WireIsTyped == LineTyped => WireTyped
<1> SUFFICES ASSUME LineTyped PROVE WireTyped OBVIOUS
<1>1. /\ Wire \in Seq(Units) /\ Len(Wire) = Len(buf) + Len(line)
      /\ Len(buf) \in Nat /\ Len(line) \in Nat /\ Len(stream) \in Nat
      /\ \A i \in 1 .. Len(buf) : Wire[i] = buf[i]
      /\ \A i \in 1 .. Len(line) : Wire[Len(buf) + i] = line[i]
  BY GluedParts DEF LineTyped, Wire
<1>2. Len(Wire) \in Nat BY <1>1
<1>3. Before \in Int /\ Len(stream) = Before + Len(Wire) BY <1>1, <1>2 DEF Before
<1>4. \A i \in 1 .. Len(buf) : i \in 1 .. Len(Wire) BY <1>1
<1> QED BY <1>1, <1>2, <1>3, <1>4 DEF WireTyped

LEMMA WireFacts ==
  ASSUME LineTyped
  PROVE  /\ Wire \in Seq(Units) /\ Len(Wire) = Len(buf) + Len(line)
         /\ Len(buf) \in Nat /\ Len(line) \in Nat /\ Len(stream) \in Nat
         /\ Len(messages) \in Nat /\ Len(sent) \in Nat
         /\ Before \in Int /\ whole_from \in Nat /\ Len(stream) = Before + Len(Wire)
         /\ Aligned(Wire, Before, stream, whole_from)
         /\ \A i \in 1 .. Len(buf) : i \in 1 .. Len(Wire) /\ Wire[i] = buf[i]
         /\ \A i \in 1 .. Len(line) : Wire[Len(buf) + i] = line[i]
<1>1. WireTyped BY WireIsTyped
<1>2. /\ Len(stream) \in Nat /\ Len(messages) \in Nat /\ Len(sent) \in Nat
      /\ Len(buf) \in Nat /\ Len(line) \in Nat
      /\ whole_from \in Nat /\ whole_from <= Len(stream)
  BY DEF LineTyped
<1>3. Aligned(Wire, Before, stream, whole_from) BY <1>1, <1>2 DEF Aligned, LineTyped, WireTyped
<1> QED BY <1>1, <1>2, <1>3 DEF WireTyped

(* The parser takes k units from the front of the wire; and hands a body on. *)
FrontLeaves(k) == Behind(Wire', Wire, k)

HandsOn(body) == body \in Seq(Bytes) /\ messages' = Append(messages, body)

(* A parser that drops k units which start no frame that is due loses        *)
(* nothing, ...                                                              *)
LEMMA DropsKeep ==
  ASSUME LineTyped, LineTyped', Tracking, UndamagedSoFar,
         UNCHANGED <<receiver, messages, sentVars, damages, whole_from>>,
         NEW k, FrontLeaves(k),
         \A n \in 1 .. Len(sent) :
           Due(n) /\ sent[n].start >= Before => sent[n].start >= Before + k
  PROVE  Tracking' /\ UndamagedSoFar'
<1>1. PICK where \in [1 .. Len(Wire) -> Nat], past \in [1 .. Len(messages) -> Nat] :
        Tracks(Wire, Before, stream, whole_from, messages, where, past) /\ Covered(past)
  BY DEF Tracking
<1>2. /\ Len(Wire) \in Nat /\ Before \in Int /\ Len(stream) = Before + Len(Wire)
      /\ Aligned(Wire, Before, stream, whole_from) /\ Len(messages) \in Nat
  BY WireFacts
<1>3. /\ Wire' \in Seq(Units) /\ Before' \in Int /\ Len(stream') = Before' + Len(Wire')
      /\ Len(Wire') \in Nat
  <2>1. LineTyped' => WireTyped' BY WireIsTyped, PTL
  <2> QED BY <2>1 DEF WireTyped
<1>4. Before' = Before + k
  <2>1. k \in Int /\ Len(stream') = Len(stream) /\ Len(Wire') = Len(Wire) - k
    BY <1>2 DEF sentVars, FrontLeaves, Behind
  <2>2. PICK b, c, v, w : b = Before /\ c = Before' /\ v = Len(Wire') /\ w = Len(Wire)
    OBVIOUS
  <2>3. b \in Int /\ c \in Int /\ v \in Nat /\ w \in Nat /\ b + w = c + v /\ v = w - k
    BY <1>2, <1>3, <2>1, <2>2
  <2>4. c = b + k BY <2>1, <2>3
  <2> QED BY <2>2, <2>4
<1>5. PICK there \in [1 .. Len(Wire') -> Nat] :
        Tracks(Wire', Before + k, stream, whole_from, messages, there, past)
  <2>1. PICK wire, rest, before, all, whole, got :
          /\ wire = Wire /\ rest = Wire' /\ before = Before
          /\ all = stream /\ whole = whole_from /\ got = messages
    OBVIOUS
  <2>2. /\ Aligned(wire, before, all, whole) /\ Len(got) \in Nat
        /\ where \in [1 .. Len(wire) -> Nat] /\ Tracks(wire, before, all, whole, got, where, past)
        /\ Behind(rest, wire, k)
    BY <1>1, <1>2, <1>3, <2>1 DEF FrontLeaves
  <2>3. \E there \in [1 .. Len(rest) -> Nat] :
          Tracks(rest, before + k, all, whole, got, there, past)
    BY <2>2, TracksDrop
  <2> QED BY <2>1, <2>3
<1>6. Covered(past)'
  <2> SUFFICES ASSUME NEW n \in 1 .. Len(sent), Due(n), sent[n].start < Before + k
               PROVE  \E i \in 1 .. Len(messages) : past[i] = End(n)
    BY <1>4 DEF Covered, Due, AllPlain, Clear, Raises, End, Longest, sentVars
  <2>1. sent[n].start \in Nat BY SendingFacts DEF LineTyped
  <2>2. k \in Nat /\ ~(sent[n].start >= Before + k) BY <1>2, <2>1 DEF FrontLeaves, Behind
  <2>3. sent[n].start < Before
    <3>1. ~(sent[n].start >= Before) BY <2>2
    <3> QED BY <1>2, <2>1, <3>1
  <2> QED BY <1>1, <2>3 DEF Covered
<1>7. Tracking'
  <2>1. Tracks(Wire', Before', stream', whole_from', messages', there, past)
    BY <1>4, <1>5 DEF sentVars
  <2>2. past \in [1 .. Len(messages') -> Nat] OBVIOUS
  <2> QED BY <1>6, <2>1, <2>2 DEF Tracking
<1>8. UndamagedSoFar'
  <2>1. k \in Nat BY <1>2 DEF FrontLeaves, Behind
  <2>2. Before >= 0 => Before + k >= 0 BY <1>2, <2>1
  <2> QED BY <1>4, <2>2 DEF UndamagedSoFar
<1> QED BY <1>7, <1>8

(* ... and one that hands on a frame as it drops its checksum loses nothing  *)
(* but the frame's own.                                                      *)
LEMMA HandsOnKeep ==
  ASSUME LineTyped, LineTyped', Tracking, UndamagedSoFar,
         UNCHANGED <<receiver, sentVars, damages, whole_from>>,
         NEW body, HandsOn(body), NEW k \in 1 .. Len(Wire), FrontLeaves(k), Wire[k] = Checksum(body),
         \A n \in 1 .. Len(sent) :
           Due(n) /\ sent[n].start >= Before =>
             sent[n].start >= Before + k \/ (End(n) = Before + k /\ Before + k > whole_from)
  PROVE  Tracking' /\ UndamagedSoFar'
<1>1. PICK where \in [1 .. Len(Wire) -> Nat], past \in [1 .. Len(messages) -> Nat] :
        Tracks(Wire, Before, stream, whole_from, messages, where, past) /\ Covered(past)
  BY DEF Tracking
<1>2. /\ Len(Wire) \in Nat /\ Before \in Int /\ Len(stream) = Before + Len(Wire)
      /\ Aligned(Wire, Before, stream, whole_from) /\ Len(messages) \in Nat
      /\ k \in 1 .. Len(Wire) /\ k \in Nat
  BY WireFacts DEF FrontLeaves, Behind
<1>3. /\ Wire' \in Seq(Units) /\ Before' \in Int /\ Len(stream') = Before' + Len(Wire')
      /\ Len(Wire') \in Nat
  <2>1. LineTyped' => WireTyped' BY WireIsTyped, PTL
  <2> QED BY <2>1 DEF WireTyped
<1>4. Before' = Before + k
  <2>1. k \in Int /\ Len(stream') = Len(stream) /\ Len(Wire') = Len(Wire) - k
    BY <1>2 DEF sentVars, FrontLeaves, Behind
  <2>2. PICK b, c, v, w : b = Before /\ c = Before' /\ v = Len(Wire') /\ w = Len(Wire)
    OBVIOUS
  <2>3. b \in Int /\ c \in Int /\ v \in Nat /\ w \in Nat /\ b + w = c + v /\ v = w - k
    BY <1>2, <1>3, <2>1, <2>2
  <2>4. c = b + k BY <2>1, <2>3
  <2> QED BY <2>2, <2>4
<1>5. PICK there \in [1 .. Len(Wire') -> Nat], passed \in [1 .. Len(messages) + 1 -> Nat] :
        /\ Tracks(Wire', Before + k, stream, whole_from, messages', there, passed)
        /\ \A i \in 1 .. Len(messages) : passed[i] = past[i]
        /\ passed[Len(messages) + 1] = where[k]
  <2>1. PICK wire, rest, before, all, whole, got, more :
          /\ wire = Wire /\ rest = Wire' /\ before = Before
          /\ all = stream /\ whole = whole_from /\ got = messages /\ more = messages'
    OBVIOUS
  <2>2. Longer(more, got, body) BY <2>1, Appended DEF LineTyped, HandsOn, Longer
  <2>3. wire[k] \in Checksums BY <2>1, UnitKinds DEF HandsOn
  <2>4. /\ Aligned(wire, before, all, whole)
        /\ where \in [1 .. Len(wire) -> Nat] /\ past \in [1 .. Len(got) -> Nat]
        /\ Tracks(wire, before, all, whole, got, where, past)
        /\ k \in 1 .. Len(wire) /\ wire[k] = Checksum(body) /\ Behind(rest, wire, k)
    BY <1>1, <1>2, <1>3, <2>1 DEF FrontLeaves
  <2>5. HandedOn(rest, before + k, all, whole, more, got, past, where[k])
    BY <2>2, <2>3, <2>4, TracksDeliver
  <2> QED BY <2>1, <2>5 DEF HandedOn
<1>6. Len(messages') = Len(messages) + 1 /\ Len(messages) + 1 \in 1 .. Len(messages')
      /\ \A i \in 1 .. Len(messages) : i \in 1 .. Len(messages')
  <2>1. Len(messages') = Len(messages) + 1 BY Appended DEF LineTyped, HandsOn
  <2> QED BY <1>2, <2>1
<1>7. Covered(passed)'
  <2> SUFFICES ASSUME NEW n \in 1 .. Len(sent), Due(n), sent[n].start < Before + k
               PROVE  \E i \in 1 .. Len(messages') : passed[i] = End(n)
    BY <1>4 DEF Covered, Due, AllPlain, Clear, Raises, End, Longest, sentVars
  <2>1. sent[n].start \in Nat BY SendingFacts DEF LineTyped
  <2>2. CASE sent[n].start < Before
    <3>1. PICK i \in 1 .. Len(messages) : past[i] = End(n) BY <1>1, <2>2 DEF Covered
    <3> QED BY <1>5, <1>6, <3>1
  <2>3. CASE ~(sent[n].start < Before)
    <3>1. sent[n].start >= Before /\ ~(sent[n].start >= Before + k)
      <4>1. PICK start : start = sent[n].start OBVIOUS
      <4>2. start \in Int /\ start < Before + k /\ ~(start < Before) /\ k \in Int
            /\ Before \in Int
        BY <1>2, <2>1, <2>3, <4>1
      <4>3. start >= Before /\ ~(start >= Before + k) BY <4>2
      <4> QED BY <4>1, <4>3
    <3>2. End(n) = Before + k /\ Before + k > whole_from BY <3>1
    <3>3. where[k] = Before + k
      <4>1. \A i \in 1 .. Len(Wire) : Before + i > whole_from => where[i] = Before + i
        BY <1>1 DEF Tracks
      <4> QED BY <1>2, <3>2, <4>1
    <3> QED BY <1>5, <1>6, <3>2, <3>3
  <2> QED BY <2>2, <2>3
<1>8. Tracking'
  <2>1. Tracks(Wire', Before', stream', whole_from', messages', there, passed)
    BY <1>4, <1>5 DEF sentVars, HandsOn
  <2>2. passed \in [1 .. Len(messages') -> Nat] BY <1>5, <1>6
  <2> QED BY <1>7, <2>1, <2>2 DEF Tracking
<1>9. UndamagedSoFar'
  <2>1. Before >= 0 => Before + k >= 0 BY <1>2
  <2> QED BY <1>4, <2>1 DEF UndamagedSoFar
<1> QED BY <1>8, <1>9

-----------------------------------------------------------------------------
(* The types.                                                                *)
LEMMA DeliveredBody ==
  ASSUME NEW units \in Seq(Units), Len(units) > HeaderSize, ChecksumHolds(units)
  PROVE  /\ Body(units) \in Seq(Bytes) /\ units[Len(units)] = Checksum(Body(units))
         /\ Len(Body(units)) = Len(units) - 1
         /\ \A i \in 1 .. Len(units) - 1 : Body(units)[i] = units[i]
<1>1. Len(units) \in Nat /\ Len(units) > 3 BY DEF HeaderSize
<1>2. units[Len(units)] = Checksum(Body(units)) BY DEF ChecksumHolds, Last
<1>3. units[Len(units)] \in Units BY <1>1
<1>4. units[Len(units)] \notin Bytes
  <2>1. units[Len(units)][1] = "crc" BY <1>2 DEF Checksum
  <2> QED BY <2>1, UnitKinds
<1>5. Body(units) \in Seq(Bytes)
  <2>1. units[Len(units)] \in Checksums BY <1>3, <1>4 DEF Units
  <2>2. units[Len(units)][2] \in Seq(Bytes) BY <2>1, UnitKinds
  <2> QED BY <1>2, <2>2 DEF Checksum
<1>6. /\ Len(Body(units)) = Len(units) - 1
      /\ \A i \in 1 .. Len(units) - 1 : Body(units)[i] = units[i]
  BY <1>1 DEF Body, Front
<1> QED BY <1>2, <1>5, <1>6

LEMMA FoundType ==
  ASSUME LineTyped
  PROVE  Found \in Seq(Units) /\ Len(Found) \in Nat /\ Len(Found) <= Len(buf)
<1>1. buf \in Seq(Units) /\ Len(buf) \in Nat BY DEF LineTyped
<1>2. PICK s \in 0 .. Len(buf) :
        FromMagic(buf) \in Seq(Units) /\ Len(FromMagic(buf)) = Len(buf) - s
  BY <1>1, FromMagicFacts
<1> QED BY <1>1, <1>2 DEF Found

(* What Take takes and what it leaves.                                       *)
LEMMA TakenFacts ==
  ASSUME LineTyped, HasFrame(Found)
  PROVE  /\ Size \in Nat /\ Size > HeaderSize /\ Size <= Len(Found)
         /\ Taken \in Seq(Units) /\ Len(Taken) = Size
         /\ \A i \in 1 .. Size : Taken[i] = Found[i]
         /\ SubSeq(Found, Size + 1, Len(Found)) \in Seq(Units)
         /\ Len(SubSeq(Found, Size + 1, Len(Found))) = Len(Found) - Size
         /\ \A i \in 1 .. Len(Found) - Size :
              SubSeq(Found, Size + 1, Len(Found))[i] = Found[i + Size]
<1>1. Found \in Seq(Units) /\ Len(Found) \in Nat BY FoundType
<1>2. Len(Found) >= HeaderSize /\ Len(Found) >= Size BY DEF HasFrame, Size
<1>3. Size \in Nat /\ Size > HeaderSize BY <1>1, <1>2, LengthFieldType DEF Size
<1>4. PICK units, size : units = Found /\ size = Size OBVIOUS
<1>5. /\ units \in Seq(Units) /\ Len(units) \in Nat
      /\ size \in Nat /\ size > 3 /\ size <= Len(units)
  BY <1>1, <1>2, <1>3, <1>4 DEF HeaderSize
<1>6. /\ SubSeq(units, 1, size) \in Seq(Units) /\ Len(SubSeq(units, 1, size)) = size
      /\ \A i \in 1 .. size : SubSeq(units, 1, size)[i] = units[i]
  BY <1>5
<1>7. /\ SubSeq(units, size + 1, Len(units)) \in Seq(Units)
      /\ Len(SubSeq(units, size + 1, Len(units))) = Len(units) - size
      /\ \A i \in 1 .. Len(units) - size : SubSeq(units, size + 1, Len(units))[i] = units[i + size]
  BY <1>5
<1> QED BY <1>1, <1>2, <1>3, <1>4, <1>6, <1>7 DEF Taken

LEMMA ReadSoFarType ==
  ASSUME LineTyped
  PROVE  /\ ReadSoFar \in Int /\ ReadSoFar <= Len(stream) /\ ReadSoFar = Before + Len(buf)
         /\ line # <<>> => ReadSoFar + 1 <= Len(stream)
         /\ Len(buf) \in Nat /\ Len(line) \in Nat /\ Before \in Int
<1>1. /\ Len(stream) \in Nat /\ Len(buf) \in Nat /\ Len(line) \in Nat
      /\ line # <<>> => Len(line) >= 1
  BY DEF LineTyped
<1> QED BY <1>1 DEF ReadSoFar, Before

LEMMA DamageTyped ==
  ASSUME LineTyped, NEW remains \in Seq(Units), NEW from \in Int, from <= Len(stream),
         Damage(remains, from)
  PROVE  /\ LineTyped' /\ damages' > 0 /\ whole_from' \in 0 .. Len(stream)
         /\ whole_from' >= whole_from /\ whole_from' >= from
<1>1. /\ whole_from \in Nat /\ whole_from <= Len(stream) /\ Len(stream) \in Nat
      /\ damages \in Nat /\ MaxDamage \in Nat
  BY LineAssumption DEF LineTyped
<1>2. whole_from' = IF whole_from >= from THEN whole_from ELSE from
  BY <1>1, MaxOfTwo DEF Damage
<1>3. whole_from' \in 0 .. Len(stream) /\ whole_from' >= whole_from /\ whole_from' >= from
  BY <1>1, <1>2
<1>4. damages' \in 0 .. MaxDamage /\ damages' > 0 BY <1>1 DEF Damage
<1> QED BY <1>3, <1>4 DEF LineTyped, Damage, parserVars, sentVars

(* What damage does to the line.                                             *)
LEMMA RemainsType ==
  ASSUME LineTyped
  PROVE  /\ line # <<>> => Tail(line) \in Seq(Units)
         /\ \A value \in NoiseValues :
              /\ <<Byte(value)>> \o line \in Seq(Units)
              /\ line # <<>> => <<Byte(value)>> \o Tail(line) \in Seq(Units)
<1>1. line \in Seq(Units) BY DEF LineTyped
<1>2. line # <<>> => Tail(line) \in Seq(Units) BY <1>1
<1>3. ASSUME NEW value \in NoiseValues PROVE <<Byte(value)>> \in Seq(Units)
  <2>1. Byte(value) \in Units BY LineAssumption, UnitKinds DEF Units
  <2> QED BY <2>1
<1> QED BY <1>1, <1>2, <1>3, GluedParts

LEMMA LineTypedKept == LineTyped /\ [LineNext]_lineVars => LineTyped'
<1> SUFFICES ASSUME LineTyped, [LineNext]_lineVars PROVE LineTyped' OBVIOUS
<1>1. CASE Send
  <2>1. PICK frame \in Frames :
          /\ sent' = Append(sent, [frame |-> frame, start |-> Len(stream)])
          /\ stream' = stream \o frame /\ line' = line \o frame
    BY <1>1 DEF Send
  <2>2. frame \in Seq(Units) BY FrameFacts
  <2>3. stream' \in Seq(Units) /\ line' \in Seq(Units) /\ Len(stream) \in Nat
        /\ Len(stream') = Len(stream) + Len(frame) /\ Len(frame) \in Nat
    BY <2>1, <2>2, GluedParts DEF LineTyped
  <2>4. [frame |-> frame, start |-> Len(stream)] \in Sendings BY <2>3 DEF Sendings
  <2>5. sent' \in Seq(Sendings) BY <2>1, <2>4 DEF LineTyped
  <2>6. whole_from' \in 0 .. Len(stream') BY <1>1, <2>3 DEF Send, LineTyped
  <2> QED BY <1>1, <2>3, <2>5, <2>6 DEF Send, LineTyped, parserVars
<1>2. CASE Lost
  <2>1. PICK remains : remains = Tail(line) OBVIOUS
  <2>2. /\ remains \in Seq(Units) /\ ReadSoFar + 1 \in Int /\ ReadSoFar + 1 <= Len(stream)
        /\ Damage(remains, ReadSoFar + 1)
    BY <1>2, <2>1, RemainsType, ReadSoFarType DEF Lost
  <2> QED BY <2>2, DamageTyped
<1>3. CASE Altered
  <2>1. PICK value \in NoiseValues : Damage(<<Byte(value)>> \o Tail(line), ReadSoFar + 1)
    BY <1>3 DEF Altered
  <2>2. PICK remains : remains = <<Byte(value)>> \o Tail(line) OBVIOUS
  <2>3. remains \in Seq(Units) /\ ReadSoFar + 1 \in Int /\ ReadSoFar + 1 <= Len(stream)
    BY <1>3, <2>2, RemainsType, ReadSoFarType DEF Altered
  <2> QED BY <2>1, <2>2, <2>3, DamageTyped
<1>4. CASE MadeUp
  <2>1. PICK value \in NoiseValues : Damage(<<Byte(value)>> \o line, ReadSoFar)
    BY <1>4 DEF MadeUp
  <2>2. PICK remains : remains = <<Byte(value)>> \o line OBVIOUS
  <2>3. remains \in Seq(Units) /\ ReadSoFar \in Int /\ ReadSoFar <= Len(stream)
    BY <2>2, RemainsType, ReadSoFarType
  <2> QED BY <2>1, <2>2, <2>3, DamageTyped
<1>5. CASE ParserFeed
  <2>1. PICK units : units = Append(buf, Head(line)) OBVIOUS
  <2>2. /\ units \in Seq(Units) /\ line' \in Seq(Units) /\ Len(units) = Len(buf) + 1
    <3>1. line \in Seq(Units) /\ line # <<>> /\ buf \in Seq(Units) /\ line' = Tail(line)
      BY <1>5 DEF ParserFeed, LineTyped
    <3>2. Head(line) \in Units /\ Tail(line) \in Seq(Units) BY <3>1, Served
    <3> QED BY <2>1, <3>1, <3>2, Appended
  <2>3. buf' \in Seq(Units)
    <3>1. buf' = <<>> \/ buf' = buf \/ buf' = units
      BY <1>5, <2>1 DEF ParserFeed, ParserReset, DecodeComplete
    <3>2. <<>> \in Seq(Units) /\ buf \in Seq(Units) BY DEF LineTyped
    <3> QED BY <2>2, <3>1, <3>2
  <2>4. messages' = messages
        \/ (Complete(units) /\ ChecksumHolds(units) /\ messages' = Append(messages, Body(units)))
    BY <1>5, <2>1 DEF ParserFeed, ParserReset, DecodeComplete
  <2>5. Complete(units) /\ ChecksumHolds(units) => Body(units) \in Seq(Bytes)
    BY <2>2, DeliveredBody DEF Complete
  <2>6. messages' \in Seq(Seq(Bytes))
    <3>1. PICK S : S = Seq(Bytes) OBVIOUS
    <3>2. messages \in Seq(S) BY <3>1 DEF LineTyped
    <3>3. CASE messages' = messages BY <3>1, <3>2, <3>3
    <3>4. CASE Body(units) \in S /\ messages' = Append(messages, Body(units))
      <4>1. messages' \in Seq(S) BY <3>2, <3>4
      <4> QED BY <3>1, <4>1
    <3> QED BY <2>4, <2>5, <3>1, <3>3, <3>4
  <2> QED BY <1>5, <2>2, <2>3, <2>6 DEF ParserFeed, LineTyped, sentVars
<1>6. CASE ReadChunk
  <2>1. PICK n \in 1 .. MaxChunk :
          /\ n <= Len(line)
          /\ buf' = buf \o SubSeq(line, 1, n) /\ line' = SubSeq(line, n + 1, Len(line))
    BY <1>6 DEF ReadChunk
  <2>2. line \in Seq(Units) /\ buf \in Seq(Units) /\ Len(line) \in Nat /\ n \in Nat /\ n >= 1
    BY LineAssumption DEF LineTyped
  <2>3. SubSeq(line, 1, n) \in Seq(Units) /\ line' \in Seq(Units) BY <2>1, <2>2
  <2>4. buf' \in Seq(Units) BY <2>1, <2>2, <2>3, GluedParts
  <2> QED BY <1>6, <2>3, <2>4 DEF ReadChunk, LineTyped, sentVars
<1>7. CASE Resynchronise
  <2>1. Found # <<>> BY <1>7 DEF Resynchronise, TooLong, HeaderSize
  <2>2. buf' \in Seq(Units) BY <1>7, <2>1, FoundType DEF Resynchronise
  <2> QED BY <1>7, <2>2 DEF Resynchronise, Turn, LineTyped, sentVars
<1>8. CASE Wait
  <2>1. buf' \in Seq(Units) BY <1>8, FoundType DEF Wait
  <2> QED BY <1>8, <2>1 DEF Wait, Turn, LineTyped, sentVars
<1>9. CASE Deliver
  <2>1. buf' \in Seq(Units) BY <1>9, TakenFacts DEF Deliver, Take
  <2>2. Body(Taken) \in Seq(Bytes)
    BY <1>9, TakenFacts, DeliveredBody DEF Deliver, Take, Accepted
  <2>3. messages' \in Seq(Seq(Bytes)) BY <1>9, <2>2 DEF Deliver, LineTyped
  <2> QED BY <1>9, <2>1, <2>3 DEF Deliver, Take, Turn, LineTyped, sentVars
<1>10. CASE Discard
  <2>1. buf' \in Seq(Units) BY <1>10, TakenFacts DEF Discard, Take
  <2> QED BY <1>10, <2>1 DEF Discard, Take, Turn, LineTyped, sentVars
<1>11. CASE Raise
  <2>1. buf' \in Seq(Units) BY <1>11, TakenFacts DEF Raise, Take
  <2> QED BY <1>11, <2>1 DEF Raise, Take, Turn, LineTyped, sentVars
<1>12. CASE UNCHANGED lineVars
  BY <1>12 DEF lineVars, parserVars, sentVars, LineTyped
<1> QED BY <1>1, <1>2, <1>3, <1>4, <1>5, <1>6, <1>7, <1>8, <1>9, <1>10, <1>11, <1>12
        DEF LineNext

-----------------------------------------------------------------------------
(* What the line does keeps the invariant's account.                         *)
LEMMA SendKeeps ==
  ASSUME LineTyped, LineTyped', Laid(sent, stream), Tracking, UndamagedSoFar, Send
  PROVE  Laid(sent, stream)' /\ Tracking' /\ UndamagedSoFar'
<1>1. PICK frame \in Frames :
        /\ sent' = Append(sent, [frame |-> frame, start |-> Len(stream)])
        /\ stream' = stream \o frame /\ line' = line \o frame
  BY DEF Send
<1>2. /\ UNCHANGED <<receiver, parserVars, damages, whole_from>>
      /\ buf' = buf /\ messages' = messages /\ whole_from' = whole_from
  BY DEF Send, parserVars
<1>3. PICK wire, before, all, whole, got :
        /\ wire = Wire /\ before = Before /\ all = stream /\ whole = whole_from
        /\ got = messages
  OBVIOUS
<1>4. /\ Aligned(wire, before, all, whole) /\ wire \in Seq(Units) /\ all \in Seq(Units)
      /\ Len(got) \in Nat /\ Len(wire) \in Nat /\ before \in Int
      /\ Len(all) = before + Len(wire) /\ Len(wire) = Len(buf) + Len(line)
      /\ Len(buf) \in Nat /\ Len(line) \in Nat /\ Len(all) \in Nat
  BY <1>3, WireFacts DEF LineTyped
<1>5. frame \in Seq(Units) /\ Len(frame) \in Nat /\ Len(frame) > HeaderSize BY FrameFacts
<1>6. PICK longer, more : longer = Wire' /\ more = stream' OBVIOUS
<1>7. Joined(more, all, frame) BY <1>1, <1>3, <1>4, <1>5, <1>6, GluedIsJoined
<1>8. Joined(longer, wire, frame)
  <2>1. longer = wire \o frame
    <3>1. buf \in Seq(Units) /\ line \in Seq(Units) BY DEF LineTyped
    <3>2. buf \o (line \o frame) = (buf \o line) \o frame BY <1>5, <3>1
    <3>3. longer = buf \o (line \o frame) BY <1>1, <1>2, <1>6 DEF Wire
    <3> QED BY <1>3, <3>2, <3>3 DEF Wire
  <2> QED BY <1>4, <1>5, <2>1, GluedIsJoined
<1>9. Before' = Before
  <2>1. /\ Len(stream') = Len(stream) + Len(frame) /\ Len(line') = Len(line) + Len(frame)
        /\ Len(stream) \in Nat /\ Len(line) \in Nat /\ Len(buf) \in Nat
    <3>1. line \in Seq(Units) /\ stream \in Seq(Units) /\ buf \in Seq(Units) BY DEF LineTyped
    <3> QED BY <1>1, <1>5, <3>1, GluedParts
  <2> QED BY <1>2, <1>5, <2>1 DEF Before
<1>10. Laid(sent, stream)'
  <2>1. Laid(Append(sent, [frame |-> frame, start |-> Len(all)]), more)
    <3>1. sent \in Seq(Sendings) /\ Laid(sent, all) BY <1>3 DEF LineTyped
    <3> QED BY <1>4, <1>7, <3>1, LaidSend
  <2> QED BY <1>1, <1>3, <1>6, <2>1
<1>11. PICK where \in [1 .. Len(Wire) -> Nat], past \in [1 .. Len(messages) -> Nat] :
         Tracks(Wire, Before, stream, whole_from, messages, where, past) /\ Covered(past)
  BY DEF Tracking
<1>12. PICK there \in [1 .. Len(longer) -> Nat] :
         Tracks(longer, before, more, whole, got, there, past)
  <2>1. /\ where \in [1 .. Len(wire) -> Nat]
        /\ Tracks(wire, before, all, whole, got, where, past)
    BY <1>3, <1>11
  <2> QED BY <1>4, <1>5, <1>7, <1>8, <2>1, TracksSend
<1>13. Covered(past)'
  <2>1. /\ Len(sent') = Len(sent) + 1 /\ Len(sent) \in Nat
        /\ sent'[Len(sent) + 1] = [frame |-> frame, start |-> Len(stream)]
        /\ \A n \in 1 .. Len(sent) : sent'[n] = sent[n]
    <3>1. [frame |-> frame, start |-> Len(stream)] \in Sendings BY <1>3, <1>4 DEF Sendings
    <3> QED BY <1>1, <3>1, Appended DEF LineTyped
  <2> SUFFICES ASSUME NEW n \in 1 .. Len(sent'), Due(n)', sent'[n].start < Before
               PROVE  \E i \in 1 .. Len(messages) : past[i] = End(n)'
    BY <1>2, <1>9 DEF Covered
  <2>2. CASE n \in 1 .. Len(sent)
    <3>1. sent'[n] = sent[n] BY <2>1, <2>2
    <3>2. AllPlain
      <4>1. \A m \in 1 .. Len(sent) : m \in 1 .. Len(sent') BY <2>1
      <4>2. AllPlain' BY DEF Due
      <4> QED BY <2>1, <4>1, <4>2 DEF AllPlain
    <3>3. Due(n) BY <1>2, <3>1, <3>2 DEF Due, Clear, Raises, Longest
    <3>4. \E i \in 1 .. Len(messages) : past[i] = End(n) BY <1>11, <2>2, <3>1, <3>3 DEF Covered
    <3> QED BY <3>1, <3>4 DEF End
  <2>3. CASE n = Len(sent) + 1
    <3>1. sent'[n].start = Len(stream) BY <2>1, <2>3
    <3>2. Before <= Len(stream) BY <1>3, <1>4
    <3> QED BY <1>3, <1>4, <3>1, <3>2
  <2> QED BY <2>1, <2>2, <2>3
<1>14. Tracking'
  <2>1. Tracks(Wire', Before', stream', whole_from', messages', there, past)
    BY <1>2, <1>3, <1>6, <1>9, <1>12
  <2>2. there \in [1 .. Len(Wire') -> Nat] /\ past \in [1 .. Len(messages') -> Nat]
    BY <1>2, <1>6
  <2> QED BY <1>13, <2>1, <2>2 DEF Tracking
<1>15. UndamagedSoFar' BY <1>2, <1>9 DEF UndamagedSoFar
<1> QED BY <1>10, <1>14, <1>15

LEMMA DamageKeeps ==
  ASSUME LineTyped, LineTyped', Tracking,
         NEW remains, NEW from \in Int, Damage(remains, from),
         ReadSoFar <= from, from <= whole_from', damages' > 0,
         NEW shift \in {-1, 0, 1}, ReadSoFar + shift <= from,
         Damaged(Wire', Wire, Len(buf), shift, Before, whole_from')
  PROVE  Tracking' /\ UndamagedSoFar'
<1>1. /\ buf' = buf /\ messages' = messages /\ stream' = stream /\ sent' = sent
      /\ receiver' = receiver
      /\ whole_from' \in 0 .. Len(stream) /\ whole_from' >= whole_from
  <2>1. whole_from \in Int BY DEF LineTyped
  <2>2. whole_from' = IF whole_from >= from THEN whole_from ELSE from
    BY <2>1, MaxOfTwo DEF Damage
  <2>3. whole_from' >= whole_from BY <2>1, <2>2
  <2> QED BY <2>3 DEF Damage, parserVars, sentVars, LineTyped
<1>2. PICK wire, before, all, whole, got, held, now, whole_now :
        /\ wire = Wire /\ before = Before /\ all = stream /\ whole = whole_from
        /\ got = messages /\ held = Len(buf) /\ now = Wire' /\ whole_now = whole_from'
  OBVIOUS
<1>3. /\ Aligned(wire, before, all, whole) /\ Len(got) \in Nat
      /\ before \in Int /\ held \in Nat /\ Len(wire) \in Nat /\ Len(all) = before + Len(wire)
      /\ ReadSoFar = before + held
  BY <1>2, WireFacts, ReadSoFarType
<1>4. /\ whole_now \in 0 .. Len(all) /\ whole_now \in Nat /\ whole <= whole_now
      /\ shift \in Int /\ before + held <= whole_now /\ (before + shift) + held <= whole_now
  <2>1. whole_now \in 0 .. Len(all) /\ whole_now >= whole /\ Len(all) \in Nat /\ whole \in Nat
    BY <1>1, <1>2 DEF LineTyped
  <2>2. before + held <= from /\ before + held + shift <= from /\ from <= whole_now
    BY <1>2, <1>3
  <2> QED BY <1>3, <2>1, <2>2
<1>5. Damaged(now, wire, held, shift, before, whole_now) BY <1>2
<1>6. PICK where \in [1 .. Len(Wire) -> Nat], past \in [1 .. Len(messages) -> Nat] :
        Tracks(Wire, Before, stream, whole_from, messages, where, past) /\ Covered(past)
  BY DEF Tracking
<1>7. PICK there \in [1 .. Len(now) -> Nat] :
        Tracks(now, before + shift, all, whole_now, got, there, past)
  <2>1. where \in [1 .. Len(wire) -> Nat] /\ Tracks(wire, before, all, whole, got, where, past)
    BY <1>2, <1>6
  <2> QED BY <1>3, <1>4, <1>5, <2>1, TracksDamage
<1>8. Before' = before + shift
  <2>1. Len(now) = Len(wire) - shift BY <1>5 DEF Damaged
  <2>2. WireTyped' BY WireIsTyped, PTL
  <2>3. Before' \in Int /\ Len(all) = Before' + Len(now) /\ Len(now) \in Nat
    BY <1>1, <1>2, <2>2 DEF WireTyped
  <2>4. PICK b, l, w : b = Before' /\ l = Len(now) /\ w = Len(wire) OBVIOUS
  <2>5. b \in Int /\ l \in Nat /\ w \in Nat /\ b + l = before + w /\ l = w - shift
    BY <1>3, <2>1, <2>3, <2>4
  <2>6. b = before + shift BY <1>3, <1>4, <2>5
  <2> QED BY <2>4, <2>6
<1>9. Covered(past)'
  <2> SUFFICES ASSUME NEW n \in 1 .. Len(sent), Clear(n)', sent[n].start < before + shift
               PROVE  FALSE
    BY <1>1, <1>8 DEF Covered, Due
  <2>1. Longest' \in Nat /\ Longest' > 3
    BY LineAssumption DEF Longest, FrameSize, HeaderSize
  <2>2. sent[n].start >= whole_now + Longest' - 1 BY <1>1, <1>2 DEF Clear
  <2>3. sent[n].start \in Nat BY SendingFacts DEF LineTyped
  <2>4. PICK start, longest : start = sent[n].start /\ longest = Longest' OBVIOUS
  <2>5. /\ start \in Nat /\ longest \in Nat /\ longest > 3 /\ start >= whole_now + longest - 1
        /\ start < before + shift /\ before + shift <= whole_now
    BY <1>3, <1>4, <2>1, <2>2, <2>3, <2>4
  <2> QED BY <1>3, <1>4, <2>5
<1>10. Tracking'
  <2>1. Tracks(Wire', Before', stream', whole_from', messages', there, past)
    BY <1>1, <1>2, <1>7, <1>8
  <2>2. there \in [1 .. Len(Wire') -> Nat] /\ past \in [1 .. Len(messages') -> Nat]
    BY <1>1, <1>2
  <2> QED BY <1>9, <2>1, <2>2 DEF Tracking
<1>11. UndamagedSoFar'
  <2>1. damages' # 0 OBVIOUS
  <2> QED BY <2>1 DEF UndamagedSoFar
<1> QED BY <1>10, <1>11

(* The three kinds of damage.                                                *)
LEMMA LostDamages ==
  ASSUME NEW b \in Seq(Units), NEW l \in Seq(Units), l # <<>>, NEW before, NEW whole
  PROVE  Damaged(b \o Tail(l), b \o l, Len(b), 1, before, whole)
<1>1. /\ Tail(l) \in Seq(Units) /\ Len(Tail(l)) = Len(l) - 1 /\ Len(l) \in Nat /\ Len(l) > 0
      /\ \A i \in 1 .. Len(l) - 1 : Tail(l)[i] = l[i + 1]
  BY Served
<1>2. PICK now, wire, rest : now = b \o Tail(l) /\ wire = b \o l /\ rest = Tail(l) OBVIOUS
<1>3. /\ now \in Seq(Units) /\ Len(now) = Len(b) + (Len(l) - 1) /\ Len(b) \in Nat
      /\ Len(wire) = Len(b) + Len(l)
      /\ \A i \in 1 .. Len(b) : now[i] = b[i] /\ wire[i] = b[i]
  <2>1. Joined(now, b, rest) /\ Joined(wire, b, l) BY <1>1, <1>2, GluedIsJoined
  <2> QED BY <1>1, <1>2, <2>1 DEF Joined
<1>4. /\ \A i \in 1 .. Len(rest) : now[Len(b) + i] = rest[i]
      /\ \A i \in 1 .. Len(l) : wire[Len(b) + i] = l[i]
  <2>1. Joined(now, b, rest) /\ Joined(wire, b, l) BY <1>1, <1>2, GluedIsJoined
  <2> QED BY <2>1 DEF Joined
<1>5. ASSUME NEW i \in 1 .. Len(now), i <= Len(b)
      PROVE  i \in 1 .. Len(wire) /\ now[i] = wire[i]
  <2>1. i \in 1 .. Len(b) /\ i \in 1 .. Len(wire) BY <1>1, <1>3, <1>5
  <2> QED BY <1>3, <2>1
<1>6. ASSUME NEW i \in 1 .. Len(now), i > Len(b)
      PROVE  i + 1 > Len(b) /\ i + 1 \in 1 .. Len(wire) /\ now[i] = wire[i + 1]
  <2>1. PICK q \in 1 .. Len(l) - 1 : i = Len(b) + q
    <3>1. i - Len(b) \in 1 .. Len(l) - 1 /\ i = Len(b) + (i - Len(b)) BY <1>1, <1>3, <1>6
    <3> QED BY <3>1
  <2>2. q + 1 \in 1 .. Len(l) /\ i + 1 = Len(b) + (q + 1) /\ q \in 1 .. Len(rest)
    BY <1>1, <1>2, <1>3, <2>1
  <2>3. now[i] = l[q + 1] BY <1>1, <1>2, <1>4, <2>1, <2>2
  <2>4. wire[i + 1] = l[q + 1] BY <1>4, <2>2
  <2>5. i + 1 > Len(b) /\ i + 1 \in 1 .. Len(wire) BY <1>1, <1>3, <1>6
  <2> QED BY <2>3, <2>4, <2>5
<1>7. Len(now) = Len(wire) - 1 /\ Len(b) \in 0 .. Len(wire) BY <1>1, <1>3
<1> QED BY <1>2, <1>3, <1>5, <1>6, <1>7 DEF Damaged

LEMMA NoiseDamages ==
  ASSUME NEW b \in Seq(Units), NEW l \in Seq(Units), NEW rest \in Seq(Units), NEW unit \in Bytes,
         NEW shift \in {-1, 0}, NEW before \in Int, NEW whole \in Nat,
         Len(rest) = Len(l) - (shift + 1),
         \A i \in 1 .. Len(rest) : rest[i] = l[i + (shift + 1)],
         before + shift + Len(b) + 1 <= whole
  PROVE  Damaged(b \o (<<unit>> \o rest), b \o l, Len(b), shift, before, whole)
<1>1. PICK now, wire, tail : now = b \o tail /\ wire = b \o l /\ tail = <<unit>> \o rest OBVIOUS
<1>2. /\ <<unit>> \in Seq(Units) /\ Len(<<unit>>) = 1 /\ <<unit>>[1] = unit
      /\ Len(rest) \in Nat /\ Len(l) \in Nat /\ Len(b) \in Nat /\ shift \in Int
  BY DEF Units
<1>3. /\ tail \in Seq(Units) /\ Len(tail) = 1 + Len(rest) /\ tail[1] = unit
      /\ \A i \in 1 .. Len(rest) : tail[1 + i] = rest[i]
  <2>1. 1 \in 1 .. 1 OBVIOUS
  <2>2. Joined(tail, <<unit>>, rest) BY <1>1, <1>2, GluedIsJoined
  <2> QED BY <1>2, <2>1, <2>2 DEF Joined
<1>4. /\ now \in Seq(Units) /\ Len(now) = Len(b) + Len(tail)
      /\ Len(wire) = Len(b) + Len(l)
      /\ \A i \in 1 .. Len(b) : now[i] = b[i] /\ wire[i] = b[i]
  <2>1. Joined(now, b, tail) /\ Joined(wire, b, l) BY <1>1, <1>3, GluedIsJoined
  <2> QED BY <2>1 DEF Joined
<1>5. /\ \A i \in 1 .. Len(tail) : now[Len(b) + i] = tail[i]
      /\ \A i \in 1 .. Len(l) : wire[Len(b) + i] = l[i]
  <2>1. Joined(now, b, tail) /\ Joined(wire, b, l) BY <1>1, <1>3, GluedIsJoined
  <2> QED BY <2>1 DEF Joined
<1>6. ASSUME NEW i \in 1 .. Len(now), i <= Len(b)
      PROVE  i \in 1 .. Len(wire) /\ now[i] = wire[i]
  <2>1. i \in 1 .. Len(b) /\ i \in 1 .. Len(wire) BY <1>2, <1>4, <1>6
  <2> QED BY <1>4, <2>1
<1>7. ASSUME NEW i \in 1 .. Len(now), i > Len(b)
      PROVE  \/ i + shift > Len(b) /\ i + shift \in 1 .. Len(wire) /\ now[i] = wire[i + shift]
             \/ (before + shift) + i <= whole /\ now[i] \in Bytes
  <2>1. CASE i = Len(b) + 1
    <3>1. 1 \in 1 .. Len(tail) BY <1>2, <1>3
    <3>2. now[i] = unit BY <1>3, <1>5, <2>1, <3>1
    <3>3. (before + shift) + i <= whole BY <1>2, <2>1
    <3> QED BY <3>2, <3>3
  <2>2. CASE i # Len(b) + 1
    <3>1. PICK q \in 1 .. Len(rest) : i = Len(b) + (1 + q)
      <4>1. /\ i - Len(b) - 1 \in 1 .. Len(rest) /\ i = Len(b) + (1 + (i - Len(b) - 1))
        BY <1>2, <1>3, <1>4, <1>7, <2>2
      <4> QED BY <4>1
    <3>2. /\ 1 + q \in 1 .. Len(tail) /\ q + (shift + 1) \in 1 .. Len(l)
          /\ i + shift = Len(b) + (q + (shift + 1))
      BY <1>2, <1>3, <3>1
    <3>3. now[i] = l[q + (shift + 1)] BY <1>3, <1>5, <3>1, <3>2
    <3>4. wire[i + shift] = l[q + (shift + 1)] BY <1>5, <3>2
    <3>5. i + shift > Len(b) /\ i + shift \in 1 .. Len(wire) BY <1>2, <1>4, <3>2
    <3> QED BY <3>3, <3>4, <3>5
  <2> QED BY <2>1, <2>2
<1>8. Len(now) = Len(wire) - shift /\ Len(b) \in 0 .. Len(wire) BY <1>2, <1>3, <1>4
<1> QED BY <1>1, <1>4, <1>6, <1>7, <1>8 DEF Damaged

LEMMA LineKeeps ==
  ASSUME LineTyped, LineTyped', Tracking, Lost \/ Altered \/ MadeUp
  PROVE  Tracking' /\ UndamagedSoFar'
<1>1. /\ ReadSoFar \in Int /\ ReadSoFar = Before + Len(buf) /\ ReadSoFar <= Len(stream)
      /\ line # <<>> => ReadSoFar + 1 <= Len(stream)
      /\ buf \in Seq(Units) /\ line \in Seq(Units)
      /\ Before \in Int /\ Len(buf) \in Nat /\ Len(line) \in Nat
  BY ReadSoFarType DEF LineTyped
<1>2. ASSUME NEW remains \in Seq(Units), NEW from \in Int, from <= Len(stream),
             Damage(remains, from)
      PROVE  /\ damages' > 0 /\ from <= whole_from' /\ whole_from' \in Nat
             /\ Wire' = buf \o remains
  <2>1. damages' > 0 /\ whole_from' >= from /\ whole_from' \in 0 .. Len(stream)
    BY <1>2, DamageTyped
  <2>2. whole_from' \in Nat BY <2>1
  <2> QED BY <1>2, <2>1, <2>2 DEF Damage, parserVars, Wire
<1>3. CASE Lost
  <2>1. PICK remains, from : remains = Tail(line) /\ from = ReadSoFar + 1 OBVIOUS
  <2>2. /\ line # <<>> /\ Damage(remains, from) /\ remains \in Seq(Units)
        /\ from \in Int /\ from <= Len(stream) /\ ReadSoFar <= from /\ ReadSoFar + 1 <= from
    BY <1>1, <1>3, <2>1, RemainsType DEF Lost
  <2>3. /\ damages' > 0 /\ from <= whole_from' /\ Wire' = buf \o remains
    BY <1>2, <2>2
  <2>4. Damaged(Wire', Wire, Len(buf), 1, Before, whole_from')
    BY <1>1, <2>1, <2>2, <2>3, LostDamages DEF Wire
  <2> QED BY <2>2, <2>3, <2>4, DamageKeeps
<1>4. CASE Altered
  <2>1. PICK value \in NoiseValues : Damage(<<Byte(value)>> \o Tail(line), ReadSoFar + 1)
    BY <1>4 DEF Altered
  <2>2. PICK remains, from, unit, rest :
          /\ remains = <<unit>> \o rest /\ from = ReadSoFar + 1
          /\ unit = Byte(value) /\ rest = Tail(line)
    OBVIOUS
  <2>3. /\ line # <<>> /\ Damage(remains, from) /\ remains \in Seq(Units) /\ unit \in Bytes
        /\ from \in Int /\ from <= Len(stream) /\ ReadSoFar <= from /\ ReadSoFar + 0 <= from
    BY <1>1, <1>4, <2>1, <2>2, RemainsType, LineAssumption, UnitKinds DEF Altered
  <2>4. /\ rest \in Seq(Units) /\ Len(rest) = Len(line) - (0 + 1)
        /\ \A i \in 1 .. Len(rest) : rest[i] = line[i + (0 + 1)]
    BY <1>1, <2>2, <2>3, Served
  <2>5. /\ damages' > 0 /\ from <= whole_from' /\ whole_from' \in Nat /\ Wire' = buf \o remains
    BY <1>2, <2>3
  <2>6. Damaged(Wire', Wire, Len(buf), 0, Before, whole_from')
    <3>1. Before + 0 + Len(buf) + 1 <= whole_from' BY <1>1, <2>2, <2>3, <2>5
    <3>2. Damaged(buf \o (<<unit>> \o rest), buf \o line, Len(buf), 0, Before, whole_from')
      BY <1>1, <2>3, <2>4, <2>5, <3>1, NoiseDamages
    <3> QED BY <2>2, <2>5, <3>2 DEF Wire
  <2> QED BY <2>3, <2>5, <2>6, DamageKeeps
<1>5. CASE MadeUp
  <2>1. PICK value \in NoiseValues : Damage(<<Byte(value)>> \o line, ReadSoFar)
    BY <1>5 DEF MadeUp
  <2>2. PICK remains, from, unit :
          remains = <<unit>> \o line /\ from = ReadSoFar /\ unit = Byte(value)
    OBVIOUS
  <2>3. /\ Damage(remains, from) /\ remains \in Seq(Units) /\ unit \in Bytes
        /\ from \in Int /\ from <= Len(stream) /\ ReadSoFar <= from /\ ReadSoFar + (-1) <= from
    BY <1>1, <2>1, <2>2, RemainsType, LineAssumption, UnitKinds
  <2>4. /\ Len(line) = Len(line) - ((-1) + 1)
        /\ \A i \in 1 .. Len(line) : line[i] = line[i + ((-1) + 1)]
    BY <1>1
  <2>5. /\ damages' > 0 /\ from <= whole_from' /\ whole_from' \in Nat /\ Wire' = buf \o remains
    BY <1>2, <2>3
  <2>6. Damaged(Wire', Wire, Len(buf), -1, Before, whole_from')
    <3>1. Before + (-1) + Len(buf) + 1 <= whole_from' BY <1>1, <2>2, <2>3, <2>5
    <3>2. Damaged(buf \o (<<unit>> \o line), buf \o line, Len(buf), -1, Before, whole_from')
      BY <1>1, <2>3, <2>4, <2>5, <3>1, NoiseDamages
    <3> QED BY <2>2, <2>5, <3>2 DEF Wire
  <2> QED BY <2>3, <2>5, <2>6, DamageKeeps
<1> QED BY <1>3, <1>4, <1>5

-----------------------------------------------------------------------------
(* What a parser makes of a frame that is due.  units stand on the wire      *)
(* behind s others, none of which is a magic byte.                           *)
StandsBehind(units, s) ==
  /\ units \in Seq(Units) /\ s \in Nat /\ s + Len(units) <= Len(Wire)
  /\ \A i \in 1 .. Len(units) : Wire[s + i] = units[i]
  /\ \A i \in 1 .. s : ~IsMagic(Wire[i])

StreamKept == LineTyped /\ Laid(sent, stream) /\ UndamagedSoFar /\ Tracking

LEMMA LongestType ==
  /\ Longest \in Nat /\ Longest > HeaderSize
  /\ receiver = "node" => Longest = MaxFrame
  /\ receiver # "node" => Longest = FrameSize(MaxPayload)
<1>1. MaxFrame \in Nat /\ MaxPayload \in Nat /\ MaxFrame > HeaderSize BY LineAssumption
<1> QED BY <1>1 DEF Longest, FrameSize, HeaderSize

(* A frame that is due lies behind the damage, ...                           *)
LEMMA DueIsBehindDamage ==
  ASSUME StreamKept, NEW n \in 1 .. Len(sent), Due(n), sent[n].start >= Before,
         NEW gap \in Int, gap < Longest
  PROVE  sent[n].start \in Nat /\ sent[n].start >= whole_from
         /\ (sent[n].start + 1 - gap > Before => sent[n].start + 1 - gap > whole_from)
<1>1. /\ sent[n].start \in Nat /\ Before \in Int /\ whole_from \in Nat
      /\ Longest \in Nat /\ Longest > 3 /\ damages \in Nat
  BY SendingFacts, WireFacts, LongestType DEF LineTyped, StreamKept, HeaderSize
<1>2. CASE damages = 0
  <2>1. whole_from = 0 /\ Before >= 0 BY <1>2 DEF StreamKept, UndamagedSoFar
  <2> QED BY <1>1, <2>1
<1>3. CASE damages > 0
  <2>1. sent[n].start >= whole_from + Longest - 1 BY <1>3 DEF Due, Clear
  <2>2. PICK start, longest : start = sent[n].start /\ longest = Longest OBVIOUS
  <2>3. /\ start \in Nat /\ longest \in Nat /\ longest > 3 /\ start >= whole_from + longest - 1
        /\ gap < longest
    BY <1>1, <2>1, <2>2
  <2>4. start >= whole_from /\ start + 1 - gap > whole_from BY <1>1, <2>3
  <2> QED BY <1>1, <2>2, <2>4
<1> QED BY <1>1, <1>2, <1>3

(* ... so it stands on the wire as it was sent, ...                          *)
LEMMA DueOnWire ==
  ASSUME StreamKept, NEW n \in 1 .. Len(sent), Due(n), sent[n].start >= Before,
         NEW k \in 1 .. Len(sent[n].frame)
  PROVE  /\ (sent[n].start - Before) + k \in 1 .. Len(Wire)
         /\ Wire[(sent[n].start - Before) + k] = sent[n].frame[k]
<1>1. sent[n].start >= whole_from
  <2>1. 0 < Longest BY LongestType DEF HeaderSize
  <2> QED BY <2>1, DueIsBehindDamage
<1>2. PICK where \in [1 .. Len(Wire) -> Nat], past \in [1 .. Len(messages) -> Nat] :
        Tracks(Wire, Before, stream, whole_from, messages, where, past)
  BY DEF Tracking, StreamKept
<1>3. /\ Aligned(Wire, Before, stream, whole_from) /\ sent \in Seq(Sendings)
      /\ Laid(sent, stream)
  BY WireFacts DEF StreamKept, LineTyped
<1> QED BY <1>1, <1>2, <1>3, BehindTheDamage

(* ... and is not among units of which none is a magic byte.                 *)
LEMMA DueIsNotSkipped ==
  ASSUME StreamKept, NEW n \in 1 .. Len(sent), Due(n), sent[n].start >= Before,
         NEW s \in Nat, \A i \in 1 .. s : ~IsMagic(Wire[i])
  PROVE  sent[n].start >= Before + s
<1>1. /\ sent[n].start \in Nat /\ Before \in Int /\ Len(sent[n].frame) \in Nat
      /\ Len(sent[n].frame) > HeaderSize /\ sent[n].frame \in Frames
  BY SendingFacts, WireFacts DEF StreamKept, LineTyped
<1>2. 1 \in 1 .. Len(sent[n].frame) BY <1>1 DEF HeaderSize
<1>3. /\ (sent[n].start - Before) + 1 \in 1 .. Len(Wire)
      /\ IsMagic(Wire[(sent[n].start - Before) + 1])
  BY <1>1, <1>2, DueOnWire, FrameFacts
<1>4. PICK j : j = (sent[n].start - Before) + 1 OBVIOUS
<1>5. j \in Nat /\ j >= 1 /\ j \notin 1 .. s BY <1>1, <1>3, <1>4
<1>6. j > s BY <1>5
<1>7. PICK start : start = sent[n].start OBVIOUS
<1>8. start \in Nat /\ j = (start - Before) + 1 BY <1>1, <1>4, <1>7
<1>9. start >= Before + s BY <1>1, <1>6, <1>8
<1> QED BY <1>7, <1>9

(* Where a parser sees a header close before it, or there, some frame starts *)
(* indeed: the one that is due or an earlier one.                            *)
LEMMA FrameBeforeDue ==
  ASSUME StreamKept, NEW n \in 1 .. Len(sent), Due(n), sent[n].start >= Before,
         NEW units, NEW s, StandsBehind(units, s), Len(units) > 0, IsMagic(units[1]),
         NEW size \in Nat, size <= Longest, sent[n].start < Before + s + size
  PROVE  \E m \in 1 .. Len(sent) :
           /\ Before + s = sent[m].start
           /\ m = n \/ End(m) <= sent[n].start
           /\ \A k \in 1 .. Len(sent[m].frame) :
                s + k \in 1 .. Len(Wire) /\ Wire[s + k] = sent[m].frame[k]
<1>1. /\ Before \in Int /\ whole_from \in Nat /\ Len(Wire) \in Nat /\ s \in Nat
      /\ Longest \in Nat /\ sent[n].start \in Nat /\ Len(units) \in Nat
      /\ s + Len(units) <= Len(Wire)
  <2>1. LineTyped /\ sent \in Seq(Sendings) BY DEF StreamKept, LineTyped
  <2>2. Before \in Int /\ whole_from \in Nat /\ Len(Wire) \in Nat BY <2>1, WireFacts
  <2>3. sent[n].start \in Nat BY <2>1, SendingFacts
  <2>4. s \in Nat /\ Len(units) \in Nat /\ s + Len(units) <= Len(Wire) BY DEF StandsBehind
  <2> QED BY <2>2, <2>3, <2>4, LongestType
<1>2. sent[n].start >= Before + s BY DueIsNotSkipped DEF StandsBehind
<1>3. PICK f, gap : f = s + 1 /\ gap = sent[n].start - (Before + s) OBVIOUS
<1>4. f \in 1 .. Len(Wire) /\ gap \in Int /\ gap < Longest /\ gap >= 0
  <2>1. PICK start, longest : start = sent[n].start /\ longest = Longest OBVIOUS
  <2>2. /\ start \in Nat /\ longest \in Nat /\ start < Before + s + size /\ size <= longest
        /\ start >= Before + s
    BY <1>1, <1>2, <2>1
  <2>3. start - (Before + s) \in Int /\ start - (Before + s) < longest
        /\ start - (Before + s) >= 0
    BY <1>1, <2>2
  <2>4. f \in 1 .. Len(Wire) BY <1>1, <1>3
  <2> QED BY <1>3, <2>1, <2>3, <2>4
<1>5. IsMagic(Wire[f])
  <2>1. 1 \in 1 .. Len(units) BY <1>1
  <2>2. Wire[s + 1] = units[1] BY <2>1 DEF StandsBehind
  <2> QED BY <1>3, <2>2
<1>6. Before + f > whole_from /\ Before + f <= sent[n].start + 1
  <2>1. Before + f = sent[n].start + 1 - gap
    <3>1. PICK start : start = sent[n].start OBVIOUS
    <3>2. start \in Nat /\ gap = start - (Before + s) BY <1>1, <1>3, <3>1
    <3>3. Before + f = start + 1 - gap BY <1>1, <1>3, <3>2
    <3> QED BY <3>1, <3>3
  <2>2. Before + f > Before BY <1>1, <1>3
  <2>3. Before + f > whole_from BY <1>4, <2>1, <2>2, DueIsBehindDamage
  <2>4. Before + f <= sent[n].start + 1 BY <1>1, <1>2, <1>3
  <2> QED BY <2>3, <2>4
<1>7. PICK where \in [1 .. Len(Wire) -> Nat], past \in [1 .. Len(messages) -> Nat] :
        Tracks(Wire, Before, stream, whole_from, messages, where, past)
  BY DEF Tracking, StreamKept
<1>8. /\ Aligned(Wire, Before, stream, whole_from) /\ sent \in Seq(Sendings)
      /\ Laid(sent, stream)
  BY WireFacts DEF StreamKept, LineTyped
<1>9. PlainFrames(sent) BY DEF Due, AllPlain, PlainFrames
<1>10. PICK m \in 1 .. Len(sent) :
         /\ Before + f = sent[m].start + 1
         /\ m = n \/ sent[m].start + Len(sent[m].frame) <= sent[n].start
         /\ \A k \in 1 .. Len(sent[m].frame) :
              (f - 1) + k \in 1 .. Len(Wire) /\ Wire[(f - 1) + k] = sent[m].frame[k]
  <2>1. PICK wire, before, all, whole, got, list :
          /\ wire = Wire /\ before = Before /\ all = stream /\ whole = whole_from
          /\ got = messages /\ list = sent
    OBVIOUS
  <2>2. FrameFrom(wire, before, f, list, n)
    <3>1. /\ Aligned(wire, before, all, whole)
          /\ Tracks(wire, before, all, whole, got, where, past)
          /\ list \in Seq(Sendings) /\ Laid(list, all) /\ PlainFrames(list)
          /\ n \in 1 .. Len(list) /\ f \in 1 .. Len(wire) /\ IsMagic(wire[f])
          /\ before + f > whole /\ before + f <= list[n].start + 1
      BY <1>4, <1>5, <1>6, <1>7, <1>8, <1>9, <2>1
    <3> QED BY <3>1, FrameAt
  <2> QED BY <2>1, <2>2 DEF FrameFrom
<1>11. sent[m].start \in Nat BY <1>8, SendingFacts
<1>12. Before + s = sent[m].start /\ f - 1 = s
  <2>1. PICK start : start = sent[m].start OBVIOUS
  <2>2. start \in Nat /\ Before + f = start + 1 BY <1>10, <1>11, <2>1
  <2>3. Before + s = start
    <3>1. PICK b : b = Before OBVIOUS
    <3>2. b \in Int /\ s \in Nat BY <1>1, <3>1
    <3>3. start \in Nat /\ b + (s + 1) = start + 1 BY <1>3, <2>2, <3>1
    <3>4. b + s = start BY <3>2, <3>3
    <3> QED BY <3>1, <3>4
  <2>4. f - 1 = s
    <3>1. s \in Nat BY DEF StandsBehind
    <3>2. f = s + 1 BY <1>3
    <3>3. (s + 1) - 1 = s BY <3>1
    <3> QED BY <3>2, <3>3
  <2> QED BY <2>1, <2>3, <2>4
<1>13. m = n \/ End(m) <= sent[n].start BY <1>10 DEF End
<1>14. \A k \in 1 .. Len(sent[m].frame) :
         s + k \in 1 .. Len(Wire) /\ Wire[s + k] = sent[m].frame[k]
  BY <1>10, <1>12
<1> QED BY <1>12, <1>13, <1>14

(* So no header that is due, or that hides one, is too long, ...             *)
HeadsFrame(units, s, n) ==
  /\ LengthField(units) \in Nat /\ LengthField(units) <= MaxPayload
  /\ FrameSize(LengthField(units)) <= MaxFrame
  /\ \E m \in 1 .. Len(sent) :
       /\ Before + s = sent[m].start
       /\ m = n \/ End(m) <= sent[n].start
       /\ FrameSize(LengthField(units)) = Len(sent[m].frame)
       /\ \A k \in 1 .. Len(sent[m].frame) : Wire[s + k] = sent[m].frame[k]

LEMMA DueHeaderFits ==
  ASSUME StreamKept, NEW n \in 1 .. Len(sent), Due(n), sent[n].start >= Before,
         NEW units, NEW s, StandsBehind(units, s), Len(units) >= HeaderSize, IsMagic(units[1]),
         NEW size \in Nat, size <= Longest, sent[n].start < Before + s + size
  PROVE  HeadsFrame(units, s, n)
<1>1. Len(units) \in Nat /\ Len(units) >= 3 /\ Len(units) > 0 BY DEF StandsBehind, HeaderSize
<1>2. PICK m \in 1 .. Len(sent) :
        /\ Before + s = sent[m].start
        /\ m = n \/ End(m) <= sent[n].start
        /\ \A k \in 1 .. Len(sent[m].frame) :
             s + k \in 1 .. Len(Wire) /\ Wire[s + k] = sent[m].frame[k]
  BY <1>1, FrameBeforeDue
<1>3. PICK frame : frame = sent[m].frame OBVIOUS
<1>4. frame \in Frames BY <1>3, SendingFacts DEF StreamKept, LineTyped
<1>5. /\ LengthField(frame) \in Nat /\ LengthField(frame) <= MaxPayload
      /\ Len(frame) = FrameSize(LengthField(frame)) /\ Len(frame) <= MaxFrame
      /\ Len(frame) \in Nat /\ Len(frame) > HeaderSize
  BY <1>4, FrameFacts
<1>6. units[3] = frame[3]
  <2>1. 3 \in 1 .. Len(frame) /\ 3 \in 1 .. Len(units) BY <1>1, <1>5 DEF HeaderSize
  <2>2. Wire[s + 3] = frame[3] BY <1>2, <1>3, <2>1
  <2>3. Wire[s + 3] = units[3] BY <2>1 DEF StandsBehind
  <2> QED BY <2>2, <2>3
<1>7. LengthField(units) = LengthField(frame) BY <1>6 DEF LengthField, HeaderSize
<1>8. FrameSize(LengthField(units)) = Len(sent[m].frame) BY <1>3, <1>5, <1>7
<1> QED BY <1>2, <1>3, <1>5, <1>7, <1>8 DEF HeadsFrame

(* ... and what is taken where one is due is that frame.                     *)
LEMMA DueIsTaken ==
  ASSUME StreamKept, NEW n \in 1 .. Len(sent), Due(n), sent[n].start >= Before,
         NEW units, NEW s, StandsBehind(units, s), Len(units) > HeaderSize, IsMagic(units[1]),
         Len(units) = FrameSize(LengthField(units)), Len(units) <= Longest,
         sent[n].start < Before + s + Len(units)
  PROVE  units = sent[n].frame /\ End(n) = Before + s + Len(units) /\ End(n) > whole_from
<1>1. Len(units) \in Nat /\ Len(units) >= HeaderSize /\ units \in Seq(Units) /\ s \in Nat
  BY DEF StandsBehind, HeaderSize
<1>2. PICK m \in 1 .. Len(sent) :
        /\ Before + s = sent[m].start
        /\ m = n \/ End(m) <= sent[n].start
        /\ Len(units) = Len(sent[m].frame)
        /\ \A k \in 1 .. Len(sent[m].frame) : Wire[s + k] = sent[m].frame[k]
  <2>1. PICK size : size = Len(units) OBVIOUS
  <2>2. size \in Nat /\ size <= Longest /\ sent[n].start < Before + s + size BY <1>1, <2>1
  <2>3. HeadsFrame(units, s, n) BY <1>1, <2>2, DueHeaderFits
  <2> QED BY <2>3 DEF HeadsFrame
<1>3. /\ sent[m].frame \in Seq(Units) /\ sent[m].start \in Nat
      /\ sent[n].start \in Nat /\ Before \in Int
  <2>1. LineTyped /\ sent \in Seq(Sendings) BY DEF StreamKept, LineTyped
  <2>2. sent[m].frame \in Frames /\ sent[m].start \in Nat BY <2>1, SendingFacts
  <2>3. sent[n].start \in Nat /\ Before \in Int BY <2>1, SendingFacts, WireFacts
  <2> QED BY <2>2, <2>3, FrameFacts
<1>4. m = n
  <2>1. End(m) = Before + s + Len(units) BY <1>2 DEF End
  <2>2. ~(End(m) <= sent[n].start) BY <1>1, <1>3, <2>1
  <2> QED BY <1>2, <2>2
<1>5. units = sent[m].frame
  <2>1. PICK frame : frame = sent[m].frame OBVIOUS
  <2>2. /\ frame \in Seq(Units) /\ Len(frame) = Len(units)
        /\ \A k \in 1 .. Len(frame) : Wire[s + k] = frame[k]
    BY <1>2, <1>3, <2>1
  <2>3. \A k \in 1 .. Len(units) : units[k] = frame[k] BY <2>2 DEF StandsBehind
  <2>4. units = frame BY <1>1, <2>2, <2>3
  <2> QED BY <2>1, <2>4
<1>6. End(n) = Before + s + Len(units) BY <1>2, <1>4 DEF End
<1>7. End(n) > whole_from
  <2>1. sent[n].start >= whole_from
    <3>1. 0 < Longest BY LongestType DEF HeaderSize
    <3> QED BY <3>1, DueIsBehindDamage
  <2>2. End(n) = sent[n].start + Len(units) BY <1>2, <1>4, <1>5 DEF End
  <2>3. Len(units) > 0 /\ whole_from \in Nat BY <1>1 DEF HeaderSize, StreamKept, LineTyped
  <2> QED BY <1>1, <1>3, <2>1, <2>2, <2>3
<1> QED BY <1>4, <1>5, <1>6, <1>7

LEMMA SentIsAccepted ==
  ASSUME NEW frame \in Frames
  PROVE  Accepted(frame)
<1>1. Last(frame) = frame[Len(frame)] BY DEF Last
<1> QED BY <1>1, FrameFacts DEF Accepted, ChecksumHolds

-----------------------------------------------------------------------------
(* What the parsers' steps keep.                                             *)
LEMMA BehindItself ==
  ASSUME NEW wire \in Seq(Units)
  PROVE  Behind(wire, wire, 0)
  BY DEF Behind

LEMMA BehindTail ==
  ASSUME NEW units \in Seq(Units), Len(units) > 0
  PROVE  Behind(Tail(units), units, 1)
<1>1. units # <<>> /\ Len(units) \in Nat OBVIOUS
<1> QED BY <1>1, Served DEF Behind

LEMMA BehindTwice ==
  ASSUME NEW wire \in Seq(Units), NEW less, NEW d, Behind(less, wire, d),
         NEW least, NEW e, Behind(least, less, e)
  PROVE  Behind(least, wire, d + e)
<1>1. /\ d \in Nat /\ e \in Nat /\ Len(wire) \in Nat /\ Len(less) = Len(wire) - d
      /\ d <= Len(wire) /\ e <= Len(less) /\ Len(least) = Len(less) - e /\ least \in Seq(Units)
  BY DEF Behind
<1>2. d + e \in 0 .. Len(wire) /\ Len(least) = Len(wire) - (d + e) BY <1>1
<1>3. ASSUME NEW i \in 1 .. Len(least) PROVE least[i] = wire[i + (d + e)]
  <2>1. i + e \in 1 .. Len(less) /\ (i + e) + d = i + (d + e) BY <1>1
  <2>2. least[i] = less[i + e] BY DEF Behind
  <2>3. less[i + e] = wire[(i + e) + d] BY <2>1 DEF Behind
  <2> QED BY <2>1, <2>2, <2>3
<1> QED BY <1>1, <1>2, <1>3 DEF Behind

LEMMA BehindLine ==
  ASSUME NEW held \in Seq(Units), NEW coming \in Seq(Units), NEW rest, NEW d,
         Behind(rest, held, d)
  PROVE  Behind(rest \o coming, held \o coming, d)
<1>1. /\ rest \in Seq(Units) /\ d \in Nat /\ d <= Len(held) /\ Len(rest) = Len(held) - d
      /\ Len(held) \in Nat
  BY DEF Behind
<1>2. PICK wire, more : wire = held \o coming /\ more = rest \o coming OBVIOUS
<1>3. /\ wire \in Seq(Units) /\ Len(wire) = Len(held) + Len(coming) /\ Len(coming) \in Nat
      /\ \A k \in 1 .. Len(held) : wire[k] = held[k]
      /\ \A k \in 1 .. Len(coming) : wire[Len(held) + k] = coming[k]
  BY <1>2, GluedParts
<1>4. /\ more \in Seq(Units) /\ Len(more) = Len(rest) + Len(coming)
      /\ \A k \in 1 .. Len(rest) : more[k] = rest[k]
      /\ \A k \in 1 .. Len(coming) : more[Len(rest) + k] = coming[k]
  <2>1. rest \in Seq(Units) BY <1>1
  <2>2. more = rest \o coming BY <1>2
  <2> QED BY <2>1, <2>2, GluedParts
<1>5. d \in 0 .. Len(wire) /\ Len(more) = Len(wire) - d BY <1>1, <1>3, <1>4
<1>6. ASSUME NEW i \in 1 .. Len(more) PROVE more[i] = wire[i + d]
  <2>1. CASE i <= Len(rest)
    <3>1. i \in 1 .. Len(rest) /\ i + d \in 1 .. Len(held) BY <1>1, <2>1
    <3>2. rest[i] = held[i + d] BY <3>1 DEF Behind
    <3> QED BY <1>3, <1>4, <3>1, <3>2
  <2>2. CASE i > Len(rest)
    <3>1. PICK k : k = i - Len(rest) OBVIOUS
    <3>2. k \in 1 .. Len(coming) /\ i = Len(rest) + k /\ i + d = Len(held) + k
      BY <1>1, <1>3, <1>4, <2>2, <3>1
    <3> QED BY <1>3, <1>4, <3>2
  <2> QED BY <1>1, <2>1, <2>2
<1>7. Behind(more, wire, d) BY <1>4, <1>5, <1>6 DEF Behind
<1> QED BY <1>2, <1>7

(* What is behind d units of the buffer is behind d units of the wire.       *)
LEMMA BufferLeaves ==
  ASSUME LineTyped, NEW d, Behind(buf', buf, d), line' = line
  PROVE  FrontLeaves(d)
<1>1. buf \in Seq(Units) /\ line \in Seq(Units) BY DEF LineTyped
<1>2. Behind(buf' \o line, buf \o line, d)
  <2>1. PICK held, rest, coming : held = buf /\ rest = buf' /\ coming = line OBVIOUS
  <2>2. Behind(rest \o coming, held \o coming, d) BY <1>1, <2>1, BehindLine
  <2> QED BY <2>1, <2>2
<1> QED BY <1>2 DEF FrontLeaves, Wire

(* Where the parser finds a magic byte in its buffer.                        *)
FoundAt(s) ==
  /\ s \in 0 .. Len(buf) /\ Behind(Found, buf, s) /\ StandsBehind(Found, s)
  /\ Len(Found) > 0 => IsMagic(Found[1])

LEMMA FoundSomewhere ==
  ASSUME LineTyped
  PROVE  \E s \in Nat : FoundAt(s)
<1>1. buf \in Seq(Units) /\ Len(buf) \in Nat BY DEF LineTyped
<1>2. PICK s \in 0 .. Len(buf) :
        /\ Found \in Seq(Units) /\ Len(Found) = Len(buf) - s
        /\ \A i \in 1 .. Len(buf) - s : Found[i] = buf[i + s]
        /\ \A i \in 1 .. s : ~IsMagic(buf[i])
        /\ s < Len(buf) => IsMagic(buf[s + 1])
  BY <1>1, FromMagicFacts DEF Found
<1>3. s \in Nat /\ s <= Len(buf) BY <1>1
<1>4. Behind(Found, buf, s) BY <1>1, <1>2 DEF Behind
<1>5. /\ Len(Wire) \in Nat /\ Len(Wire) = Len(buf) + Len(line) /\ Len(line) \in Nat
      /\ \A i \in 1 .. Len(buf) : Wire[i] = buf[i]
  BY WireFacts
<1>6. s + Len(Found) <= Len(Wire) BY <1>1, <1>2, <1>3, <1>5
<1>7. ASSUME NEW i \in 1 .. Len(Found) PROVE Wire[s + i] = Found[i]
  <2>1. i \in 1 .. Len(buf) - s /\ s + i \in 1 .. Len(buf) /\ s + i = i + s
    BY <1>1, <1>2, <1>3
  <2> QED BY <1>2, <1>5, <2>1
<1>8. \A i \in 1 .. s : ~IsMagic(Wire[i])
  <2>1. \A i \in 1 .. s : i \in 1 .. Len(buf) BY <1>1, <1>3
  <2> QED BY <1>2, <1>5, <2>1
<1>9. StandsBehind(Found, s) BY <1>2, <1>3, <1>6, <1>7, <1>8 DEF StandsBehind
<1>10. Len(Found) > 0 => IsMagic(Found[1])
  <2> SUFFICES ASSUME Len(Found) > 0 PROVE IsMagic(Found[1]) OBVIOUS
  <2>1. s < Len(buf) /\ 1 \in 1 .. Len(buf) - s /\ 1 + s = s + 1 BY <1>1, <1>2, <1>3
  <2> QED BY <1>2, <2>1
<1> QED BY <1>3, <1>4, <1>9, <1>10 DEF FoundAt

LEMMA ReadChunkKeeps ==
  ASSUME StreamKept, LineTyped', ReadChunk
  PROVE  Tracking' /\ UndamagedSoFar'
<1>1. PICK n \in 1 .. MaxChunk :
        /\ n <= Len(line)
        /\ buf' = buf \o SubSeq(line, 1, n) /\ line' = SubSeq(line, n + 1, Len(line))
  BY DEF ReadChunk
<1>2. buf \in Seq(Units) /\ line \in Seq(Units) /\ Len(line) \in Nat /\ n \in Nat /\ n >= 1
  BY LineAssumption DEF StreamKept, LineTyped
<1>3. Wire' = Wire
  <2>1. PICK held, coming, cut, rest :
          /\ held = buf /\ coming = line
          /\ cut = SubSeq(line, 1, n) /\ rest = SubSeq(line, n + 1, Len(line))
    OBVIOUS
  <2>2. /\ cut \in Seq(Units) /\ Len(cut) = n
        /\ \A k \in 1 .. Len(cut) : coming[k] = cut[k]
    BY <1>1, <1>2, <2>1
  <2>3. /\ rest \in Seq(Units) /\ Len(rest) = Len(coming) - n
        /\ \A k \in 1 .. Len(rest) : coming[n + k] = rest[k]
    BY <1>1, <1>2, <2>1
  <2>4. held \in Seq(Units) /\ coming \in Seq(Units) BY <1>2, <2>1
  <2>5. Len(coming) = Len(cut) + Len(rest) /\ Len(cut) = n BY <1>2, <2>1, <2>2, <2>3
  <2>6. cut \o rest = coming
    <3>1. \A k \in 1 .. Len(rest) : coming[Len(cut) + k] = rest[k] BY <2>3, <2>5
    <3> QED BY <2>2, <2>3, <2>4, <2>5, <3>1, Glued
  <2>7. (held \o cut) \o rest = held \o (cut \o rest) BY <2>2, <2>3, <2>4
  <2> QED BY <1>1, <2>1, <2>6, <2>7 DEF Wire
<1>4. FrontLeaves(0) BY <1>3, WireFacts, BehindItself DEF FrontLeaves, StreamKept
<1>5. \A n_1 \in 1 .. Len(sent) :
        Due(n_1) /\ sent[n_1].start >= Before => sent[n_1].start >= Before + 0
  <2>1. Before \in Int BY WireFacts DEF StreamKept
  <2>2. Before + 0 = Before BY <2>1
  <2> QED BY <2>2
<1> QED BY <1>4, <1>5, DropsKeep DEF ReadChunk, StreamKept

LEMMA WaitKeeps ==
  ASSUME StreamKept, LineTyped', Wait
  PROVE  Tracking' /\ UndamagedSoFar'
<1>1. PICK s \in Nat : FoundAt(s) BY FoundSomewhere DEF StreamKept
<1>2. FrontLeaves(s) BY <1>1, BufferLeaves DEF FoundAt, Wait, Turn, StreamKept
<1>3. ASSUME NEW n \in 1 .. Len(sent), Due(n), sent[n].start >= Before
      PROVE  sent[n].start >= Before + s
  BY <1>1, <1>3, DueIsNotSkipped DEF FoundAt, StandsBehind
<1> QED BY <1>2, <1>3, DropsKeep DEF Wait, Turn, StreamKept

LEMMA ResynchroniseKeeps ==
  ASSUME StreamKept, LineTyped', Resynchronise
  PROVE  Tracking' /\ UndamagedSoFar'
<1>1. PICK s \in Nat : FoundAt(s) BY FoundSomewhere DEF StreamKept
<1>2. /\ Found \in Seq(Units) /\ Len(Found) \in Nat /\ Len(Found) >= HeaderSize
      /\ Len(Found) > 0 /\ LengthField(Found) \in Nat
      /\ LengthField(Found) > MaxPayload /\ MaxPayload \in Nat
  <2>1. Len(Found) >= HeaderSize /\ LengthField(Found) > MaxPayload /\ Found \in Seq(Units)
    BY FoundType DEF Resynchronise, TooLong, StreamKept
  <2> QED BY <2>1, LengthFieldType, LineAssumption DEF HeaderSize
<1>3. FrontLeaves(s + 1)
  <2>1. Behind(buf', Found, 1) BY <1>2, BehindTail DEF Resynchronise
  <2>2. Behind(Found, buf, s) /\ buf \in Seq(Units)
    BY <1>1 DEF FoundAt, StreamKept, LineTyped
  <2>3. Behind(buf', buf, s + 1)
    <3>1. PICK held, less, least : held = buf /\ less = Found /\ least = buf' OBVIOUS
    <3>2. Behind(least, held, s + 1) BY <2>1, <2>2, <3>1, BehindTwice
    <3> QED BY <3>1, <3>2
  <2> QED BY <2>3, BufferLeaves DEF Resynchronise, Turn, StreamKept
<1>4. ASSUME NEW n \in 1 .. Len(sent), Due(n), sent[n].start >= Before,
             ~(sent[n].start >= Before + (s + 1))
      PROVE  FALSE
  <2>1. sent[n].start < Before + s + 1
    <3>1. PICK start, b : start = sent[n].start /\ b = Before OBVIOUS
    <3>2. start \in Nat /\ b \in Int /\ ~(start >= b + (s + 1))
      BY <1>4, <3>1, SendingFacts, WireFacts DEF StreamKept, LineTyped
    <3>3. start < b + s + 1 BY <3>2
    <3> QED BY <3>1, <3>3
  <2>2. 1 \in Nat /\ 1 <= Longest
    <3>1. Longest \in Nat /\ Longest > 3 BY LongestType DEF HeaderSize
    <3> QED BY <3>1
  <2>3. StandsBehind(Found, s) /\ IsMagic(Found[1]) BY <1>1, <1>2 DEF FoundAt
  <2>4. HeadsFrame(Found, s, n)
    <3>1. PICK units : units = Found OBVIOUS
    <3>2. StandsBehind(units, s) /\ IsMagic(units[1]) /\ Len(units) >= HeaderSize
      BY <1>2, <2>3, <3>1
    <3>3. HeadsFrame(units, s, n) BY <1>4, <2>1, <2>2, <3>2, DueHeaderFits
    <3> QED BY <3>1, <3>3
  <2>5. LengthField(Found) <= MaxPayload BY <2>4 DEF HeadsFrame
  <2> QED BY <1>2, <2>5
<1> QED BY <1>3, <1>4, DropsKeep DEF Resynchronise, Turn, StreamKept

(* A frame that is due is neither dropped nor cut by a turn that takes one:  *)
(* it is what is taken, or it is behind that.                                *)
TakenIsDue(n, k) ==
  /\ Taken = sent[n].frame /\ End(n) = Before + k /\ End(n) > whole_from
  /\ Accepted(Taken) /\ (receiver = "tier" => ~HasNoMember(Taken))

LEMMA TakeDue ==
  ASSUME StreamKept, NodeBuffer, Take, NEW s \in Nat, FoundAt(s),
         NEW n \in 1 .. Len(sent), Due(n), sent[n].start >= Before
  PROVE  sent[n].start >= Before + (s + Size) \/ TakenIsDue(n, s + Size)
<1> SUFFICES ASSUME ~(sent[n].start >= Before + (s + Size)) PROVE TakenIsDue(n, s + Size)
  OBVIOUS
<1>1. receiver # "node" /\ receiver # "controller" /\ receiver = "tier"
  <2>1. receiver # "node" BY DEF NodeBuffer, Take, Turn
  <2>2. receiver # "controller" BY DEF Due
  <2>3. receiver \in {"node", "tier", "controller"}
    BY LineAssumption DEF StreamKept, LineTyped
  <2> QED BY <2>1, <2>2, <2>3
<1>2. /\ Found \in Seq(Units) /\ Len(Found) \in Nat /\ Len(Found) >= HeaderSize
      /\ LengthField(Found) \in Nat /\ LengthField(Found) <= MaxPayload
  <2>1. Found \in Seq(Units) /\ Len(Found) \in Nat /\ Len(Found) >= HeaderSize
    BY FoundType DEF Take, HasFrame, StreamKept
  <2>2. LengthField(Found) \in Nat BY <2>1, LengthFieldType
  <2>3. ~(LengthField(Found) > MaxPayload) BY <1>1, <2>1 DEF Take, TooLong
  <2> QED BY <2>1, <2>2, <2>3, LineAssumption
<1>3. /\ Size \in Nat /\ Size > HeaderSize /\ Size <= Len(Found)
      /\ Taken \in Seq(Units) /\ Len(Taken) = Size
      /\ \A i \in 1 .. Size : Taken[i] = Found[i]
  BY TakenFacts DEF Take, StreamKept
<1>4. Size <= Longest
  <2>1. Longest = FrameSize(MaxPayload) BY <1>1 DEF Longest
  <2> QED BY <1>2, <2>1, LineAssumption DEF Size, FrameSize, HeaderSize
<1>5. PICK units, size : units = Taken /\ size = Size OBVIOUS
<1>6. /\ units \in Seq(Units) /\ Len(units) = size /\ size \in Nat /\ size > 3
      /\ Len(units) > HeaderSize
  BY <1>3, <1>5 DEF HeaderSize
<1>7. StandsBehind(units, s) /\ IsMagic(units[1])
  <2>1. /\ s + Len(Found) <= Len(Wire) /\ Len(Wire) \in Nat
        /\ \A i \in 1 .. Len(Found) : Wire[s + i] = Found[i]
        /\ \A i \in 1 .. s : ~IsMagic(Wire[i])
        /\ Len(Found) > 0 => IsMagic(Found[1])
    BY WireFacts DEF FoundAt, StandsBehind, StreamKept
  <2>2. s + Len(units) <= Len(Wire) BY <1>2, <1>3, <1>5, <1>6, <2>1
  <2>3. ASSUME NEW i \in 1 .. Len(units) PROVE Wire[s + i] = units[i]
    <3>1. i \in 1 .. Len(Found) /\ i \in 1 .. Size BY <1>2, <1>3, <1>5, <1>6
    <3>2. Wire[s + i] = Found[i] BY <2>1, <3>1
    <3>3. Taken[i] = Found[i] BY <1>3, <3>1
    <3> QED BY <1>5, <3>2, <3>3
  <2>4. IsMagic(units[1])
    <3>1. 1 \in 1 .. Size /\ Len(Found) > 0 BY <1>2, <1>3 DEF HeaderSize
    <3> QED BY <1>3, <1>5, <2>1, <3>1
  <2> QED BY <1>6, <2>1, <2>2, <2>3, <2>4 DEF StandsBehind
<1>8. Len(units) = FrameSize(LengthField(units))
  <2>1. 3 \in 1 .. Size BY <1>5, <1>6
  <2>2. units[3] = Found[3] BY <1>3, <1>5, <2>1
  <2>3. LengthField(units) = LengthField(Found) BY <2>2 DEF LengthField, HeaderSize
  <2> QED BY <1>5, <1>6, <2>3 DEF Size
<1>9. sent[n].start < Before + s + Len(units)
  <2>1. PICK start, b : start = sent[n].start /\ b = Before OBVIOUS
  <2>2. start \in Nat /\ b \in Int /\ ~(start >= b + (s + size))
    BY <1>5, <2>1, SendingFacts, WireFacts DEF StreamKept, LineTyped
  <2>3. start < b + s + size BY <1>6, <2>2
  <2> QED BY <1>6, <2>1, <2>3
<1>10. units = sent[n].frame /\ End(n) = Before + s + Len(units) /\ End(n) > whole_from
  <2>1. Len(units) <= Longest BY <1>4, <1>5, <1>6
  <2> QED BY <1>6, <1>7, <1>8, <1>9, <2>1, DueIsTaken
<1>11. End(n) = Before + (s + Size)
  <2>1. PICK b : b = Before OBVIOUS
  <2>2. b \in Int BY <2>1, WireFacts DEF StreamKept
  <2>3. b + s + size = b + (s + size) BY <1>6, <2>2
  <2> QED BY <1>5, <1>6, <1>10, <2>1, <2>3
<1>12. Accepted(Taken)
  <2>1. sent[n].frame \in Frames BY SendingFacts DEF StreamKept, LineTyped
  <2> QED BY <1>5, <1>10, <2>1, SentIsAccepted
<1>13. ~HasNoMember(Taken) BY <1>1, <1>5, <1>10 DEF Due, Raises
<1> QED BY <1>5, <1>10, <1>11, <1>12, <1>13 DEF TakenIsDue

(* What a turn that takes a frame leaves.                                    *)
LEMMA TakeLeaves ==
  ASSUME StreamKept, Take, NEW s \in Nat, FoundAt(s)
  PROVE  FrontLeaves(s + Size)
<1>1. /\ Size \in Nat /\ Size <= Len(Found) /\ buf' \in Seq(Units)
      /\ Len(buf') = Len(Found) - Size
      /\ \A i \in 1 .. Len(Found) - Size : buf'[i] = Found[i + Size]
      /\ Found \in Seq(Units) /\ Len(Found) \in Nat
  BY TakenFacts, FoundType DEF Take, StreamKept
<1>2. Behind(buf', Found, Size)
  <2>1. Size \in 0 .. Len(Found) BY <1>1
  <2> QED BY <1>1, <2>1 DEF Behind
<1>3. Behind(Found, buf, s) /\ buf \in Seq(Units) BY DEF FoundAt, StreamKept, LineTyped
<1>4. Behind(buf', buf, s + Size)
  <2>1. PICK held, less, least, size : held = buf /\ less = Found /\ least = buf' /\ size = Size
    OBVIOUS
  <2>2. Behind(least, held, s + size) BY <1>2, <1>3, <2>1, BehindTwice
  <2> QED BY <2>1, <2>2
<1> QED BY <1>4, BufferLeaves DEF Take, Turn, StreamKept

LEMMA DiscardKeeps ==
  ASSUME StreamKept, NodeBuffer, LineTyped', Discard \/ Raise
  PROVE  Tracking' /\ UndamagedSoFar'
<1>1. Take /\ UNCHANGED messages BY DEF Discard, Raise
<1>2. PICK s \in Nat : FoundAt(s) BY FoundSomewhere DEF StreamKept
<1>3. FrontLeaves(s + Size) BY <1>1, <1>2, TakeLeaves
<1>4. ASSUME NEW n \in 1 .. Len(sent), Due(n), sent[n].start >= Before
      PROVE  sent[n].start >= Before + (s + Size)
  <2>1. ~TakenIsDue(n, s + Size) BY DEF Discard, Raise, TakenIsDue
  <2> QED BY <1>1, <1>2, <1>4, <2>1, TakeDue
<1> QED BY <1>1, <1>3, <1>4, DropsKeep DEF Take, Turn, StreamKept

LEMMA DeliverKeeps ==
  ASSUME StreamKept, NodeBuffer, LineTyped', Deliver
  PROVE  Tracking' /\ UndamagedSoFar'
<1>1. Take /\ messages' = Append(messages, Body(Taken)) BY DEF Deliver
<1>2. PICK s \in Nat : FoundAt(s) BY FoundSomewhere DEF StreamKept
<1>3. FrontLeaves(s + Size) BY <1>1, <1>2, TakeLeaves
<1>4. /\ Size \in Nat /\ Size > HeaderSize /\ Size <= Len(Found)
      /\ Taken \in Seq(Units) /\ Len(Taken) = Size
      /\ \A i \in 1 .. Size : Taken[i] = Found[i]
  BY <1>1, TakenFacts DEF Take, StreamKept
<1>5. Body(Taken) \in Seq(Bytes) /\ Taken[Size] = Checksum(Body(Taken))
  BY <1>4, DeliveredBody DEF Deliver, Accepted
<1>6. /\ Size \in 1 .. Size /\ Size \in 1 .. Len(Found)
      /\ Len(Found) \in Nat /\ Len(Wire) \in Nat /\ s + Len(Found) <= Len(Wire)
  <2>1. Len(Found) \in Nat /\ Len(Wire) \in Nat /\ s + Len(Found) <= Len(Wire)
    BY <1>2, FoundType, WireFacts DEF FoundAt, StandsBehind, StreamKept
  <2> QED BY <1>4, <2>1 DEF HeaderSize
<1>7. s + Size \in 1 .. Len(Wire) BY <1>4, <1>6
<1>8. Wire[s + Size] = Checksum(Body(Taken))
  <2>1. Wire[s + Size] = Found[Size] BY <1>2, <1>6 DEF FoundAt, StandsBehind
  <2> QED BY <1>4, <1>5, <1>6, <2>1
<1>9. ASSUME NEW n \in 1 .. Len(sent), Due(n), sent[n].start >= Before
      PROVE  \/ sent[n].start >= Before + (s + Size)
             \/ End(n) = Before + (s + Size) /\ Before + (s + Size) > whole_from
  BY <1>1, <1>2, <1>9, TakeDue DEF TakenIsDue
<1>10. HandsOn(Body(Taken)) BY <1>1, <1>5 DEF HandsOn
<1>11. PICK body, k : body = Body(Taken) /\ k = s + Size OBVIOUS
<1>12. /\ HandsOn(body) /\ k \in 1 .. Len(Wire) /\ FrontLeaves(k) /\ Wire[k] = Checksum(body)
       /\ \A n \in 1 .. Len(sent) :
            Due(n) /\ sent[n].start >= Before =>
              sent[n].start >= Before + k \/ (End(n) = Before + k /\ Before + k > whole_from)
  BY <1>3, <1>7, <1>8, <1>9, <1>10, <1>11
<1> QED BY <1>1, <1>12, HandsOnKeep DEF Take, Turn, StreamKept

-----------------------------------------------------------------------------
(* The node's parser takes one byte at a time.                               *)
Fed(units, held, first) ==
  /\ units \in Seq(Units) /\ Len(units) = Len(held) + 1 /\ units[Len(held) + 1] = first
  /\ \A i \in 1 .. Len(held) : units[i] = held[i]

LEMMA FedIsFed ==
  ASSUME NEW held \in Seq(Units), NEW first \in Units
  PROVE  Fed(Append(held, first), held, first)
  BY Appended DEF Fed

LEMMA FedFacts ==
  ASSUME LineTyped, line # <<>>, NEW units, units = Append(buf, Head(line))
  PROVE  /\ StandsBehind(units, 0) /\ Len(units) = Len(buf) + 1 /\ Len(units) \in Nat
         /\ units \in Seq(Units) /\ Len(buf) \in Nat
         /\ \A i \in 1 .. Len(buf) : units[i] = buf[i]
         /\ units[Len(buf) + 1] = Head(line)
         /\ units \o Tail(line) = Wire
         /\ Behind(Tail(line), Wire, Len(units))
<1>1. /\ line \in Seq(Units) /\ buf \in Seq(Units) /\ Len(buf) \in Nat
      /\ Len(line) \in Nat /\ Len(line) > 0
  BY DEF LineTyped
<1>2. PICK coming, held, rest, first, wire :
        /\ coming = line /\ held = buf /\ rest = Tail(line) /\ first = Head(line)
        /\ wire = Wire
  OBVIOUS
<1>3. /\ rest \in Seq(Units) /\ first \in Units /\ Len(rest) = Len(coming) - 1
      /\ first = coming[1] /\ \A i \in 1 .. Len(rest) : rest[i] = coming[i + 1]
  BY <1>1, <1>2, Served
<1>4. /\ units \in Seq(Units) /\ Len(units) = Len(held) + 1 /\ units[Len(held) + 1] = first
      /\ \A i \in 1 .. Len(held) : units[i] = held[i]
  <2>1. held \in Seq(Units) /\ Append(held, first) = units BY <1>1, <1>2
  <2>2. Fed(Append(held, first), held, first) BY <1>3, <2>1, FedIsFed
  <2>3. Fed(units, held, first) BY <2>1, <2>2
  <2> QED BY <2>3 DEF Fed
<1>5. /\ wire \in Seq(Units) /\ Len(wire) = Len(held) + Len(coming) /\ Len(wire) \in Nat
      /\ \A i \in 1 .. Len(held) : wire[i] = held[i]
      /\ \A i \in 1 .. Len(coming) : wire[Len(held) + i] = coming[i]
      /\ Len(held) \in Nat /\ Len(coming) \in Nat /\ Len(coming) > 0
  <2>1. Wire \in Seq(Units) /\ Len(Wire) = Len(buf) + Len(line) BY WireFacts
  <2>2. \A i \in 1 .. Len(buf) : Wire[i] = buf[i] BY WireFacts
  <2>3. \A i \in 1 .. Len(line) : Wire[Len(buf) + i] = line[i] BY WireFacts
  <2>4. Len(wire) = Len(held) + Len(coming) /\ Len(wire) \in Nat BY <1>1, <1>2, <2>1
  <2> QED BY <1>1, <1>2, <2>1, <2>2, <2>3, <2>4
<1>6. Len(wire) = Len(units) + Len(rest) /\ Len(units) \in Nat /\ Len(rest) \in Nat
  <2>1. PICK h, u, c, r, w : h = Len(held) /\ u = Len(units) /\ c = Len(coming)
                             /\ r = Len(rest) /\ w = Len(wire)
    OBVIOUS
  <2>2. h \in Nat /\ c \in Nat /\ c > 0 /\ u = h + 1 /\ r = c - 1 /\ w = h + c
    BY <1>3, <1>4, <1>5, <2>1
  <2>3. w = u + r /\ u \in Nat /\ r \in Nat BY <2>2
  <2> QED BY <2>1, <2>3
<1>7. ASSUME NEW i \in 1 .. Len(units) PROVE wire[i] = units[i]
  <2>1. i \in 1 .. Len(held) \/ i = Len(held) + 1
    <3>1. PICK h, u : h = Len(held) /\ u = Len(units) OBVIOUS
    <3>2. h \in Nat /\ u = h + 1 /\ i \in 1 .. u BY <1>4, <1>5, <3>1
    <3>3. i \in 1 .. h \/ i = h + 1 BY <3>2
    <3> QED BY <3>1, <3>3
  <2>2. CASE i \in 1 .. Len(held) BY <1>4, <1>5, <2>2
  <2>3. CASE i = Len(held) + 1
    <3>1. 1 \in 1 .. Len(coming) BY <1>5
    <3>2. wire[Len(held) + 1] = coming[1] BY <1>5, <3>1
    <3>3. wire[i] = wire[Len(held) + 1] /\ units[i] = units[Len(held) + 1] BY <2>3
    <3> QED BY <1>3, <1>4, <3>2, <3>3
  <2> QED BY <2>1, <2>2, <2>3
<1>8. ASSUME NEW i \in 1 .. Len(rest) PROVE wire[Len(units) + i] = rest[i]
  <2>1. i + 1 \in 1 .. Len(coming) /\ Len(held) + (i + 1) = Len(units) + i
    <3>1. PICK h, u, c, r : h = Len(held) /\ u = Len(units) /\ c = Len(coming) /\ r = Len(rest)
      OBVIOUS
    <3>2. h \in Nat /\ c \in Nat /\ c > 0 /\ u = h + 1 /\ r = c - 1 /\ i \in 1 .. r
      BY <1>3, <1>4, <1>5, <3>1
    <3>3. i + 1 \in 1 .. c /\ h + (i + 1) = u + i BY <3>2
    <3> QED BY <3>1, <3>3
  <2>2. wire[Len(held) + (i + 1)] = coming[i + 1] BY <1>5, <2>1
  <2>3. rest[i] = coming[i + 1] BY <1>3
  <2> QED BY <2>1, <2>2, <2>3
<1>9. units \o rest = wire BY <1>3, <1>4, <1>5, <1>6, <1>7, <1>8, Glued
<1>10. StandsBehind(units, 0)
  <2>1. 0 + Len(units) <= Len(wire) /\ \A i \in 1 .. Len(units) : 0 + i = i BY <1>6
  <2>2. 1 .. 0 = {} OBVIOUS
  <2> QED BY <1>2, <1>4, <1>7, <2>1, <2>2 DEF StandsBehind
<1>11. Behind(rest, wire, Len(units))
  <2>1. Len(units) \in 0 .. Len(wire) /\ Len(rest) = Len(wire) - Len(units) BY <1>6
  <2>2. \A i \in 1 .. Len(rest) : Len(units) + i = i + Len(units) BY <1>6
  <2> QED BY <1>3, <1>8, <2>1, <2>2 DEF Behind
<1> QED BY <1>1, <1>2, <1>4, <1>6, <1>9, <1>10, <1>11

(* What a byte does to the buffer and to the messages: it is skipped; it     *)
(* completes a header that no frame can have; it completes a frame; or it is *)
(* kept.                                                                     *)
Skips(units) == Len(units) = 1 /\ ~IsMagic(units[1]) /\ buf' = <<>> /\ messages' = messages
GivesUp(units) ==
  /\ IsMagic(units[1]) /\ HeaderTooLong(units)
  /\ buf' = <<>> /\ messages' = messages
Completes(units) == IsMagic(units[1]) /\ Complete(units) /\ DecodeComplete(units)
Keeps(units) ==
  /\ IsMagic(units[1]) /\ ~HeaderTooLong(units) /\ ~Complete(units)
  /\ buf' = units /\ messages' = messages

LEMMA FeedCases ==
  ASSUME LineTyped, NodeBuffer, ParserFeed, NEW units, units = Append(buf, Head(line))
  PROVE  /\ Skips(units) \/ GivesUp(units) \/ Completes(units) \/ Keeps(units)
         /\ line # <<>> /\ receiver = "node" /\ line' = Tail(line)
         /\ Len(buf) < MaxFrame /\ ~parsing
         /\ UNCHANGED <<receiver, parsing, sentVars, damages, whole_from>>
<1>1. line # <<>> /\ receiver = "node" BY DEF ParserFeed
<1>2. /\ Len(units) = Len(buf) + 1 /\ Len(buf) \in Nat
      /\ \A i \in 1 .. Len(buf) : units[i] = buf[i]
      /\ units[Len(buf) + 1] = Head(line)
  BY <1>1, FedFacts
<1>3. Len(buf) < MaxFrame /\ ~parsing /\ MaxFrame \in Nat BY <1>1, LineAssumption DEF NodeBuffer
<1>4. buf = <<>> => Len(buf) = 0 /\ units[1] = Head(line) /\ Len(units) = 1
  <2> SUFFICES ASSUME buf = <<>> PROVE Len(buf) = 0 /\ units[1] = Head(line) /\ Len(units) = 1
    OBVIOUS
  <2>1. Len(buf) = 0 OBVIOUS
  <2>2. Len(buf) + 1 = 1 BY <2>1
  <2> QED BY <1>2, <2>1, <2>2
<1>5. buf # <<>> => IsMagic(units[1])
  <2> SUFFICES ASSUME buf # <<>> PROVE IsMagic(units[1]) OBVIOUS
  <2>1. Len(buf) >= 1 BY DEF LineTyped
  <2>2. units[1] = buf[1] BY <1>2, <2>1
  <2> QED BY <1>1, <2>2 DEF NodeBuffer
<1>6. CASE buf = <<>> /\ ~IsMagic(Head(line)) /\ UNCHANGED <<buf, messages>>
  <2>1. Skips(units) BY <1>4, <1>6 DEF Skips
  <2> QED BY <1>1, <1>3, <2>1 DEF ParserFeed
<1>7. CASE /\ buf # <<>> \/ IsMagic(Head(line))
           /\ Len(buf) >= MaxFrame \/ HeaderTooLong(units)
           /\ ParserReset
  <2>1. IsMagic(units[1]) BY <1>4, <1>5, <1>7
  <2>2. HeaderTooLong(units) BY <1>2, <1>3, <1>7
  <2>3. GivesUp(units) BY <1>7, <2>1, <2>2 DEF GivesUp, ParserReset
  <2> QED BY <1>1, <1>3, <2>3 DEF ParserFeed
<1>8. CASE /\ buf # <<>> \/ IsMagic(Head(line))
           /\ Len(buf) < MaxFrame /\ ~HeaderTooLong(units)
           /\ IF Complete(units) THEN DecodeComplete(units)
                                 ELSE buf' = units /\ UNCHANGED messages
  <2>1. IsMagic(units[1]) BY <1>4, <1>5, <1>8
  <2>2. Completes(units) \/ Keeps(units) BY <1>8, <2>1 DEF Completes, Keeps
  <2> QED BY <1>1, <1>3, <2>2 DEF ParserFeed
<1> QED BY <1>6, <1>7, <1>8 DEF ParserFeed

(* A buffer that is emptied leaves the rest of the line.                     *)
LEMMA FedLeaves ==
  ASSUME LineTyped, line # <<>>, NEW units, units = Append(buf, Head(line)),
         line' = Tail(line), buf' = <<>>
  PROVE  FrontLeaves(Len(units))
<1>1. Tail(line) \in Seq(Units) BY Served DEF LineTyped
<1>2. PICK rest : rest = Tail(line) OBVIOUS
<1>3. <<>> \o rest = rest BY <1>1, <1>2, GluedToNothing
<1>4. Wire' = Tail(line) BY <1>2, <1>3 DEF Wire
<1> QED BY <1>4, FedFacts DEF FrontLeaves

(* A frame that is due is not given up, nor is it cut by one that is         *)
(* complete.                                                                 *)
LEMMA FedDue ==
  ASSUME StreamKept, NodeBuffer, ParserFeed, NEW units, units = Append(buf, Head(line)),
         NEW n \in 1 .. Len(sent), Due(n), sent[n].start >= Before
  PROVE  /\ Skips(units) \/ GivesUp(units) => sent[n].start >= Before + Len(units)
         /\ Completes(units) =>
              \/ sent[n].start >= Before + Len(units)
              \/ /\ units = sent[n].frame /\ Accepted(units)
                 /\ End(n) = Before + Len(units) /\ End(n) > whole_from
<1>1. /\ line # <<>> /\ receiver = "node" /\ Len(buf) < MaxFrame
      /\ StandsBehind(units, 0) /\ Len(units) = Len(buf) + 1 /\ Len(units) \in Nat
      /\ Len(buf) \in Nat /\ units \in Seq(Units)
  <2>1. LineTyped BY DEF StreamKept
  <2>2. line # <<>> /\ receiver = "node" /\ Len(buf) < MaxFrame BY <2>1, FeedCases
  <2> QED BY <2>1, <2>2, FedFacts
<1>2. /\ Longest \in Nat /\ Longest = MaxFrame /\ Longest > 3 /\ Len(units) <= Longest
  BY <1>1, LongestType, LineAssumption DEF HeaderSize
<1>3. Before \in Int /\ sent[n].start \in Nat
  BY SendingFacts, WireFacts DEF StreamKept, LineTyped
<1>4. ~(sent[n].start >= Before + Len(units)) => sent[n].start < Before + 0 + Len(units)
  <2>1. PICK start, b, size : start = sent[n].start /\ b = Before /\ size = Len(units) OBVIOUS
  <2>2. start \in Nat /\ b \in Int /\ size \in Nat BY <1>1, <1>3, <2>1
  <2>3. ~(start >= b + size) => start < b + 0 + size BY <2>2
  <2> QED BY <2>1, <2>3
<1>5. ASSUME Skips(units) PROVE sent[n].start >= Before + Len(units)
  <2>1. Len(units) = 1 /\ ~IsMagic(units[1]) BY <1>5 DEF Skips
  <2>2. Wire[1] = units[1]
    <3>1. 1 \in 1 .. Len(units) BY <2>1
    <3>2. Wire[0 + 1] = units[1] BY <1>1, <3>1 DEF StandsBehind
    <3> QED BY <3>2
  <2>3. \A i \in 1 .. 1 : ~IsMagic(Wire[i]) BY <2>1, <2>2
  <2>4. sent[n].start >= Before + 1 BY <2>3, DueIsNotSkipped
  <2> QED BY <2>1, <2>4
<1>6. ASSUME GivesUp(units) PROVE sent[n].start >= Before + Len(units)
  <2> SUFFICES ASSUME ~(sent[n].start >= Before + Len(units)) PROVE FALSE OBVIOUS
  <2>1. /\ IsMagic(units[1]) /\ Len(units) >= HeaderSize
        /\ FrameSize(LengthField(units)) > MaxFrame
    BY <1>1, <1>6 DEF GivesUp, HeaderTooLong, HeaderSize
  <2>2. PICK size : size = Len(units) OBVIOUS
  <2>3. size \in Nat /\ size <= Longest /\ sent[n].start < Before + 0 + size
    BY <1>1, <1>2, <1>4, <2>2
  <2>4. HeadsFrame(units, 0, n) BY <1>1, <2>1, <2>3, DueHeaderFits
  <2>5. FrameSize(LengthField(units)) <= MaxFrame /\ LengthField(units) \in Nat
    BY <2>4 DEF HeadsFrame
  <2> QED BY <2>1, <2>5, LineAssumption DEF FrameSize, HeaderSize
<1>7. ASSUME Completes(units), ~(sent[n].start >= Before + Len(units))
      PROVE  /\ units = sent[n].frame /\ Accepted(units)
             /\ End(n) = Before + Len(units) /\ End(n) > whole_from
  <2>1. /\ IsMagic(units[1]) /\ Len(units) > HeaderSize
        /\ Len(units) = FrameSize(LengthField(units))
    BY <1>7 DEF Completes, Complete
  <2>2. units = sent[n].frame /\ End(n) = Before + 0 + Len(units) /\ End(n) > whole_from
    BY <1>1, <1>2, <1>4, <1>7, <2>1, DueIsTaken
  <2>3. End(n) = Before + Len(units)
    <3>1. PICK b : b = Before OBVIOUS
    <3>2. b + 0 = b BY <1>3, <3>1
    <3> QED BY <2>2, <3>1, <3>2
  <2>4. sent[n].frame \in Frames BY SendingFacts DEF StreamKept, LineTyped
  <2> QED BY <2>2, <2>3, <2>4, SentIsAccepted
<1> QED BY <1>5, <1>6, <1>7

LEMMA ParserFeedKeeps ==
  ASSUME StreamKept, NodeBuffer, LineTyped', ParserFeed
  PROVE  Tracking' /\ UndamagedSoFar'
<1>1. PICK units : units = Append(buf, Head(line)) OBVIOUS
<1>2. LineTyped BY DEF StreamKept
<1>3. /\ Skips(units) \/ GivesUp(units) \/ Completes(units) \/ Keeps(units)
      /\ line # <<>> /\ line' = Tail(line)
      /\ UNCHANGED <<receiver, parsing, sentVars, damages, whole_from>>
  BY <1>1, <1>2, FeedCases
<1>4. /\ StandsBehind(units, 0) /\ units \o Tail(line) = Wire
      /\ Len(units) = Len(buf) + 1 /\ Len(units) \in Nat /\ Len(buf) \in Nat
      /\ units \in Seq(Units)
  BY <1>1, <1>2, <1>3, FedFacts
<1>5. CASE Skips(units) \/ GivesUp(units)
  <2>1. FrontLeaves(Len(units))
    <3>1. buf' = <<>> BY <1>5 DEF Skips, GivesUp
    <3> QED BY <1>1, <1>2, <1>3, <3>1, FedLeaves
  <2>2. \A n \in 1 .. Len(sent) :
          Due(n) /\ sent[n].start >= Before => sent[n].start >= Before + Len(units)
    BY <1>1, <1>5, FedDue
  <2>3. messages' = messages BY <1>5 DEF Skips, GivesUp
  <2>4. PICK k : k = Len(units) OBVIOUS
  <2>5. /\ FrontLeaves(k)
        /\ \A n \in 1 .. Len(sent) :
             Due(n) /\ sent[n].start >= Before => sent[n].start >= Before + k
    BY <2>1, <2>2, <2>4
  <2> QED BY <1>3, <2>3, <2>5, DropsKeep DEF StreamKept
<1>6. CASE Completes(units) /\ Accepted(units)
  <2>1. Complete(units) /\ buf' = <<>> /\ messages' = Append(messages, Body(units))
    BY <1>6 DEF Completes, DecodeComplete, Accepted
  <2>2. Body(units) \in Seq(Bytes) /\ units[Len(units)] = Checksum(Body(units))
    BY <1>4, <1>6, <2>1, DeliveredBody DEF Complete, Accepted
  <2>3. FrontLeaves(Len(units)) BY <1>1, <1>2, <1>3, <2>1, FedLeaves
  <2>4. /\ Len(units) \in 1 .. Len(Wire) /\ Wire[Len(units)] = units[Len(units)]
    <3>1. Len(units) \in 1 .. Len(units) /\ 0 + Len(units) = Len(units) BY <1>4
    <3>2. Len(Wire) \in Nat BY <1>2, WireFacts
    <3>3. 0 + Len(units) <= Len(Wire) /\ Wire[0 + Len(units)] = units[Len(units)]
      BY <1>4, <3>1 DEF StandsBehind
    <3> QED BY <1>4, <3>1, <3>2, <3>3
  <2>5. PICK body, k : body = Body(units) /\ k = Len(units) OBVIOUS
  <2>6. /\ HandsOn(body) /\ k \in 1 .. Len(Wire) /\ FrontLeaves(k) /\ Wire[k] = Checksum(body)
    BY <2>1, <2>2, <2>3, <2>4, <2>5 DEF HandsOn
  <2>7. \A n \in 1 .. Len(sent) :
          Due(n) /\ sent[n].start >= Before =>
            sent[n].start >= Before + k \/ (End(n) = Before + k /\ Before + k > whole_from)
    BY <1>1, <1>6, <2>5, FedDue
  <2> QED BY <1>3, <2>6, <2>7, HandsOnKeep DEF StreamKept
<1>7. CASE Completes(units) /\ ~Accepted(units)
  <2>1. buf' = <<>> /\ messages' = messages
    BY <1>7 DEF Completes, DecodeComplete, Accepted
  <2>2. FrontLeaves(Len(units)) BY <1>1, <1>2, <1>3, <2>1, FedLeaves
  <2>3. \A n \in 1 .. Len(sent) :
          Due(n) /\ sent[n].start >= Before => sent[n].start >= Before + Len(units)
    BY <1>1, <1>7, FedDue
  <2>4. PICK k : k = Len(units) OBVIOUS
  <2>5. /\ FrontLeaves(k)
        /\ \A n \in 1 .. Len(sent) :
             Due(n) /\ sent[n].start >= Before => sent[n].start >= Before + k
    BY <2>2, <2>3, <2>4
  <2> QED BY <1>3, <2>1, <2>5, DropsKeep DEF StreamKept
<1>8. CASE Keeps(units)
  <2>1. buf' = units /\ messages' = messages BY <1>8 DEF Keeps
  <2>2. Wire' = Wire BY <1>3, <1>4, <2>1 DEF Wire
  <2>3. FrontLeaves(0) BY <1>2, <2>2, WireFacts, BehindItself DEF FrontLeaves
  <2>4. \A n \in 1 .. Len(sent) :
          Due(n) /\ sent[n].start >= Before => sent[n].start >= Before + 0
    <3>1. Before \in Int BY <1>2, WireFacts
    <3>2. Before + 0 = Before BY <3>1
    <3> QED BY <3>2
  <2> QED BY <1>3, <2>1, <2>3, <2>4, DropsKeep DEF StreamKept
<1> QED BY <1>3, <1>5, <1>6, <1>7, <1>8

(* The node's buffer is one that a frame can still come of.                  *)
LEMMA NodeBufferKept ==
  ASSUME LineTyped, NodeBuffer, [LineNext]_lineVars
  PROVE  NodeBuffer'
<1> SUFFICES ASSUME receiver' = "node"
             PROVE  (/\ ~parsing
                     /\ Len(buf) < MaxFrame
                     /\ buf # <<>> => IsMagic(buf[1])
                     /\ Len(buf) >= HeaderSize =>
                          /\ Len(buf) < FrameSize(LengthField(buf))
                          /\ FrameSize(LengthField(buf)) <= MaxFrame)'
  BY DEF NodeBuffer
<1>1. receiver = "node" /\ ~parsing
  <2>1. receiver' = receiver
    BY DEF LineNext, lineVars, Send, Lost, Altered, MadeUp, Damage, ParserFeed, ReadChunk,
           Resynchronise, Wait, Deliver, Discard, Raise, Take, Turn
  <2> QED BY <2>1 DEF NodeBuffer
<1>2. ParserFeed \/ (parsing' = parsing /\ buf' = buf)
  <2>1. Send \/ Lost \/ Altered \/ MadeUp => parsing' = parsing /\ buf' = buf
    BY DEF Send, Lost, Altered, MadeUp, Damage, parserVars
  <2>2. ~ReadChunk BY <1>1 DEF ReadChunk
  <2>3. ~(Resynchronise \/ Wait \/ Deliver \/ Discard \/ Raise)
    BY <1>1 DEF Resynchronise, Wait, Deliver, Discard, Raise, Take, Turn
  <2> QED BY <2>1, <2>2, <2>3 DEF LineNext, lineVars, parserVars
<1>3. CASE parsing' = parsing /\ buf' = buf BY <1>1, <1>3 DEF NodeBuffer
<1>4. CASE ParserFeed
  <2>1. PICK units : units = Append(buf, Head(line)) OBVIOUS
  <2>2. /\ Skips(units) \/ GivesUp(units) \/ Completes(units) \/ Keeps(units)
        /\ line # <<>> /\ parsing' = parsing
    BY <1>4, <2>1, FeedCases
  <2>3. MaxFrame \in Nat /\ MaxFrame > 3 BY LineAssumption DEF HeaderSize
  <2>4. CASE buf' = <<>>
    <3>1. Len(<<>>) = 0 OBVIOUS
    <3> QED BY <1>1, <2>2, <2>3, <2>4, <3>1 DEF HeaderSize
  <2>5. CASE Keeps(units)
    <3>1. /\ units \in Seq(Units) /\ Len(units) = Len(buf) + 1 /\ Len(buf) \in Nat
          /\ \A i \in 1 .. Len(buf) : units[i] = buf[i]
      BY <2>1, <2>2, FedFacts
    <3>2. /\ buf' = units /\ IsMagic(units[1]) /\ ~HeaderTooLong(units) /\ ~Complete(units)
      BY <2>5 DEF Keeps
    <3>3. Len(units) >= 3 => FrameSize(LengthField(units)) \in Nat
                             /\ FrameSize(LengthField(units)) > 3
      BY <3>1, LengthFieldType DEF HeaderSize
    <3>4. CASE Len(units) < 3 BY <1>1, <2>2, <2>3, <3>1, <3>2, <3>4 DEF HeaderSize
    <3>5. CASE Len(units) = 3
      <4>1. FrameSize(LengthField(units)) <= MaxFrame
        BY <2>3, <3>2, <3>3, <3>5 DEF HeaderTooLong, HeaderSize
      <4> QED BY <1>1, <2>2, <2>3, <3>2, <3>3, <3>5, <4>1 DEF HeaderSize
    <3>6. CASE Len(units) > 3
      <4>1. Len(buf) >= 3 BY <3>1, <3>6
      <4>2. LengthField(units) = LengthField(buf)
        BY <3>1, <4>1 DEF LengthField, HeaderSize
      <4>3. /\ Len(buf) < FrameSize(LengthField(units))
            /\ FrameSize(LengthField(units)) <= MaxFrame
        BY <1>1, <4>1, <4>2 DEF NodeBuffer, HeaderSize
      <4>4. Len(units) # FrameSize(LengthField(units))
        BY <3>2, <3>6 DEF Complete, HeaderSize
      <4>5. Len(units) < FrameSize(LengthField(units)) /\ Len(units) < MaxFrame
        <5>1. PICK b, u, size : b = Len(buf) /\ u = Len(units)
                                /\ size = FrameSize(LengthField(units))
          OBVIOUS
        <5>2. b \in Nat /\ u = b + 1 /\ size \in Nat /\ b < size /\ size <= MaxFrame /\ u # size
          BY <3>1, <3>3, <3>6, <4>3, <4>4, <5>1
        <5>3. u < size /\ u < MaxFrame BY <2>3, <5>2
        <5> QED BY <5>1, <5>3
      <4> QED BY <1>1, <2>2, <3>2, <4>3, <4>5
    <3> QED BY <3>1, <3>4, <3>5, <3>6
  <2> QED BY <2>2, <2>4, <2>5 DEF Skips, GivesUp, Completes, DecodeComplete
<1> QED BY <1>2, <1>3, <1>4

-----------------------------------------------------------------------------
(* What a parser accepts was sent: its checksum is one of the stream's.      *)
LEMMA AcceptedWasSent ==
  ASSUME StreamKept, Take, Accepted(Taken)
  PROVE  \E n \in 1 .. Len(sent) : Body(Taken) = Body(sent[n].frame)
<1>1. PICK s \in Nat : FoundAt(s) BY FoundSomewhere DEF StreamKept
<1>2. /\ Size \in Nat /\ Size > HeaderSize /\ Size <= Len(Found)
      /\ Taken \in Seq(Units) /\ Len(Taken) = Size
      /\ \A i \in 1 .. Size : Taken[i] = Found[i]
      /\ Len(Found) \in Nat /\ Len(Wire) \in Nat
  BY TakenFacts, FoundType, WireFacts DEF Take, StreamKept
<1>3. Body(Taken) \in Seq(Bytes) /\ Taken[Size] = Checksum(Body(Taken))
  BY <1>2, DeliveredBody DEF Accepted
<1>4. Size \in 1 .. Size /\ Size \in 1 .. Len(Found) BY <1>2 DEF HeaderSize
<1>5. PICK k \in 1 .. Len(Wire) : Wire[k] = Checksum(Body(Taken))
  <2>1. s + Len(Found) <= Len(Wire) /\ Wire[s + Size] = Found[Size]
    BY <1>1, <1>4 DEF FoundAt, StandsBehind
  <2>2. s + Size \in 1 .. Len(Wire) BY <1>2, <1>4, <2>1
  <2>3. Wire[s + Size] = Checksum(Body(Taken)) BY <1>2, <1>3, <1>4, <2>1
  <2> QED BY <2>2, <2>3
<1>6. PICK where \in [1 .. Len(Wire) -> Nat], past \in [1 .. Len(messages) -> Nat] :
        Tracks(Wire, Before, stream, whole_from, messages, where, past)
  BY DEF Tracking, StreamKept
<1>7. Wire[k] \in Checksums BY <1>3, <1>5, UnitKinds
<1>8. where[k] \in 1 .. Len(stream) /\ stream[where[k]] = Wire[k] BY <1>6, <1>7 DEF Tracks
<1>9. PICK p \in 1 .. Len(stream) : stream[p] = Checksum(Body(Taken)) BY <1>5, <1>8
<1>10. PICK n \in 1 .. Len(sent) : stream[p] = Checksum(Body(sent[n].frame))
  <2>1. stream[p] \in Checksums BY <1>3, <1>9, UnitKinds
  <2>2. sent \in Seq(Sendings) /\ stream \in Seq(Units) /\ Laid(sent, stream)
    BY DEF StreamKept, LineTyped
  <2> QED BY <2>1, <2>2, ChecksumPlace
<1>11. Body(Taken) = Body(sent[n].frame) BY <1>9, <1>10, UnitKinds
<1> QED BY <1>11

LEMMA SameMembers ==
  ASSUME NEW units \in Seq(Units), Len(units) > HeaderSize,
         NEW frame \in Frames, Body(units) = Body(frame), HasNoMember(units)
  PROVE  HasNoMember(frame)
<1>1. Len(units) \in Nat /\ Len(frame) \in Nat /\ Len(frame) > 3 /\ Len(units) > 3
      /\ frame \in Seq(Units)
  BY FrameFacts DEF HeaderSize
<1>2. /\ Len(Body(units)) = Len(units) - 1
      /\ \A i \in 1 .. Len(units) - 1 : Body(units)[i] = units[i]
  BY <1>1 DEF Body, Front
<1>3. /\ Len(Body(frame)) = Len(frame) - 1
      /\ \A i \in 1 .. Len(frame) - 1 : Body(frame)[i] = frame[i]
  BY <1>1 DEF Body, Front
<1>4. PICK k \in 4 .. Len(units) - 1 : units[k] = Byte(NoMember) BY DEF HasNoMember
<1>5. k \in 1 .. Len(units) - 1 /\ k \in 4 .. Len(frame) - 1 /\ k \in 1 .. Len(frame) - 1
  BY <1>1, <1>2, <1>3, <1>4
<1>6. frame[k] = Byte(NoMember) BY <1>2, <1>3, <1>4, <1>5
<1> QED BY <1>5, <1>6 DEF HasNoMember

(* Between two reads the governance tier holds less than the longest frame,  *)
(* unless its parser was made to raise.                                      *)
LEMMA TierBufferKept ==
  ASSUME StreamKept, NodeBuffer, TierBuffer, [LineNext]_lineVars
  PROVE  TierBuffer'
<1> SUFFICES ASSUME receiver' = "tier", ~parsing', AllMembers'
             PROVE  Len(buf') < FrameSize(MaxPayload)
  BY DEF TierBuffer
<1>1. receiver = "tier"
  <2>1. receiver' = receiver
    BY DEF LineNext, lineVars, Send, Lost, Altered, MadeUp, Damage, ParserFeed, ReadChunk,
           Resynchronise, Wait, Deliver, Discard, Raise, Take, Turn
  <2> QED BY <2>1
<1>2. AllMembers
  <2>1. CASE Send
    <3>1. PICK record : sent' = Append(sent, record) BY <2>1 DEF Send
    <3>2. sent \in Seq(Sendings) /\ Len(sent) \in Nat BY DEF StreamKept, LineTyped
    <3>3. Len(sent') = Len(sent) + 1 /\ \A n \in 1 .. Len(sent) : sent'[n] = sent[n]
      BY <3>1, <3>2
    <3>4. \A n \in 1 .. Len(sent) : n \in 1 .. Len(sent') BY <3>2, <3>3
    <3>5. ASSUME NEW n \in 1 .. Len(sent) PROVE ~HasNoMember(sent[n].frame)
      <4>1. ~HasNoMember(sent'[n].frame) BY <3>4 DEF AllMembers
      <4> QED BY <3>3, <4>1
    <3> QED BY <3>5 DEF AllMembers
  <2>2. CASE sent' = sent BY <2>2 DEF AllMembers
  <2> QED BY <2>1, <2>2
      DEF LineNext, lineVars, sentVars, Lost, Altered, MadeUp, Damage, ParserFeed, ReadChunk,
          Resynchronise, Wait, Deliver, Discard, Raise, Take, Turn
<1>3. CASE buf' = buf /\ parsing' = parsing BY <1>1, <1>2, <1>3 DEF TierBuffer
<1>4. CASE Wait
  <2>1. buf' = Found /\ ~TooLong(Found) /\ ~HasFrame(Found) BY <1>4 DEF Wait
  <2>2. Found \in Seq(Units) /\ Len(Found) \in Nat /\ MaxPayload \in Nat
    BY FoundType, LineAssumption DEF StreamKept
  <2>3. CASE Len(Found) < HeaderSize BY <2>1, <2>2, <2>3 DEF FrameSize, HeaderSize
  <2>4. CASE Len(Found) >= HeaderSize
    <3>1. LengthField(Found) \in Nat BY <2>2, <2>4, LengthFieldType
    <3>2. LengthField(Found) <= MaxPayload BY <1>1, <2>1, <2>2, <2>4, <3>1 DEF TooLong
    <3>3. Len(Found) < FrameSize(LengthField(Found))
      BY <2>1, <2>2, <2>4, <3>1 DEF HasFrame, FrameSize, HeaderSize
    <3> QED BY <2>1, <2>2, <3>1, <3>2, <3>3 DEF FrameSize, HeaderSize
  <2> QED BY <2>2, <2>3, <2>4 DEF HeaderSize
<1>5. ~Raise
  <2> SUFFICES ASSUME Raise PROVE FALSE OBVIOUS
  <2>1. Take /\ Accepted(Taken) /\ HasNoMember(Taken) BY DEF Raise
  <2>2. PICK n \in 1 .. Len(sent) : Body(Taken) = Body(sent[n].frame)
    BY <2>1, AcceptedWasSent
  <2>3. Taken \in Seq(Units) /\ Len(Taken) > HeaderSize
    BY <2>1, TakenFacts DEF Take, StreamKept
  <2>4. sent[n].frame \in Frames BY SendingFacts DEF StreamKept, LineTyped
  <2>5. HasNoMember(sent[n].frame)
    <3>1. PICK units, frame : units = Taken /\ frame = sent[n].frame OBVIOUS
    <3>2. HasNoMember(frame) BY <2>1, <2>2, <2>3, <2>4, <3>1, SameMembers
    <3> QED BY <3>1, <3>2
  <2> QED BY <1>2, <2>5 DEF AllMembers
<1>6. ~ParserFeed /\ ~ReadChunk BY <1>1 DEF ParserFeed, ReadChunk
<1>7. ~(Resynchronise \/ Deliver \/ Discard)
  BY DEF Resynchronise, Deliver, Discard, Take, Turn
<1>8. Send \/ Lost \/ Altered \/ MadeUp \/ UNCHANGED lineVars => buf' = buf /\ parsing' = parsing
  BY DEF Send, Lost, Altered, MadeUp, Damage, parserVars, lineVars
<1> QED BY <1>3, <1>4, <1>5, <1>6, <1>7, <1>8 DEF LineNext

(* The governance tier's program is handed no value without a meaning.       *)
LEMMA MembersArriveKept ==
  ASSUME LineTyped, MembersArrive, [LineNext]_lineVars
  PROVE  MembersArrive'
<1> SUFFICES ASSUME receiver' = "tier"
             PROVE  (\A i \in 1 .. Len(messages) : \A k \in 4 .. Len(messages[i]) :
                       messages[i][k] # Byte(NoMember))'
  BY DEF MembersArrive
<1>1. receiver = "tier"
  <2>1. receiver' = receiver
    BY DEF LineNext, lineVars, Send, Lost, Altered, MadeUp, Damage, ParserFeed, ReadChunk,
           Resynchronise, Wait, Deliver, Discard, Raise, Take, Turn
  <2> QED BY <2>1
<1>2. CASE Deliver
  <2>1. messages' = Append(messages, Body(Taken)) /\ ~HasNoMember(Taken)
    BY <1>1, <1>2 DEF Deliver
  <2>2. Taken \in Seq(Units) /\ Len(Taken) > HeaderSize
    BY <1>2, TakenFacts DEF Deliver, Take
  <2>3. Body(Taken) \in Seq(Bytes) /\ Len(Body(Taken)) = Len(Taken) - 1
        /\ \A i \in 1 .. Len(Taken) - 1 : Body(Taken)[i] = Taken[i]
    BY <1>2, <2>2, DeliveredBody DEF Deliver, Accepted
  <2>4. ASSUME NEW k \in 4 .. Len(Body(Taken)) PROVE Body(Taken)[k] # Byte(NoMember)
    <3>1. k \in 4 .. Len(Taken) - 1 /\ k \in 1 .. Len(Taken) - 1 BY <2>2, <2>3
    <3> QED BY <2>1, <2>3, <3>1 DEF HasNoMember
  <2>5. Len(messages') = Len(messages) + 1 /\ Len(messages) \in Nat
        /\ messages'[Len(messages) + 1] = Body(Taken)
        /\ \A i \in 1 .. Len(messages) : messages'[i] = messages[i]
    <3>1. PICK S, list, body : S = Seq(Bytes) /\ list = messages /\ body = Body(Taken) OBVIOUS
    <3>2. list \in Seq(S) /\ body \in S BY <2>3, <3>1 DEF LineTyped
    <3>3. /\ Len(Append(list, body)) = Len(list) + 1 /\ Len(list) \in Nat
          /\ Append(list, body)[Len(list) + 1] = body
          /\ \A i \in 1 .. Len(list) : Append(list, body)[i] = list[i]
      BY <3>2, Appended
    <3> QED BY <2>1, <3>1, <3>3
  <2>6. ASSUME NEW i \in 1 .. Len(messages')
        PROVE  \A k \in 4 .. Len(messages'[i]) : messages'[i][k] # Byte(NoMember)
    <3>1. i = Len(messages) + 1 \/ i \in 1 .. Len(messages) BY <2>5
    <3>2. CASE i = Len(messages) + 1 BY <2>4, <2>5, <3>2
    <3>3. CASE i \in 1 .. Len(messages) BY <1>1, <2>5, <3>3 DEF MembersArrive
    <3> QED BY <3>1, <3>2, <3>3
  <2> QED BY <2>6
<1>3. CASE messages' = messages BY <1>1, <1>3 DEF MembersArrive
<1>4. ~ParserFeed BY <1>1 DEF ParserFeed
<1> QED BY <1>2, <1>3, <1>4
    DEF LineNext, lineVars, parserVars, Send, Lost, Altered, MadeUp, Damage, ReadChunk,
        Resynchronise, Wait, Discard, Raise

-----------------------------------------------------------------------------
LEMMA LineStep == LineInv /\ [LineNext]_lineVars => LineInv'
<1> SUFFICES ASSUME LineInv, [LineNext]_lineVars PROVE LineInv' OBVIOUS
<1>1. LineTyped /\ LineTyped' BY LineTypedKept DEF LineInv
<1>2. StreamKept /\ NodeBuffer BY DEF LineInv, StreamKept
<1>3. NodeBuffer' /\ TierBuffer' /\ MembersArrive'
  BY <1>1, <1>2, NodeBufferKept, TierBufferKept, MembersArriveKept DEF LineInv
<1>4. CASE Send
  <2>1. Laid(sent, stream)' /\ Tracking' /\ UndamagedSoFar'
    BY <1>1, <1>4, SendKeeps DEF LineInv
  <2> QED BY <1>1, <1>3, <2>1 DEF LineInv
<1>5. CASE ~Send
  <2>1. Laid(sent, stream)'
    <3>1. sent' = sent /\ stream' = stream
      BY <1>5 DEF LineNext, lineVars, sentVars, Lost, Altered, MadeUp, Damage, ParserFeed,
                  ReadChunk, Resynchronise, Wait, Deliver, Discard, Raise, Take, Turn
    <3> QED BY <3>1 DEF LineInv
  <2>2. Tracking' /\ UndamagedSoFar'
    <3>1. Lost \/ Altered \/ MadeUp => Tracking' /\ UndamagedSoFar'
      BY <1>1, LineKeeps DEF LineInv
    <3>2. UNCHANGED lineVars => Tracking' /\ UndamagedSoFar'
      <4> SUFFICES ASSUME UNCHANGED lineVars PROVE Tracking' /\ UndamagedSoFar' OBVIOUS
      <4>1. /\ receiver' = receiver /\ line' = line /\ buf' = buf /\ messages' = messages
            /\ stream' = stream /\ sent' = sent /\ damages' = damages
            /\ whole_from' = whole_from
        BY DEF lineVars, parserVars, sentVars
      <4>2. Wire' = Wire /\ Before' = Before BY <4>1 DEF Wire, Before
      <4>3. Tracking'
        BY <4>1, <4>2 DEF LineInv, Tracking, Covered, Due, AllPlain, Clear, Raises, End, Longest
      <4>4. UndamagedSoFar' BY <4>1, <4>2 DEF LineInv, UndamagedSoFar
      <4> QED BY <4>3, <4>4
    <3> QED BY <1>1, <1>2, <1>5, <3>1, <3>2, ParserFeedKeeps, ReadChunkKeeps,
               ResynchroniseKeeps, WaitKeeps, DeliverKeeps, DiscardKeeps
            DEF LineNext
  <2> QED BY <1>1, <1>3, <2>1, <2>2 DEF LineInv
<1> QED BY <1>4, <1>5

LEMMA LineStart == LineInit => LineInv
<1> SUFFICES ASSUME LineInit PROVE LineInv OBVIOUS
<1>1. /\ receiver \in Receivers /\ line = <<>> /\ buf = <<>> /\ messages = <<>>
      /\ stream = <<>> /\ sent = <<>> /\ parsing = FALSE /\ damages = 0 /\ whole_from = 0
      /\ Len(<<>>) = 0 /\ 1 .. 0 = {}
  BY DEF LineInit
<1>2. LineTyped
  <2>1. MaxDamage \in Nat /\ 0 \in 0 .. MaxDamage BY LineAssumption
  <2>2. \A S : <<>> \in Seq(S) OBVIOUS
  <2>3. 0 \in 0 .. 0 OBVIOUS
  <2>4. whole_from \in 0 .. Len(stream) BY <1>1, <2>3
  <2> QED BY <1>1, <2>1, <2>2, <2>4 DEF LineTyped
<1>3. Wire = <<>> /\ Len(Wire) = 0 /\ Before = 0
  <2>1. <<>> \o <<>> = <<>> /\ 0 - 0 - 0 = 0 OBVIOUS
  <2>2. Wire = <<>> BY <1>1, <2>1 DEF Wire
  <2>3. Len(stream) = 0 /\ Len(buf) = 0 /\ Len(line) = 0 /\ Len(Wire) = 0 BY <1>1, <2>2
  <2>4. Before = 0 - 0 - 0 BY <2>3 DEF Before
  <2> QED BY <2>1, <2>2, <2>3, <2>4
<1>4. NodeBuffer
  <2>1. MaxFrame \in Nat /\ MaxFrame > 3 BY LineAssumption DEF HeaderSize
  <2>2. Len(buf) = 0 BY <1>1
  <2>3. Len(buf) < MaxFrame /\ ~(Len(buf) >= HeaderSize) BY <2>1, <2>2 DEF HeaderSize
  <2> QED BY <1>1, <2>3 DEF NodeBuffer
<1>5. TierBuffer /\ MembersArrive
  <2>1. MaxPayload \in Nat BY LineAssumption
  <2>2. Len(buf) = 0 BY <1>1
  <2>3. Len(buf) < FrameSize(MaxPayload) BY <2>1, <2>2 DEF FrameSize, HeaderSize
  <2>4. MembersArrive BY <1>1 DEF MembersArrive
  <2> QED BY <2>3, <2>4 DEF TierBuffer
<1>6. Laid(sent, stream) BY <1>1 DEF Laid
<1>7. UndamagedSoFar BY <1>1, <1>3 DEF UndamagedSoFar
<1>8. Tracking
  <2>1. PICK none \in [{} -> Nat] : TRUE
    <3>1. [i \in {} |-> 0] \in [{} -> Nat] OBVIOUS
    <3> QED BY <3>1
  <2>2. Tracks(Wire, Before, stream, whole_from, messages, none, none) BY <1>1, <1>3 DEF Tracks
  <2>3. Covered(none) BY <1>1 DEF Covered
  <2>4. none \in [1 .. Len(Wire) -> Nat] /\ none \in [1 .. Len(messages) -> Nat]
    BY <1>1, <1>3
  <2> QED BY <2>2, <2>3, <2>4 DEF Tracking
<1> QED BY <1>2, <1>4, <1>5, <1>6, <1>7, <1>8 DEF LineInv

(* The invariant is one of every behaviour.                                  *)
LEMMA LineAlwaysKept == LineSpec => []LineInv
<1>1. LineInit => LineInv BY LineStart
<1>2. LineInv /\ [LineNext]_lineVars => LineInv' BY LineStep
<1> QED BY <1>1, <1>2, PTL DEF LineSpec

(* The types and the buffers' bounds hold, for every codec, limit and set of *)
(* frames (ipc_frame.cpp:154-170, codec.py:566-584).                         *)
THEOREM LineTypesHold == LineSpec => []LineTypeOK
<1>1. LineInv => LineTypeOK
  <2> SUFFICES ASSUME LineInv PROVE LineTypeOK OBVIOUS
  <2>1. LineTyped /\ NodeBuffer /\ TierBuffer BY DEF LineInv
  <2> QED BY <2>1 DEF LineTypeOK, LineTyped, NodeBuffer, TierBuffer, AllMembers
<1> QED BY <1>1, LineAlwaysKept, PTL

-----------------------------------------------------------------------------
(* Where what has arrived was sent: each message at the place of the         *)
(* checksum it came with.                                                    *)
ArrivedAt(from, past) ==
  /\ from \in Origins /\ ArrivedFrom(from)
  /\ \A i \in 1 .. Len(messages) : End(from[i]) = past[i]

LEMMA EachWasSent ==
  ASSUME LineTyped, Laid(sent, stream), NEW where, NEW past \in [1 .. Len(messages) -> Nat],
         Tracks(Wire, Before, stream, whole_from, messages, where, past)
  PROVE  \E from : ArrivedAt(from, past)
<1> DEFINE Sent(n, i) == End(n) = past[i] /\ messages[i] = Body(sent[n].frame)
           from == [i \in 1 .. Len(messages) |-> CHOOSE n \in 1 .. Len(sent) : Sent(n, i)]
<1>1. ASSUME NEW i \in 1 .. Len(messages) PROVE \E n \in 1 .. Len(sent) : Sent(n, i)
  <2>1. messages[i] \in Seq(Bytes)
    <3>1. PICK S, list : S = Seq(Bytes) /\ list = messages OBVIOUS
    <3>2. list \in Seq(S) /\ i \in 1 .. Len(list) BY <3>1 DEF LineTyped
    <3>3. list[i] \in S BY <3>2
    <3> QED BY <3>1, <3>3
  <2>2. past[i] \in 1 .. Len(stream) /\ stream[past[i]] = Checksum(messages[i]) BY DEF Tracks
  <2>3. PICK p \in 1 .. Len(stream) : p = past[i] /\ stream[p] = Checksum(messages[i])
    BY <2>2
  <2>4. stream[p] \in Checksums BY <2>1, <2>3, UnitKinds
  <2>5. sent \in Seq(Sendings) /\ stream \in Seq(Units) BY DEF LineTyped
  <2>6. PICK n \in 1 .. Len(sent) :
          /\ p = sent[n].start + Len(sent[n].frame)
          /\ stream[p] = Checksum(Body(sent[n].frame))
    BY <2>4, <2>5, ChecksumPlace
  <2>7. messages[i] = Body(sent[n].frame) BY <2>3, <2>6, UnitKinds
  <2> QED BY <2>3, <2>6, <2>7 DEF End
<1>2. ASSUME NEW i \in 1 .. Len(messages)
      PROVE  from[i] \in 1 .. Len(sent) /\ Sent(from[i], i)
  <2>1. from[i] = CHOOSE n \in 1 .. Len(sent) : Sent(n, i) OBVIOUS
  <2> HIDE DEF Sent, from
  <2> QED BY <1>1, <2>1
<1>3. from \in Origins
  <2>1. from = [i \in 1 .. Len(messages) |-> from[i]] OBVIOUS
  <2> HIDE DEF Sent, from
  <2> QED BY <1>2, <2>1 DEF Origins
<1> HIDE DEF from
<1>4. ASSUME NEW i \in 1 .. Len(messages), NEW j \in 1 .. Len(messages), i < j
      PROVE  from[i] < from[j]
  <2>1. past[i] < past[j] BY <1>4 DEF Tracks
  <2>2. PICK m, n : m = from[i] /\ n = from[j] OBVIOUS
  <2>3. m \in 1 .. Len(sent) /\ n \in 1 .. Len(sent)
        /\ sent[m].start + Len(sent[m].frame) < sent[n].start + Len(sent[n].frame)
    BY <1>2, <2>1, <2>2 DEF End
  <2>4. sent \in Seq(Sendings) BY DEF LineTyped
  <2>5. m < n BY <2>3, <2>4, OneFrameAtAPlace
  <2> QED BY <2>2, <2>5
<1>5. ArrivedAt(from, past) BY <1>2, <1>3, <1>4 DEF ArrivedAt, ArrivedFrom
<1> QED BY <1>5

(* Nothing arrives that was not sent, twice, or out of order, whatever the   *)
(* line does, however long its frames and however often it is damaged        *)
(* (ipc_frame.cpp:107-119, codec.py:446-452, alvik ipc_codec.py:106-121).    *)
THEOREM OnlySentArrive == LineSpec => []OnlySentFramesArrive
<1>1. LineInv => OnlySentFramesArrive
  <2> SUFFICES ASSUME LineInv PROVE OnlySentFramesArrive OBVIOUS
  <2>1. PICK where \in [1 .. Len(Wire) -> Nat], past \in [1 .. Len(messages) -> Nat] :
          Tracks(Wire, Before, stream, whole_from, messages, where, past)
    BY DEF LineInv, Tracking
  <2>2. PICK from : ArrivedAt(from, past) BY <2>1, EachWasSent DEF LineInv
  <2> QED BY <2>2 DEF OnlySentFramesArrive, ArrivedAt
<1> QED BY <1>1, LineAlwaysKept, PTL

-----------------------------------------------------------------------------
(* A frame that is due and has been read, but not parsed, cannot be waiting  *)
(* behind a header whose frame is not complete.                              *)
LEMMA DueIsNotHidden ==
  ASSUME StreamKept, NEW n \in 1 .. Len(sent), Due(n), sent[n].start >= Before,
         End(n) <= ReadSoFar,
         NEW units, NEW s, StandsBehind(units, s), s + Len(units) = Len(buf),
         Len(units) > 0 => IsMagic(units[1]), Len(units) < Longest
  PROVE  /\ Len(units) >= HeaderSize
         /\ FrameSize(LengthField(units)) <= Len(units)
<1>1. LineTyped /\ sent \in Seq(Sendings) BY DEF StreamKept, LineTyped
<1>2. /\ Before \in Int /\ Len(buf) \in Nat /\ ReadSoFar = Before + Len(buf)
      /\ Longest \in Nat
  BY <1>1, ReadSoFarType, LongestType
<1>3. /\ s \in Nat /\ Len(units) \in Nat /\ units \in Seq(Units)
      /\ \A i \in 1 .. s : ~IsMagic(Wire[i])
  BY DEF StandsBehind
<1>4. sent[n].start >= Before + s BY <1>3, DueIsNotSkipped
<1>5. PICK start, long, size, b :
        start = sent[n].start /\ long = Len(sent[n].frame) /\ size = Len(units) /\ b = Before
  OBVIOUS
<1>6. /\ start \in Nat /\ long \in Nat /\ long > 3 /\ size \in Nat /\ b \in Int
      /\ start >= b + s /\ start + long <= b + (s + size) /\ size < Longest
  BY <1>1, <1>2, <1>3, <1>4, <1>5, SendingFacts DEF End, HeaderSize
<1>7. size > 3 /\ start < b + s + size /\ size <= Longest BY <1>2, <1>3, <1>6
<1>8. HeadsFrame(units, s, n)
  <2>1. /\ Len(units) >= HeaderSize /\ IsMagic(units[1]) /\ size \in Nat /\ size <= Longest
        /\ sent[n].start < Before + s + size
    BY <1>5, <1>6, <1>7 DEF HeaderSize
  <2> QED BY <2>1, DueHeaderFits
<1>9. PICK m \in 1 .. Len(sent) :
        /\ Before + s = sent[m].start
        /\ m = n \/ End(m) <= sent[n].start
        /\ FrameSize(LengthField(units)) = Len(sent[m].frame)
  BY <1>8 DEF HeadsFrame
<1>10. Len(sent[m].frame) <= size
  <2>1. PICK begin, lasts : begin = sent[m].start /\ lasts = Len(sent[m].frame) OBVIOUS
  <2>2. /\ begin \in Nat /\ lasts \in Nat /\ b + s = begin
        /\ (begin = start /\ lasts = long) \/ begin + lasts <= start
    BY <1>1, <1>5, <1>9, <2>1, SendingFacts DEF End
  <2>3. lasts <= size BY <1>3, <1>6, <2>2
  <2> QED BY <2>1, <2>3
<1> QED BY <1>5, <1>7, <1>9, <1>10 DEF HeaderSize

(* So when nothing is left to parse, all that had to arrive has.             *)
LEMMA DueIsParsed ==
  ASSUME StreamKept, NodeBuffer, receiver = "tier" => Settled,
         NEW n \in 1 .. Len(sent), Due(n), End(n) <= ReadSoFar
  PROVE  sent[n].start < Before
<1> SUFFICES ASSUME ~(sent[n].start < Before) PROVE FALSE OBVIOUS
<1>1. LineTyped BY DEF StreamKept
<1>2. sent[n].start >= Before
  <2>1. Before \in Int /\ sent[n].start \in Nat
    BY <1>1, SendingFacts, WireFacts DEF LineTyped
  <2> QED BY <2>1
<1>3. receiver = "node" \/ receiver = "tier"
  BY <1>1, LineAssumption DEF Due, LineTyped
<1>4. /\ buf \in Seq(Units) /\ Len(buf) \in Nat /\ Len(Wire) \in Nat
      /\ Len(Wire) = Len(buf) + Len(line) /\ Len(line) \in Nat
      /\ \A i \in 1 .. Len(buf) : Wire[i] = buf[i]
  BY <1>1, WireFacts DEF LineTyped
<1>5. CASE receiver = "node"
  <2>1. Longest = MaxFrame /\ Len(buf) < Longest BY <1>5, LongestType DEF NodeBuffer
  <2>2. StandsBehind(buf, 0)
    <3>1. 0 + Len(buf) <= Len(Wire) /\ \A i \in 1 .. Len(buf) : 0 + i = i BY <1>4
    <3>2. 1 .. 0 = {} OBVIOUS
    <3> QED BY <1>4, <3>1, <3>2 DEF StandsBehind
  <2>3. Len(buf) > 0 => IsMagic(buf[1])
    <3>1. Len(buf) > 0 => buf # <<>> OBVIOUS
    <3> QED BY <1>5, <3>1 DEF NodeBuffer
  <2>4. PICK units : units = buf OBVIOUS
  <2>5. /\ StandsBehind(units, 0) /\ 0 + Len(units) = Len(buf)
        /\ Len(units) > 0 => IsMagic(units[1])
        /\ Len(units) < Longest
    BY <1>4, <2>1, <2>2, <2>3, <2>4
  <2>6. Len(units) >= HeaderSize /\ FrameSize(LengthField(units)) <= Len(units)
    BY <1>2, <2>5, DueIsNotHidden
  <2>7. Len(buf) < FrameSize(LengthField(buf)) BY <1>5, <2>4, <2>6 DEF NodeBuffer
  <2>8. FrameSize(LengthField(buf)) \in Nat BY <1>4, <2>4, <2>6, LengthFieldType
  <2> QED BY <1>4, <2>4, <2>6, <2>7, <2>8
<1>6. CASE receiver = "tier"
  <2>1. PICK s \in Nat : FoundAt(s) BY <1>1, FoundSomewhere
  <2>2. /\ StandsBehind(Found, s) /\ Len(Found) = Len(buf) - s
        /\ Len(Found) > 0 => IsMagic(Found[1])
        /\ Found \in Seq(Units) /\ Len(Found) \in Nat
    BY <1>1, <2>1, FoundType DEF FoundAt, Behind
  <2>3. s + Len(Found) = Len(buf) BY <1>4, <2>2
  <2>4. ~TooLong(Found) /\ ~HasFrame(Found) BY <1>6 DEF Settled
  <2>5. Len(Found) >= HeaderSize => /\ LengthField(Found) \in Nat
                                    /\ LengthField(Found) <= MaxPayload
                                    /\ Len(Found) < FrameSize(LengthField(Found))
    <3> SUFFICES ASSUME Len(Found) >= HeaderSize
                 PROVE  /\ LengthField(Found) \in Nat
                        /\ LengthField(Found) <= MaxPayload
                        /\ Len(Found) < FrameSize(LengthField(Found))
      OBVIOUS
    <3>1. LengthField(Found) \in Nat /\ FrameSize(LengthField(Found)) \in Nat
      BY <2>2, LengthFieldType
    <3>2. ~(LengthField(Found) > MaxPayload) BY <1>6, <2>4 DEF TooLong
    <3>3. ~(Len(Found) >= FrameSize(LengthField(Found))) BY <2>4 DEF HasFrame
    <3> QED BY <2>2, <3>1, <3>2, <3>3, LineAssumption
  <2>6. Len(Found) < Longest
    <3>1. /\ Longest \in Nat /\ Longest > 3 /\ Longest = FrameSize(MaxPayload)
          /\ MaxPayload \in Nat
      BY <1>6, LongestType, LineAssumption DEF HeaderSize
    <3>2. CASE Len(Found) < HeaderSize BY <2>2, <3>1, <3>2 DEF HeaderSize
    <3>3. CASE Len(Found) >= HeaderSize
      BY <2>2, <2>5, <3>1, <3>3 DEF FrameSize, HeaderSize
    <3> QED BY <2>2, <3>2, <3>3 DEF HeaderSize
  <2>7. PICK units : units = Found OBVIOUS
  <2>8. /\ StandsBehind(units, s) /\ s + Len(units) = Len(buf)
        /\ Len(units) > 0 => IsMagic(units[1])
        /\ Len(units) < Longest
    BY <2>2, <2>3, <2>6, <2>7
  <2>9. Len(units) >= HeaderSize /\ FrameSize(LengthField(units)) <= Len(units)
    BY <1>2, <2>8, DueIsNotHidden
  <2>10. FrameSize(LengthField(Found)) \in Nat BY <2>2, <2>7, <2>9, LengthFieldType
  <2> QED BY <2>2, <2>5, <2>7, <2>9, <2>10
<1> QED BY <1>3, <1>5, <1>6

(* What arrives behind a frame that had to is one that had to.               *)
LEMMA LaterMustArrive ==
  ASSUME LineInv, NEW where, NEW past \in [1 .. Len(messages) -> Nat],
         Tracks(Wire, Before, stream, whole_from, messages, where, past),
         NEW from, ArrivedAt(from, past),
         NEW n \in MustArrive, NEW i \in 1 .. Len(messages), n < from[i]
  PROVE  from[i] \in MustArrive
<1>1. LineTyped /\ sent \in Seq(Sendings) /\ Laid(sent, stream) /\ UndamagedSoFar
  BY DEF LineInv, LineTyped
<1>2. PICK m : m = from[i] OBVIOUS
<1>3. /\ m \in 1 .. Len(sent) /\ n \in 1 .. Len(sent) /\ n < m
      /\ messages[i] = Body(sent[m].frame) /\ End(m) = past[i]
  BY <1>2 DEF ArrivedAt, ArrivedFrom, Origins, MustArrive
<1>4. /\ sent[n].start \in Nat /\ Len(sent[n].frame) \in Nat /\ Len(sent[n].frame) > 0
      /\ sent[m].start \in Nat /\ Len(sent[m].frame) \in Nat /\ Len(sent[m].frame) > 0
      /\ sent[m].frame \in Frames
      /\ sent[n].start + Len(sent[n].frame) <= sent[m].start
  <2>1. /\ sent[n].start \in Nat /\ Len(sent[n].frame) \in Nat /\ Len(sent[n].frame) > 0
    BY <1>1, <1>3, SendingFacts DEF HeaderSize
  <2>2. /\ sent[m].start \in Nat /\ Len(sent[m].frame) \in Nat /\ Len(sent[m].frame) > 0
        /\ sent[m].frame \in Frames
    BY <1>1, <1>3, SendingFacts DEF HeaderSize
  <2>3. sent[n].start + Len(sent[n].frame) <= sent[m].start BY <1>1, <1>3 DEF Laid
  <2> QED BY <2>1, <2>2, <2>3
<1>5. /\ Longest \in Nat /\ Longest > 3 /\ whole_from \in Nat /\ damages \in Nat
      /\ Before \in Int /\ Len(buf) \in Nat /\ ReadSoFar = Before + Len(buf)
  BY <1>1, LongestType, WireFacts, ReadSoFarType DEF HeaderSize, LineTyped
<1>6. PICK a, l, c, d, whole, longest :
        /\ a = sent[n].start /\ l = Len(sent[n].frame) /\ c = sent[m].start
        /\ d = Len(sent[m].frame) /\ whole = whole_from /\ longest = Longest
  OBVIOUS
<1>7. /\ a \in Nat /\ l \in Nat /\ l > 0 /\ c \in Nat /\ d \in Nat /\ d > 0 /\ a + l <= c
      /\ whole \in Nat /\ longest \in Nat /\ longest > 3
      /\ damages > 0 => a >= whole + longest - 1
  BY <1>4, <1>5, <1>6 DEF MustArrive, Clear
<1>8. Clear(m)
  <2>1. damages > 0 => c >= whole + longest - 1 BY <1>7
  <2> QED BY <1>6, <2>1 DEF Clear
<1>9. End(m) <= ReadSoFar
  <2>1. past[i] <= Before \/ past[i] <= whole_from BY DEF Tracks
  <2>2. ~(past[i] <= whole_from)
    <3>1. past[i] = c + d BY <1>3, <1>6 DEF End
    <3>2. CASE damages > 0
      <4>1. a >= whole + longest - 1 BY <1>7, <3>2
      <4>2. ~(c + d <= whole) BY <1>7, <4>1
      <4> QED BY <1>6, <3>1, <4>2
    <3>3. CASE damages = 0
      <4>1. whole = 0 BY <1>1, <1>6, <3>3 DEF UndamagedSoFar
      <4> QED BY <1>6, <1>7, <3>1, <4>1
    <3> QED BY <1>5, <3>2, <3>3
  <2>3. past[i] \in Nat OBVIOUS
  <2> QED BY <1>3, <1>5, <2>1, <2>2, <2>3
<1>10. ~Raises(m)
  <2> SUFFICES ASSUME receiver = "tier", HasNoMember(sent[m].frame) PROVE FALSE BY DEF Raises
  <2>1. PICK frame : frame = sent[m].frame OBVIOUS
  <2>2. frame \in Frames /\ frame \in Seq(Units) /\ Len(frame) \in Nat /\ Len(frame) > 3
    BY <1>4, <2>1, FrameFacts DEF HeaderSize
  <2>3. /\ Len(Body(frame)) = Len(frame) - 1
        /\ \A k \in 1 .. Len(frame) - 1 : Body(frame)[k] = frame[k]
    BY <2>2 DEF Body, Front
  <2>4. PICK k \in 4 .. Len(frame) - 1 : frame[k] = Byte(NoMember)
    BY <2>1 DEF HasNoMember
  <2>5. k \in 1 .. Len(frame) - 1 /\ k \in 4 .. Len(Body(frame)) BY <2>2, <2>3, <2>4
  <2>6. Body(frame)[k] = Byte(NoMember) BY <2>3, <2>4, <2>5
  <2>7. messages[i] = Body(frame) BY <1>3, <2>1
  <2>8. \A j \in 4 .. Len(messages[i]) : messages[i][j] # Byte(NoMember)
    BY DEF LineInv, MembersArrive
  <2> QED BY <2>5, <2>6, <2>7, <2>8
<1> QED BY <1>2, <1>3, <1>8, <1>9, <1>10 DEF MustArrive

(* The line heals: what is sent a longest frame or more behind the damage    *)
(* arrives, all of it and from there on nothing else, at the node and at the *)
(* governance tier (ipc_frame.cpp:147-180, codec.py:554-595).                *)
THEOREM DamageAlwaysContained == LineSpec => []DamageIsContained
<1>1. LineInv => DamageIsContained
  <2> SUFFICES ASSUME LineInv, receiver # "controller", receiver = "tier" => Settled, AllPlain
               PROVE  \E from \in Origins :
                        /\ ArrivedFrom(from)
                        /\ \A n \in MustArrive : \E i \in 1 .. Len(messages) : from[i] = n
                        /\ \A n \in MustArrive, i \in 1 .. Len(messages) :
                             n < from[i] => from[i] \in MustArrive
    BY DEF DamageIsContained
  <2>1. PICK where \in [1 .. Len(Wire) -> Nat], past \in [1 .. Len(messages) -> Nat] :
          Tracks(Wire, Before, stream, whole_from, messages, where, past) /\ Covered(past)
    BY DEF LineInv, Tracking
  <2>2. PICK from : ArrivedAt(from, past) BY <2>1, EachWasSent DEF LineInv
  <2>3. from \in Origins /\ ArrivedFrom(from) BY <2>2 DEF ArrivedAt
  <2>4. ASSUME NEW n \in MustArrive PROVE \E i \in 1 .. Len(messages) : from[i] = n
    <3>1. n \in 1 .. Len(sent) /\ Due(n) /\ End(n) <= ReadSoFar BY DEF MustArrive, Due
    <3>2. sent[n].start < Before BY <3>1, DueIsParsed DEF LineInv, StreamKept
    <3>3. PICK i \in 1 .. Len(messages) : past[i] = End(n) BY <2>1, <3>1, <3>2 DEF Covered
    <3>4. End(from[i]) = End(n) /\ from[i] \in 1 .. Len(sent)
      BY <2>2, <3>3 DEF ArrivedAt, Origins
    <3>5. from[i] = n
      <4>1. PICK m : m = from[i] OBVIOUS
      <4>2. sent \in Seq(Sendings) /\ Laid(sent, stream) BY DEF LineInv, LineTyped
      <4>3. m \in 1 .. Len(sent)
            /\ sent[m].start + Len(sent[m].frame) = sent[n].start + Len(sent[n].frame)
        BY <3>4, <4>1 DEF End
      <4>4. m = n BY <3>1, <4>2, <4>3, OneFrameAtAPlace
      <4> QED BY <4>1, <4>4
    <3> QED BY <3>5
  <2>5. ASSUME NEW n \in MustArrive, NEW i \in 1 .. Len(messages), n < from[i]
        PROVE  from[i] \in MustArrive
    BY <2>1, <2>2, <2>5, LaterMustArrive
  <2> QED BY <2>3, <2>4, <2>5
<1> QED BY <1>1, LineAlwaysKept, PTL
=============================================================================

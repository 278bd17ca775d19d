------------------------------ MODULE FrameCodec ------------------------------
(***************************************************************************)
(* The frame layout both serial links share (docs/ipc-protocol.md), as     *)
(* r4-supervisor/ipc_frame.cpp, linux-stack/ipc/codec.py and               *)
(* alvik-firmware/ipc_codec.py each write and read it.                     *)
(*                                                                         *)
(* A frame is a sequence of units.  A unit is <<"byte", value>>; the two   *)
(* bytes of a length are one unit, and so are the two of a checksum, which *)
(* is unlike any byte and tells exactly what it was computed over: CRC-16  *)
(* is taken to have no collisions.  Fields inside a payload are left out,  *)
(* but for a value that no enumeration of the receiver has.                *)
(***************************************************************************)
EXTENDS Integers, SequencesExt

CONSTANTS
  MAGIC,          (* the value a frame starts with                           *)
  PayloadLength,  (* the payload length of each message type                 *)
  TopLength,      (* what a length field can hold (65535)                    *)
  NoMember        (* a value no enumeration has                              *)

ASSUME CodecAssumption ==
  /\ MAGIC \in Nat /\ TopLength \in Nat
  /\ DOMAIN PayloadLength \subseteq Nat
  /\ \A type \in DOMAIN PayloadLength : PayloadLength[type] \in 0 .. TopLength

HeaderSize == 3
FrameSize(payload_len) == HeaderSize + payload_len + 1

Byte(value) == <<"byte", value>>
Checksum(units) == <<"crc", units>>
IsMagic(unit) == unit = Byte(MAGIC)

(* The length field, whatever a parser takes for it.                         *)
LengthField(units) ==
  IF units[HeaderSize][1] = "crc" THEN TopLength ELSE units[HeaderSize][2]

(* finish(), encode(), _make_frame()                                         *)
EncodeFrame(type, payload) ==
  LET body == <<Byte(MAGIC), Byte(type), Byte(Len(payload))>> \o payload
  IN  Append(body, Checksum(body))

Bytes == {"byte"} \X Nat

IsEncoded(frame) ==
  LET payload == SubSeq(frame, HeaderSize + 1, Len(frame) - 1)
  IN  /\ payload \in Seq(Bytes)
      /\ \E type \in DOMAIN PayloadLength :
           Len(payload) = PayloadLength[type] /\ frame = EncodeFrame(type, payload)

(* What arrives of a frame: everything its checksum covers.                  *)
Body(frame) == Front(frame)

ChecksumUnread(frame) == TRUE   (* mutant *)
ChecksumHolds(frame) == Last(frame) = Checksum(Body(frame))

(* A type the receiver knows, with the payload length that goes with it.     *)
Known(frame) ==
  \E type \in DOMAIN PayloadLength :
    frame[2] = Byte(type) /\ LengthField(frame) = PayloadLength[type]

(* decode() builds the enumerations of the message, and such a constructor   *)
(* raises a ValueError that is no FrameError.                                *)
HasNoMember(frame) == \E n \in 4 .. Len(frame) - 1 : frame[n] = Byte(NoMember)
=============================================================================

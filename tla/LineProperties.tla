--------------------------- MODULE LineProperties ---------------------------
(***************************************************************************)
(* What a parser makes of a damaged line.                                  *)
(***************************************************************************)
EXTENDS FrameLine

(* The node's buffer never overflows; and the governance tier's, between two *)
(* reads, holds less than the longest frame, as long as no frame it is sent  *)
(* makes its parser raise (ipc_frame.cpp:154-170, codec.py:566-584).         *)
LineTypeOK ==
  /\ receiver \in Receivers
  /\ parsing \in BOOLEAN
  /\ damages \in 0 .. MaxDamage
  /\ whole_from \in 0 .. Len(stream)
  /\ receiver = "node" => ~parsing /\ Len(buf) < MaxFrame
  /\ receiver = "tier" /\ ~parsing
       /\ (\A n \in 1 .. Len(sent) : ~HasNoMember(sent[n].frame))
       => Len(buf) < FrameSize(MaxPayload)

(* Whatever the line lost, altered or made up, wherever a read cut it and    *)
(* wherever a parser then took a payload for a frame: what arrives was sent, *)
(* in that order and once (ipc_frame.cpp:107-119, codec.py:446-452,          *)
(* alvik-firmware/ipc_codec.py:106-121).                                     *)
ArrivedFrom(from) ==
  /\ \A i \in 1 .. Len(messages) : messages[i] = Body(sent[from[i]].frame)
  /\ \A i, j \in 1 .. Len(messages) : i < j => from[i] < from[j]

Origins == [1 .. Len(messages) -> 1 .. Len(sent)]

OnlySentFramesArrive == \E from \in Origins : ArrivedFrom(from)

(* Damage takes along no more than the frames that start within one longest  *)
(* frame of it: as long as no frame holds a magic byte but its first (on the *)
(* wire: in its length and checksum neither), all later ones                 *)
(* arrive as soon as they have been read, and from the first of them on      *)
(* nothing else does.  A damaged line works again by itself, at the node and *)
(* at the governance tier (ipc_frame.cpp:147-180, codec.py:554-595).         *)
Longest == IF receiver = "node" THEN MaxFrame ELSE FrameSize(MaxPayload)
End(n) == sent[n].start + Len(sent[n].frame)

Clear(n) == damages > 0 => sent[n].start >= whole_from + Longest - 1
Raises(n) == receiver = "tier" /\ HasNoMember(sent[n].frame)
MustArrive == {n \in 1 .. Len(sent) : Clear(n) /\ End(n) <= ReadSoFar /\ ~Raises(n)}

(* Nothing is left to parse: a further turn of the loop would only wait.     *)
Settled == ~parsing /\ ~TooLong(Found) /\ ~HasFrame(Found)

Plain(frame) == \A k \in 2 .. Len(frame) : ~IsMagic(frame[k])
AllPlain == \A n \in 1 .. Len(sent) : Plain(sent[n].frame)

DamageIsContained ==
  receiver # "controller" /\ (receiver = "tier" => Settled) /\ AllPlain =>
    \E from \in Origins :
      /\ ArrivedFrom(from)
      /\ \A n \in MustArrive : \E i \in 1 .. Len(messages) : from[i] = n
      /\ \A n \in MustArrive, i \in 1 .. Len(messages) :
           n < from[i] => from[i] \in MustArrive
=============================================================================

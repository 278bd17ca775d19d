------------------------------ MODULE FrameLine ------------------------------
(***************************************************************************)
(* A serial line on which bytes are lost, altered and made up, and the     *)
(* incremental parser at its end: the oversight node's, which is fed a     *)
(* byte at a time, the governance tier's or the motion controller's, which *)
(* are fed whatever a read returns.  GovernedRig's line, on which a frame  *)
(* arrives whole or not at all, rests on what this one shows.              *)
(***************************************************************************)
EXTENDS FrameCodec

CONSTANTS
  Receivers,     (* who may be listening: "node", "tier", "controller"       *)
  MaxFrame,      (* IPC_MAX_FRAME, the node's buffer                         *)
  MaxPayload,    (* MAX_PAYLOAD of codec.py                                  *)
  Frames,        (* what is sent                                             *)
  NoiseValues,   (* the bytes that a line makes up                           *)
  MaxDamage,     (* bound: bytes lost, altered or made up                    *)
  MaxSent,       (* bound: frames sent                                       *)
  MaxChunk       (* bound: units in one read                                 *)

ASSUME LineAssumption ==
  /\ {MaxFrame, MaxPayload, MaxDamage, MaxSent, MaxChunk} \subseteq Nat
  /\ MaxFrame > HeaderSize
  /\ Receivers \subseteq {"node", "tier", "controller"}
  /\ NoiseValues \subseteq Nat
  /\ \A frame \in Frames : IsEncoded(frame)
  /\ \A type \in DOMAIN PayloadLength :
       PayloadLength[type] <= MaxPayload /\ FrameSize(PayloadLength[type]) <= MaxFrame

VARIABLES
  receiver,
  line,          (* sent and not read                                        *)
  buf,           (* p->buf, self._buf, self._buf                             *)
  parsing,       (* the loop of _process() or _parse() is running            *)
  messages,      (* history: what was handed to the receiver's program       *)
  stream,        (* history: the units sent, one after another               *)
  sent,          (* history: the frames sent, and where each starts in them  *)
  damages,       (* history: how often the line did damage ...               *)
  whole_from     (* ... and where in what was sent it is whole again         *)

parserVars == <<buf, parsing, messages>>
sentVars == <<stream, sent>>
lineVars == <<receiver, line, parserVars, sentVars, damages, whole_from>>

LineInit ==
  /\ receiver \in Receivers
  /\ line = <<>> /\ buf = <<>> /\ messages = <<>>
  /\ stream = <<>> /\ sent = <<>>
  /\ parsing = FALSE
  /\ damages = 0 /\ whole_from = 0

-----------------------------------------------------------------------------
(* The line.                                                                 *)
ReadSoFar == Len(stream) - Len(line)

Send ==
  /\ Len(sent) < MaxSent /\ Len(line) < MaxChunk
  /\ \E frame \in Frames :
       /\ sent' = Append(sent, [frame |-> frame, start |-> Len(stream)])
       /\ stream' = stream \o frame
       /\ line' = line \o frame
  /\ UNCHANGED <<receiver, parserVars, damages, whole_from>>

Damage(remains, from) ==
  /\ damages < MaxDamage
  /\ line' = remains
  /\ damages' = damages + 1
  /\ whole_from' = Max({whole_from, from})
  /\ UNCHANGED <<receiver, parserVars, sentVars>>

Lost == line # <<>> /\ Damage(Tail(line), ReadSoFar + 1)
Altered == line # <<>> /\ \E value \in NoiseValues :
             Damage(<<Byte(value)>> \o Tail(line), ReadSoFar + 1)
MadeUp == \E value \in NoiseValues : Damage(<<Byte(value)>> \o line, ReadSoFar)

-----------------------------------------------------------------------------
(* ipc_parser_feed(): the node takes one byte.                               *)
ParserReset == buf' = <<>> /\ UNCHANGED messages

HeaderTooLong(units) ==
  Len(units) = HeaderSize /\ FrameSize(LengthField(units)) > MaxFrame

Complete(units) ==
  Len(units) > HeaderSize /\ Len(units) = FrameSize(LengthField(units))

DecodeComplete(units) ==
  /\ buf' = <<>>
  /\ messages' = IF ChecksumHolds(units) /\ Known(units)
                   THEN Append(messages, Body(units)) ELSE messages

ParserFeed ==
  /\ receiver = "node"
  /\ line # <<>>
  /\ line' = Tail(line)
  /\ LET units == Append(buf, Head(line))
     IN  \/ buf = <<>> /\ ~IsMagic(Head(line)) /\ UNCHANGED <<buf, messages>>
         \/ /\ buf # <<>> \/ IsMagic(Head(line))
            /\ \/ (Len(buf) >= MaxFrame \/ HeaderTooLong(units)) /\ ParserReset
               \/ /\ Len(buf) < MaxFrame /\ ~HeaderTooLong(units)
                  /\ IF Complete(units) THEN DecodeComplete(units)
                                        ELSE buf' = units /\ UNCHANGED messages
  /\ UNCHANGED <<receiver, parsing, sentVars, damages, whole_from>>

-----------------------------------------------------------------------------
(* feed(): one read, cut anywhere, and then one turn of the loop after       *)
(* another: drop what precedes a magic byte, wait for a header, step over a  *)
(* length no frame can have, wait for the frame, take it.                    *)
ReadChunk ==
  /\ receiver # "node"
  /\ ~parsing
  /\ \E n \in 1 .. MaxChunk :
       /\ n <= Len(line)
       /\ buf' = buf \o SubSeq(line, 1, n)
       /\ line' = SubSeq(line, n + 1, Len(line))
  /\ parsing' = TRUE
  /\ UNCHANGED <<receiver, messages, sentVars, damages, whole_from>>

FromMagicForgets(units) ==   (* mutant: a header that a read cut is dropped *)
  LET starts == {n \in 1 .. Len(units) - 2 : IsMagic(units[n])}
  IN  IF starts = {} THEN <<>> ELSE SubSeq(units, Min(starts), Len(units))

FromMagic(units) ==
  LET starts == {n \in 1 .. Len(units) : IsMagic(units[n])}
  IN  IF starts = {} THEN <<>> ELSE SubSeq(units, Min(starts), Len(units))

NeverTooLong(units) == FALSE   (* mutant *)
TooLong(units) ==
  /\ receiver = "tier"   (* the motion controller's parser knows no limit *)
  /\ Len(units) >= HeaderSize /\ LengthField(units) > MaxPayload

HasFrame(units) == Len(units) >= HeaderSize /\ Len(units) >= FrameSize(LengthField(units))

Turn == parsing /\ UNCHANGED <<receiver, line, sentVars, damages, whole_from>>
Found == FromMagic(buf)

Resynchronise ==
  /\ Turn /\ TooLong(Found)
  /\ buf' = Tail(Found)
  /\ UNCHANGED <<parsing, messages>>

Wait ==
  /\ Turn /\ ~TooLong(Found) /\ ~HasFrame(Found)
  /\ buf' = Found
  /\ parsing' = FALSE
  /\ UNCHANGED messages

Size == FrameSize(LengthField(Found))
Taken == SubSeq(Found, 1, Size)

Take ==
  /\ Turn /\ ~TooLong(Found) /\ HasFrame(Found)
  /\ buf' = SubSeq(Found, Size + 1, Len(Found))

Accepted(frame) == ChecksumHolds(frame) /\ Known(frame)

Deliver ==
  /\ Take /\ Accepted(Taken) /\ (receiver = "tier" => ~HasNoMember(Taken))
  /\ messages' = Append(messages, Body(Taken))
  /\ UNCHANGED parsing

Discard ==
  /\ Take /\ ~Accepted(Taken)
  /\ UNCHANGED <<parsing, messages>>

(* The exception leaves feed(): what is behind the frame waits for the next  *)
(* read.                                                                     *)
Raise ==
  /\ receiver = "tier"
  /\ Take /\ Accepted(Taken) /\ HasNoMember(Taken)
  /\ parsing' = FALSE
  /\ UNCHANGED messages

-----------------------------------------------------------------------------
LineNext ==
  \/ Send \/ Lost \/ Altered \/ MadeUp
  \/ ParserFeed
  \/ ReadChunk \/ Resynchronise \/ Wait \/ Deliver \/ Discard \/ Raise

LineSpec == LineInit /\ [][LineNext]_lineVars
=============================================================================

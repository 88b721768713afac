--------------------------- MODULE WebsocketFraming ---------------------------
(***************************************************************************)
(* Websocket frames as bytes (src/src/core/websocket.cpp): how             *)
(* ConcreteWebsocketParser finds the frames in a buffer that grows by      *)
(* segments, and what ConcreteWebsocketSender writes. Protocol.tla takes   *)
(* from here that a frame is consumed whole, once and in order. A payload  *)
(* is known by its length: its bytes, all the same, stay masked.           *)
(***************************************************************************)
EXTENDS Integers, Sequences, SequencesExt

CONSTANTS
  Lengths,    \* payload lengths, below 2^31 (the parser shifts an int)
  Opcodes,    \* opcodes in use
  Payload,    \* the byte that payloads consist of
  MaxFrames   \* bound: frames the client sends

ASSUME FramingAssumption ==
  /\ Lengths \subseteq Nat /\ \A n \in Lengths : n <= 2147483647
  /\ Opcodes \subseteq 0..15 /\ Payload \in 0..255 /\ MaxFrames \in Nat

headerLen == 2
maskLen == 4
ext1Len == 2
ext2Len == 8

WebsocketFrame == [fin : 0..1, opcode : Opcodes, length : Lengths]

VARIABLES
  sent,     \* history: the client's frames
  stream,   \* their bytes: per frame its head, and the bytes before it
  arrived,  \* bytes of the stream received so far
  erased,   \* of these, the bytes consumed: the buffer is the rest
  parsing,  \* ProtocolLayer::Process calls the parser
  frames,   \* history: what the parser returned
  answers   \* history: frames given to Send, and the heads it wrote

framingVars == <<sent, stream, arrived, erased, parsing, frames, answers>>

-----------------------------------------------------------------------------
\* n in network byte order: the last bytes of
Octets(n) == <<0, 0, 0, 0, (n \div 16777216) % 256, (n \div 65536) % 256, (n \div 256) % 256, n % 256>>
BigEndian(n, bytes) == SubSeq(Octets(n), 9 - bytes, 8)

(* The client (RFC 6455) masks a frame, with four bytes of key, or not.    *)
ClientHead(f, mask) ==
  <<f.fin * 128 + f.opcode>>
  \o (IF f.length < 126 THEN <<mask * 128 + f.length>>
      ELSE IF f.length < 65536 THEN <<mask * 128 + 126>> \o BigEndian(f.length, 2)
      ELSE <<mask * 128 + 127>> \o BigEndian(f.length, 8))
  \o (IF mask = 1 THEN <<Payload, Payload, Payload, Payload>> ELSE <<>>)

Size(k) == Len(stream[k].head) + sent[k].length
Total == IF stream = <<>> THEN 0 ELSE stream[Len(stream)].start + Size(Len(stream))
Start(k) == IF k \in DOMAIN stream THEN stream[k].start ELSE Total

\* The frame that the i-th byte of the stream is part of, and that byte.
FrameAt(i) == CHOOSE k \in DOMAIN stream : Start(k) < i /\ i <= Start(k) + Size(k)
At(i) ==
  LET k == FrameAt(i)
      head == stream[k].head
  IN IF i - Start(k) <= Len(head) THEN head[i - Start(k)] ELSE Payload

\* Where segments end: anywhere in a head, one byte before the end of a frame,
\* and at its end.
Cuts ==
  UNION {{Start(k) + n : n \in (1..Len(stream[k].head)) \cup {Size(k) - 1, Size(k)}} :
           k \in DOMAIN stream}

-----------------------------------------------------------------------------
NoFrame == [fin |-> -1]

\* payloadExtLen
ExtLen(len) == IF len = 126 THEN ext1Len ELSE IF len = 127 THEN ext2Len ELSE 0

\* "len |= p[i] << (8 * (payloadExtLen - i - 1))". Of eight bytes the first
\* four are shifted by 32 or more, which an int does not define; they are zero
\* for the Lengths considered, and zero is what any such shift leaves of them.
ExtendedLength(p, n) ==
  IF n = ext1Len THEN p[1] * 256 + p[2]
  ELSE p[5] * 16777216 + p[6] * 65536 + p[7] * 256 + p[8]

PayloadLen(p, ext) ==
  IF ext = 0 THEN p[2] % 128 ELSE ExtendedLength([i \in 1..ext |-> p[headerLen + i]], ext)

\* Mutant: the key is not counted.
RequiredUnmasked(ext, mask, len) == headerLen + ext + len

\* requiredLen at the end of Parse
Required(ext, mask, len) == headerLen + ext + mask * maskLen + len

\* "payloadLen < requiredLen" does not hold.
Complete(have, required) == have >= required

\* ConcreteWebsocketParser::Parse on the first "have" bytes of p: the frame,
\* and the bytes it takes.
Parse(p, have) ==
  IF ~Complete(have, headerLen) THEN NoFrame
  ELSE LET ext == ExtLen(p[2] % 128)
           mask == p[2] \div 128
       IN IF ~Complete(have, headerLen + ext + mask * maskLen) THEN NoFrame
          ELSE LET len == PayloadLen(p, ext)
               IN IF ~Complete(have, Required(ext, mask, len)) THEN NoFrame
                  ELSE [fin |-> p[1] \div 128, opcode |-> p[1] % 16, length |-> len,
                        taken |-> Required(ext, mask, len)]

ParsedFrame == Parse([i \in 1..14 |-> IF erased + i <= arrived THEN At(erased + i) ELSE 0],
                arrived - erased)

\* Mutant: 126 still fits the header.
SendHeadShort(f) ==
  <<f.fin * 128 + f.opcode>>
  \o (IF f.length <= 126 THEN <<f.length>>
      ELSE IF f.length < 65536 THEN <<126>> \o BigEndian(f.length, 2)
      ELSE <<127>> \o BigEndian(f.length, 4))

\* ConcreteWebsocketSender::Send: what it writes before the payload.
SendHead(f) ==
  <<f.fin * 128 + f.opcode>>
  \o (IF f.length < 126 THEN <<f.length>>
      ELSE IF f.length < 65536 THEN <<126>> \o BigEndian(f.length, 2)
      ELSE <<127>> \o BigEndian(f.length, 4))

-----------------------------------------------------------------------------
FramingInit ==
  /\ sent = <<>> /\ stream = <<>>
  /\ arrived = 0 /\ erased = 0 /\ parsing = FALSE
  /\ frames = <<>> /\ answers = <<>>

SendFrame(f, mask) ==
  /\ Len(sent) < MaxFrames
  /\ sent' = Append(sent, f)
  /\ stream' = Append(stream, [head |-> ClientHead(f, mask), start |-> Total])
  /\ UNCHANGED <<arrived, erased, parsing, frames, answers>>

\* A segment, which ProtocolLayer::Process appends to the buffer.
Segment ==
  /\ ~parsing
  /\ \E n \in Cuts : n > arrived /\ arrived' = n
  /\ parsing' = TRUE
  /\ UNCHANGED <<sent, stream, erased, frames, answers>>

\* What the processor of a route sends on: here it echoes the frame.
Send(f) == answers' = Append(answers, [frame |-> f, head |-> SendHead(f)])

\* Parse finds a frame and erases it from the buffer,
Take ==
  /\ parsing
  /\ ParsedFrame # NoFrame
  /\ LET f == [fin |-> ParsedFrame.fin, opcode |-> ParsedFrame.opcode, length |-> ParsedFrame.length]
     IN frames' = Append(frames, f) /\ Send(f)
  /\ erased' = erased + ParsedFrame.taken
  /\ UNCHANGED <<sent, stream, arrived, parsing>>

\* or does not, and leaves it alone.
Wait ==
  /\ parsing
  /\ ParsedFrame = NoFrame
  /\ parsing' = FALSE
  /\ UNCHANGED <<sent, stream, arrived, erased, frames, answers>>

\* The bound on frames is reached and all have arrived.
AllFramed ==
  /\ Len(sent) = MaxFrames /\ arrived = Total /\ ~parsing
  /\ UNCHANGED framingVars

FramingNext ==
  \/ \E f \in WebsocketFrame, mask \in 0..1 : SendFrame(f, mask)
  \/ Segment \/ Take \/ Wait \/ AllFramed

FramingSpec == FramingInit /\ [][FramingNext]_framingVars

-----------------------------------------------------------------------------
\* The parser returns the client's frames, in order, with flag, opcode and
\* length, cuts the buffer exactly at the border between two of them, and
\* waits only while the next one is incomplete, wherever segments end: in the
\* header, in the extended length, in the key, one byte before the end.
FramesInStep ==
  /\ IsPrefix(frames, sent)
  /\ erased = Start(Len(frames) + 1)
  /\ ~parsing /\ Len(frames) < Len(sent) => arrived < Start(Len(frames) + 2)

\* What Send writes is read back by a parser as the same frame, and all of it
\* is taken, up to 65535 bytes of payload. (Longer ones announce eight bytes
\* of length and carry four.)
AnswersReadable ==
  \A i \in DOMAIN answers :
    LET f == answers[i].frame
        head == answers[i].head
        all == Len(head) + f.length
        p == [j \in 1..14 |-> IF j <= Len(head) THEN head[j] ELSE Payload]
    IN f.length < 65536 =>
         Parse(p, all) = [fin |-> f.fin, opcode |-> f.opcode, length |-> f.length, taken |-> all]
=============================================================================

------------------------------- MODULE Codec --------------------------------
(* codec/: frame decoders on top of ByteToMessageDecoder, which is given the   *)
(* bytes of a stream in pieces of any length and hands on every complete       *)
(* frame, and LengthFieldPrepender, the encoder that LengthFieldBasedFrame-    *)
(* Decoder undoes.  A byte is a number below Base.                             *)
EXTENDS Integers, Sequences, SequencesExt

CONSTANTS
  Base,        \* values of a byte (256 in the code)
  Configs,     \* decoders with their parameters
  Messages,    \* messages an application writes
  MaxMessages,
  Alphabet,    \* bytes of a stream of lines, CR and LF among them
  MaxStream    \* bytes of such a stream

CR == 1        \* '\r'
LF == 2        \* '\n'

(* 2^32, scaled down: lengthAdjustment_ + lengthFieldEndOffset_ is unsigned.   *)
UINT32 == 65536

VARIABLES
  config,      \* the decoder and its parameters
  messages,    \* what was written, for a length field decoder
  stream,      \* the bytes the peer sends
  fed,         \* how many of them have been read
  q,           \* the IOBufQueue
  discarding_, \* LineBasedFrameDecoder: skipping the rest of a long line
  frames,      \* frames handed on
  errors       \* exceptions fired

vars == <<config, messages, stream, fed, q, discarding_, frames, errors>>

Skip(s, n) == SubSeq(s, n + 1, Len(s))     \* trimStart
Take(s, n) == SubSeq(s, 1, n)              \* split

-----------------------------------------------------------------------------
(* Integers in fields of n bytes.                                              *)

RECURSIVE Power(_, _)
Power(b, n) == IF n = 0 THEN 1 ELSE b * Power(b, n - 1)

BigEndian(value, n) == [i \in 1..n |-> (value \div Power(Base, n - i)) % Base]
WriteInt(value, n, networkByteOrder) ==
  IF networkByteOrder THEN BigEndian(value, n) ELSE Reverse(BigEndian(value, n))
ReadInt(bytes, networkByteOrder) ==
  FoldLeft(LAMBDA value, byte : value * Base + byte, 0,
           IF networkByteOrder THEN bytes ELSE Reverse(bytes))

(* LengthFieldPrepender::write: the field, or an exception if the length does  *)
(* not fit (fields of one or two bytes) or is negative.                        *)
prepend(c, msg) ==
  LET length == c.prepAdjustment + Len(msg)
                + (IF c.includesField THEN c.lengthFieldLength ELSE 0)
  IN IF length < 0 \/ (c.lengthFieldLength < 4 /\ length >= Power(Base, c.lengthFieldLength))
     THEN [throws |-> TRUE, bytes |-> <<>>]
     ELSE [throws |-> FALSE,
           bytes |-> WriteInt(length, c.lengthFieldLength, c.networkByteOrder) \o msg]

-----------------------------------------------------------------------------
(* decode: what is left, whether a frame (or an exception) comes of it, and    *)
(* whether to go on (TRUE is "decoding is successful").                        *)
Wait(buf, d) == [ok |-> FALSE, q |-> buf, frame |-> <<>>, error |-> FALSE, discarding |-> d]
Fails(buf, d) == [ok |-> FALSE, q |-> buf, frame |-> <<>>, error |-> TRUE, discarding |-> d]
Frame(buf, frame) == [ok |-> TRUE, q |-> buf, frame |-> frame, error |-> FALSE,
                      discarding |-> FALSE]

decodeFixed(buf) ==
  IF Len(buf) < config.length THEN Wait(buf, FALSE)
  ELSE Frame(Skip(buf, config.length), Take(buf, config.length))

(* lengthFieldEndOffset_, and getUnadjustedFrameLength with the adjustment. *)
FieldEnd == config.lengthFieldOffset + config.lengthFieldLength
FrameLength(buf) ==
  ReadInt(SubSeq(buf, config.lengthFieldOffset + 1, FieldEnd), config.networkByteOrder)
  + ((config.lengthAdjustment + FieldEnd) % UINT32)

(* Mutation: a frame may be handed on before its last byte has come. *)
decodeLength_Early(buf) ==
  LET end == FieldEnd
      frameLength == FrameLength(buf)
      last == IF frameLength > Len(buf) THEN Len(buf) ELSE frameLength
  IN IF Len(buf) < end \/ Len(buf) + 1 < frameLength THEN Wait(buf, FALSE)
     ELSE Frame(Skip(buf, last), SubSeq(buf, config.strip + 1, last))

(* LengthFieldBasedFrameDecoder::decode, its checks in their order. *)
decodeLength(buf) ==
  LET end == FieldEnd
      frameLength == FrameLength(buf)
  IN IF Len(buf) < end THEN Wait(buf, FALSE)
     ELSE IF frameLength < end THEN Fails(Skip(buf, end), FALSE)
     ELSE IF frameLength > config.maxFrameLength THEN Fails(Skip(buf, frameLength), FALSE)
     ELSE IF Len(buf) < frameLength THEN Wait(buf, FALSE)
     ELSE IF config.strip > frameLength THEN Fails(Skip(buf, frameLength), FALSE)
     ELSE Frame(Skip(buf, frameLength), SubSeq(buf, config.strip + 1, frameLength))

(* findEndOfLine: the cursor reads one byte per turn, and one more after a CR  *)
(* that may end the line; what it returns is the turn.                         *)
RECURSIVE Find(_, _, _)
Find(buf, i, cursor) ==
  LET b == buf[cursor]
      newline == b = LF /\ config.terminator # "CARRIAGENEWLINE"
      peeks == b = CR /\ config.terminator # "NEWLINE" /\ cursor < Len(buf)
  IN IF i >= config.maxLength \/ cursor > Len(buf) THEN -1
     ELSE IF newline \/ (peeks /\ buf[cursor + 1] = LF) THEN i
     ELSE Find(buf, i + 1, cursor + (IF peeks THEN 2 ELSE 1))

(* LineBasedFrameDecoder::decode: a line, or the start or the end of skipping  *)
(* one that is too long.                                                       *)
decodeLine(buf) ==
  LET eol == Find(buf, 0, 1)
      delim == IF eol >= 0 /\ buf[eol + 1] = CR THEN 2 ELSE 1
      end == eol + delim
  IN IF discarding_
     THEN IF eol >= 0 THEN Wait(Skip(buf, end), FALSE) ELSE Wait(<<>>, TRUE)
     ELSE IF eol >= 0
     THEN Frame(Skip(buf, end), Take(buf, IF config.strip THEN eol ELSE end))
     ELSE IF Len(buf) > config.maxLength THEN Fails(<<>>, TRUE) ELSE Wait(buf, FALSE)

decode(buf) == CASE config.kind = "fixed" -> decodeFixed(buf)
                 [] config.kind = "length" -> decodeLength(buf)
                 [] config.kind = "line" -> decodeLine(buf)

-----------------------------------------------------------------------------
(* ByteToMessageDecoder::read: decode until it is not successful. *)
RECURSIVE DecodeAll(_, _)
DecodeAll(buf, out) ==
  LET d == decode(buf)
  IN IF d.ok THEN DecodeAll(d.q, Append(out, d.frame)) ELSE [d EXCEPT !.frame = out]

read(len) ==
  LET buf == q \o SubSeq(stream, fed + 1, fed + len)
      d == DecodeAll(buf, <<>>)
  IN /\ fed + len <= Len(stream)
     /\ fed' = fed + len
     /\ q' = d.q
     /\ discarding_' = d.discarding
     /\ frames' = frames \o d.frame
     /\ errors' = IF d.error THEN errors + 1 ELSE errors
     /\ UNCHANGED <<config, messages, stream>>

(* write of the peer: the messages that the field can hold. *)
Written(c, msgs) == SelectSeq(msgs, LAMBDA m : ~prepend(c, m).throws)
Encoded(c, msgs) == FlattenSeq([i \in DOMAIN msgs |-> prepend(c, msgs[i]).bytes])

Init ==
  /\ config \in Configs
  /\ IF config.kind = "length"
     THEN /\ messages \in {Written(config, m) :
                             m \in UNION {[1..n -> Messages] : n \in 1..MaxMessages}}
          /\ stream = Encoded(config, messages)
     ELSE /\ messages = <<>>
          /\ stream \in UNION {[1..n -> Alphabet] : n \in 1..MaxStream}
  /\ fed = 0 /\ q = <<>> /\ discarding_ = FALSE /\ frames = <<>> /\ errors = 0

Next == \E len \in 1..Len(stream) : read(len)

Spec == Init /\ [][Next]_vars

-----------------------------------------------------------------------------
TypeOK ==
  /\ fed \in 0..Len(stream) /\ errors \in Nat
  /\ \A i \in DOMAIN q : q[i] \in 0..(Base - 1)
  /\ discarding_ => config.kind = "line"

(* Encoding and decoding agree, however the bytes are cut into pieces: with    *)
(* room for every frame, the frames handed on are exactly the messages whose   *)
(* last byte has been read, each with its field if that is not stripped.       *)
FramesAreMessages ==
  (config.kind = "length" /\ \A i \in DOMAIN messages :
                               Len(prepend(config, messages[i]).bytes) <= config.maxFrameLength) =>
    LET Complete(n) == Len(Encoded(config, Take(messages, n))) <= fed
        n == CHOOSE k \in 0..Len(messages) :
               Complete(k) /\ (k = Len(messages) \/ ~Complete(k + 1))
    IN /\ frames = [i \in 1..n |-> Skip(prepend(config, messages[i]).bytes, config.strip)]
       /\ errors = 0

(* Fixed-length frames are consecutive pieces of the stream and miss none. *)
FramesArePieces ==
  config.kind = "fixed" =>
    frames = [i \in 1..(fed \div config.length) |->
                SubSeq(stream, (i - 1) * config.length + 1, i * config.length)]

(* Where lines end in s: after LF, or CR LF, as the terminator type has it. *)
Ends(s) == {i \in DOMAIN s :
              /\ s[i] = LF
              /\ config.terminator = "CARRIAGENEWLINE" => i > 1 /\ s[i - 1] = CR}
LineOf(s, i) ==
  LET before == {j \in Ends(s) : j < i}
      from == IF before = {} THEN 1 ELSE (CHOOSE j \in before : \A k \in before : k <= j) + 1
      crlf == config.terminator # "NEWLINE" /\ i > from /\ s[i - 1] = CR
  IN SubSeq(s, from, IF ~config.strip THEN i ELSE IF crlf THEN i - 2 ELSE i - 1)
LinesOf(s) == LET ends == SetToSortSeq(Ends(s), <)
              IN [k \in DOMAIN ends |-> LineOf(s, ends[k])]

(* "splits the received IOBufQueue on line endings" (LineBasedFrameDecoder.h): *)
(* the frames are the complete lines read so far, however CR and LF are torn   *)
(* apart, as long as no line is too long and every CR is followed by LF or is  *)
(* no part of a terminator.                                                    *)
FramesAreLines ==
  (/\ config.kind = "line" /\ Len(stream) < config.maxLength
   /\ config.terminator # "NEWLINE" =>
        \A i \in 1..(Len(stream) - 1) : stream[i] = CR => stream[i + 1] = LF)
  => frames = LinesOf(Take(stream, fed))

(* No frame is longer than the configured maximum, terminators aside. *)
FramesBounded ==
  \A i \in DOMAIN frames :
    /\ config.kind = "length" => Len(frames[i]) + config.strip <= config.maxFrameLength
    /\ config.kind = "line" => Len(frames[i]) <= config.maxLength + 1
=============================================================================

------------------------------ MODULE Framing -------------------------------
(***************************************************************************)
(* Bodies as they arrive (client/ts/src/bytes.ts, frames.ts, edits.ts): a  *)
(* buffer that compacts and grows as chunks come, the frames of a stream   *)
(* read from it, and an edit's envelope and operations.                    *)
(*                                                                         *)
(* A body is bytes of which some have arrived; chunks are cut anywhere,    *)
(* and the body may end at any of them.  A frame's tag is a short string.  *)
(***************************************************************************)
EXTENDS Msgpack

CONSTANTS
  BufferSize,    \* the buffer's first size, 64 KiB in the code
  ChunkSizes,    \* the sizes of a chunk
  Tags,          \* the bytes of each frame's tag
  Streams,       \* sequences of frames
  Anys           \* values a writer writes with no schema

ASSUME FramingBounds == BufferSize \in Nat \ {0} /\ ChunkSizes \subseteq Nat \ {0}

VARIABLES
  stage,         \* what the reading is at
  body,          \* what is read: its bytes, from which on, how many arrived, and what they are of
  br,            \* the ByteReader
  got            \* what was read of it: frames, a value, or the pages of a snapshot

framingVars == <<stage, body, br, got>>

-----------------------------------------------------------------------------
\* The reader of a body.

Zeros(n) == [i \in 1..n |-> 0]
NewReader(base) == [buf |-> Zeros(BufferSize), pos |-> 0, len |-> 0, base |-> base]

Offset(r) == r.base + r.pos
Available(r) == r.len - r.pos

Put(buf, at, bytes) == [i \in DOMAIN buf |-> IF i \in (at + 1)..(at + Len(bytes)) THEN bytes[i - at] ELSE buf[i]]

\* A mutant of Compacted: the offset of the buffer's first byte stays where it was.
MutCompacted(r, buf, keep) == [buf |-> buf, pos |-> 0, len |-> keep, base |-> r.base]

\* The unread bytes, at the front of a buffer.
Compacted(r, buf, keep) == [buf |-> buf, pos |-> 0, len |-> keep, base |-> r.base + r.pos]

\* Room for a chunk: none is made while there is some at the end, then the read bytes' is
\* taken, and then the buffer's size is doubled, or more.
WithRoom(r, n) ==
  LET keep == Available(r)
      unread == Slice(r.buf, r.pos, keep)
      size == Len(r.buf)
  IN  IF r.len + n <= size THEN r
      ELSE IF keep + n <= size THEN Compacted(r, Put(r.buf, 0, unread), keep)
      ELSE Compacted(r, Put(Zeros(IF 2 * size >= keep + n THEN 2 * size ELSE keep + n), 0, unread), keep)

Appended(r, chunk) == [r EXCEPT !.buf = Put(@, r.len, chunk), !.len = @ + Len(chunk)]
More(r, chunk) == Appended(WithRoom(r, Len(chunk)), chunk)

RECURSIVE MeasureSome(_, _, _)
\* The offset after n values, if all of them are in the buffer.
MeasureSome(r, at, n) ==
  IF n = 0 \/ at < 0 THEN at ELSE MeasureSome(r, Measure(r.buf, at, r.len), n - 1)

\* The next n whole values, and the reader past them.
TryValues(r, n) == MeasureSome(r, r.pos, n)
Taken(r, to) == [r EXCEPT !.pos = to]
BytesTo(r, to) == Slice(r.buf, r.pos, to - r.pos)

-----------------------------------------------------------------------------
\* Frames, as the server writes them.  One that is no frame is its bytes.

Num(n) == ZeroExtended(InBytes(n, 4))
Each(Bytes(_), s) == FlattenSeq([i \in DOMAIN s |-> Bytes(s[i])])
ListBytes(Bytes(_), s) == ArrayHeader(Len(s)) \o Each(Bytes, s)

\* An operation sets a key, when it has a value, or deletes it.
OpItems(op) ==
  IF Len(op) = 2 THEN <<IntBytes(Num(0)), StrBytes(op[1]), op[2]>> ELSE <<IntBytes(Num(1)), StrBytes(op[1])>>
OpBytes(op) == FlattenSeq(OpItems(op))

EditBytes(e) ==
  LET envelope == <<IntBytes(Num(e.position)), StrBytes(e.slice), IntBytes(Num(e.seq)), BinBytes(e.id),
                    Timestamp(Num(e.sec), e.ms), IntBytes(Num(e.lifecycle))>> \o e.more
      items == [i \in DOMAIN e.ops |-> OpItems(e.ops[i])]
  IN  ArrayHeader(1 + Len(FlattenSeq(items))) \o ListBytes(LAMBDA x : x, envelope) \o Each(OpBytes, e.ops)

FrameItems(f) ==
  CASE f.tag \in {"live", "vouch"} -> <<IntBytes(Num(f.position))>>
    [] f.tag = "view" -> <<StrBytes(f.token), IntBytes(Num(f.position)), ListBytes(StrBytes, f.selectors)>>
    [] f.tag = "end" -> <<IntBytes(Num(f.code)), StrBytes(f.reason)>>
    [] f.tag = "edits" -> <<ListBytes(EditBytes, f.edits)>>

FrameBytes(f) ==
  IF f.tag = "none" THEN f.bytes ELSE ListBytes(LAMBDA x : x, <<StrBytes(Tags[f.tag])>> \o FrameItems(f) \o f.more)

-----------------------------------------------------------------------------
\* Reading them.

RawTo(buf, pos, to) == IF to < 0 THEN Error ELSE Reading(Slice(buf, pos, to - pos), to)
RawAt(buf, pos, end) == RawTo(buf, pos, Measure(buf, pos, end))

RECURSIVE ValuesAt(_, _, _, _, _), ListAt(_, _, _, _), EditAt(_)

ValueAt(buf, next, end, kind) ==
  CASE kind = "int" -> IntAt(buf, next, end)
    [] kind = "str" -> StrAt(buf, next, end)
    [] kind = "bin" -> BinAt(buf, next, end)
    [] kind = "date" -> TimestampAt(buf, next, end)
    [] kind \in {"raw", "edit"} -> RawAt(buf, next, end)
    [] kind \in {"strs", "edits"} -> ArrayHeaderAt(buf, next, end)

\* What a kind makes of a reading: a list is of what its header counts.
As(kind, r, buf, end) ==
  CASE ~Fine(r) \/ kind \in {"int", "str", "bin", "date", "raw"} -> r
    [] Fine(r) /\ kind = "edit" -> EditAt(r)
    [] Fine(r) /\ kind \in {"strs", "edits"} -> ListAt(buf, r, end, IF kind = "strs" THEN "str" ELSE "edit")

AndThen(r, buf, end, kinds, values) ==
  IF Fine(r) THEN ValuesAt(buf, r.next, end, kinds, Append(values, r.value)) ELSE Error

\* Values of some kinds, in order.
ValuesAt(buf, next, end, kinds, values) ==
  IF kinds = <<>> THEN Reading(values, next)
  ELSE AndThen(As(Head(kinds), ValueAt(buf, next, end, Head(kinds)), buf, end), buf, end, Tail(kinds), values)

ListAt(buf, header, end, kind) ==
  ValuesAt(buf, header.next, end, [i \in 1..header.value |-> kind], <<>>)

\* The elements of an array, of some kinds, what is appended to them skipped.
FirstOf(r, n) == IF Fine(r) THEN Reading(SubSeq(r.value, 1, n), r.next) ELSE Error
ElementsAt(buf, header, end, kinds) ==
  IF ~Fine(header) \/ header.value < Len(kinds) THEN Error
  ELSE FirstOf(ValuesAt(buf, header.next, end, kinds \o [i \in 1..(header.value - Len(kinds)) |-> "raw"], <<>>), Len(kinds))

\* An edit's envelope, and its raw bytes.
Envelope(raw, r) ==
  IF Fine(r) /\ r.value[6][2] \in {Num(0), Num(1), Num(2)} THEN Reading(<<r.value, raw.value>>, raw.next) ELSE Error
EnvelopeAt(raw, bytes, outer) ==
  IF ~Fine(outer) \/ outer.value < 1 THEN Error
  ELSE Envelope(raw, ElementsAt(bytes, ArrayHeaderAt(bytes, outer.next, Len(bytes)), Len(bytes),
                                <<"int", "str", "int", "bin", "date", "int">>))
EditAt(raw) == EnvelopeAt(raw, raw.value, ArrayHeaderAt(raw.value, 0, Len(raw.value)))

KindsOf ==
  [t \in {"edits", "live", "vouch", "view", "end"} |->
     CASE t = "edits" -> <<"str", "edits">>
       [] t \in {"live", "vouch"} -> <<"str", "int">>
       [] t = "view" -> <<"str", "str", "int", "strs">>
       [] t = "end" -> <<"str", "int", "str">>]

\* A frame's tag, and its elements after it.
Told(t, r) == IF Fine(r) THEN Reading(<<t, Tail(r.value)>>, r.next) ELSE Error
FrameAt(bytes, header, tag) ==
  LET known == {t \in DOMAIN KindsOf : tag.value = <<"str", Tags[t]>>}
  IN  IF ~Fine(tag) \/ known = {} THEN Error
      ELSE LET t == CHOOSE k \in known : TRUE IN Told(t, ElementsAt(bytes, header, Len(bytes), KindsOf[t]))

ParseHeaded(bytes, header) ==
  IF ~Fine(header) \/ header.value < 1 THEN Error
  ELSE FrameAt(bytes, header, StrAt(bytes, header.next, Len(bytes)))
ParseFrame(bytes) == ParseHeaded(bytes, ArrayHeaderAt(bytes, 0, Len(bytes)))

\* The operation at an offset: its opcode, its key, and the bytes of the value it sets.
OpOfCode(buf, next, op) ==
  IF ~Fine(op) \/ op.value[2] \notin {Num(0), Num(1)} THEN Error
  ELSE ValuesAt(buf, next, Len(buf), IF op.value[2] = Num(0) THEN <<"int", "str", "raw">> ELSE <<"int", "str">>, <<>>)
OpAt(buf, next) == OpOfCode(buf, next, IntAt(buf, next, Len(buf)))

RECURSIVE EditOpsAt(_, _, _, _)

\* The operations of an edit's items left.
AndOp(op, buf, left, ops) ==
  IF Fine(op) THEN EditOpsAt(buf, op.next, left - Len(op.value), Append(ops, Tail(op.value))) ELSE Error
EditOpsAt(buf, next, left, ops) ==
  IF left < 0 THEN Error ELSE IF left = 0 THEN Reading(ops, next) ELSE AndOp(OpAt(buf, next), buf, left, ops)

EditOpsAfter(raw, envelope, left) == IF Fine(envelope) THEN EditOpsAt(raw, envelope.next, left, <<>>) ELSE Error
EditOpsOf(raw, header) ==
  IF Fine(header) THEN EditOpsAfter(raw, RawAt(raw, header.next, Len(raw)), header.value - 1) ELSE Error
EditOps(raw) == EditOpsOf(raw, ArrayHeaderAt(raw, 0, Len(raw)))

-----------------------------------------------------------------------------
\* A stream's body.

NoBody == [kind |-> "none", bytes |-> <<>>, from |-> 0, arrived |-> 0, of |-> <<>>]
Body(kind, bytes, of) == [NoBody EXCEPT !.kind = kind, !.bytes = bytes, !.of = of]

FramingInit == stage = "rest" /\ body = NoBody /\ br = NewReader(0) /\ got = <<>>

OpenStream(stream) ==
  /\ stage' = "frames"
  /\ body' = Body("frames", Each(FrameBytes, stream), stream)
  /\ UNCHANGED <<br, got>>

\* A value of any shape, written whole; one too deep is not.
OpenValue(v) ==
  /\ \E written \in {EncodeAny(v)} :
       /\ stage' = IF Fine(written) THEN "value" ELSE "refused"
       /\ body' = Body("value", IF Fine(written) THEN written.value ELSE <<>>, v)
  /\ UNCHANGED <<br, got>>

\* more(): what the reader asked for is not there, and a chunk comes.
ChunkArrives(size) ==
  LET left == Len(body.bytes) - body.arrived
      n == IF size < left THEN size ELSE left
  IN  /\ n > 0
      /\ br' = More(br, Slice(body.bytes, body.arrived, n))
      /\ body' = [body EXCEPT !.arrived = @ + n]

Refill ==
  /\ stage \in {"frames", "value"} /\ TryValues(br, 1) = Truncated
  /\ \E size \in ChunkSizes : ChunkArrives(size)
  /\ UNCHANGED <<stage, got>>

\* The body ends, here or short of its end.
BodyEnds ==
  /\ stage = "frames" /\ TryValues(br, 1) = Truncated
  /\ stage' = IF Available(br) > 0 THEN "failed" ELSE "ended"
  /\ UNCHANGED <<body, br, got>>

\* A whole frame goes to the callback; an end is the last, and one that is none ends all.
Delivered(to, frame) ==
  /\ stage' = IF ~Fine(frame) THEN "failed" ELSE IF frame.value[1] = "end" THEN "ended" ELSE stage
  /\ got' = IF Fine(frame) THEN Append(got, frame.value) ELSE got
  /\ br' = IF to < 0 THEN br ELSE Taken(br, to)

Deliver ==
  /\ stage = "frames"
  /\ \E to \in {TryValues(br, 1)} :
       /\ to # Truncated
       /\ Delivered(to, IF to < 0 THEN Error ELSE ParseFrame(BytesTo(br, to)))
  /\ UNCHANGED body

\* A whole value, decoded.
ReadValue ==
  /\ stage = "value"
  /\ \E to \in {TryValues(br, 1)} :
       /\ to # Truncated
       /\ br' = Taken(br, to)
       /\ got' = <<DecodeAny(BytesTo(br, to))>>
  /\ stage' = "ended"
  /\ UNCHANGED body

FramingNext ==
  \/ stage = "rest" /\ \E stream \in Streams : OpenStream(stream)
  \/ stage = "rest" /\ \E v \in Anys : OpenValue(v)
  \/ Refill
  \/ ReadValue
  \/ BodyEnds
  \/ Deliver

-----------------------------------------------------------------------------
\* What was sent, as it should be read.

Strs(s) == [i \in DOMAIN s |-> <<"str", s[i]>>]
OpOf(op) == IF Len(op) = 2 THEN <<<<"str", op[1]>>, op[2]>> ELSE <<<<"str", op[1]>>>>
EnvelopeOf(e) ==
  <<<<"int", Num(e.position)>>, <<"str", e.slice>>, <<"int", Num(e.seq)>>, <<"bin", e.id>>,
    <<"date", Num(e.sec), e.ms>>, <<"int", Num(e.lifecycle)>>>>
FrameOf(f) ==
  CASE f.tag \in {"live", "vouch"} -> <<f.tag, <<<<"int", Num(f.position)>>>>>>
    [] f.tag = "view" -> <<f.tag, <<<<"str", f.token>>, <<"int", Num(f.position)>>, Strs(f.selectors)>>>>
    [] f.tag = "end" -> <<f.tag, <<<<"int", Num(f.code)>>, <<"str", f.reason>>>>>>
    [] f.tag = "edits" -> <<f.tag, <<[i \in DOMAIN f.edits |-> <<EnvelopeOf(f.edits[i]), EditBytes(f.edits[i])>>]>>>>

\* The unread bytes are the body's, from the offset the reader says to the last that arrived.
BufferIsTheBody ==
  /\ Offset(br) + Available(br) = body.from + body.arrived
  /\ BytesTo(br, br.len) = Slice(body.bytes, Offset(br) - body.from, Available(br))

\* The bytes of the first frames of a stream.
LengthOf(stream, n) == Len(Each(FrameBytes, SubSeq(stream, 1, n)))

\* A stream's frames, as they are read of it.
FramesRead ==
  LET n == Len(got)
      next == IF n = Len(body.of) THEN [tag |-> "nothing"] ELSE body.of[n + 1]
      ended == n > 0 /\ got[n][1] = "end"
  IN  /\ n <= Len(body.of)
      /\ \A i \in 1..n :
           /\ got[i] = FrameOf(body.of[i])
           /\ got[i][1] = "end" => i = n /\ stage = "ended"
           /\ got[i][1] = "edits" =>
                \A j \in DOMAIN body.of[i].edits :
                  EditOps(got[i][2][1][j][2]).value =
                    [k \in DOMAIN body.of[i].edits[j].ops |-> OpOf(body.of[i].edits[j].ops[k])]
      /\ stage # "failed" => Offset(br) = LengthOf(body.of, n)
      /\ stage = "ended" => ended \/ Available(br) = 0
      /\ stage = "failed" =>
           \/ next.tag = "none"
           \/ /\ body.arrived > LengthOf(body.of, n)
              /\ next.tag # "nothing" /\ body.arrived < LengthOf(body.of, n + 1)

\* A value is whole when all of it is there and no sooner, and is read as what was written.
ValueRead ==
  /\ stage = "refused" => DecodeAny(AnyBytes(body.of)) = Error.value
  /\ stage = "value" => (TryValues(br, 1) # Truncated <=> body.arrived = Len(body.bytes))
  /\ stage = "ended" => got = <<body.of>> /\ body.arrived = Len(body.bytes)
  /\ stage = "value" /\ body.arrived < Len(body.bytes) => DecodeAny(BytesTo(br, br.len)) = Error.value

\* Whatever the chunks, frames read are those sent, each once and in order, an edit's
\* operations with them; none that arrived whole is left behind, nothing after an end is
\* read, and a reading fails only for what is no frame or for a body that ends within one.
\* A value is read back as it was written.  (ByteReader, frames, parseFrame, readEnvelope,
\* editOps, measure, Reader.any, Writer.any)
BodiesReadAsSent ==
  /\ stage # "rest" /\ stage # "refused" => BufferIsTheBody
  /\ body.kind = "value" => ValueRead
  /\ body.kind = "frames" => FramesRead
=============================================================================

------------------------------ MODULE Msgpack -------------------------------
(***************************************************************************)
(* The TypeScript client's msgpack cursor and writer                       *)
(* (client/ts/src/msgpack.ts): measuring a value without decoding it,      *)
(* reading any value with no schema, and writing each in its smallest      *)
(* form.                                                                   *)
(*                                                                         *)
(* A buffer is a sequence of bytes, and an offset counts from 0.  An       *)
(* integer of up to 64 bits is its two's complement in nine bytes, big     *)
(* end first, the first of them its sign; a string is its UTF-8; a float   *)
(* its bytes; and a date its seconds and its milliseconds within one.      *)
(***************************************************************************)
EXTENDS Integers, FiniteSets, Sequences, SequencesExt

CONSTANT MaxDepth      \* how deep a value may nest: MAX_DEPTH, 512 in the code

ASSUME MaxDepthIsNatural == MaxDepth \in Nat

RECURSIVE BigEndian(_)
BigEndian(bytes) == IF bytes = <<>> THEN 0 ELSE BigEndian(Front(bytes)) * 256 + Last(bytes)

\* n in a number of bytes, big end first.
InBytes(n, count) == [i \in 1..count |-> (n \div 256 ^ (count - i)) % 256]

\* The bytes of a buffer from an offset.
Slice(buf, at, n) == SubSeq(buf, at + 1, at + n)

Malformed == -2     \* an error is thrown
Truncated == -1     \* the buffer ends before the value does

-----------------------------------------------------------------------------
\* Measuring.

Fixed(payload) == [len |-> 0, header |-> 1, payload |-> payload, kids |-> 0, each |-> 0]
Parent(kids) == [Fixed(0) EXCEPT !.kids = kids]
Sized(len) == [Fixed(0) EXCEPT !.len = len, !.header = 1 + len]
Counted(len, each) == [Sized(len) EXCEPT !.each = each]
Extension(len) == [Sized(len) EXCEPT !.header = 2 + len]

\* What a value's first byte says of its size, as measure() has it.
SizeForm ==
  [b \in 0..255 \ {193} |->
    CASE b <= 127 \/ b >= 224 -> Fixed(0)
      [] b \in 128..143 -> Parent((b - 128) * 2)
      [] b \in 144..159 -> Parent(b - 144)
      [] b \in 160..191 -> Fixed(b - 160)
      [] b \in {192, 194, 195} -> Fixed(0)
      [] b \in {196, 217} -> Sized(1)
      [] b \in {197, 218} -> Sized(2)
      [] b \in {198, 219} -> Sized(4)
      [] b \in 199..201 -> Extension(2 ^ (b - 199))
      [] b \in 202..203 -> Fixed(4 * 2 ^ (b - 202))
      [] b \in 204..207 -> Fixed(2 ^ (b - 204))
      [] b \in 208..211 -> Fixed(2 ^ (b - 208))
      [] b \in 212..216 -> Fixed(1 + 2 ^ (b - 212))
      [] b \in 220..221 -> Counted(2 * 2 ^ (b - 220), 1)
      [] b \in 222..223 -> Counted(2 * 2 ^ (b - 222), 2)]

RECURSIVE MeasureAll(_, _, _, _)
MeasureAll(buf, pos, end, pending) ==
  IF pending = 0 THEN pos
  ELSE IF pos >= end THEN Truncated
  ELSE IF buf[pos + 1] = 193 THEN Malformed
  ELSE LET form == SizeForm[buf[pos + 1]]
           n == BigEndian(Slice(buf, pos + 1, form.len))
           payload == IF form.len > 0 /\ form.each = 0 THEN n ELSE form.payload
           next == pos + form.header + payload
       IN  IF pos + 1 + form.len > end \/ next > end THEN Truncated
           ELSE MeasureAll(buf, next, end, pending - 1 + form.kids + form.each * n)

\* The offset after the value at one, if the buffer holds all of it.
Measure(buf, pos, end) == MeasureAll(buf, pos, end, 1)

-----------------------------------------------------------------------------
\* Reading.  A reading is a value and the offset after it.

Reading(value, next) == [value |-> value, next |-> next]
Error == Reading(<<"error">>, Malformed)
Fine(r) == r.next # Malformed

ZeroExtended(bytes) == [i \in 1..9 |-> IF i > 9 - Len(bytes) THEN bytes[i - 9 + Len(bytes)] ELSE 0]
SignExtended(bytes) ==
  [i \in 1..9 |-> IF i > 9 - Len(bytes) THEN bytes[i - 9 + Len(bytes)]
                  ELSE IF bytes[1] >= 128 THEN 255 ELSE 0]

\* The kind of value a first byte begins, as Reader.kind has it.
KindOfByte ==
  [b \in 0..255 \ {193} |->
    CASE b <= 127 \/ b >= 224 -> "int"
      [] b \in 128..143 -> "map"
      [] b \in 144..159 -> "array"
      [] b \in 160..191 -> "str"
      [] b = 192 -> "nil"
      [] b \in 194..195 -> "bool"
      [] b \in 196..198 -> "bin"
      [] b \in 199..201 \cup 212..216 -> "ext"
      [] b \in 202..203 -> "float"
      [] b \in 204..211 -> "int"
      [] b \in 217..219 -> "str"
      [] b \in 220..221 -> "array"
      [] b \in 222..223 -> "map"]

\* A length in the first byte, or in the one, two or four after it: the offset after it is
\* part of the answer.
HeaderAt(buf, pos, end, fix, wide) ==
  LET b == buf[pos + 1]
  IN  IF pos >= end THEN Error
      ELSE IF b \in DOMAIN fix THEN Reading(fix[b], pos + 1)
      ELSE IF b \notin DOMAIN wide \/ pos + 1 + wide[b] > end THEN Error
      ELSE Reading(BigEndian(Slice(buf, pos + 1, wide[b])), pos + 1 + wide[b])

StrHeaderAt(buf, pos, end) ==
  HeaderAt(buf, pos, end, [b \in 160..191 |-> b - 160], [b \in 217..219 |-> 2 ^ (b - 217)])
BinHeaderAt(buf, pos, end) ==
  HeaderAt(buf, pos, end, [b \in {} |-> 0], [b \in 196..198 |-> 2 ^ (b - 196)])
ArrayHeaderAt(buf, pos, end) ==
  HeaderAt(buf, pos, end, [b \in 144..159 |-> b - 144], [b \in 220..221 |-> 2 * 2 ^ (b - 220)])
MapHeaderAt(buf, pos, end) ==
  HeaderAt(buf, pos, end, [b \in 128..143 |-> b - 128], [b \in 222..223 |-> 2 * 2 ^ (b - 222)])

\* The bytes a header counts.
BytesAt(buf, end, kind, header) ==
  IF ~Fine(header) \/ header.next + header.value > end THEN Error
  ELSE Reading(<<kind, Slice(buf, header.next, header.value)>>, header.next + header.value)

StrAt(buf, pos, end) == BytesAt(buf, end, "str", StrHeaderAt(buf, pos, end))
BinAt(buf, pos, end) == BytesAt(buf, end, "bin", BinHeaderAt(buf, pos, end))

\* Some fixed bytes after the first.
PayloadAt(buf, pos, end, width, Value(_)) ==
  IF pos + 1 + width > end THEN Error
  ELSE Reading(Value(Slice(buf, pos + 1, width)), pos + 1 + width)

IntAt(buf, pos, end) ==
  LET b == buf[pos + 1]
  IN  IF pos >= end THEN Error
      ELSE IF b <= 127 THEN Reading(<<"int", ZeroExtended(<<b>>)>>, pos + 1)
      ELSE IF b >= 224 THEN Reading(<<"int", SignExtended(<<b>>)>>, pos + 1)
      ELSE IF b \in 204..207
      THEN PayloadAt(buf, pos, end, 2 ^ (b - 204), LAMBDA bytes : <<"int", ZeroExtended(bytes)>>)
      ELSE IF b \in 208..211
      THEN PayloadAt(buf, pos, end, 2 ^ (b - 208), LAMBDA bytes : <<"int", SignExtended(bytes)>>)
      ELSE Error

FloatAt(buf, pos, end) ==
  PayloadAt(buf, pos, end, IF buf[pos + 1] = 202 THEN 4 ELSE 8, LAMBDA bytes : <<"float", bytes>>)

\* Nanoseconds of four bytes, or of the upper thirty bits of them; a billion is too many.
Nanoseconds(bytes) == IF bytes[1] >= 64 THEN 1000000000 ELSE BigEndian(bytes)
UpperBits(bytes) == bytes[1] * 4194304 + bytes[2] * 16384 + bytes[3] * 64 + bytes[4] \div 4

DateOf(sec, nsec) == <<"date", sec, nsec \div 1000000>>

\* A timestamp of 4, 8 or 12 bytes; the type of the extension is -1.
TimestampAt(buf, pos, end) ==
  LET b == buf[pos + 1]
      sized == b = 199
      header == IF sized THEN 2 ELSE 1
      size == CASE b = 214 -> 4 [] b = 215 -> 8 [] sized -> buf[pos + 2]
      at == pos + header + 1
      early == Slice(buf, at, 4)
      nsec == CASE size = 4 -> 0 [] size = 8 -> UpperBits(early) [] size = 12 -> Nanoseconds(early)
      sec == CASE size = 4 -> ZeroExtended(early)
               [] size = 8 -> ZeroExtended(<<early[4] % 4>> \o Slice(buf, at + 4, 4))
               [] size = 12 -> SignExtended(Slice(buf, at + 4, 8))
  IN  IF b \notin {199, 214, 215} \/ (sized /\ pos + 2 > end) THEN Error
      ELSE IF at + size > end THEN Error
      ELSE IF buf[at] # 255 \/ size \notin {4, 8, 12} THEN Error
      ELSE IF nsec > 999999999 THEN Error
      ELSE Reading(DateOf(sec, nsec), at + size)

\* A property set over what an object has of its name.
SetEntry(entries, key, value) ==
  LET at == {i \in DOMAIN entries : entries[i][1] = key}
  IN  IF at = {} THEN Append(entries, <<key, value>>)
      ELSE [i \in DOMAIN entries |-> IF i \in at THEN <<key, value>> ELSE entries[i]]

RECURSIVE AnyAt(_, _, _, _), EachItemAt(_, _, _, _, _, _), EachEntryAt(_, _, _, _, _, _)

\* n items, and n entries, after those read.
AndItems(r, buf, end, depth, n, items) ==
  IF Fine(r) THEN EachItemAt(buf, r.next, end, depth, n, Append(items, r.value)) ELSE Error
EachItemAt(buf, next, end, depth, n, items) ==
  IF n = 0 THEN Reading(<<"array", items>>, next)
  ELSE AndItems(AnyAt(buf, next, end, depth), buf, end, depth, n - 1, items)

AndEntries(r, key, buf, end, depth, n, entries) ==
  IF Fine(r) THEN EachEntryAt(buf, r.next, end, depth, n, SetEntry(entries, key, r.value)) ELSE Error
WithKey(k, buf, end, depth, n, entries) ==
  IF Fine(k) THEN AndEntries(AnyAt(buf, k.next, end, depth), k.value[2], buf, end, depth, n, entries) ELSE Error
EachEntryAt(buf, next, end, depth, n, entries) ==
  IF n = 0 THEN Reading(<<"map", entries>>, next)
  ELSE WithKey(StrAt(buf, next, end), buf, end, depth, n - 1, entries)

ArrayAt(buf, header, end, depth) ==
  IF Fine(header) THEN EachItemAt(buf, header.next, end, depth, header.value, <<>>) ELSE Error
MapAt(buf, header, end, depth) ==
  IF Fine(header) THEN EachEntryAt(buf, header.next, end, depth, header.value, <<>>) ELSE Error

\* Any value: bin, and any extension but a timestamp, is refused.
AnyAt(buf, pos, end, depth) ==
  LET kind == KindOfByte[buf[pos + 1]]
  IN  IF depth > MaxDepth \/ pos >= end THEN Error
      ELSE IF buf[pos + 1] = 193 THEN Error
      ELSE CASE kind = "nil" -> Reading(<<"nil">>, pos + 1)
             [] kind = "bool" -> Reading(<<"bool", buf[pos + 1] = 195>>, pos + 1)
             [] kind = "int" -> IntAt(buf, pos, end)
             [] kind = "float" -> FloatAt(buf, pos, end)
             [] kind = "str" -> StrAt(buf, pos, end)
             [] kind = "ext" -> TimestampAt(buf, pos, end)
             [] kind = "bin" -> Error
             [] kind = "array" -> ArrayAt(buf, ArrayHeaderAt(buf, pos, end), end, depth + 1)
             [] kind = "map" -> MapAt(buf, MapHeaderAt(buf, pos, end), end, depth + 1)

\* One whole value and nothing after it.
DecodeAny(buf) ==
  LET r == AnyAt(buf, 0, Len(buf), 0) IN IF Fine(r) /\ r.next = Len(buf) THEN r.value ELSE Error.value

-----------------------------------------------------------------------------
\* Writing, each value in its smallest form.

\* A container's header.
ContainerHeader(n, fix, wide) ==
  IF n < 16 THEN <<fix + n>>
  ELSE IF n < 65536 THEN <<wide>> \o InBytes(n, 2) ELSE <<wide + 1>> \o InBytes(n, 4)

ArrayHeader(n) == ContainerHeader(n, 144, 220)
MapHeader(n) == ContainerHeader(n, 128, 222)

SizeHeader(n, first) ==
  IF n < 256 THEN <<first, n>>
  ELSE IF n < 65536 THEN <<first + 1>> \o InBytes(n, 2) ELSE <<first + 2>> \o InBytes(n, 4)

StrBytes(s) == (IF Len(s) < 32 THEN <<160 + Len(s)>> ELSE SizeHeader(Len(s), 217)) \o s
BinBytes(b) == SizeHeader(Len(b), 196) \o b

LastBytes(v, n) == SubSeq(v, Len(v) - n + 1, Len(v))

Extended(negative, bytes) == IF negative THEN SignExtended(bytes) ELSE ZeroExtended(bytes)

\* The narrowest of the widths an integer is whole in, from one.
WidthFrom(v, negative, widths) ==
  CHOOSE k \in DOMAIN widths :
    /\ v = Extended(negative, LastBytes(v, widths[k]))
    /\ \A j \in 1..(k - 1) : v # Extended(negative, LastBytes(v, widths[j]))

\* A safe integer in itself, or after the byte that names its sign and its width.
IntForm(v, negative, widths) ==
  IF WidthFrom(v, negative, widths) = 1 /\ (IF negative THEN v[9] >= 224 ELSE v[9] < 128) THEN <<v[9]>>
  ELSE LET k == WidthFrom(v, negative, widths)
       IN  <<(IF negative THEN 208 ELSE 204) + k - 1>> \o LastBytes(v, widths[k])

IntBytes(v) == IntForm(v, v[1] = 255, <<1, 2, 4, 8>>)

\* A date, as the smallest timestamp that holds it: seconds of 32 bits and no more, of 34
\* bits, or of 64.
Timestamp(sec, ms) ==
  LET nsec == ms * 1000000
      fits == \A i \in 1..4 : sec[i] = 0
  IN  IF fits /\ sec[5] < 4
      THEN IF nsec = 0 /\ sec[5] = 0 THEN <<214, 255>> \o LastBytes(sec, 4)
           ELSE <<215, 255>> \o InBytes(nsec \div 64, 3) \o <<(nsec % 64) * 4 + sec[5]>> \o LastBytes(sec, 4)
      ELSE <<199, 12, 255>> \o InBytes(nsec, 4) \o LastBytes(sec, 8)

RECURSIVE AnyBytes(_)
AnyBytes(v) ==
  CASE v[1] = "nil" -> <<192>>
    [] v[1] = "bool" -> <<IF v[2] THEN 195 ELSE 194>>
    [] v[1] = "int" -> IntBytes(v[2])
    [] v[1] = "float" -> <<203>> \o v[2]
    [] v[1] = "str" -> StrBytes(v[2])
    [] v[1] = "date" -> Timestamp(v[2], v[3])
    [] v[1] = "array" -> ArrayHeader(Len(v[2])) \o FlattenSeq([i \in DOMAIN v[2] |-> AnyBytes(v[2][i])])
    [] v[1] = "map" ->
         MapHeader(Len(v[2])) \o FlattenSeq([i \in DOMAIN v[2] |-> StrBytes(v[2][i][1]) \o AnyBytes(v[2][i][2])])

RECURSIVE DepthOf(_)
DepthOf(v) ==
  LET inner == CASE v[1] = "array" -> {v[2][i] : i \in DOMAIN v[2]}
                 [] v[1] = "map" -> {v[2][i][2] : i \in DOMAIN v[2]}
                 [] v[1] \notin {"array", "map"} -> {}
  IN  IF inner = {} THEN 0 ELSE 1 + CHOOSE d \in {DepthOf(x) : x \in inner} : \A x \in inner : DepthOf(x) <= d

EncodeAny(v) == IF DepthOf(v) > MaxDepth THEN Error ELSE Reading(AnyBytes(v), 0)
=============================================================================

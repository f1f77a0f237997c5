-------------------------------- MODULE Blob --------------------------------
(***************************************************************************)
(* A snapshot's blob as it is downloaded (client/ts/src/http.ts, blobOpen  *)
(* and blobPages): its header, its operations as pages of whole ones, and  *)
(* its footer, over any chunks; and a download that failed, which resumes  *)
(* after the last page the engine kept, its count and its hash with it.    *)
(*                                                                         *)
(* A body may end anywhere, and a byte of it may have changed on the way.  *)
(* The engine keeps each page before the next is pushed, or loses the last *)
(* with the connection.  A range is answered with the rest of the blob, or *)
(* ignored.                                                                *)
(***************************************************************************)
EXTENDS Framing, Checksum

CONSTANTS
  Blobs,         \* a snapshot's header and its operations, as bytes
  Epoch,         \* the log's, as the response states it
  Position,      \* the cut's, as the response states it
  Changed,       \* where a byte may change
  PageOps,       \* operations to a page, 1000 in the code
  PageBytes,     \* bytes to a page, 256 KiB in the code
  MaxOperation,  \* an operation longer is corrupt, 32 MiB in the code
  MaxDownloads   \* downloads of one snapshot: a bound of the model

ASSUME BlobBounds ==
  /\ PageOps \in Nat \ {0} /\ PageBytes \in Nat \ {0}
  /\ MaxOperation \in Nat /\ MaxDownloads \in Nat

VARIABLE reading    \* of a blob: what was counted and hashed, and the page not yet full

blobVars == <<framingVars, reading>>

-----------------------------------------------------------------------------
\* The blob, as the database cuts it; its header's selector and sizes are left out, and one
\* that says nothing of what is visible is another writer's.

Named(name) == [epoch |-> <<101>>, position |-> <<112>>, slices |-> <<115>>, visible |-> <<118>>][name]
HeaderBytes(b) ==
  LET Field(name) == StrBytes(Named(name)) \o AnyBytes(b[name])
      names == <<"position", "epoch", "slices">> \o (IF b.visible = <<"nil">> THEN <<>> ELSE <<"visible">>)
  IN  MapHeader(Len(names)) \o Each(Field, names)

Preamble(b) == <<80, 76, 83, 78, 1>> \o InBytes(Len(HeaderBytes(b)), 4) \o HeaderBytes(b) \o Crc32c(HeaderBytes(b))
Footer(ops) == InBytes(Len(ops), 4) \o Digest(FnvUpdate(FnvStart, FlattenSeq(ops)))
BlobBytes(b) == Preamble(b) \o FlattenSeq(b.ops) \o <<255, 255, 255, 255>> \o Footer(b.ops) \o Crc32c(Footer(b.ops))

\* A byte at an offset that is not what it was; none for an offset of -1.
Altered(bytes, at) == [i \in DOMAIN bytes |-> IF i = at + 1 THEN (bytes[i] + 1) % 256 ELSE bytes[i]]

-----------------------------------------------------------------------------
NoReading ==
  [left |-> 0, hlen |-> 0, count |-> 0, fnv |-> FnvStart, opEnd |-> 0, page |-> <<>>, ops |-> 0,
   downloads |-> 0, sound |-> TRUE]

BlobInit == FramingInit /\ reading = NoReading

\* The first download of a snapshot.
Start(b, at) ==
  /\ stage' = "magic"
  /\ body' = Body("blob", Altered(BlobBytes(b), at), b)
  /\ reading' = [NoReading EXCEPT !.downloads = 1, !.sound = (at = -1)]
  /\ UNCHANGED <<br, got>>

\* A chunk comes to a reader that needs bytes it does not have.
AwaitsBytes ==
  \/ stage = "magic" /\ Available(br) < 9
  \/ stage = "header" /\ Available(br) < reading.hlen + 4
  \/ stage = "skip" /\ Available(br) < reading.left
  \/ stage = "ops" /\ Available(br) < 1
  \/ stage = "ops" /\ Available(br) \in 1..19 /\ br.buf[br.pos + 1] = 255
  \/ /\ stage = "ops" /\ Available(br) \in 1..MaxOperation /\ br.buf[br.pos + 1] = 0
     /\ TryValues(br, 3) = Truncated

\* Bytes skipped are taken before more are asked for.
FillBlob ==
  /\ AwaitsBytes
  /\ \E size \in ChunkSizes :
       LET left == Len(body.bytes) - body.arrived
           n == IF size < left THEN size ELSE left
           r == IF stage = "skip" THEN Taken(br, br.len) ELSE br
       IN  /\ n > 0
           /\ br' = More(r, Slice(body.bytes, body.arrived, n))
           /\ body' = [body EXCEPT !.arrived = @ + n]
  /\ reading' = IF stage = "skip" THEN [reading EXCEPT !.left = @ - Available(br)] ELSE reading
  /\ UNCHANGED <<stage, got>>

BlobEnds ==
  /\ AwaitsBytes
  /\ stage' = "failed"
  /\ UNCHANGED <<body, br, got, reading>>

Skipped ==
  /\ stage = "skip" /\ Available(br) >= reading.left
  /\ stage' = "ops"
  /\ br' = Taken(br, br.pos + reading.left)
  /\ reading' = [reading EXCEPT !.left = 0]
  /\ UNCHANGED <<body, got>>

ReadMagic ==
  /\ stage = "magic" /\ Available(br) >= 9
  /\ \E bytes \in {BytesTo(br, br.pos + 9)} :
       /\ stage' = IF SubSeq(bytes, 1, 5) = <<80, 76, 83, 78, 1>> THEN "header" ELSE "failed"
       /\ reading' = [reading EXCEPT !.hlen = BigEndian(SubSeq(bytes, 6, 9))]
  /\ br' = Taken(br, br.pos + 9)
  /\ UNCHANGED <<body, got>>

FieldOf(header, name) ==
  LET at == {i \in DOMAIN header[2] : header[2][i][1] = Named(name)}
  IN  IF at = {} THEN <<"nil">> ELSE header[2][CHOOSE i \in at : TRUE][2]

\* The header's checksum, its epoch, its position, and that it says what is visible.
AfterHeader(header) ==
  IF FieldOf(header, "epoch") # Epoch THEN "stale"
  ELSE IF FieldOf(header, "position") # Position \/ FieldOf(header, "visible")[1] # "int" THEN "failed"
  ELSE "ops"

ReadHeader ==
  /\ stage = "header" /\ Available(br) >= reading.hlen + 4
  /\ \E bytes \in {BytesTo(br, br.pos + reading.hlen)}, crc \in {Slice(br.buf, br.pos + reading.hlen, 4)} :
       stage' = IF crc # Crc32c(bytes) THEN "failed" ELSE AfterHeader(DecodeAny(bytes))
  /\ br' = Taken(br, br.pos + reading.hlen + 4)
  /\ reading' = [reading EXCEPT !.opEnd = Offset(br) + reading.hlen + 4]
  /\ UNCHANGED <<body, got>>

-----------------------------------------------------------------------------
\* A page: its operations, the offset after them, and the count and the hash through them.
PageOf(r) == [page |-> r.page, skip |-> r.opEnd, count |-> r.count, state |-> Digest(r.fnv)]
Flushed(r) == [r EXCEPT !.page = <<>>, !.ops = 0]

WithOp(r, op, end) ==
  [r EXCEPT !.fnv = FnvUpdate(@, op), !.page = @ \o op, !.count = @ + 1, !.ops = @ + 1, !.opEnd = end]

Full(r) == r.ops >= PageOps \/ Len(r.page) >= PageBytes

\* An operation, whole; it may fill its page.
OpCounted(r) ==
  /\ reading' = IF Full(r) THEN Flushed(r) ELSE r
  /\ got' = IF Full(r) THEN Append(got, PageOf(r)) ELSE got

ReadOp ==
  /\ stage = "ops" /\ Available(br) > 0 /\ br.buf[br.pos + 1] = 0
  /\ \E to \in {TryValues(br, 3)} :
       /\ to >= 0
       /\ br' = Taken(br, to)
       /\ OpCounted(WithOp(reading, BytesTo(br, to), br.base + to))
  /\ UNCHANGED <<stage, body>>

\* A first byte that is no opcode and no end, an operation that is too long or malformed.
Corrupt ==
  /\ stage = "ops" /\ Available(br) > 0
  /\ \/ br.buf[br.pos + 1] \notin {0, 255}
     \/ br.buf[br.pos + 1] = 0 /\ TryValues(br, 3) = Truncated /\ Available(br) > MaxOperation
     \/ br.buf[br.pos + 1] = 0 /\ TryValues(br, 3) = Malformed
  /\ stage' = "failed"
  /\ UNCHANGED <<body, br, got, reading>>

FooterHolds(bytes) ==
  /\ SubSeq(bytes, 1, 4) = <<255, 255, 255, 255>>
  /\ SubSeq(bytes, 17, 20) = Crc32c(SubSeq(bytes, 5, 16))
  /\ SubSeq(bytes, 5, 8) = InBytes(reading.count, 4)
  /\ SubSeq(bytes, 9, 16) = Digest(reading.fnv)

\* The footer, and the last page.
ReadFooter ==
  /\ stage = "ops" /\ Available(br) >= 20 /\ br.buf[br.pos + 1] = 255
  /\ \E holds \in {FooterHolds(BytesTo(br, br.pos + 20))} :
       /\ stage' = IF holds THEN "done" ELSE "failed"
       /\ got' = IF holds /\ reading.ops > 0 THEN Append(got, PageOf(reading)) ELSE got
  /\ br' = Taken(br, br.pos + 20)
  /\ reading' = Flushed(reading)
  /\ UNCHANGED body

\* The count and the hash through the last page kept.
ResumedFrom(page) ==
  [NoReading EXCEPT !.count = page.count, !.fnv = Resumed(page.state), !.opEnd = page.skip,
                    !.downloads = reading.downloads + 1, !.sound = reading.sound]

\* A download after one that failed, from what the engine has kept, whose response is the
\* whole blob or the range asked for.
Resume(kept, ranged) ==
  LET whole == BlobBytes(body.of)
      skip == got[kept].skip
  IN  /\ stage = "failed" /\ body.kind = "blob" /\ reading.downloads < MaxDownloads
      /\ kept \in (Len(got) - 1)..Len(got) /\ kept > 0
      /\ got' = SubSeq(got, 1, kept)
      /\ body' = IF ranged THEN [Body("blob", Slice(whole, skip, Len(whole) - skip), body.of) EXCEPT !.from = skip]
                 ELSE Body("blob", whole, body.of)
      /\ br' = NewReader(IF ranged THEN skip ELSE 0)
      /\ stage' = IF ranged THEN "ops" ELSE "skip"
      /\ reading' = [ResumedFrom(got[kept]) EXCEPT !.left = IF ranged THEN 0 ELSE skip]

BlobNext ==
  \/ FramingNext /\ UNCHANGED reading
  \/ stage = "rest" /\ \E b \in Blobs, at \in Changed \cup {-1} : Start(b, at)
  \/ FillBlob
  \/ BlobEnds
  \/ Skipped
  \/ ReadMagic
  \/ ReadHeader
  \/ ReadOp
  \/ Corrupt
  \/ ReadFooter
  \/ \E kept \in 1..Len(got), ranged \in BOOLEAN : Resume(kept, ranged)

-----------------------------------------------------------------------------
\* The pages kept, end to end.
Pages == FlattenSeq([i \in DOMAIN got |-> got[i].page])

\* The first n operations, end to end.
FirstOps(n) == FlattenSeq(SubSeq(body.of.ops, 1, n))

\* A page is of whole operations, no more than it holds, and names where they end, how many
\* came before, and their hash.
PageIsTrue(i) ==
  LET before == IF i = 1 THEN 0 ELSE got[i - 1].count
      count == got[i].count
  IN  /\ count \in (before + 1)..(before + PageOps) /\ count <= Len(body.of.ops)
      /\ got[i].page = FlattenSeq(SubSeq(body.of.ops, before + 1, count))
      /\ Len(got[i].page) - Len(body.of.ops[count]) < PageBytes
      /\ got[i].skip = Len(Preamble(body.of)) + Len(FirstOps(count))
      /\ got[i].state = FnvOf(FirstOps(count))

\* Whatever the chunks, the breaks and the ranges, the pages of a blob that arrives as it was
\* cut are its operations in order, each once, and a download fails only when its body ends;
\* one that ends well has all of them even when a byte has changed on the way, and a blob of
\* another log is never read into pages.  (#blobOpen, #blobPages, Fnv64.resume, crc32c)
SnapshotIsWhole ==
  body.kind = "blob" =>
    /\ BufferIsTheBody
    /\ stage = "done" => Pages = FlattenSeq(body.of.ops)
    /\ stage = "stale" => body.of.epoch # Epoch /\ got = <<>>
    /\ reading.sound =>
         /\ got # <<>> => PageIsTrue(Len(got))
         /\ stage = "ops" => /\ body.of.epoch = Epoch
                             /\ Offset(br) = reading.opEnd
                             /\ Pages \o reading.page = FirstOps(reading.count)
         /\ stage = "failed" => \/ body.of.position # Position \/ body.of.visible[1] # "int"
                                \/ body.arrived < Len(body.bytes)
    /\ stage = "done" => Crc32c(HeaderBytes(body.of)) = CrcOf(HeaderBytes(body.of))

\* Of every body.
DownloadsAreWhole == BodiesReadAsSent /\ SnapshotIsWhole
=============================================================================

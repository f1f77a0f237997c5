--------------------------- MODULE ReplicaProofs ----------------------------
(***************************************************************************)
(* Proofs about Replica, for any slices, histories, grants, builds, faults *)
(* and bounds.                                                             *)
(*                                                                         *)
(* DownloadInv says what a backfill's record, the pushes and outcomes that *)
(* wait for it, and the call that runs for it know of each other and of    *)
(* the history: what the resume says was downloaded was, and whatever waits *)
(* goes on from there.  ViewInv says that what waits of a connection leads *)
(* from the Engine's view to the one the connection filters by.            *)
(*                                                                         *)
(* A predicate ...Holds is of the state's parts, so that a pass, which is  *)
(* a chain of store transactions, is reasoned about one transaction at a   *)
(* time.  First come lemmas about logs, sequences and the store's steps,   *)
(* then one for each transaction, each pass and each action.               *)
(***************************************************************************)
EXTENDS Replica, FiniteSetTheorems, TLAPS

-----------------------------------------------------------------------------
(* What a log says.                                                        *)

\* The edit of a slice at a position of a log, and what is an edit of its first h.
EditOf(l, s, p) ==
  [slice |-> s, position |-> p, seq |-> H!SeqAt(l, s, p),
   life |-> IF H!IsDeath(l, s, p) THEN "death" ELSE l[p][s]]
IsOf(l, h, edit) ==
  \E s \in Slices, p \in 1..h : H!IsEdit(l, s, p) /\ edit = EditOf(l, s, p)

\* Of a slice's edits past a and through b, the readable ones are among some, or
\* there is none.
HasAll(l, h, s, a, b, edits) ==
  \A p \in a + 1..b : p >= 1 /\ H!Readable(l, h, s, p) => EditOf(l, s, p) \in edits
HasNone(l, h, s, a, b) == \A p \in a + 1..b : p >= 1 => ~H!Readable(l, h, s, p)


-----------------------------------------------------------------------------
(* A backfill's blob, pushes and calls.                                    *)

HeaderOf(l, x, c) ==
  [s \in Slices |-> IF s \in x /\ H!LiveAt(l, s, c) THEN H!SeqAt(l, s, c) ELSE 0]
PagesOf(l, x, c) == SetToSeq({s \in x : H!LiveAt(l, s, c)})
PageOf(l, x, c, i) ==
  [at |-> i - 1, slice |-> PagesOf(l, x, c)[i], state |-> H!StateAt(l, PagesOf(l, x, c)[i], c)]
Quiet(l, x, a, b) == \A s \in x, p \in a + 1..b : p >= 1 => ~H!IsEdit(l, s, p)

\* A record of a backfill's fields.
IsBackfill(b) ==
  b \in [until : Int, resume : {b.resume}, header : {b.header}, pages : {b.pages},
         ready : BOOLEAN, retry : BOOLEAN, asked : BOOLEAN, call : {b.call}]
Blank(b) == b.header = [s \in Slices |-> 0] /\ b.pages = {}

ResumeType2(h) ==
  [position : 0..h, visible : 0..h, skip : Nat, from : 0..h,
   snapshotDone : BOOLEAN, tailDone : BOOLEAN]
CallType2(h) ==
  [blob : {"open", "body", "done"}, skip : Nat, position : 0..h,
   tail : {"wait", "read", "end", "done"}, from : Nat, tailDone : BOOLEAN]

\* What a resume says was downloaded was.
SnapshotHolds(l, b, x, r) ==
  /\ b.header = HeaderOf(l, x, r.position)
  /\ Quiet(l, x, r.visible, r.position)
  /\ r.skip <= Len(PagesOf(l, x, r.position))
  /\ b.pages = {PageOf(l, x, r.position, i) : i \in 1..r.skip}
  /\ r.snapshotDone => r.skip = Len(PagesOf(l, x, r.position))
TailHolds(l, h, b, x, r, park) ==
  /\ r.position <= r.from
  /\ \A s \in x : HasAll(l, h, s, r.position, r.from, park)
  /\ r.tailDone => \A s \in x : HasAll(l, h, s, r.position, b.until - 1, park)
ResumeHolds(l, h, b, x, park) ==
  IF b.resume = NoResume THEN Blank(b)
  ELSE /\ b.resume \in ResumeType2(h)
       /\ SnapshotHolds(l, b, x, b.resume)
       /\ TailHolds(l, h, b, x, b.resume, park)

\* The edits a push brings go on from where the tail is.
BringsOn(l, h, b, x, edits) ==
  /\ \A edit \in edits : IsOf(l, h, edit)
  /\ \A s \in x, p \in b.resume.from + 1..h :
       /\ H!Readable(l, h, s, p)
       /\ \E edit \in edits : p <= edit.position
       => EditOf(l, s, p) \in edits

\* A push that waits is what its backfill's resume makes of the next.
ItemHolds(l, h, b, x, item) ==
  LET r == b.resume IN
  CASE item.kind = "header" ->
         /\ b.pages = {}
         /\ item.position \in 0..h /\ item.visible \in 0..h
         /\ item.seqs = HeaderOf(l, x, item.position)
         /\ Quiet(l, x, item.visible, item.position)
         /\ r # NoResume => r.position <= item.position /\ ~r.snapshotDone
    [] item.kind = "page" ->
         /\ r # NoResume /\ ~r.snapshotDone
         /\ item.skip = r.skip + 1 /\ item.skip <= Len(PagesOf(l, x, r.position))
         /\ item.slice = PagesOf(l, x, r.position)[item.skip]
         /\ item.state = H!StateAt(l, item.slice, r.position)
    [] item.kind = "pagesDone" ->
         r # NoResume /\ ~r.snapshotDone /\ r.skip = Len(PagesOf(l, x, r.position))
    [] item.kind = "edits" ->
         r # NoResume /\ ~r.tailDone /\ BringsOn(l, h, b, x, item.edits)
    [] item.kind = "editsDone" ->
         r # NoResume /\ ~r.tailDone /\ \A s \in x : HasNone(l, h, s, r.from, b.until - 1)
    [] OTHER -> FALSE

KindsOf(w, I) == {w[i].item.kind : i \in I}
QueueHolds(l, h, b, x, w, I) ==
  /\ \A i \in I : ItemHolds(l, h, b, x, w[i].item)
  /\ \A i, j \in I : i # j =>
       /\ ~(w[i].item.kind \in BlobItems /\ w[j].item.kind \in BlobItems)
       /\ ~(w[i].item.kind \in TailItems /\ w[j].item.kind \in TailItems)
       /\ w[i].item.kind # "header"

\* What a call knows of its resume, by how far its blob and its tail are.
OpenHolds(b, w, I) ==
  LET call == b.call  r == b.resume IN
  /\ I = {} /\ call.tail = "wait"
  /\ IF r = NoResume THEN call.skip = 0 /\ call.position = 0 /\ call.from = 0
     ELSE /\ ~r.snapshotDone /\ call.skip = r.skip /\ call.tailDone = r.tailDone
          /\ call.position = r.position /\ call.from = r.from
FreshHolds(b, w, I) ==
  LET call == b.call  r == b.resume IN
  /\ call.skip = 0 /\ call.tail \in {"read", "done"}
  /\ \A i \in I : w[i].item.kind = "header" /\ w[i].item.position = call.position
  /\ call.from = IF r = NoResume THEN call.position ELSE Larger(r.from, call.position)
BodyHolds(b, w, I) ==
  LET call == b.call  r == b.resume IN
  /\ call.tail # "wait"
  /\ \/ "header" \in KindsOf(w, I) /\ FreshHolds(b, w, I)
     \/ /\ {"header", "pagesDone"} \cap KindsOf(w, I) = {}
        /\ r # NoResume /\ ~r.snapshotDone /\ r.position = call.position
        /\ call.skip = r.skip + IF "page" \in KindsOf(w, I) THEN 1 ELSE 0
DoneHolds(b, w, I) ==
  LET call == b.call  r == b.resume IN
  /\ call.tail # "wait"
  /\ {"header", "page"} \cap KindsOf(w, I) = {}
  /\ r # NoResume /\ r.position = call.position
  /\ r.snapshotDone \/ "pagesDone" \in KindsOf(w, I)
ReadHolds(l, h, b, x, w, I) ==
  LET call == b.call  r == b.resume IN
  "header" \notin KindsOf(w, I) =>
    /\ ~r.tailDone /\ "editsDone" \notin KindsOf(w, I)
    /\ r.from <= call.from
    /\ call.tail = "end" => call.from >= b.until
    /\ \A i \in I : w[i].item.kind = "edits" =>
         \A edit \in w[i].item.edits : edit.position <= call.from
    /\ \A s \in x, p \in r.from + 1..call.from :
         p < b.until /\ H!Readable(l, h, s, p) =>
           \E i \in I : w[i].item.kind = "edits" /\ EditOf(l, s, p) \in w[i].item.edits
CallHolds(l, h, b, x, w, I) ==
  /\ b.call \in CallType2(h)
  /\ b.call.blob = "open" => OpenHolds(b, w, I)
  /\ b.call.blob = "body" => BodyHolds(b, w, I)
  /\ b.call.blob = "done" => DoneHolds(b, w, I)
  /\ b.call.tail \in {"read", "end"} => ReadHolds(l, h, b, x, w, I)

OutcomesHold(b, o, I, O) ==
  /\ b.retry \/ O # {} => b.call = NoCall
  /\ O # {} => ~b.retry
  /\ \A i, j \in O : i = j
  /\ \A i \in O : o[i].item.kind \in {"stale", "failed"}
  /\ \A i \in O : o[i].item.kind = "stale" => I = {}

ReadyHolds(b, I, O) ==
  /\ b.ready =>
       /\ I = {} /\ O = {}
       /\ b.resume # NoResume /\ b.resume.snapshotDone /\ b.resume.tailDone
       /\ b.call = NoCall \/ (b.call.blob = "done" /\ b.call.tail = "done")
  /\ b.asked => I = {} /\ O = {} /\ ~b.ready /\ ~b.retry

DownloadHolds(l, h, b, x, park, w, I, o, O) ==
  /\ IsBackfill(b) /\ b.until \in 0..h + 1
  /\ ResumeHolds(l, h, b, x, park)
  /\ QueueHolds(l, h, b, x, w, I)
  /\ OutcomesHold(b, o, I, O)
  /\ ReadyHolds(b, I, O)
  /\ b.call # NoCall => CallHolds(l, h, b, x, w, I)

\* Of a queue past its first n, what is of a selector and current.
Pending(q, n, gone, x) ==
  {i \in n + 1..Len(q) : q[i].selector = x /\ Current(q[i]) /\ x \notin gone}

DownloadsHold(l, h, e, w, m, o, n, gone) ==
  \A x \in InFlight(e) :
    DownloadHolds(l, h, e.backfills[x], x, e.park, w, Pending(w, m, gone, x),
                  o, Pending(o, n, gone, x))

\* What is current is of a backfill in flight.
QueuesHold(e, q, n, gone) ==
  \A i \in n + 1..Len(q) : Current(q[i]) /\ q[i].selector \notin gone =>
                             q[i].selector \in InFlight(e)

IsStore(e) ==
  e \in [cursor : Int, applied : Int, view : {e.view}, seqs : {e.seqs}, base : {e.base},
         backfills : {e.backfills}, park : {e.park}, failed : BOOLEAN]
IsView(view) == view \in [token : SUBSET Selectors, selectors : SUBSET Selectors]

EngineTypes(l, h, e) ==
  /\ IsStore(e) /\ e.failed = FALSE
  /\ e.cursor \in -1..h /\ e.applied \in -1..h /\ e.applied <= e.cursor
  /\ e.view = NoView \/ IsView(e.view)
  /\ e.seqs \in [Slices -> 0..h] /\ e.base \in [Slices -> SUBSET Nat]
  /\ \A edit \in e.park : IsOf(l, h, edit)
  /\ e.backfills = [x \in InFlight(e) |-> e.backfills[x]] /\ InFlight(e) \subseteq Selectors

FrameHolds(l, h, frame) ==
  \/ frame.kind = "edits" /\ frame.position \in 1..h /\ \A edit \in frame.edits : IsOf(l, h, edit)
  \/ frame.kind = "view" /\ frame.position \in 0..h /\ IsView(frame.view)
  \/ frame.kind = "cursor" /\ frame.position \in 0..h
  \/ frame.kind = "end"

IsQueued(queued) ==
  queued \in [selector : Selectors, sameEntry : BOOLEAN, sameConn : BOOLEAN,
              item : {queued.item}]

IsSequence(q) == Len(q) \in Nat /\ q = [i \in 1..Len(q) |-> q[i]]

DatabaseTypes ==
  /\ H!IsHistory(log) /\ head \in 0..Len(log)
  /\ granted \in Grants /\ wants \in Builds /\ up \in BOOLEAN
FeedTypes ==
  /\ feed = NoFeed \/ feed \in [told : SUBSET Selectors, sent : 0..head, vouched : -1..head]
  /\ feed # NoFeed => up /\ Len(inbox) <= MaxInbox
  /\ IsSequence(inbox) /\ Len(inbox) <= MaxInbox + 1
  /\ \A i \in DOMAIN inbox : FrameHolds(log, head, inbox[i])
  /\ \A i \in DOMAIN inbox : inbox[i].kind = "end" => i = Len(inbox) /\ feed = NoFeed
QueueTypes(w, o) ==
  /\ IsSequence(w) /\ Len(w) <= MaxWork /\ \A i \in DOMAIN w : IsQueued(w[i])
  /\ IsSequence(o) /\ \A i \in DOMAIN o : IsQueued(o[i])

AskedNone(e) == \A x \in InFlight(e) : ~e.backfills[x].asked

StoreHolds(l, h, e, w, m, o, n, gone) ==
  /\ EngineTypes(l, h, e)
  /\ DownloadsHold(l, h, e, w, m, o, n, gone)
  /\ QueuesHold(e, w, m, gone) /\ QueuesHold(e, o, n, gone)

\* Downloads.
DownloadInv ==
  /\ DatabaseTypes /\ FeedTypes /\ QueueTypes(work, outcomes)
  /\ StoreHolds(log, head, engine, work, 0, outcomes, 0, {}) /\ AskedNone(engine)


LEMMA LeastOf ==
  ASSUME NEW S \in SUBSET Nat, S # {}
  PROVE  \E x \in S : \A y \in S : x <= y
<1>1. PICK x \in S : \A y \in S : <<y, x>> \notin OpToRel(<, Nat)
  BY NatLessThanWellFounded, WFMin
<1>2. \A y \in S : x <= y
  <2> TAKE y \in S
  <2>1. y < x => <<y, x>> \in OpToRel(<, Nat)
    BY Zenon DEF OpToRel
  <2>2. ~(y < x)
    BY <1>1, <2>1, Zenon
  <2>3. x \in Nat /\ y \in Nat
    OBVIOUS
  <2>4. QED
    BY <2>2, <2>3
<1>3. QED
  BY <1>2

\* A bounded set of naturals with an element has a largest one.
LEMMA LargestHolds ==
  ASSUME NEW S \in SUBSET Nat, S # {}, NEW n \in Nat, \A x \in S : x <= n
  PROVE  LargestOf(S) \in S /\ \A y \in S : y <= LargestOf(S)
<1> DEFINE T == {n - x : x \in S}
<1>1. T \in SUBSET Nat /\ T # {}
  <2>1. \A x \in S : n - x \in Nat
    OBVIOUS
  <2>2. QED
    BY <2>1
<1>2. PICK t \in T : \A u \in T : t <= u
  BY <1>1, LeastOf
<1>3. PICK x \in S : t = n - x
  OBVIOUS
<1>4. ASSUME NEW y \in S
      PROVE  y <= x
  <2>1. n - y \in T
    OBVIOUS
  <2>2. QED
    BY <1>2, <1>3, <2>1
<1>5. QED
  BY <1>4 DEF LargestOf

-----------------------------------------------------------------------------
(* Slices along a log.                                                     *)

LEMMA EditsFinite ==
  ASSUME NEW l, NEW s, NEW a \in Int, NEW b \in Int
  PROVE  /\ H!EditsIn(l, s, a..b) \in SUBSET (a..b)
         /\ IsFiniteSet(H!EditsIn(l, s, a..b))
<1>1. H!EditsIn(l, s, a..b) \in SUBSET (a..b)
  BY DEF H!EditsIn
<1>2. IsFiniteSet(a..b)
  BY FS_Interval
<1>3. QED
  BY <1>1, <1>2, FS_Subset

LEMMA SeqAtIs ==
  ASSUME NEW l, NEW s, NEW p
  PROVE  H!SeqAt(l, s, p) = Cardinality(H!EditsIn(l, s, 1..p))
<1>1. \A S : H!Cardinality(S) = Cardinality(S)
  BY DEF H!Cardinality, Cardinality
<1>2. QED
  BY <1>1 DEF H!SeqAt

LEMMA SeqAtType ==
  ASSUME NEW l, NEW s, NEW p \in Nat
  PROVE  H!SeqAt(l, s, p) \in 0..p
<1>1. IsFiniteSet(1..p) /\ Cardinality(1..p) = p
  BY FS_Interval
<1>2. Cardinality(H!EditsIn(l, s, 1..p)) <= p
  BY <1>1, EditsFinite, FS_Subset
<1>3. Cardinality(H!EditsIn(l, s, 1..p)) \in Nat
  BY EditsFinite, FS_CardinalityType
<1>4. QED
  BY <1>2, <1>3, SeqAtIs

LEMMA SeqAtGrows ==
  ASSUME NEW l, NEW s, NEW p \in Nat, NEW q \in Nat, p <= q
  PROVE  H!SeqAt(l, s, p) <= H!SeqAt(l, s, q)
<1>1. H!EditsIn(l, s, 1..p) \in SUBSET H!EditsIn(l, s, 1..q)
  BY DEF H!EditsIn
<1>2. QED
  BY <1>1, EditsFinite, FS_Subset, SeqAtIs

LEMMA SeqAtNext ==
  ASSUME NEW l, NEW s, NEW p \in Nat
  PROVE  H!SeqAt(l, s, p + 1) = H!SeqAt(l, s, p) + IF H!IsEdit(l, s, p + 1) THEN 1 ELSE 0
<1> DEFINE E == H!EditsIn(l, s, 1..p)
<1>1. IsFiniteSet(E) /\ p + 1 \notin E
  BY EditsFinite DEF H!EditsIn
<1>2. CASE H!IsEdit(l, s, p + 1)
  <2>1. H!EditsIn(l, s, 1..p + 1) = E \cup {p + 1}
    BY <1>2 DEF H!EditsIn
  <2>2. Cardinality(E \cup {p + 1}) = Cardinality(E) + 1
    BY <1>1, FS_AddElement
  <2>3. QED
    BY <1>2, <2>1, <2>2, SeqAtIs
<1>3. CASE ~H!IsEdit(l, s, p + 1)
  <2>1. H!EditsIn(l, s, 1..p + 1) = E
    BY <1>3 DEF H!EditsIn
  <2>2. Cardinality(E) \in Nat
    BY <1>1, FS_CardinalityType
  <2>3. QED
    BY <1>3, <2>1, <2>2, SeqAtIs
<1>4. QED
  BY <1>2, <1>3

\* An edit counts.
LEMMA SeqAtEdit ==
  ASSUME NEW l, NEW s, NEW p \in Nat, NEW q \in Nat, p < q, H!IsEdit(l, s, q)
  PROVE  H!SeqAt(l, s, p) < H!SeqAt(l, s, q)
<1>1. PICK r \in Nat : r = q - 1
  OBVIOUS
<1>2. H!SeqAt(l, s, r + 1) = H!SeqAt(l, s, r) + 1
  BY <1>1, SeqAtNext
<1>3. H!SeqAt(l, s, p) <= H!SeqAt(l, s, r)
  BY <1>1, SeqAtGrows
<1>4. H!SeqAt(l, s, p) \in Nat /\ H!SeqAt(l, s, r) \in Nat
  BY SeqAtType
<1>5. q = r + 1
  BY <1>1
<1>6. QED
  BY <1>2, <1>3, <1>4, <1>5

\* Positions with no edit of a slice leave it as it is.
Unedited(l, s, a, b) == \A p \in a + 1..b : p >= 1 => ~H!IsEdit(l, s, p)

\* The last change of a slice.
LEMMA ChangedAtHolds ==
  ASSUME NEW l, NEW s, NEW p \in Nat
  PROVE  LET c == H!ChangedAt(l, s, p) IN
         /\ c \in 0..p
         /\ c # 0 => H!IsEdit(l, s, c)
         /\ Unedited(l, s, c, p)
<1> DEFINE past == H!EditsIn(l, s, 1..p)
<1>1. CASE past = {}
  BY <1>1 DEF H!ChangedAt, H!EditsIn, Unedited
<1>2. CASE past # {}
  <2>1. past \in SUBSET Nat /\ \A x \in past : x <= p
    BY DEF H!EditsIn
  <2>2. LargestOf(past) \in past /\ \A y \in past : y <= LargestOf(past)
    BY <1>2, <2>1, LargestHolds
  <2>3. H!ChangedAt(l, s, p) \in past /\ \A y \in past : y <= H!ChangedAt(l, s, p)
    BY <1>2, <2>2, Zenon DEF H!ChangedAt
  <2>4. QED
    BY <2>3 DEF H!EditsIn, Unedited
<1>3. QED
  BY <1>1, <1>2

-----------------------------------------------------------------------------
(* Edits and pages.                                                        *)

LEMMA EditTypes ==
  ASSUME NEW l, H!IsHistory(l), NEW h \in 0..Len(l), NEW edit, IsOf(l, h, edit)
  PROVE  /\ edit.slice \in Slices /\ edit.position \in 1..h /\ edit.seq \in 1..h
         /\ edit.life \in {"birth", "normal", "death"}
         /\ edit = EditOf(l, edit.slice, edit.position)
         /\ H!IsEdit(l, edit.slice, edit.position)
<1>1. PICK s \in Slices, p \in 1..h : H!IsEdit(l, s, p) /\ edit = EditOf(l, s, p)
  BY DEF IsOf
<1>2. edit.slice = s /\ edit.position = p /\ edit.seq = H!SeqAt(l, s, p)
  BY <1>1 DEF EditOf
<1>3. H!SeqAt(l, s, 0) < H!SeqAt(l, s, p) /\ H!SeqAt(l, s, 0) \in Nat /\ H!SeqAt(l, s, p) \in 0..p
  BY <1>1, SeqAtEdit, SeqAtType
<1>4. l \in Seq([Slices -> H!Changes])
  BY DEF H!IsHistory
<1>5. l[p] \in [Slices -> H!Changes]
  BY <1>4
<1>6. edit.life \in {"birth", "normal", "death"}
  BY <1>1, <1>5 DEF EditOf, H!Changes, H!IsEdit, H!IsDeath
<1>7. QED
  BY <1>1, <1>2, <1>3, <1>6

LEMMA EditsStay ==
  ASSUME NEW l, NEW h \in Nat, NEW k \in Nat, h <= k
  PROVE  /\ \A edit : IsOf(l, h, edit) => IsOf(l, k, edit)
         /\ \A s \in Slices, p \in Int : H!Readable(l, k, s, p) => H!Readable(l, h, s, p)
<1>1. \A edit : IsOf(l, h, edit) => IsOf(l, k, edit)
  BY DEF IsOf
<1>2. \A s \in Slices, p \in Int : H!Readable(l, k, s, p) => H!Readable(l, h, s, p)
  BY DEF H!Readable
<1>3. QED
  BY <1>1, <1>2

LEMMA StateType ==
  ASSUME NEW l, NEW s, NEW p \in Nat
  PROVE  H!StateAt(l, s, p) \in SUBSET (0..p)
<1>1. \A o \in H!EditsIn(l, s, 1..p) : o \in 1..p
  BY DEF H!EditsIn
<1>2. \A o \in 1..p : H!SeqAt(l, s, o) \in 0..p
  <2> TAKE o \in 1..p
  <2>1. H!SeqAt(l, s, o) \in 0..o
    BY SeqAtType
  <2>2. QED
    BY <2>1
<1>3. QED
  BY <1>1, <1>2 DEF H!StateAt

\* A finite set as a sequence.
LEMMA Enumerated ==
  ASSUME NEW S, IsFiniteSet(S)
  PROVE  /\ SetToSeq(S) \in [1..Cardinality(S) -> S] /\ Cardinality(S) \in Nat
         /\ Len(SetToSeq(S)) = Cardinality(S)
         /\ \A y \in S : \E i \in 1..Cardinality(S) : SetToSeq(S)[i] = y
<1> DEFINE n == Cardinality(S)
<1>1. n \in Nat
  BY FS_CardinalityType
<1>2. ExistsBijection(1..n, S)
  <2>1. PICK k \in Nat : ExistsBijection(1..k, S)
    BY FS_NatBijection
  <2>2. n = k
    BY <2>1, FS_CountingElements
  <2>3. QED
    BY <2>1, <2>2
<1>3. PICK g : g \in Bijection(1..n, S)
  BY <1>2 DEF ExistsBijection
<1>4. g \in [1..n -> S] /\ IsInjective(g)
  BY <1>3 DEF Bijection, Injection
<1>5. SetToSeq(S) \in [1..n -> S] /\ IsInjective(SetToSeq(S))
  BY <1>4, Zenon DEF SetToSeq
<1> DEFINE f == SetToSeq(S)
<1> HIDE DEF f, n
<1>6. f \in Injection(1..n, S)
  BY <1>5 DEF Injection, f, n
<1>7. IsFiniteSet(1..n) /\ Cardinality(1..n) = n
  BY <1>1, FS_Interval
<1>8. f \in Surjection(1..n, S)
  BY <1>6, <1>7, FS_Injection DEF n
<1>9. \A y \in S : \E i \in 1..n : f[i] = y
  BY <1>8 DEF Surjection
<1>10. Len(f) = n
  BY <1>5, <1>1 DEF f, n
<1>11. QED
  BY <1>1, <1>5, <1>9, <1>10 DEF f, n

LEMMA SlicesFinite ==
  ASSUME NEW x \in SUBSET Slices
  PROVE  IsFiniteSet(x)
BY ReplicaAssumption, FS_Subset

LEMMA PagesHold ==
  ASSUME NEW l, NEW x \in Selectors, NEW c \in Nat
  PROVE  LET pages == PagesOf(l, x, c) IN
         /\ Len(pages) \in Nat /\ pages \in [1..Len(pages) -> {s \in x : H!LiveAt(l, s, c)}]
         /\ \A s \in x : H!LiveAt(l, s, c) => \E i \in 1..Len(pages) : pages[i] = s
         /\ \A i \in 1..Len(pages) : pages[i] \in x /\ H!LiveAt(l, pages[i], c)
<1> DEFINE live == {s \in x : H!LiveAt(l, s, c)}
<1>1. IsFiniteSet(live)
  BY SlicesFinite DEF Selectors
<1> HIDE DEF live
<1>2. PagesOf(l, x, c) = SetToSeq(live)
  BY DEF live, PagesOf
<1>3. QED
  BY <1>1, <1>2, Enumerated DEF live

LEMMA HeaderType ==
  ASSUME NEW l, NEW x, NEW c \in Nat
  PROVE  HeaderOf(l, x, c) \in [Slices -> 0..c]
<1>1. \A s \in Slices : H!SeqAt(l, s, c) \in 0..c
  BY SeqAtType
<1>2. QED
  BY <1>1 DEF HeaderOf

-----------------------------------------------------------------------------
(* What keeps a download's state.                                          *)

\* Edits parked of its slices stay.
LEMMA ParkKept ==
  ASSUME NEW l, NEW h, NEW b, NEW x, NEW park, NEW park2, NEW w, NEW I, NEW o, NEW O,
         DownloadHolds(l, h, b, x, park, w, I, o, O),
         \A edit \in park : edit.slice \in x => edit \in park2
  PROVE  DownloadHolds(l, h, b, x, park2, w, I, o, O)
<1>1. ASSUME NEW s \in x, NEW a, NEW c, HasAll(l, h, s, a, c, park)
      PROVE  HasAll(l, h, s, a, c, park2)
  <2>1. \A p : EditOf(l, s, p).slice = s
    BY DEF EditOf
  <2>2. QED
    BY <1>1, <2>1 DEF HasAll
<1>2. ResumeHolds(l, h, b, x, park)
  BY DEF DownloadHolds
<1>3. ResumeHolds(l, h, b, x, park2)
  BY <1>1, <1>2 DEF ResumeHolds, TailHolds
<1>4. QED
  BY <1>3 DEF DownloadHolds

\* Its pushes and its outcome stay, wherever they are.
LEMMA QueuesKept ==
  ASSUME NEW l, NEW h, NEW b, NEW x, NEW park, NEW w, NEW w2, NEW I, NEW o, NEW o2, NEW O,
         DownloadHolds(l, h, b, x, park, w, I, o, O),
         \A i \in I : w2[i].item = w[i].item, \A i \in O : o2[i].item = o[i].item
  PROVE  DownloadHolds(l, h, b, x, park, w2, I, o2, O)
<1>1. KindsOf(w2, I) = KindsOf(w, I)
  BY DEF KindsOf
<1>2. QueueHolds(l, h, b, x, w2, I)
  <2>1. QueueHolds(l, h, b, x, w, I)
    BY DEF DownloadHolds
  <2>2. QED
    BY <2>1 DEF QueueHolds
<1>3. OutcomesHold(b, o2, I, O)
  BY DEF DownloadHolds, OutcomesHold
<1>4. ASSUME b.call # NoCall
      PROVE  CallHolds(l, h, b, x, w2, I)
  <2>1. CallHolds(l, h, b, x, w, I)
    BY <1>4 DEF DownloadHolds
  <2>2. OpenHolds(b, w, I) => OpenHolds(b, w2, I)
    BY DEF OpenHolds
  <2>3. FreshHolds(b, w, I) => FreshHolds(b, w2, I)
    BY DEF FreshHolds
  <2>4. BodyHolds(b, w, I) => BodyHolds(b, w2, I)
    BY <1>1, <2>3 DEF BodyHolds
  <2>5. DoneHolds(b, w, I) => DoneHolds(b, w2, I)
    BY <1>1 DEF DoneHolds
  <2>6. ReadHolds(l, h, b, x, w, I) => ReadHolds(l, h, b, x, w2, I)
    BY <1>1 DEF ReadHolds
  <2>7. QED
    BY <2>1, <2>2, <2>4, <2>5, <2>6 DEF CallHolds
<1>5. QED
  BY <1>2, <1>3, <1>4 DEF DownloadHolds

-----------------------------------------------------------------------------
(* What a pass does to a download.                                         *)

LEMMA ResumeIsSome ==
  ASSUME NEW h \in Nat, NEW r \in ResumeType2(h)
  PROVE  r # NoResume
<1>1. r \in [position : Nat, visible : Nat, skip : Nat, from : Nat,
             snapshotDone : BOOLEAN, tailDone : BOOLEAN]
  BY DEF ResumeType2
<1>2. QED
  BY <1>1, NothingAssumption

LEMMA SpawnedHolds ==
  ASSUME NEW l, NEW h \in Nat, NEW until \in 0..h + 1, NEW x, NEW park, NEW w, NEW o
  PROVE  DownloadHolds(l, h, [NewBackfill(until) EXCEPT !.asked = TRUE], x, park, w, {}, o, {})
<1> DEFINE n == NewBackfill(until)
           b == [n EXCEPT !.asked = TRUE]
<1>1. /\ n.until = until /\ n.resume = NoResume /\ n.header = [s \in Slices |-> 0] /\ n.pages = {}
      /\ n.ready = FALSE /\ n.retry = FALSE /\ n.call = NoCall /\ IsBackfill(n)
  BY DEF NewBackfill, IsBackfill
<1> HIDE DEF n
<1>2. /\ b.until = until /\ b.resume = NoResume /\ b.header = [s \in Slices |-> 0] /\ b.pages = {}
      /\ b.ready = FALSE /\ b.retry = FALSE /\ b.asked = TRUE /\ b.call = NoCall
      /\ IsBackfill(b)
  BY <1>1 DEF IsBackfill
<1> HIDE DEF b
<1>3. ResumeHolds(l, h, b, x, park) /\ QueueHolds(l, h, b, x, w, {})
  BY <1>2 DEF ResumeHolds, Blank, QueueHolds
<1>4. OutcomesHold(b, o, {}, {}) /\ ReadyHolds(b, {}, {})
  BY <1>2 DEF OutcomesHold, ReadyHolds
<1>5. QED
  BY <1>2, <1>3, <1>4 DEF DownloadHolds, b, n

\* The call asked for starts.
LEMMA StartedHolds ==
  ASSUME NEW l, NEW h \in Nat, NEW b, NEW x, NEW park, NEW w, NEW I, NEW o, NEW O,
         NEW c \in BOOLEAN, DownloadHolds(l, h, b, x, park, w, I, o, O)
  PROVE  LET b2 == [b EXCEPT !.asked = FALSE,
                             !.call = IF b.asked /\ c THEN NewCall(b.resume) ELSE b.call]
         IN  DownloadHolds(l, h, b2, x, park, w, I, o, O) /\ b2.asked = FALSE
<1> DEFINE b2 == [b EXCEPT !.asked = FALSE,
                           !.call = IF b.asked /\ c THEN NewCall(b.resume) ELSE b.call]
           r == b.resume
<1>1. IsBackfill(b) /\ b.until \in 0..h + 1
  BY DEF DownloadHolds
<1>2. /\ b2.until = b.until /\ b2.resume = b.resume /\ b2.header = b.header /\ b2.pages = b.pages
      /\ b2.ready = b.ready /\ b2.retry = b.retry /\ b2.asked = FALSE
      /\ b2.call = IF b.asked /\ c THEN NewCall(b.resume) ELSE b.call
      /\ IsBackfill(b2)
  BY <1>1 DEF IsBackfill
<1> HIDE DEF b2
<1>3. ResumeHolds(l, h, b2, x, park) /\ QueueHolds(l, h, b2, x, w, I)
  <2>1. ResumeHolds(l, h, b, x, park) /\ QueueHolds(l, h, b, x, w, I)
    BY DEF DownloadHolds
  <2>2. QED
    BY <1>2, <2>1 DEF ResumeHolds, Blank, SnapshotHolds, TailHolds, QueueHolds, ItemHolds, BringsOn
<1>4. CASE b.asked /\ c
  <2>1. I = {} /\ O = {} /\ ~b.ready /\ ~b.retry
    BY <1>4 DEF DownloadHolds, ReadyHolds
  <2>2. OutcomesHold(b2, o, I, O) /\ ReadyHolds(b2, I, O)
    BY <1>2, <2>1 DEF OutcomesHold, ReadyHolds
  <2>3. r # NoResume => r \in ResumeType2(h) /\ r.position <= r.from
    BY DEF DownloadHolds, ResumeHolds, TailHolds
  <2>4. r # NoResume => Larger(r.from, r.position) = r.from
    BY <2>3 DEF Larger, ResumeType2
  <2>5. CallHolds(l, h, b2, x, w, I)
    <3>1. CASE r = NoResume
      <4>1. b2.call = [blob |-> "open", skip |-> 0, position |-> 0, tail |-> "wait", from |-> 0,
                       tailDone |-> FALSE]
        BY <1>2, <1>4, <3>1 DEF NewCall
      <4>2. b2.call \in CallType2(h)
        BY <4>1 DEF CallType2
      <4>3. OpenHolds(b2, w, I)
        BY <1>2, <2>1, <3>1, <4>1 DEF OpenHolds
      <4>4. b2.call.blob = "open" /\ b2.call.tail = "wait"
        BY <4>1
      <4>5. QED
        BY <4>2, <4>3, <4>4 DEF CallHolds
    <3>2. CASE r # NoResume
      <4>1. b2.call = [blob |-> IF r.snapshotDone THEN "done" ELSE "open",
                       skip |-> r.skip, position |-> r.position,
                       tail |-> IF ~r.snapshotDone THEN "wait" ELSE IF r.tailDone THEN "done" ELSE "read",
                       from |-> r.from, tailDone |-> r.tailDone]
        BY <1>2, <1>4, <2>4, <3>2 DEF NewCall
      <4>2. b2.call \in CallType2(h)
        BY <2>3, <3>2, <4>1 DEF CallType2, ResumeType2
      <4>3. KindsOf(w, I) = {}
        BY <2>1 DEF KindsOf
      <4>4. b2.call.blob = "open" => OpenHolds(b2, w, I)
        BY <1>2, <2>1, <2>3, <3>2, <4>1 DEF OpenHolds, ResumeType2
      <4>5. b2.call.blob = "done" => DoneHolds(b2, w, I)
        BY <1>2, <2>1, <2>3, <3>2, <4>1, <4>3 DEF DoneHolds, ResumeType2
      <4>6. b2.call.tail \in {"read", "end"} => ReadHolds(l, h, b2, x, w, I)
        BY <1>2, <2>1, <2>3, <3>2, <4>1, <4>3 DEF ReadHolds, ResumeType2
      <4>7. b2.call.blob # "body"
        BY <4>1
      <4>8. QED
        BY <4>2, <4>4, <4>5, <4>6, <4>7 DEF CallHolds
    <3>3. QED
      BY <3>1, <3>2
  <2>6. QED
    BY <1>1, <1>2, <1>3, <2>2, <2>5 DEF DownloadHolds, b2
<1>5. CASE ~(b.asked /\ c)
  <2>1. b2.call = b.call
    BY <1>2, <1>5
  <2>2. OutcomesHold(b2, o, I, O) /\ ReadyHolds(b2, I, O)
    BY <1>2, <2>1 DEF DownloadHolds, OutcomesHold, ReadyHolds
  <2>3. b.call # NoCall => CallHolds(l, h, b2, x, w, I)
    <3>1. b.call # NoCall => CallHolds(l, h, b, x, w, I)
      BY DEF DownloadHolds
    <3>2. QED
      BY <1>2, <2>1, <3>1 DEF CallHolds, OpenHolds, BodyHolds, FreshHolds, DoneHolds, ReadHolds
  <2>4. QED
    BY <1>1, <1>2, <1>3, <2>1, <2>2, <2>3 DEF DownloadHolds, b2
<1>6. QED
  BY <1>4, <1>5

\* A download that goes without a call, its pushes and its outcome.
LEMMA CalmHolds ==
  ASSUME NEW l, NEW h \in Nat, NEW b, NEW x, NEW park, NEW w, NEW I, NEW o, NEW O,
         DownloadHolds(l, h, b, x, park, w, I, o, O), NEW w2, NEW o2,
         NEW ready \in BOOLEAN, NEW retry \in BOOLEAN, NEW asked \in BOOLEAN,
         asked => ~ready /\ ~retry,
         ready => b.resume # NoResume /\ b.resume.snapshotDone /\ b.resume.tailDone
  PROVE  DownloadHolds(l, h, [b EXCEPT !.ready = ready, !.retry = retry, !.asked = asked,
                                       !.call = NoCall], x, park, w2, {}, o2, {})
<1> DEFINE b2 == [b EXCEPT !.ready = ready, !.retry = retry, !.asked = asked, !.call = NoCall]
<1>1. IsBackfill(b) /\ b.until \in 0..h + 1
  BY DEF DownloadHolds
<1>2. /\ b2.until = b.until /\ b2.resume = b.resume /\ b2.header = b.header /\ b2.pages = b.pages
      /\ b2.ready = ready /\ b2.retry = retry /\ b2.asked = asked /\ b2.call = NoCall
      /\ IsBackfill(b2)
  BY <1>1 DEF IsBackfill
<1> HIDE DEF b2
<1>3. ResumeHolds(l, h, b2, x, park) /\ QueueHolds(l, h, b2, x, w2, {})
  <2>1. ResumeHolds(l, h, b, x, park)
    BY DEF DownloadHolds
  <2>2. QED
    BY <1>2, <2>1 DEF ResumeHolds, Blank, SnapshotHolds, TailHolds, QueueHolds
<1>4. OutcomesHold(b2, o2, {}, {}) /\ ReadyHolds(b2, {}, {})
  BY <1>2 DEF OutcomesHold, ReadyHolds
<1>5. QED
  BY <1>1, <1>2, <1>3, <1>4 DEF DownloadHolds, b2

\* A stale download starts over.
LEMMA StaleHolds ==
  ASSUME NEW l, NEW h \in Nat, NEW b, NEW x, NEW park, NEW w, NEW I, NEW o, NEW O,
         DownloadHolds(l, h, b, x, park, w, I, o, O), I = {}, O # {}
  PROVE  LET b2 == [b EXCEPT !.pages = {},
                     !.resume = IF b.resume = NoResume THEN NoResume
                                ELSE [b.resume EXCEPT !.skip = 0, !.snapshotDone = FALSE,
                                                      !.tailDone = FALSE]]
             b3 == [b2 EXCEPT !.ready = FALSE, !.asked = TRUE]
         IN  DownloadHolds(l, h, b3, x, park, w, I, o, {})
<1> DEFINE r == b.resume
           r2 == IF r = NoResume THEN NoResume
                 ELSE [r EXCEPT !.skip = 0, !.snapshotDone = FALSE, !.tailDone = FALSE]
           b2 == [b EXCEPT !.pages = {}, !.resume = r2]
           b3 == [b2 EXCEPT !.ready = FALSE, !.asked = TRUE]
<1>1. IsBackfill(b) /\ b.until \in 0..h + 1
  BY DEF DownloadHolds
<1> HIDE DEF r2
<1>2. /\ b3.until = b.until /\ b3.resume = r2 /\ b3.header = b.header /\ b3.pages = {}
      /\ b3.ready = FALSE /\ b3.retry = b.retry /\ b3.asked = TRUE /\ b3.call = b.call
      /\ IsBackfill(b3)
  BY <1>1 DEF IsBackfill
<1> HIDE DEF b2, b3
<1>3. b.call = NoCall /\ ~b.retry
  BY DEF DownloadHolds, OutcomesHold
<1>4. ResumeHolds(l, h, b, x, park)
  BY DEF DownloadHolds
<1>5. ResumeHolds(l, h, b3, x, park)
  <2>1. CASE r = NoResume
    BY <1>2, <1>4, <2>1 DEF ResumeHolds, Blank, r2
  <2>2. CASE r # NoResume
    <3>1. /\ r \in ResumeType2(h) /\ SnapshotHolds(l, b, x, r) /\ TailHolds(l, h, b, x, r, park)
      BY <1>4, <2>2 DEF ResumeHolds
    <3>2. /\ r2 \in ResumeType2(h) /\ r2.position = r.position /\ r2.visible = r.visible
          /\ r2.skip = 0 /\ r2.from = r.from /\ r2.snapshotDone = FALSE /\ r2.tailDone = FALSE
      BY <2>2, <3>1 DEF ResumeType2, r2
    <3>3. SnapshotHolds(l, b3, x, r2)
      <4>1. r.skip \in Nat /\ r.skip <= Len(PagesOf(l, x, r.position))
        BY <3>1 DEF SnapshotHolds, ResumeType2
      <4>2. 0 <= Len(PagesOf(l, x, r.position))
        <5> DEFINE n == Len(PagesOf(l, x, r.position))
        <5> HIDE DEF n
        <5>1. r.skip <= n /\ r.skip \in Nat
          BY <4>1 DEF n
        <5>2. QED
          BY <4>1
      <4>3. \A i \in 1..0 : FALSE
        OBVIOUS
      <4>4. QED
        BY <1>2, <3>1, <3>2, <4>2, <4>3 DEF SnapshotHolds
    <3>4. TailHolds(l, h, b3, x, r2, park)
      BY <1>2, <3>1, <3>2 DEF TailHolds
    <3>5. r2 # NoResume
      BY <3>2, ResumeIsSome
    <3>6. QED
      BY <1>2, <3>2, <3>3, <3>4, <3>5 DEF ResumeHolds
  <2>3. QED
    BY <2>1, <2>2
<1>6. QueueHolds(l, h, b3, x, w, I) /\ OutcomesHold(b3, o, I, {}) /\ ReadyHolds(b3, I, {})
  BY <1>2, <1>3 DEF QueueHolds, OutcomesHold, ReadyHolds
<1>7. DownloadHolds(l, h, b3, x, park, w, I, o, {})
  BY <1>1, <1>2, <1>3, <1>5, <1>6 DEF DownloadHolds
<1>8. QED
  BY <1>7 DEF b2, b3, r2

-----------------------------------------------------------------------------
(* A push that parks.                                                      *)

\* What a queue says of one of its pushes.
PushOf(l, h, b, x, w, I, j) ==
  /\ ItemHolds(l, h, b, x, w[j].item)
  /\ w[j].item.kind \in {"header", "page", "pagesDone", "edits", "editsDone"}
  /\ b.ready = FALSE /\ b.asked = FALSE
  /\ \A i \in I \ {j} : /\ ItemHolds(l, h, b, x, w[i].item)
                        /\ w[i].item.kind # "header" /\ w[j].item.kind # "header"
                        /\ ~(w[i].item.kind \in BlobItems /\ w[j].item.kind \in BlobItems)
                        /\ ~(w[i].item.kind \in TailItems /\ w[j].item.kind \in TailItems)
  /\ KindsOf(w, I) = KindsOf(w, I \ {j}) \cup {w[j].item.kind}
  /\ b.call # NoCall =>
       /\ CallHolds(l, h, b, x, w, I) /\ b.call.blob \in {"body", "done"}
       /\ b.call.blob = "body" => BodyHolds(b, w, I)
       /\ b.call.blob = "done" => DoneHolds(b, w, I)
       /\ b.call.tail # "wait"

LEMMA PushHolds ==
  ASSUME NEW l, NEW h, NEW b, NEW x, NEW park, NEW w, NEW I, NEW o, NEW O, NEW j \in I,
         DownloadHolds(l, h, b, x, park, w, I, o, O)
  PROVE  PushOf(l, h, b, x, w, I, j)
<1>1. QueueHolds(l, h, b, x, w, I) /\ ReadyHolds(b, I, O) /\ IsBackfill(b)
  BY DEF DownloadHolds
<1>2. \A i \in I : ItemHolds(l, h, b, x, w[i].item)
  BY <1>1 DEF QueueHolds
<1>3. w[j].item.kind \in {"header", "page", "pagesDone", "edits", "editsDone"}
  <2>1. ItemHolds(l, h, b, x, w[j].item)
    BY <1>2
  <2>2. QED
    BY <2>1 DEF ItemHolds
<1>4. b.ready = FALSE /\ b.asked = FALSE
  BY <1>1 DEF ReadyHolds, IsBackfill
<1>5. \A i \in I \ {j} : /\ w[i].item.kind # "header" /\ w[j].item.kind # "header"
                         /\ ~(w[i].item.kind \in BlobItems /\ w[j].item.kind \in BlobItems)
                         /\ ~(w[i].item.kind \in TailItems /\ w[j].item.kind \in TailItems)
  BY <1>1 DEF QueueHolds
<1>6. KindsOf(w, I) = KindsOf(w, I \ {j}) \cup {w[j].item.kind}
  BY DEF KindsOf
<1>7. ASSUME b.call # NoCall
      PROVE  /\ CallHolds(l, h, b, x, w, I) /\ b.call.blob \in {"body", "done"}
             /\ b.call.blob = "body" => BodyHolds(b, w, I)
             /\ b.call.blob = "done" => DoneHolds(b, w, I)
             /\ b.call.tail # "wait"
  <2>1. CallHolds(l, h, b, x, w, I)
    BY <1>7 DEF DownloadHolds
  <2>2. b.call.blob # "open"
    BY <2>1 DEF CallHolds, OpenHolds
  <2>3. b.call.blob \in {"body", "done"}
    BY <2>1, <2>2 DEF CallHolds, CallType2
  <2>4. /\ b.call.blob = "body" => BodyHolds(b, w, I)
        /\ b.call.blob = "done" => DoneHolds(b, w, I)
    BY <2>1 DEF CallHolds
  <2>5. QED
    BY <2>1, <2>3, <2>4 DEF BodyHolds, DoneHolds
<1>8. QED
  BY <1>2, <1>3, <1>4, <1>5, <1>6, <1>7 DEF PushOf

\* What is left to show of a download once one of its pushes has parked.
LEMMA PushParked ==
  ASSUME NEW l, NEW h, NEW b, NEW x, NEW park, NEW w, NEW I, NEW o, NEW j \in I,
         DownloadHolds(l, h, b, x, park, w, I, o, {}), NEW b2, NEW park2,
         b2.until = b.until, b2.retry = b.retry, b2.asked = b.asked, b2.call = b.call,
         IsBackfill(b2), ResumeHolds(l, h, b2, x, park2), QueueHolds(l, h, b2, x, w, I \ {j}),
         b.call # NoCall => CallHolds(l, h, b2, x, w, I \ {j}),
         b2.ready => /\ I \ {j} = {}
                     /\ b2.resume # NoResume /\ b2.resume.snapshotDone /\ b2.resume.tailDone
                     /\ b.call = NoCall \/ (b.call.blob = "done" /\ b.call.tail = "done")
  PROVE  DownloadHolds(l, h, b2, x, park2, w, I \ {j}, o, {})
<1>p. PushOf(l, h, b, x, w, I, j)
  BY PushHolds
<1>1. b.asked = FALSE
  BY <1>p DEF PushOf
<1>2. OutcomesHold(b2, o, I \ {j}, {})
  BY DEF DownloadHolds, OutcomesHold
<1>3. ReadyHolds(b2, I \ {j}, {})
  BY <1>1 DEF ReadyHolds
<1>4. QED
  BY <1>2, <1>3 DEF DownloadHolds

LEMMA HeaderParked ==
  ASSUME NEW l, NEW h \in Nat, NEW b, NEW x \in Selectors, NEW park, NEW w, NEW I, NEW o, NEW j \in I,
         DownloadHolds(l, h, b, x, park, w, I, o, {}), w[j].item.kind = "header",
         NEW b2, IsBackfill(b2),
         b2.until = b.until, b2.retry = b.retry, b2.asked = b.asked, b2.call = b.call,
         b2.ready = b.ready, b2.header = w[j].item.seqs, b2.pages = b.pages,
         b2.resume = [position |-> w[j].item.position, visible |-> w[j].item.visible, skip |-> 0,
                      from |-> IF b.resume = NoResume THEN w[j].item.position
                               ELSE Larger(b.resume.from, w[j].item.position),
                      snapshotDone |-> FALSE, tailDone |-> FALSE]
  PROVE  DownloadHolds(l, h, b2, x, park, w, I \ {j}, o, {})
<1> DEFINE item == w[j].item
           r == b.resume
           r2 == b2.resume
<1>p. PushOf(l, h, b, x, w, I, j)
  BY PushHolds
<1>1. ItemHolds(l, h, b, x, item) /\ b.ready = FALSE /\ I \ {j} = {}
  BY <1>p DEF PushOf
<1>2. /\ b.pages = {} /\ item.position \in 0..h /\ item.visible \in 0..h
      /\ item.seqs = HeaderOf(l, x, item.position)
      /\ Quiet(l, x, item.visible, item.position)
      /\ r # NoResume => r.position <= item.position /\ ~r.snapshotDone
  BY <1>1 DEF ItemHolds
<1>3. r # NoResume => /\ r.position \in 0..h /\ r.from \in 0..h
                      /\ \A s \in x : HasAll(l, h, s, r.position, r.from, park)
  BY DEF DownloadHolds, ResumeHolds, TailHolds, ResumeType2
<1>4. r2.from \in 0..h /\ item.position <= r2.from
  BY <1>2, <1>3 DEF Larger
<1>5. r2 \in ResumeType2(h)
  BY <1>2, <1>4 DEF ResumeType2
<1>6. r2 # NoResume
  BY <1>5, ResumeIsSome
<1>7. SnapshotHolds(l, b2, x, r2)
  <2>1. Len(PagesOf(l, x, item.position)) \in Nat
    BY <1>2, PagesHold
  <2>2. {PageOf(l, x, item.position, i) : i \in 1..0} = {}
    OBVIOUS
  <2>3. QED
    BY <1>2, <2>1, <2>2 DEF SnapshotHolds
<1>8. TailHolds(l, h, b2, x, r2, park)
  <2>1. ASSUME NEW s \in x
        PROVE  HasAll(l, h, s, item.position, r2.from, park)
    <3>1. CASE r = NoResume
      BY <1>2, <3>1 DEF HasAll
    <3>2. CASE r # NoResume
      BY <1>2, <1>3, <3>2 DEF HasAll, Larger
    <3>3. QED
      BY <3>1, <3>2
  <2>2. QED
    BY <1>4, <2>1 DEF TailHolds
<1>9. ResumeHolds(l, h, b2, x, park)
  BY <1>5, <1>6, <1>7, <1>8 DEF ResumeHolds
<1>10. ASSUME b.call # NoCall
       PROVE  CallHolds(l, h, b2, x, w, {})
  <2>1. "header" \in KindsOf(w, I)
    BY DEF KindsOf
  <2>2. b.call.blob = "body" /\ FreshHolds(b, w, I)
    BY <1>10, <2>1, <1>p DEF BodyHolds, DoneHolds, PushOf
  <2>3. /\ b.call.skip = 0 /\ b.call.tail \in {"read", "done"} /\ item.position = b.call.position
        /\ b.call.from = r2.from
    BY <2>2 DEF FreshHolds
  <2>4. KindsOf(w, {}) = {}
    BY DEF KindsOf
  <2>5. BodyHolds(b2, w, {})
    BY <1>6, <2>3, <2>4 DEF BodyHolds
  <2>6. ReadHolds(l, h, b2, x, w, {})
    BY <1>4, <2>3, <2>4 DEF ReadHolds
  <2>7. CallHolds(l, h, b, x, w, I)
    BY <1>10, <1>p DEF PushOf
  <2>8. QED
    BY <2>2, <2>5, <2>6, <2>7 DEF CallHolds
<1>11. QueueHolds(l, h, b2, x, w, {})
  BY DEF QueueHolds
<1>12. QED
  BY <1>1, <1>9, <1>10, <1>11, PushParked

LEMMA PageParked ==
  ASSUME NEW l, NEW h \in Nat, NEW b, NEW x \in Selectors, NEW park, NEW w, NEW I, NEW o, NEW j \in I,
         DownloadHolds(l, h, b, x, park, w, I, o, {}), w[j].item.kind = "page",
         NEW b2, IsBackfill(b2),
         b2.until = b.until, b2.retry = b.retry, b2.asked = b.asked, b2.call = b.call,
         b2.ready = b.ready, b2.header = b.header,
         b2.pages = {p \in b.pages : p.at # b.resume.skip}
                      \cup {[at |-> b.resume.skip, slice |-> w[j].item.slice,
                             state |-> w[j].item.state]},
         b2.resume = [b.resume EXCEPT !.skip = w[j].item.skip]
  PROVE  DownloadHolds(l, h, b2, x, park, w, I \ {j}, o, {})
<1> DEFINE item == w[j].item
           r == b.resume
           r2 == b2.resume
           J == I \ {j}
           pages == PagesOf(l, x, r.position)
<1>p. PushOf(l, h, b, x, w, I, j)
  BY PushHolds
<1>1. ItemHolds(l, h, b, x, item) /\ b.ready = FALSE
  BY <1>p DEF PushOf
<1>2. /\ r # NoResume /\ ~r.snapshotDone
      /\ item.skip = r.skip + 1 /\ item.skip <= Len(pages)
      /\ item.slice = pages[item.skip]
      /\ item.state = H!StateAt(l, item.slice, r.position)
  BY <1>1 DEF ItemHolds
<1>3. /\ r \in ResumeType2(h) /\ SnapshotHolds(l, b, x, r) /\ TailHolds(l, h, b, x, r, park)
  BY <1>2 DEF DownloadHolds, ResumeHolds
<1>4. /\ r2 \in ResumeType2(h) /\ r2.position = r.position /\ r2.visible = r.visible
      /\ r2.skip = r.skip + 1 /\ r2.from = r.from /\ r2.snapshotDone = FALSE
      /\ r2.tailDone = r.tailDone /\ r.skip \in Nat /\ r.snapshotDone = FALSE
  BY <1>2, <1>3 DEF ResumeType2
<1>5. r2 # NoResume
  BY <1>4, ResumeIsSome
<1>6. b2.pages = {PageOf(l, x, r.position, i) : i \in 1..r2.skip}
  <2>1. b.pages = {PageOf(l, x, r.position, i) : i \in 1..r.skip}
    BY <1>3 DEF SnapshotHolds
  <2>2. \A i \in 1..r.skip : PageOf(l, x, r.position, i).at # r.skip
    BY <1>4 DEF PageOf
  <2>3. PageOf(l, x, r.position, r.skip + 1)
          = [at |-> r.skip, slice |-> item.slice, state |-> item.state]
    BY <1>2, <1>4 DEF PageOf
  <2>4. {p \in b.pages : p.at # r.skip} = b.pages
    BY <2>1, <2>2
  <2>5. 1..r2.skip = (1..r.skip) \cup {r.skip + 1}
    BY <1>4
  <2>6. QED
    BY <2>1, <2>3, <2>4, <2>5
<1>7. ResumeHolds(l, h, b2, x, park)
  <2>1. SnapshotHolds(l, b2, x, r2)
    BY <1>2, <1>3, <1>4, <1>6 DEF SnapshotHolds
  <2>2. TailHolds(l, h, b2, x, r2, park)
    BY <1>3, <1>4 DEF TailHolds
  <2>3. QED
    BY <1>4, <1>5, <2>1, <2>2 DEF ResumeHolds
<1>8. ASSUME NEW i \in J
      PROVE  ItemHolds(l, h, b2, x, w[i].item) /\ w[i].item.kind \in TailItems
  <2>1. /\ ItemHolds(l, h, b, x, w[i].item) /\ w[i].item.kind # "header"
        /\ w[i].item.kind \notin BlobItems
    BY <1>p DEF BlobItems, PushOf
  <2>2. w[i].item.kind \in TailItems
    BY <2>1 DEF ItemHolds, BlobItems, TailItems
  <2>3. QED
    BY <1>4, <1>5, <2>1, <2>2 DEF ItemHolds, BringsOn, TailItems
<1>9. QueueHolds(l, h, b2, x, w, J)
  <2>1. QueueHolds(l, h, b, x, w, I)
    BY DEF DownloadHolds
  <2>2. QED
    BY <1>8, <2>1 DEF QueueHolds
<1>10. ASSUME b.call # NoCall
       PROVE  CallHolds(l, h, b2, x, w, J)
  <2>1. /\ CallHolds(l, h, b, x, w, I) /\ b.call.blob \in {"body", "done"}
        /\ b.call.blob = "body" => BodyHolds(b, w, I)
        /\ b.call.blob = "done" => DoneHolds(b, w, I)
        /\ KindsOf(w, I) = KindsOf(w, J) \cup {"page"}
    BY <1>10, <1>p DEF PushOf
  <2>2. KindsOf(w, J) \subseteq TailItems
    BY <1>8 DEF KindsOf
  <2>3. "header" \notin KindsOf(w, I) /\ "page" \notin KindsOf(w, J)
    BY <2>1, <2>2 DEF TailItems
  <2>4. b.call.blob = "body"
    BY <2>1 DEF DoneHolds
  <2>5. BodyHolds(b2, w, J)
    <3>1. BodyHolds(b, w, I)
      BY <2>1, <2>4
    <3>2. /\ b.call.tail # "wait" /\ r.position = b.call.position /\ b.call.skip = r.skip + 1
      BY <2>1, <2>3, <3>1 DEF BodyHolds
    <3>3. {"header", "pagesDone"} \cap KindsOf(w, J) = {}
      BY <2>2 DEF TailItems
    <3>4. b2.call.skip = r2.skip + IF "page" \in KindsOf(w, J) THEN 1 ELSE 0
      BY <1>4, <2>3, <3>2
    <3>5. QED
      BY <1>4, <1>5, <3>2, <3>3, <3>4 DEF BodyHolds
  <2>6. b.call.tail \in {"read", "end"} => ReadHolds(l, h, b2, x, w, J)
    <3>1. SUFFICES ASSUME ReadHolds(l, h, b, x, w, I)
                   PROVE  ReadHolds(l, h, b2, x, w, J)
      BY <2>1 DEF CallHolds
    <3>2. QED
      BY <1>4, <2>1, <2>3, <3>1 DEF ReadHolds
  <2>7. QED
    BY <2>1, <2>4, <2>5, <2>6 DEF CallHolds
<1>11. b2.ready = FALSE
  BY <1>1
<1> HIDE DEF item, r, r2, J, pages
<1>12. QED
  BY <1>7, <1>9, <1>10, <1>11, PushParked DEF J

LEMMA PagesDoneParked ==
  ASSUME NEW l, NEW h \in Nat, NEW b, NEW x \in Selectors, NEW park, NEW w, NEW I, NEW o, NEW j \in I,
         DownloadHolds(l, h, b, x, park, w, I, o, {}), w[j].item.kind = "pagesDone",
         NEW b2, IsBackfill(b2),
         b2.until = b.until, b2.retry = b.retry, b2.asked = b.asked, b2.call = b.call,
         b2.ready = (b.ready \/ (b2.resume.snapshotDone /\ b2.resume.tailDone)),
         b2.header = b.header, b2.pages = b.pages,
         b2.resume = [b.resume EXCEPT !.snapshotDone = TRUE]
  PROVE  DownloadHolds(l, h, b2, x, park, w, I \ {j}, o, {})
<1> DEFINE r == b.resume
           r2 == b2.resume
           J == I \ {j}
<1>p. PushOf(l, h, b, x, w, I, j)
  BY PushHolds
<1>1. ItemHolds(l, h, b, x, w[j].item) /\ b.ready = FALSE
  BY <1>p DEF PushOf
<1>2. r # NoResume /\ ~r.snapshotDone /\ r.skip = Len(PagesOf(l, x, r.position))
  BY <1>1 DEF ItemHolds
<1>3. /\ r \in ResumeType2(h) /\ SnapshotHolds(l, b, x, r) /\ TailHolds(l, h, b, x, r, park)
  BY <1>2 DEF DownloadHolds, ResumeHolds
<1>4. /\ r2 \in ResumeType2(h) /\ r2.position = r.position /\ r2.visible = r.visible
      /\ r2.skip = r.skip /\ r2.from = r.from /\ r2.snapshotDone = TRUE
      /\ r2.tailDone = r.tailDone
  BY <1>2, <1>3 DEF ResumeType2
<1>5. r2 # NoResume
  BY <1>4, ResumeIsSome
<1>6. ResumeHolds(l, h, b2, x, park)
  <2>1. SnapshotHolds(l, b2, x, r2)
    BY <1>2, <1>3, <1>4 DEF SnapshotHolds
  <2>2. TailHolds(l, h, b2, x, r2, park)
    BY <1>3, <1>4 DEF TailHolds
  <2>3. QED
    BY <1>4, <1>5, <2>1, <2>2 DEF ResumeHolds
<1>7. ASSUME NEW i \in J
      PROVE  /\ ItemHolds(l, h, b2, x, w[i].item) /\ w[i].item.kind \in TailItems
             /\ ~r.tailDone
  <2>1. /\ ItemHolds(l, h, b, x, w[i].item) /\ w[i].item.kind # "header"
        /\ w[i].item.kind \notin BlobItems
    BY <1>p DEF BlobItems, PushOf
  <2>2. w[i].item.kind \in TailItems
    BY <2>1 DEF ItemHolds, BlobItems, TailItems
  <2>3. QED
    BY <1>4, <1>5, <2>1, <2>2 DEF ItemHolds, BringsOn, TailItems
<1>8. QueueHolds(l, h, b2, x, w, J)
  <2>1. QueueHolds(l, h, b, x, w, I)
    BY DEF DownloadHolds
  <2>2. QED
    BY <1>7, <2>1 DEF QueueHolds
<1>9. KindsOf(w, J) \subseteq TailItems
  BY <1>7 DEF KindsOf
<1>10. ASSUME b.call # NoCall
       PROVE  /\ CallHolds(l, h, b2, x, w, J) /\ b.call.blob = "done"
              /\ r.tailDone => b.call.tail = "done"
  <2>1. /\ CallHolds(l, h, b, x, w, I) /\ b.call.blob \in {"body", "done"}
        /\ b.call.blob = "body" => BodyHolds(b, w, I)
        /\ b.call.blob = "done" => DoneHolds(b, w, I)
        /\ KindsOf(w, I) = KindsOf(w, J) \cup {"pagesDone"}
        /\ b.call.tail # "wait"
    BY <1>10, <1>p DEF PushOf
  <2>2. "header" \notin KindsOf(w, I)
    BY <1>9, <2>1 DEF TailItems
  <2>3. b.call.blob = "done"
    BY <2>1, <2>2 DEF BodyHolds
  <2>4. DoneHolds(b2, w, J)
    <3>1. DoneHolds(b, w, I)
      BY <2>1, <2>3
    <3>2. {"header", "page"} \cap KindsOf(w, J) = {}
      BY <1>9 DEF TailItems
    <3>3. QED
      BY <1>4, <1>5, <3>1, <3>2 DEF DoneHolds
  <2>5. ASSUME b.call.tail \in {"read", "end"}
        PROVE  ReadHolds(l, h, b2, x, w, J) /\ ~r.tailDone
    <3>1. ReadHolds(l, h, b, x, w, I)
      BY <2>1, <2>5 DEF CallHolds
    <3>2. QED
      BY <1>4, <2>1, <2>2, <3>1 DEF ReadHolds
  <2>6. b.call.tail \in {"wait", "read", "end", "done"}
    BY <2>1 DEF CallHolds, CallType2
  <2>7. CallHolds(l, h, b2, x, w, J)
    BY <2>1, <2>3, <2>4, <2>5 DEF CallHolds
  <2>8. QED
    BY <2>1, <2>3, <2>5, <2>6, <2>7
<1>11. ASSUME b2.ready
       PROVE  /\ J = {} /\ r2.snapshotDone /\ r2.tailDone
              /\ b.call = NoCall \/ (b.call.blob = "done" /\ b.call.tail = "done")
  <2>1. r2.snapshotDone /\ r2.tailDone
    BY <1>1, <1>11
  <2>2. r.tailDone
    BY <1>4, <2>1
  <2>3. QED
    BY <1>7, <1>10, <2>1, <2>2
<1> HIDE DEF r, r2, J
<1>12. QED
  BY <1>5, <1>6, <1>8, <1>10, <1>11, PushParked DEF J, r2

LEMMA EditsParked ==
  ASSUME NEW l, H!IsHistory(l), NEW h \in 0..Len(l), NEW b, NEW x \in Selectors, NEW park, NEW w,
         NEW I, NEW o, NEW j \in I,
         DownloadHolds(l, h, b, x, park, w, I, o, {}), w[j].item.kind = "edits",
         NEW b2, IsBackfill(b2),
         b2.until = b.until, b2.retry = b.retry, b2.asked = b.asked, b2.call = b.call,
         b2.ready = (b.ready \/ (b2.resume.snapshotDone /\ b2.resume.tailDone)),
         b2.header = b.header, b2.pages = b.pages,
         b2.resume = [b.resume EXCEPT !.from =
                        LargestOf({b.resume.from} \cup {y.position : y \in w[j].item.edits})]
  PROVE  /\ DownloadHolds(l, h, b2, x, park \cup w[j].item.edits, w, I \ {j}, o, {})
         /\ \A edit \in w[j].item.edits : IsOf(l, h, edit)
<1> DEFINE edits == w[j].item.edits
           r == b.resume
           r2 == b2.resume
           J == I \ {j}
           park2 == park \cup edits
<1>p. PushOf(l, h, b, x, w, I, j)
  BY PushHolds
<1>0. h \in Nat
  BY DEF H!IsHistory
<1>1. ItemHolds(l, h, b, x, w[j].item) /\ b.ready = FALSE
  BY <1>p DEF PushOf
<1>2. r # NoResume /\ ~r.tailDone /\ BringsOn(l, h, b, x, edits)
  BY <1>1 DEF ItemHolds
<1>3. \A edit \in edits : IsOf(l, h, edit) /\ edit.position \in 1..h
  BY <1>2, EditTypes DEF BringsOn
<1>4. /\ r \in ResumeType2(h) /\ SnapshotHolds(l, b, x, r) /\ TailHolds(l, h, b, x, r, park)
  BY <1>2 DEF DownloadHolds, ResumeHolds
<1>5. PICK F : F = LargestOf({r.from} \cup {y.position : y \in edits})
  OBVIOUS
<1>6. /\ F \in 0..h /\ r.from <= F /\ \A edit \in edits : edit.position <= F
      /\ F = r.from \/ \E edit \in edits : edit.position = F
  <2> DEFINE S == {r.from} \cup {y.position : y \in edits}
  <2>1. S \in SUBSET Nat /\ S # {} /\ \A q \in S : q <= h
    BY <1>0, <1>3, <1>4 DEF ResumeType2
  <2>2. F \in S /\ \A q \in S : q <= F
    <3> HIDE DEF S
    <3>1. LargestOf(S) \in S /\ \A q \in S : q <= LargestOf(S)
      BY <1>0, <2>1, LargestHolds
    <3>2. QED
      BY <1>5, <3>1 DEF S
  <2>3. QED
    BY <1>0, <2>1, <2>2
<1>7. /\ r2 \in ResumeType2(h) /\ r2.position = r.position /\ r2.visible = r.visible
      /\ r2.skip = r.skip /\ r2.from = F /\ r2.snapshotDone = r.snapshotDone
      /\ r2.tailDone = FALSE
  <2>1. r2 = [r EXCEPT !.from = F]
    BY <1>5
  <2>2. QED
    BY <1>2, <1>4, <1>6, <2>1 DEF ResumeType2
<1>8. r2 # NoResume
  BY <1>0, <1>7, ResumeIsSome
<1>9. ResumeHolds(l, h, b2, x, park2)
  <2>1. SnapshotHolds(l, b2, x, r2)
    BY <1>4, <1>7 DEF SnapshotHolds
  <2>2. ASSUME NEW s \in x
        PROVE  HasAll(l, h, s, r.position, F, park2)
    <3>1. HasAll(l, h, s, r.position, r.from, park)
      BY <1>4 DEF TailHolds
    <3>2. ASSUME NEW p \in r.from + 1..F, H!Readable(l, h, s, p)
          PROVE  EditOf(l, s, p) \in edits
      <4>1. PICK edit \in edits : p <= edit.position
        BY <1>4, <1>6, <3>2 DEF ResumeType2
      <4>2. p \in r.from + 1..h
        BY <1>0, <1>4, <1>6 DEF ResumeType2
      <4>3. QED
        BY <1>2, <3>2, <4>1, <4>2 DEF BringsOn
    <3>3. r.from \in Nat /\ r.position \in Nat /\ F \in Nat
      BY <1>4, <1>6 DEF ResumeType2
    <3>4. QED
      BY <3>1, <3>2, <3>3 DEF HasAll
  <2>3. r.position <= F
    BY <1>4, <1>6 DEF TailHolds, ResumeType2
  <2>4. TailHolds(l, h, b2, x, r2, park2)
    BY <1>7, <2>2, <2>3 DEF TailHolds
  <2>5. QED
    BY <1>7, <1>8, <2>1, <2>4 DEF ResumeHolds
<1>10. ASSUME NEW i \in J
       PROVE  /\ ItemHolds(l, h, b2, x, w[i].item) /\ w[i].item.kind \in {"page", "pagesDone"}
  <2>1. /\ ItemHolds(l, h, b, x, w[i].item) /\ w[i].item.kind # "header"
        /\ w[i].item.kind \notin TailItems
    BY <1>p DEF TailItems, PushOf
  <2>2. w[i].item.kind \in {"page", "pagesDone"}
    BY <2>1 DEF ItemHolds, BlobItems, TailItems
  <2>3. QED
    BY <1>7, <1>8, <2>1, <2>2 DEF ItemHolds
<1>11. QueueHolds(l, h, b2, x, w, J)
  <2>1. QueueHolds(l, h, b, x, w, I)
    BY DEF DownloadHolds
  <2>2. QED
    BY <1>10, <2>1 DEF QueueHolds
<1>12. KindsOf(w, J) \subseteq {"page", "pagesDone"}
  BY <1>10 DEF KindsOf
<1>13. ASSUME b.call # NoCall
       PROVE  CallHolds(l, h, b2, x, w, J)
  <2>1. /\ CallHolds(l, h, b, x, w, I) /\ b.call.blob \in {"body", "done"}
        /\ b.call.blob = "body" => BodyHolds(b, w, I)
        /\ b.call.blob = "done" => DoneHolds(b, w, I)
        /\ KindsOf(w, I) = KindsOf(w, J) \cup {"edits"}
    BY <1>13, <1>p DEF PushOf
  <2>2. "header" \notin KindsOf(w, I) /\ "header" \notin KindsOf(w, J)
    BY <1>12, <2>1
  <2>3. b.call.blob = "body" => BodyHolds(b2, w, J)
    BY <1>7, <1>8, <2>1, <2>2 DEF BodyHolds
  <2>4. b.call.blob = "done" => DoneHolds(b2, w, J)
    BY <1>7, <1>8, <2>1, <2>2 DEF DoneHolds
  <2>5. ASSUME b.call.tail \in {"read", "end"}
        PROVE  ReadHolds(l, h, b2, x, w, J)
    <3>1. ReadHolds(l, h, b, x, w, I)
      BY <2>1, <2>5 DEF CallHolds
    <3>2. b.call.from \in Nat /\ r.from \in 0..h
      BY <1>4, <2>1 DEF CallHolds, CallType2, ResumeType2
    <3>3. F <= b.call.from
      BY <1>6, <2>2, <3>1 DEF ReadHolds
    <3>4. ASSUME NEW s \in x, NEW p \in F + 1..b.call.from, p < b.until, H!Readable(l, h, s, p)
          PROVE  \E i \in J : w[i].item.kind = "edits" /\ EditOf(l, s, p) \in w[i].item.edits
      <4>1. p \in r.from + 1..b.call.from
        BY <1>6, <3>2
      <4>2. PICK i \in I : w[i].item.kind = "edits" /\ EditOf(l, s, p) \in w[i].item.edits
        BY <2>2, <3>1, <3>4, <4>1 DEF ReadHolds
      <4>3. i # j
        <5>1. SUFFICES ASSUME i = j
                       PROVE  FALSE
          OBVIOUS
        <5>2. EditOf(l, s, p).position <= F
          BY <1>6, <4>2, <5>1
        <5>3. EditOf(l, s, p).position = p
          BY DEF EditOf
        <5>4. QED
          BY <1>6, <3>2, <5>2, <5>3
      <4>4. QED
        BY <4>2, <4>3
    <3>5. QED
      BY <1>7, <2>1, <2>2, <3>1, <3>3, <3>4 DEF ReadHolds
  <2>6. QED
    BY <2>1, <2>3, <2>4, <2>5 DEF CallHolds
<1>14. b2.ready = FALSE
  BY <1>1, <1>7
<1> HIDE DEF r, r2, J, edits, park2
<1>15. DownloadHolds(l, h, b2, x, park2, w, J, o, {})
  BY <1>9, <1>11, <1>13, <1>14, PushParked DEF J
<1>16. QED
  BY <1>3, <1>15 DEF J, edits, park2

LEMMA TailDoneParked ==
  ASSUME NEW l, NEW h \in Nat, NEW b, NEW x \in Selectors, NEW park, NEW w, NEW I, NEW o, NEW j \in I,
         DownloadHolds(l, h, b, x, park, w, I, o, {}), w[j].item.kind = "editsDone",
         NEW b2, IsBackfill(b2),
         b2.until = b.until, b2.retry = b.retry, b2.asked = b.asked, b2.call = b.call,
         b2.ready = (b.ready \/ (b2.resume.snapshotDone /\ b2.resume.tailDone)),
         b2.header = b.header, b2.pages = b.pages,
         b2.resume = [b.resume EXCEPT !.tailDone = TRUE]
  PROVE  DownloadHolds(l, h, b2, x, park, w, I \ {j}, o, {})
<1> DEFINE r == b.resume
           r2 == b2.resume
           J == I \ {j}
<1>p. PushOf(l, h, b, x, w, I, j)
  BY PushHolds
<1>1. ItemHolds(l, h, b, x, w[j].item) /\ b.ready = FALSE
  BY <1>p DEF PushOf
<1>2. r # NoResume /\ ~r.tailDone /\ \A s \in x : HasNone(l, h, s, r.from, b.until - 1)
  BY <1>1 DEF ItemHolds
<1>3. /\ r \in ResumeType2(h) /\ SnapshotHolds(l, b, x, r) /\ TailHolds(l, h, b, x, r, park)
      /\ b.until \in Int
  BY <1>2 DEF DownloadHolds, ResumeHolds
<1>4. /\ r2 \in ResumeType2(h) /\ r2.position = r.position /\ r2.visible = r.visible
      /\ r2.skip = r.skip /\ r2.from = r.from /\ r2.snapshotDone = r.snapshotDone
      /\ r2.tailDone = TRUE
  BY <1>2, <1>3 DEF ResumeType2
<1>5. r2 # NoResume
  BY <1>4, ResumeIsSome
<1>6. ResumeHolds(l, h, b2, x, park)
  <2>1. SnapshotHolds(l, b2, x, r2)
    BY <1>2, <1>3, <1>4 DEF SnapshotHolds
  <2>2. ASSUME NEW s \in x
        PROVE  HasAll(l, h, s, r.position, b.until - 1, park)
    <3>1. HasAll(l, h, s, r.position, r.from, park) /\ HasNone(l, h, s, r.from, b.until - 1)
      BY <1>2, <1>3 DEF TailHolds
    <3>2. QED
      BY <1>3, <3>1 DEF HasAll, HasNone, ResumeType2
  <2>3. TailHolds(l, h, b2, x, r2, park)
    BY <1>3, <1>4, <2>2 DEF TailHolds
  <2>4. QED
    BY <1>4, <1>5, <2>1, <2>3 DEF ResumeHolds
<1>7. ASSUME NEW i \in J
      PROVE  /\ ItemHolds(l, h, b2, x, w[i].item) /\ w[i].item.kind \in {"page", "pagesDone"}
             /\ ~r.snapshotDone
  <2>1. /\ ItemHolds(l, h, b, x, w[i].item) /\ w[i].item.kind # "header"
        /\ w[i].item.kind \notin TailItems
    BY <1>p DEF TailItems, PushOf
  <2>2. w[i].item.kind \in {"page", "pagesDone"}
    BY <2>1 DEF ItemHolds, BlobItems, TailItems
  <2>3. QED
    BY <1>4, <1>5, <2>1, <2>2 DEF ItemHolds
<1>8. QueueHolds(l, h, b2, x, w, J)
  <2>1. QueueHolds(l, h, b, x, w, I)
    BY DEF DownloadHolds
  <2>2. QED
    BY <1>7, <2>1 DEF QueueHolds
<1>9. KindsOf(w, J) \subseteq {"page", "pagesDone"}
  BY <1>7 DEF KindsOf
<1>10. ASSUME b.call # NoCall
       PROVE  /\ CallHolds(l, h, b2, x, w, J) /\ b.call.tail = "done"
              /\ r.snapshotDone => b.call.blob = "done"
  <2>1. /\ CallHolds(l, h, b, x, w, I) /\ b.call.blob \in {"body", "done"}
        /\ b.call.blob = "body" => BodyHolds(b, w, I)
        /\ b.call.blob = "done" => DoneHolds(b, w, I)
        /\ KindsOf(w, I) = KindsOf(w, J) \cup {"editsDone"}
        /\ b.call.tail # "wait"
    BY <1>10, <1>p DEF PushOf
  <2>2. "header" \notin KindsOf(w, I) /\ "header" \notin KindsOf(w, J)
    BY <1>9, <2>1
  <2>3. b.call.tail \in {"wait", "read", "end", "done"}
    BY <2>1 DEF CallHolds, CallType2
  <2>4. b.call.tail = "done"
    BY <2>1, <2>2, <2>3 DEF CallHolds, ReadHolds
  <2>5. b.call.blob = "body" => BodyHolds(b2, w, J) /\ ~r.snapshotDone
    BY <1>4, <1>5, <2>1, <2>2 DEF BodyHolds
  <2>6. b.call.blob = "done" => DoneHolds(b2, w, J)
    BY <1>4, <1>5, <2>1, <2>2 DEF DoneHolds
  <2>7. CallHolds(l, h, b2, x, w, J)
    BY <2>1, <2>4, <2>5, <2>6 DEF CallHolds
  <2>8. QED
    BY <2>1, <2>4, <2>5, <2>7
<1>11. ASSUME b2.ready
       PROVE  /\ J = {} /\ r2.snapshotDone /\ r2.tailDone
              /\ b.call = NoCall \/ (b.call.blob = "done" /\ b.call.tail = "done")
  <2>1. r2.snapshotDone /\ r2.tailDone
    BY <1>1, <1>11
  <2>2. r.snapshotDone
    BY <1>4, <2>1
  <2>3. QED
    BY <1>7, <1>10, <2>1, <2>2
<1> HIDE DEF r, r2, J
<1>12. QED
  BY <1>5, <1>6, <1>8, <1>10, <1>11, PushParked DEF J, r2

\* A push parks: its backfill's resume is what it makes it.
LEMMA ParkedHolds ==
  ASSUME NEW l, H!IsHistory(l), NEW h \in 0..Len(l), NEW b, NEW x \in Selectors, NEW park, NEW w,
         NEW I, NEW o, NEW j \in I, DownloadHolds(l, h, b, x, park, w, I, o, {})
  PROVE  LET item == w[j].item
             entry == Parked(b, item)
             b2 == [entry EXCEPT !.ready = entry.ready \/ (entry.resume.snapshotDone
                                                            /\ entry.resume.tailDone)]
             park2 == park \cup (IF item.kind = "edits" THEN item.edits ELSE {})
         IN  /\ item.kind # "header" => b.resume # NoResume
             /\ item.kind = "edits" => \A edit \in item.edits : IsOf(l, h, edit)
             /\ DownloadHolds(l, h, b2, x, park2, w, I \ {j}, o, {})
<1> DEFINE item == w[j].item
           entry == Parked(b, item)
           b2 == [entry EXCEPT !.ready = entry.ready \/ (entry.resume.snapshotDone
                                                          /\ entry.resume.tailDone)]
           park2 == park \cup (IF item.kind = "edits" THEN item.edits ELSE {})
<1>p. PushOf(l, h, b, x, w, I, j)
  BY PushHolds
<1>0. h \in Nat
  BY DEF H!IsHistory
<1>1. ItemHolds(l, h, b, x, item)
      /\ item.kind \in {"header", "page", "pagesDone", "edits", "editsDone"} /\ b.ready = FALSE
  BY <1>p DEF PushOf
<1>2. item.kind # "header" => b.resume # NoResume
  BY <1>1 DEF ItemHolds
<1>3. IsBackfill(b) /\ (b.resume # NoResume => b.resume \in ResumeType2(h))
  BY DEF DownloadHolds, ResumeHolds
<1>4. CASE item.kind = "header"
  <2>1. entry = [b EXCEPT !.header = item.seqs,
                   !.resume = [position |-> item.position, visible |-> item.visible, skip |-> 0,
                               from |-> IF b.resume = NoResume THEN item.position
                                        ELSE Larger(b.resume.from, item.position),
                               snapshotDone |-> FALSE, tailDone |-> FALSE]]
    BY <1>4 DEF Parked
  <2>2. DownloadHolds(l, h, b2, x, park, w, I \ {j}, o, {})
    <3>1. IsBackfill(b2) /\ b2.until = b.until /\ b2.retry = b.retry /\ b2.asked = b.asked
      BY <1>1, <1>3, <2>1 DEF IsBackfill
    <3>2. b2.call = b.call /\ b2.ready = b.ready /\ b2.header = item.seqs /\ b2.pages = b.pages
      BY <1>1, <1>3, <2>1 DEF IsBackfill
    <3>3. b2.resume = [position |-> item.position, visible |-> item.visible, skip |-> 0,
                       from |-> IF b.resume = NoResume THEN item.position
                                ELSE Larger(b.resume.from, item.position),
                       snapshotDone |-> FALSE, tailDone |-> FALSE]
      BY <1>3, <2>1 DEF IsBackfill
    <3> HIDE DEF b2
    <3>4. QED
      BY <1>0, <1>4, <3>1, <3>2, <3>3, HeaderParked
  <2>3. park2 = park
    BY <1>4
  <2>4. QED
    BY <1>2, <1>4, <2>2, <2>3
<1>5. CASE item.kind = "page"
  <2>1. entry = [b EXCEPT !.resume.skip = item.skip,
                   !.pages = {p \in b.pages : p.at # b.resume.skip}
                     \cup {[at |-> b.resume.skip, slice |-> item.slice, state |-> item.state]}]
    BY <1>5 DEF Parked
  <2>2. DownloadHolds(l, h, b2, x, park, w, I \ {j}, o, {})
    <3>0. b.resume.snapshotDone = FALSE /\ b.resume \in ResumeType2(h)
      BY <1>1, <1>3, <1>5 DEF ItemHolds, ResumeType2
    <3>1. IsBackfill(b2) /\ b2.until = b.until /\ b2.retry = b.retry /\ b2.asked = b.asked
      BY <1>1, <1>3, <2>1, <3>0 DEF IsBackfill, ResumeType2
    <3>2. b2.call = b.call /\ b2.ready = b.ready /\ b2.header = b.header
      BY <1>1, <1>3, <2>1, <3>0 DEF IsBackfill, ResumeType2
    <3>3. /\ b2.resume = [b.resume EXCEPT !.skip = item.skip]
          /\ b2.pages = {p \in b.pages : p.at # b.resume.skip}
               \cup {[at |-> b.resume.skip, slice |-> item.slice, state |-> item.state]}
      BY <1>3, <2>1 DEF IsBackfill
    <3> HIDE DEF b2
    <3>4. QED
      BY <1>0, <1>5, <3>1, <3>2, <3>3, PageParked
  <2>3. park2 = park
    BY <1>5
  <2>4. QED
    BY <1>2, <1>5, <2>2, <2>3
<1>6. CASE item.kind = "pagesDone"
  <2>1. entry = [b EXCEPT !.resume.snapshotDone = TRUE]
    BY <1>6 DEF Parked
  <2>2. DownloadHolds(l, h, b2, x, park, w, I \ {j}, o, {})
    <3>0. b.resume \in ResumeType2(h)
      BY <1>2, <1>3, <1>6
    <3>1. IsBackfill(b2) /\ b2.until = b.until /\ b2.retry = b.retry /\ b2.asked = b.asked
      BY <1>1, <1>3, <2>1, <3>0 DEF IsBackfill, ResumeType2
    <3>2. b2.call = b.call /\ b2.header = b.header /\ b2.pages = b.pages
      BY <1>1, <1>3, <2>1, <3>0 DEF IsBackfill, ResumeType2
    <3>3. b2.resume = [b.resume EXCEPT !.snapshotDone = TRUE]
      BY <1>3, <2>1 DEF IsBackfill
    <3>4. b2.ready = (b.ready \/ (b2.resume.snapshotDone /\ b2.resume.tailDone))
      BY <1>3, <2>1, <3>0 DEF IsBackfill, ResumeType2
    <3> HIDE DEF b2
    <3>5. QED
      BY <1>0, <1>6, <3>1, <3>2, <3>3, <3>4, PagesDoneParked
  <2>3. park2 = park
    BY <1>6
  <2>4. QED
    BY <1>2, <1>6, <2>2, <2>3
<1>7. CASE item.kind = "edits"
  <2>1. entry = [b EXCEPT !.resume.from =
                   LargestOf({b.resume.from} \cup {y.position : y \in item.edits})]
    BY <1>7 DEF Parked
  <2>2. DownloadHolds(l, h, b2, x, park \cup item.edits, w, I \ {j}, o, {})
        /\ \A edit \in item.edits : IsOf(l, h, edit)
    <3>0. b.resume \in ResumeType2(h)
      BY <1>2, <1>3, <1>7
    <3> DEFINE F == LargestOf({b.resume.from} \cup {y.position : y \in item.edits})
    <3> HIDE DEF F
    <3>1. IsBackfill(b2) /\ b2.until = b.until /\ b2.retry = b.retry /\ b2.asked = b.asked
      BY <1>1, <1>3, <2>1, <3>0 DEF IsBackfill, ResumeType2
    <3>2. b2.call = b.call /\ b2.header = b.header /\ b2.pages = b.pages
      BY <1>1, <1>3, <2>1, <3>0 DEF IsBackfill, ResumeType2
    <3>3. b2.resume = [b.resume EXCEPT !.from = F]
      BY <1>3, <2>1 DEF IsBackfill, F
    <3>4. b2.ready = (b.ready \/ (b2.resume.snapshotDone /\ b2.resume.tailDone))
      BY <1>3, <2>1, <3>0 DEF IsBackfill, ResumeType2
    <3> HIDE DEF b2
    <3>5. QED
      BY <1>7, <3>1, <3>2, <3>3, <3>4, EditsParked DEF F
  <2>3. park2 = park \cup item.edits
    BY <1>7
  <2>4. QED
    BY <1>2, <1>7, <2>2, <2>3
<1>8. CASE item.kind = "editsDone"
  <2>1. entry = [b EXCEPT !.resume.tailDone = TRUE]
    BY <1>8 DEF Parked
  <2>2. DownloadHolds(l, h, b2, x, park, w, I \ {j}, o, {})
    <3>0. b.resume \in ResumeType2(h)
      BY <1>2, <1>3, <1>8
    <3>1. IsBackfill(b2) /\ b2.until = b.until /\ b2.retry = b.retry /\ b2.asked = b.asked
      BY <1>1, <1>3, <2>1, <3>0 DEF IsBackfill, ResumeType2
    <3>2. b2.call = b.call /\ b2.header = b.header /\ b2.pages = b.pages
      BY <1>1, <1>3, <2>1, <3>0 DEF IsBackfill, ResumeType2
    <3>3. b2.resume = [b.resume EXCEPT !.tailDone = TRUE]
      BY <1>3, <2>1 DEF IsBackfill
    <3>4. b2.ready = (b.ready \/ (b2.resume.snapshotDone /\ b2.resume.tailDone))
      BY <1>3, <2>1, <3>0 DEF IsBackfill, ResumeType2
    <3> HIDE DEF b2
    <3>5. QED
      BY <1>0, <1>8, <3>1, <3>2, <3>3, <3>4, TailDoneParked
  <2>3. park2 = park
    BY <1>8
  <2>4. QED
    BY <1>2, <1>8, <2>2, <2>3
<1>9. QED
  BY <1>1, <1>4, <1>5, <1>6, <1>7, <1>8

-----------------------------------------------------------------------------
(* The steps of a store.                                                   *)

\* The fields a handler leaves, beside the backfills.
SameView(e, e2) == e2.view = e.view
SameBase(e, e2) == e2.seqs = e.seqs /\ e2.base = e.base /\ e2.applied = e.applied
SameRest(e, e2) ==
  /\ IsStore(e2) /\ e2.cursor = e.cursor /\ e2.park = e.park /\ e2.failed = e.failed
  /\ SameView(e, e2) /\ SameBase(e, e2)

LEMMA SpawnIs ==
  ASSUME NEW e, IsStore(e), NEW sels, NEW until
  PROVE  LET e2 == SpawnIn(e, sels, until) IN
         /\ SameRest(e, e2)
         /\ e2.backfills = [x \in InFlight(e) \cup sels |->
              IF x \in sels THEN [NewBackfill(until) EXCEPT !.asked = TRUE] ELSE e.backfills[x]]
         /\ InFlight(e2) = InFlight(e) \cup sels
<1> DEFINE bs == [x \in InFlight(e) \cup sels |->
              IF x \in sels THEN [NewBackfill(until) EXCEPT !.asked = TRUE] ELSE e.backfills[x]]
<1>1. DOMAIN bs = InFlight(e) \cup sels
  OBVIOUS
<1>2. SpawnIn(e, sels, until) = [e EXCEPT !.backfills = bs]
  BY Zenon DEF SpawnIn
<1> HIDE DEF bs
<1>3. SameRest(e, [e EXCEPT !.backfills = bs]) /\ [e EXCEPT !.backfills = bs].backfills = bs
  BY DEF IsStore, SameRest, SameBase, SameView
<1>4. QED
  BY <1>1, <1>2, <1>3 DEF bs, InFlight

LEMMA RestartIs ==
  ASSUME NEW e, IsStore(e), NEW sels
  PROVE  LET e2 == RestartIn(e, sels) IN
         /\ SameRest(e, e2)
         /\ e2.backfills = [x \in InFlight(e) |->
              IF x \in sels THEN [NewBackfill(e.backfills[x].until) EXCEPT !.asked = TRUE]
              ELSE e.backfills[x]]
         /\ InFlight(e2) = InFlight(e)
<1> DEFINE bs == [x \in InFlight(e) |->
              IF x \in sels THEN [NewBackfill(e.backfills[x].until) EXCEPT !.asked = TRUE]
              ELSE e.backfills[x]]
<1>1. DOMAIN bs = InFlight(e)
  OBVIOUS
<1>2. RestartIn(e, sels) = [e EXCEPT !.backfills = bs]
  BY Zenon DEF RestartIn
<1> HIDE DEF bs
<1>3. SameRest(e, [e EXCEPT !.backfills = bs]) /\ [e EXCEPT !.backfills = bs].backfills = bs
  BY DEF IsStore, SameRest, SameBase, SameView
<1>4. QED
  BY <1>1, <1>2, <1>3 DEF bs, InFlight

LEMMA DropIs ==
  ASSUME NEW e, IsStore(e), NEW sels
  PROVE  LET e2 == DropBackfillsIn(e, sels) IN
         /\ SameRest(e, e2)
         /\ e2.backfills = [x \in InFlight(e) \ sels |-> e.backfills[x]]
         /\ InFlight(e2) = InFlight(e) \ sels
<1> DEFINE bs == [x \in InFlight(e) \ sels |-> e.backfills[x]]
<1>1. DOMAIN bs = InFlight(e) \ sels
  OBVIOUS
<1>2. DropBackfillsIn(e, sels) = [e EXCEPT !.backfills = bs]
  BY Zenon DEF DropBackfillsIn
<1> HIDE DEF bs
<1>3. SameRest(e, [e EXCEPT !.backfills = bs]) /\ [e EXCEPT !.backfills = bs].backfills = bs
  BY DEF IsStore, SameRest, SameBase, SameView
<1>4. QED
  BY <1>1, <1>2, <1>3 DEF bs, InFlight

LEMMA DropSlicesIs ==
  ASSUME NEW e, IsStore(e), NEW slices
  PROVE  LET e2 == DropSlicesIn(e, slices) IN
         /\ IsStore(e2) /\ SameView(e, e2)
         /\ e2.cursor = e.cursor /\ e2.applied = e.applied
         /\ e2.failed = e.failed /\ e2.backfills = e.backfills
         /\ e2.base = [s \in Slices |-> IF s \in slices THEN {} ELSE e.base[s]]
         /\ e2.seqs = [s \in Slices |-> IF s \in slices THEN 0 ELSE e.seqs[s]]
         /\ e2.park = {edit \in e.park : edit.slice \notin slices}
BY DEF IsStore, DropSlicesIn, SameView

LEMMA AdvanceIs ==
  ASSUME NEW e, IsStore(e), NEW position \in Int, NEW applied
  PROVE  LET e2 == AdvanceCursorIn(e, position, applied) IN
         /\ IsStore(e2) /\ SameView(e, e2)
         /\ e2.cursor = Larger(position, e.cursor)
         /\ e2.applied = IF applied THEN Larger(position, e.applied) ELSE e.applied
         /\ e2.failed = e.failed /\ e2.backfills = e.backfills
         /\ e2.base = e.base /\ e2.seqs = e.seqs /\ e2.park = e.park
BY DEF IsStore, AdvanceCursorIn, Larger, SameView

LEMMA ToldIs ==
  ASSUME NEW e, IsStore(e), NEW view, NEW position \in Int
  PROVE  LET e2 == Told(e, view, position) IN
         /\ IsStore(e2) /\ e2.view = view
         /\ e2.cursor = IF e.cursor = -1 THEN position ELSE e.cursor
         /\ SameBase(e, e2)
         /\ e2.failed = e.failed /\ e2.backfills = e.backfills /\ e2.park = e.park
BY DEF IsStore, Told, SameBase

-----------------------------------------------------------------------------
(* What they keep.                                                         *)

LEMMA RestTypes ==
  ASSUME NEW l, NEW h, NEW e, EngineTypes(l, h, e), NEW e2, SameRest(e, e2),
         e2.backfills = [x \in InFlight(e2) |-> e2.backfills[x]], InFlight(e2) \subseteq Selectors
  PROVE  EngineTypes(l, h, e2)
BY DEF EngineTypes, SameRest, SameBase, SameView

\* The backfills stay, and what is parked of their slices.
LEMMA StoreKept ==
  ASSUME NEW l, NEW h, NEW e, NEW w, NEW m, NEW o, NEW n, NEW gone,
         StoreHolds(l, h, e, w, m, o, n, gone),
         NEW e2, EngineTypes(l, h, e2), e2.backfills = e.backfills,
         \A edit \in e.park : \A x \in InFlight(e) : edit.slice \in x => edit \in e2.park
  PROVE  StoreHolds(l, h, e2, w, m, o, n, gone)
<1>1. InFlight(e2) = InFlight(e)
  BY DEF InFlight
<1>2. ASSUME NEW x \in InFlight(e)
      PROVE  DownloadHolds(l, h, e.backfills[x], x, e2.park, w, Pending(w, m, gone, x),
                           o, Pending(o, n, gone, x))
  <2>1. DownloadHolds(l, h, e.backfills[x], x, e.park, w, Pending(w, m, gone, x),
                      o, Pending(o, n, gone, x))
    BY DEF StoreHolds, DownloadsHold
  <2>2. QED
    BY <2>1, ParkKept
<1>3. QED
  BY <1>1, <1>2 DEF StoreHolds, DownloadsHold, QueuesHold

\* A selector that is not in flight has nothing pending.
LEMMA NonePending ==
  ASSUME NEW e, NEW q, NEW n, NEW gone, QueuesHold(e, q, n, gone), NEW x, x \notin InFlight(e)
  PROVE  Pending(q, n, gone, x) = {}
BY DEF QueuesHold, Pending

LEMMA SpawnHolds ==
  ASSUME NEW l, NEW h \in Nat, NEW e, NEW w, NEW m, NEW o, NEW n, NEW gone,
         StoreHolds(l, h, e, w, m, o, n, gone),
         NEW sels \in SUBSET Selectors, sels \cap InFlight(e) = {}, NEW until \in 0..h + 1
  PROVE  StoreHolds(l, h, SpawnIn(e, sels, until), w, m, o, n, gone)
<1> DEFINE e2 == SpawnIn(e, sels, until)
           b == [NewBackfill(until) EXCEPT !.asked = TRUE]
<1>1. EngineTypes(l, h, e) /\ IsStore(e)
  BY DEF StoreHolds, EngineTypes
<1>2. /\ SameRest(e, e2)
      /\ e2.backfills = [x \in InFlight(e) \cup sels |-> IF x \in sels THEN b ELSE e.backfills[x]]
      /\ InFlight(e2) = InFlight(e) \cup sels
  BY <1>1, SpawnIs
<1> HIDE DEF e2, b
<1>3. EngineTypes(l, h, e2)
  <2>1. e2.backfills = [x \in InFlight(e2) |-> e2.backfills[x]]
    BY <1>2
  <2>2. InFlight(e2) \subseteq Selectors
    BY <1>1, <1>2 DEF EngineTypes
  <2>3. QED
    BY <1>1, <1>2, <2>1, <2>2, RestTypes
<1>4. e2.park = e.park
  BY <1>2 DEF SameRest
<1>5. ASSUME NEW x \in InFlight(e2)
      PROVE  DownloadHolds(l, h, e2.backfills[x], x, e2.park, w, Pending(w, m, gone, x),
                           o, Pending(o, n, gone, x))
  <2>1. CASE x \in sels
    <3>1. Pending(w, m, gone, x) = {} /\ Pending(o, n, gone, x) = {}
      BY <2>1, NonePending DEF StoreHolds
    <3>2. e2.backfills[x] = b
      BY <1>2, <2>1
    <3>3. QED
      BY <3>1, <3>2, SpawnedHolds DEF b
  <2>2. CASE x \notin sels
    <3>1. x \in InFlight(e) /\ e2.backfills[x] = e.backfills[x]
      BY <1>2, <2>2
    <3>2. QED
      BY <1>4, <3>1 DEF StoreHolds, DownloadsHold
  <2>3. QED
    BY <2>1, <2>2
<1>6. QED
  BY <1>2, <1>3, <1>5 DEF StoreHolds, DownloadsHold, QueuesHold, e2

LEMMA DropHolds ==
  ASSUME NEW l, NEW h \in Nat, NEW e, NEW w, NEW m, NEW o, NEW n, NEW gone,
         StoreHolds(l, h, e, w, m, o, n, gone), NEW sels
  PROVE  StoreHolds(l, h, DropBackfillsIn(e, sels), w, m, o, n, gone \cup sels)
<1> DEFINE e2 == DropBackfillsIn(e, sels)
<1>1. EngineTypes(l, h, e) /\ IsStore(e)
  BY DEF StoreHolds, EngineTypes
<1>2. /\ SameRest(e, e2)
      /\ e2.backfills = [x \in InFlight(e) \ sels |-> e.backfills[x]]
      /\ InFlight(e2) = InFlight(e) \ sels
  BY <1>1, DropIs
<1> HIDE DEF e2
<1>3. EngineTypes(l, h, e2)
  <2>1. e2.backfills = [x \in InFlight(e2) |-> e2.backfills[x]]
    BY <1>2
  <2>2. InFlight(e2) \subseteq Selectors
    BY <1>1, <1>2 DEF EngineTypes
  <2>3. QED
    BY <1>1, <1>2, <2>1, <2>2, RestTypes
<1>4. e2.park = e.park
  BY <1>2 DEF SameRest
<1>5. ASSUME NEW x \in InFlight(e2)
      PROVE  DownloadHolds(l, h, e2.backfills[x], x, e2.park, w, Pending(w, m, gone \cup sels, x),
                           o, Pending(o, n, gone \cup sels, x))
  <2>1. x \in InFlight(e) /\ x \notin sels /\ e2.backfills[x] = e.backfills[x]
    BY <1>2
  <2>2. /\ Pending(w, m, gone \cup sels, x) = Pending(w, m, gone, x)
        /\ Pending(o, n, gone \cup sels, x) = Pending(o, n, gone, x)
    BY <2>1 DEF Pending
  <2>3. QED
    BY <1>4, <2>1, <2>2 DEF StoreHolds, DownloadsHold
<1>6. QED
  BY <1>2, <1>3, <1>5 DEF StoreHolds, DownloadsHold, QueuesHold, e2

\* Selectors that are not in flight may count as gone.
LEMMA GoneGrows ==
  ASSUME NEW l, NEW h, NEW e, NEW w, NEW m, NEW o, NEW n, NEW gone, NEW gone2,
         StoreHolds(l, h, e, w, m, o, n, gone), gone \subseteq gone2,
         gone2 \cap InFlight(e) \subseteq gone
  PROVE  StoreHolds(l, h, e, w, m, o, n, gone2)
<1>1. ASSUME NEW x \in InFlight(e)
      PROVE  /\ Pending(w, m, gone2, x) = Pending(w, m, gone, x)
             /\ Pending(o, n, gone2, x) = Pending(o, n, gone, x)
  BY DEF Pending
<1>2. QED
  BY <1>1 DEF StoreHolds, DownloadsHold, QueuesHold

LEMMA RestartHolds ==
  ASSUME NEW l, NEW h \in Nat, NEW e, NEW w, NEW m, NEW o, NEW n, NEW gone,
         StoreHolds(l, h, e, w, m, o, n, gone), NEW sels,
         \A x \in InFlight(e) : e.backfills[x].ready
  PROVE  StoreHolds(l, h, RestartIn(e, sels), w, m, o, n, gone)
<1> DEFINE e2 == RestartIn(e, sels)
           b(x) == [NewBackfill(e.backfills[x].until) EXCEPT !.asked = TRUE]
<1>1. EngineTypes(l, h, e) /\ IsStore(e)
  BY DEF StoreHolds, EngineTypes
<1>2. /\ SameRest(e, e2)
      /\ e2.backfills = [x \in InFlight(e) |-> IF x \in sels THEN b(x) ELSE e.backfills[x]]
      /\ InFlight(e2) = InFlight(e)
  BY <1>1, RestartIs
<1> HIDE DEF e2, b
<1>3. EngineTypes(l, h, e2)
  <2>1. e2.backfills = [x \in InFlight(e2) |-> e2.backfills[x]]
    BY <1>2
  <2>2. InFlight(e2) \subseteq Selectors
    BY <1>1, <1>2 DEF EngineTypes
  <2>3. QED
    BY <1>1, <1>2, <2>1, <2>2, RestTypes
<1>4. e2.park = e.park
  BY <1>2 DEF SameRest
<1>5. ASSUME NEW x \in InFlight(e2)
      PROVE  DownloadHolds(l, h, e2.backfills[x], x, e2.park, w, Pending(w, m, gone, x),
                           o, Pending(o, n, gone, x))
  <2>1. x \in InFlight(e)
    BY <1>2
  <2>2. DownloadHolds(l, h, e.backfills[x], x, e.park, w, Pending(w, m, gone, x),
                      o, Pending(o, n, gone, x))
    BY <2>1 DEF StoreHolds, DownloadsHold
  <2>3. CASE x \in sels
    <3>1. Pending(w, m, gone, x) = {} /\ Pending(o, n, gone, x) = {}
          /\ e.backfills[x].until \in 0..h + 1
      BY <2>1, <2>2 DEF DownloadHolds, ReadyHolds
    <3>2. e2.backfills[x] = b(x)
      BY <1>2, <2>3
    <3>3. QED
      BY <3>1, <3>2, SpawnedHolds DEF b
  <2>4. CASE x \notin sels
    BY <1>2, <1>4, <2>2, <2>4
  <2>5. QED
    BY <2>3, <2>4
<1>6. QED
  BY <1>2, <1>3, <1>5 DEF StoreHolds, DownloadsHold, QueuesHold, e2

-----------------------------------------------------------------------------
(* Runs of edits.                                                          *)

LEMMA LastOfRun ==
  ASSUME NEW h \in Nat, NEW run, run # {}, \A edit \in run : edit.seq \in 0..h
  PROVE  \E x \in run : \A y \in run : y.seq <= x.seq
<1> DEFINE S == {edit.seq : edit \in run}
<1>1. S \in SUBSET Nat /\ S # {} /\ \A q \in S : q <= h
  OBVIOUS
<1> HIDE DEF S
<1>2. LargestOf(S) \in S /\ \A q \in S : q <= LargestOf(S)
  BY <1>1, LargestHolds
<1>3. PICK x \in run : LargestOf(S) = x.seq
  BY <1>2 DEF S
<1>4. \A y \in run : y.seq \in S
  BY DEF S
<1>5. QED
  BY <1>2, <1>3, <1>4

LEMMA SeqAfterRunType ==
  ASSUME NEW h \in Nat, NEW run, \A edit \in run : edit.seq \in 0..h, NEW seq \in 0..h
  PROVE  SeqAfterRun(seq, run) \in 0..h
<1>1. CASE run = {}
  BY <1>1 DEF SeqAfterRun
<1>2. CASE run # {}
  <2> DEFINE end == CHOOSE x \in run : \A y \in run : y.seq <= x.seq
  <2>1. end \in run
    BY <1>2, LastOfRun
  <2>2. SeqAfterRun(seq, run) = IF end.life = "death" THEN 0 ELSE end.seq
    BY <1>2 DEF SeqAfterRun
  <2> HIDE DEF end
  <2>3. QED
    BY <2>1, <2>2
<1>3. QED
  BY <1>1, <1>2

LEMMA AfterRunType ==
  ASSUME NEW h \in Nat, NEW run, \A edit \in run : edit.seq \in 0..h, NEW state \in SUBSET Nat
  PROVE  AfterRun(state, run) \in SUBSET Nat
<1> DEFINE resets == {edit.seq : edit \in {x \in run : x.life # "normal"}}
           start == IF resets = {} THEN 0 ELSE LargestOf(resets)
           ended == \E edit \in run : edit.seq = start /\ edit.life = "death"
           run2 == {x \in run : x.seq > start \/ (x.seq = start /\ ~ended)}
<1>1. AfterRun(state, run) = (IF resets = {} THEN state ELSE {}) \cup {edit.seq : edit \in run2}
  BY Zenon DEF AfterRun
<1>2. \A edit \in run2 : edit.seq \in Nat
  OBVIOUS
<1> HIDE DEF resets, run2
<1>3. QED
  BY <1>1, <1>2

-----------------------------------------------------------------------------
(* The land.                                                               *)

AllReady(e) == \A x \in InFlight(e) : e.backfills[x].ready

\* What a land leaves of a slice.
LandedSeq(e, s) ==
  IF s \in Planned(e) THEN SeqAfterRun(StartSeq(e, s), Run(e, s)) ELSE e.seqs[s]
LandedState(e, s) ==
  IF s \in Planned(e) THEN AfterRun(Applied(e, s), Run(e, s)) ELSE Applied(e, s)
Leaves(e, s) == LandedSeq(e, s) # 0 /\ ~InView(e, s)

LEMMA LandedIs ==
  ASSUME NEW e, IsStore(e)
  PROVE  LET e2 == LandedIn(e) IN
         /\ IsStore(e2) /\ SameView(e, e2) /\ e2.failed = e.failed
         /\ e2.cursor = e.cursor /\ e2.applied = AppliedThrough(e)
         /\ e2.park = {} /\ e2.backfills = <<>>
         /\ e2.base = [s \in Slices |-> IF Leaves(e, s) THEN {} ELSE LandedState(e, s)]
         /\ e2.seqs = [s \in Slices |-> IF Leaves(e, s) THEN 0 ELSE LandedSeq(e, s)]
<1> DEFINE landed == [e EXCEPT
             !.base = [s \in Slices |-> IF s \in Planned(e) THEN AfterRun(Applied(e, s), Run(e, s))
                                        ELSE Applied(e, s)],
             !.seqs = [s \in Slices |-> IF s \in Planned(e)
                                        THEN SeqAfterRun(StartSeq(e, s), Run(e, s)) ELSE e.seqs[s]]]
           dropped == DropSlicesIn(landed, Unviewed(landed))
<1>1. LandedIn(e) = [dropped EXCEPT !.park = {}, !.backfills = <<>>, !.applied = AppliedThrough(e)]
  BY Zenon DEF LandedIn
<1>2. landed = [e EXCEPT !.base = [s \in Slices |-> LandedState(e, s)],
                         !.seqs = [s \in Slices |-> LandedSeq(e, s)]]
  BY Zenon DEF LandedState, LandedSeq
<1> HIDE DEF landed
<1>3. /\ IsStore(landed) /\ SameView(e, landed) /\ landed.failed = e.failed
      /\ landed.cursor = e.cursor /\ landed.applied = e.applied
      /\ landed.base = [s \in Slices |-> LandedState(e, s)]
      /\ landed.seqs = [s \in Slices |-> LandedSeq(e, s)]
  BY <1>2 DEF IsStore, SameView
<1>4. \A s \in Slices : s \in Unviewed(landed) <=> Leaves(e, s)
  BY <1>3 DEF Unviewed, Held, Leaves, InView, Viewed, SameView
<1>5. /\ IsStore(dropped) /\ SameView(landed, dropped)
      /\ dropped.cursor = landed.cursor /\ dropped.applied = landed.applied
      /\ dropped.failed = landed.failed
      /\ dropped.base = [s \in Slices |-> IF s \in Unviewed(landed) THEN {} ELSE landed.base[s]]
      /\ dropped.seqs = [s \in Slices |-> IF s \in Unviewed(landed) THEN 0 ELSE landed.seqs[s]]
  BY <1>3, DropSlicesIs
<1>6. /\ dropped.base = [s \in Slices |-> IF Leaves(e, s) THEN {} ELSE LandedState(e, s)]
      /\ dropped.seqs = [s \in Slices |-> IF Leaves(e, s) THEN 0 ELSE LandedSeq(e, s)]
  BY <1>3, <1>4, <1>5
<1> HIDE DEF dropped
<1>7. AppliedThrough(e) \in Int
  BY DEF AppliedThrough, Larger, IsStore
<1>8. QED
  BY <1>1, <1>3, <1>5, <1>6, <1>7 DEF IsStore, SameView

\* A ready backfill has its blob.
LEMMA ReadyHas ==
  ASSUME NEW l, NEW h \in Nat, NEW e, NEW w, NEW m, NEW o, NEW n, NEW gone,
         StoreHolds(l, h, e, w, m, o, n, gone), NEW x \in InFlight(e), e.backfills[x].ready
  PROVE  LET b == e.backfills[x]  r == b.resume IN
         /\ x \in Selectors /\ b.until \in 0..h + 1
         /\ r # NoResume /\ r.snapshotDone /\ r.tailDone
         /\ r.position \in 0..h /\ r.visible \in 0..h
         /\ SnapshotHolds(l, b, x, r) /\ TailHolds(l, h, b, x, r, e.park)
         /\ b.header \in [Slices -> 0..h] /\ \A page \in b.pages : page.state \in SUBSET Nat
<1> DEFINE b == e.backfills[x]  r == b.resume
<1>1. DownloadHolds(l, h, b, x, e.park, w, Pending(w, m, gone, x), o, Pending(o, n, gone, x))
  BY DEF StoreHolds, DownloadsHold
<1>2. x \in Selectors
  BY DEF StoreHolds, EngineTypes
<1>3. r # NoResume /\ r.snapshotDone /\ r.tailDone
  BY <1>1 DEF DownloadHolds, ReadyHolds
<1>4. /\ r \in ResumeType2(h) /\ SnapshotHolds(l, b, x, r) /\ TailHolds(l, h, b, x, r, e.park)
      /\ b.until \in 0..h + 1
  BY <1>1, <1>3 DEF DownloadHolds, ResumeHolds
<1>5. r.position \in 0..h /\ r.visible \in 0..h /\ r.position \in Nat
  BY <1>4 DEF ResumeType2
<1>6. b.header \in [Slices -> 0..h]
  <2>1. b.header \in [Slices -> 0..r.position]
    BY <1>4, <1>5, HeaderType DEF SnapshotHolds
  <2>2. QED
    BY <1>5, <2>1
<1>7. \A page \in b.pages : page.state \in SUBSET Nat
  <2>1. \A i : PageOf(l, x, r.position, i).state
                 = H!StateAt(l, PagesOf(l, x, r.position)[i], r.position)
    BY DEF PageOf
  <2>2. \A s : H!StateAt(l, s, r.position) \in SUBSET Nat
    <3> TAKE s
    <3>1. H!StateAt(l, s, r.position) \in SUBSET (0..r.position)
      BY <1>5, StateType
    <3>2. QED
      BY <3>1
  <2>3. \A page \in b.pages : \E i : page = PageOf(l, x, r.position, i)
    BY <1>4 DEF SnapshotHolds
  <2>4. QED
    BY <2>1, <2>2, <2>3
<1>8. QED
  BY <1>2, <1>3, <1>4, <1>5, <1>6, <1>7

\* A slice that backfills cover has a winner.
LEMMA WinnerHolds ==
  ASSUME NEW l, NEW h \in Nat, NEW e, NEW w, NEW m, NEW o, NEW n, NEW gone,
         StoreHolds(l, h, e, w, m, o, n, gone), AllReady(e), NEW s, Covering(e, s) # {}
  PROVE  /\ Winner(e, s) \in Covering(e, s) /\ Winner(e, s) \in InFlight(e) /\ s \in Winner(e, s)
         /\ \A y \in Covering(e, s) :
              e.backfills[y].resume.position <= e.backfills[Winner(e, s)].resume.position
<1> DEFINE p(x) == e.backfills[x].resume.position
           S == {p(x) : x \in Covering(e, s)}
<1>1. \A x \in Covering(e, s) : x \in InFlight(e) /\ p(x) \in 0..h
  BY ReadyHas DEF Covering, AllReady
<1>2. S \in SUBSET Nat /\ S # {} /\ \A q \in S : q <= h
  BY <1>1
<1> HIDE DEF p
<1>3. LargestOf(S) \in S /\ \A q \in S : q <= LargestOf(S)
  <2> HIDE DEF S
  <2>1. QED
    BY <1>2, LargestHolds
<1>4. PICK x \in Covering(e, s) : \A y \in Covering(e, s) : p(y) <= p(x)
  BY <1>3
<1>5. Winner(e, s) \in Covering(e, s) /\ \A y \in Covering(e, s) : p(y) <= p(Winner(e, s))
  BY <1>4, Zenon DEF Winner, p
<1>6. QED
  BY <1>5 DEF Covering, p

LEMMA StartSeqType ==
  ASSUME NEW l, NEW h \in Nat, NEW e, NEW w, NEW m, NEW o, NEW n, NEW gone,
         StoreHolds(l, h, e, w, m, o, n, gone), AllReady(e), NEW s \in Slices
  PROVE  StartSeq(e, s) \in 0..h
<1>1. e.seqs[s] \in 0..h
  BY DEF StoreHolds, EngineTypes
<1>2. Named(e, s) \in 0..h
  <2>1. CASE Covering(e, s) = {}
    BY <2>1 DEF Named
  <2>2. CASE Covering(e, s) # {}
    <3>1. Winner(e, s) \in InFlight(e)
      BY <2>2, WinnerHolds
    <3>2. e.backfills[Winner(e, s)].header \in [Slices -> 0..h]
      BY <3>1, ReadyHas DEF AllReady
    <3>3. QED
      BY <2>2, <3>2 DEF Named
  <2>3. QED
    BY <2>1, <2>2
<1>3. QED
  BY <1>1, <1>2 DEF StartSeq

LEMMA LandedTypes ==
  ASSUME NEW l, H!IsHistory(l), NEW h \in 0..Len(l), NEW e, NEW w, NEW m, NEW o, NEW n, NEW gone,
         StoreHolds(l, h, e, w, m, o, n, gone), AllReady(e), NEW s \in Slices
  PROVE  LandedSeq(e, s) \in 0..h /\ LandedState(e, s) \in SUBSET Nat
<1>0. h \in Nat
  BY DEF H!IsHistory
<1>1. \A edit \in Run(e, s) : edit.seq \in 0..h
  <2>1. \A edit \in Run(e, s) : edit \in e.park
    BY DEF Run, Past
  <2>2. \A edit \in e.park : IsOf(l, h, edit)
    BY DEF StoreHolds, EngineTypes
  <2>3. QED
    BY <1>0, <2>1, <2>2, EditTypes
<1>2. e.seqs[s] \in 0..h /\ e.base[s] \in SUBSET Nat
  BY DEF StoreHolds, EngineTypes
<1>3. LandedSeq(e, s) \in 0..h
  <2>1. StartSeq(e, s) \in 0..h
    BY <1>0, StartSeqType
  <2>2. SeqAfterRun(StartSeq(e, s), Run(e, s)) \in 0..h
    BY <1>0, <1>1, <2>1, SeqAfterRunType
  <2>3. QED
    BY <1>2, <2>2 DEF LandedSeq
<1>4. LandedState(e, s) \in SUBSET Nat
  <2>1. \A x \in InFlight(e) : \A page \in e.backfills[x].pages : page.state \in SUBSET Nat
    BY <1>0, ReadyHas DEF AllReady
  <2>2. Applied(e, s) \in SUBSET Nat
    BY <1>2, <2>1 DEF Applied
  <2>3. AfterRun(Applied(e, s), Run(e, s)) \in SUBSET Nat
    BY <1>0, <1>1, <2>2, AfterRunType
  <2>4. QED
    BY <2>2, <2>3 DEF LandedState
<1>5. QED
  BY <1>3, <1>4

LEMMA LandedHolds ==
  ASSUME NEW l, H!IsHistory(l), NEW h \in 0..Len(l), NEW e, NEW w, NEW m, NEW o, NEW n, NEW gone,
         StoreHolds(l, h, e, w, m, o, n, gone), AllReady(e)
  PROVE  StoreHolds(l, h, LandedIn(e), w, m, o, n, gone)
<1> DEFINE e2 == LandedIn(e)
<1>1. EngineTypes(l, h, e)
  BY DEF StoreHolds
<1>2. /\ IsStore(e2) /\ SameView(e, e2) /\ e2.failed = e.failed
      /\ e2.cursor = e.cursor /\ e2.applied = AppliedThrough(e)
      /\ e2.park = {} /\ e2.backfills = <<>>
      /\ e2.base = [s \in Slices |-> IF Leaves(e, s) THEN {} ELSE LandedState(e, s)]
      /\ e2.seqs = [s \in Slices |-> IF Leaves(e, s) THEN 0 ELSE LandedSeq(e, s)]
  BY <1>1, LandedIs DEF EngineTypes
<1> HIDE DEF e2
<1>3. \A s \in Slices : LandedSeq(e, s) \in 0..h /\ LandedState(e, s) \in SUBSET Nat
  BY LandedTypes
<1>4. InFlight(e2) = {}
  BY <1>2 DEF InFlight
<1>5. EngineTypes(l, h, e2)
  <2>1. e2.seqs \in [Slices -> 0..h] /\ e2.base \in [Slices -> SUBSET Nat]
    <3>1. 0 \in 0..h
      BY DEF H!IsHistory
    <3>2. QED
      BY <1>2, <1>3, <3>1
  <2>2. e2.applied \in -1..h /\ e2.applied <= e2.cursor /\ e2.cursor \in -1..h
    BY <1>1, <1>2 DEF EngineTypes, AppliedThrough, Larger
  <2>3. e2.backfills = [x \in InFlight(e2) |-> e2.backfills[x]]
    BY <1>2, <1>4
  <2>4. QED
    BY <1>1, <1>2, <1>4, <2>1, <2>2, <2>3 DEF EngineTypes, SameView
<1>6. ASSUME NEW x \in InFlight(e)
      PROVE  Pending(w, m, gone, x) = {} /\ Pending(o, n, gone, x) = {}
  BY DEF StoreHolds, DownloadsHold, DownloadHolds, ReadyHolds, AllReady
<1>7. QueuesHold(e2, w, m, gone) /\ QueuesHold(e2, o, n, gone)
  BY <1>6 DEF StoreHolds, QueuesHold, Pending
<1>8. QED
  BY <1>4, <1>5, <1>7 DEF StoreHolds, DownloadsHold, e2

LEMMA LandHolds ==
  ASSUME NEW l, H!IsHistory(l), NEW h \in 0..Len(l), NEW e, NEW w, NEW m, NEW o, NEW n, NEW gone,
         StoreHolds(l, h, e, w, m, o, n, gone), AllReady(e)
  PROVE  StoreHolds(l, h, LandIn(e), w, m, o, n, gone)
<1> DEFINE broken == {s \in Planned(e) : Breaks(e, s)}
           again == {{s} : s \in broken} \cap InFlight(e)
           new == {{s} : s \in broken} \ InFlight(e)
<1>0. h \in Nat
  BY DEF H!IsHistory
<1>1. CASE \E edit \in e.park : edit.position > e.cursor
  BY <1>1 DEF LandIn
<1>2. CASE ~(\E edit \in e.park : edit.position > e.cursor) /\ broken # {}
  <2>1. LandIn(e) = SpawnIn(RestartIn(e, again), new, e.cursor + 1)
    BY <1>2, Zenon DEF LandIn
  <2>2. StoreHolds(l, h, RestartIn(e, again), w, m, o, n, gone)
    BY <1>0, RestartHolds DEF AllReady
  <2>3. InFlight(RestartIn(e, again)) = InFlight(e)
    BY RestartIs DEF StoreHolds, EngineTypes
  <2>4. new \in SUBSET Selectors
    <3>1. \A s \in Slices : {s} \in Selectors
      BY DEF Selectors
    <3>2. broken \in SUBSET Slices
      BY DEF Planned
    <3> HIDE DEF broken
    <3>3. QED
      BY <3>1, <3>2
  <2>5. e.cursor + 1 \in 0..h + 1
    BY <1>0 DEF StoreHolds, EngineTypes
  <2>6. new \cap InFlight(RestartIn(e, again)) = {}
    BY <2>3
  <2> HIDE DEF new, again
  <2>7. QED
    BY <1>0, <2>1, <2>2, <2>4, <2>5, <2>6, SpawnHolds
<1>3. CASE ~(\E edit \in e.park : edit.position > e.cursor) /\ broken = {}
  <2>1. LandIn(e) = LandedIn(e)
    BY <1>3, Zenon DEF LandIn
  <2>2. QED
    BY <2>1, LandedHolds
<1>4. QED
  BY <1>1, <1>2, <1>3

LEMMA TryLandHolds ==
  ASSUME NEW l, H!IsHistory(l), NEW h \in 0..Len(l), NEW e, NEW w, NEW m, NEW o, NEW n, NEW gone,
         StoreHolds(l, h, e, w, m, o, n, gone)
  PROVE  StoreHolds(l, h, TryLandIn(e), w, m, o, n, gone)
<1>1. CASE \A x \in InFlight(e) : e.backfills[x].ready /\ e.backfills[x].resume.visible <= e.cursor
  <2>1. AllReady(e) /\ TryLandIn(e) = LandIn(e)
    BY <1>1, Zenon DEF AllReady, TryLandIn
  <2>2. QED
    BY <2>1, LandHolds
<1>2. CASE ~(\A x \in InFlight(e) : e.backfills[x].ready /\ e.backfills[x].resume.visible <= e.cursor)
  BY <1>2 DEF TryLandIn
<1>3. QED
  BY <1>1, <1>2

-----------------------------------------------------------------------------
(* The frames.                                                             *)

SetParkIs(e, park, e2) ==
  /\ IsStore(e2) /\ SameView(e, e2) /\ SameBase(e, e2) /\ e2.cursor = e.cursor
  /\ e2.failed = e.failed /\ e2.backfills = e.backfills /\ e2.park = park

LEMMA AdvanceHolds ==
  ASSUME NEW l, NEW h \in Nat, NEW e, NEW w, NEW m, NEW o, NEW n, NEW gone,
         StoreHolds(l, h, e, w, m, o, n, gone), NEW position \in 0..h, NEW applied
  PROVE  StoreHolds(l, h, AdvanceCursorIn(e, position, applied), w, m, o, n, gone)
<1> DEFINE e2 == AdvanceCursorIn(e, position, applied)
<1>1. EngineTypes(l, h, e) /\ IsStore(e) /\ e.cursor \in -1..h /\ e.applied \in -1..h
      /\ e.applied <= e.cursor
  BY DEF StoreHolds, EngineTypes
<1>2. /\ IsStore(e2) /\ SameView(e, e2)
      /\ e2.cursor = Larger(position, e.cursor)
      /\ e2.applied = IF applied THEN Larger(position, e.applied) ELSE e.applied
      /\ e2.failed = e.failed /\ e2.backfills = e.backfills
      /\ e2.base = e.base /\ e2.seqs = e.seqs /\ e2.park = e.park
  BY <1>1, AdvanceIs
<1> HIDE DEF e2
<1>3. EngineTypes(l, h, e2)
  <2>1. e2.cursor \in -1..h /\ e2.applied \in -1..h /\ e2.applied <= e2.cursor
    BY <1>1, <1>2 DEF Larger
  <2>2. InFlight(e2) = InFlight(e)
    BY <1>2 DEF InFlight
  <2>3. QED
    BY <1>1, <1>2, <2>1, <2>2 DEF EngineTypes, SameView
<1>4. QED
  BY <1>2, <1>3, StoreKept DEF e2

LEMMA CursorHolds ==
  ASSUME NEW l, NEW h \in Nat, NEW e, NEW w, NEW m, NEW o, NEW n, NEW gone,
         StoreHolds(l, h, e, w, m, o, n, gone), NEW position \in 0..h
  PROVE  StoreHolds(l, h, OnCursorIn(e, position), w, m, o, n, gone)
BY AdvanceHolds DEF OnCursorIn

\* The slices whose chain an edit of some breaks, and what a run of them applies.
BrokenBy(e, edits) == {edit.slice : edit \in {x \in edits : Unchained(e, x)}}
FreshOf(e, edits, s) == {x \in edits : x.slice = s /\ x.seq > e.seqs[s]}
AppliedEdits(e, edits) ==
  [e EXCEPT !.base = [s \in Slices |-> AfterRun(e.base[s], FreshOf(e, edits, s))],
            !.seqs = [s \in Slices |-> SeqAfterRun(e.seqs[s], FreshOf(e, edits, s))]]
ParkedEdits(e, position, edits) ==
  [SpawnIn(e, {{s} : s \in BrokenBy(e, edits)}, position) EXCEPT !.park = e.park \cup edits]

LEMMA OnEditsIs ==
  ASSUME NEW e, NEW position, NEW edits
  PROVE  OnEditsIn(e, position, edits) =
           IF Frozen(e) \/ BrokenBy(e, edits) # {}
           THEN AdvanceCursorIn(ParkedEdits(e, position, edits), position, FALSE)
           ELSE AdvanceCursorIn(AppliedEdits(e, edits), position, TRUE)
BY Zenon DEF OnEditsIn, BrokenBy, FreshOf, AppliedEdits, ParkedEdits

LEMMA AppliedEditsIs ==
  ASSUME NEW e, IsStore(e), NEW edits
  PROVE  LET e2 == AppliedEdits(e, edits) IN
         /\ IsStore(e2) /\ SameView(e, e2)
         /\ e2.cursor = e.cursor /\ e2.applied = e.applied /\ e2.failed = e.failed
         /\ e2.backfills = e.backfills /\ e2.park = e.park
         /\ e2.base = [s \in Slices |-> AfterRun(e.base[s], FreshOf(e, edits, s))]
         /\ e2.seqs = [s \in Slices |-> SeqAfterRun(e.seqs[s], FreshOf(e, edits, s))]
BY DEF AppliedEdits, IsStore, SameView

LEMMA ParkedEditsIs ==
  ASSUME NEW e, IsStore(e), NEW position, NEW edits
  PROVE  LET e1 == SpawnIn(e, {{s} : s \in BrokenBy(e, edits)}, position)
         IN  SetParkIs(e1, e.park \cup edits, ParkedEdits(e, position, edits))
<1> DEFINE e1 == SpawnIn(e, {{s} : s \in BrokenBy(e, edits)}, position)
<1>1. IsStore(e1)
  BY SpawnIs DEF SameRest
<1>2. ParkedEdits(e, position, edits) = [e1 EXCEPT !.park = e.park \cup edits]
  BY Zenon DEF ParkedEdits
<1> HIDE DEF e1
<1>3. SetParkIs(e1, e.park \cup edits, ParkedEdits(e, position, edits))
  BY <1>1, <1>2 DEF SetParkIs, IsStore, SameView, SameBase
<1>4. QED
  BY <1>3 DEF e1

\* Edits park.
LEMMA ParkHolds ==
  ASSUME NEW l, NEW h, NEW e, NEW w, NEW m, NEW o, NEW n, NEW gone,
         StoreHolds(l, h, e, w, m, o, n, gone), NEW edits, \A edit \in edits : IsOf(l, h, edit),
         NEW e2, SetParkIs(e, e.park \cup edits, e2)
  PROVE  StoreHolds(l, h, e2, w, m, o, n, gone)
<1>1. EngineTypes(l, h, e2)
  <2>1. InFlight(e2) = InFlight(e)
    BY DEF InFlight, SetParkIs
  <2>2. \A edit \in e2.park : IsOf(l, h, edit)
    BY DEF SetParkIs, StoreHolds, EngineTypes
  <2>3. QED
    BY <2>1, <2>2 DEF StoreHolds, EngineTypes, SetParkIs, SameView, SameBase
<1>2. QED
  BY <1>1, StoreKept DEF SetParkIs

LEMMA EditsHold ==
  ASSUME NEW l, H!IsHistory(l), NEW h \in 0..Len(l), NEW e, NEW w, NEW m, NEW o, NEW n, NEW gone,
         StoreHolds(l, h, e, w, m, o, n, gone), NEW position \in 1..h, NEW edits,
         \A edit \in edits : IsOf(l, h, edit)
  PROVE  StoreHolds(l, h, OnEditsIn(e, position, edits), w, m, o, n, gone)
<1>0. h \in Nat /\ position \in 0..h /\ position \in 0..h + 1
  BY DEF H!IsHistory
<1>1. EngineTypes(l, h, e) /\ IsStore(e)
  BY DEF StoreHolds, EngineTypes
<1>2. \A edit \in edits : edit.slice \in Slices /\ edit.seq \in 0..h
  BY <1>0, EditTypes
<1>3. CASE Frozen(e) \/ BrokenBy(e, edits) # {}
  <2> DEFINE sels == {{s} : s \in BrokenBy(e, edits)}
             e1 == SpawnIn(e, sels, position)
             e2 == ParkedEdits(e, position, edits)
  <2>1. sels \in SUBSET Selectors
    <3>1. \A s \in Slices : {s} \in Selectors
      BY DEF Selectors
    <3>2. BrokenBy(e, edits) \in SUBSET Slices
      BY <1>2 DEF BrokenBy
    <3>3. QED
      BY <3>1, <3>2
  <2>2. sels \cap InFlight(e) = {}
    <3>1. CASE Frozen(e)
      <4>1. BrokenBy(e, edits) = {}
        BY <3>1 DEF BrokenBy, Unchained
      <4>2. QED
        BY <4>1
    <3>2. CASE ~Frozen(e)
      BY <3>2 DEF Frozen
    <3>3. QED
      BY <3>1, <3>2
  <2> HIDE DEF sels
  <2>3. StoreHolds(l, h, e1, w, m, o, n, gone)
    BY <1>0, <2>1, <2>2, SpawnHolds
  <2>4. e1.park = e.park
    <3>1. SameRest(e, e1)
      BY <1>1, SpawnIs
    <3>2. QED
      BY <3>1 DEF SameRest
  <2>5. SetParkIs(e1, e.park \cup edits, e2)
    BY <1>1, ParkedEditsIs DEF sels
  <2> HIDE DEF e1, e2
  <2>6. StoreHolds(l, h, e2, w, m, o, n, gone)
    BY <2>3, <2>4, <2>5, ParkHolds
  <2>7. StoreHolds(l, h, AdvanceCursorIn(e2, position, FALSE), w, m, o, n, gone)
    BY <1>0, <2>6, AdvanceHolds
  <2>8. QED
    BY <1>3, <2>7, OnEditsIs DEF e2
<1>4. CASE ~(Frozen(e) \/ BrokenBy(e, edits) # {})
  <2> DEFINE e2 == AppliedEdits(e, edits)
  <2>1. /\ IsStore(e2) /\ SameView(e, e2)
        /\ e2.cursor = e.cursor /\ e2.applied = e.applied /\ e2.failed = e.failed
        /\ e2.backfills = e.backfills /\ e2.park = e.park
        /\ e2.base = [s \in Slices |-> AfterRun(e.base[s], FreshOf(e, edits, s))]
        /\ e2.seqs = [s \in Slices |-> SeqAfterRun(e.seqs[s], FreshOf(e, edits, s))]
    BY <1>1, AppliedEditsIs
  <2> HIDE DEF e2
  <2>2. \A s \in Slices : /\ AfterRun(e.base[s], FreshOf(e, edits, s)) \in SUBSET Nat
                          /\ SeqAfterRun(e.seqs[s], FreshOf(e, edits, s)) \in 0..h
    <3> TAKE s \in Slices
    <3>1. \A edit \in FreshOf(e, edits, s) : edit.seq \in 0..h
      BY <1>2 DEF FreshOf
    <3>2. e.seqs[s] \in 0..h /\ e.base[s] \in SUBSET Nat
      BY <1>1 DEF EngineTypes
    <3>3. AfterRun(e.base[s], FreshOf(e, edits, s)) \in SUBSET Nat
      BY <1>0, <3>1, <3>2, AfterRunType
    <3>4. SeqAfterRun(e.seqs[s], FreshOf(e, edits, s)) \in 0..h
      BY <1>0, <3>1, <3>2, SeqAfterRunType
    <3>5. QED
      BY <3>3, <3>4
  <2>3. e2.seqs \in [Slices -> 0..h] /\ e2.base \in [Slices -> SUBSET Nat]
    BY <2>1, <2>2
  <2>4. InFlight(e2) = InFlight(e)
    BY <2>1 DEF InFlight
  <2>5. EngineTypes(l, h, e2)
    BY <1>1, <2>1, <2>3, <2>4 DEF EngineTypes, SameView
  <2>6. StoreHolds(l, h, e2, w, m, o, n, gone)
    BY <2>1, <2>5, StoreKept
  <2>7. StoreHolds(l, h, AdvanceCursorIn(e2, position, TRUE), w, m, o, n, gone)
    BY <1>0, <2>6, AdvanceHolds
  <2>8. QED
    BY <1>4, <2>7, OnEditsIs DEF e2
<1>5. QED
  BY <1>3, <1>4

-----------------------------------------------------------------------------
(* A view.                                                                 *)

\* What a view cancels, and what it starts.
CanceledBy(e, view) == {x \in InFlight(e) : ~CoveredBy(view.selectors, x)}
StartedBy(e, view) ==
  {sel \in view.selectors :
     /\ ~CoveredBy(InFlight(DropBackfillsIn(e, CanceledBy(e, view))), sel)
     /\ ~Accounted(e, sel)}
ViewedIn(e, view, position) ==
  Told(SpawnIn(DropBackfillsIn(e, CanceledBy(e, view)), Broadest(StartedBy(e, view)),
               Owes(position)),
       view, position)

LEMMA OnViewIs ==
  ASSUME NEW e, NEW view, NEW position
  PROVE  OnViewIn(e, view, position) =
           LET viewed == ViewedIn(e, view, position) IN
           IF Frozen(viewed) THEN viewed
           ELSE IF Frozen(e) THEN LandIn(viewed)
           ELSE DropSlicesIn(viewed, Unviewed(viewed))
BY Zenon DEF OnViewIn, CanceledBy, StartedBy, ViewedIn

LEMMA DropSlicesHolds ==
  ASSUME NEW l, NEW h \in Nat, NEW e, NEW w, NEW m, NEW o, NEW n, NEW gone,
         StoreHolds(l, h, e, w, m, o, n, gone), NEW slices,
         \A x \in InFlight(e) : x \cap slices = {}
  PROVE  StoreHolds(l, h, DropSlicesIn(e, slices), w, m, o, n, gone)
<1> DEFINE e2 == DropSlicesIn(e, slices)
<1>1. EngineTypes(l, h, e) /\ IsStore(e)
  BY DEF StoreHolds, EngineTypes
<1>2. /\ IsStore(e2) /\ SameView(e, e2)
      /\ e2.cursor = e.cursor /\ e2.applied = e.applied
      /\ e2.failed = e.failed /\ e2.backfills = e.backfills
      /\ e2.base = [s \in Slices |-> IF s \in slices THEN {} ELSE e.base[s]]
      /\ e2.seqs = [s \in Slices |-> IF s \in slices THEN 0 ELSE e.seqs[s]]
      /\ e2.park = {edit \in e.park : edit.slice \notin slices}
  BY <1>1, DropSlicesIs
<1> HIDE DEF e2
<1>3. EngineTypes(l, h, e2)
  <2>1. InFlight(e2) = InFlight(e)
    BY <1>2 DEF InFlight
  <2>2. \A s \in Slices : e.seqs[s] \in 0..h /\ e.base[s] \in SUBSET Nat
    BY <1>1 DEF EngineTypes
  <2>3. e2.seqs \in [Slices -> 0..h]
    BY <1>2, <2>2
  <2>4. e2.base \in [Slices -> SUBSET Nat]
    BY <1>2, <2>2
  <2>5. \A edit \in e2.park : IsOf(l, h, edit)
    BY <1>1, <1>2 DEF EngineTypes
  <2>6. QED
    BY <1>1, <1>2, <2>1, <2>3, <2>4, <2>5 DEF EngineTypes, SameView
<1>4. \A edit \in e.park : \A x \in InFlight(e) : edit.slice \in x => edit \in e2.park
  BY <1>2
<1>5. QED
  BY <1>2, <1>3, <1>4, StoreKept DEF e2

\* It leaves what it cancels gone.
LEMMA ViewedHolds ==
  ASSUME NEW l, NEW h \in Nat, NEW e, NEW w, NEW m, NEW o, NEW n, NEW gone,
         StoreHolds(l, h, e, w, m, o, n, gone), NEW view, IsView(view), NEW position \in 0..h
  PROVE  StoreHolds(l, h, ViewedIn(e, view, position), w, m, o, n, gone \cup CanceledBy(e, view))
<1> DEFINE D == CanceledBy(e, view)
           kept == DropBackfillsIn(e, D)
           new == Broadest(StartedBy(e, view))
           spawned == SpawnIn(kept, new, Owes(position))
           told == Told(spawned, view, position)
<1>1. StoreHolds(l, h, kept, w, m, o, n, gone \cup D)
  BY DropHolds
<1>2. new \in SUBSET Selectors
  BY DEF Broadest, StartedBy, IsView, ViewOf
<1>3. new \cap InFlight(kept) = {}
  BY DEF Broadest, StartedBy, CoveredBy
<1>4. Owes(position) \in 0..h + 1
  BY DEF Owes
<1> HIDE DEF D, kept, new
<1>5. StoreHolds(l, h, spawned, w, m, o, n, gone \cup D)
  BY <1>1, <1>2, <1>3, <1>4, SpawnHolds
<1> HIDE DEF spawned
<1>6. EngineTypes(l, h, spawned) /\ IsStore(spawned)
  BY <1>5 DEF StoreHolds, EngineTypes
<1>7. /\ IsStore(told) /\ told.view = view
      /\ told.cursor = IF spawned.cursor = -1 THEN position ELSE spawned.cursor
      /\ SameBase(spawned, told)
      /\ told.failed = spawned.failed /\ told.backfills = spawned.backfills
      /\ told.park = spawned.park
  BY <1>6, ToldIs
<1> HIDE DEF told
<1>8. EngineTypes(l, h, told)
  <2>1. InFlight(told) = InFlight(spawned)
    BY <1>7 DEF InFlight
  <2>2. told.cursor \in -1..h /\ told.applied \in -1..h /\ told.applied <= told.cursor
    BY <1>6, <1>7 DEF EngineTypes, SameBase
  <2>3. QED
    BY <1>6, <1>7, <2>1, <2>2 DEF EngineTypes, SameBase
<1>9. StoreHolds(l, h, told, w, m, o, n, gone \cup D)
  BY <1>5, <1>7, <1>8, StoreKept
<1>10. QED
  BY <1>9 DEF ViewedIn, told, spawned, new, kept, D

LEMMA ViewHolds ==
  ASSUME NEW l, H!IsHistory(l), NEW h \in 0..Len(l), NEW e, NEW w, NEW m, NEW o, NEW n, NEW gone,
         StoreHolds(l, h, e, w, m, o, n, gone), NEW view, IsView(view), NEW position \in 0..h
  PROVE  StoreHolds(l, h, OnViewIn(e, view, position), w, m, o, n, gone \cup CanceledBy(e, view))
<1>0. h \in Nat
  BY DEF H!IsHistory
<1> DEFINE viewed == ViewedIn(e, view, position)
           gone2 == gone \cup CanceledBy(e, view)
<1>1. StoreHolds(l, h, viewed, w, m, o, n, gone2)
  BY <1>0, ViewedHolds
<1>2. OnViewIn(e, view, position) =
        IF Frozen(viewed) THEN viewed
        ELSE IF Frozen(e) THEN LandIn(viewed)
        ELSE DropSlicesIn(viewed, Unviewed(viewed))
  BY OnViewIs
<1> HIDE DEF viewed, gone2
<1>3. CASE Frozen(viewed)
  BY <1>1, <1>2, <1>3 DEF gone2
<1>4. CASE ~Frozen(viewed) /\ Frozen(e)
  <2>1. AllReady(viewed)
    BY <1>4 DEF Frozen, AllReady
  <2>2. StoreHolds(l, h, LandIn(viewed), w, m, o, n, gone2)
    BY <1>1, <2>1, LandHolds
  <2>3. QED
    BY <1>2, <1>4, <2>2 DEF gone2
<1>5. CASE ~Frozen(viewed) /\ ~Frozen(e)
  <2>1. StoreHolds(l, h, DropSlicesIn(viewed, Unviewed(viewed)), w, m, o, n, gone2)
    BY <1>0, <1>1, <1>5, DropSlicesHolds DEF Frozen
  <2>2. QED
    BY <1>2, <1>5, <2>1 DEF gone2
<1>6. QED
  BY <1>3, <1>4, <1>5

LEMMA HandledHolds ==
  ASSUME NEW l, H!IsHistory(l), NEW h \in 0..Len(l), NEW state, NEW w, NEW m, NEW o, NEW n,
         StoreHolds(l, h, state.e, w, m, o, n, state.gone),
         NEW frame, FrameHolds(l, h, frame), frame.kind # "end"
  PROVE  LET state2 == Handled(state, frame) IN
         StoreHolds(l, h, state2.e, w, m, o, n, state2.gone)
<1>0. h \in Nat /\ 1..h \subseteq 0..h
  BY DEF H!IsHistory
<1> DEFINE e == state.e
           gone == state.gone
           e2 == Handled(state, frame).e
           gone2 == Handled(state, frame).gone
<1>1. CASE frame.kind = "edits"
  <2>1. e2 = OnEditsIn(e, frame.position, frame.edits)
        /\ gone2 = gone \cup {} \cup (InFlight(e) \ InFlight(e2))
    BY <1>1 DEF Handled
  <2>2. frame.position \in 1..h /\ \A edit \in frame.edits : IsOf(l, h, edit)
    BY <1>1 DEF FrameHolds
  <2>3. StoreHolds(l, h, e2, w, m, o, n, gone)
    BY <2>1, <2>2, EditsHold
  <2> HIDE DEF e2, gone2
  <2>4. QED
    BY <2>1, <2>3, GoneGrows DEF e2, gone2
<1>2. CASE frame.kind = "cursor"
  <2>1. e2 = OnCursorIn(e, frame.position)
        /\ gone2 = gone \cup {} \cup (InFlight(e) \ InFlight(e2))
    BY <1>2 DEF Handled
  <2>2. frame.position \in 0..h
    BY <1>2 DEF FrameHolds
  <2>3. StoreHolds(l, h, e2, w, m, o, n, gone)
    BY <1>0, <2>1, <2>2, CursorHolds
  <2> HIDE DEF e2, gone2
  <2>4. QED
    BY <2>1, <2>3, GoneGrows DEF e2, gone2
<1>3. CASE frame.kind = "view"
  <2>1. e2 = OnViewIn(e, frame.view, frame.position)
        /\ gone2 = gone \cup CanceledBy(e, frame.view) \cup (InFlight(e) \ InFlight(e2))
    BY <1>3 DEF Handled, CanceledBy
  <2>2. frame.position \in 0..h /\ IsView(frame.view)
    BY <1>3 DEF FrameHolds
  <2>3. StoreHolds(l, h, e2, w, m, o, n, gone \cup CanceledBy(e, frame.view))
    BY <2>1, <2>2, ViewHolds
  <2> HIDE DEF e2, gone2
  <2>4. QED
    BY <2>1, <2>3, GoneGrows DEF e2, gone2
<1>4. QED
  BY <1>1, <1>2, <1>3 DEF FrameHolds

-----------------------------------------------------------------------------
(* Outcomes, pushes, calls and boot.                                       *)

LEMMA SetBackfillIs ==
  ASSUME NEW e, IsStore(e), NEW sel, NEW b
  PROVE  LET e2 == [e EXCEPT !.backfills[sel] = b] IN
         /\ SameRest(e, e2) /\ e2.backfills = [e.backfills EXCEPT ![sel] = b]
BY DEF IsStore, SameRest, SameBase, SameView

\* One backfill changes, and the first of a queue is done.
LEMMA OneHolds ==
  ASSUME NEW l, NEW h \in Nat, NEW e, NEW w, NEW m, NEW o, NEW n, NEW gone,
         StoreHolds(l, h, e, w, m, o, n, gone), NEW sel \in InFlight(e), NEW b, NEW m2, NEW n2,
         NEW e2, IsStore(e2), e2.cursor = e.cursor, e2.failed = e.failed, SameView(e, e2),
         SameBase(e, e2), e2.backfills = [e.backfills EXCEPT ![sel] = b],
         \A edit \in e2.park : IsOf(l, h, edit), e.park \subseteq e2.park,
         DownloadHolds(l, h, b, sel, e2.park, w, Pending(w, m2, gone, sel),
                       o, Pending(o, n2, gone, sel)),
         \A x \in InFlight(e) \ {sel} : /\ Pending(w, m2, gone, x) = Pending(w, m, gone, x)
                                        /\ Pending(o, n2, gone, x) = Pending(o, n, gone, x),
         QueuesHold(e, w, m2, gone), QueuesHold(e, o, n2, gone)
  PROVE  StoreHolds(l, h, e2, w, m2, o, n2, gone)
<1>1. e.backfills = [x \in InFlight(e) |-> e.backfills[x]] /\ InFlight(e) \subseteq Selectors
  BY DEF StoreHolds, EngineTypes
<1>2. e2.backfills = [x \in InFlight(e) |-> IF x = sel THEN b ELSE e.backfills[x]]
  BY <1>1
<1>3. InFlight(e2) = InFlight(e)
  BY <1>2 DEF InFlight
<1>4. e2.backfills = [x \in InFlight(e2) |-> e2.backfills[x]]
  BY <1>2, <1>3
<1>5. EngineTypes(l, h, e2)
  BY <1>1, <1>3, <1>4 DEF StoreHolds, EngineTypes, SameView, SameBase
<1>6. ASSUME NEW x \in InFlight(e2)
      PROVE  DownloadHolds(l, h, e2.backfills[x], x, e2.park, w, Pending(w, m2, gone, x),
                           o, Pending(o, n2, gone, x))
  <2>1. CASE x = sel
    BY <1>2, <1>3, <2>1
  <2>2. CASE x # sel
    <3>1. DownloadHolds(l, h, e.backfills[x], x, e.park, w, Pending(w, m, gone, x),
                        o, Pending(o, n, gone, x))
      BY <1>3 DEF StoreHolds, DownloadsHold
    <3>2. DownloadHolds(l, h, e.backfills[x], x, e2.park, w, Pending(w, m, gone, x),
                        o, Pending(o, n, gone, x))
      BY <3>1, ParkKept
    <3>3. QED
      BY <1>2, <1>3, <2>2, <3>2
  <2>3. QED
    BY <2>1, <2>2
<1>7. QED
  BY <1>3, <1>5, <1>6 DEF StoreHolds, DownloadsHold, QueuesHold

\* The next of a queue: for the others, and for its own.
LEMMA NextQueued ==
  ASSUME NEW q, Len(q) \in Nat, NEW n \in Nat, n < Len(q), NEW gone, NEW e,
         QueuesHold(e, q, n, gone)
  PROVE  /\ QueuesHold(e, q, n + 1, gone)
         /\ Current(q[n + 1]) /\ q[n + 1].selector \notin gone => q[n + 1].selector \in InFlight(e)
<1>1. n + 1..Len(q) = {n + 1} \cup (n + 1 + 1..Len(q))
  OBVIOUS
<1>2. QED
  BY <1>1 DEF QueuesHold

LEMMA NextOther ==
  ASSUME NEW q, Len(q) \in Nat, NEW n \in Nat, n < Len(q), NEW gone, NEW x,
         ~Current(q[n + 1]) \/ q[n + 1].selector # x \/ x \in gone
  PROVE  Pending(q, n + 1, gone, x) = Pending(q, n, gone, x)
<1>1. n + 1..Len(q) = {n + 1} \cup (n + 1 + 1..Len(q))
  OBVIOUS
<1>2. QED
  BY <1>1 DEF Pending

LEMMA NextOwn ==
  ASSUME NEW q, Len(q) \in Nat, NEW n \in Nat, n < Len(q), NEW gone,
         Current(q[n + 1]), q[n + 1].selector \notin gone
  PROVE  LET x == q[n + 1].selector IN
         /\ n + 1 \in Pending(q, n, gone, x)
         /\ Pending(q, n + 1, gone, x) = Pending(q, n, gone, x) \ {n + 1}
<1>1. n + 1..Len(q) = {n + 1} \cup (n + 1 + 1..Len(q)) /\ n + 1 \notin n + 1 + 1..Len(q)
  OBVIOUS
<1>2. QED
  BY <1>1 DEF Pending

LEMMA SkipHolds ==
  ASSUME NEW l, NEW h, NEW e, NEW w, NEW m, NEW o, NEW n, NEW gone, NEW m2, NEW n2,
         StoreHolds(l, h, e, w, m, o, n, gone),
         \A x \in InFlight(e) : /\ Pending(w, m2, gone, x) = Pending(w, m, gone, x)
                                /\ Pending(o, n2, gone, x) = Pending(o, n, gone, x),
         QueuesHold(e, w, m2, gone), QueuesHold(e, o, n2, gone)
  PROVE  StoreHolds(l, h, e, w, m2, o, n2, gone)
BY DEF StoreHolds, DownloadsHold

LEMMA FailureHolds ==
  ASSUME NEW l, NEW h, NEW b, NEW x, NEW park, NEW w, NEW I, NEW o, NEW O,
         DownloadHolds(l, h, b, x, park, w, I, o, O), O # {}
  PROVE  b.ready = FALSE /\ DownloadHolds(l, h, [b EXCEPT !.retry = TRUE], x, park, w, I, o, {})
<1> DEFINE b2 == [b EXCEPT !.retry = TRUE]
<1>1. IsBackfill(b) /\ OutcomesHold(b, o, I, O) /\ ReadyHolds(b, I, O)
  BY DEF DownloadHolds
<1>2. /\ b2.until = b.until /\ b2.resume = b.resume /\ b2.header = b.header /\ b2.pages = b.pages
      /\ b2.ready = b.ready /\ b2.retry = TRUE /\ b2.asked = b.asked /\ b2.call = b.call
      /\ IsBackfill(b2)
  BY <1>1 DEF IsBackfill
<1>3. b.ready = FALSE /\ b.asked = FALSE /\ b.call = NoCall
  BY <1>1 DEF IsBackfill, OutcomesHold, ReadyHolds
<1> HIDE DEF b2
<1>4. ResumeHolds(l, h, b2, x, park) /\ QueueHolds(l, h, b2, x, w, I)
  <2>1. ResumeHolds(l, h, b, x, park) /\ QueueHolds(l, h, b, x, w, I)
    BY DEF DownloadHolds
  <2>2. QED
    BY <1>2, <2>1 DEF ResumeHolds, Blank, SnapshotHolds, TailHolds, QueueHolds, ItemHolds, BringsOn
<1>5. OutcomesHold(b2, o, I, {}) /\ ReadyHolds(b2, I, {})
  BY <1>2, <1>3 DEF OutcomesHold, ReadyHolds
<1>6. QED
  BY <1>2, <1>3, <1>4, <1>5 DEF DownloadHolds, b2

LEMMA StaleIs ==
  ASSUME NEW e, IsStore(e), NEW sel \in InFlight(e), IsBackfill(e.backfills[sel])
  PROVE  LET b == e.backfills[sel]
             b2 == [b EXCEPT !.pages = {},
                     !.resume = IF b.resume = NoResume THEN NoResume
                                ELSE [b.resume EXCEPT !.skip = 0, !.snapshotDone = FALSE,
                                                      !.tailDone = FALSE]]
             b3 == [b2 EXCEPT !.ready = FALSE, !.asked = TRUE]
         IN  /\ SameRest(e, StaleIn(e, sel))
             /\ StaleIn(e, sel).backfills = [e.backfills EXCEPT ![sel] = b3]
<1> DEFINE b == e.backfills[sel]
           b2 == [b EXCEPT !.pages = {},
                     !.resume = IF b.resume = NoResume THEN NoResume
                                ELSE [b.resume EXCEPT !.skip = 0, !.snapshotDone = FALSE,
                                                      !.tailDone = FALSE]]
           b3 == [b2 EXCEPT !.ready = FALSE, !.asked = TRUE]
           e1 == [e EXCEPT !.backfills[sel] = b2]
<1>1. StaleIn(e, sel) = StartBackfill(e1, sel)
  BY Zenon DEF StaleIn
<1> HIDE DEF b2
<1>2. SameRest(e, e1) /\ e1.backfills = [e.backfills EXCEPT ![sel] = b2]
  BY SetBackfillIs
<1>3. IsStore(e1) /\ e1.backfills[sel] = b2 /\ sel \in DOMAIN e1.backfills
  BY <1>2 DEF SameRest, InFlight
<1> HIDE DEF e1
<1>4. /\ SameRest(e1, StartBackfill(e1, sel))
      /\ StartBackfill(e1, sel).backfills = [e1.backfills EXCEPT ![sel] = b3]
  BY <1>3 DEF StartBackfill, IsStore, SameRest, SameBase, SameView
<1>5. [e1.backfills EXCEPT ![sel] = b3] = [e.backfills EXCEPT ![sel] = b3]
  BY <1>2
<1>6. SameRest(e, StartBackfill(e1, sel))
  BY <1>2, <1>4 DEF SameRest, SameBase, SameView
<1>7. QED
  BY <1>1, <1>4, <1>5, <1>6 DEF b2

LEMMA JudgedHolds ==
  ASSUME NEW l, NEW h \in Nat, NEW e, NEW w, NEW o, Len(o) \in Nat, NEW n \in Nat, n < Len(o),
         StoreHolds(l, h, e, w, 0, o, n, {})
  PROVE  StoreHolds(l, h, Judged(e, o[n + 1]), w, 0, o, n + 1, {})
<1> DEFINE sel == o[n + 1].selector
           b == e.backfills[sel]
           O == Pending(o, n, {}, sel)
           I == Pending(w, 0, {}, sel)
<1>1. QueuesHold(e, o, n, {}) /\ QueuesHold(e, o, n + 1, {}) /\ QueuesHold(e, w, 0, {})
  BY NextQueued DEF StoreHolds
<1>2. CASE ~Current(o[n + 1])
  <2>1. Judged(e, o[n + 1]) = e
    BY <1>2 DEF Judged
  <2>2. \A x : Pending(o, n + 1, {}, x) = Pending(o, n, {}, x)
    BY <1>2, NextOther
  <2>3. QED
    BY <1>1, <2>1, <2>2, SkipHolds
<1>3. CASE Current(o[n + 1])
  <2>1. /\ \A x : x # sel => Pending(o, n + 1, {}, x) = Pending(o, n, {}, x)
        /\ n + 1 \in O /\ Pending(o, n + 1, {}, sel) = O \ {n + 1}
    <3>1. ASSUME NEW x, x # sel
          PROVE  Pending(o, n + 1, {}, x) = Pending(o, n, {}, x)
      BY <3>1, NextOther
    <3>2. n + 1 \in Pending(o, n, {}, sel)
          /\ Pending(o, n + 1, {}, sel) = Pending(o, n, {}, sel) \ {n + 1}
      BY <1>3, NextOwn
    <3>3. QED
      BY <3>1, <3>2
  <2>2. sel \in InFlight(e)
    <3>1. n + 1 \in n + 1..Len(o)
      OBVIOUS
    <3>2. QED
      BY <1>1, <1>3, <3>1 DEF QueuesHold
  <2>3. DownloadHolds(l, h, b, sel, e.park, w, I, o, O)
    BY <2>2 DEF StoreHolds, DownloadsHold
  <2>4. Pending(o, n + 1, {}, sel) = {} /\ o[n + 1].item.kind \in {"stale", "failed"}
        /\ (o[n + 1].item.kind = "stale" => I = {})
    BY <2>1, <2>3 DEF DownloadHolds, OutcomesHold
  <2>5. IsStore(e) /\ IsBackfill(b) /\ \A edit \in e.park : IsOf(l, h, edit)
    BY <2>3 DEF StoreHolds, EngineTypes, DownloadHolds
  <2> HIDE DEF sel
  <2>6. CASE o[n + 1].item.kind = "stale"
    <3> DEFINE e2 == StaleIn(e, sel)
               b2 == [b EXCEPT !.pages = {},
                     !.resume = IF b.resume = NoResume THEN NoResume
                                ELSE [b.resume EXCEPT !.skip = 0, !.snapshotDone = FALSE,
                                                      !.tailDone = FALSE]]
               b3 == [b2 EXCEPT !.ready = FALSE, !.asked = TRUE]
    <3>1. Judged(e, o[n + 1]) = e2
      BY <1>3, <2>6 DEF Judged, sel
    <3>2. SameRest(e, e2) /\ e2.backfills = [e.backfills EXCEPT ![sel] = b3]
      BY <2>2, <2>5, StaleIs
    <3>3. DownloadHolds(l, h, b3, sel, e.park, w, I, o, {})
      BY <2>1, <2>3, <2>4, <2>6, StaleHolds
    <3> HIDE DEF e2, b3
    <3>4. e2.park = e.park /\ IsStore(e2) /\ e2.cursor = e.cursor /\ e2.failed = e.failed
          /\ SameView(e, e2) /\ SameBase(e, e2)
      BY <3>2 DEF SameRest
    <3>5. StoreHolds(l, h, e2, w, 0, o, n + 1, {})
      <4>1. /\ \A edit \in e2.park : IsOf(l, h, edit)
            /\ e.park \subseteq e2.park
        BY <2>5, <3>4
      <4>2. DownloadHolds(l, h, b3, sel, e2.park, w, Pending(w, 0, {}, sel),
                          o, Pending(o, n + 1, {}, sel))
        BY <2>4, <3>3, <3>4
      <4>3. \A x \in InFlight(e) \ {sel} : /\ Pending(w, 0, {}, x) = Pending(w, 0, {}, x)
                                          /\ Pending(o, n + 1, {}, x) = Pending(o, n, {}, x)
        BY <2>1
      <4>4. e2.backfills = [e.backfills EXCEPT ![sel] = b3]
        BY <3>2
      <4> HIDE DEF b, O, I
      <4>5. QED
        BY <1>1, <2>2, <3>4, <4>1, <4>2, <4>3, <4>4, OneHolds
    <3>6. QED
      BY <3>1, <3>5
  <2>7. CASE o[n + 1].item.kind = "failed"
    <3> DEFINE b2 == [b EXCEPT !.retry = TRUE]
               e2 == [e EXCEPT !.backfills[sel] = b2]
    <3>1. b.ready = FALSE /\ DownloadHolds(l, h, b2, sel, e.park, w, I, o, {})
      BY <2>1, <2>3, FailureHolds
    <3>2. Judged(e, o[n + 1]) = e2
      <4>1. Judged(e, o[n + 1]) = FailureIn(e, sel)
        BY <1>3, <2>7 DEF Judged, sel
      <4>2. QED
        BY <2>5, <3>1, <4>1 DEF FailureIn
    <3> HIDE DEF b2
    <3>3. SameRest(e, e2) /\ e2.backfills = [e.backfills EXCEPT ![sel] = b2]
      BY <2>5, SetBackfillIs
    <3> HIDE DEF e2
    <3>4. e2.park = e.park /\ IsStore(e2) /\ e2.cursor = e.cursor /\ e2.failed = e.failed
          /\ SameView(e, e2) /\ SameBase(e, e2)
      BY <3>3 DEF SameRest
    <3>5. StoreHolds(l, h, e2, w, 0, o, n + 1, {})
      <4>1. /\ \A edit \in e2.park : IsOf(l, h, edit)
            /\ e.park \subseteq e2.park
        BY <2>5, <3>4
      <4>2. DownloadHolds(l, h, b2, sel, e2.park, w, Pending(w, 0, {}, sel),
                          o, Pending(o, n + 1, {}, sel))
        BY <2>4, <3>1, <3>4
      <4>3. \A x \in InFlight(e) \ {sel} : /\ Pending(w, 0, {}, x) = Pending(w, 0, {}, x)
                                          /\ Pending(o, n + 1, {}, x) = Pending(o, n, {}, x)
        BY <2>1
      <4>4. e2.backfills = [e.backfills EXCEPT ![sel] = b2]
        BY <3>3
      <4> HIDE DEF b, O, I
      <4>5. QED
        BY <1>1, <2>2, <3>4, <4>1, <4>2, <4>3, <4>4, OneHolds
    <3>6. QED
      BY <3>2, <3>5
  <2>8. QED
    BY <2>4, <2>6, <2>7
<1>4. QED
  BY <1>2, <1>3

\* What a push leaves of a backfill, and of the edits parked.
PushedEntry(b, item) ==
  LET entry == Parked(b, item) IN
  [entry EXCEPT !.ready = entry.ready \/ (entry.resume.snapshotDone /\ entry.resume.tailDone)]
EditsOf(item) == IF item.kind = "edits" THEN item.edits ELSE {}

PushedInto(e, sel, item, e2) ==
  /\ IsStore(e2) /\ e2.cursor = e.cursor /\ e2.failed = e.failed
  /\ SameView(e, e2) /\ SameBase(e, e2)
  /\ e2.backfills = [e.backfills EXCEPT ![sel] = PushedEntry(e.backfills[sel], item)]
  /\ e2.park = e.park \cup EditsOf(item)

LEMMA ParkPushIs ==
  ASSUME NEW e, IsStore(e), NEW sel, NEW item,
         item.kind = "header" \/ e.backfills[sel].resume # NoResume
  PROVE  PushedInto(e, sel, item, ParkPushIn(e, sel, item))
<1> DEFINE b == PushedEntry(e.backfills[sel], item)
<1>1. ParkPushIn(e, sel, item) = [e EXCEPT !.backfills[sel] = b, !.park = e.park \cup EditsOf(item)]
  BY DEF ParkPushIn, PushedEntry, EditsOf
<1> HIDE DEF b
<1>2. LET e2 == [e EXCEPT !.backfills[sel] = b, !.park = e.park \cup EditsOf(item)] IN
      /\ IsStore(e2) /\ e2.cursor = e.cursor /\ e2.failed = e.failed
      /\ SameView(e, e2) /\ SameBase(e, e2)
      /\ e2.backfills = [e.backfills EXCEPT ![sel] = b]
      /\ e2.park = e.park \cup EditsOf(item)
  BY DEF IsStore, SameView, SameBase
<1>3. QED
  BY <1>1, <1>2 DEF b, PushedInto

LEMMA PushedEntryHolds ==
  ASSUME NEW l, H!IsHistory(l), NEW h \in 0..Len(l), NEW b, NEW x \in Selectors, NEW park, NEW w,
         NEW I, NEW o, NEW j \in I, DownloadHolds(l, h, b, x, park, w, I, o, {})
  PROVE  LET item == w[j].item IN
         /\ item.kind # "header" => b.resume # NoResume
         /\ item.kind = "edits" => \A edit \in item.edits : IsOf(l, h, edit)
         /\ DownloadHolds(l, h, PushedEntry(b, item), x, park \cup EditsOf(item),
                          w, I \ {j}, o, {})
BY ParkedHolds DEF PushedEntry, EditsOf

LEMMA PushedHolds ==
  ASSUME NEW l, H!IsHistory(l), NEW h \in 0..Len(l), NEW e, NEW w, NEW o,
         Len(w) \in Nat, NEW m \in Nat, m < Len(w), Len(o) = 0,
         StoreHolds(l, h, e, w, m, o, 0, {})
  PROVE  StoreHolds(l, h, Pushed(e, w[m + 1]), w, m + 1, o, 0, {})
<1> DEFINE sel == w[m + 1].selector
           item == w[m + 1].item
           b == e.backfills[sel]
           I == Pending(w, m, {}, sel)
<1>0. h \in Nat
  BY DEF H!IsHistory
<1>1. QueuesHold(e, w, m, {}) /\ QueuesHold(e, w, m + 1, {}) /\ QueuesHold(e, o, 0, {})
  BY NextQueued DEF StoreHolds
<1>2. CASE ~Current(w[m + 1])
  <2>1. Pushed(e, w[m + 1]) = e
    BY <1>2 DEF Pushed
  <2>2. \A x : Pending(w, m + 1, {}, x) = Pending(w, m, {}, x)
    BY <1>2, NextOther
  <2>3. QED
    BY <1>1, <2>1, <2>2, SkipHolds
<1>3. CASE Current(w[m + 1])
  <2>1. /\ \A x : x # sel => Pending(w, m + 1, {}, x) = Pending(w, m, {}, x)
        /\ m + 1 \in I /\ Pending(w, m + 1, {}, sel) = I \ {m + 1}
    <3>1. ASSUME NEW x, x # sel
          PROVE  Pending(w, m + 1, {}, x) = Pending(w, m, {}, x)
      BY <3>1, NextOther
    <3>2. m + 1 \in Pending(w, m, {}, sel)
          /\ Pending(w, m + 1, {}, sel) = Pending(w, m, {}, sel) \ {m + 1}
      BY <1>3, NextOwn
    <3>3. QED
      BY <3>1, <3>2
  <2>2. sel \in InFlight(e) /\ sel \in Selectors
    <3>1. m + 1 \in m + 1..Len(w)
      OBVIOUS
    <3>2. sel \in InFlight(e)
      BY <1>1, <1>3, <3>1 DEF QueuesHold
    <3>3. QED
      BY <3>2 DEF StoreHolds, EngineTypes
  <2>3. \A x : Pending(o, 0, {}, x) = {}
    BY DEF Pending
  <2>4. DownloadHolds(l, h, b, sel, e.park, w, I, o, {})
    <3>1. DownloadHolds(l, h, b, sel, e.park, w, I, o, Pending(o, 0, {}, sel))
      BY <2>2 DEF StoreHolds, DownloadsHold
    <3>2. QED
      BY <2>3, <3>1
  <2>5. IsStore(e) /\ \A edit \in e.park : IsOf(l, h, edit)
    BY DEF StoreHolds, EngineTypes
  <2> DEFINE b2 == PushedEntry(b, item)
             e2 == Pushed(e, w[m + 1])
  <2> HIDE DEF I
  <2>6. /\ item.kind # "header" => b.resume # NoResume
        /\ item.kind = "edits" => \A edit \in item.edits : IsOf(l, h, edit)
        /\ DownloadHolds(l, h, b2, sel, e.park \cup EditsOf(item), w, I \ {m + 1}, o, {})
    <3>1. PICK j \in I : j = m + 1
      BY <2>1
    <3>2. w[j] = w[m + 1]
      BY <3>1
    <3>3. /\ w[j].item.kind # "header" => b.resume # NoResume
          /\ w[j].item.kind = "edits" => \A edit \in w[j].item.edits : IsOf(l, h, edit)
          /\ DownloadHolds(l, h, PushedEntry(b, w[j].item), sel,
                           e.park \cup EditsOf(w[j].item), w, I \ {j}, o, {})
      <4> HIDE DEF b, sel
      <4>1. QED
        BY <2>2, <2>4, PushedEntryHolds
    <3>4. QED
      BY <3>1, <3>2, <3>3
  <2>7. e2 = ParkPushIn(e, sel, item)
    BY <1>3 DEF Pushed
  <2>8. /\ IsStore(e2) /\ e2.cursor = e.cursor /\ e2.failed = e.failed
        /\ SameView(e, e2) /\ SameBase(e, e2)
        /\ e2.backfills = [e.backfills EXCEPT ![sel] = b2]
        /\ e2.park = e.park \cup EditsOf(item)
    <3>1. item.kind = "header" \/ e.backfills[sel].resume # NoResume
      BY <2>6
    <3>2. PushedInto(e, sel, item, ParkPushIn(e, sel, item))
      <4> HIDE DEF sel, item
      <4>1. QED
        BY <2>5, <3>1, ParkPushIs
    <3>3. PushedInto(e, sel, item, e2)
      BY <2>7, <3>2
    <3> HIDE DEF e2
    <3>4. QED
      BY <3>3 DEF PushedInto
  <2> HIDE DEF e2, b2
  <2>9. \A edit \in e2.park : IsOf(l, h, edit)
    BY <2>5, <2>6, <2>8 DEF EditsOf
  <2>10. e.park \subseteq e2.park
    BY <2>8
  <2>11. DownloadHolds(l, h, b2, sel, e2.park, w, Pending(w, m + 1, {}, sel), o, Pending(o, 0, {}, sel))
    BY <2>1, <2>3, <2>6, <2>8
  <2>12. \A x \in InFlight(e) \ {sel} : /\ Pending(w, m + 1, {}, x) = Pending(w, m, {}, x)
                                        /\ Pending(o, 0, {}, x) = Pending(o, 0, {}, x)
    BY <2>1
  <2>13. StoreHolds(l, h, e2, w, m + 1, o, 0, {})
    <3> HIDE DEF item
    <3>1. PICK x : x = sel
      OBVIOUS
    <3>2. PICK k : k = m + 1
      OBVIOUS
    <3> DEFINE c == b2
    <3> HIDE DEF c
    <3>3. e2.backfills = [e.backfills EXCEPT ![x] = c]
      BY <2>8, <3>1 DEF c
    <3>4. IsStore(e2) /\ e2.cursor = e.cursor /\ e2.failed = e.failed
          /\ SameView(e, e2) /\ SameBase(e, e2)
      BY <2>8
    <3>5. DownloadHolds(l, h, c, x, e2.park, w, Pending(w, k, {}, x), o, Pending(o, 0, {}, x))
      BY <2>11, <3>1, <3>2 DEF c
    <3>6. \A y \in InFlight(e) \ {x} : /\ Pending(w, k, {}, y) = Pending(w, m, {}, y)
                                      /\ Pending(o, 0, {}, y) = Pending(o, 0, {}, y)
      BY <2>12, <3>1, <3>2
    <3>7. QueuesHold(e, w, k, {}) /\ QueuesHold(e, o, 0, {}) /\ x \in InFlight(e)
      BY <1>1, <2>2, <3>1, <3>2
    <3>8. StoreHolds(l, h, e2, w, k, o, 0, {})
      <4> HIDE DEF sel, b
      <4>1. QED
        BY <1>0, <2>9, <2>10, <3>3, <3>4, <3>5, <3>6, <3>7, OneHolds
    <3>9. QED
      BY <3>2, <3>8
  <2>14. QED
    BY <2>13 DEF e2
<1>4. QED
  BY <1>2, <1>3

-----------------------------------------------------------------------------
(* Calls and boot.                                                         *)

\* A backfill whose call starts, if it was asked for and there is a connection.
StartedEntry(b, c) ==
  [b EXCEPT !.asked = FALSE, !.call = IF b.asked /\ c THEN NewCall(b.resume) ELSE b.call]

LEMMA StartIs ==
  ASSUME NEW e, IsStore(e), NEW c
  PROVE  LET e2 == StartCalls(e, c) IN
         /\ SameRest(e, e2) /\ InFlight(e2) = InFlight(e)
         /\ e2.backfills = [x \in InFlight(e) |-> StartedEntry(e.backfills[x], c)]
<1> DEFINE bs == [x \in InFlight(e) |-> StartedEntry(e.backfills[x], c)]
<1>1. DOMAIN bs = InFlight(e)
  OBVIOUS
<1>2. StartCalls(e, c) = [e EXCEPT !.backfills = bs]
  BY Zenon DEF StartCalls, StartedEntry
<1> HIDE DEF bs
<1>3. SameRest(e, [e EXCEPT !.backfills = bs]) /\ [e EXCEPT !.backfills = bs].backfills = bs
  BY DEF IsStore, SameRest, SameBase, SameView
<1>4. QED
  BY <1>1, <1>2, <1>3 DEF bs, InFlight

LEMMA StartHolds ==
  ASSUME NEW l, NEW h \in Nat, NEW e, NEW w, NEW m, NEW o, NEW n, NEW gone,
         StoreHolds(l, h, e, w, m, o, n, gone), NEW c \in BOOLEAN
  PROVE  StoreHolds(l, h, StartCalls(e, c), w, m, o, n, gone) /\ AskedNone(StartCalls(e, c))
<1> DEFINE e2 == StartCalls(e, c)
<1>1. EngineTypes(l, h, e) /\ IsStore(e)
  BY DEF StoreHolds, EngineTypes
<1>2. /\ SameRest(e, e2) /\ InFlight(e2) = InFlight(e)
      /\ e2.backfills = [x \in InFlight(e) |-> StartedEntry(e.backfills[x], c)]
  BY <1>1, StartIs
<1>3. ASSUME NEW x \in InFlight(e)
      PROVE  /\ DownloadHolds(l, h, StartedEntry(e.backfills[x], c), x, e.park,
                              w, Pending(w, m, gone, x), o, Pending(o, n, gone, x))
             /\ StartedEntry(e.backfills[x], c).asked = FALSE
  <2>1. DownloadHolds(l, h, e.backfills[x], x, e.park, w, Pending(w, m, gone, x),
                      o, Pending(o, n, gone, x))
    BY DEF StoreHolds, DownloadsHold
  <2>2. QED
    BY <2>1, StartedHolds DEF StartedEntry
<1> HIDE DEF e2
<1>4. EngineTypes(l, h, e2)
  <2>1. e2.backfills = [x \in InFlight(e2) |-> e2.backfills[x]]
    BY <1>2
  <2>2. InFlight(e2) \subseteq Selectors
    BY <1>1, <1>2 DEF EngineTypes
  <2>3. QED
    BY <1>1, <1>2, <2>1, <2>2, RestTypes
<1>5. e2.park = e.park
  BY <1>2 DEF SameRest
<1>6. DownloadsHold(l, h, e2, w, m, o, n, gone) /\ AskedNone(e2)
  BY <1>2, <1>3, <1>5 DEF DownloadsHold, AskedNone
<1>7. QED
  BY <1>2, <1>4, <1>6 DEF StoreHolds, QueuesHold, e2

\* Backfills that go on each on its own, without calls or what they queued.
LEMMA CalmStoreHolds ==
  ASSUME NEW l, NEW h \in Nat, NEW e, NEW w, NEW m, NEW o, NEW n, NEW gone,
         StoreHolds(l, h, e, w, m, o, n, gone), NEW e2, SameRest(e, e2),
         InFlight(e2) = InFlight(e), e2.backfills = [x \in InFlight(e) |-> e2.backfills[x]],
         NEW w2, NEW o2,
         \A x \in InFlight(e) : DownloadHolds(l, h, e2.backfills[x], x, e.park, w2, {}, o2, {}),
         \A x : Pending(w2, 0, {}, x) = {} /\ Pending(o2, 0, {}, x) = {},
         QueuesHold(e, w2, 0, {}), QueuesHold(e, o2, 0, {})
  PROVE  StoreHolds(l, h, e2, w2, 0, o2, 0, {})
<1>1. EngineTypes(l, h, e) /\ IsStore(e)
  BY DEF StoreHolds, EngineTypes
<1>2. EngineTypes(l, h, e2)
  <2>1. e2.backfills = [x \in InFlight(e2) |-> e2.backfills[x]]
    OBVIOUS
  <2>2. InFlight(e2) \subseteq Selectors
    BY <1>1 DEF EngineTypes
  <2>3. QED
    BY <1>1, <2>1, <2>2, RestTypes
<1>3. e2.park = e.park
  BY DEF SameRest
<1>4. DownloadsHold(l, h, e2, w2, 0, o2, 0, {})
  BY <1>3 DEF DownloadsHold
<1>5. QED
  BY <1>2, <1>4 DEF StoreHolds, QueuesHold

\* Queues that have nothing count nothing as gone.
LEMMA NothingGone ==
  ASSUME NEW l, NEW h, NEW e, NEW gone, StoreHolds(l, h, e, <<>>, 0, <<>>, 0, gone)
  PROVE  StoreHolds(l, h, e, <<>>, 0, <<>>, 0, {})
<1>1. \A x : Pending(<<>>, 0, {}, x) = {} /\ Pending(<<>>, 0, gone, x) = {}
  BY DEF Pending
<1>2. QueuesHold(e, <<>>, 0, {})
  BY DEF QueuesHold
<1>3. QED
  BY <1>1, <1>2 DEF StoreHolds, DownloadsHold

\* What the disk gives of a backfill.
LoadedEntry(b) ==
  [b EXCEPT !.ready = b.resume # NoResume /\ b.resume.snapshotDone /\ b.resume.tailDone,
            !.retry = FALSE, !.asked = FALSE, !.call = NoCall]

LEMMA LoadedIs ==
  ASSUME NEW e, IsStore(e)
  PROVE  LET e2 == Loaded(e) IN
         /\ SameRest(e, e2) /\ InFlight(e2) = InFlight(e)
         /\ e2.backfills = [x \in InFlight(e) |-> LoadedEntry(e.backfills[x])]
<1> DEFINE bs == [x \in InFlight(e) |-> LoadedEntry(e.backfills[x])]
<1>1. DOMAIN bs = InFlight(e)
  OBVIOUS
<1>2. Loaded(e) = [e EXCEPT !.backfills = bs]
  BY Zenon DEF Loaded, LoadedEntry
<1> HIDE DEF bs
<1>3. SameRest(e, [e EXCEPT !.backfills = bs]) /\ [e EXCEPT !.backfills = bs].backfills = bs
  BY DEF IsStore, SameRest, SameBase, SameView
<1>4. QED
  BY <1>1, <1>2, <1>3 DEF bs, InFlight

LEMMA LoadedHolds ==
  ASSUME NEW l, NEW h \in Nat, NEW e, NEW w, NEW m, NEW o, NEW n, NEW gone,
         StoreHolds(l, h, e, w, m, o, n, gone)
  PROVE  StoreHolds(l, h, Loaded(e), <<>>, 0, <<>>, 0, {})
<1> DEFINE e2 == Loaded(e)
<1>1. IsStore(e)
  BY DEF StoreHolds, EngineTypes
<1>2. /\ SameRest(e, e2) /\ InFlight(e2) = InFlight(e)
      /\ e2.backfills = [x \in InFlight(e) |-> LoadedEntry(e.backfills[x])]
  BY <1>1, LoadedIs
<1>3. ASSUME NEW x \in InFlight(e)
      PROVE  DownloadHolds(l, h, LoadedEntry(e.backfills[x]), x, e.park, <<>>, {}, <<>>, {})
  <2> DEFINE b == e.backfills[x]
             ready == b.resume # NoResume /\ b.resume.snapshotDone /\ b.resume.tailDone
  <2>1. DownloadHolds(l, h, b, x, e.park, w, Pending(w, m, gone, x), o, Pending(o, n, gone, x))
    BY DEF StoreHolds, DownloadsHold
  <2>2. ready \in BOOLEAN
    OBVIOUS
  <2>3. ready => b.resume # NoResume /\ b.resume.snapshotDone /\ b.resume.tailDone
    OBVIOUS
  <2> HIDE DEF ready, b
  <2>4. DownloadHolds(l, h, [b EXCEPT !.ready = ready, !.retry = FALSE, !.asked = FALSE,
                                      !.call = NoCall], x, e.park, <<>>, {}, <<>>, {})
    BY <2>1, <2>2, <2>3, CalmHolds
  <2>5. QED
    BY <2>4 DEF LoadedEntry, ready, b
<1> HIDE DEF e2
<1>4. \A x \in InFlight(e) : DownloadHolds(l, h, e2.backfills[x], x, e.park, <<>>, {}, <<>>, {})
  BY <1>2, <1>3
<1>5. \A x : Pending(<<>>, 0, {}, x) = {}
  BY DEF Pending
<1>6. QueuesHold(e, <<>>, 0, {})
  BY DEF QueuesHold
<1>7. e2.backfills = [x \in InFlight(e) |-> e2.backfills[x]]
  BY <1>2
<1>8. StoreHolds(l, h, e2, <<>>, 0, <<>>, 0, {})
  BY <1>2, <1>4, <1>5, <1>6, <1>7, CalmStoreHolds
<1>9. QED
  BY <1>8 DEF e2

\* What a start keeps.
PurgedIn(e, ws) ==
  DropSlicesIn(DropBackfillsIn(Loaded(e), {x \in InFlight(e) : ~CoveredBy(ws, x)}),
               {s \in Slices : ~CoveredBy(ws, {s})})
ViewedAt(e, ws) ==
  LET purged == PurgedIn(e, ws) IN
  IF e.view = NoView THEN purged
  ELSE [purged EXCEPT !.view.selectors = {x \in e.view.selectors : CoveredBy(ws, x)}]

LEMMA InitializeIs ==
  ASSUME NEW e, NEW ws
  PROVE  InitializeIn(e, ws) = IF Frozen(e) THEN TryLandIn(ViewedAt(e, ws)) ELSE ViewedAt(e, ws)
BY Zenon DEF InitializeIn, ViewedAt, PurgedIn

LEMMA InitializeHolds ==
  ASSUME NEW l, H!IsHistory(l), NEW h \in 0..Len(l), NEW e, NEW w, NEW m, NEW o, NEW n, NEW gone,
         StoreHolds(l, h, e, w, m, o, n, gone), NEW ws
  PROVE  StoreHolds(l, h, InitializeIn(e, ws), <<>>, 0, <<>>, 0, {})
<1> DEFINE loaded == Loaded(e)
           sels == {x \in InFlight(e) : ~CoveredBy(ws, x)}
           kept == DropBackfillsIn(loaded, sels)
           slices == {s \in Slices : ~CoveredBy(ws, {s})}
           purged == PurgedIn(e, ws)
           viewed == ViewedAt(e, ws)
           selectors == {x \in e.view.selectors : CoveredBy(ws, x)}
<1>0. h \in Nat
  BY DEF H!IsHistory
<1>1. IsStore(e) /\ (e.view = NoView \/ IsView(e.view))
  BY DEF StoreHolds, EngineTypes
<1>2. SameRest(e, loaded) /\ InFlight(loaded) = InFlight(e)
  BY <1>1, LoadedIs
<1>3. StoreHolds(l, h, loaded, <<>>, 0, <<>>, 0, {})
  BY <1>0, LoadedHolds
<1>4. purged = DropSlicesIn(kept, slices)
  BY Zenon DEF PurgedIn
<1> HIDE DEF loaded, purged
<1>5. StoreHolds(l, h, kept, <<>>, 0, <<>>, 0, {})
  <2>1. StoreHolds(l, h, kept, <<>>, 0, <<>>, 0, {} \cup sels)
    BY <1>0, <1>3, DropHolds
  <2>2. QED
    BY <2>1, NothingGone
<1>6. SameRest(loaded, kept) /\ InFlight(kept) = InFlight(loaded) \ sels
  BY <1>2, DropIs DEF SameRest
<1>7. \A x \in InFlight(kept) : x \cap slices = {}
  BY <1>2, <1>6 DEF CoveredBy
<1> HIDE DEF kept, slices, sels
<1>8. StoreHolds(l, h, purged, <<>>, 0, <<>>, 0, {})
  BY <1>0, <1>4, <1>5, <1>7, DropSlicesHolds
<1>9. SameView(kept, purged) /\ IsStore(purged)
  BY <1>4, <1>6, DropSlicesIs DEF SameRest
<1>10. purged.view = e.view
  BY <1>2, <1>6, <1>9 DEF SameRest, SameView
<1>11. StoreHolds(l, h, viewed, <<>>, 0, <<>>, 0, {})
  <2>1. CASE e.view = NoView
    <3>1. viewed = purged
      BY <2>1 DEF ViewedAt, purged
    <3>2. QED
      BY <1>8, <3>1
  <2>2. CASE e.view # NoView
    <3>1. viewed = [purged EXCEPT !.view.selectors = selectors]
      BY <2>2 DEF ViewedAt, purged
    <3>2. selectors \in SUBSET Selectors /\ purged.view \in [token : SUBSET Selectors, selectors : SUBSET Selectors]
      BY <1>1, <1>10, <2>2 DEF IsView
    <3> HIDE DEF selectors, viewed
    <3>3. /\ IsStore(viewed) /\ viewed.cursor = purged.cursor /\ viewed.applied = purged.applied
          /\ viewed.failed = purged.failed /\ viewed.seqs = purged.seqs /\ viewed.base = purged.base
          /\ viewed.park = purged.park /\ viewed.backfills = purged.backfills
          /\ viewed.view = [purged.view EXCEPT !.selectors = selectors]
      BY <1>9, <3>1 DEF IsStore
    <3>4. IsView(viewed.view)
      BY <3>2, <3>3 DEF IsView
    <3>5. EngineTypes(l, h, viewed)
      BY <1>8, <3>3, <3>4 DEF StoreHolds, EngineTypes, InFlight
    <3>6. QED
      BY <1>8, <3>3, <3>5, StoreKept
  <2>3. QED
    BY <2>1, <2>2
<1> HIDE DEF viewed
<1>12. InitializeIn(e, ws) = IF Frozen(e) THEN TryLandIn(viewed) ELSE viewed
  BY InitializeIs DEF viewed
<1>13. StoreHolds(l, h, TryLandIn(viewed), <<>>, 0, <<>>, 0, {})
  BY <1>11, TryLandHolds
<1>14. QED
  BY <1>11, <1>12, <1>13

-----------------------------------------------------------------------------
(* The head moves on, and queues change.                                   *)

LEMMA ItemGrows ==
  ASSUME NEW l, H!IsHistory(l), NEW h \in 0..Len(l), NEW k \in h..Len(l), NEW b, NEW x \in Selectors,
         NEW item, ItemHolds(l, h, b, x, item), b.resume # NoResume => b.resume.from \in 0..h
  PROVE  ItemHolds(l, k, b, x, item)
<1>1. h \in Nat /\ k \in Nat /\ h <= k
  BY DEF H!IsHistory
<1>2. \A edit : IsOf(l, h, edit) => IsOf(l, k, edit) /\ edit.position \in 1..h
  BY <1>1, EditsStay, EditTypes
<1>3. \A s \in Slices, p \in Int : H!Readable(l, k, s, p) => H!Readable(l, h, s, p)
  BY <1>1, EditsStay
<1>4. x \subseteq Slices
  BY DEF Selectors
<1>5. ASSUME item.kind = "edits"
      PROVE  ItemHolds(l, k, b, x, item)
  <2>1. b.resume # NoResume /\ ~b.resume.tailDone /\ BringsOn(l, h, b, x, item.edits)
    BY <1>5 DEF ItemHolds
  <2>2. ASSUME NEW s \in x, NEW p \in b.resume.from + 1..k, H!Readable(l, k, s, p),
               NEW edit \in item.edits, p <= edit.position
        PROVE  EditOf(l, s, p) \in item.edits
    <3>1. p \in b.resume.from + 1..h
      BY <1>2, <2>1, <2>2 DEF BringsOn
    <3>2. H!Readable(l, h, s, p)
      BY <1>3, <1>4, <2>2, <3>1
    <3>3. QED
      BY <2>1, <2>2, <3>1, <3>2 DEF BringsOn
  <2>3. BringsOn(l, k, b, x, item.edits)
    BY <1>2, <2>1, <2>2 DEF BringsOn
  <2>4. QED
    BY <1>5, <2>1, <2>3 DEF ItemHolds
<1>6. ASSUME item.kind = "editsDone"
      PROVE  ItemHolds(l, k, b, x, item)
  <2>1. b.resume # NoResume /\ ~b.resume.tailDone
        /\ \A s \in x : HasNone(l, h, s, b.resume.from, b.until - 1)
    BY <1>6 DEF ItemHolds
  <2>2. \A s \in x : HasNone(l, k, s, b.resume.from, b.until - 1)
    BY <1>3, <1>4, <2>1 DEF HasNone
  <2>3. QED
    BY <1>6, <2>1, <2>2 DEF ItemHolds
<1>7. ASSUME item.kind \notin {"edits", "editsDone"}
      PROVE  ItemHolds(l, k, b, x, item)
  BY <1>1, <1>7 DEF ItemHolds
<1>8. QED
  BY <1>5, <1>6, <1>7

LEMMA DownloadGrows ==
  ASSUME NEW l, H!IsHistory(l), NEW h \in 0..Len(l), NEW k \in h..Len(l), NEW b, NEW x \in Selectors,
         NEW park, NEW w, NEW I, NEW o, NEW O, DownloadHolds(l, h, b, x, park, w, I, o, O)
  PROVE  DownloadHolds(l, k, b, x, park, w, I, o, O)
<1>1. h \in Nat /\ k \in Nat /\ h <= k
  BY DEF H!IsHistory
<1>2. \A s \in Slices, p \in Int : H!Readable(l, k, s, p) => H!Readable(l, h, s, p)
  BY <1>1, EditsStay
<1>3. x \subseteq Slices
  BY DEF Selectors
<1>4. IsBackfill(b) /\ b.until \in 0..h + 1 /\ b.until \in Int
  BY DEF DownloadHolds
<1>5. b.resume # NoResume => b.resume \in ResumeType2(h) /\ b.resume.from \in 0..h
                              /\ b.resume.position \in 0..h
  BY DEF DownloadHolds, ResumeHolds, ResumeType2
<1>6. ResumeHolds(l, k, b, x, park)
  <2>1. CASE b.resume = NoResume
    BY <2>1 DEF DownloadHolds, ResumeHolds
  <2>2. CASE b.resume # NoResume
    <3>1. SnapshotHolds(l, b, x, b.resume) /\ TailHolds(l, h, b, x, b.resume, park)
      BY <2>2 DEF DownloadHolds, ResumeHolds
    <3>2. TailHolds(l, k, b, x, b.resume, park)
      BY <1>2, <1>3, <3>1 DEF TailHolds, HasAll
    <3>3. b.resume \in ResumeType2(k)
      BY <1>1, <1>5, <2>2 DEF ResumeType2
    <3>4. QED
      BY <2>2, <3>1, <3>2, <3>3 DEF ResumeHolds
  <2>3. QED
    BY <2>1, <2>2
<1>7. QueueHolds(l, k, b, x, w, I)
  <2>1. QueueHolds(l, h, b, x, w, I)
    BY DEF DownloadHolds
  <2>2. \A i \in I : ItemHolds(l, k, b, x, w[i].item)
    BY <1>5, <2>1, ItemGrows DEF QueueHolds
  <2>3. QED
    BY <2>1, <2>2 DEF QueueHolds
<1>8. ASSUME b.call # NoCall
      PROVE  CallHolds(l, k, b, x, w, I)
  <2>1. CallHolds(l, h, b, x, w, I)
    BY <1>8 DEF DownloadHolds
  <2>2. b.call \in CallType2(k)
    BY <1>1, <2>1 DEF CallHolds, CallType2
  <2>3. ReadHolds(l, h, b, x, w, I) => ReadHolds(l, k, b, x, w, I)
    BY <1>2, <1>3 DEF ReadHolds
  <2>4. QED
    BY <2>1, <2>2, <2>3 DEF CallHolds
<1>9. b.until \in 0..k + 1
  BY <1>1, <1>4
<1>10. QED
  BY <1>4, <1>6, <1>7, <1>8, <1>9 DEF DownloadHolds

LEMMA StoreGrows ==
  ASSUME NEW l, H!IsHistory(l), NEW h \in 0..Len(l), NEW k \in h..Len(l), NEW e, NEW w, NEW m, NEW o,
         NEW n, NEW gone, StoreHolds(l, h, e, w, m, o, n, gone)
  PROVE  StoreHolds(l, k, e, w, m, o, n, gone)
<1>1. h \in Nat /\ k \in Nat /\ h <= k
  BY DEF H!IsHistory
<1>2. EngineTypes(l, h, e)
  BY DEF StoreHolds
<1>3. \A edit \in e.park : IsOf(l, k, edit)
  BY <1>1, <1>2, EditsStay DEF EngineTypes
<1>4. EngineTypes(l, k, e)
  BY <1>1, <1>2, <1>3 DEF EngineTypes
<1>5. \A x \in InFlight(e) : x \in Selectors
  BY <1>2 DEF EngineTypes
<1>6. DownloadsHold(l, k, e, w, m, o, n, gone)
  BY <1>5, DownloadGrows DEF StoreHolds, DownloadsHold
<1>7. QED
  BY <1>4, <1>6 DEF StoreHolds

LEMMA FrameGrows ==
  ASSUME NEW l, H!IsHistory(l), NEW h \in 0..Len(l), NEW k \in h..Len(l), NEW frame,
         FrameHolds(l, h, frame)
  PROVE  FrameHolds(l, k, frame)
<1>1. h \in Nat /\ k \in Nat /\ h <= k
  BY DEF H!IsHistory
<1>2. \A edit : IsOf(l, h, edit) => IsOf(l, k, edit)
  BY <1>1, EditsStay
<1>3. QED
  BY <1>1, <1>2 DEF FrameHolds

\* What is gone is tagged.
LEMMA TaggedIs ==
  ASSUME NEW q, NEW gone, Len(q) \in Nat, q = [i \in 1..Len(q) |-> q[i]],
         \A i \in DOMAIN q : IsQueued(q[i])
  PROVE  LET t == Tagged(q, gone) IN
         /\ t = [i \in 1..Len(t) |-> t[i]] /\ Len(t) = Len(q)
         /\ \A i \in 1..Len(q) :
              /\ IsQueued(t[i]) /\ t[i].item = q[i].item /\ t[i].selector = q[i].selector
              /\ Current(t[i]) <=> Current(q[i]) /\ q[i].selector \notin gone
<1> DEFINE t == Tagged(q, gone)
<1>1. t = [i \in 1..Len(q) |->
             [q[i] EXCEPT !.sameEntry = q[i].sameEntry /\ q[i].selector \notin gone]]
  BY DEF Tagged
<1> HIDE DEF t
<1>2. Len(t) = Len(q) /\ DOMAIN t = 1..Len(q)
  BY <1>1
<1>3. \A i \in 1..Len(q) :
        /\ IsQueued(t[i]) /\ t[i].item = q[i].item /\ t[i].selector = q[i].selector
        /\ Current(t[i]) <=> Current(q[i]) /\ q[i].selector \notin gone
  BY <1>1 DEF IsQueued, Current
<1>4. t = [i \in 1..Len(t) |-> t[i]]
  BY <1>1, <1>2
<1>5. QED
  BY <1>2, <1>3, <1>4 DEF t

LEMMA TaggedPending ==
  ASSUME NEW q, NEW gone, Len(q) \in Nat, q = [i \in 1..Len(q) |-> q[i]],
         \A i \in DOMAIN q : IsQueued(q[i])
  PROVE  /\ \A x : Pending(Tagged(q, gone), 0, {}, x) = Pending(q, 0, gone, x)
         /\ \A x : \A i \in Pending(q, 0, gone, x) : Tagged(q, gone)[i].item = q[i].item
         /\ \A e : QueuesHold(e, q, 0, gone) => QueuesHold(e, Tagged(q, gone), 0, {})
<1> DEFINE t == Tagged(q, gone)
<1>1. /\ Len(t) = Len(q)
      /\ \A i \in 1..Len(q) :
           /\ t[i].item = q[i].item /\ t[i].selector = q[i].selector
           /\ Current(t[i]) <=> Current(q[i]) /\ q[i].selector \notin gone
  BY TaggedIs
<1> HIDE DEF t
<1>2. QED
  BY <1>1 DEF Pending, QueuesHold, t

LEMMA TaggedHolds ==
  ASSUME NEW l, NEW h, NEW e, NEW w, NEW o, NEW gone, StoreHolds(l, h, e, w, 0, o, 0, gone),
         Len(w) \in Nat, w = [i \in 1..Len(w) |-> w[i]], \A i \in DOMAIN w : IsQueued(w[i]),
         Len(o) \in Nat, o = [i \in 1..Len(o) |-> o[i]], \A i \in DOMAIN o : IsQueued(o[i])
  PROVE  StoreHolds(l, h, e, Tagged(w, gone), 0, Tagged(o, gone), 0, {})
<1> DEFINE w2 == Tagged(w, gone)
           o2 == Tagged(o, gone)
<1>1. /\ \A x : Pending(w2, 0, {}, x) = Pending(w, 0, gone, x)
      /\ \A x : \A i \in Pending(w, 0, gone, x) : w2[i].item = w[i].item
      /\ QueuesHold(e, w, 0, gone) => QueuesHold(e, w2, 0, {})
  BY TaggedPending
<1>2. /\ \A x : Pending(o2, 0, {}, x) = Pending(o, 0, gone, x)
      /\ \A x : \A i \in Pending(o, 0, gone, x) : o2[i].item = o[i].item
      /\ QueuesHold(e, o, 0, gone) => QueuesHold(e, o2, 0, {})
  BY TaggedPending
<1> HIDE DEF w2, o2
<1>3. ASSUME NEW x \in InFlight(e)
      PROVE  DownloadHolds(l, h, e.backfills[x], x, e.park, w2, Pending(w2, 0, {}, x),
                           o2, Pending(o2, 0, {}, x))
  <2>1. DownloadHolds(l, h, e.backfills[x], x, e.park, w, Pending(w, 0, gone, x),
                      o, Pending(o, 0, gone, x))
    BY DEF StoreHolds, DownloadsHold
  <2>2. DownloadHolds(l, h, e.backfills[x], x, e.park, w2, Pending(w, 0, gone, x),
                      o2, Pending(o, 0, gone, x))
    BY <1>1, <1>2, <2>1, QueuesKept
  <2>3. QED
    BY <1>1, <1>2, <2>2
<1>4. QED
  BY <1>1, <1>2, <1>3 DEF StoreHolds, DownloadsHold, w2, o2

-----------------------------------------------------------------------------
(* A call goes on.                                                         *)

\* What is left to show of a download whose call goes on.
LEMMA CallGoesOn ==
  ASSUME NEW l, NEW h, NEW b, NEW x, NEW park, NEW w, NEW I, NEW o, NEW O,
         DownloadHolds(l, h, b, x, park, w, I, o, O),
         NEW call, NEW w2, NEW I2, NEW o2, NEW O2,
         QueueHolds(l, h, b, x, w2, I2),
         OutcomesHold([b EXCEPT !.call = call], o2, I2, O2),
         ReadyHolds([b EXCEPT !.call = call], I2, O2),
         call # NoCall => CallHolds(l, h, [b EXCEPT !.call = call], x, w2, I2)
  PROVE  DownloadHolds(l, h, [b EXCEPT !.call = call], x, park, w2, I2, o2, O2)
<1> DEFINE b2 == [b EXCEPT !.call = call]
<1>1. IsBackfill(b)
  BY DEF DownloadHolds
<1>2. /\ b2.until = b.until /\ b2.resume = b.resume /\ b2.header = b.header /\ b2.pages = b.pages
      /\ b2.ready = b.ready /\ b2.retry = b.retry /\ b2.asked = b.asked /\ b2.call = call
      /\ IsBackfill(b2)
  BY <1>1 DEF IsBackfill
<1> HIDE DEF b2
<1>3. ResumeHolds(l, h, b2, x, park)
  <2>1. ResumeHolds(l, h, b, x, park)
    BY DEF DownloadHolds
  <2>2. QED
    BY <1>2, <2>1 DEF ResumeHolds, Blank, SnapshotHolds, TailHolds
<1>4. QueueHolds(l, h, b2, x, w2, I2)
  BY <1>2 DEF QueueHolds, ItemHolds, BringsOn
<1>5. OutcomesHold(b2, o2, I2, O2) /\ ReadyHolds(b2, I2, O2)
      /\ (b2.call # NoCall => CallHolds(l, h, b2, x, w2, I2))
  BY <1>2 DEF b2
<1>6. b2.until \in 0..h + 1
  BY <1>2 DEF DownloadHolds
<1>7. QED
  BY <1>2, <1>3, <1>4, <1>5, <1>6 DEF DownloadHolds, b2

\* What a running call says of its download.
LEMMA RunningHolds ==
  ASSUME NEW l, NEW h, NEW b, NEW x, NEW park, NEW w, NEW I, NEW o, NEW O,
         DownloadHolds(l, h, b, x, park, w, I, o, O), b.call # NoCall
  PROVE  /\ IsBackfill(b) /\ b.until \in 0..h + 1 /\ O = {} /\ b.retry = FALSE
         /\ b.call \in CallType2(h) /\ CallHolds(l, h, b, x, w, I)
         /\ b.ready => b.call.blob = "done" /\ b.call.tail = "done"
         /\ QueueHolds(l, h, b, x, w, I)
         /\ b.resume # NoResume =>
              /\ b.resume \in ResumeType2(h)
              /\ SnapshotHolds(l, b, x, b.resume) /\ TailHolds(l, h, b, x, b.resume, park)
         /\ b.resume = NoResume => Blank(b)
<1>1. /\ IsBackfill(b) /\ OutcomesHold(b, o, I, O) /\ ReadyHolds(b, I, O) /\ CallHolds(l, h, b, x, w, I)
      /\ ResumeHolds(l, h, b, x, park)
  BY DEF DownloadHolds
<1>2. b.retry = FALSE /\ O = {}
  BY <1>1 DEF OutcomesHold, IsBackfill
<1>3. b.ready => b.call.blob = "done" /\ b.call.tail = "done"
  BY <1>1 DEF ReadyHolds
<1>4. QED
  BY <1>1, <1>2, <1>3 DEF DownloadHolds, CallHolds, ResumeHolds

\* A push more.
LEMMA QueueMore ==
  ASSUME NEW l, NEW h, NEW b, NEW x, NEW w, NEW I, QueueHolds(l, h, b, x, w, I),
         NEW w2, \A i \in I : w2[i].item = w[i].item, NEW j, j \notin I,
         ItemHolds(l, h, b, x, w2[j].item),
         \A i \in I : /\ w[i].item.kind # "header" /\ w2[j].item.kind # "header"
                      /\ ~(w[i].item.kind \in BlobItems /\ w2[j].item.kind \in BlobItems)
                      /\ ~(w[i].item.kind \in TailItems /\ w2[j].item.kind \in TailItems)
  PROVE  QueueHolds(l, h, b, x, w2, I \cup {j})
<1>1. \A i \in I : ItemHolds(l, h, b, x, w2[i].item)
  BY DEF QueueHolds
<1>2. \A i \in I \cup {j}, k \in I \cup {j} : i # k =>
       /\ ~(w2[i].item.kind \in BlobItems /\ w2[k].item.kind \in BlobItems)
       /\ ~(w2[i].item.kind \in TailItems /\ w2[k].item.kind \in TailItems)
       /\ w2[i].item.kind # "header"
  BY DEF QueueHolds
<1>3. QED
  BY <1>1, <1>2 DEF QueueHolds

-----------------------------------------------------------------------------
(* The snapshot request.                                                   *)

\* A call as its blob opens at a cut.
OpenedAt(call, c) ==
  [call EXCEPT !.blob = "body", !.position = c, !.tail = IF call.tailDone THEN "done" ELSE "read",
               !.from = Larger(call.from, c)]
LEMMA OpenedIs ==
  ASSUME NEW h \in Nat, NEW call \in CallType2(h), NEW c \in 0..h
  PROVE  LET call2 == OpenedAt(call, c) IN
         /\ call2.blob = "body" /\ call2.position = c /\ call2.skip = call.skip
         /\ call2.tail = IF call.tailDone THEN "done" ELSE "read"
         /\ call2.from = Larger(call.from, c) /\ call2 \in CallType2(h)
<1> DEFINE tail == IF call.tailDone THEN "done" ELSE "read"
           from == Larger(call.from, c)
<1>1. tail \in {"read", "done"} /\ from \in Nat
  BY DEF CallType2, Larger
<1>2. OpenedAt(call, c) = [call EXCEPT !.blob = "body", !.position = c, !.tail = tail, !.from = from]
  BY Zenon DEF OpenedAt
<1> HIDE DEF tail, from
<1>3. LET call2 == [call EXCEPT !.blob = "body", !.position = c, !.tail = tail, !.from = from] IN
      /\ call2.blob = "body" /\ call2.position = c /\ call2.skip = call.skip
      /\ call2.tail = tail /\ call2.from = from /\ call2 \in CallType2(h)
  BY <1>1 DEF CallType2
<1>4. QED
  BY <1>2, <1>3 DEF tail, from

\* The header of a blob.
HeaderIs(l, x, c, item) ==
  /\ item.kind = "header" /\ item.position = c /\ item.seqs = HeaderOf(l, x, c)
  /\ item.visible = LargestOf({0} \cup {H!ChangedAt(l, s, c) : s \in x})

LEMMA VisibleHolds ==
  ASSUME NEW l, NEW x, NEW c \in Nat
  PROVE  LET v == LargestOf({0} \cup {H!ChangedAt(l, s, c) : s \in x}) IN
         v \in 0..c /\ Quiet(l, x, v, c)
<1> DEFINE S == {0} \cup {H!ChangedAt(l, s, c) : s \in x}
           v == LargestOf(S)
<1>1. \A s \in x : H!ChangedAt(l, s, c) \in 0..c /\ Unedited(l, s, H!ChangedAt(l, s, c), c)
  BY ChangedAtHolds
<1>2. S \in SUBSET Nat /\ S # {} /\ \A y \in S : y <= c
  BY <1>1
<1> HIDE DEF S
<1>3. v \in S /\ \A y \in S : y <= v
  BY <1>2, LargestHolds
<1> HIDE DEF v
<1>4. v \in 0..c
  BY <1>2, <1>3
<1>5. ASSUME NEW s \in x, NEW p \in v + 1..c, p >= 1
      PROVE  ~H!IsEdit(l, s, p)
  <2>1. H!ChangedAt(l, s, c) \in S
    BY DEF S
  <2>2. H!ChangedAt(l, s, c) <= v
    BY <1>3, <2>1
  <2>3. p \in H!ChangedAt(l, s, c) + 1..c
    BY <1>1, <1>4, <2>2
  <2>4. QED
    BY <1>1, <1>5, <2>3 DEF Unedited
<1>6. QED
  BY <1>4, <1>5 DEF Quiet, v, S

LEMMA OpensFresh ==
  ASSUME NEW l, NEW h \in Nat, NEW b, NEW x, NEW park, NEW w, NEW I, NEW o, NEW O,
         DownloadHolds(l, h, b, x, park, w, I, o, O), b.call # NoCall, b.call.blob = "open",
         b.asked = FALSE, b.call.skip = 0, NEW c \in 0..h,
         b.resume # NoResume => c >= b.resume.position,
         NEW w2, NEW j, HeaderIs(l, x, c, w2[j].item)
  PROVE  DownloadHolds(l, h, [b EXCEPT !.call = OpenedAt(b.call, c)], x, park, w2, I \cup {j}, o, O)
<1> DEFINE call == OpenedAt(b.call, c)
           b2 == [b EXCEPT !.call = call]
           r == b.resume
           item == w2[j].item
<1>1. /\ IsBackfill(b) /\ b.until \in 0..h + 1 /\ O = {} /\ b.retry = FALSE
      /\ b.call \in CallType2(h) /\ CallHolds(l, h, b, x, w, I)
      /\ b.ready = FALSE /\ QueueHolds(l, h, b, x, w, I)
      /\ r # NoResume => r \in ResumeType2(h) /\ SnapshotHolds(l, b, x, r)
      /\ r = NoResume => Blank(b)
  BY RunningHolds DEF IsBackfill
<1>2. I = {} /\ OpenHolds(b, w, I)
  BY <1>1 DEF CallHolds, OpenHolds
<1>3. /\ call.blob = "body" /\ call.position = c /\ call.skip = 0
      /\ call.tail = IF b.call.tailDone THEN "done" ELSE "read"
      /\ call.from = Larger(b.call.from, c) /\ call \in CallType2(h)
  BY <1>1, OpenedIs
<1>4. call # NoCall
  BY <1>3, NothingAssumption DEF CallType2
<1>5. /\ b2.resume = r /\ b2.until = b.until /\ b2.ready = FALSE /\ b2.retry = FALSE
      /\ b2.asked = FALSE /\ b2.call = call
  BY <1>1 DEF IsBackfill
<1> HIDE DEF call, b2
<1>6. b.pages = {}
  <2>1. CASE r = NoResume
    BY <1>1, <2>1 DEF Blank
  <2>2. CASE r # NoResume
    <3>1. r.skip = 0
      BY <1>2, <2>2 DEF OpenHolds
    <3>2. QED
      BY <1>1, <2>2, <3>1 DEF SnapshotHolds
  <2>3. QED
    BY <2>1, <2>2
<1>7. ItemHolds(l, h, b, x, item)
  <2>1. item.visible \in 0..c /\ Quiet(l, x, item.visible, c)
    BY VisibleHolds DEF HeaderIs
  <2>2. item.visible \in 0..h
    BY <2>1
  <2>3. r # NoResume => r.position <= c /\ ~r.snapshotDone
    BY <1>1, <1>2 DEF OpenHolds, ResumeType2
  <2>4. QED
    BY <1>6, <2>1, <2>2, <2>3 DEF ItemHolds, HeaderIs
<1>8. QueueHolds(l, h, b, x, w2, I \cup {j})
  BY <1>1, <1>2, <1>7, QueueMore
<1>9. OutcomesHold(b2, o, I \cup {j}, O) /\ ReadyHolds(b2, I \cup {j}, O)
  BY <1>1, <1>5 DEF OutcomesHold, ReadyHolds
<1>10. CallHolds(l, h, b2, x, w2, I \cup {j})
  <2>1. "header" \in KindsOf(w2, I \cup {j})
    BY DEF KindsOf, HeaderIs
  <2>2. call.from = IF r = NoResume THEN c ELSE Larger(r.from, c)
    BY <1>2, <1>3 DEF OpenHolds, Larger
  <2>3. \A i \in I \cup {j} : w2[i].item.kind = "header" /\ w2[i].item.position = c
    BY <1>2 DEF HeaderIs
  <2>4. BodyHolds(b2, w2, I \cup {j})
    BY <1>3, <1>5, <2>1, <2>2, <2>3 DEF BodyHolds, FreshHolds
  <2>5. ReadHolds(l, h, b2, x, w2, I \cup {j})
    BY <2>1 DEF ReadHolds
  <2>6. QED
    BY <1>3, <1>5, <2>4, <2>5 DEF CallHolds
<1>11. QED
  BY <1>4, <1>8, <1>9, <1>10, CallGoesOn DEF call, b2

LEMMA OpensAgain ==
  ASSUME NEW l, NEW h \in Nat, NEW b, NEW x, NEW park, NEW w, NEW I, NEW o, NEW O,
         DownloadHolds(l, h, b, x, park, w, I, o, O), b.call # NoCall, b.call.blob = "open",
         b.asked = FALSE, b.call.skip > 0
  PROVE  DownloadHolds(l, h, [b EXCEPT !.call = OpenedAt(b.call, b.call.position)],
                       x, park, w, I, o, O)
<1> DEFINE c == b.call.position
           call == OpenedAt(b.call, c)
           b2 == [b EXCEPT !.call = call]
           r == b.resume
<1>1. /\ IsBackfill(b) /\ b.until \in 0..h + 1 /\ O = {} /\ b.retry = FALSE
      /\ b.call \in CallType2(h) /\ CallHolds(l, h, b, x, w, I)
      /\ b.ready = FALSE /\ QueueHolds(l, h, b, x, w, I)
      /\ r # NoResume => r \in ResumeType2(h) /\ TailHolds(l, h, b, x, r, park)
  BY RunningHolds DEF IsBackfill
<1>2. I = {} /\ OpenHolds(b, w, I)
  BY <1>1 DEF CallHolds, OpenHolds
<1>3. r # NoResume
  BY <1>1, <1>2 DEF OpenHolds
<1>4. /\ call.blob = "body" /\ call.position = c /\ call.skip = b.call.skip
      /\ call.tail = IF b.call.tailDone THEN "done" ELSE "read"
      /\ call.from = Larger(b.call.from, c) /\ call \in CallType2(h)
  <2>1. c \in 0..h
    BY <1>1 DEF CallType2
  <2>2. QED
    BY <1>1, <2>1, OpenedIs
<1>5. call # NoCall
  BY <1>4, NothingAssumption DEF CallType2
<1>6. /\ b2.resume = r /\ b2.until = b.until /\ b2.ready = FALSE /\ b2.retry = FALSE
      /\ b2.asked = FALSE /\ b2.call = call
  BY <1>1 DEF IsBackfill
<1>7. /\ ~r.snapshotDone /\ b.call.skip = r.skip /\ b.call.tailDone = r.tailDone
      /\ c = r.position /\ b.call.from = r.from /\ r.from \in 0..h /\ r.skip \in Nat
      /\ r.position <= r.from /\ r.position \in 0..h
  BY <1>1, <1>2, <1>3 DEF OpenHolds, TailHolds, ResumeType2
<1> HIDE DEF call, b2
<1>8. call.from = r.from
  BY <1>4, <1>7 DEF Larger
<1>9. OutcomesHold(b2, o, I, O) /\ ReadyHolds(b2, I, O)
  BY <1>1, <1>2, <1>6 DEF OutcomesHold, ReadyHolds
<1>10. KindsOf(w, I) = {}
  BY <1>2 DEF KindsOf
<1>11. CallHolds(l, h, b2, x, w, I)
  <2>1. BodyHolds(b2, w, I)
    BY <1>3, <1>4, <1>6, <1>7, <1>10 DEF BodyHolds
  <2>2. call.tail = "read" => ~r.tailDone
    BY <1>4, <1>7
  <2>3. call.tail \in {"read", "end"} => ReadHolds(l, h, b2, x, w, I)
    BY <1>2, <1>4, <1>6, <1>7, <1>8, <1>10, <2>2 DEF ReadHolds
  <2>4. QED
    BY <1>4, <1>6, <2>1, <2>3 DEF CallHolds
<1>12. QED
  BY <1>1, <1>5, <1>9, <1>11, CallGoesOn DEF call, b2

\* A call ends, with an outcome or with nothing.
LEMMA CallEnds ==
  ASSUME NEW l, NEW h, NEW b, NEW x, NEW park, NEW w, NEW I, NEW o, NEW O,
         DownloadHolds(l, h, b, x, park, w, I, o, O), b.call # NoCall, b.asked = FALSE,
         NEW o2, NEW O2, \A i, j \in O2 : i = j,
         \A i \in O2 : /\ o2[i].item.kind \in {"stale", "failed"}
                       /\ b.call.blob # "done" \/ b.call.tail # "done"
                       /\ o2[i].item.kind = "stale" => I = {}
  PROVE  DownloadHolds(l, h, [b EXCEPT !.call = NoCall], x, park, w, I, o2, O2)
<1> DEFINE b2 == [b EXCEPT !.call = NoCall]
<1>1. /\ IsBackfill(b) /\ b.retry = FALSE /\ QueueHolds(l, h, b, x, w, I)
      /\ b.ready => b.call.blob = "done" /\ b.call.tail = "done"
  BY RunningHolds
<1>2. ReadyHolds(b, I, O)
  BY DEF DownloadHolds
<1>3. /\ b2.resume = b.resume /\ b2.ready = b.ready /\ b2.retry = b.retry /\ b2.asked = FALSE
      /\ b2.call = NoCall
  BY <1>1 DEF IsBackfill
<1> HIDE DEF b2
<1>4. OutcomesHold(b2, o2, I, O2)
  BY <1>1, <1>3 DEF OutcomesHold
<1>5. ReadyHolds(b2, I, O2)
  BY <1>1, <1>2, <1>3 DEF ReadyHolds
<1>6. QED
  BY <1>1, <1>4, <1>5, CallGoesOn DEF b2

-----------------------------------------------------------------------------
(* The pages of a blob.                                                    *)

LEMMA CallIsSome ==
  ASSUME NEW h \in Nat, NEW call \in CallType2(h)
  PROVE  call # NoCall
<1>1. call \in [blob : {"open", "body", "done"}, skip : Nat, position : Nat,
                 tail : {"wait", "read", "end", "done"}, from : Nat, tailDone : BOOLEAN]
  BY DEF CallType2
<1>2. QED
  BY <1>1, NothingAssumption

\* A call in a blob's body, with no push of its blob that waits.
LEMMA InBody ==
  ASSUME NEW l, NEW h \in Nat, NEW b, NEW x, NEW park, NEW w, NEW I, NEW o, NEW O,
         DownloadHolds(l, h, b, x, park, w, I, o, O), b.call # NoCall, b.call.blob = "body",
         \A i \in I : w[i].item.kind \notin BlobItems
  PROVE  /\ b.resume # NoResume /\ ~b.resume.snapshotDone /\ b.resume.position = b.call.position
         /\ b.call.skip = b.resume.skip /\ b.call.tail # "wait" /\ b.ready = FALSE
         /\ "header" \notin KindsOf(w, I)
<1>1. BodyHolds(b, w, I) /\ (b.ready => b.call.blob = "done") /\ IsBackfill(b)
      /\ (b.resume # NoResume => b.resume \in ResumeType2(h)) /\ b.call \in CallType2(h)
  BY RunningHolds DEF CallHolds
<1>2. {"header", "page", "pagesDone"} \cap KindsOf(w, I) = {}
  BY DEF KindsOf, BlobItems
<1>3. b.resume # NoResume /\ ~b.resume.snapshotDone /\ b.resume.position = b.call.position
      /\ b.call.skip = b.resume.skip + 0 /\ b.call.tail # "wait"
  BY <1>1, <1>2 DEF BodyHolds
<1>4. b.ready = FALSE
  BY <1>1 DEF IsBackfill
<1>5. QED
  BY <1>1, <1>2, <1>3, <1>4 DEF ResumeType2

\* A push of its blob leaves what a call knows of its tail.
LEMMA ReadStays ==
  ASSUME NEW l, NEW h, NEW b, NEW x, NEW w, NEW I, ReadHolds(l, h, b, x, w, I),
         "header" \notin KindsOf(w, I), NEW b2, b2.resume = b.resume, b2.until = b.until,
         b2.call.from = b.call.from, b2.call.tail = b.call.tail,
         NEW w2, \A i \in I : w2[i].item = w[i].item, NEW j, j \notin I,
         w2[j].item.kind \in {"page", "pagesDone"}
  PROVE  ReadHolds(l, h, b2, x, w2, I \cup {j})
<1>1. "editsDone" \notin KindsOf(w, I) => "editsDone" \notin KindsOf(w2, I \cup {j})
  BY DEF KindsOf
<1>2. QED
  BY <1>1 DEF ReadHolds

LEMMA PageComes ==
  ASSUME NEW l, NEW h \in Nat, NEW b, NEW x, NEW park, NEW w, NEW I, NEW o, NEW O,
         DownloadHolds(l, h, b, x, park, w, I, o, O), b.call # NoCall, b.call.blob = "body",
         b.asked = FALSE, \A i \in I : w[i].item.kind \notin BlobItems,
         b.call.skip < Len(PagesOf(l, x, b.call.position)),
         Len(PagesOf(l, x, b.call.position)) \in Nat,
         NEW w2, \A i \in I : w2[i].item = w[i].item, NEW j, j \notin I,
         w2[j].item.kind = "page", w2[j].item.skip = b.call.skip + 1,
         w2[j].item.slice = PagesOf(l, x, b.call.position)[b.call.skip + 1],
         w2[j].item.state = H!StateAt(l, w2[j].item.slice, b.call.position)
  PROVE  DownloadHolds(l, h, [b EXCEPT !.call = [b.call EXCEPT !.skip = b.call.skip + 1]],
                       x, park, w2, I \cup {j}, o, O)
<1> DEFINE call == [b.call EXCEPT !.skip = b.call.skip + 1]
           b2 == [b EXCEPT !.call = call]
           r == b.resume
           item == w2[j].item
<1>1. /\ IsBackfill(b) /\ O = {} /\ b.retry = FALSE /\ QueueHolds(l, h, b, x, w, I)
      /\ b.call \in CallType2(h) /\ CallHolds(l, h, b, x, w, I)
  BY RunningHolds
<1>2. /\ r # NoResume /\ ~r.snapshotDone /\ r.position = b.call.position
      /\ b.call.skip = r.skip /\ b.call.tail # "wait" /\ b.ready = FALSE
      /\ "header" \notin KindsOf(w, I)
  BY InBody
<1>3. /\ call.blob = "body" /\ call.position = b.call.position /\ call.skip = b.call.skip + 1
      /\ call.tail = b.call.tail /\ call.from = b.call.from /\ call \in CallType2(h)
  BY <1>1 DEF CallType2
<1>4. call # NoCall
  BY <1>3, CallIsSome
<1>5. /\ b2.resume = r /\ b2.until = b.until /\ b2.ready = FALSE /\ b2.retry = FALSE
      /\ b2.asked = FALSE /\ b2.call = call
  BY <1>1, <1>2 DEF IsBackfill
<1> HIDE DEF call, b2
<1>6. ItemHolds(l, h, b, x, item)
  <2>1. item.skip = r.skip + 1 /\ item.skip <= Len(PagesOf(l, x, r.position))
    BY <1>1, <1>2 DEF CallType2
  <2>2. item.slice = PagesOf(l, x, r.position)[item.skip]
        /\ item.state = H!StateAt(l, item.slice, r.position)
    BY <1>2
  <2>3. QED
    BY <1>2, <2>1, <2>2 DEF ItemHolds
<1>7. QueueHolds(l, h, b, x, w2, I \cup {j})
  <2>1. \A i \in I : w[i].item.kind # "header"
    BY <1>2 DEF KindsOf
  <2>2. item.kind \notin TailItems /\ item.kind # "header"
    BY DEF TailItems
  <2>3. QED
    BY <1>1, <1>6, <2>1, <2>2, QueueMore
<1>8. OutcomesHold(b2, o, I \cup {j}, O) /\ ReadyHolds(b2, I \cup {j}, O)
  BY <1>1, <1>5 DEF OutcomesHold, ReadyHolds
<1>9. KindsOf(w2, I \cup {j}) = KindsOf(w, I) \cup {"page"}
  BY DEF KindsOf
<1>10. CallHolds(l, h, b2, x, w2, I \cup {j})
  <2>1. "pagesDone" \notin KindsOf(w, I)
    BY DEF KindsOf, BlobItems
  <2>2. BodyHolds(b2, w2, I \cup {j})
    BY <1>2, <1>3, <1>5, <1>9, <2>1 DEF BodyHolds
  <2>3. call.tail \in {"read", "end"} => ReadHolds(l, h, b2, x, w2, I \cup {j})
    <3>1. b.call.tail \in {"read", "end"} => ReadHolds(l, h, b, x, w, I)
      BY <1>1 DEF CallHolds
    <3>2. QED
      BY <1>2, <1>3, <1>5, <3>1, ReadStays
  <2>4. QED
    BY <1>3, <1>5, <2>2, <2>3 DEF CallHolds
<1>11. QED
  BY <1>7, <1>8, <1>10, CallGoesOn DEF call, b2

LEMMA PagesEnd ==
  ASSUME NEW l, NEW h \in Nat, NEW b, NEW x, NEW park, NEW w, NEW I, NEW o, NEW O,
         DownloadHolds(l, h, b, x, park, w, I, o, O), b.call # NoCall, b.call.blob = "body",
         b.asked = FALSE, \A i \in I : w[i].item.kind \notin BlobItems,
         ~(b.call.skip < Len(PagesOf(l, x, b.call.position))),
         Len(PagesOf(l, x, b.call.position)) \in Nat,
         NEW w2, \A i \in I : w2[i].item = w[i].item, NEW j, j \notin I,
         w2[j].item.kind = "pagesDone"
  PROVE  DownloadHolds(l, h, [b EXCEPT !.call = [b.call EXCEPT !.blob = "done"]],
                       x, park, w2, I \cup {j}, o, O)
<1> DEFINE call == [b.call EXCEPT !.blob = "done"]
           b2 == [b EXCEPT !.call = call]
           r == b.resume
           item == w2[j].item
<1>1. /\ IsBackfill(b) /\ O = {} /\ b.retry = FALSE /\ QueueHolds(l, h, b, x, w, I)
      /\ b.call \in CallType2(h) /\ CallHolds(l, h, b, x, w, I)
      /\ r # NoResume => r \in ResumeType2(h) /\ SnapshotHolds(l, b, x, r)
  BY RunningHolds
<1>2. /\ r # NoResume /\ ~r.snapshotDone /\ r.position = b.call.position
      /\ b.call.skip = r.skip /\ b.call.tail # "wait" /\ b.ready = FALSE
      /\ "header" \notin KindsOf(w, I)
  BY InBody
<1>3. /\ call.blob = "done" /\ call.position = b.call.position
      /\ call.tail = b.call.tail /\ call.from = b.call.from /\ call \in CallType2(h)
  BY <1>1 DEF CallType2
<1>4. call # NoCall
  BY <1>3, CallIsSome
<1>5. /\ b2.resume = r /\ b2.until = b.until /\ b2.ready = FALSE /\ b2.retry = FALSE
      /\ b2.asked = FALSE /\ b2.call = call
  BY <1>1, <1>2 DEF IsBackfill
<1> HIDE DEF call, b2
<1>6. ItemHolds(l, h, b, x, item)
  <2>1. r.skip = Len(PagesOf(l, x, r.position))
    BY <1>1, <1>2 DEF SnapshotHolds, CallType2
  <2>2. QED
    BY <1>2, <2>1 DEF ItemHolds
<1>7. QueueHolds(l, h, b, x, w2, I \cup {j})
  <2>1. \A i \in I : w[i].item.kind # "header"
    BY <1>2 DEF KindsOf
  <2>2. item.kind \notin TailItems /\ item.kind # "header"
    BY DEF TailItems
  <2>3. QED
    BY <1>1, <1>6, <2>1, <2>2, QueueMore
<1>8. OutcomesHold(b2, o, I \cup {j}, O) /\ ReadyHolds(b2, I \cup {j}, O)
  BY <1>1, <1>5 DEF OutcomesHold, ReadyHolds
<1>9. KindsOf(w2, I \cup {j}) = KindsOf(w, I) \cup {"pagesDone"}
  BY DEF KindsOf
<1>10. CallHolds(l, h, b2, x, w2, I \cup {j})
  <2>1. "page" \notin KindsOf(w, I)
    BY DEF KindsOf, BlobItems
  <2>2. DoneHolds(b2, w2, I \cup {j})
    BY <1>2, <1>3, <1>5, <1>9, <2>1 DEF DoneHolds
  <2>3. call.tail \in {"read", "end"} => ReadHolds(l, h, b2, x, w2, I \cup {j})
    <3>1. b.call.tail \in {"read", "end"} => ReadHolds(l, h, b, x, w, I)
      BY <1>1 DEF CallHolds
    <3>2. QED
      BY <1>2, <1>3, <1>5, <3>1, ReadStays
  <2>4. QED
    BY <1>3, <1>5, <2>2, <2>3 DEF CallHolds
<1>11. QED
  BY <1>7, <1>8, <1>10, CallGoesOn DEF call, b2

-----------------------------------------------------------------------------
(* The tail.                                                               *)

\* The edits of a position that a selector reads.
ReadOf(l, h, p, x) == {EditOf(l, s, p) : s \in {y \in x : H!Readable(l, h, y, p)}}

LEMMA ReadOfHolds ==
  ASSUME NEW l, NEW h \in Nat, NEW p \in 1..h, NEW x \in SUBSET Slices
  PROVE  /\ \A s \in x : H!Readable(l, h, s, p) => EditOf(l, s, p) \in ReadOf(l, h, p, x)
         /\ \A edit \in ReadOf(l, h, p, x) :
              /\ IsOf(l, h, edit) /\ edit.position = p /\ edit.slice \in x
              /\ H!Readable(l, h, edit.slice, p) /\ edit = EditOf(l, edit.slice, p)
<1>1. \A s \in x : H!Readable(l, h, s, p) => IsOf(l, h, EditOf(l, s, p))
  BY DEF IsOf, H!Readable
<1>2. \A s : EditOf(l, s, p).position = p /\ EditOf(l, s, p).slice = s
  BY DEF EditOf
<1>3. QED
  BY <1>1, <1>2 DEF ReadOf

\* The positions with edits to read, those a page takes, and how far it scans.
DueIn(l, h, x, from, until) ==
  {p \in from + 1..until - 1 : p <= h /\ ReadOf(l, h, p, x) # {}}
PageFrom(due) == {p \in due : Cardinality({q \in due : q <= p}) <= TailMax}
ScannedIn(due, until) == IF Cardinality(due) >= TailMax THEN LargestOf(PageFrom(due)) ELSE until

LEMMA PageTakes ==
  ASSUME NEW from \in Nat, NEW until \in Nat, NEW due, due # {},
         IsFiniteSet(due), \A p \in due : p \in Nat /\ from + 1 <= p /\ p <= until - 1
  PROVE  /\ \A p \in PageFrom(due) : p \in due
         /\ \A p \in PageFrom(due), q \in due : q <= p => q \in PageFrom(due)
         /\ ScannedIn(due, until) \in Nat /\ from <= ScannedIn(due, until)
         /\ \A p \in PageFrom(due) : p <= ScannedIn(due, until)
         /\ \A p \in due : p <= ScannedIn(due, until) => p \in PageFrom(due)
<1> DEFINE upto(p) == {q \in due : q <= p}
           page == PageFrom(due)
           scanned == ScannedIn(due, until)
<1>1. TailMax \in Nat /\ TailMax >= 1
  BY ReplicaAssumption
<1>0. \A p \in due : p \in Nat /\ from + 1 <= p /\ p <= until - 1
  OBVIOUS
<1>2. IsFiniteSet(due) /\ Cardinality(due) \in Nat
  BY FS_CardinalityType
<1>3. ASSUME NEW p \in due
      PROVE  IsFiniteSet(upto(p)) /\ Cardinality(upto(p)) \in Nat
             /\ Cardinality(upto(p)) <= Cardinality(due)
  BY <1>2, FS_Subset, FS_CardinalityType
<1>4. \A p \in page : p \in due
  BY DEF PageFrom
<1>5. ASSUME NEW p \in page, NEW q \in due, q <= p
      PROVE  q \in page
  <2>1. upto(q) \subseteq upto(p)
    BY <1>0, <1>4, <1>5
  <2>2. Cardinality(upto(q)) <= Cardinality(upto(p))
    BY <1>3, <1>4, <2>1, FS_Subset
  <2>3. Cardinality(upto(p)) <= TailMax
    BY DEF PageFrom
  <2>4. Cardinality(upto(q)) <= TailMax
    <3>1. p \in due
      BY <1>4
    <3>2. Cardinality(upto(p)) \in Nat /\ Cardinality(upto(q)) \in Nat
      BY <1>3, <3>1
    <3> HIDE DEF upto
    <3>3. QED
      BY <1>1, <2>2, <2>3, <3>2
  <2>5. QED
    BY <2>4 DEF PageFrom
<1>6. page # {}
  <2>1. PICK p \in due : \A q \in due : p <= q
    <3>1. PICK S \in SUBSET Nat : S = due
      OBVIOUS
    <3>2. QED
      BY <3>1, LeastOf
  <2>2. upto(p) = {p}
    BY <1>0, <2>1
  <2>3. Cardinality(upto(p)) = 1
    BY <2>2, FS_Singleton
  <2>4. p \in page
    BY <1>1, <2>3 DEF PageFrom
  <2>5. QED
    BY <2>4
<1>7. CASE Cardinality(due) >= TailMax
  <2>1. scanned = LargestOf(page)
    BY <1>7 DEF ScannedIn
  <2>2. (\A p \in page : p \in Nat) /\ \A p \in page : p <= until
    BY <1>0, <1>4
  <2>3. LargestOf(page) \in page /\ \A p \in page : p <= LargestOf(page)
    <3>1. PICK S \in SUBSET Nat : S = page
      BY <2>2
    <3>2. QED
      BY <1>6, <2>2, <3>1, LargestHolds
  <2> HIDE DEF page, scanned
  <2>4. scanned \in page /\ scanned \in Nat /\ from <= scanned
    BY <1>0, <1>4, <2>1, <2>3
  <2>5. QED
    BY <1>4, <1>5, <2>1, <2>3, <2>4 DEF page, scanned
<1>8. CASE ~(Cardinality(due) >= TailMax)
  <2>1. scanned = until
    BY <1>8 DEF ScannedIn
  <2>2. ASSUME NEW p \in due
        PROVE  p \in page
    <3>1. Cardinality(upto(p)) <= TailMax
      BY <1>1, <1>2, <1>3, <1>8
    <3>2. QED
      BY <3>1 DEF PageFrom
  <2>3. PICK p \in due : TRUE
    OBVIOUS
  <2>4. from <= until
    BY <1>0, <2>3
  <2>5. \A q \in page : q <= until
    BY <1>0, <1>4
  <2>6. QED
    BY <1>4, <1>5, <2>1, <2>2, <2>4, <2>5
<1>9. QED
  BY <1>7, <1>8

\* A call that reads its tail, with no push of its tail that waits.
LEMMA InTail ==
  ASSUME NEW l, NEW h \in Nat, NEW b, NEW x, NEW park, NEW w, NEW I, NEW o, NEW O,
         DownloadHolds(l, h, b, x, park, w, I, o, O), b.call # NoCall,
         b.call.tail \in {"read", "end"},
         \A i \in I : w[i].item.kind \notin TailItems \cup {"header"}
  PROVE  /\ b.resume # NoResume /\ ~b.resume.tailDone /\ b.ready = FALSE
         /\ b.resume.from \in 0..h /\ b.resume.from <= b.call.from
         /\ b.call.tail = "end" => b.call.from >= b.until
         /\ \A s \in x, p \in b.resume.from + 1..b.call.from : p < b.until => ~H!Readable(l, h, s, p)
         /\ "header" \notin KindsOf(w, I)
<1>1. /\ CallHolds(l, h, b, x, w, I) /\ (b.ready => b.call.tail = "done") /\ IsBackfill(b)
      /\ (b.resume # NoResume => b.resume \in ResumeType2(h)) /\ b.call \in CallType2(h)
  BY RunningHolds
<1>2. "header" \notin KindsOf(w, I)
  BY DEF KindsOf
<1>3. ReadHolds(l, h, b, x, w, I)
  BY <1>1 DEF CallHolds
<1>4. b.resume # NoResume
  <2>1. b.call.blob # "open"
    BY <1>1 DEF CallHolds, OpenHolds
  <2>2. b.call.blob \in {"body", "done"}
    BY <1>1, <2>1 DEF CallType2
  <2>3. QED
    BY <1>1, <1>2, <2>2 DEF CallHolds, BodyHolds, DoneHolds
<1>5. b.ready = FALSE
  BY <1>1 DEF IsBackfill
<1>6. \A i \in I : w[i].item.kind # "edits"
  BY DEF TailItems
<1>7. \A s \in x, p \in b.resume.from + 1..b.call.from : p < b.until => ~H!Readable(l, h, s, p)
  BY <1>2, <1>3, <1>6 DEF ReadHolds
<1>8. QED
  BY <1>1, <1>2, <1>3, <1>4, <1>5, <1>7 DEF ReadHolds, ResumeType2

\* A push of its tail leaves what a call knows of its blob.
LEMMA BlobStays ==
  ASSUME NEW b, NEW w, NEW I, "header" \notin KindsOf(w, I), NEW b2, b2.resume = b.resume,
         b2.call.skip = b.call.skip, b2.call.position = b.call.position,
         b.call.tail \in {"read", "end"}, b2.call.tail \in {"read", "end", "done"},
         NEW w2, \A i \in I : w2[i].item = w[i].item, NEW j, j \notin I,
         w2[j].item.kind \in {"edits", "editsDone"}
  PROVE  /\ BodyHolds(b, w, I) => BodyHolds(b2, w2, I \cup {j})
         /\ DoneHolds(b, w, I) => DoneHolds(b2, w2, I \cup {j})
<1>1. KindsOf(w2, I \cup {j}) = KindsOf(w, I) \cup {w2[j].item.kind}
  BY DEF KindsOf
<1>2. "page" \in KindsOf(w2, I \cup {j}) <=> "page" \in KindsOf(w, I)
  BY <1>1
<1>3. "pagesDone" \in KindsOf(w2, I \cup {j}) <=> "pagesDone" \in KindsOf(w, I)
  BY <1>1
<1>4. "header" \notin KindsOf(w2, I \cup {j})
  BY <1>1
<1>5. BodyHolds(b, w, I) => BodyHolds(b2, w2, I \cup {j})
  BY <1>2, <1>3, <1>4 DEF BodyHolds
<1>6. DoneHolds(b, w, I) => DoneHolds(b2, w2, I \cup {j})
  BY <1>2, <1>3, <1>4 DEF DoneHolds
<1>7. QED
  BY <1>5, <1>6

LEMMA TailEnds ==
  ASSUME NEW l, NEW h \in Nat, NEW b, NEW x \in Selectors, NEW park, NEW w, NEW I, NEW o, NEW O,
         DownloadHolds(l, h, b, x, park, w, I, o, O), b.call # NoCall, b.asked = FALSE,
         b.call.tail \in {"read", "end"},
         \A i \in I : w[i].item.kind \notin TailItems \cup {"header"},
         b.call.tail = "end" \/ DueIn(l, h, x, b.call.from, b.until) = {},
         NEW w2, \A i \in I : w2[i].item = w[i].item, NEW j, j \notin I,
         w2[j].item.kind = "editsDone"
  PROVE  DownloadHolds(l, h, [b EXCEPT !.call = [b.call EXCEPT !.tail = "done"]],
                       x, park, w2, I \cup {j}, o, O)
<1> DEFINE call == [b.call EXCEPT !.tail = "done"]
           b2 == [b EXCEPT !.call = call]
           r == b.resume
           item == w2[j].item
<1>1. /\ IsBackfill(b) /\ O = {} /\ b.retry = FALSE /\ QueueHolds(l, h, b, x, w, I)
      /\ b.call \in CallType2(h) /\ CallHolds(l, h, b, x, w, I) /\ b.until \in 0..h + 1
  BY RunningHolds
<1>2. /\ r # NoResume /\ ~r.tailDone /\ b.ready = FALSE
      /\ r.from \in 0..h /\ r.from <= b.call.from
      /\ b.call.tail = "end" => b.call.from >= b.until
      /\ \A s \in x, p \in r.from + 1..b.call.from : p < b.until => ~H!Readable(l, h, s, p)
      /\ "header" \notin KindsOf(w, I)
  BY InTail
<1>3. /\ call.blob = b.call.blob /\ call.position = b.call.position /\ call.skip = b.call.skip
      /\ call.tail = "done" /\ call.from = b.call.from /\ call \in CallType2(h)
      /\ b.call.from \in Nat
  BY <1>1 DEF CallType2
<1>4. call # NoCall
  BY <1>3, CallIsSome
<1>5. /\ b2.resume = r /\ b2.until = b.until /\ b2.ready = FALSE /\ b2.retry = FALSE
      /\ b2.asked = FALSE /\ b2.call = call
  BY <1>1, <1>2 DEF IsBackfill
<1> HIDE DEF call, b2
<1>6. ASSUME NEW s \in x, NEW p \in r.from + 1..b.until - 1, p >= 1
      PROVE  ~H!Readable(l, h, s, p)
  <2>1. CASE p <= b.call.from
    BY <1>1, <1>2, <1>3, <2>1
  <2>2. CASE p > b.call.from
    <3>1. p \in b.call.from + 1..b.until - 1 /\ p \in 1..h /\ b.call.tail # "end"
      BY <1>1, <1>2, <1>3, <1>6, <2>2
    <3>2. ReadOf(l, h, p, x) = {}
      BY <3>1 DEF DueIn
    <3>3. QED
      BY <3>1, <3>2, ReadOfHolds DEF Selectors
  <2>3. QED
    BY <1>3, <2>1, <2>2
<1>7. ItemHolds(l, h, b, x, item)
  BY <1>2, <1>6 DEF ItemHolds, HasNone
<1>8. QueueHolds(l, h, b, x, w2, I \cup {j})
  <2>1. \A i \in I : w[i].item.kind # "header" /\ w[i].item.kind \notin TailItems
    OBVIOUS
  <2>2. item.kind \notin BlobItems /\ item.kind # "header"
    BY DEF BlobItems
  <2>3. QED
    BY <1>1, <1>7, <2>1, <2>2, QueueMore
<1>9. OutcomesHold(b2, o, I \cup {j}, O) /\ ReadyHolds(b2, I \cup {j}, O)
  BY <1>1, <1>5 DEF OutcomesHold, ReadyHolds
<1>10. CallHolds(l, h, b2, x, w2, I \cup {j})
  <2>1. /\ BodyHolds(b, w, I) => BodyHolds(b2, w2, I \cup {j})
        /\ DoneHolds(b, w, I) => DoneHolds(b2, w2, I \cup {j})
    BY <1>2, <1>3, <1>5, BlobStays
  <2>2. b.call.blob # "open"
    BY <1>1 DEF CallHolds, OpenHolds
  <2>3. QED
    BY <1>1, <1>3, <1>5, <2>1, <2>2 DEF CallHolds
<1>11. QED
  BY <1>4, <1>8, <1>9, <1>10, CallGoesOn DEF call, b2

LEMMA DueHolds ==
  ASSUME NEW l, NEW h \in Nat, NEW x, NEW from \in Nat, NEW until \in Nat
  PROVE  LET due == DueIn(l, h, x, from, until) IN
         IsFiniteSet(due) /\ \A p \in due : p \in Nat /\ from + 1 <= p /\ p <= until - 1
<1>1. IsFiniteSet(from + 1..until - 1)
  BY FS_Interval
<1>2. DueIn(l, h, x, from, until) \subseteq from + 1..until - 1
  BY DEF DueIn
<1>3. IsFiniteSet(DueIn(l, h, x, from, until))
  BY <1>1, <1>2, FS_Subset
<1>4. QED
  BY <1>2, <1>3

\* The edits of a page go on from where the tail is, through the position it scans to.
PageBrings(l, h, b, x, edits, scanned) ==
  /\ BringsOn(l, h, b, x, edits)
  /\ \A edit \in edits : edit.position <= scanned
  /\ \A s \in x, p \in b.resume.from + 1..scanned :
       p < b.until /\ H!Readable(l, h, s, p) => EditOf(l, s, p) \in edits

LEMMA PageBringsOn ==
  ASSUME NEW l, NEW h \in Nat, NEW b, NEW x \in Selectors, NEW from \in Nat,
         b.resume.from \in 0..h, b.resume.from <= from, b.until \in 0..h + 1,
         \A s \in x, p \in b.resume.from + 1..from : p < b.until => ~H!Readable(l, h, s, p),
         NEW due, due = DueIn(l, h, x, from, b.until), due # {},
         NEW edits, edits = UNION {ReadOf(l, h, p, x) : p \in PageFrom(due)}
  PROVE  PageBrings(l, h, b, x, edits, ScannedIn(due, b.until)) /\ ScannedIn(due, b.until) \in Nat
         /\ from <= ScannedIn(due, b.until)
<1> DEFINE page == PageFrom(due)
           scanned == ScannedIn(due, b.until)
           begin == b.resume.from
           until == b.until
<1>0. begin \in Nat /\ until \in Nat /\ x \in SUBSET Slices
  BY DEF Selectors
<1>1. IsFiniteSet(due) /\ \A p \in due : p \in Nat /\ from + 1 <= p /\ p <= until - 1
  BY <1>0, DueHolds
<1>2. /\ \A p \in page : p \in due
      /\ \A p \in page, q \in due : q <= p => q \in page
      /\ scanned \in Nat /\ from <= scanned
      /\ \A p \in page : p <= scanned
      /\ \A p \in due : p <= scanned => p \in page
  BY <1>0, <1>1, PageTakes
<1>3. \A p \in page : p \in 1..h
  BY <1>0, <1>1, <1>2
<1> HIDE DEF page, scanned
<1>4. ASSUME NEW edit \in edits
      PROVE  /\ edit.position \in page /\ IsOf(l, h, edit)
             /\ edit.position \in Nat /\ edit.position < until /\ edit.position <= scanned
  <2>1. PICK p \in page : edit \in ReadOf(l, h, p, x)
    BY DEF page
  <2>2. IsOf(l, h, edit) /\ edit.position = p
    BY <1>0, <1>3, <2>1, ReadOfHolds
  <2>3. p \in Nat /\ p <= until - 1 /\ p <= scanned
    BY <1>1, <1>2
  <2>4. QED
    BY <1>0, <2>2, <2>3
<1>5. ASSUME NEW s \in x, NEW p \in Int, begin + 1 <= p, p < until, H!Readable(l, h, s, p)
      PROVE  /\ p \in due
             /\ p \in page => EditOf(l, s, p) \in edits
  <2>1. p > from
    <3>1. CASE p <= from
      BY <1>0, <1>5, <3>1
    <3>2. QED
      BY <3>1, <1>5
  <2>2. p \in from + 1..until - 1 /\ p \in 1..h
    BY <1>0, <1>5, <2>1
  <2>3. EditOf(l, s, p) \in ReadOf(l, h, p, x)
    BY <1>0, <1>5, <2>2, ReadOfHolds
  <2>4. p \in due
    BY <2>2, <2>3 DEF DueIn
  <2>5. p \in page => EditOf(l, s, p) \in edits
    BY <2>3 DEF page
  <2>6. QED
    BY <2>4, <2>5
<1>6. ASSUME NEW s \in x, NEW p \in begin + 1..h, H!Readable(l, h, s, p),
             NEW edit \in edits, p <= edit.position
      PROVE  EditOf(l, s, p) \in edits
  <2>1. edit.position \in page /\ edit.position \in Nat /\ edit.position < until
    BY <1>4
  <2>2. p < until /\ begin + 1 <= p /\ p \in Int
    BY <1>0, <1>6, <2>1
  <2>3. p \in due
    BY <1>5, <1>6, <2>2
  <2>4. p \in page
    BY <1>2, <1>6, <2>1, <2>3
  <2>5. QED
    BY <1>5, <1>6, <2>2, <2>4
<1>7. BringsOn(l, h, b, x, edits)
  BY <1>4, <1>6 DEF BringsOn
<1>8. ASSUME NEW s \in x, NEW p \in begin + 1..scanned, p < until, H!Readable(l, h, s, p)
      PROVE  EditOf(l, s, p) \in edits
  <2>1. p \in Int /\ begin + 1 <= p /\ p <= scanned
    BY <1>0, <1>2
  <2>2. p \in due
    BY <1>5, <1>8, <2>1
  <2>3. p \in page
    BY <1>2, <2>1, <2>2
  <2>4. QED
    BY <1>5, <1>8, <2>1, <2>3
<1>9. QED
  BY <1>2, <1>4, <1>7, <1>8 DEF PageBrings, scanned

LEMMA TailReads ==
  ASSUME NEW l, NEW h \in Nat, NEW b, NEW x \in Selectors, NEW park, NEW w, NEW I, NEW o, NEW O,
         DownloadHolds(l, h, b, x, park, w, I, o, O), b.call # NoCall, b.asked = FALSE,
         b.call.tail \in {"read", "end"},
         \A i \in I : w[i].item.kind \notin TailItems \cup {"header"},
         NEW due, due = DueIn(l, h, x, b.call.from, b.until), due # {},
         NEW scanned, scanned = ScannedIn(due, b.until),
         NEW w2, \A i \in I : w2[i].item = w[i].item, NEW j, j \notin I,
         w2[j].item.kind = "edits",
         w2[j].item.edits = UNION {ReadOf(l, h, p, x) : p \in PageFrom(due)}
  PROVE  DownloadHolds(l, h,
           [b EXCEPT !.call = [b.call EXCEPT !.from = scanned,
                                 !.tail = IF scanned >= b.until THEN "end" ELSE "read"]],
           x, park, w2, I \cup {j}, o, O)
<1> DEFINE tail == IF scanned >= b.until THEN "end" ELSE "read"
           call == [b.call EXCEPT !.from = scanned, !.tail = tail]
           b2 == [b EXCEPT !.call = call]
           r == b.resume
           item == w2[j].item
<1>1. /\ IsBackfill(b) /\ O = {} /\ b.retry = FALSE /\ QueueHolds(l, h, b, x, w, I)
      /\ b.call \in CallType2(h) /\ CallHolds(l, h, b, x, w, I) /\ b.until \in 0..h + 1
  BY RunningHolds
<1>2. /\ r # NoResume /\ ~r.tailDone /\ b.ready = FALSE
      /\ r.from \in 0..h /\ r.from <= b.call.from
      /\ \A s \in x, p \in r.from + 1..b.call.from : p < b.until => ~H!Readable(l, h, s, p)
      /\ "header" \notin KindsOf(w, I)
  BY InTail
<1>3. b.call.from \in Nat
  BY <1>1 DEF CallType2
<1>4. /\ PageBrings(l, h, b, x, item.edits, scanned) /\ scanned \in Nat
      /\ b.call.from <= scanned
  BY <1>1, <1>2, <1>3, PageBringsOn
<1>5. tail \in {"read", "end"} /\ (tail = "end" => scanned >= b.until)
  OBVIOUS
<1> HIDE DEF tail
<1>6. /\ call.blob = b.call.blob /\ call.position = b.call.position /\ call.skip = b.call.skip
      /\ call.tail = tail /\ call.from = scanned /\ call \in CallType2(h)
  BY <1>1, <1>4, <1>5 DEF CallType2
<1>7. call # NoCall
  BY <1>6, CallIsSome
<1>8. /\ b2.resume = r /\ b2.until = b.until /\ b2.ready = FALSE /\ b2.retry = FALSE
      /\ b2.asked = FALSE /\ b2.call = call
  BY <1>1, <1>2 DEF IsBackfill
<1> HIDE DEF call, b2
<1>9. ItemHolds(l, h, b, x, item)
  BY <1>2, <1>4 DEF ItemHolds, PageBrings
<1>10. QueueHolds(l, h, b, x, w2, I \cup {j})
  <2>1. \A i \in I : w[i].item.kind # "header" /\ w[i].item.kind \notin TailItems
    OBVIOUS
  <2>2. item.kind \notin BlobItems /\ item.kind # "header"
    BY DEF BlobItems
  <2>3. QED
    BY <1>1, <1>9, <2>1, <2>2, QueueMore
<1>11. OutcomesHold(b2, o, I \cup {j}, O) /\ ReadyHolds(b2, I \cup {j}, O)
  BY <1>1, <1>8 DEF OutcomesHold, ReadyHolds
<1>12. ReadHolds(l, h, b2, x, w2, I \cup {j})
  <2>1. \A i \in I \cup {j} : w2[i].item.kind = "edits" => i = j
    BY DEF TailItems
  <2>2. "editsDone" \notin KindsOf(w2, I \cup {j})
    BY DEF KindsOf, TailItems
  <2>3. \A i \in I \cup {j} : w2[i].item.kind = "edits" =>
          \A edit \in w2[i].item.edits : edit.position <= scanned
    BY <1>4, <2>1 DEF PageBrings
  <2>4. \A s \in x, p \in r.from + 1..scanned :
          p < b.until /\ H!Readable(l, h, s, p) =>
            \E i \in I \cup {j} : w2[i].item.kind = "edits" /\ EditOf(l, s, p) \in w2[i].item.edits
    BY <1>4 DEF PageBrings
  <2>5. r.from <= scanned
    BY <1>2, <1>3, <1>4
  <2>6. QED
    BY <1>2, <1>5, <1>6, <1>8, <2>2, <2>3, <2>4, <2>5 DEF ReadHolds
<1>13. CallHolds(l, h, b2, x, w2, I \cup {j})
  <2>1. /\ BodyHolds(b, w, I) => BodyHolds(b2, w2, I \cup {j})
        /\ DoneHolds(b, w, I) => DoneHolds(b2, w2, I \cup {j})
    BY <1>2, <1>5, <1>6, <1>8, BlobStays
  <2>2. b.call.blob # "open"
    BY <1>1 DEF CallHolds, OpenHolds
  <2>3. QED
    BY <1>1, <1>6, <1>8, <1>12, <2>1, <2>2 DEF CallHolds
<1>14. QED
  BY <1>7, <1>10, <1>11, <1>13, CallGoesOn DEF call, b2, tail

-----------------------------------------------------------------------------
(* Sequences.                                                              *)

LEMMA SequenceIs ==
  ASSUME NEW q, NEW S, q \in Seq(S)
  PROVE  IsSequence(q) /\ DOMAIN q = 1..Len(q)
BY DEF IsSequence

LEMMA SequenceSeq ==
  ASSUME NEW q, IsSequence(q)
  PROVE  q \in Seq({q[i] : i \in 1..Len(q)}) /\ DOMAIN q = 1..Len(q)
BY DEF IsSequence

LEMMA AppendIs ==
  ASSUME NEW q, IsSequence(q), NEW item
  PROVE  LET q2 == Append(q, item) IN
         /\ IsSequence(q2) /\ Len(q2) = Len(q) + 1
         /\ \A i \in 1..Len(q) : q2[i] = q[i]
         /\ q2[Len(q) + 1] = item
<1> DEFINE S == {q[i] : i \in 1..Len(q)}
<1>1. q \in Seq(S)
  BY SequenceSeq
<1> HIDE DEF S
<1>2. Append(q, item) \in Seq(S \cup {item})
  BY <1>1
<1>3. IsSequence(Append(q, item))
  BY <1>2, SequenceIs
<1>4. QED
  BY <1>1, <1>3

LEMMA TailIs ==
  ASSUME NEW q, IsSequence(q), q # <<>>
  PROVE  LET q2 == Tail(q) IN
         /\ IsSequence(q2) /\ Len(q2) = Len(q) - 1
         /\ \A i \in 1..Len(q) - 1 : q2[i] = q[i + 1]
<1> DEFINE S == {q[i] : i \in 1..Len(q)}
<1>1. q \in Seq(S)
  BY SequenceSeq
<1> HIDE DEF S
<1>2. Tail(q) \in Seq(S)
  BY <1>1
<1>3. IsSequence(Tail(q))
  BY <1>2, SequenceIs
<1>4. QED
  BY <1>1, <1>3

LEMMA SubSeqIs ==
  ASSUME NEW q, IsSequence(q), NEW a \in Nat, NEW b \in Nat, a >= 1, b <= Len(q)
  PROVE  LET q2 == SubSeq(q, a, b) IN
         /\ IsSequence(q2) /\ Len(q2) = IF a <= b THEN b - a + 1 ELSE 0
         /\ \A i \in 1..Len(q2) : q2[i] = q[i + a - 1]
<1> DEFINE S == {q[i] : i \in 1..Len(q)}
<1>1. q \in Seq(S)
  BY SequenceSeq
<1> HIDE DEF S
<1>2. SubSeq(q, a, b) \in Seq(S)
  BY <1>1
<1>3. IsSequence(SubSeq(q, a, b))
  BY <1>2, SequenceIs
<1>4. QED
  BY <1>1, <1>3

LEMMA EmptyIs == IsSequence(<<>>) /\ Len(<<>>) = 0
BY DEF IsSequence

LEMMA OneIs ==
  ASSUME NEW v
  PROVE  IsSequence(<<v>>) /\ Len(<<v>>) = 1 /\ <<v>>[1] = v
BY DEF IsSequence

-----------------------------------------------------------------------------
(* A queue grows.                                                          *)

LEMMA OfIs ==
  ASSUME NEW x \in Selectors, NEW item
  PROVE  /\ IsQueued(Of(x, item)) /\ Current(Of(x, item))
         /\ Of(x, item).selector = x /\ Of(x, item).item = item
BY DEF IsQueued, Of, Current

\* A queue, and one with an item of a backfill at its end.
Adds(q, q2, sel, item) ==
  /\ IsSequence(q2) /\ Len(q2) = Len(q) + 1
  /\ \A i \in DOMAIN q2 : IsQueued(q2[i])
  /\ \A x : x # sel => Pending(q2, 0, {}, x) = Pending(q, 0, {}, x)
  /\ Pending(q2, 0, {}, sel) = Pending(q, 0, {}, sel) \cup {Len(q) + 1}
  /\ Len(q) + 1 \notin Pending(q, 0, {}, sel)
  /\ \A x : \A i \in Pending(q, 0, {}, x) : q2[i].item = q[i].item
  /\ q2[Len(q) + 1].item = item
  /\ \A e : sel \in InFlight(e) /\ QueuesHold(e, q, 0, {}) => QueuesHold(e, q2, 0, {})

LEMMA QueueGrows ==
  ASSUME NEW q, IsSequence(q), \A i \in DOMAIN q : IsQueued(q[i]), NEW sel \in Selectors, NEW item
  PROVE  Adds(q, Append(q, Of(sel, item)), sel, item)
<1> DEFINE q2 == Append(q, Of(sel, item))
           v == Of(sel, item)
<1>1. IsQueued(v) /\ Current(v) /\ v.selector = sel /\ v.item = item
  BY OfIs
<1> HIDE DEF v
<1>2. /\ IsSequence(q2) /\ Len(q2) = Len(q) + 1
      /\ \A i \in 1..Len(q) : q2[i] = q[i]
      /\ q2[Len(q) + 1] = v
  BY AppendIs DEF v
<1> HIDE DEF q2
<1>3. Len(q) \in Nat /\ DOMAIN q = 1..Len(q)
  BY SequenceSeq DEF IsSequence
<1>4. 1..Len(q2) = 1..Len(q) \cup {Len(q) + 1} /\ DOMAIN q2 = 1..Len(q2)
  BY <1>2, <1>3, SequenceSeq
<1>5. \A i \in DOMAIN q2 : IsQueued(q2[i])
  BY <1>1, <1>2, <1>3, <1>4
<1>6. \A x : x # sel => Pending(q2, 0, {}, x) = Pending(q, 0, {}, x)
  BY <1>1, <1>2, <1>3, <1>4 DEF Pending
<1>7. Pending(q2, 0, {}, sel) = Pending(q, 0, {}, sel) \cup {Len(q) + 1}
      /\ Len(q) + 1 \notin Pending(q, 0, {}, sel)
  BY <1>1, <1>2, <1>3, <1>4 DEF Pending
<1>8. \A x : \A i \in Pending(q, 0, {}, x) : q2[i].item = q[i].item
  BY <1>2, <1>3 DEF Pending
<1>9. \A e : sel \in InFlight(e) /\ QueuesHold(e, q, 0, {}) => QueuesHold(e, q2, 0, {})
  BY <1>1, <1>2, <1>3, <1>4 DEF QueuesHold
<1>10. QED
  BY <1>1, <1>2, <1>5, <1>6, <1>7, <1>8, <1>9 DEF q2, v, Adds

-----------------------------------------------------------------------------
(* A call's step.                                                          *)

\* A queue that grows for no other backfill.
GrowsFor(e, sel, q, q2) ==
  /\ \A x : x # sel => /\ Pending(q2, 0, {}, x) = Pending(q, 0, {}, x)
                       /\ \A i \in Pending(q, 0, {}, x) : q2[i].item = q[i].item
  /\ QueuesHold(e, q2, 0, {})

LEMMA CallStore ==
  ASSUME NEW l, NEW h \in Nat, NEW e, NEW w, NEW o, StoreHolds(l, h, e, w, 0, o, 0, {}),
         AskedNone(e), NEW sel \in InFlight(e), NEW call, NEW w2, NEW o2,
         GrowsFor(e, sel, w, w2), GrowsFor(e, sel, o, o2),
         DownloadHolds(l, h, [e.backfills[sel] EXCEPT !.call = call], sel, e.park,
                       w2, Pending(w2, 0, {}, sel), o2, Pending(o2, 0, {}, sel))
  PROVE  LET e2 == [e EXCEPT !.backfills[sel].call = call] IN
         StoreHolds(l, h, e2, w2, 0, o2, 0, {}) /\ AskedNone(e2)
<1> DEFINE b == [e.backfills[sel] EXCEPT !.call = call]
           e2 == [e EXCEPT !.backfills[sel].call = call]
<1>1. EngineTypes(l, h, e) /\ IsStore(e)
  BY DEF StoreHolds, EngineTypes
<1>2. e2 = [e EXCEPT !.backfills[sel] = b]
  OBVIOUS
<1>3. b.asked = FALSE
  <2>1. IsBackfill(e.backfills[sel])
    BY DEF StoreHolds, DownloadsHold, DownloadHolds
  <2>2. e.backfills[sel].asked = FALSE
    BY <2>1 DEF AskedNone, IsBackfill
  <2>3. QED
    BY <2>1, <2>2 DEF IsBackfill
<1> HIDE DEF b, e2
<1>4. SameRest(e, e2) /\ e2.backfills = [e.backfills EXCEPT ![sel] = b]
  BY <1>1, <1>2, SetBackfillIs
<1>5. e.backfills = [x \in InFlight(e) |-> e.backfills[x]] /\ InFlight(e) \subseteq Selectors
  BY <1>1 DEF EngineTypes
<1>6. e2.backfills = [x \in InFlight(e) |-> IF x = sel THEN b ELSE e.backfills[x]]
  BY <1>4, <1>5
<1>7. InFlight(e2) = InFlight(e)
  BY <1>6 DEF InFlight
<1>8. EngineTypes(l, h, e2)
  <2>1. e2.backfills = [x \in InFlight(e2) |-> e2.backfills[x]]
    BY <1>6, <1>7
  <2>2. InFlight(e2) \subseteq Selectors
    BY <1>5, <1>7
  <2>3. QED
    BY <1>1, <1>4, <2>1, <2>2, RestTypes
<1>9. e2.park = e.park
  BY <1>4 DEF SameRest
<1>10. ASSUME NEW x \in InFlight(e)
       PROVE  DownloadHolds(l, h, e2.backfills[x], x, e2.park, w2, Pending(w2, 0, {}, x),
                            o2, Pending(o2, 0, {}, x))
  <2>1. CASE x = sel
    <3>1. e2.backfills[x] = b
      BY <1>6, <2>1
    <3>2. DownloadHolds(l, h, b, sel, e.park, w2, Pending(w2, 0, {}, sel),
                        o2, Pending(o2, 0, {}, sel))
      BY DEF b
    <3>3. QED
      BY <1>9, <2>1, <3>1, <3>2
  <2>2. CASE x # sel
    <3>1. DownloadHolds(l, h, e.backfills[x], x, e.park, w, Pending(w, 0, {}, x),
                        o, Pending(o, 0, {}, x))
      BY DEF StoreHolds, DownloadsHold
    <3>2. /\ \A i \in Pending(w, 0, {}, x) : w2[i].item = w[i].item
          /\ \A i \in Pending(o, 0, {}, x) : o2[i].item = o[i].item
          /\ Pending(w2, 0, {}, x) = Pending(w, 0, {}, x)
          /\ Pending(o2, 0, {}, x) = Pending(o, 0, {}, x)
      BY <2>2 DEF GrowsFor
    <3>3. DownloadHolds(l, h, e.backfills[x], x, e.park, w2, Pending(w, 0, {}, x),
                        o2, Pending(o, 0, {}, x))
      BY <3>1, <3>2, QueuesKept
    <3>4. e2.backfills[x] = e.backfills[x]
      BY <1>6, <2>2
    <3>5. QED
      BY <1>9, <3>2, <3>3, <3>4
  <2>3. QED
    BY <2>1, <2>2
<1>11. DownloadsHold(l, h, e2, w2, 0, o2, 0, {})
  BY <1>7, <1>10 DEF DownloadsHold
<1>12. AskedNone(e2)
  BY <1>3, <1>6, <1>7 DEF AskedNone
<1>13. QueuesHold(e2, w2, 0, {}) /\ QueuesHold(e2, o2, 0, {})
  BY <1>7 DEF GrowsFor, QueuesHold
<1>14. QED
  BY <1>8, <1>11, <1>12, <1>13 DEF StoreHolds, e2

LEMMA StaysFor ==
  ASSUME NEW e, NEW sel, NEW q, QueuesHold(e, q, 0, {})
  PROVE  GrowsFor(e, sel, q, q)
BY DEF GrowsFor

LEMMA AddsFor ==
  ASSUME NEW e, NEW sel \in InFlight(e), NEW q, QueuesHold(e, q, 0, {}),
         NEW q2, NEW item, Adds(q, q2, sel, item)
  PROVE  GrowsFor(e, sel, q, q2)
BY DEF Adds, GrowsFor

-----------------------------------------------------------------------------
(* The actions of a download.                                              *)

\* What is left to show of an action that leaves the database and the connection.
Kept(e, w, o) ==
  QueueTypes(w, o) /\ StoreHolds(log, head, e, w, 0, o, 0, {}) /\ AskedNone(e)

LEMMA RunningIs ==
  ASSUME DownloadInv, NEW sel, Running(sel)
  PROVE  /\ head \in Nat /\ sel \in InFlight(engine) /\ sel \in Selectors
         /\ DownloadHolds(log, head, engine.backfills[sel], sel, engine.park,
                          work, Pending(work, 0, {}, sel), outcomes, Pending(outcomes, 0, {}, sel))
         /\ engine.backfills[sel].call # NoCall /\ engine.backfills[sel].asked = FALSE
         /\ QueuesHold(engine, work, 0, {}) /\ QueuesHold(engine, outcomes, 0, {})
         /\ QueueTypes(work, outcomes)
<1>1. head \in Nat
  BY DEF DownloadInv, DatabaseTypes, H!IsHistory
<1>2. sel \in InFlight(engine) /\ engine.backfills[sel].call # NoCall
  BY DEF Running, Call
<1>3. sel \in Selectors
  BY <1>2 DEF DownloadInv, StoreHolds, EngineTypes
<1>4. DownloadHolds(log, head, engine.backfills[sel], sel, engine.park,
                    work, Pending(work, 0, {}, sel), outcomes, Pending(outcomes, 0, {}, sel))
  BY <1>2 DEF DownloadInv, StoreHolds, DownloadsHold
<1>5. engine.backfills[sel].asked = FALSE
  BY <1>2, <1>4 DEF DownloadInv, AskedNone, DownloadHolds, IsBackfill
<1>6. QED
  BY <1>1, <1>2, <1>3, <1>4, <1>5 DEF DownloadInv, StoreHolds

LEMMA NotWaiting ==
  ASSUME DownloadInv, NEW sel, NEW kinds, ~Waiting(sel, kinds)
  PROVE  \A i \in Pending(work, 0, {}, sel) : work[i].item.kind \notin kinds
<1>1. DOMAIN work = 1..Len(work)
  BY SequenceSeq DEF DownloadInv, QueueTypes
<1>2. QED
  BY <1>1 DEF Waiting, Pending

\* A push, with the call it leaves.
LEMMA PushKeeps ==
  ASSUME DownloadInv, NEW sel, Running(sel), NEW item, NEW call, Push(sel, item), Becomes(sel, call),
         \A w2, j : /\ \A i \in Pending(work, 0, {}, sel) : w2[i].item = work[i].item
                    /\ j \notin Pending(work, 0, {}, sel) /\ w2[j].item = item
                    => DownloadHolds(log, head, [engine.backfills[sel] EXCEPT !.call = call],
                                     sel, engine.park, w2, Pending(work, 0, {}, sel) \cup {j},
                                     outcomes, Pending(outcomes, 0, {}, sel))
  PROVE  Kept(engine', work', outcomes)
<1>1. /\ head \in Nat /\ sel \in InFlight(engine) /\ sel \in Selectors
      /\ QueuesHold(engine, work, 0, {}) /\ QueuesHold(engine, outcomes, 0, {})
      /\ QueueTypes(work, outcomes)
  BY RunningIs
<1>2. work' = Append(work, Of(sel, item)) /\ Len(work) < MaxWork
  BY DEF Push
<1>3. Adds(work, work', sel, item)
  BY <1>1, <1>2, QueueGrows DEF QueueTypes
<1>4. GrowsFor(engine, sel, work, work') /\ GrowsFor(engine, sel, outcomes, outcomes)
  BY <1>1, <1>3, AddsFor, StaysFor
<1>5. DownloadHolds(log, head, [engine.backfills[sel] EXCEPT !.call = call], sel, engine.park,
                    work', Pending(work', 0, {}, sel), outcomes, Pending(outcomes, 0, {}, sel))
  BY <1>3 DEF Adds
<1>6. QueueTypes(work', outcomes)
  BY <1>1, <1>2, <1>3, ReplicaAssumption DEF QueueTypes, Adds, IsSequence
<1>7. StoreHolds(log, head, engine, work, 0, outcomes, 0, {}) /\ AskedNone(engine)
  BY DEF DownloadInv
<1>8. engine' = [engine EXCEPT !.backfills[sel].call = call]
  BY DEF Becomes
<1>9. StoreHolds(log, head, engine', work', 0, outcomes, 0, {}) /\ AskedNone(engine')
  BY <1>1, <1>4, <1>5, <1>7, <1>8, CallStore
<1>10. QED
  BY <1>6, <1>9 DEF Kept

\* An outcome, with the call gone.
LEMMA OutcomeKeeps ==
  ASSUME DownloadInv, NEW sel, Running(sel), Becomes(sel, NoCall), NEW kind \in {"stale", "failed"},
         outcomes' = Append(outcomes, Of(sel, [kind |-> kind])),
         Call(sel).blob # "done" \/ Call(sel).tail # "done",
         kind = "stale" => Call(sel).blob = "open"
  PROVE  Kept(engine', work, outcomes')
<1> DEFINE b == engine.backfills[sel]
           I == Pending(work, 0, {}, sel)
           O == Pending(outcomes, 0, {}, sel)
           j == Len(outcomes) + 1
<1>1. /\ head \in Nat /\ sel \in InFlight(engine) /\ sel \in Selectors
      /\ QueuesHold(engine, work, 0, {}) /\ QueuesHold(engine, outcomes, 0, {})
      /\ QueueTypes(work, outcomes)
  BY RunningIs
<1>2. /\ DownloadHolds(log, head, b, sel, engine.park, work, I, outcomes, O)
      /\ b.call # NoCall /\ b.asked = FALSE
  BY RunningIs
<1>3. O = {} /\ CallHolds(log, head, b, sel, work, I)
  BY <1>2, RunningHolds
<1>4. kind = "stale" => I = {}
  BY <1>3 DEF CallHolds, OpenHolds, Call
<1>5. Adds(outcomes, outcomes', sel, [kind |-> kind])
  BY <1>1, QueueGrows DEF QueueTypes
<1>6. GrowsFor(engine, sel, work, work) /\ GrowsFor(engine, sel, outcomes, outcomes')
  BY <1>1, <1>5, AddsFor, StaysFor
<1>7. Pending(outcomes', 0, {}, sel) = {j} /\ outcomes'[j].item.kind = kind
  BY <1>3, <1>5 DEF Adds
<1> HIDE DEF j, I
<1>8. DownloadHolds(log, head, [b EXCEPT !.call = NoCall], sel, engine.park, work, I,
                    outcomes', Pending(outcomes', 0, {}, sel))
  <2>1. \A i \in Pending(outcomes', 0, {}, sel) :
          /\ outcomes'[i].item.kind \in {"stale", "failed"}
          /\ b.call.blob # "done" \/ b.call.tail # "done"
          /\ outcomes'[i].item.kind = "stale" => I = {}
    BY <1>4, <1>7 DEF Call
  <2>2. \A i, k \in Pending(outcomes', 0, {}, sel) : i = k
    BY <1>7
  <2> HIDE DEF b
  <2>3. QED
    BY <1>2, <2>1, <2>2, CallEnds
<1>9. QueueTypes(work, outcomes')
  BY <1>1, <1>5 DEF QueueTypes, Adds
<1>10. StoreHolds(log, head, engine, work, 0, outcomes, 0, {}) /\ AskedNone(engine)
  BY DEF DownloadInv
<1>11. engine' = [engine EXCEPT !.backfills[sel].call = NoCall]
  BY DEF Becomes
<1>12. StoreHolds(log, head, engine', work, 0, outcomes', 0, {}) /\ AskedNone(engine')
  BY <1>1, <1>6, <1>8, <1>10, <1>11, CallStore DEF I
<1>13. QED
  BY <1>9, <1>12 DEF Kept

LEMMA PagesAtIs == \A sel, c : PagesAt(sel, c) = PagesOf(log, sel, c)
BY DEF PagesAt, PagesOf

LEMMA HeaderAtIs == \A sel, c : HeaderIs(log, sel, c, HeaderAt(sel, c))
BY DEF HeaderAt, HeaderIs, HeaderOf

LEMMA EditIs == \A s, p : Edit(s, p) = EditOf(log, s, p)
BY DEF Edit, EditOf

LEMMA ReadAtIs == \A p, sel : ReadAt(p, sel) = ReadOf(log, head, p, sel)
BY EditIs DEF ReadAt, ReadOf

LEMMA OpenKeeps ==
  ASSUME DownloadInv, NEW sel \in Selectors, OpenBlob(sel)
  PROVE  Kept(engine', work', outcomes')
<1> DEFINE b == engine.backfills[sel]
           I == Pending(work, 0, {}, sel)
           O == Pending(outcomes, 0, {}, sel)
<1>1. Running(sel) /\ b.call.blob = "open"
  BY DEF OpenBlob, Call
<1>2. /\ DownloadHolds(log, head, b, sel, engine.park, work, I, outcomes, O)
      /\ b.call # NoCall /\ b.asked = FALSE /\ head \in Nat
      /\ sel \in InFlight(engine) /\ QueuesHold(engine, work, 0, {})
      /\ QueuesHold(engine, outcomes, 0, {}) /\ QueueTypes(work, outcomes)
  BY <1>1, RunningIs
<1>3. PICK c \in Cuts(sel) :
       LET opened == OpenedAt(b.call, c) IN
       \/ /\ b.call.skip = 0
          /\ Push(sel, HeaderAt(sel, c)) /\ Becomes(sel, opened) /\ UNCHANGED outcomes
       \/ /\ b.call.skip > 0 /\ c = b.call.position
          /\ Becomes(sel, opened) /\ UNCHANGED <<work, outcomes>>
       \/ /\ b.call.skip > 0 /\ c # b.call.position
          /\ Becomes(sel, NoCall)
          /\ outcomes' = Append(outcomes, Of(sel, [kind |-> "stale"]))
          /\ UNCHANGED work
  BY DEF OpenBlob, OpenedAt, Call
<1>4. c \in 0..head /\ (b.resume # NoResume => c >= b.resume.position)
  BY DEF Cuts
<1>5. CASE /\ b.call.skip = 0
           /\ Push(sel, HeaderAt(sel, c)) /\ Becomes(sel, OpenedAt(b.call, c)) /\ UNCHANGED outcomes
  <2> DEFINE call == OpenedAt(b.call, c)
  <2>1. ASSUME NEW w2, NEW j, w2[j].item = HeaderAt(sel, c)
        PROVE  DownloadHolds(log, head, [b EXCEPT !.call = call], sel, engine.park,
                             w2, I \cup {j}, outcomes, O)
    <3>1. HeaderIs(log, sel, c, w2[j].item)
      BY <2>1, HeaderAtIs
    <3> HIDE DEF b, I, O
    <3>2. QED
      BY <1>1, <1>2, <1>4, <1>5, <3>1, OpensFresh
  <2> HIDE DEF call
  <2>2. Kept(engine', work', outcomes)
    BY <1>1, <1>5, <2>1, PushKeeps DEF call
  <2>3. QED
    BY <1>5, <2>2
<1>6. CASE /\ b.call.skip > 0 /\ c = b.call.position
           /\ Becomes(sel, OpenedAt(b.call, c)) /\ UNCHANGED <<work, outcomes>>
  <2> DEFINE call == OpenedAt(b.call, b.call.position)
  <2>1. DownloadHolds(log, head, [b EXCEPT !.call = call], sel, engine.park, work, I, outcomes, O)
    <3> HIDE DEF b, I, O
    <3>1. QED
      BY <1>1, <1>2, <1>6, OpensAgain
  <2>2. GrowsFor(engine, sel, work, work) /\ GrowsFor(engine, sel, outcomes, outcomes)
    BY <1>2, StaysFor
  <2>3. engine' = [engine EXCEPT !.backfills[sel].call = call]
    BY <1>6 DEF Becomes
  <2>4. StoreHolds(log, head, engine, work, 0, outcomes, 0, {}) /\ AskedNone(engine)
    BY DEF DownloadInv
  <2> HIDE DEF call
  <2>5. StoreHolds(log, head, engine', work, 0, outcomes, 0, {}) /\ AskedNone(engine')
    BY <1>2, <2>1, <2>2, <2>3, <2>4, CallStore
  <2>6. QED
    BY <1>2, <1>6, <2>5 DEF Kept
<1>7. CASE /\ b.call.skip > 0 /\ c # b.call.position /\ Becomes(sel, NoCall)
           /\ outcomes' = Append(outcomes, Of(sel, [kind |-> "stale"])) /\ UNCHANGED work
  <2>1. Call(sel).blob = "open"
    BY <1>1 DEF Call
  <2>2. PICK kind \in {"stale", "failed"} : kind = "stale"
    OBVIOUS
  <2>3. outcomes' = Append(outcomes, Of(sel, [kind |-> kind]))
    BY <1>7, <2>2
  <2>4. Kept(engine', work, outcomes')
    BY <1>1, <1>7, <2>1, <2>2, <2>3, OutcomeKeeps
  <2>5. QED
    BY <1>7, <2>4
<1>8. QED
  BY <1>3, <1>5, <1>6, <1>7

LEMMA PageKeeps ==
  ASSUME DownloadInv, NEW sel \in Selectors, NextPage(sel)
  PROVE  Kept(engine', work', outcomes')
<1> DEFINE b == engine.backfills[sel]
           I == Pending(work, 0, {}, sel)
           O == Pending(outcomes, 0, {}, sel)
           pages == PagesOf(log, sel, b.call.position)
           s == pages[b.call.skip + 1]
<1>1. Running(sel) /\ b.call.blob = "body" /\ outcomes' = outcomes
  BY DEF NextPage, Call
<1>2. /\ DownloadHolds(log, head, b, sel, engine.park, work, I, outcomes, O)
      /\ b.call # NoCall /\ b.asked = FALSE /\ head \in Nat
  BY <1>1, RunningIs
<1>3. \A i \in I : work[i].item.kind \notin BlobItems
  BY NotWaiting DEF NextPage
<1>4. Len(pages) \in Nat
  <2>1. b.call.position \in Nat
    <3>1. b.call \in CallType2(head)
      <4> HIDE DEF b, I, O
      <4>1. QED
        BY <1>2, RunningHolds
    <3>2. QED
      BY <3>1 DEF CallType2
  <2>2. QED
    BY <2>1, PagesHold
<1>5. PagesAt(sel, b.call.position) = pages
  BY PagesAtIs
<1>6. CASE b.call.skip < Len(pages)
  <2> DEFINE item == [kind |-> "page", skip |-> b.call.skip + 1, slice |-> s,
                      state |-> H!StateAt(log, s, b.call.position)]
             call == [b.call EXCEPT !.skip = b.call.skip + 1]
  <2>1. Push(sel, item) /\ Becomes(sel, call)
    BY <1>5, <1>6 DEF NextPage, Call
  <2>2. ASSUME NEW w2, NEW j, \A i \in I : w2[i].item = work[i].item, j \notin I, w2[j].item = item
        PROVE  DownloadHolds(log, head, [b EXCEPT !.call = call], sel, engine.park,
                             w2, I \cup {j}, outcomes, O)
    <3>1. /\ w2[j].item.kind = "page" /\ w2[j].item.skip = b.call.skip + 1 /\ w2[j].item.slice = s
          /\ w2[j].item.state = H!StateAt(log, w2[j].item.slice, b.call.position)
      BY <2>2
    <3> HIDE DEF b, I, O, item
    <3>2. QED
      BY <1>1, <1>2, <1>3, <1>4, <1>6, <2>2, <3>1, PageComes
  <2> HIDE DEF call, item
  <2>3. Kept(engine', work', outcomes)
    BY <1>1, <2>1, <2>2, PushKeeps
  <2>4. QED
    BY <1>1, <2>3
<1>7. CASE ~(b.call.skip < Len(pages))
  <2> DEFINE item == [kind |-> "pagesDone"]
             call == [b.call EXCEPT !.blob = "done"]
  <2>1. Push(sel, item) /\ Becomes(sel, call)
    BY <1>5, <1>7 DEF NextPage, Call
  <2>2. ASSUME NEW w2, NEW j, \A i \in I : w2[i].item = work[i].item, j \notin I, w2[j].item = item
        PROVE  DownloadHolds(log, head, [b EXCEPT !.call = call], sel, engine.park,
                             w2, I \cup {j}, outcomes, O)
    <3>1. w2[j].item.kind = "pagesDone"
      BY <2>2
    <3> HIDE DEF b, I, O, item
    <3>2. QED
      BY <1>1, <1>2, <1>3, <1>4, <1>7, <2>2, <3>1, PagesEnd
  <2> HIDE DEF call, item
  <2>3. Kept(engine', work', outcomes)
    BY <1>1, <2>1, <2>2, PushKeeps
  <2>4. QED
    BY <1>1, <2>3
<1>8. QED
  BY <1>6, <1>7

LEMMA TailKeeps ==
  ASSUME DownloadInv, NEW sel \in Selectors, NextTail(sel)
  PROVE  Kept(engine', work', outcomes')
<1> DEFINE b == engine.backfills[sel]
           I == Pending(work, 0, {}, sel)
           O == Pending(outcomes, 0, {}, sel)
           due == DueIn(log, head, sel, b.call.from, b.until)
           scanned == ScannedIn(due, b.until)
           edits == UNION {ReadOf(log, head, p, sel) : p \in PageFrom(due)}
<1>1. Running(sel) /\ b.call.tail \in {"read", "end"} /\ outcomes' = outcomes
  BY DEF NextTail, Call
<1>2. /\ DownloadHolds(log, head, b, sel, engine.park, work, I, outcomes, O)
      /\ b.call # NoCall /\ b.asked = FALSE /\ head \in Nat
  BY <1>1, RunningIs
<1>3. \A i \in I : work[i].item.kind \notin TailItems \cup {"header"}
  BY NotWaiting DEF NextTail
<1>4. {p \in b.call.from + 1..b.until - 1 : p <= head /\ ReadAt(p, sel) # {}} = due
  BY ReadAtIs DEF DueIn
<1>5. UNION {ReadAt(p, sel) : p \in PageFrom(due)} = edits
  BY ReadAtIs
<1>6. CASE b.call.tail = "end" \/ due = {}
  <2> DEFINE item == [kind |-> "editsDone"]
             call == [b.call EXCEPT !.tail = "done"]
  <2>1. Push(sel, item) /\ Becomes(sel, call)
    BY <1>4, <1>6 DEF NextTail, Call
  <2>2. ASSUME NEW w2, NEW j, \A i \in I : w2[i].item = work[i].item, j \notin I, w2[j].item = item
        PROVE  DownloadHolds(log, head, [b EXCEPT !.call = call], sel, engine.park,
                             w2, I \cup {j}, outcomes, O)
    <3>1. w2[j].item.kind = "editsDone"
      BY <2>2
    <3> HIDE DEF b, I, O, item
    <3>2. QED
      BY <1>1, <1>2, <1>3, <1>6, <2>2, <3>1, TailEnds
  <2> HIDE DEF call, item
  <2>3. Kept(engine', work', outcomes)
    BY <1>1, <2>1, <2>2, PushKeeps
  <2>4. QED
    BY <1>1, <2>3
<1>7. CASE ~(b.call.tail = "end" \/ due = {})
  <2> DEFINE item == [kind |-> "edits", edits |-> edits]
             call == [b.call EXCEPT !.from = scanned,
                                    !.tail = IF scanned >= b.until THEN "end" ELSE "read"]
  <2>1. Push(sel, item) /\ Becomes(sel, call)
    BY <1>4, <1>5, <1>7 DEF NextTail, Call, PageFrom, ScannedIn
  <2>2. ASSUME NEW w2, NEW j, \A i \in I : w2[i].item = work[i].item, j \notin I, w2[j].item = item
        PROVE  DownloadHolds(log, head, [b EXCEPT !.call = call], sel, engine.park,
                             w2, I \cup {j}, outcomes, O)
    <3>1. w2[j].item.kind = "edits" /\ w2[j].item.edits = edits
      BY <2>2
    <3> HIDE DEF b, I, O, item
    <3>2. QED
      BY <1>1, <1>2, <1>3, <1>7, <2>2, <3>1, TailReads
  <2> HIDE DEF call, item
  <2>3. Kept(engine', work', outcomes)
    BY <1>1, <2>1, <2>2, PushKeeps
  <2>4. QED
    BY <1>1, <2>3
<1>8. QED
  BY <1>6, <1>7

LEMMA DoneKeeps ==
  ASSUME DownloadInv, NEW sel \in Selectors, CallDone(sel)
  PROVE  Kept(engine', work', outcomes')
<1> DEFINE b == engine.backfills[sel]
           I == Pending(work, 0, {}, sel)
           O == Pending(outcomes, 0, {}, sel)
<1>1. Running(sel) /\ work' = work /\ outcomes' = outcomes /\ Becomes(sel, NoCall)
  BY DEF CallDone, queues
<1>2. /\ DownloadHolds(log, head, b, sel, engine.park, work, I, outcomes, O)
      /\ b.call # NoCall /\ b.asked = FALSE /\ head \in Nat
      /\ sel \in InFlight(engine) /\ QueuesHold(engine, work, 0, {})
      /\ QueuesHold(engine, outcomes, 0, {}) /\ QueueTypes(work, outcomes)
  BY <1>1, RunningIs
<1>3. O = {}
  BY <1>2, RunningHolds
<1>4. DownloadHolds(log, head, [b EXCEPT !.call = NoCall], sel, engine.park, work, I, outcomes, O)
  <2> HIDE DEF b, I, O
  <2>1. \A i, j \in O : i = j
    BY <1>3
  <2>2. \A i \in O : /\ outcomes[i].item.kind \in {"stale", "failed"}
                     /\ b.call.blob # "done" \/ b.call.tail # "done"
                     /\ outcomes[i].item.kind = "stale" => I = {}
    BY <1>3
  <2>3. QED
    BY <1>2, <2>1, <2>2, CallEnds
<1>5. GrowsFor(engine, sel, work, work) /\ GrowsFor(engine, sel, outcomes, outcomes)
  BY <1>2, StaysFor
<1>6. engine' = [engine EXCEPT !.backfills[sel].call = NoCall]
  BY <1>1 DEF Becomes
<1>7. StoreHolds(log, head, engine, work, 0, outcomes, 0, {}) /\ AskedNone(engine)
  BY DEF DownloadInv
<1>8. StoreHolds(log, head, engine', work, 0, outcomes, 0, {}) /\ AskedNone(engine')
  BY <1>2, <1>4, <1>5, <1>6, <1>7, CallStore
<1>9. QED
  BY <1>1, <1>2, <1>8 DEF Kept

LEMMA FailsKeeps ==
  ASSUME DownloadInv, NEW sel \in Selectors, CallFails(sel)
  PROVE  Kept(engine', work', outcomes')
<1>1. /\ Running(sel) /\ work' = work /\ Becomes(sel, NoCall)
      /\ outcomes' = Append(outcomes, Of(sel, [kind |-> "failed"]))
      /\ Breaking(Call(sel)) # {}
  BY DEF CallFails
<1>2. Call(sel).blob # "done" \/ Call(sel).tail # "done"
  BY <1>1 DEF Breaking
<1>3. PICK kind \in {"stale", "failed"} : kind = "failed"
  OBVIOUS
<1>4. outcomes' = Append(outcomes, Of(sel, [kind |-> kind]))
  BY <1>1, <1>3
<1>5. Kept(engine', work, outcomes')
  BY <1>1, <1>2, <1>3, <1>4, OutcomeKeeps
<1>6. QED
  BY <1>1, <1>5

-----------------------------------------------------------------------------
(* The passes of the advancer.                                             *)

\* A pass goes on step by step: a recursive function from 0 is there, as it is there
\* through every bound.
LEMMA ReadsIs ==
  ASSUME Len(Ahead) \in Nat
  PROVE  /\ Reads[0] = [e |-> engine, gone |-> {}]
         /\ \A n \in Nat : n < Len(Ahead) => Reads[n + 1] = Handled(Reads[n], Ahead[n + 1])
<1> DEFINE N == Len(Ahead)
           Is(f, k) == f = [n \in 0..k |-> IF n = 0 THEN [e |-> engine, gone |-> {}]
                                           ELSE Handled(f[n - 1], Ahead[n])]
           Bad == {k \in Nat : ~\E f : Is(f, k)}
<1>1. Bad = {}
  <2>1. SUFFICES ASSUME Bad # {}
                 PROVE  FALSE
    OBVIOUS
  <2>2. PICK k \in Bad : \A j \in Bad : k <= j
    <3>1. Bad \in SUBSET Nat
      OBVIOUS
    <3> HIDE DEF Bad
    <3>2. QED
      BY <2>1, <3>1, LeastOf
  <2>3. CASE k = 0
    <3>1. Is([n \in 0..0 |-> [e |-> engine, gone |-> {}]], 0)
      OBVIOUS
    <3>2. QED
      BY <2>2, <2>3, <3>1
  <2>4. CASE k # 0
    <3>1. k \in Nat /\ k - 1 \in Nat /\ k - 1 \notin Bad
      <4>1. k \in Nat
        BY <2>2
      <4> HIDE DEF Bad
      <4>2. QED
        BY <2>2, <2>4, <4>1
    <3>2. PICK f : Is(f, k - 1)
      BY <3>1
    <3> DEFINE g == [n \in 0..k |-> IF n = k THEN Handled(f[k - 1], Ahead[k]) ELSE f[n]]
    <3>3. \A n \in 0..k - 1 : g[n] = f[n]
      BY <3>1
    <3>4. g[k] = Handled(f[k - 1], Ahead[k])
      BY <3>1
    <3>5. g = [n \in 0..k |-> g[n]]
      OBVIOUS
    <3>6. \A n \in 0..k - 1 : f[n] = IF n = 0 THEN [e |-> engine, gone |-> {}] ELSE Handled(f[n - 1], Ahead[n])
      BY <3>2
    <3> HIDE DEF g, Is
    <3>7. ASSUME NEW n \in 0..k
          PROVE  g[n] = IF n = 0 THEN [e |-> engine, gone |-> {}] ELSE Handled(g[n - 1], Ahead[n])
      <4>1. CASE n = k
        <5>1. k - 1 \in 0..k - 1
          BY <3>1
        <5>2. g[k - 1] = f[k - 1]
          BY <3>3, <5>1
        <5>3. QED
          BY <2>4, <3>4, <4>1, <5>2
      <4>2. CASE n = 0
        <5>1. n \in 0..k - 1
          BY <3>1, <4>2
        <5>2. QED
          BY <3>3, <3>6, <4>2, <5>1
      <4>3. CASE n # k /\ n # 0
        <5>1. n \in 0..k - 1 /\ n - 1 \in 0..k - 1
          BY <3>1, <4>3
        <5>2. QED
          BY <3>3, <3>6, <4>3, <5>1
      <4>4. QED
        BY <4>1, <4>2, <4>3
    <3>8. Is(g, k)
      BY <3>5, <3>7 DEF Is
    <3>9. QED
      BY <2>2, <3>8
  <2>5. QED
    BY <2>3, <2>4
<1>2. \E f : Is(f, N)
  BY <1>1
<1>3. Is(Reads, N)
  <2>1. Reads = CHOOSE f : Is(f, N)
    BY DEF Reads
  <2> HIDE DEF Is
  <2>2. QED
    BY <1>2, <2>1
<1>4. Reads[0] = [e |-> engine, gone |-> {}]
  BY <1>3
<1>5. ASSUME NEW n \in Nat, n < N
      PROVE  Reads[n + 1] = Handled(Reads[n], Ahead[n + 1])
  <2>1. PICK m \in 0..N : m = n + 1
    BY <1>5
  <2>2. m # 0 /\ m - 1 = n
    BY <2>1
  <2>3. Reads[m] = IF m = 0 THEN [e |-> engine, gone |-> {}] ELSE Handled(Reads[m - 1], Ahead[m])
    BY <1>3
  <2>4. QED
    BY <2>1, <2>2, <2>3
<1>6. QED
  BY <1>4, <1>5

LEMMA JudgingIs ==
  ASSUME Len(outcomes) \in Nat
  PROVE  /\ Judging[0] = engine
         /\ \A n \in Nat : n < Len(outcomes) => Judging[n + 1] = Judged(Judging[n], outcomes[n + 1])
<1> DEFINE N == Len(outcomes)
           Is(f, k) == f = [n \in 0..k |-> IF n = 0 THEN engine
                                           ELSE Judged(f[n - 1], outcomes[n])]
           Bad == {k \in Nat : ~\E f : Is(f, k)}
<1>1. Bad = {}
  <2>1. SUFFICES ASSUME Bad # {}
                 PROVE  FALSE
    OBVIOUS
  <2>2. PICK k \in Bad : \A j \in Bad : k <= j
    <3>1. Bad \in SUBSET Nat
      OBVIOUS
    <3> HIDE DEF Bad
    <3>2. QED
      BY <2>1, <3>1, LeastOf
  <2>3. CASE k = 0
    <3>1. Is([n \in 0..0 |-> engine], 0)
      OBVIOUS
    <3>2. QED
      BY <2>2, <2>3, <3>1
  <2>4. CASE k # 0
    <3>1. k \in Nat /\ k - 1 \in Nat /\ k - 1 \notin Bad
      <4>1. k \in Nat
        BY <2>2
      <4> HIDE DEF Bad
      <4>2. QED
        BY <2>2, <2>4, <4>1
    <3>2. PICK f : Is(f, k - 1)
      BY <3>1
    <3> DEFINE g == [n \in 0..k |-> IF n = k THEN Judged(f[k - 1], outcomes[k]) ELSE f[n]]
    <3>3. \A n \in 0..k - 1 : g[n] = f[n]
      BY <3>1
    <3>4. g[k] = Judged(f[k - 1], outcomes[k])
      BY <3>1
    <3>5. g = [n \in 0..k |-> g[n]]
      OBVIOUS
    <3>6. \A n \in 0..k - 1 : f[n] = IF n = 0 THEN engine ELSE Judged(f[n - 1], outcomes[n])
      BY <3>2
    <3> HIDE DEF g, Is
    <3>7. ASSUME NEW n \in 0..k
          PROVE  g[n] = IF n = 0 THEN engine ELSE Judged(g[n - 1], outcomes[n])
      <4>1. CASE n = k
        <5>1. k - 1 \in 0..k - 1
          BY <3>1
        <5>2. g[k - 1] = f[k - 1]
          BY <3>3, <5>1
        <5>3. QED
          BY <2>4, <3>4, <4>1, <5>2
      <4>2. CASE n = 0
        <5>1. n \in 0..k - 1
          BY <3>1, <4>2
        <5>2. QED
          BY <3>3, <3>6, <4>2, <5>1
      <4>3. CASE n # k /\ n # 0
        <5>1. n \in 0..k - 1 /\ n - 1 \in 0..k - 1
          BY <3>1, <4>3
        <5>2. QED
          BY <3>3, <3>6, <4>3, <5>1
      <4>4. QED
        BY <4>1, <4>2, <4>3
    <3>8. Is(g, k)
      BY <3>5, <3>7 DEF Is
    <3>9. QED
      BY <2>2, <3>8
  <2>5. QED
    BY <2>3, <2>4
<1>2. \E f : Is(f, N)
  BY <1>1
<1>3. Is(Judging, N)
  <2>1. Judging = CHOOSE f : Is(f, N)
    BY DEF Judging
  <2> HIDE DEF Is
  <2>2. QED
    BY <1>2, <2>1
<1>4. Judging[0] = engine
  BY <1>3
<1>5. ASSUME NEW n \in Nat, n < N
      PROVE  Judging[n + 1] = Judged(Judging[n], outcomes[n + 1])
  <2>1. PICK m \in 0..N : m = n + 1
    BY <1>5
  <2>2. m # 0 /\ m - 1 = n
    BY <2>1
  <2>3. Judging[m] = IF m = 0 THEN engine ELSE Judged(Judging[m - 1], outcomes[m])
    BY <1>3
  <2>4. QED
    BY <2>1, <2>2, <2>3
<1>6. QED
  BY <1>4, <1>5

LEMMA ParkingIs ==
  ASSUME Len(work) \in Nat
  PROVE  /\ Parking[0] = engine
         /\ \A n \in Nat : n < Len(work) => Parking[n + 1] = Pushed(Parking[n], work[n + 1])
<1> DEFINE N == Len(work)
           Is(f, k) == f = [n \in 0..k |-> IF n = 0 THEN engine
                                           ELSE Pushed(f[n - 1], work[n])]
           Bad == {k \in Nat : ~\E f : Is(f, k)}
<1>1. Bad = {}
  <2>1. SUFFICES ASSUME Bad # {}
                 PROVE  FALSE
    OBVIOUS
  <2>2. PICK k \in Bad : \A j \in Bad : k <= j
    <3>1. Bad \in SUBSET Nat
      OBVIOUS
    <3> HIDE DEF Bad
    <3>2. QED
      BY <2>1, <3>1, LeastOf
  <2>3. CASE k = 0
    <3>1. Is([n \in 0..0 |-> engine], 0)
      OBVIOUS
    <3>2. QED
      BY <2>2, <2>3, <3>1
  <2>4. CASE k # 0
    <3>1. k \in Nat /\ k - 1 \in Nat /\ k - 1 \notin Bad
      <4>1. k \in Nat
        BY <2>2
      <4> HIDE DEF Bad
      <4>2. QED
        BY <2>2, <2>4, <4>1
    <3>2. PICK f : Is(f, k - 1)
      BY <3>1
    <3> DEFINE g == [n \in 0..k |-> IF n = k THEN Pushed(f[k - 1], work[k]) ELSE f[n]]
    <3>3. \A n \in 0..k - 1 : g[n] = f[n]
      BY <3>1
    <3>4. g[k] = Pushed(f[k - 1], work[k])
      BY <3>1
    <3>5. g = [n \in 0..k |-> g[n]]
      OBVIOUS
    <3>6. \A n \in 0..k - 1 : f[n] = IF n = 0 THEN engine ELSE Pushed(f[n - 1], work[n])
      BY <3>2
    <3> HIDE DEF g, Is
    <3>7. ASSUME NEW n \in 0..k
          PROVE  g[n] = IF n = 0 THEN engine ELSE Pushed(g[n - 1], work[n])
      <4>1. CASE n = k
        <5>1. k - 1 \in 0..k - 1
          BY <3>1
        <5>2. g[k - 1] = f[k - 1]
          BY <3>3, <5>1
        <5>3. QED
          BY <2>4, <3>4, <4>1, <5>2
      <4>2. CASE n = 0
        <5>1. n \in 0..k - 1
          BY <3>1, <4>2
        <5>2. QED
          BY <3>3, <3>6, <4>2, <5>1
      <4>3. CASE n # k /\ n # 0
        <5>1. n \in 0..k - 1 /\ n - 1 \in 0..k - 1
          BY <3>1, <4>3
        <5>2. QED
          BY <3>3, <3>6, <4>3, <5>1
      <4>4. QED
        BY <4>1, <4>2, <4>3
    <3>8. Is(g, k)
      BY <3>5, <3>7 DEF Is
    <3>9. QED
      BY <2>2, <3>8
  <2>5. QED
    BY <2>3, <2>4
<1>2. \E f : Is(f, N)
  BY <1>1
<1>3. Is(Parking, N)
  <2>1. Parking = CHOOSE f : Is(f, N)
    BY DEF Parking
  <2> HIDE DEF Is
  <2>2. QED
    BY <1>2, <2>1
<1>4. Parking[0] = engine
  BY <1>3
<1>5. ASSUME NEW n \in Nat, n < N
      PROVE  Parking[n + 1] = Pushed(Parking[n], work[n + 1])
  <2>1. PICK m \in 0..N : m = n + 1
    BY <1>5
  <2>2. m # 0 /\ m - 1 = n
    BY <2>1
  <2>3. Parking[m] = IF m = 0 THEN engine ELSE Pushed(Parking[m - 1], work[m])
    BY <1>3
  <2>4. QED
    BY <2>1, <2>2, <2>3
<1>6. QED
  BY <1>4, <1>5

LEMMA AheadIs ==
  ASSUME FeedTypes
  PROVE  /\ Len(Ahead) \in 0..Len(inbox) /\ Len(inbox) \in Nat
         /\ \A i \in 1..Len(Ahead) :
              /\ Ahead[i] = inbox[i] /\ FrameHolds(log, head, Ahead[i]) /\ Ahead[i].kind # "end"
<1>1. Len(inbox) \in Nat /\ DOMAIN inbox = 1..Len(inbox) /\ IsSequence(inbox)
  BY SequenceSeq DEF FeedTypes, IsSequence
<1>2. \A i \in 1..Len(inbox) : FrameHolds(log, head, inbox[i])
  BY <1>1 DEF FeedTypes
<1>3. CASE Ends = {}
  <2>1. Ahead = SubSeq(inbox, 1, Len(inbox))
    BY <1>3 DEF Ahead
  <2>2. \A i \in 1..Len(inbox) : inbox[i].kind # "end"
    BY <1>1, <1>3 DEF Ends
  <2>3. Len(Ahead) = Len(inbox) /\ \A i \in 1..Len(Ahead) : Ahead[i] = inbox[i]
    <3>1. PICK k \in Nat : k = Len(inbox)
      BY <1>1
    <3>2. Ahead = SubSeq(inbox, 1, k) /\ k <= Len(inbox)
      BY <1>1, <2>1, <3>1
    <3>3. Len(Ahead) = (IF 1 <= k THEN k - 1 + 1 ELSE 0)
          /\ \A i \in 1..Len(Ahead) : Ahead[i] = inbox[i + 1 - 1]
      BY <1>1, <3>2, SubSeqIs
    <3>4. QED
      BY <3>1, <3>3
  <2>4. QED
    BY <1>1, <1>2, <2>2, <2>3
<1>4. CASE Ends # {}
  <2>1. \A i \in Ends : i = Len(inbox)
    BY DEF Ends, FeedTypes
  <2>2. (CHOOSE i \in Ends : TRUE) = Len(inbox) /\ Len(inbox) >= 1
    BY <1>1, <1>4, <2>1 DEF Ends
  <2>3. Ahead = SubSeq(inbox, 1, Len(inbox) - 1)
    BY <1>4, <2>2 DEF Ahead
  <2>4. \A i \in 1..Len(inbox) - 1 : inbox[i].kind # "end"
    BY <1>1, <2>1 DEF Ends
  <2>5. Len(Ahead) = Len(inbox) - 1 /\ \A i \in 1..Len(Ahead) : Ahead[i] = inbox[i]
    <3>a. PICK n \in Nat : n = Len(inbox)
      BY <1>1
    <3>b. n >= 1
      BY <2>2, <3>a
    <3>0. n - 1 \in Nat
      BY <3>b
    <3>1. PICK k \in Nat : k = Len(inbox) - 1
      BY <3>a, <3>0
    <3>2. Ahead = SubSeq(inbox, 1, k) /\ k <= Len(inbox)
      BY <1>1, <2>3, <3>1
    <3>3. Len(Ahead) = (IF 1 <= k THEN k - 1 + 1 ELSE 0)
          /\ \A i \in 1..Len(Ahead) : Ahead[i] = inbox[i + 1 - 1]
      BY <1>1, <3>2, SubSeqIs
    <3>4. QED
      BY <3>1, <3>3
  <2>6. QED
    BY <1>1, <1>2, <2>2, <2>4, <2>5
<1>5. QED
  BY <1>3, <1>4

LEMMA ReadsHold ==
  ASSUME DownloadInv
  PROVE  \A n \in 0..Len(Ahead) :
           StoreHolds(log, head, Reads[n].e, work, 0, outcomes, 0, Reads[n].gone)
<1> DEFINE Good(n) == StoreHolds(log, head, Reads[n].e, work, 0, outcomes, 0, Reads[n].gone)
           Bad == {n \in Nat : n <= Len(Ahead) /\ ~Good(n)}
<1>1. /\ Len(Ahead) \in Nat
      /\ \A i \in 1..Len(Ahead) : FrameHolds(log, head, Ahead[i]) /\ Ahead[i].kind # "end"
  BY AheadIs DEF DownloadInv
<1>2. /\ Reads[0] = [e |-> engine, gone |-> {}]
      /\ \A n \in Nat : n < Len(Ahead) => Reads[n + 1] = Handled(Reads[n], Ahead[n + 1])
  BY <1>1, ReadsIs
<1>3. Good(0)
  <2>1. Reads[0].e = engine /\ Reads[0].gone = {}
    BY <1>2
  <2>2. QED
    BY <2>1 DEF DownloadInv
<1>4. ASSUME NEW n \in Nat, n < Len(Ahead), Good(n)
      PROVE  Good(n + 1)
  <2>1. PICK frame : frame = Ahead[n + 1]
    OBVIOUS
  <2>2. FrameHolds(log, head, frame) /\ frame.kind # "end"
    BY <1>1, <1>4, <2>1
  <2>3. H!IsHistory(log) /\ head \in 0..Len(log)
    BY DEF DownloadInv, DatabaseTypes
  <2>4. PICK state : state = Reads[n]
    OBVIOUS
  <2>5. StoreHolds(log, head, state.e, work, 0, outcomes, 0, state.gone)
    BY <1>4, <2>4
  <2>6. StoreHolds(log, head, Handled(state, frame).e, work, 0, outcomes, 0,
                   Handled(state, frame).gone)
    BY <2>2, <2>3, <2>5, HandledHolds
  <2>7. QED
    BY <1>2, <1>4, <2>1, <2>4, <2>6
<1> HIDE DEF Good
<1>5. Bad = {}
  <2>1. SUFFICES ASSUME Bad # {}
                 PROVE  FALSE
    OBVIOUS
  <2>2. PICK n \in Bad : \A m \in Bad : n <= m
    <3>1. Bad \in SUBSET Nat
      OBVIOUS
    <3> HIDE DEF Bad
    <3>2. QED
      BY <2>1, <3>1, LeastOf
  <2>3. n \in Nat /\ n <= Len(Ahead) /\ ~Good(n) /\ n # 0
    BY <1>3, <2>2
  <2>4. PICK k \in Nat : n = k + 1
    <3>1. n - 1 \in Nat /\ n = n - 1 + 1
      BY <2>3
    <3>2. QED
      BY <3>1
  <2>5. Good(k)
    <3>1. k \notin Bad
      <4> HIDE DEF Bad
      <4>1. QED
        BY <2>2, <2>3, <2>4
    <3>2. k <= Len(Ahead)
      BY <1>1, <2>3, <2>4
    <3>3. QED
      BY <3>1, <3>2
  <2>6. QED
    BY <1>1, <1>4, <2>3, <2>4, <2>5
<1>6. QED
  BY <1>1, <1>5 DEF Good

\* A queue with nothing pending may go.
LEMMA WorkGoes ==
  ASSUME NEW l, NEW h, NEW e, NEW w, NEW m, NEW o, NEW n, StoreHolds(l, h, e, w, m, o, n, {}),
         \A x \in InFlight(e) : Pending(w, m, {}, x) = {}
  PROVE  StoreHolds(l, h, e, <<>>, 0, o, n, {})
<1>1. \A x : Pending(<<>>, 0, {}, x) = {}
  BY DEF Pending
<1>2. QueuesHold(e, <<>>, 0, {})
  BY DEF QueuesHold
<1>3. ASSUME NEW x \in InFlight(e)
      PROVE  DownloadHolds(l, h, e.backfills[x], x, e.park, <<>>, Pending(<<>>, 0, {}, x),
                           o, Pending(o, n, {}, x))
  <2>1. DownloadHolds(l, h, e.backfills[x], x, e.park, w, Pending(w, m, {}, x),
                      o, Pending(o, n, {}, x))
    BY DEF StoreHolds, DownloadsHold
  <2>2. PICK I : I = Pending(w, m, {}, x) /\ I = {}
    OBVIOUS
  <2>3. DownloadHolds(l, h, e.backfills[x], x, e.park, <<>>, I, o, Pending(o, n, {}, x))
    BY <2>1, <2>2, QueuesKept
  <2>4. QED
    BY <1>1, <2>2, <2>3
<1>4. QED
  BY <1>2, <1>3 DEF StoreHolds, DownloadsHold

LEMMA OutcomesGo ==
  ASSUME NEW l, NEW h, NEW e, NEW w, NEW m, NEW o, NEW n, StoreHolds(l, h, e, w, m, o, n, {}),
         \A x \in InFlight(e) : Pending(o, n, {}, x) = {}
  PROVE  StoreHolds(l, h, e, w, m, <<>>, 0, {})
<1>1. \A x : Pending(<<>>, 0, {}, x) = {}
  BY DEF Pending
<1>2. QueuesHold(e, <<>>, 0, {})
  BY DEF QueuesHold
<1>3. ASSUME NEW x \in InFlight(e)
      PROVE  DownloadHolds(l, h, e.backfills[x], x, e.park, w, Pending(w, m, {}, x),
                           <<>>, Pending(<<>>, 0, {}, x))
  <2>1. DownloadHolds(l, h, e.backfills[x], x, e.park, w, Pending(w, m, {}, x),
                      o, Pending(o, n, {}, x))
    BY DEF StoreHolds, DownloadsHold
  <2>2. PICK O : O = Pending(o, n, {}, x) /\ O = {}
    OBVIOUS
  <2>3. DownloadHolds(l, h, e.backfills[x], x, e.park, w, Pending(w, m, {}, x), <<>>, O)
    BY <2>1, <2>2, QueuesKept
  <2>4. QED
    BY <1>1, <2>2, <2>3
<1>4. QED
  BY <1>2, <1>3 DEF StoreHolds, DownloadsHold

LEMMA InboxKeeps ==
  ASSUME DownloadInv, OnInbox
  PROVE  Kept(engine', work', outcomes')
<1>1. PICK read \in {Reads[Len(Ahead)]} :
       \E landed \in {IF Frozen(read.e) THEN TryLandIn(read.e) ELSE read.e} :
         LET gone == read.gone \cup (InFlight(read.e) \ InFlight(landed))
         IN  /\ Commits(landed)
             /\ work' = Tagged(work, gone)
             /\ outcomes' = Tagged(outcomes, gone)
  BY DEF OnInbox
<1>2. PICK landed \in {IF Frozen(read.e) THEN TryLandIn(read.e) ELSE read.e} :
         LET gone == read.gone \cup (InFlight(read.e) \ InFlight(landed))
         IN  /\ Commits(landed)
             /\ work' = Tagged(work, gone)
             /\ outcomes' = Tagged(outcomes, gone)
  BY <1>1
<1> DEFINE gone == read.gone \cup (InFlight(read.e) \ InFlight(landed))
<1>3. StoreHolds(log, head, read.e, work, 0, outcomes, 0, read.gone)
  <2>1. Len(Ahead) \in 0..Len(Ahead)
    BY AheadIs DEF DownloadInv
  <2>2. QED
    BY <2>1, ReadsHold
<1>4. H!IsHistory(log) /\ head \in 0..Len(log) /\ head \in Nat /\ up \in BOOLEAN
      /\ QueueTypes(work, outcomes)
  BY DEF DownloadInv, DatabaseTypes, H!IsHistory
<1>5. StoreHolds(log, head, TryLandIn(read.e), work, 0, outcomes, 0, read.gone)
  BY <1>3, <1>4, TryLandHolds
<1>6. StoreHolds(log, head, landed, work, 0, outcomes, 0, read.gone)
  BY <1>3, <1>5
<1>7. read.gone \subseteq gone /\ gone \cap InFlight(landed) \subseteq read.gone
  OBVIOUS
<1> HIDE DEF gone
<1>8. StoreHolds(log, head, landed, work, 0, outcomes, 0, gone)
  BY <1>6, <1>7, GoneGrows
<1>9. engine' = StartCalls(landed, up)
  BY <1>2 DEF Commits
<1>10. StoreHolds(log, head, engine', work, 0, outcomes, 0, gone) /\ AskedNone(engine')
  BY <1>4, <1>8, <1>9, StartHolds
<1>11. work' = Tagged(work, gone) /\ outcomes' = Tagged(outcomes, gone)
  BY <1>2 DEF gone
<1>12. StoreHolds(log, head, engine', Tagged(work, gone), 0, Tagged(outcomes, gone), 0, {})
  BY <1>4, <1>10, TaggedHolds DEF QueueTypes, IsSequence
<1>13. StoreHolds(log, head, engine', work', 0, outcomes', 0, {})
  BY <1>11, <1>12
<1>14. QueueTypes(work', outcomes')
  <2>1. ASSUME NEW q, IsSequence(q), \A i \in DOMAIN q : IsQueued(q[i])
        PROVE  LET t == Tagged(q, gone) IN
               IsSequence(t) /\ Len(t) = Len(q) /\ \A i \in DOMAIN t : IsQueued(t[i])
    <3> DEFINE t == Tagged(q, gone)
    <3>1. /\ t = [i \in 1..Len(t) |-> t[i]] /\ Len(t) = Len(q) /\ Len(q) \in Nat
          /\ \A i \in 1..Len(q) : IsQueued(t[i])
      BY <2>1, TaggedIs DEF IsSequence
    <3> HIDE DEF t
    <3>2. IsSequence(t) /\ DOMAIN t = 1..Len(q)
      BY <3>1 DEF IsSequence
    <3>3. QED
      BY <3>1, <3>2 DEF t
  <2>2. QED
    BY <1>4, <1>11, <2>1 DEF QueueTypes
<1>15. QED
  BY <1>10, <1>13, <1>14 DEF Kept

LEMMA JudgingHold ==
  ASSUME DownloadInv
  PROVE  \A n \in 0..Len(outcomes) : StoreHolds(log, head, Judging[n], work, 0, outcomes, n, {})
<1> DEFINE Good(n) == StoreHolds(log, head, Judging[n], work, 0, outcomes, n, {})
           Bad == {n \in Nat : n <= Len(outcomes) /\ ~Good(n)}
<1>1. Len(outcomes) \in Nat /\ head \in Nat
  BY DEF DownloadInv, QueueTypes, IsSequence, DatabaseTypes, H!IsHistory
<1>2. /\ Judging[0] = engine
      /\ \A n \in Nat : n < Len(outcomes) => Judging[n + 1] = Judged(Judging[n], outcomes[n + 1])
  BY <1>1, JudgingIs
<1>3. Good(0)
  BY <1>2 DEF DownloadInv
<1>4. ASSUME NEW n \in Nat, n < Len(outcomes), Good(n)
      PROVE  Good(n + 1)
  <2>1. PICK e : e = Judging[n]
    OBVIOUS
  <2>2. StoreHolds(log, head, e, work, 0, outcomes, n, {})
    BY <1>4, <2>1
  <2>3. StoreHolds(log, head, Judged(e, outcomes[n + 1]), work, 0, outcomes, n + 1, {})
    BY <1>1, <1>4, <2>2, JudgedHolds
  <2>4. QED
    BY <1>2, <1>4, <2>1, <2>3
<1> HIDE DEF Good
<1>5. Bad = {}
  <2>1. SUFFICES ASSUME Bad # {}
                 PROVE  FALSE
    OBVIOUS
  <2>2. PICK n \in Bad : \A m \in Bad : n <= m
    <3>1. Bad \in SUBSET Nat
      OBVIOUS
    <3> HIDE DEF Bad
    <3>2. QED
      BY <2>1, <3>1, LeastOf
  <2>3. n \in Nat /\ n <= Len(outcomes) /\ ~Good(n) /\ n # 0
    BY <1>3, <2>2
  <2>4. PICK k \in Nat : n = k + 1
    <3>1. n - 1 \in Nat /\ n = n - 1 + 1
      BY <2>3
    <3>2. QED
      BY <3>1
  <2>5. Good(k)
    <3>1. k \notin Bad
      <4> HIDE DEF Bad
      <4>1. QED
        BY <2>2, <2>3, <2>4
    <3>2. k <= Len(outcomes)
      BY <1>1, <2>3, <2>4
    <3>3. QED
      BY <3>1, <3>2
  <2>6. QED
    BY <1>1, <1>4, <2>3, <2>4, <2>5
<1>6. QED
  BY <1>1, <1>5 DEF Good

\* A pass that empties a queue.
LEMMA EmptiesQueue ==
  ASSUME NEW q, Len(q) \in Nat
  PROVE  \A x : Pending(q, Len(q), {}, x) = {}
<1>1. Len(q) + 1..Len(q) = {}
  OBVIOUS
<1>2. QED
  BY <1>1 DEF Pending

LEMMA OutcomesKeep ==
  ASSUME DownloadInv, OnBackfillOutcomes
  PROVE  Kept(engine', work', outcomes')
<1>1. Len(outcomes) \in Nat /\ head \in Nat /\ up \in BOOLEAN /\ QueueTypes(work, outcomes)
  BY DEF DownloadInv, QueueTypes, IsSequence, DatabaseTypes, H!IsHistory
<1>2. PICK e : e = Judging[Len(outcomes)]
  OBVIOUS
<1>3. engine' = StartCalls(e, up) /\ outcomes' = <<>> /\ work' = work
  BY <1>2 DEF OnBackfillOutcomes, Commits
<1>4. StoreHolds(log, head, e, work, 0, outcomes, Len(outcomes), {})
  BY <1>1, <1>2, JudgingHold
<1>5. \A x \in InFlight(e) : Pending(outcomes, Len(outcomes), {}, x) = {}
  BY <1>1, EmptiesQueue
<1>6. StoreHolds(log, head, e, work, 0, <<>>, 0, {})
  BY <1>4, <1>5, OutcomesGo
<1>7. StoreHolds(log, head, engine', work, 0, <<>>, 0, {}) /\ AskedNone(engine')
  BY <1>1, <1>3, <1>6, StartHolds
<1>8. QueueTypes(work, <<>>)
  <2>1. IsSequence(<<>>) /\ DOMAIN <<>> = {}
    BY EmptyIs, SequenceSeq
  <2>2. QED
    BY <1>1, <2>1 DEF QueueTypes
<1>9. QED
  BY <1>3, <1>7, <1>8 DEF Kept

LEMMA ParkingHold ==
  ASSUME DownloadInv, outcomes = <<>>
  PROVE  \A n \in 0..Len(work) : StoreHolds(log, head, Parking[n], work, n, outcomes, 0, {})
<1> DEFINE Good(n) == StoreHolds(log, head, Parking[n], work, n, outcomes, 0, {})
           Bad == {n \in Nat : n <= Len(work) /\ ~Good(n)}
<1>1. Len(work) \in Nat /\ H!IsHistory(log) /\ head \in 0..Len(log) /\ Len(outcomes) = 0
  BY EmptyIs DEF DownloadInv, QueueTypes, IsSequence, DatabaseTypes
<1>2. /\ Parking[0] = engine
      /\ \A n \in Nat : n < Len(work) => Parking[n + 1] = Pushed(Parking[n], work[n + 1])
  BY <1>1, ParkingIs
<1>3. Good(0)
  BY <1>2 DEF DownloadInv
<1>4. ASSUME NEW n \in Nat, n < Len(work), Good(n)
      PROVE  Good(n + 1)
  <2>1. PICK e : e = Parking[n]
    OBVIOUS
  <2>2. StoreHolds(log, head, e, work, n, outcomes, 0, {})
    BY <1>4, <2>1
  <2>3. StoreHolds(log, head, Pushed(e, work[n + 1]), work, n + 1, outcomes, 0, {})
    BY <1>1, <1>4, <2>2, PushedHolds
  <2>4. QED
    BY <1>2, <1>4, <2>1, <2>3
<1> HIDE DEF Good
<1>5. Bad = {}
  <2>1. SUFFICES ASSUME Bad # {}
                 PROVE  FALSE
    OBVIOUS
  <2>2. PICK n \in Bad : \A m \in Bad : n <= m
    <3>1. Bad \in SUBSET Nat
      OBVIOUS
    <3> HIDE DEF Bad
    <3>2. QED
      BY <2>1, <3>1, LeastOf
  <2>3. n \in Nat /\ n <= Len(work) /\ ~Good(n) /\ n # 0
    BY <1>3, <2>2
  <2>4. PICK k \in Nat : n = k + 1
    <3>1. n - 1 \in Nat /\ n = n - 1 + 1
      BY <2>3
    <3>2. QED
      BY <3>1
  <2>5. Good(k)
    <3>1. k \notin Bad
      <4> HIDE DEF Bad
      <4>1. QED
        BY <2>2, <2>3, <2>4
    <3>2. k <= Len(work)
      BY <1>1, <2>3, <2>4
    <3>3. QED
      BY <3>1, <3>2
  <2>6. QED
    BY <1>1, <1>4, <2>3, <2>4, <2>5
<1>6. QED
  BY <1>1, <1>5 DEF Good

LEMMA WorkKeep ==
  ASSUME DownloadInv, OnBackfillWork
  PROVE  Kept(engine', work', outcomes')
<1>1. /\ Len(work) \in Nat /\ H!IsHistory(log) /\ head \in 0..Len(log) /\ head \in Nat
      /\ up \in BOOLEAN /\ QueueTypes(work, outcomes) /\ outcomes = <<>>
  BY DEF DownloadInv, QueueTypes, IsSequence, DatabaseTypes, H!IsHistory, OnBackfillWork
<1>2. work' = <<>> /\ outcomes' = outcomes
  BY DEF OnBackfillWork
<1>3. QueueTypes(<<>>, outcomes)
  <2>1. IsSequence(<<>>) /\ DOMAIN <<>> = {} /\ Len(<<>>) = 0
    BY EmptyIs, SequenceSeq
  <2>2. MaxWork \in Nat
    BY ReplicaAssumption
  <2>3. QED
    BY <1>1, <2>1, <2>2 DEF QueueTypes
<1>4. CASE \A i \in DOMAIN work : ~Current(work[i])
  <2>1. engine' = engine
    BY <1>4 DEF OnBackfillWork
  <2>2. \A x \in InFlight(engine) : Pending(work, 0, {}, x) = {}
    <3>1. DOMAIN work = 0 + 1..Len(work)
      BY <1>1, SequenceSeq DEF QueueTypes
    <3>2. QED
      BY <1>4, <3>1 DEF Pending
  <2>3. StoreHolds(log, head, engine, work, 0, outcomes, 0, {}) /\ AskedNone(engine)
    BY DEF DownloadInv
  <2>4. StoreHolds(log, head, engine, <<>>, 0, outcomes, 0, {})
    BY <2>2, <2>3, WorkGoes
  <2>5. QED
    BY <1>2, <1>3, <2>1, <2>3, <2>4 DEF Kept
<1>5. CASE ~\A i \in DOMAIN work : ~Current(work[i])
  <2>1. PICK e : e = Parking[Len(work)]
    OBVIOUS
  <2>2. engine' = StartCalls(IF e.failed THEN e ELSE TryLandIn(e), up)
    BY <1>5, <2>1 DEF OnBackfillWork, Commits
  <2>3. StoreHolds(log, head, e, work, Len(work), outcomes, 0, {})
    BY <1>1, <2>1, ParkingHold
  <2>4. e.failed = FALSE
    BY <2>3 DEF StoreHolds, EngineTypes
  <2>5. StoreHolds(log, head, TryLandIn(e), work, Len(work), outcomes, 0, {})
    BY <1>1, <2>3, TryLandHolds
  <2>6. \A x \in InFlight(TryLandIn(e)) : Pending(work, Len(work), {}, x) = {}
    BY <1>1, EmptiesQueue
  <2>7. StoreHolds(log, head, TryLandIn(e), <<>>, 0, outcomes, 0, {})
    BY <2>5, <2>6, WorkGoes
  <2>8. engine' = StartCalls(TryLandIn(e), up)
    BY <2>2, <2>4
  <2>9. StoreHolds(log, head, engine', <<>>, 0, outcomes, 0, {}) /\ AskedNone(engine')
    BY <1>1, <2>7, <2>8, StartHolds
  <2>10. QED
    BY <1>2, <1>3, <2>9 DEF Kept
<1>6. QED
  BY <1>4, <1>5

LEMMA SetBackfillsIs ==
  ASSUME NEW e, IsStore(e), NEW bs
  PROVE  LET e2 == [e EXCEPT !.backfills = bs] IN
         SameRest(e, e2) /\ e2.backfills = bs /\ InFlight(e2) = DOMAIN bs
<1>1. SameRest(e, [e EXCEPT !.backfills = bs]) /\ [e EXCEPT !.backfills = bs].backfills = bs
  BY DEF IsStore, SameRest, SameBase, SameView
<1>2. QED
  BY <1>1 DEF InFlight

\* A queue whose connection ended.
Ended(q) == [i \in DOMAIN q |-> [q[i] EXCEPT !.sameConn = FALSE]]

LEMMA EndedIs ==
  ASSUME NEW q, IsSequence(q), \A i \in DOMAIN q : IsQueued(q[i])
  PROVE  LET t == Ended(q) IN
         /\ IsSequence(t) /\ Len(t) = Len(q) /\ DOMAIN t = 1..Len(q)
         /\ \A i \in DOMAIN t : IsQueued(t[i]) /\ ~Current(t[i])
<1> DEFINE t == Ended(q)
<1>1. DOMAIN q = 1..Len(q) /\ Len(q) \in Nat
  BY SequenceSeq DEF IsSequence
<1>2. t = [i \in 1..Len(q) |-> [q[i] EXCEPT !.sameConn = FALSE]]
  BY <1>1 DEF Ended
<1> HIDE DEF t
<1>3. Len(t) = Len(q) /\ DOMAIN t = 1..Len(q)
  BY <1>1, <1>2
<1>4. \A i \in 1..Len(q) : IsQueued(t[i]) /\ ~Current(t[i])
  BY <1>1, <1>2 DEF IsQueued, Current
<1>5. t = [i \in 1..Len(t) |-> t[i]]
  BY <1>2, <1>3
<1>6. QED
  BY <1>1, <1>3, <1>4, <1>5 DEF t, IsSequence

LEMMA NonCurrent ==
  ASSUME NEW q, DOMAIN q = 1..Len(q), \A i \in DOMAIN q : ~Current(q[i])
  PROVE  (\A x : Pending(q, 0, {}, x) = {}) /\ \A e : QueuesHold(e, q, 0, {})
BY DEF Pending, QueuesHold

LEMMA BackfillIs ==
  ASSUME DownloadInv, NEW x \in InFlight(engine)
  PROVE  /\ head \in Nat /\ x \in Selectors /\ IsStore(engine)
         /\ DownloadHolds(log, head, engine.backfills[x], x, engine.park,
                          work, Pending(work, 0, {}, x), outcomes, Pending(outcomes, 0, {}, x))
         /\ IsBackfill(engine.backfills[x]) /\ engine.backfills[x].asked = FALSE
<1>1. DownloadHolds(log, head, engine.backfills[x], x, engine.park,
                    work, Pending(work, 0, {}, x), outcomes, Pending(outcomes, 0, {}, x))
  BY DEF DownloadInv, StoreHolds, DownloadsHold
<1>2. IsBackfill(engine.backfills[x])
  BY <1>1 DEF DownloadHolds
<1>3. engine.backfills[x].asked = FALSE
  BY <1>2 DEF DownloadInv, AskedNone, IsBackfill
<1>4. head \in Nat /\ x \in Selectors /\ IsStore(engine)
  BY DEF DownloadInv, StoreHolds, EngineTypes, DatabaseTypes, H!IsHistory
<1>5. QED
  BY <1>1, <1>2, <1>3, <1>4

LEMMA EndKeeps ==
  ASSUME DownloadInv, OnEnd
  PROVE  Kept(engine', work', outcomes')
<1> DEFINE bs == [x \in InFlight(engine) |-> [engine.backfills[x] EXCEPT !.call = NoCall]]
           e2 == [engine EXCEPT !.backfills = bs]
<1>1. engine' = e2 /\ work' = Ended(work) /\ outcomes' = Ended(outcomes)
  BY DEF OnEnd, Ended
<1>2. /\ StoreHolds(log, head, engine, work, 0, outcomes, 0, {}) /\ AskedNone(engine)
      /\ QueueTypes(work, outcomes) /\ IsStore(engine) /\ head \in Nat
  BY DEF DownloadInv, StoreHolds, EngineTypes, DatabaseTypes, H!IsHistory
<1>3. ASSUME NEW x \in InFlight(engine), NEW w2, NEW o2
      PROVE  DownloadHolds(log, head, bs[x], x, engine.park, w2, {}, o2, {}) /\ ~bs[x].asked
  <2> DEFINE b == engine.backfills[x]
             I == Pending(work, 0, {}, x)
             O == Pending(outcomes, 0, {}, x)
  <2>1. DownloadHolds(log, head, b, x, engine.park, work, I, outcomes, O)
        /\ IsBackfill(b) /\ b.asked = FALSE
    BY BackfillIs
  <2>2. bs[x] = [b EXCEPT !.call = NoCall]
    OBVIOUS
  <2> HIDE DEF b, I, O, bs
  <2>3. [b EXCEPT !.call = NoCall]
          = [b EXCEPT !.ready = b.ready, !.retry = b.retry, !.asked = FALSE, !.call = NoCall]
        /\ [b EXCEPT !.call = NoCall].asked = FALSE
    BY <2>1 DEF IsBackfill
  <2>4. PICK ready \in BOOLEAN, retry \in BOOLEAN, asked \in BOOLEAN :
          ready = b.ready /\ retry = b.retry /\ asked = FALSE
    BY <2>1 DEF IsBackfill
  <2>5. ready => b.resume # NoResume /\ b.resume.snapshotDone /\ b.resume.tailDone
    BY <2>1, <2>4 DEF DownloadHolds, ReadyHolds
  <2>6. DownloadHolds(log, head, [b EXCEPT !.ready = ready, !.retry = retry, !.asked = asked,
                                           !.call = NoCall], x, engine.park, w2, {}, o2, {})
    BY <1>2, <2>1, <2>4, <2>5, CalmHolds
  <2>7. QED
    BY <2>2, <2>3, <2>4, <2>6
<1>4. SameRest(engine, e2) /\ e2.backfills = bs /\ InFlight(e2) = InFlight(engine)
  <2>1. DOMAIN bs = InFlight(engine)
    OBVIOUS
  <2> HIDE DEF bs
  <2>2. QED
    BY <1>2, <2>1, SetBackfillsIs
<1>5. bs = [x \in InFlight(engine) |-> bs[x]]
  OBVIOUS
<1>6. /\ QueueTypes(work', outcomes')
      /\ \A x : Pending(work', 0, {}, x) = {} /\ Pending(outcomes', 0, {}, x) = {}
      /\ QueuesHold(engine, work', 0, {}) /\ QueuesHold(engine, outcomes', 0, {})
  <2>1. /\ IsSequence(work') /\ Len(work') = Len(work) /\ DOMAIN work' = 1..Len(work)
        /\ \A i \in DOMAIN work' : IsQueued(work'[i]) /\ ~Current(work'[i])
    BY <1>1, <1>2, EndedIs DEF QueueTypes
  <2>2. /\ IsSequence(outcomes') /\ Len(outcomes') = Len(outcomes)
        /\ DOMAIN outcomes' = 1..Len(outcomes)
        /\ \A i \in DOMAIN outcomes' : IsQueued(outcomes'[i]) /\ ~Current(outcomes'[i])
    BY <1>1, <1>2, EndedIs DEF QueueTypes
  <2>3. QueueTypes(work', outcomes')
    BY <1>2, <2>1, <2>2 DEF QueueTypes
  <2>4. QED
    BY <2>1, <2>2, <2>3, NonCurrent
<1> HIDE DEF bs, e2
<1>7. StoreHolds(log, head, e2, work', 0, outcomes', 0, {})
  <2>1. \A x \in InFlight(engine) :
          DownloadHolds(log, head, e2.backfills[x], x, engine.park, work', {}, outcomes', {})
    BY <1>3, <1>4
  <2>2. e2.backfills = [x \in InFlight(engine) |-> e2.backfills[x]]
    BY <1>4, <1>5
  <2>3. QED
    BY <1>2, <1>4, <1>6, <2>1, <2>2, CalmStoreHolds
<1>8. AskedNone(e2)
  BY <1>3, <1>4 DEF AskedNone
<1>9. QED
  BY <1>1, <1>6, <1>7, <1>8 DEF Kept

LEMMA AskingHolds ==
  ASSUME NEW l, NEW h, NEW b, NEW x, NEW park, NEW w, NEW o,
         DownloadHolds(l, h, b, x, park, w, {}, o, {}), b.asked = FALSE
  PROVE  DownloadHolds(l, h, [b EXCEPT !.asked = b.asked \/ (~b.ready /\ ~b.retry)],
                       x, park, w, {}, o, {})
<1> DEFINE asked == b.asked \/ (~b.ready /\ ~b.retry)
<1>1. asked \in BOOLEAN /\ (asked => ~b.ready /\ ~b.retry)
  OBVIOUS
<1> HIDE DEF asked
<1> DEFINE b2 == [b EXCEPT !.asked = asked]
<1>2. IsBackfill(b) /\ OutcomesHold(b, o, {}, {}) /\ ReadyHolds(b, {}, {})
  BY DEF DownloadHolds
<1>3. /\ b2.until = b.until /\ b2.resume = b.resume /\ b2.header = b.header /\ b2.pages = b.pages
      /\ b2.ready = b.ready /\ b2.retry = b.retry /\ b2.asked = asked /\ b2.call = b.call
      /\ IsBackfill(b2)
  BY <1>1, <1>2 DEF IsBackfill
<1> HIDE DEF b2
<1>4. ResumeHolds(l, h, b2, x, park) /\ QueueHolds(l, h, b2, x, w, {})
  <2>1. ResumeHolds(l, h, b, x, park) /\ QueueHolds(l, h, b, x, w, {})
    BY DEF DownloadHolds
  <2>2. QED
    BY <1>3, <2>1 DEF ResumeHolds, Blank, SnapshotHolds, TailHolds, QueueHolds
<1>5. OutcomesHold(b2, o, {}, {}) /\ ReadyHolds(b2, {}, {})
  BY <1>1, <1>2, <1>3 DEF OutcomesHold, ReadyHolds
<1>6. b2.call # NoCall => CallHolds(l, h, b2, x, w, {})
  <2>1. b.call # NoCall => CallHolds(l, h, b, x, w, {})
    BY DEF DownloadHolds
  <2>2. QED
    BY <1>3, <2>1 DEF CallHolds, OpenHolds, BodyHolds, FreshHolds, DoneHolds, ReadHolds, KindsOf
<1>7. DownloadHolds(l, h, b2, x, park, w, {}, o, {})
  <2>1. b.until \in 0..h + 1
    BY DEF DownloadHolds
  <2>2. QED
    BY <1>3, <1>4, <1>5, <1>6, <2>1 DEF DownloadHolds
<1>8. QED
  BY <1>7 DEF b2, asked

LEMMA EmptyQueues ==
  /\ \A x : Pending(<<>>, 0, {}, x) = {}
  /\ \A e : QueuesHold(e, <<>>, 0, {})
  /\ QueueTypes(<<>>, <<>>)
<1>1. IsSequence(<<>>) /\ DOMAIN <<>> = {} /\ Len(<<>>) = 0
  BY EmptyIs, SequenceSeq
<1>2. MaxWork \in Nat
  BY ReplicaAssumption
<1>3. QED
  BY <1>1, <1>2 DEF Pending, QueuesHold, QueueTypes

LEMMA ConnectKeeps ==
  ASSUME DownloadInv, OnConnect
  PROVE  Kept(engine', work', outcomes')
<1> DEFINE asks(b) == [b EXCEPT !.asked = b.asked \/ (~b.ready /\ ~b.retry)]
           bs == [x \in InFlight(engine) |-> asks(engine.backfills[x])]
           e2 == [engine EXCEPT !.backfills = bs]
<1>1. engine' = StartCalls(e2, TRUE)
  BY DEF OnConnect
<1>2. work = <<>> /\ outcomes = <<>> /\ work' = <<>> /\ outcomes' = <<>>
  BY DEF OnConnect
<1>3. IsStore(engine) /\ head \in Nat /\ StoreHolds(log, head, engine, <<>>, 0, <<>>, 0, {})
  BY <1>2 DEF DownloadInv, StoreHolds, EngineTypes, DatabaseTypes, H!IsHistory
<1>4. ASSUME NEW x \in InFlight(engine)
      PROVE  DownloadHolds(log, head, bs[x], x, engine.park, <<>>, {}, <<>>, {})
  <2> DEFINE b == engine.backfills[x]
  <2>1. DownloadHolds(log, head, b, x, engine.park, work, Pending(work, 0, {}, x),
                      outcomes, Pending(outcomes, 0, {}, x)) /\ b.asked = FALSE
    BY BackfillIs
  <2>2. DownloadHolds(log, head, b, x, engine.park, <<>>, {}, <<>>, {})
    BY <1>2, <2>1, EmptyQueues
  <2>3. bs[x] = asks(b)
    OBVIOUS
  <2> HIDE DEF b, bs
  <2>4. PICK c, park : c = b /\ park = engine.park
    OBVIOUS
  <2>5. DownloadHolds(log, head, c, x, park, <<>>, {}, <<>>, {}) /\ c.asked = FALSE
    BY <2>1, <2>2, <2>4
  <2>6. DownloadHolds(log, head, asks(c), x, park, <<>>, {}, <<>>, {})
    BY <2>5, AskingHolds
  <2>7. QED
    BY <2>3, <2>4, <2>6
<1>5. SameRest(engine, e2) /\ e2.backfills = bs /\ InFlight(e2) = InFlight(engine)
  <2>1. DOMAIN bs = InFlight(engine)
    OBVIOUS
  <2> HIDE DEF bs
  <2>2. QED
    BY <1>3, <2>1, SetBackfillsIs
<1>6. bs = [x \in InFlight(engine) |-> bs[x]]
  OBVIOUS
<1> HIDE DEF bs, e2
<1>7. StoreHolds(log, head, e2, <<>>, 0, <<>>, 0, {})
  <2>1. \A x \in InFlight(engine) :
          DownloadHolds(log, head, e2.backfills[x], x, engine.park, <<>>, {}, <<>>, {})
    BY <1>4, <1>5
  <2>2. e2.backfills = [x \in InFlight(engine) |-> e2.backfills[x]]
    BY <1>5, <1>6
  <2>3. QED
    BY <1>3, <1>5, <2>1, <2>2, EmptyQueues, CalmStoreHolds
<1>8. PICK c \in BOOLEAN : c = TRUE
  OBVIOUS
<1>9. StoreHolds(log, head, StartCalls(e2, c), <<>>, 0, <<>>, 0, {}) /\ AskedNone(StartCalls(e2, c))
  BY <1>3, <1>7, StartHolds
<1>10. QED
  BY <1>1, <1>2, <1>8, <1>9, EmptyQueues DEF Kept

\* The store once a backfill's timer asked for its call.
LEMMA RetriedIs ==
  ASSUME NEW e, IsStore(e), NEW sel \in InFlight(e), IsBackfill(e.backfills[sel])
  PROVE  LET b == e.backfills[sel]
             b2 == [b EXCEPT !.retry = FALSE]
             b3 == [b2 EXCEPT !.ready = FALSE, !.asked = TRUE]
             e3 == StartBackfill([e EXCEPT !.backfills[sel].retry = FALSE], sel)
         IN  SameRest(e, e3) /\ e3.backfills = [e.backfills EXCEPT ![sel] = b3]
<1> DEFINE b == e.backfills[sel]
           b2 == [b EXCEPT !.retry = FALSE]
           b3 == [b2 EXCEPT !.ready = FALSE, !.asked = TRUE]
           e1 == [e EXCEPT !.backfills[sel].retry = FALSE]
<1>1. e1 = [e EXCEPT !.backfills[sel] = b2]
  OBVIOUS
<1> HIDE DEF b2, e1
<1>2. SameRest(e, e1) /\ e1.backfills = [e.backfills EXCEPT ![sel] = b2]
  BY <1>1, SetBackfillIs
<1>3. IsStore(e1) /\ e1.backfills[sel] = b2 /\ sel \in DOMAIN e1.backfills
  BY <1>2 DEF SameRest, InFlight
<1>4. /\ SameRest(e1, StartBackfill(e1, sel))
      /\ StartBackfill(e1, sel).backfills = [e1.backfills EXCEPT ![sel] = b3]
  BY <1>3 DEF StartBackfill, IsStore, SameRest, SameBase, SameView
<1>5. [e1.backfills EXCEPT ![sel] = b3] = [e.backfills EXCEPT ![sel] = b3]
  BY <1>2
<1>6. SameRest(e, StartBackfill(e1, sel))
  BY <1>2, <1>4 DEF SameRest, SameBase, SameView
<1>7. QED
  BY <1>4, <1>5, <1>6 DEF b2, e1

LEMMA RetryKeeps ==
  ASSUME DownloadInv, NEW sel \in Selectors, Retry(sel)
  PROVE  Kept(engine', work', outcomes')
<1> DEFINE b == engine.backfills[sel]
           I == Pending(work, 0, {}, sel)
           O == Pending(outcomes, 0, {}, sel)
           b3 == [[b EXCEPT !.retry = FALSE] EXCEPT !.ready = FALSE, !.asked = TRUE]
           e3 == StartBackfill([engine EXCEPT !.backfills[sel].retry = FALSE], sel)
<1>1. /\ sel \in InFlight(engine) /\ b.retry /\ ~Waiting(sel, BlobItems \cup TailItems)
      /\ engine' = StartCalls(e3, up) /\ work' = work /\ outcomes' = outcomes
  <2>1. Commits(e3)
    BY DEF Retry
  <2>2. engine' = StartCalls(e3, up)
    <3> HIDE DEF e3
    <3>1. QED
      BY <2>1 DEF Commits
  <2>3. QED
    BY <2>2 DEF Retry, queues
<1>2. /\ head \in Nat /\ IsStore(engine) /\ up \in BOOLEAN
      /\ QueueTypes(work, outcomes) /\ StoreHolds(log, head, engine, work, 0, outcomes, 0, {})
      /\ DownloadHolds(log, head, b, sel, engine.park, work, I, outcomes, O) /\ IsBackfill(b)
  BY <1>1, BackfillIs DEF DownloadInv, DatabaseTypes
<1>3. O = {} /\ b.call = NoCall
  BY <1>1, <1>2 DEF DownloadHolds, OutcomesHold
<1>4. I = {}
  <2>1. \A i \in I : work[i].item.kind \notin BlobItems \cup TailItems
    BY <1>1, NotWaiting
  <2>2. \A i \in I : ItemHolds(log, head, b, sel, work[i].item)
    BY <1>2 DEF DownloadHolds, QueueHolds
  <2>3. \A i \in I : work[i].item.kind \in BlobItems \cup TailItems
    BY <2>2 DEF ItemHolds, BlobItems, TailItems
  <2>4. QED
    BY <2>1, <2>3
<1>5. SameRest(engine, e3) /\ e3.backfills = [engine.backfills EXCEPT ![sel] = b3]
  BY <1>1, <1>2, RetriedIs
<1>6. DownloadHolds(log, head, b3, sel, engine.park, work, {}, outcomes, {})
  <2>1. b3 = [b EXCEPT !.ready = FALSE, !.retry = FALSE, !.asked = TRUE, !.call = NoCall]
    <3> HIDE DEF b
    <3>1. QED
      BY <1>2, <1>3 DEF IsBackfill
  <2>2. PICK ready \in BOOLEAN, retry \in BOOLEAN, asked \in BOOLEAN :
          ready = FALSE /\ retry = FALSE /\ asked = TRUE
    OBVIOUS
  <2> HIDE DEF b, b3, I, O
  <2>3. DownloadHolds(log, head, [b EXCEPT !.ready = ready, !.retry = retry, !.asked = asked,
                                           !.call = NoCall], sel, engine.park,
                      work, {}, outcomes, {})
    BY <1>2, <2>2, CalmHolds
  <2>4. QED
    BY <2>1, <2>2, <2>3
<1>7. StoreHolds(log, head, e3, work, 0, outcomes, 0, {})
  <2>1. /\ e3.park = engine.park /\ IsStore(e3) /\ e3.cursor = engine.cursor
        /\ e3.failed = engine.failed /\ SameView(engine, e3) /\ SameBase(engine, e3)
    BY <1>5 DEF SameRest
  <2>2. (\A edit \in e3.park : IsOf(log, head, edit)) /\ engine.park \subseteq e3.park
    BY <1>2, <2>1 DEF StoreHolds, EngineTypes
  <2>3. DownloadHolds(log, head, b3, sel, e3.park, work, Pending(work, 0, {}, sel),
                      outcomes, Pending(outcomes, 0, {}, sel))
    BY <1>3, <1>4, <1>6, <2>1
  <2>4. QueuesHold(engine, work, 0, {}) /\ QueuesHold(engine, outcomes, 0, {})
    BY <1>2 DEF StoreHolds
  <2>5. e3.backfills = [engine.backfills EXCEPT ![sel] = b3]
    BY <1>5
  <2>6. \A x \in InFlight(engine) \ {sel} :
          /\ Pending(work, 0, {}, x) = Pending(work, 0, {}, x)
          /\ Pending(outcomes, 0, {}, x) = Pending(outcomes, 0, {}, x)
    OBVIOUS
  <2> HIDE DEF b3, e3
  <2>7. QED
    BY <1>1, <1>2, <2>1, <2>2, <2>3, <2>4, <2>5, <2>6, OneHolds
<1> HIDE DEF e3
<1>8. StoreHolds(log, head, StartCalls(e3, up), work, 0, outcomes, 0, {})
      /\ AskedNone(StartCalls(e3, up))
  BY <1>2, <1>7, StartHolds
<1>9. QED
  BY <1>1, <1>2, <1>8 DEF Kept

LEMMA RestartKeeps ==
  ASSUME DownloadInv, Restart
  PROVE  Kept(engine', work', outcomes')
<1>1. PICK e : e = InitializeIn(engine, wants')
  OBVIOUS
<1>2. PICK c \in BOOLEAN : c = FALSE
  OBVIOUS
<1>3. engine' = StartCalls(e, c) /\ work' = <<>> /\ outcomes' = <<>>
  BY <1>1, <1>2 DEF Restart
<1>4. H!IsHistory(log) /\ head \in 0..Len(log) /\ head \in Nat
      /\ StoreHolds(log, head, engine, work, 0, outcomes, 0, {})
  BY DEF DownloadInv, DatabaseTypes, H!IsHistory
<1>5. StoreHolds(log, head, e, <<>>, 0, <<>>, 0, {})
  BY <1>1, <1>4, InitializeHolds
<1>6. StoreHolds(log, head, engine', <<>>, 0, <<>>, 0, {}) /\ AskedNone(engine')
  BY <1>3, <1>4, <1>5, StartHolds
<1>7. QED
  BY <1>3, <1>6, EmptyQueues DEF Kept

-----------------------------------------------------------------------------
(* The connection.                                                         *)

FeedOK(l, h, f, u, q) ==
  /\ f = NoFeed \/ f \in [told : SUBSET Selectors, sent : 0..h, vouched : -1..h]
  /\ f # NoFeed => u /\ Len(q) <= MaxInbox
  /\ IsSequence(q) /\ Len(q) <= MaxInbox + 1
  /\ \A i \in DOMAIN q : FrameHolds(l, h, q[i])
  /\ \A i \in DOMAIN q : q[i].kind = "end" => i = Len(q) /\ f = NoFeed

LEMMA FeedOKIs == FeedTypes <=> FeedOK(log, head, feed, up, inbox)
BY DEF FeedTypes, FeedOK

\* A frame more, of a connection that is there.
LEMMA DeliverHolds ==
  ASSUME NEW l, NEW h, NEW f, NEW u, NEW q, FeedOK(l, h, f, u, q), f # NoFeed,
         NEW frame, FrameHolds(l, h, frame), NEW f2,
         f2 = NoFeed \/ (/\ f2 \in [told : SUBSET Selectors, sent : 0..h, vouched : -1..h]
                         /\ Len(q) < MaxInbox /\ frame.kind # "end")
  PROVE  FeedOK(l, h, f2, u, Append(q, frame))
<1> DEFINE q2 == Append(q, frame)
<1>1. IsSequence(q) /\ Len(q) <= MaxInbox /\ u /\ Len(q) \in Nat /\ MaxInbox \in Nat
  BY ReplicaAssumption DEF FeedOK, IsSequence
<1>2. /\ IsSequence(q2) /\ Len(q2) = Len(q) + 1
      /\ \A i \in 1..Len(q) : q2[i] = q[i]
      /\ q2[Len(q) + 1] = frame
  BY <1>1, AppendIs
<1>3. DOMAIN q = 1..Len(q) /\ DOMAIN q2 = 1..Len(q) + 1
  BY <1>1, <1>2, SequenceSeq
<1> HIDE DEF q2
<1>4. \A i \in DOMAIN q2 : FrameHolds(l, h, q2[i])
  <2>1. \A i \in 1..Len(q) : FrameHolds(l, h, q[i])
    BY <1>3 DEF FeedOK
  <2>2. \A i \in DOMAIN q2 : i \in 1..Len(q) \/ i = Len(q) + 1
    BY <1>1, <1>3
  <2>3. QED
    BY <1>2, <2>1, <2>2
<1>5. \A i \in DOMAIN q2 : q2[i].kind = "end" => i = Len(q2) /\ f2 = NoFeed
  <2>1. \A i \in 1..Len(q) : q[i].kind # "end"
    BY <1>3 DEF FeedOK
  <2>2. \A i \in DOMAIN q2 : i \in 1..Len(q) \/ i = Len(q) + 1
    BY <1>1, <1>3
  <2>3. QED
    BY <1>2, <2>1, <2>2
<1>6. Len(q2) <= MaxInbox + 1 /\ (f2 # NoFeed => Len(q2) <= MaxInbox)
  BY <1>1, <1>2
<1>7. QED
  BY <1>1, <1>2, <1>4, <1>5, <1>6 DEF FeedOK, q2

\* The frames past the first k.
LEMMA SuffixHolds ==
  ASSUME NEW l, NEW h, NEW f, NEW u, NEW q, FeedOK(l, h, f, u, q), NEW k \in 0..Len(q),
         NEW q2, IsSequence(q2), Len(q2) = Len(q) - k, \A i \in 1..Len(q2) : q2[i] = q[i + k],
         NEW u2, f # NoFeed => u2
  PROVE  FeedOK(l, h, f, u2, q2)
<1>1. IsSequence(q) /\ Len(q) \in Nat /\ MaxInbox \in Nat
  BY ReplicaAssumption DEF FeedOK, IsSequence
<1>2. DOMAIN q = 1..Len(q) /\ DOMAIN q2 = 1..Len(q) - k
  BY <1>1, SequenceSeq
<1>3. \A i \in DOMAIN q2 : i + k \in DOMAIN q /\ q2[i] = q[i + k] /\ i \in Nat
  BY <1>1, <1>2
<1>4. \A i \in DOMAIN q2 : FrameHolds(l, h, q2[i])
  BY <1>3 DEF FeedOK
<1>5. \A i \in DOMAIN q2 : q2[i].kind = "end" => i + k = Len(q) /\ f = NoFeed
  BY <1>3 DEF FeedOK
<1>6. \A i \in DOMAIN q2 : q2[i].kind = "end" => i = Len(q2) /\ f = NoFeed
  BY <1>1, <1>3, <1>5
<1>7. Len(q2) <= Len(q)
  BY <1>1
<1>8. Len(q) <= MaxInbox + 1 /\ (f # NoFeed => Len(q) <= MaxInbox)
  BY DEF FeedOK
<1>9. Len(q2) <= MaxInbox + 1 /\ (f # NoFeed => Len(q2) <= MaxInbox)
  BY <1>1, <1>7, <1>8
<1>10. QED
  BY <1>4, <1>6, <1>9 DEF FeedOK

LEMMA IntersectType ==
  ASSUME NEW g \in SUBSET Selectors, NEW ws \in SUBSET Selectors
  PROVE  Intersect(g, ws) \in SUBSET Selectors /\ IsView(ViewOf(Intersect(g, ws)))
<1>1. Intersect(g, ws) \in SUBSET Selectors
  BY DEF Intersect
<1>2. QED
  BY <1>1 DEF ViewOf, IsView

LEMMA NextShownIs ==
  ASSUME head \in Nat, feed.sent \in 0..head
  PROVE  /\ NextShown \in feed.sent + 1..head + 1
         /\ NextShown <= head => ReadAt(NextShown, Shown(feed.told)) # {}
         /\ \A p \in feed.sent + 1..head : p < NextShown => ReadAt(p, Shown(feed.told)) = {}
<1> DEFINE due == {p \in feed.sent + 1..head : ReadAt(p, Shown(feed.told)) # {}}
<1>1. NextShown = IF due = {} THEN head + 1 ELSE CHOOSE p \in due : \A q \in due : p <= q
  BY DEF NextShown
<1>2. CASE due = {}
  BY <1>1, <1>2
<1>3. CASE due # {}
  <2>1. due \in SUBSET Nat
    OBVIOUS
  <2> HIDE DEF due
  <2>2. \E p \in due : \A q \in due : p <= q
    BY <1>3, <2>1, LeastOf
  <2>3. NextShown \in due /\ \A q \in due : NextShown <= q
    BY <1>1, <1>3, <2>2
  <2>4. NextShown \in feed.sent + 1..head /\ ReadAt(NextShown, Shown(feed.told)) # {}
    BY <2>3 DEF due
  <2>5. \A p \in feed.sent + 1..head : p < NextShown => p \notin due
    BY <2>3, <2>4
  <2>6. QED
    BY <2>4, <2>5 DEF due
<1>4. QED
  BY <1>2, <1>3

\* What the connection's actions find.
LEMMA FeedIs ==
  ASSUME DownloadInv, feed # NoFeed
  PROVE  /\ H!IsHistory(log) /\ head \in 0..Len(log) /\ head \in Nat
         /\ feed \in [told : SUBSET Selectors, sent : 0..head, vouched : -1..head]
         /\ FeedOK(log, head, feed, up, inbox)
         /\ Intersect(granted, wants) \in SUBSET Selectors
         /\ IsView(ViewOf(Intersect(granted, wants)))
<1>1. /\ H!IsHistory(log) /\ head \in 0..Len(log) /\ head \in Nat
      /\ granted \in Grants /\ wants \in Builds
  BY DEF DownloadInv, DatabaseTypes, H!IsHistory
<1>2. FeedOK(log, head, feed, up, inbox)
  BY FeedOKIs DEF DownloadInv
<1>3. feed \in [told : SUBSET Selectors, sent : 0..head, vouched : -1..head]
  BY <1>2 DEF FeedOK
<1>4. granted \in SUBSET Selectors /\ wants \in SUBSET Selectors
  BY <1>1, ReplicaAssumption
<1>5. QED
  BY <1>1, <1>2, <1>3, <1>4, IntersectType

LEMMA EditsFeed ==
  ASSUME DownloadInv, FeedEdits
  PROVE  FeedOK(log, head, feed', up, inbox')
<1> DEFINE n == NextShown
           edits == ReadAt(n, Shown(feed.told))
           frame == [kind |-> "edits", position |-> n, edits |-> edits]
<1>1. /\ feed # NoFeed /\ Len(inbox) < MaxInbox /\ n <= head
      /\ inbox' = Append(inbox, frame) /\ feed' = [feed EXCEPT !.sent = n]
  BY DEF FeedEdits, Deliver
<1>2. /\ H!IsHistory(log) /\ head \in 0..Len(log) /\ head \in Nat
      /\ feed \in [told : SUBSET Selectors, sent : 0..head, vouched : -1..head]
      /\ FeedOK(log, head, feed, up, inbox)
  BY <1>1, FeedIs
<1>3. n \in 1..head
  <2>1. n \in feed.sent + 1..head + 1 /\ feed.sent \in 0..head
    BY <1>2, NextShownIs
  <2>2. QED
    BY <1>1, <1>2, <2>1
<1>4. \A edit \in edits : IsOf(log, head, edit)
  <2>1. edits = ReadOf(log, head, n, Shown(feed.told))
    BY ReadAtIs
  <2>2. Shown(feed.told) \in SUBSET Slices
    BY <1>2 DEF Shown, Selectors
  <2>3. PICK p \in 1..head, x \in SUBSET Slices : p = n /\ x = Shown(feed.told)
    BY <1>3, <2>2
  <2>4. \A edit \in ReadOf(log, head, p, x) : IsOf(log, head, edit)
    BY <1>2, ReadOfHolds
  <2>5. QED
    BY <2>1, <2>3, <2>4
<1> HIDE DEF n, edits
<1>5. FrameHolds(log, head, frame) /\ frame.kind = "edits"
  BY <1>3, <1>4 DEF FrameHolds
<1>6. feed' \in [told : SUBSET Selectors, sent : 0..head, vouched : -1..head]
  <2>1. n \in 0..head
    BY <1>2, <1>3
  <2>2. QED
    BY <1>1, <1>2, <2>1
<1> HIDE DEF frame
<1>7. QED
  BY <1>1, <1>2, <1>5, <1>6, DeliverHolds

LEMMA ViewFeed ==
  ASSUME DownloadInv, FeedView
  PROVE  FeedOK(log, head, feed', up, inbox')
<1> DEFINE v == Intersect(granted, wants)
<1>1. /\ feed # NoFeed /\ Len(inbox) < MaxInbox
  BY DEF FeedView
<1>2. PICK p \in feed.sent..NextShown - 1 :
        /\ inbox' = Append(inbox, [kind |-> "view", position |-> p, view |-> ViewOf(v)])
        /\ feed' = [feed EXCEPT !.told = v, !.sent = p]
  BY DEF FeedView, Deliver
<1>3. /\ H!IsHistory(log) /\ head \in 0..Len(log) /\ head \in Nat
      /\ feed \in [told : SUBSET Selectors, sent : 0..head, vouched : -1..head]
      /\ FeedOK(log, head, feed, up, inbox)
      /\ v \in SUBSET Selectors /\ IsView(ViewOf(v))
  BY <1>1, FeedIs
<1>4. p \in 0..head
  <2>1. NextShown \in feed.sent + 1..head + 1 /\ feed.sent \in 0..head
    BY <1>3, NextShownIs
  <2>2. PICK m : m = NextShown
    OBVIOUS
  <2>3. QED
    BY <1>2, <1>3, <2>1, <2>2
<1> HIDE DEF v
<1> DEFINE frame == [kind |-> "view", position |-> p, view |-> ViewOf(v)]
<1>5. FrameHolds(log, head, frame) /\ frame.kind = "view"
  BY <1>3, <1>4 DEF FrameHolds
<1>6. feed' \in [told : SUBSET Selectors, sent : 0..head, vouched : -1..head]
  BY <1>2, <1>3, <1>4
<1>7. inbox' = Append(inbox, frame)
  BY <1>2
<1> HIDE DEF frame
<1>8. QED
  BY <1>1, <1>3, <1>5, <1>6, <1>7, DeliverHolds

LEMMA CursorFeed ==
  ASSUME DownloadInv, FeedCursor
  PROVE  FeedOK(log, head, feed', up, inbox')
<1> DEFINE frame == [kind |-> "cursor", position |-> head]
<1>1. /\ feed # NoFeed /\ Len(inbox) < MaxInbox /\ inbox' = Append(inbox, frame)
      /\ feed' = [feed EXCEPT !.sent = head, !.vouched = head]
  BY DEF FeedCursor, Deliver
<1>2. /\ head \in Nat /\ FeedOK(log, head, feed, up, inbox)
      /\ feed \in [told : SUBSET Selectors, sent : 0..head, vouched : -1..head]
  BY <1>1, FeedIs
<1>3. FrameHolds(log, head, frame) /\ frame.kind = "cursor"
  BY <1>2 DEF FrameHolds
<1>4. feed' \in [told : SUBSET Selectors, sent : 0..head, vouched : -1..head]
  <2>1. head \in 0..head /\ head \in -1..head
    BY <1>2
  <2>2. QED
    BY <1>1, <1>2, <2>1
<1> HIDE DEF frame
<1>5. QED
  BY <1>1, <1>2, <1>3, <1>4, DeliverHolds

LEMMA DropsFeed ==
  ASSUME DownloadInv, FeedDrops
  PROVE  FeedOK(log, head, feed', up, inbox')
<1> DEFINE frame == [kind |-> "end"]
<1>1. feed # NoFeed /\ inbox' = Append(inbox, frame) /\ feed' = NoFeed
  BY DEF FeedDrops, Deliver
<1>2. FeedOK(log, head, feed, up, inbox)
  BY <1>1, FeedIs
<1>3. FrameHolds(log, head, frame)
  BY DEF FrameHolds
<1> HIDE DEF frame
<1>4. QED
  BY <1>1, <1>2, <1>3, DeliverHolds

\* A queue past its first k.
LEMMA DropFirst ==
  ASSUME NEW q, IsSequence(q), NEW k \in 0..Len(q)
  PROVE  LET q2 == SubSeq(q, k + 1, Len(q)) IN
         /\ IsSequence(q2) /\ Len(q2) = Len(q) - k
         /\ \A i \in 1..Len(q2) : q2[i] = q[i + k]
<1>1. Len(q) \in Nat
  BY DEF IsSequence
<1>2. PICK a \in Nat, z \in Nat : a = k + 1 /\ z = Len(q) /\ a >= 1
  <2>1. k + 1 \in Nat /\ k + 1 >= 1
    BY <1>1
  <2>2. QED
    BY <1>1, <2>1
<1>3. PICK q2 : q2 = SubSeq(q, a, z)
  OBVIOUS
<1>4. /\ IsSequence(q2) /\ Len(q2) = IF a <= z THEN z - a + 1 ELSE 0
      /\ \A i \in 1..Len(q2) : q2[i] = q[i + a - 1]
  BY <1>2, <1>3, SubSeqIs
<1>5. Len(q2) = Len(q) - k
  BY <1>1, <1>2, <1>4
<1>6. ASSUME NEW i \in 1..Len(q2)
      PROVE  i + a - 1 = i + k
  BY <1>1, <1>2
<1>7. QED
  BY <1>2, <1>3, <1>4, <1>5, <1>6

LEMMA InboxFeed ==
  ASSUME DownloadInv, OnInbox
  PROVE  FeedOK(log, head, feed, up, inbox')
<1>1. FeedOK(log, head, feed, up, inbox)
  BY FeedOKIs DEF DownloadInv
<1>2. PICK k : k = Len(Ahead)
  OBVIOUS
<1>3. k \in 0..Len(inbox) /\ IsSequence(inbox)
  BY <1>2, AheadIs DEF DownloadInv, FeedTypes
<1>4. inbox' = SubSeq(inbox, k + 1, Len(inbox))
  BY <1>2 DEF OnInbox
<1>5. /\ IsSequence(inbox') /\ Len(inbox') = Len(inbox) - k
      /\ \A i \in 1..Len(inbox') : inbox'[i] = inbox[i + k]
  BY <1>3, <1>4, DropFirst
<1>6. feed # NoFeed => up
  BY <1>1 DEF FeedOK
<1>7. QED
  BY <1>1, <1>3, <1>5, <1>6, SuffixHolds

LEMMA EndFeed ==
  ASSUME DownloadInv, OnEnd
  PROVE  FeedOK(log, head, feed, up', inbox')
<1>1. inbox # <<>> /\ inbox[1].kind = "end" /\ inbox' = Tail(inbox)
  BY DEF OnEnd
<1>2. FeedOK(log, head, feed, up, inbox) /\ IsSequence(inbox) /\ Len(inbox) \in Nat
  BY FeedOKIs DEF DownloadInv, FeedOK, IsSequence
<1>3. /\ IsSequence(inbox') /\ Len(inbox') = Len(inbox) - 1
      /\ \A i \in 1..Len(inbox) - 1 : inbox'[i] = inbox[i + 1]
  BY <1>1, <1>2, TailIs
<1>4. Len(inbox') \in Nat
  BY <1>3 DEF IsSequence
<1>5. 1 \in 0..Len(inbox) /\ 1 \in DOMAIN inbox
  BY <1>2, <1>3, <1>4, SequenceSeq
<1>6. feed = NoFeed
  BY <1>1, <1>2, <1>5 DEF FeedOK
<1>7. QED
  BY <1>2, <1>3, <1>5, <1>6, SuffixHolds

LEMMA ConnectFeed ==
  ASSUME DownloadInv, OnConnect
  PROVE  FeedOK(log, head, feed', up', inbox')
<1> DEFINE sent == IF engine.cursor = -1 THEN head ELSE engine.cursor
           v == Intersect(granted, wants)
           frame == [kind |-> "view", position |-> sent, view |-> ViewOf(v)]
<1>1. /\ feed' = [told |-> v, sent |-> sent, vouched |-> -1] /\ up' = TRUE
      /\ inbox' = <<>> \/ inbox' = <<frame>>
  BY DEF OnConnect
<1>2. /\ head \in Nat /\ granted \in Grants /\ wants \in Builds /\ engine.cursor \in -1..head
  BY DEF DownloadInv, DatabaseTypes, H!IsHistory, StoreHolds, EngineTypes
<1>3. v \in SUBSET Selectors /\ IsView(ViewOf(v))
  BY <1>2, ReplicaAssumption, IntersectType
<1>4. sent \in 0..head /\ -1 \in -1..head
  BY <1>2
<1> HIDE DEF v, sent
<1>5. feed' \in [told : SUBSET Selectors, sent : 0..head, vouched : -1..head]
  BY <1>1, <1>3, <1>4
<1>6. FrameHolds(log, head, frame) /\ frame.kind # "end"
  BY <1>3, <1>4 DEF FrameHolds
<1>7. MaxInbox \in Nat /\ MaxInbox >= 1
  BY ReplicaAssumption
<1> HIDE DEF frame
<1>8. CASE inbox' = <<>>
  <2>1. IsSequence(inbox') /\ Len(inbox') = 0 /\ DOMAIN inbox' = {}
    BY <1>8, EmptyIs, SequenceSeq
  <2>2. QED
    BY <1>1, <1>5, <1>7, <2>1 DEF FeedOK
<1>9. CASE inbox' = <<frame>>
  <2>1. IsSequence(inbox') /\ Len(inbox') = 1 /\ DOMAIN inbox' = 1..1 /\ inbox'[1] = frame
    BY <1>9, OneIs, SequenceSeq
  <2>2. \A i \in DOMAIN inbox' : inbox'[i] = frame
    BY <2>1
  <2>3. QED
    BY <1>1, <1>5, <1>6, <1>7, <2>1, <2>2 DEF FeedOK
<1>10. QED
  BY <1>1, <1>8, <1>9

LEMMA NoneFeed == FeedOK(log, head, NoFeed, FALSE, <<>>)
<1>1. IsSequence(<<>>) /\ DOMAIN <<>> = {} /\ Len(<<>>) = 0
  BY EmptyIs, SequenceSeq
<1>2. MaxInbox \in Nat
  BY ReplicaAssumption
<1>3. QED
  BY <1>1, <1>2 DEF FeedOK

\* A step of the database's or the connection's, which leaves the queues.
LEMMA StoreStays ==
  ASSUME DownloadInv, UNCHANGED <<engine, work, outcomes>>
  PROVE  Kept(engine', work', outcomes')
BY DEF DownloadInv, Kept

\* What each action does to the store's part.
LEMMA AllKeep ==
  ASSUME DownloadInv, Next, ~Commit
  PROVE  Kept(engine', work', outcomes')
<1>1. CASE ChangeGrant
  BY <1>1, StoreStays DEF ChangeGrant, queues
<1>2. CASE Feed
  BY <1>2, StoreStays DEF Feed, FeedEdits, FeedView, FeedCursor
<1>3. CASE Advancer
  BY <1>3, InboxKeeps, EndKeeps, OutcomesKeep, WorkKeep, ConnectKeeps DEF Advancer
<1>4. CASE Downloads
  <2>1. PICK sel \in Selectors : Download(sel) \/ Retry(sel)
    BY <1>4 DEF Downloads
  <2>2. QED
    BY <2>1, OpenKeeps, PageKeeps, TailKeeps, DoneKeeps, RetryKeeps DEF Download
<1>5. CASE Fault
  <2>1. CASE FeedDrops
    BY <2>1, StoreStays DEF FeedDrops
  <2>2. CASE Restart
    BY <2>2, RestartKeeps
  <2>3. ASSUME NEW sel \in Selectors, CallFails(sel)
        PROVE  Kept(engine', work', outcomes')
    BY <2>3, FailsKeeps
  <2>4. QED
    BY <1>5, <2>1, <2>2, <2>3 DEF Fault
<1>6. QED
  BY <1>1, <1>2, <1>3, <1>4, <1>5 DEF Next, Database

\* And to the connection's.
LEMMA FeedKeeps ==
  ASSUME DownloadInv, Next, ~Commit
  PROVE  FeedOK(log, head, feed', up', inbox')
<1>1. FeedOK(log, head, feed, up, inbox)
  BY FeedOKIs DEF DownloadInv
<1>2. CASE ChangeGrant
  BY <1>1, <1>2 DEF ChangeGrant, queues
<1>3. CASE Feed
  <2>1. up' = up
    BY <1>3 DEF Feed, FeedEdits, FeedView, FeedCursor
  <2>2. QED
    BY <1>3, <2>1, EditsFeed, ViewFeed, CursorFeed DEF Feed
<1>4. CASE Advancer
  <2>1. CASE OnInbox
    <3>1. feed' = feed /\ up' = up
      BY <2>1 DEF OnInbox
    <3>2. QED
      BY <2>1, <3>1, InboxFeed
  <2>2. CASE OnEnd
    <3>1. feed' = feed
      BY <2>2 DEF OnEnd
    <3>2. QED
      BY <2>2, <3>1, EndFeed
  <2>3. CASE OnBackfillOutcomes
    BY <1>1, <2>3 DEF OnBackfillOutcomes
  <2>4. CASE OnBackfillWork
    BY <1>1, <2>4 DEF OnBackfillWork
  <2>5. CASE OnConnect
    BY <2>5, ConnectFeed
  <2>6. QED
    BY <1>4, <2>1, <2>2, <2>3, <2>4, <2>5 DEF Advancer
<1>5. CASE Downloads
  <2>1. PICK sel \in Selectors : Download(sel) \/ Retry(sel)
    BY <1>5 DEF Downloads
  <2>2. UNCHANGED <<feed, up, inbox>>
    BY <2>1 DEF Download, Retry, OpenBlob, NextPage, NextTail, CallDone, queues
  <2>3. QED
    BY <1>1, <2>2
<1>6. CASE Fault
  <2>1. CASE FeedDrops
    <3>1. up' = up
      BY <2>1 DEF FeedDrops
    <3>2. QED
      BY <2>1, <3>1, DropsFeed
  <2>2. CASE Restart
    <3>1. feed' = NoFeed /\ up' = FALSE /\ inbox' = <<>>
      BY <2>2 DEF Restart
    <3>2. QED
      BY <3>1, NoneFeed
  <2>3. ASSUME NEW sel \in Selectors, CallFails(sel)
        PROVE  UNCHANGED <<feed, up, inbox>>
    BY <2>3 DEF CallFails
  <2>4. QED
    BY <1>1, <1>6, <2>1, <2>2, <2>3 DEF Fault
<1>7. QED
  BY <1>2, <1>3, <1>4, <1>5, <1>6 DEF Next, Database

LEMMA DatabaseKeeps ==
  ASSUME DatabaseTypes, Next, ~Commit
  PROVE  DatabaseTypes' /\ UNCHANGED <<log, head>>
<1>1. CASE ChangeGrant
  BY <1>1 DEF ChangeGrant, DatabaseTypes
<1>2. CASE Feed
  BY <1>2 DEF Feed, FeedEdits, FeedView, FeedCursor, DatabaseTypes, database
<1>3. CASE Advancer
  <2>1. UNCHANGED <<log, head, granted, wants>>
    BY <1>3 DEF Advancer, OnInbox, OnEnd, OnBackfillOutcomes, OnBackfillWork, OnConnect, database
  <2>2. up' \in BOOLEAN
    BY <1>3 DEF Advancer, OnInbox, OnEnd, OnBackfillOutcomes, OnBackfillWork, OnConnect,
                DatabaseTypes
  <2>3. QED
    BY <2>1, <2>2 DEF DatabaseTypes
<1>4. CASE Downloads
  <2>1. PICK sel \in Selectors : Download(sel) \/ Retry(sel)
    BY <1>4 DEF Downloads
  <2>2. UNCHANGED <<log, head, granted, wants, up>>
    BY <2>1 DEF Download, Retry, OpenBlob, NextPage, NextTail, CallDone, database
  <2>3. QED
    BY <2>2 DEF DatabaseTypes
<1>5. CASE Fault
  BY <1>5 DEF Fault, FeedDrops, Restart, CallFails, DatabaseTypes, database
<1>6. QED
  BY <1>1, <1>2, <1>3, <1>4, <1>5 DEF Next, Database

LEMMA CommitHolds ==
  ASSUME DownloadInv, Commit
  PROVE  DownloadInv'
<1>1. /\ H!IsHistory(log) /\ head \in 0..Len(log) /\ head + 1 \in head..Len(log)
      /\ head \in Nat
  BY DEF DownloadInv, DatabaseTypes, H!IsHistory, Commit
<1>2. PICK k \in head..Len(log) : k = head + 1
  BY <1>1
<1>3. /\ head' = k /\ UNCHANGED <<log, granted, feed, wants, engine, up, inbox, work, outcomes>>
  BY <1>2 DEF Commit, queues
<1>4. StoreHolds(log, k, engine, work, 0, outcomes, 0, {})
  <2>1. StoreHolds(log, head, engine, work, 0, outcomes, 0, {})
    BY DEF DownloadInv
  <2>2. QED
    BY <1>1, <2>1, StoreGrows
<1>5. DatabaseTypes'
  <2>1. k \in 0..Len(log)
    BY <1>1
  <2>2. QED
    BY <1>3, <2>1 DEF DownloadInv, DatabaseTypes
<1>6. FeedOK(log, k, feed, up, inbox)
  <2>1. FeedOK(log, head, feed, up, inbox)
    BY FeedOKIs DEF DownloadInv
  <2>2. \A i \in DOMAIN inbox : FrameHolds(log, k, inbox[i])
    BY <1>1, <2>1, FrameGrows DEF FeedOK
  <2>3. 0..head \subseteq 0..k /\ -1..head \subseteq -1..k
    BY <1>1
  <2>4. feed = NoFeed \/ feed \in [told : SUBSET Selectors, sent : 0..k, vouched : -1..k]
    BY <2>1, <2>3 DEF FeedOK
  <2>5. QED
    BY <2>1, <2>2, <2>4 DEF FeedOK
<1>7. FeedTypes'
  BY <1>3, <1>6 DEF FeedTypes, FeedOK
<1>8. (QueueTypes(work, outcomes) /\ AskedNone(engine))'
  BY <1>3 DEF DownloadInv
<1>9. (StoreHolds(log, head, engine, work, 0, outcomes, 0, {}))'
  BY <1>3, <1>4
<1>10. QED
  BY <1>5, <1>7, <1>8, <1>9 DEF DownloadInv

LEMMA DownloadStep ==
  ASSUME DownloadInv, [Next]_vars
  PROVE  DownloadInv'
<1>1. CASE Commit
  BY <1>1, CommitHolds
<1>2. CASE Next /\ ~Commit
  <2>1. DatabaseTypes' /\ UNCHANGED <<log, head>>
    BY <1>2, DatabaseKeeps DEF DownloadInv
  <2>2. FeedTypes'
    BY <1>2, <2>1, FeedKeeps DEF FeedTypes, FeedOK
  <2>3. Kept(engine', work', outcomes')
    BY <1>2, AllKeep
  <2>4. (QueueTypes(work, outcomes) /\ AskedNone(engine))'
    BY <2>3 DEF Kept
  <2>5. (StoreHolds(log, head, engine, work, 0, outcomes, 0, {}))'
    BY <2>1, <2>3 DEF Kept
  <2>6. QED
    BY <2>1, <2>2, <2>4, <2>5 DEF DownloadInv
<1>3. CASE UNCHANGED vars
  <2>1. UNCHANGED <<log, head, granted, feed, wants, engine, up, inbox, work, outcomes>>
    BY <1>3 DEF vars, database, queues
  <2>2. DatabaseTypes' /\ FeedTypes'
    BY <2>1 DEF DownloadInv, DatabaseTypes, FeedTypes
  <2>3. (QueueTypes(work, outcomes) /\ AskedNone(engine))'
    BY <2>1 DEF DownloadInv
  <2>4. (StoreHolds(log, head, engine, work, 0, outcomes, 0, {}))'
    BY <2>1 DEF DownloadInv
  <2>5. QED
    BY <2>2, <2>3, <2>4 DEF DownloadInv
<1>4. QED
  BY <1>1, <1>2, <1>3

LEMMA DownloadStart ==
  ASSUME Init
  PROVE  DownloadInv
<1>1. /\ log \in Histories /\ head = 0 /\ granted \in Grants /\ feed = NoFeed
      /\ engine = EmptyStore /\ up = FALSE /\ inbox = <<>> /\ work = <<>> /\ outcomes = <<>>
      /\ wants \in Builds
  BY DEF Init, Start
<1>2. H!IsHistory(log) /\ Len(log) \in Nat /\ 0 \in 0..Len(log)
  BY <1>1, ReplicaAssumption DEF H!IsHistory
<1>3. DatabaseTypes
  BY <1>1, <1>2 DEF DatabaseTypes
<1>4. FeedTypes
  BY <1>1, NoneFeed, FeedOKIs
<1>5. IsStore(EmptyStore)
  BY DEF EmptyStore, IsStore
<1>6. InFlight(EmptyStore) = {}
  <2>1. EmptyStore.backfills = <<>>
    BY DEF EmptyStore
  <2>2. DOMAIN <<>> = {}
    OBVIOUS
  <2>3. QED
    BY <2>1, <2>2 DEF InFlight
<1>7. EngineTypes(log, 0, EmptyStore)
  <2>1. EmptyStore.backfills = [x \in InFlight(EmptyStore) |-> EmptyStore.backfills[x]]
    <3>1. EmptyStore.backfills = <<>>
      BY DEF EmptyStore
    <3>2. <<>> = [x \in {} |-> EmptyStore.backfills[x]]
      OBVIOUS
    <3>3. QED
      BY <1>6, <3>1, <3>2
  <2>2. /\ EmptyStore.failed = FALSE /\ EmptyStore.cursor = -1 /\ EmptyStore.applied = -1
        /\ EmptyStore.view = NoView /\ EmptyStore.seqs = [s \in Slices |-> 0]
        /\ EmptyStore.base = [s \in Slices |-> {}] /\ EmptyStore.park = {}
    BY DEF EmptyStore
  <2>3. EmptyStore.seqs \in [Slices -> 0..0] /\ EmptyStore.base \in [Slices -> SUBSET Nat]
    BY <2>2
  <2>4. QED
    BY <1>5, <1>6, <2>1, <2>2, <2>3 DEF EngineTypes
<1>8. StoreHolds(log, 0, EmptyStore, <<>>, 0, <<>>, 0, {}) /\ AskedNone(EmptyStore)
  BY <1>6, <1>7, EmptyQueues DEF StoreHolds, DownloadsHold, AskedNone
<1>9. QED
  BY <1>1, <1>3, <1>4, <1>8, EmptyQueues DEF DownloadInv

\* In every run, each backfill's record, the pushes and outcomes that wait for it, and
\* the call that runs for it agree on what was downloaded: whatever the order in which
\* #onBackfillWork parks, #onBackfillOutcomes judges, connections end and builds start.
THEOREM DownloadsAgree == Spec => []DownloadInv
<1>1. Init => DownloadInv
  BY DownloadStart
<1>2. DownloadInv /\ [Next]_vars => DownloadInv'
  BY DownloadStep
<1>3. QED
  BY <1>1, <1>2, PTL DEF Spec

LEMMA NeverFails == DownloadInv => EngineNeverFails
BY DEF DownloadInv, StoreHolds, EngineTypes, EngineNeverFails

\* #parkPush never throws: a push other than a header finds the resume its header left.
THEOREM NoPushWithoutResume == Spec => []EngineNeverFails
BY DownloadsAgree, NeverFails, PTL

-----------------------------------------------------------------------------
(* The types.                                                              *)

LEMMA EntryTypes ==
  ASSUME DownloadInv, NEW x \in InFlight(engine)
  PROVE  BackfillOK(engine.backfills[x])
<1> DEFINE b == engine.backfills[x]
<1>1. /\ head \in Nat /\ x \in Selectors /\ IsBackfill(b)
      /\ DownloadHolds(log, head, b, x, engine.park, work, Pending(work, 0, {}, x),
                       outcomes, Pending(outcomes, 0, {}, x))
  BY BackfillIs
<1> HIDE DEF b
<1>2. b.until \in Nat
  BY <1>1 DEF DownloadHolds
<1>3. b.resume \in ResumeType \cup {NoResume}
  BY <1>1 DEF DownloadHolds, ResumeHolds, ResumeType2, ResumeType, Positions
<1>4. b.call \in CallType \cup {NoCall}
  BY <1>1 DEF DownloadHolds, CallHolds, CallType2, CallType, Positions
<1>5. \A flag \in {b.ready, b.retry, b.asked} : flag \in BOOLEAN
  BY <1>1 DEF IsBackfill
<1>6. /\ b.header \in [Slices -> Positions]
      /\ \A page \in b.pages : page.at \in Nat /\ page.slice \in Slices /\ page.state \in States
  <2>1. CASE b.resume = NoResume
    <3>1. b.header = [s \in Slices |-> 0] /\ b.pages = {}
      BY <1>1, <2>1 DEF DownloadHolds, ResumeHolds, Blank
    <3>2. 0 \in Positions
      BY <1>1 DEF Positions
    <3>3. QED
      BY <3>1, <3>2
  <2>2. CASE b.resume # NoResume
    <3> DEFINE r == b.resume
    <3>1. r \in ResumeType2(head) /\ SnapshotHolds(log, b, x, r)
      BY <1>1, <2>2 DEF DownloadHolds, ResumeHolds
    <3>2. PICK c \in 0..head : c = r.position
      BY <3>1 DEF ResumeType2
    <3>3. c \in Nat /\ r.skip \in Nat
      BY <1>1, <3>1 DEF ResumeType2
    <3>4. b.header \in [Slices -> Positions]
      <4>1. b.header = HeaderOf(log, x, c)
        BY <3>1, <3>2 DEF SnapshotHolds
      <4>2. HeaderOf(log, x, c) \in [Slices -> 0..c]
        BY <3>3, HeaderType
      <4>3. 0..c \subseteq Positions
        BY <1>1, <3>2 DEF Positions
      <4>4. QED
        BY <4>1, <4>2, <4>3
    <3>5. ASSUME NEW page \in b.pages
          PROVE  page.at \in Nat /\ page.slice \in Slices /\ page.state \in States
      <4>1. /\ r.skip <= Len(PagesOf(log, x, c))
            /\ b.pages = {PageOf(log, x, c, i) : i \in 1..r.skip}
        BY <3>1, <3>2 DEF SnapshotHolds
      <4>2. PICK i \in 1..r.skip : page = PageOf(log, x, c, i)
        BY <4>1
      <4>3. PICK s : s = PagesOf(log, x, c)[i]
        OBVIOUS
      <4>4. Len(PagesOf(log, x, c)) \in Nat
            /\ \A j \in 1..Len(PagesOf(log, x, c)) : PagesOf(log, x, c)[j] \in x
        BY <1>1, <3>3, PagesHold
      <4>5. i \in 1..Len(PagesOf(log, x, c))
        BY <3>3, <4>1, <4>2, <4>4
      <4>6. s \in Slices
        BY <1>1, <4>3, <4>4, <4>5 DEF Selectors
      <4>7. H!StateAt(log, s, c) \in States
        BY <3>3, StateType DEF States
      <4>8. page = [at |-> i - 1, slice |-> s, state |-> H!StateAt(log, s, c)]
        BY <4>2, <4>3 DEF PageOf
      <4>9. i - 1 \in Nat
        BY <3>3, <4>2
      <4>10. QED
        BY <4>6, <4>7, <4>8, <4>9
    <3>6. QED
      BY <3>4, <3>5
  <2>3. QED
    BY <2>1, <2>2
<1>7. QED
  BY <1>2, <1>3, <1>4, <1>5, <1>6 DEF BackfillOK, b

LEMMA TypesFollow == DownloadInv => TypeOK
<1> SUFFICES ASSUME DownloadInv
             PROVE  TypeOK
  OBVIOUS
<1>1. /\ EngineTypes(log, head, engine) /\ H!IsHistory(log) /\ head \in 0..Len(log)
      /\ head \in Nat
  BY DEF DownloadInv, StoreHolds, DatabaseTypes, H!IsHistory
<1>2. engine.cursor \in Positions \cup {-1} /\ engine.applied \in Positions \cup {-1}
      /\ engine.applied <= engine.cursor
  BY <1>1 DEF EngineTypes, Positions
<1>3. engine.seqs \in [Slices -> Positions] /\ engine.base \in [Slices -> States]
  BY <1>1 DEF EngineTypes, Positions, States
<1>4. engine.park \subseteq EditType
  <2>1. ASSUME NEW edit \in engine.park
        PROVE  edit \in EditType
    <3>1. IsOf(log, head, edit)
      BY <1>1 DEF EngineTypes
    <3>2. /\ edit.slice \in Slices /\ edit.position \in 1..head /\ edit.seq \in 1..head
          /\ edit.life \in {"birth", "normal", "death"}
          /\ edit = EditOf(log, edit.slice, edit.position)
      BY <1>1, <3>1, EditTypes
    <3>3. edit = [slice |-> edit.slice, position |-> edit.position, seq |-> edit.seq,
                  life |-> edit.life]
      BY <3>2 DEF EditOf
    <3>4. edit.position \in Positions /\ edit.seq \in Nat
      BY <1>1, <3>2 DEF Positions
    <3>5. QED
      BY <3>2, <3>3, <3>4 DEF EditType
  <2>2. QED
    BY <2>1
<1>5. engine.view = NoView \/ engine.view \in [token : SUBSET Selectors,
                                              selectors : SUBSET Selectors]
  BY <1>1 DEF EngineTypes, IsView
<1>6. InFlight(engine) \subseteq Selectors
      /\ \A x \in InFlight(engine) : BackfillOK(engine.backfills[x])
  BY <1>1, EntryTypes DEF EngineTypes
<1>7. Len(inbox) <= MaxInbox + 1 /\ Len(work) <= MaxWork
  BY DEF DownloadInv, FeedTypes, QueueTypes
<1>8. QED
  BY <1>2, <1>3, <1>4, <1>5, <1>6, <1>7 DEF TypeOK

\* What the Engine persists and what waits for it is of its types, each position at most
\* the head and the applied one at most the cursor (#advanceCursorIn, #landIn).
THEOREM ReplicaTypes == Spec => []TypeOK
BY DownloadsAgree, TypesFollow, PTL

-----------------------------------------------------------------------------
(* The view.                                                               *)

\* Of frames past n and before i, the last view's selectors are t, or there is none
\* and it was t before.
Leads(frames, n, i, v, t) ==
  \/ v = t /\ \A j \in n + 1..i - 1 : frames[j].kind # "view"
  \/ \E j \in n + 1..i - 1 :
       /\ frames[j].kind = "view" /\ frames[j].view.selectors = t
       /\ \A k \in j + 1..i - 1 : frames[k].kind # "view"

\* One frame read.
LEMMA LeadsOn ==
  ASSUME NEW frames, NEW n \in Nat, NEW i \in Nat, n + 1 < i, NEW v, NEW t, Leads(frames, n, i, v, t),
         NEW v2, v2 = IF frames[n + 1].kind = "view" THEN frames[n + 1].view.selectors ELSE v
  PROVE  Leads(frames, n + 1, i, v2, t)
<1>1. n + 1 \in n + 1..i - 1 /\ \A j \in n + 2..i - 1 : j \in n + 1..i - 1
  OBVIOUS
<1>2. CASE v = t /\ \A j \in n + 1..i - 1 : frames[j].kind # "view"
  BY <1>1, <1>2 DEF Leads
<1>3. CASE \E j \in n + 1..i - 1 : /\ frames[j].kind = "view" /\ frames[j].view.selectors = t
                                   /\ \A k \in j + 1..i - 1 : frames[k].kind # "view"
  <2>1. PICK j \in n + 1..i - 1 : /\ frames[j].kind = "view" /\ frames[j].view.selectors = t
                                  /\ \A k \in j + 1..i - 1 : frames[k].kind # "view"
    BY <1>3
  <2>2. CASE j = n + 1
    BY <2>1, <2>2 DEF Leads
  <2>3. CASE j # n + 1
    <3>1. j \in n + 1 + 1..i - 1
      BY <2>3
    <3>2. QED
      BY <2>1, <3>1 DEF Leads
  <2>4. QED
    BY <2>2, <2>3
<1>4. QED
  BY <1>2, <1>3 DEF Leads

\* One frame more.
LEMMA LeadsFurther ==
  ASSUME NEW q, IsSequence(q), NEW frame, NEW v, NEW t, Leads(q, 0, Len(q) + 1, v, t)
  PROVE  LET q2 == Append(q, frame)
             t2 == IF frame.kind = "view" THEN frame.view.selectors ELSE t
         IN  Leads(q2, 0, Len(q2) + 1, v, t2)
<1> DEFINE q2 == Append(q, frame)
<1>1. PICK n \in Nat : n = Len(q)
  BY DEF IsSequence
<1>2. Len(q2) = n + 1 /\ q2[n + 1] = frame /\ \A i \in 1..n : q2[i] = q[i]
  BY <1>1, AppendIs
<1>3. Leads(q, 0, n + 1, v, t)
  BY <1>1
<1> HIDE DEF q2
<1>4. 0 + 1..n + 1 - 1 = 1..n /\ 0 + 1..n + 1 + 1 - 1 = 1..n + 1
  OBVIOUS
<1>5. CASE frame.kind = "view"
  <2>1. n + 1 \in 1..n + 1 /\ n + 1 + 1..n + 1 = {}
    OBVIOUS
  <2>2. n + 1 + 1..n + 1 + 1 - 1 = {}
    OBVIOUS
  <2>3. Leads(q2, 0, n + 1 + 1, v, frame.view.selectors)
    BY <1>2, <1>4, <1>5, <2>1, <2>2 DEF Leads
  <2>4. QED
    BY <1>2, <1>5, <2>3 DEF q2
<1>6. CASE frame.kind # "view"
  <2>1. \A j \in 1..n + 1 : j \in 1..n \/ j = n + 1
    OBVIOUS
  <2>2. CASE v = t /\ \A j \in 1..n : q[j].kind # "view"
    <3>1. \A j \in 1..n + 1 : q2[j].kind # "view"
      BY <1>2, <1>6, <2>1, <2>2
    <3>2. Leads(q2, 0, n + 1 + 1, v, t)
      BY <1>4, <2>2, <3>1 DEF Leads
    <3>3. QED
      BY <1>2, <1>6, <3>2 DEF q2
  <2>3. CASE \E j \in 1..n : /\ q[j].kind = "view" /\ q[j].view.selectors = t
                             /\ \A k \in j + 1..n : q[k].kind # "view"
    <3>1. PICK j \in 1..n : /\ q[j].kind = "view" /\ q[j].view.selectors = t
                            /\ \A k \in j + 1..n : q[k].kind # "view"
      BY <2>3
    <3>2. \A k \in j + 1..n + 1 : q2[k].kind # "view"
      <4>1. ASSUME NEW k \in j + 1..n + 1
            PROVE  q2[k].kind # "view"
        <5>1. CASE k = n + 1
          BY <1>2, <1>6, <5>1
        <5>2. CASE k # n + 1
          <6>1. k \in j + 1..n /\ k \in 1..n
            BY <5>2
          <6>2. QED
            BY <1>2, <3>1, <6>1
        <5>3. QED
          BY <5>1, <5>2
      <4>2. QED
        BY <4>1
    <3>3. q2[j] = q[j] /\ j \in 1..n + 1
      BY <1>2
    <3>4. n + 1 + 1 - 1 = n + 1
      OBVIOUS
    <3>5. Leads(q2, 0, n + 1 + 1, v, t)
      BY <1>4, <3>1, <3>2, <3>3, <3>4 DEF Leads
    <3>6. QED
      BY <1>2, <1>6, <3>5 DEF q2
  <2>4. n + 1 - 1 = n
    OBVIOUS
  <2>5. QED
    BY <1>3, <1>4, <2>2, <2>3, <2>4 DEF Leads
<1>7. QED
  BY <1>5, <1>6

-----------------------------------------------------------------------------
(* What keeps the view.                                                    *)

LEMMA LandView ==
  ASSUME NEW e, IsStore(e)
  PROVE  SameView(e, LandIn(e)) /\ SameView(e, TryLandIn(e))
<1>1. SameView(e, LandedIn(e))
  BY LandedIs
<1>2. ASSUME NEW sels, NEW more, NEW until
      PROVE  SameView(e, SpawnIn(RestartIn(e, sels), more, until))
  <2>1. SameRest(e, RestartIn(e, sels))
    BY RestartIs
  <2>2. PICK e1 : e1 = RestartIn(e, sels)
    OBVIOUS
  <2>3. SameRest(e1, SpawnIn(e1, more, until))
    <3>1. IsStore(e1)
      BY <2>1, <2>2 DEF SameRest
    <3>2. QED
      BY <3>1, SpawnIs
  <2>4. QED
    BY <2>1, <2>2, <2>3 DEF SameRest, SameView
<1>3. SameView(e, LandIn(e))
  BY <1>1, <1>2 DEF LandIn, SameView
<1>4. QED
  BY <1>3 DEF TryLandIn, SameView

LEMMA EditsView ==
  ASSUME NEW e, IsStore(e), NEW position \in Int, NEW edits
  PROVE  SameView(e, OnEditsIn(e, position, edits))
<1>1. CASE Frozen(e) \/ BrokenBy(e, edits) # {}
  <2>1. PICK e1 : e1 = SpawnIn(e, {{s} : s \in BrokenBy(e, edits)}, position)
    OBVIOUS
  <2>2. SameRest(e, e1)
    BY <2>1, SpawnIs
  <2>3. PICK e2 : e2 = ParkedEdits(e, position, edits)
    OBVIOUS
  <2>4. SetParkIs(e1, e.park \cup edits, e2)
    BY <2>1, <2>3, ParkedEditsIs
  <2>5. PICK c : c = FALSE
    OBVIOUS
  <2>6. SameView(e2, AdvanceCursorIn(e2, position, c))
    BY <2>4, AdvanceIs DEF SetParkIs
  <2>7. OnEditsIn(e, position, edits) = AdvanceCursorIn(e2, position, c)
    BY <1>1, <2>3, <2>5, OnEditsIs
  <2>8. QED
    BY <2>2, <2>4, <2>6, <2>7 DEF SameRest, SetParkIs, SameView
<1>2. CASE ~(Frozen(e) \/ BrokenBy(e, edits) # {})
  <2>1. PICK e2 : e2 = AppliedEdits(e, edits)
    OBVIOUS
  <2>2. IsStore(e2) /\ SameView(e, e2)
    BY <2>1, AppliedEditsIs
  <2>3. PICK c : c = TRUE
    OBVIOUS
  <2>4. SameView(e2, AdvanceCursorIn(e2, position, c))
    BY <2>2, AdvanceIs
  <2>5. OnEditsIn(e, position, edits) = AdvanceCursorIn(e2, position, c)
    BY <1>2, <2>1, <2>3, OnEditsIs
  <2>6. QED
    BY <2>2, <2>4, <2>5 DEF SameView
<1>3. QED
  BY <1>1, <1>2

LEMMA ViewView ==
  ASSUME NEW e, IsStore(e), NEW view, NEW position \in Int
  PROVE  OnViewIn(e, view, position).view = view
<1>1. PICK e1 : e1 = DropBackfillsIn(e, CanceledBy(e, view))
  OBVIOUS
<1>2. SameRest(e, e1)
  BY <1>1, DropIs
<1>3. PICK e2 : e2 = SpawnIn(e1, Broadest(StartedBy(e, view)), Owes(position))
  OBVIOUS
<1>4. SameRest(e1, e2)
  <2>1. IsStore(e1)
    BY <1>2 DEF SameRest
  <2>2. QED
    BY <1>3, <2>1, SpawnIs
<1>5. PICK e3 : e3 = Told(e2, view, position)
  OBVIOUS
<1>6. IsStore(e3) /\ e3.view = view
  BY <1>4, <1>5, ToldIs DEF SameRest
<1>7. e3 = ViewedIn(e, view, position)
  BY <1>1, <1>3, <1>5 DEF ViewedIn
<1>8. LandIn(e3).view = view
  BY <1>6, LandView DEF SameView
<1>9. DropSlicesIn(e3, Unviewed(e3)).view = view
  BY <1>6, DropSlicesIs DEF SameView
<1>10. QED
  BY <1>6, <1>7, <1>8, <1>9, OnViewIs

LEMMA HandledView ==
  ASSUME NEW l, NEW h \in Nat, NEW state, IsStore(state.e), NEW frame, FrameHolds(l, h, frame),
         frame.kind # "end"
  PROVE  Handled(state, frame).e.view
           = IF frame.kind = "view" THEN frame.view ELSE state.e.view
<1>1. CASE frame.kind = "edits"
  <2>1. frame.position \in Int
    BY <1>1 DEF FrameHolds
  <2>2. SameView(state.e, OnEditsIn(state.e, frame.position, frame.edits))
    BY <2>1, EditsView
  <2>3. Handled(state, frame).e = OnEditsIn(state.e, frame.position, frame.edits)
    BY <1>1 DEF Handled
  <2>4. QED
    BY <1>1, <2>2, <2>3 DEF SameView
<1>2. CASE frame.kind = "view"
  <2>1. frame.position \in Int
    BY <1>2 DEF FrameHolds
  <2>2. Handled(state, frame).e = OnViewIn(state.e, frame.view, frame.position)
    BY <1>2 DEF Handled
  <2>3. QED
    BY <1>2, <2>1, <2>2, ViewView
<1>3. CASE frame.kind = "cursor"
  <2>1. frame.position \in Int
    BY <1>3 DEF FrameHolds
  <2>2. Handled(state, frame).e = OnCursorIn(state.e, frame.position)
    BY <1>3 DEF Handled
  <2>3. PICK c : c = ~Frozen(state.e)
    OBVIOUS
  <2>4. SameView(state.e, AdvanceCursorIn(state.e, frame.position, c))
    BY <2>1, AdvanceIs
  <2>5. QED
    BY <1>3, <2>2, <2>3, <2>4 DEF SameView, OnCursorIn
<1>4. QED
  BY <1>1, <1>2, <1>3 DEF FrameHolds

\* A view as it was told to a build, and what a later one keeps of it: what it wants.
OfBuild(ws, view) == view = ViewOf(view.selectors) /\ \A x \in view.selectors : CoveredBy(ws, x)
KeptOf(ws, view) == view.selectors = {x \in view.token : CoveredBy(ws, x)}

ViewInv ==
  /\ engine.view = NoView \/ KeptOf(wants, engine.view)
  /\ \A i \in DOMAIN inbox : inbox[i].kind = "view" => OfBuild(wants, inbox[i].view)
  /\ feed # NoFeed => /\ \A x \in feed.told : CoveredBy(wants, x)
                      /\ Leads(inbox, 0, Len(inbox) + 1, Viewed(engine), feed.told)

LEMMA ViewOfIs ==
  ASSUME NEW v
  PROVE  ViewOf(v).selectors = v /\ ViewOf(v).token = v
BY DEF ViewOf

LEMMA OfBuildIs ==
  ASSUME NEW ws, NEW view, IsView(view), OfBuild(ws, view)
  PROVE  KeptOf(ws, view) /\ view # NoView
<1>1. PICK x \in SUBSET Selectors : x = view.selectors
  BY DEF IsView
<1>2. view = [token |-> x, selectors |-> x] /\ view.token = x
  BY <1>1, ViewOfIs DEF OfBuild, ViewOf
<1>3. view # NoView
  BY <1>2, NothingAssumption
<1>4. QED
  BY <1>1, <1>2, <1>3 DEF OfBuild, KeptOf

\* Everything of a view is wanted by the build it is for.
LEMMA IntersectWanted ==
  ASSUME NEW g, NEW ws
  PROVE  /\ \A x \in Intersect(g, ws) : CoveredBy(ws, x)
         /\ OfBuild(ws, ViewOf(Intersect(g, ws)))
<1>1. \A x \in Intersect(g, ws) : CoveredBy(ws, x)
  BY DEF Intersect, CoveredBy
<1>2. QED
  BY <1>1, ViewOfIs DEF OfBuild

LEMMA AheadAll ==
  ASSUME DownloadInv, feed # NoFeed
  PROVE  Len(Ahead) = Len(inbox)
<1>1. IsSequence(inbox) /\ Len(inbox) \in Nat /\ DOMAIN inbox = 1..Len(inbox)
  BY SequenceSeq DEF DownloadInv, FeedTypes, IsSequence
<1>2. Ends = {}
  BY DEF DownloadInv, FeedTypes, Ends
<1>3. PICK k \in Nat : k = Len(inbox)
  BY <1>1
<1>4. Ahead = SubSeq(inbox, 1, k) /\ k <= Len(inbox)
  BY <1>2, <1>3 DEF Ahead
<1>5. Len(Ahead) = IF 1 <= k THEN k - 1 + 1 ELSE 0
  BY <1>1, <1>4, SubSeqIs
<1>6. QED
  BY <1>3, <1>5

LEMMA ReadsView ==
  ASSUME DownloadInv, ViewInv
  PROVE  \A n \in 0..Len(Ahead) :
           /\ Reads[n].e.view = NoView \/ KeptOf(wants, Reads[n].e.view)
           /\ feed # NoFeed => Leads(inbox, n, Len(inbox) + 1, Viewed(Reads[n].e), feed.told)
<1> DEFINE Good(n) ==
             /\ Reads[n].e.view = NoView \/ KeptOf(wants, Reads[n].e.view)
             /\ feed # NoFeed => Leads(inbox, n, Len(inbox) + 1, Viewed(Reads[n].e), feed.told)
           Bad == {n \in Nat : n <= Len(Ahead) /\ ~Good(n)}
<1>1. /\ Len(Ahead) \in Nat /\ Len(Ahead) \in 0..Len(inbox) /\ Len(inbox) \in Nat
      /\ \A i \in 1..Len(Ahead) :
           /\ Ahead[i] = inbox[i] /\ FrameHolds(log, head, Ahead[i]) /\ Ahead[i].kind # "end"
      /\ DOMAIN inbox = 1..Len(inbox) /\ head \in Nat
  BY AheadIs, SequenceSeq DEF DownloadInv, FeedTypes, DatabaseTypes, H!IsHistory
<1>2. /\ Reads[0] = [e |-> engine, gone |-> {}]
      /\ \A n \in Nat : n < Len(Ahead) => Reads[n + 1] = Handled(Reads[n], Ahead[n + 1])
  BY <1>1, ReadsIs
<1>3. Good(0)
  <2>1. Reads[0].e = engine
    BY <1>2
  <2>2. QED
    BY <2>1 DEF ViewInv
<1>4. ASSUME NEW n \in Nat, n < Len(Ahead), Good(n)
      PROVE  Good(n + 1)
  <2>1. PICK frame : frame = Ahead[n + 1]
    OBVIOUS
  <2>2. n + 1 \in 1..Len(Ahead) /\ n + 1 \in DOMAIN inbox /\ n \in 0..Len(Ahead)
    BY <1>1, <1>4
  <2>3. FrameHolds(log, head, frame) /\ frame.kind # "end" /\ frame = inbox[n + 1]
    BY <1>1, <2>1, <2>2
  <2>4. PICK state : state = Reads[n]
    OBVIOUS
  <2>5. IsStore(state.e)
    BY <2>2, <2>4, ReadsHold DEF StoreHolds, EngineTypes
  <2>6. PICK e2 : e2 = Handled(state, frame).e
    OBVIOUS
  <2>7. e2.view = IF frame.kind = "view" THEN frame.view ELSE state.e.view
    BY <1>1, <2>3, <2>5, <2>6, HandledView
  <2>8. Reads[n + 1].e = e2
    BY <1>2, <1>4, <2>1, <2>4, <2>6
  <2>a. frame.kind = "view" => KeptOf(wants, frame.view) /\ frame.view # NoView
    <3>1. frame.kind = "view" => OfBuild(wants, frame.view)
      BY <2>2, <2>3 DEF ViewInv
    <3>2. frame.kind = "view" => IsView(frame.view)
      BY <2>3 DEF FrameHolds
    <3>3. QED
      BY <3>1, <3>2, OfBuildIs
  <2>9. e2.view = NoView \/ KeptOf(wants, e2.view)
    <3>1. QED
      BY <1>4, <2>4, <2>7, <2>a
  <2>10. ASSUME feed # NoFeed
         PROVE  Leads(inbox, n + 1, Len(inbox) + 1, Viewed(e2), feed.told)
    <3>1. Leads(inbox, n, Len(inbox) + 1, Viewed(state.e), feed.told)
      BY <1>4, <2>4, <2>10
    <3>2. Viewed(e2) = IF frame.kind = "view" THEN frame.view.selectors ELSE Viewed(state.e)
      BY <2>7, <2>a DEF Viewed
    <3>3. n + 1 < Len(inbox) + 1 /\ Len(inbox) + 1 \in Nat
      BY <1>1, <1>4
    <3>4. PICK i, v, v2 : i = Len(inbox) + 1 /\ v = Viewed(state.e) /\ v2 = Viewed(e2)
      OBVIOUS
    <3>5. Leads(inbox, n + 1, i, v2, feed.told)
      BY <1>4, <2>3, <3>1, <3>2, <3>3, <3>4, LeadsOn
    <3>6. QED
      BY <3>4, <3>5
  <2>11. QED
    BY <2>8, <2>9, <2>10
<1> HIDE DEF Good
<1>5. Bad = {}
  <2>1. SUFFICES ASSUME Bad # {}
                 PROVE  FALSE
    OBVIOUS
  <2>2. PICK n \in Bad : \A m \in Bad : n <= m
    <3>1. Bad \in SUBSET Nat
      OBVIOUS
    <3> HIDE DEF Bad
    <3>2. QED
      BY <2>1, <3>1, LeastOf
  <2>3. n \in Nat /\ n <= Len(Ahead) /\ ~Good(n) /\ n # 0
    BY <1>3, <2>2
  <2>4. PICK k \in Nat : n = k + 1
    <3>1. n - 1 \in Nat /\ n = n - 1 + 1
      BY <2>3
    <3>2. QED
      BY <3>1
  <2>5. Good(k)
    <3>1. k \notin Bad
      <4> HIDE DEF Bad
      <4>1. QED
        BY <2>2, <2>3, <2>4
    <3>2. k <= Len(Ahead)
      BY <1>1, <2>3, <2>4
    <3>3. QED
      BY <3>1, <3>2
  <2>6. QED
    BY <1>1, <1>4, <2>3, <2>4, <2>5
<1>6. QED
  BY <1>1, <1>5 DEF Good

\* What the other passes leave of it.
LEMMA JudgedView ==
  ASSUME NEW e, IsStore(e), NEW queued
  PROVE  SameView(e, Judged(e, queued))
<1>1. ASSUME NEW sel
      PROVE  SameView(e, StaleIn(e, sel)) /\ SameView(e, FailureIn(e, sel))
  BY DEF IsStore, SameView, StaleIn, FailureIn, StartBackfill
<1>2. QED
  BY <1>1 DEF Judged, SameView

LEMMA PushedView ==
  ASSUME NEW e, IsStore(e), NEW queued
  PROVE  SameView(e, Pushed(e, queued))
<1>1. ASSUME NEW sel, NEW item
      PROVE  SameView(e, ParkPushIn(e, sel, item))
  BY DEF IsStore, SameView, ParkPushIn
<1>2. QED
  BY <1>1 DEF Pushed, SameView

LEMMA JudgingView ==
  ASSUME DownloadInv
  PROVE  \A n \in 0..Len(outcomes) : Judging[n].view = engine.view
<1> DEFINE Good(n) == Judging[n].view = engine.view
           Bad == {n \in Nat : n <= Len(outcomes) /\ ~Good(n)}
<1>1. Len(outcomes) \in Nat
  BY DEF DownloadInv, QueueTypes, IsSequence
<1>2. /\ Judging[0] = engine
      /\ \A n \in Nat : n < Len(outcomes) => Judging[n + 1] = Judged(Judging[n], outcomes[n + 1])
  BY <1>1, JudgingIs
<1>3. Good(0)
  BY <1>2
<1>4. ASSUME NEW n \in Nat, n < Len(outcomes), Good(n)
      PROVE  Good(n + 1)
  <2>1. PICK e : e = Judging[n]
    OBVIOUS
  <2>2. IsStore(e)
    <3>1. n \in 0..Len(outcomes)
      BY <1>1, <1>4
    <3>2. QED
      BY <2>1, <3>1, JudgingHold DEF StoreHolds, EngineTypes
  <2>3. SameView(e, Judged(e, outcomes[n + 1]))
    BY <2>2, JudgedView
  <2>4. QED
    BY <1>2, <1>4, <2>1, <2>3 DEF SameView
<1> HIDE DEF Good
<1>5. Bad = {}
  <2>1. SUFFICES ASSUME Bad # {}
                 PROVE  FALSE
    OBVIOUS
  <2>2. PICK n \in Bad : \A m \in Bad : n <= m
    <3>1. Bad \in SUBSET Nat
      OBVIOUS
    <3> HIDE DEF Bad
    <3>2. QED
      BY <2>1, <3>1, LeastOf
  <2>3. n \in Nat /\ n <= Len(outcomes) /\ ~Good(n) /\ n # 0
    BY <1>3, <2>2
  <2>4. PICK k \in Nat : n = k + 1
    <3>1. n - 1 \in Nat /\ n = n - 1 + 1
      BY <2>3
    <3>2. QED
      BY <3>1
  <2>5. Good(k)
    <3>1. k \notin Bad
      <4> HIDE DEF Bad
      <4>1. QED
        BY <2>2, <2>3, <2>4
    <3>2. k <= Len(outcomes)
      BY <1>1, <2>3, <2>4
    <3>3. QED
      BY <3>1, <3>2
  <2>6. QED
    BY <1>1, <1>4, <2>3, <2>4, <2>5
<1>6. QED
  BY <1>1, <1>5 DEF Good

LEMMA ParkingView ==
  ASSUME DownloadInv, outcomes = <<>>
  PROVE  \A n \in 0..Len(work) : Parking[n].view = engine.view
<1> DEFINE Good(n) == Parking[n].view = engine.view
           Bad == {n \in Nat : n <= Len(work) /\ ~Good(n)}
<1>1. Len(work) \in Nat
  BY DEF DownloadInv, QueueTypes, IsSequence
<1>2. /\ Parking[0] = engine
      /\ \A n \in Nat : n < Len(work) => Parking[n + 1] = Pushed(Parking[n], work[n + 1])
  BY <1>1, ParkingIs
<1>3. Good(0)
  BY <1>2
<1>4. ASSUME NEW n \in Nat, n < Len(work), Good(n)
      PROVE  Good(n + 1)
  <2>1. PICK e : e = Parking[n]
    OBVIOUS
  <2>2. IsStore(e)
    <3>1. n \in 0..Len(work)
      BY <1>1, <1>4
    <3>2. QED
      BY <2>1, <3>1, ParkingHold DEF StoreHolds, EngineTypes
  <2>3. SameView(e, Pushed(e, work[n + 1]))
    BY <2>2, PushedView
  <2>4. QED
    BY <1>2, <1>4, <2>1, <2>3 DEF SameView
<1> HIDE DEF Good
<1>5. Bad = {}
  <2>1. SUFFICES ASSUME Bad # {}
                 PROVE  FALSE
    OBVIOUS
  <2>2. PICK n \in Bad : \A m \in Bad : n <= m
    <3>1. Bad \in SUBSET Nat
      OBVIOUS
    <3> HIDE DEF Bad
    <3>2. QED
      BY <2>1, <3>1, LeastOf
  <2>3. n \in Nat /\ n <= Len(work) /\ ~Good(n) /\ n # 0
    BY <1>3, <2>2
  <2>4. PICK k \in Nat : n = k + 1
    <3>1. n - 1 \in Nat /\ n = n - 1 + 1
      BY <2>3
    <3>2. QED
      BY <3>1
  <2>5. Good(k)
    <3>1. k \notin Bad
      <4> HIDE DEF Bad
      <4>1. QED
        BY <2>2, <2>3, <2>4
    <3>2. k <= Len(work)
      BY <1>1, <2>3, <2>4
    <3>3. QED
      BY <3>1, <3>2
  <2>6. QED
    BY <1>1, <1>4, <2>3, <2>4, <2>5
<1>6. QED
  BY <1>1, <1>5 DEF Good

LEMMA StartView ==
  ASSUME NEW e, IsStore(e), NEW c
  PROVE  SameView(e, StartCalls(e, c))
BY StartIs DEF SameRest, SameView

\* A pass, and a call's step, that reads no frame leaves the view.
LEMMA ViewStays ==
  ASSUME DownloadInv, OnEnd \/ OnBackfillOutcomes \/ OnBackfillWork \/ OnConnect
                        \/ \E sel \in Selectors : Download(sel) \/ Retry(sel) \/ CallFails(sel)
  PROVE  SameView(engine, engine')
<1>1. IsStore(engine) /\ up \in BOOLEAN /\ Len(outcomes) \in Nat /\ Len(work) \in Nat
      /\ H!IsHistory(log) /\ head \in 0..Len(log)
  BY DEF DownloadInv, StoreHolds, EngineTypes, DatabaseTypes, QueueTypes, IsSequence
<1>2. CASE OnEnd
  BY <1>1, <1>2 DEF OnEnd, IsStore, SameView
<1>3. CASE OnBackfillOutcomes
  <2>1. PICK e : e = Judging[Len(outcomes)]
    OBVIOUS
  <2>2. engine' = StartCalls(e, up)
    BY <1>3, <2>1 DEF OnBackfillOutcomes, Commits
  <2>3. Len(outcomes) \in 0..Len(outcomes)
    BY <1>1
  <2>4. IsStore(e) /\ e.view = engine.view
    BY <2>1, <2>3, JudgingHold, JudgingView DEF StoreHolds, EngineTypes
  <2>5. QED
    BY <2>2, <2>4, StartView DEF SameView
<1>4. CASE OnBackfillWork
  <2>1. CASE \A i \in DOMAIN work : ~Current(work[i])
    BY <1>4, <2>1 DEF OnBackfillWork, SameView
  <2>2. CASE ~\A i \in DOMAIN work : ~Current(work[i])
    <3>1. PICK e : e = Parking[Len(work)]
      OBVIOUS
    <3>2. engine' = StartCalls(IF e.failed THEN e ELSE TryLandIn(e), up)
      BY <1>4, <2>2, <3>1 DEF OnBackfillWork, Commits
    <3>3. Len(work) \in 0..Len(work) /\ outcomes = <<>>
      BY <1>1, <1>4 DEF OnBackfillWork
    <3>4. e.view = engine.view /\ StoreHolds(log, head, e, work, Len(work), outcomes, 0, {})
      BY <3>1, <3>3, ParkingHold, ParkingView
    <3>5. IsStore(e)
      BY <3>4 DEF StoreHolds, EngineTypes
    <3>6. PICK e2 : e2 = IF e.failed THEN e ELSE TryLandIn(e)
      OBVIOUS
    <3>7. SameView(e, TryLandIn(e))
      BY <3>5, LandView
    <3>8. IsStore(e2)
      BY <1>1, <3>4, <3>5, <3>6, TryLandHolds DEF StoreHolds, EngineTypes
    <3>9. QED
      BY <3>2, <3>4, <3>6, <3>7, <3>8, StartView DEF SameView
  <2>3. QED
    BY <2>1, <2>2
<1>5. CASE OnConnect
  <2>1. PICK bs : engine' = StartCalls([engine EXCEPT !.backfills = bs], TRUE)
    BY <1>5 DEF OnConnect
  <2>2. SameRest(engine, [engine EXCEPT !.backfills = bs])
    BY <1>1, SetBackfillsIs
  <2>3. PICK e, c : e = [engine EXCEPT !.backfills = bs] /\ c = TRUE
    OBVIOUS
  <2>4. SameView(e, StartCalls(e, c))
    BY <2>2, <2>3, StartView DEF SameRest
  <2>5. QED
    BY <2>1, <2>2, <2>3, <2>4 DEF SameRest, SameView
<1>6. ASSUME NEW sel \in Selectors, Download(sel) \/ CallFails(sel)
      PROVE  SameView(engine, engine')
  <2>1. \E call : engine' = [engine EXCEPT !.backfills[sel].call = call]
    BY <1>6 DEF Download, OpenBlob, NextPage, NextTail, CallDone, CallFails, Becomes
  <2>2. QED
    BY <1>1, <2>1 DEF IsStore, SameView
<1>7. ASSUME NEW sel \in Selectors, Retry(sel)
      PROVE  SameView(engine, engine')
  <2>1. PICK e : e = StartBackfill([engine EXCEPT !.backfills[sel].retry = FALSE], sel)
    OBVIOUS
  <2>2. engine' = StartCalls(e, up) /\ sel \in InFlight(engine)
    BY <1>7, <2>1 DEF Retry, Commits
  <2>3. IsBackfill(engine.backfills[sel])
    BY <2>2, BackfillIs
  <2>4. SameRest(engine, e)
    BY <1>1, <2>1, <2>2, <2>3, RetriedIs
  <2>5. SameView(e, StartCalls(e, up))
    BY <2>4, StartView DEF SameRest
  <2>6. QED
    BY <2>2, <2>4, <2>5 DEF SameRest, SameView
<1>8. QED
  BY <1>2, <1>3, <1>4, <1>5, <1>6, <1>7

\* A build that wants nothing the one before did not.
NoWider == \A x \in Selectors : CoveredBy(wants', x) => CoveredBy(wants, x)

LEMMA ViewInvStays ==
  ASSUME ViewInv, UNCHANGED <<wants, feed, inbox>>, SameView(engine, engine')
  PROVE  ViewInv'
<1>1. Viewed(engine') = Viewed(engine)
  BY DEF Viewed, SameView
<1>2. QED
  BY <1>1 DEF ViewInv, SameView

\* A frame more.
LEMMA ViewDelivered ==
  ASSUME ViewInv, UNCHANGED <<wants, engine>>, IsSequence(inbox), feed # NoFeed,
         NEW frame, inbox' = Append(inbox, frame),
         frame.kind = "view" => OfBuild(wants, frame.view),
         feed' # NoFeed =>
           feed'.told = IF frame.kind = "view" THEN frame.view.selectors ELSE feed.told
  PROVE  ViewInv'
<1>1. /\ Len(inbox) \in Nat /\ IsSequence(inbox') /\ Len(inbox') = Len(inbox) + 1
      /\ \A i \in 1..Len(inbox) : inbox'[i] = inbox[i]
      /\ inbox'[Len(inbox) + 1] = frame
  BY AppendIs DEF IsSequence
<1>2. DOMAIN inbox = 1..Len(inbox) /\ DOMAIN inbox' = 1..Len(inbox) + 1
  BY <1>1, SequenceSeq
<1>3. \A i \in DOMAIN inbox' : inbox'[i].kind = "view" => OfBuild(wants, inbox'[i].view)
  <2>1. \A i \in DOMAIN inbox' : i \in DOMAIN inbox \/ i = Len(inbox) + 1
    BY <1>1, <1>2
  <2>2. QED
    BY <1>1, <1>2, <2>1 DEF ViewInv
<1>4. ASSUME feed' # NoFeed
      PROVE  /\ \A x \in feed'.told : CoveredBy(wants, x)
             /\ Leads(inbox', 0, Len(inbox') + 1, Viewed(engine), feed'.told)
  <2>1. \A x \in feed'.told : CoveredBy(wants, x)
    BY <1>4 DEF ViewInv, OfBuild
  <2>2. PICK q, v, t : q = inbox /\ v = Viewed(engine) /\ t = feed.told
    OBVIOUS
  <2>3. IsSequence(q) /\ Leads(q, 0, Len(q) + 1, v, t)
    BY <2>2 DEF ViewInv
  <2>4. PICK q2, t2 : q2 = Append(q, frame)
                      /\ t2 = IF frame.kind = "view" THEN frame.view.selectors ELSE t
    OBVIOUS
  <2>5. Leads(q2, 0, Len(q2) + 1, v, t2)
    BY <2>3, <2>4, LeadsFurther
  <2>6. QED
    BY <1>4, <2>1, <2>2, <2>4, <2>5
<1>5. QED
  BY <1>3, <1>4 DEF ViewInv

LEMMA FeedShowsView ==
  ASSUME DownloadInv, ViewInv, Feed \/ FeedDrops
  PROVE  ViewInv'
<1>1. IsSequence(inbox)
  BY DEF DownloadInv, FeedTypes
<1>2. CASE FeedEdits
  <2>1. PICK frame : /\ inbox' = Append(inbox, frame) /\ frame.kind = "edits"
    BY <1>2 DEF FeedEdits, Deliver
  <2>2. feed # NoFeed /\ feed' = [feed EXCEPT !.sent = NextShown] /\ UNCHANGED <<wants, engine>>
    BY <1>2 DEF FeedEdits
  <2>3. feed \in [told : SUBSET Selectors, sent : 0..head, vouched : -1..head]
    BY <2>2, FeedIs
  <2>4. feed'.told = feed.told
    BY <2>2, <2>3
  <2>5. QED
    BY <1>1, <2>1, <2>2, <2>4, ViewDelivered
<1>3. CASE FeedCursor
  <2>1. PICK frame : /\ inbox' = Append(inbox, frame) /\ frame.kind = "cursor"
    BY <1>3 DEF FeedCursor, Deliver
  <2>2. feed # NoFeed /\ feed' = [feed EXCEPT !.sent = head, !.vouched = head]
        /\ UNCHANGED <<wants, engine>>
    BY <1>3 DEF FeedCursor
  <2>3. feed \in [told : SUBSET Selectors, sent : 0..head, vouched : -1..head]
    BY <2>2, FeedIs
  <2>4. feed'.told = feed.told
    BY <2>2, <2>3
  <2>5. QED
    BY <1>1, <2>1, <2>2, <2>4, ViewDelivered
<1>4. CASE FeedView
  <2>1. PICK p, v : /\ v = Intersect(granted, wants)
                    /\ inbox' = Append(inbox, [kind |-> "view", position |-> p, view |-> ViewOf(v)])
                    /\ feed' = [feed EXCEPT !.told = v, !.sent = p]
    BY <1>4 DEF FeedView, Deliver
  <2>2. feed # NoFeed /\ UNCHANGED <<wants, engine>>
    BY <1>4 DEF FeedView
  <2>3. feed \in [told : SUBSET Selectors, sent : 0..head, vouched : -1..head]
    BY <2>2, FeedIs
  <2>4. feed'.told = v
    BY <2>1, <2>3
  <2>5. PICK frame : frame = [kind |-> "view", position |-> p, view |-> ViewOf(v)]
    OBVIOUS
  <2>6. frame.kind = "view" /\ frame.view = ViewOf(v) /\ frame.view.selectors = v
    BY <2>5, ViewOfIs
  <2>7. OfBuild(wants, frame.view)
    BY <2>1, <2>6, IntersectWanted
  <2>8. QED
    BY <1>1, <2>1, <2>2, <2>4, <2>5, <2>6, <2>7, ViewDelivered
<1>5. CASE FeedDrops
  <2>1. PICK frame : /\ inbox' = Append(inbox, frame) /\ frame.kind = "end"
    BY <1>5 DEF FeedDrops, Deliver
  <2>2. feed # NoFeed /\ feed' = NoFeed /\ UNCHANGED <<wants, engine>>
    BY <1>5 DEF FeedDrops
  <2>3. QED
    BY <1>1, <2>1, <2>2, ViewDelivered
<1>6. QED
  BY <1>2, <1>3, <1>4, <1>5 DEF Feed

\* Past the last frame nothing is told.
LEMMA LeadsNone ==
  ASSUME NEW frames, NEW n \in Nat, NEW v, NEW t
  PROVE  Leads(frames, n, n + 1, v, t) <=> v = t
<1>1. n + 1..n + 1 - 1 = {}
  OBVIOUS
<1>2. PICK s : s = n + 1..n + 1 - 1
  OBVIOUS
<1>3. s = {}
  BY <1>1, <1>2
<1>4. Leads(frames, n, n + 1, v, t)
        <=> \/ v = t /\ \A j \in s : frames[j].kind # "view"
            \/ \E j \in s : /\ frames[j].kind = "view" /\ frames[j].view.selectors = t
                            /\ \A k \in j + 1..n + 1 - 1 : frames[k].kind # "view"
  BY <1>2 DEF Leads
<1>5. QED
  BY <1>3, <1>4

LEMMA InboxView ==
  ASSUME DownloadInv, ViewInv, OnInbox
  PROVE  ViewInv'
<1>1. PICK read \in {Reads[Len(Ahead)]} :
        \E landed \in {IF Frozen(read.e) THEN TryLandIn(read.e) ELSE read.e} : Commits(landed)
  BY DEF OnInbox
<1>2. PICK landed \in {IF Frozen(read.e) THEN TryLandIn(read.e) ELSE read.e} : Commits(landed)
  BY <1>1
<1>3. Len(Ahead) \in 0..Len(Ahead) /\ H!IsHistory(log) /\ head \in 0..Len(log)
  BY AheadIs DEF DownloadInv, DatabaseTypes
<1>4. StoreHolds(log, head, read.e, work, 0, outcomes, 0, read.gone)
  BY <1>3, ReadsHold
<1>5. IsStore(read.e) /\ IsStore(TryLandIn(read.e))
  BY <1>3, <1>4, TryLandHolds DEF StoreHolds, EngineTypes
<1>6. IsStore(landed) /\ SameView(read.e, landed)
  BY <1>5, LandView DEF SameView
<1>7. engine' = StartCalls(landed, up)
  BY <1>2 DEF Commits
<1>8. engine'.view = read.e.view
  BY <1>6, <1>7, StartView DEF SameView
<1>9. /\ read.e.view = NoView \/ KeptOf(wants, read.e.view)
      /\ feed # NoFeed => Leads(inbox, Len(Ahead), Len(inbox) + 1, Viewed(read.e), feed.told)
  BY <1>3, ReadsView
<1>10. FeedOK(log, head, feed, up, inbox') /\ UNCHANGED <<wants, feed>>
  BY InboxFeed DEF OnInbox
<1>11. PICK k : k = Len(Ahead)
  OBVIOUS
<1>12. k \in 0..Len(inbox) /\ Len(inbox) \in Nat /\ IsSequence(inbox)
  BY <1>11, AheadIs DEF DownloadInv, FeedTypes
<1>13. inbox' = SubSeq(inbox, k + 1, Len(inbox))
  BY <1>11 DEF OnInbox
<1>14. /\ IsSequence(inbox') /\ Len(inbox') = Len(inbox) - k
       /\ \A i \in 1..Len(inbox') : inbox'[i] = inbox[i + k]
  BY <1>12, <1>13, DropFirst
<1>15. \A i \in DOMAIN inbox' : inbox'[i].kind = "view" => OfBuild(wants, inbox'[i].view)
  <2>1. DOMAIN inbox = 1..Len(inbox) /\ DOMAIN inbox' = 1..Len(inbox')
    BY <1>12, <1>14, SequenceSeq
  <2>2. \A i \in DOMAIN inbox' : i + k \in DOMAIN inbox
    BY <1>12, <1>14, <2>1
  <2>3. QED
    BY <1>14, <2>1, <2>2 DEF ViewInv
<1>16. ASSUME feed # NoFeed
       PROVE  Leads(inbox', 0, Len(inbox') + 1, Viewed(engine'), feed.told)
  <2>1. k = Len(inbox) /\ Len(inbox') = 0
    BY <1>11, <1>12, <1>14, <1>16, AheadAll
  <2>2. Leads(inbox, k, k + 1, Viewed(read.e), feed.told)
    BY <1>9, <1>11, <1>16, <2>1
  <2>3. PICK v, t : v = Viewed(read.e) /\ t = feed.told
    OBVIOUS
  <2>4. k \in Nat /\ Leads(inbox, k, k + 1, v, t)
    BY <1>12, <2>2, <2>3
  <2>5. v = t
    BY <2>4, LeadsNone
  <2>6. Leads(inbox', 0, 0 + 1, v, t)
    BY <2>5, LeadsNone
  <2>7. Viewed(engine') = Viewed(read.e)
    BY <1>8 DEF Viewed
  <2>8. QED
    BY <2>1, <2>3, <2>6, <2>7
<1>17. engine'.view = NoView \/ KeptOf(wants, engine'.view)
  BY <1>8, <1>9
<1>18. QED
  BY <1>10, <1>15, <1>16, <1>17 DEF ViewInv

\* A build that wants nothing more keeps of the view what it wants.
LEMMA InitializeView ==
  ASSUME NEW l, H!IsHistory(l), NEW h \in 0..Len(l), NEW e, NEW w, NEW m, NEW o, NEW n, NEW gone,
         StoreHolds(l, h, e, w, m, o, n, gone), NEW old, NEW ws,
         e.view = NoView \/ KeptOf(old, e.view),
         \A x \in Selectors : CoveredBy(ws, x) => CoveredBy(old, x)
  PROVE  InitializeIn(e, ws).view = NoView \/ KeptOf(ws, InitializeIn(e, ws).view)
<1> DEFINE loaded == Loaded(e)
           sels == {x \in InFlight(e) : ~CoveredBy(ws, x)}
           kept == DropBackfillsIn(loaded, sels)
           slices == {s \in Slices : ~CoveredBy(ws, {s})}
           purged == PurgedIn(e, ws)
           viewed == ViewedAt(e, ws)
           selectors == {x \in e.view.selectors : CoveredBy(ws, x)}
<1>1. IsStore(e) /\ (e.view = NoView \/ IsView(e.view))
  BY DEF StoreHolds, EngineTypes
<1>2. SameRest(e, loaded)
  BY <1>1, LoadedIs
<1>3. purged = DropSlicesIn(kept, slices)
  BY Zenon DEF PurgedIn
<1> HIDE DEF loaded, purged
<1>4. SameRest(loaded, kept)
  BY <1>2, DropIs DEF SameRest
<1> HIDE DEF kept, slices, sels
<1>5. SameView(kept, purged) /\ IsStore(purged)
  BY <1>3, <1>4, DropSlicesIs DEF SameRest
<1>6. purged.view = e.view
  BY <1>2, <1>4, <1>5 DEF SameRest, SameView
<1>7. IsStore(viewed) /\ (viewed.view = NoView \/ KeptOf(ws, viewed.view))
  <2>1. CASE e.view = NoView
    <3>1. viewed = purged
      BY <2>1 DEF ViewedAt, purged
    <3>2. QED
      BY <1>5, <1>6, <2>1, <3>1
  <2>2. CASE e.view # NoView
    <3>1. viewed = [purged EXCEPT !.view.selectors = selectors]
      BY <2>2 DEF ViewedAt, purged
    <3>2. purged.view \in [token : SUBSET Selectors, selectors : SUBSET Selectors]
      BY <1>1, <1>6, <2>2 DEF IsView
    <3>3. selectors = {x \in e.view.token : CoveredBy(ws, x)}
      <4>1. e.view.token \in SUBSET Selectors
        BY <1>6, <3>2
      <4>2. e.view.selectors = {x \in e.view.token : CoveredBy(old, x)}
        BY <2>2 DEF KeptOf
      <4>3. QED
        BY <4>1, <4>2
    <3> HIDE DEF selectors, viewed
    <3>4. IsStore(viewed) /\ viewed.view = [purged.view EXCEPT !.selectors = selectors]
      BY <1>5, <3>1 DEF IsStore
    <3>5. viewed.view.selectors = selectors /\ viewed.view.token = e.view.token
      BY <1>6, <3>2, <3>4
    <3>6. QED
      BY <3>3, <3>4, <3>5 DEF KeptOf
  <2>3. QED
    BY <2>1, <2>2
<1> HIDE DEF viewed
<1>8. InitializeIn(e, ws) = IF Frozen(e) THEN TryLandIn(viewed) ELSE viewed
  BY InitializeIs DEF viewed
<1>9. TryLandIn(viewed).view = viewed.view
  BY <1>7, LandView DEF SameView
<1>10. QED
  BY <1>7, <1>8, <1>9

LEMMA RestartView ==
  ASSUME DownloadInv, ViewInv, Restart, NoWider
  PROVE  ViewInv'
<1>1. PICK e, ws : e = InitializeIn(engine, ws) /\ ws = wants'
  OBVIOUS
<1>2. PICK c \in BOOLEAN : c = FALSE
  OBVIOUS
<1>3. engine' = StartCalls(e, c) /\ feed' = NoFeed /\ inbox' = <<>>
  BY <1>1, <1>2 DEF Restart
<1>4. H!IsHistory(log) /\ head \in 0..Len(log)
      /\ StoreHolds(log, head, engine, work, 0, outcomes, 0, {})
  BY DEF DownloadInv, DatabaseTypes
<1>5. \A x \in Selectors : CoveredBy(ws, x) => CoveredBy(wants, x)
  BY <1>1 DEF NoWider
<1>6. e.view = NoView \/ KeptOf(ws, e.view)
  <2>1. PICK old, e0 : old = wants /\ e0 = engine
    OBVIOUS
  <2>2. e0.view = NoView \/ KeptOf(old, e0.view)
    BY <2>1 DEF ViewInv
  <2>3. StoreHolds(log, head, e0, work, 0, outcomes, 0, {})
    BY <1>4, <2>1
  <2>4. \A x \in Selectors : CoveredBy(ws, x) => CoveredBy(old, x)
    BY <1>5, <2>1
  <2>5. InitializeIn(e0, ws).view = NoView \/ KeptOf(ws, InitializeIn(e0, ws).view)
    BY <1>4, <2>2, <2>3, <2>4, InitializeView
  <2>6. QED
    BY <1>1, <2>1, <2>5
<1>7. StoreHolds(log, head, e, <<>>, 0, <<>>, 0, {})
  BY <1>1, <1>4, InitializeHolds
<1>8. engine'.view = e.view
  BY <1>3, <1>7, StartView DEF StoreHolds, EngineTypes, SameView
<1>9. DOMAIN inbox' = {}
  BY <1>3
<1>10. QED
  BY <1>1, <1>3, <1>6, <1>8, <1>9 DEF ViewInv

LEMMA EndView ==
  ASSUME DownloadInv, ViewInv, OnEnd
  PROVE  ViewInv'
<1>1. SameView(engine, engine')
  BY ViewStays
<1>2. inbox # <<>> /\ inbox[1].kind = "end" /\ inbox' = Tail(inbox) /\ UNCHANGED <<wants, feed>>
  BY DEF OnEnd
<1>3. IsSequence(inbox) /\ \A i \in DOMAIN inbox : inbox[i].kind = "end" => feed = NoFeed
  BY DEF DownloadInv, FeedTypes
<1>4. Len(inbox) \in Nat /\ DOMAIN inbox = 1..Len(inbox)
  BY <1>3, SequenceSeq DEF IsSequence
<1>5. /\ Len(inbox) > 0 /\ IsSequence(inbox') /\ Len(inbox') = Len(inbox) - 1
      /\ \A i \in 1..Len(inbox') : inbox'[i] = inbox[i + 1]
  BY <1>2, <1>3, TailIs
<1>6. feed = NoFeed
  BY <1>2, <1>3, <1>4, <1>5
<1>7. \A i \in DOMAIN inbox' : inbox'[i].kind = "view" => OfBuild(wants, inbox'[i].view)
  <2>1. DOMAIN inbox' = 1..Len(inbox')
    BY <1>5, SequenceSeq
  <2>2. \A i \in DOMAIN inbox' : i + 1 \in DOMAIN inbox
    BY <1>4, <1>5, <2>1
  <2>3. QED
    BY <1>5, <2>1, <2>2 DEF ViewInv
<1>8. QED
  BY <1>1, <1>2, <1>6, <1>7 DEF ViewInv, SameView

LEMMA ConnectView ==
  ASSUME DownloadInv, ViewInv, OnConnect
  PROVE  ViewInv'
<1>1. PICK view, sent, frame :
        /\ view = Intersect(granted, wants)
        /\ frame = [kind |-> "view", position |-> sent, view |-> ViewOf(view)]
        /\ feed' = [told |-> view, sent |-> sent, vouched |-> -1]
        /\ inbox' = IF Token(engine) = view THEN <<>> ELSE <<frame>>
  BY DEF OnConnect
<1>2. SameView(engine, engine') /\ UNCHANGED wants
  BY ViewStays DEF OnConnect
<1>3. Viewed(engine') = Viewed(engine)
  BY <1>2 DEF Viewed, SameView
<1>4. /\ \A x \in view : CoveredBy(wants, x)
      /\ OfBuild(wants, ViewOf(view)) /\ feed'.told = view
  BY <1>1, IntersectWanted
<1>5. view \in SUBSET Selectors
  <2>1. granted \in SUBSET Selectors /\ wants \in SUBSET Selectors
    BY ReplicaAssumption DEF DownloadInv, DatabaseTypes
  <2>2. QED
    BY <1>1, <2>1, IntersectType
<1>6. engine'.view = NoView \/ KeptOf(wants', engine'.view)
  BY <1>2 DEF ViewInv, SameView
<1>7. CASE Token(engine) = view
  <2>1. inbox' = <<>>
    BY <1>1, <1>7
  <2>2. DOMAIN inbox' = {} /\ Len(inbox') = 0
    BY <2>1
  <2>3. engine.view # NoView /\ engine.view.token = view
    BY <1>5, <1>7, NothingAssumption DEF Token
  <2>4. engine.view.selectors = view
    <3>1. engine.view.selectors = {x \in view : CoveredBy(wants, x)}
      BY <2>3 DEF ViewInv, KeptOf
    <3>2. QED
      BY <1>4, <3>1
  <2>5. Viewed(engine') = view
    BY <1>3, <2>3, <2>4 DEF Viewed
  <2>6. PICK v : v = Viewed(engine')
    OBVIOUS
  <2>7. Leads(inbox', 0, 0 + 1, v, view)
    BY <2>5, <2>6, LeadsNone
  <2>8. QED
    BY <1>2, <1>4, <1>6, <2>2, <2>6, <2>7 DEF ViewInv
<1>8. CASE Token(engine) # view
  <2>1. inbox' = <<frame>>
    BY <1>1, <1>8
  <2>2. DOMAIN inbox' = {1} /\ Len(inbox') = 1 /\ inbox'[1] = frame
    BY <2>1
  <2>3. frame.kind = "view" /\ frame.view = ViewOf(view) /\ frame.view.selectors = view
    BY <1>1, ViewOfIs
  <2>4. Leads(inbox', 0, Len(inbox') + 1, Viewed(engine'), view)
    <3>1. 1 \in 0 + 1..1 + 1 - 1 /\ 1 + 1..1 + 1 - 1 = {}
      OBVIOUS
    <3>2. PICK q, v : q = inbox' /\ v = Viewed(engine')
      OBVIOUS
    <3>3. q[1].kind = "view" /\ q[1].view.selectors = view
      BY <2>2, <2>3, <3>2
    <3>4. Leads(q, 0, 1 + 1, v, view)
      BY <3>1, <3>3 DEF Leads
    <3>5. QED
      BY <2>2, <3>2, <3>4
  <2>5. \A i \in DOMAIN inbox' : inbox'[i].kind = "view" => OfBuild(wants', inbox'[i].view)
    BY <1>2, <1>4, <2>2, <2>3
  <2>6. QED
    BY <1>2, <1>4, <1>6, <2>4, <2>5 DEF ViewInv
<1>9. QED
  BY <1>7, <1>8

LEMMA ViewStep ==
  ASSUME DownloadInv, ViewInv, [Next]_vars, NoWider \/ UNCHANGED wants
  PROVE  ViewInv'
<1>1. CASE Feed \/ FeedDrops
  BY <1>1, FeedShowsView
<1>2. CASE OnInbox
  BY <1>2, InboxView
<1>3. CASE OnEnd
  BY <1>3, EndView
<1>4. CASE OnConnect
  BY <1>4, ConnectView
<1>5. CASE \/ OnBackfillOutcomes \/ OnBackfillWork
           \/ \E sel \in Selectors : Download(sel) \/ Retry(sel) \/ CallFails(sel)
  <2>1. SameView(engine, engine')
    BY <1>5, ViewStays
  <2>2. UNCHANGED <<wants, feed, inbox>>
    BY <1>5 DEF OnBackfillOutcomes, OnBackfillWork, Download, OpenBlob, NextPage, NextTail,
                CallDone, Retry, CallFails, queues
  <2>3. QED
    BY <2>1, <2>2, ViewInvStays
<1>6. CASE Database \/ UNCHANGED vars
  <2>1. UNCHANGED <<wants, feed, inbox, engine>>
    BY <1>6 DEF Database, Commit, ChangeGrant, vars, queues
  <2>2. QED
    BY <2>1 DEF ViewInv
<1>7. CASE Restart
  <2>1. NoWider
    BY DEF NoWider
  <2>2. QED
    BY <1>7, <2>1, RestartView
<1>8. QED
  BY <1>1, <1>2, <1>3, <1>4, <1>5, <1>6, <1>7 DEF Next, Advancer, Downloads, Fault

LEMMA ViewStart ==
  ASSUME Init
  PROVE  ViewInv
<1>1. engine = EmptyStore /\ feed = NoFeed /\ inbox = <<>>
  BY DEF Init, Start
<1>2. EmptyStore.view = NoView
  BY DEF EmptyStore
<1>3. DOMAIN inbox = {}
  BY <1>1
<1>4. QED
  BY <1>1, <1>2, <1>3 DEF ViewInv

LEMMA ViewFollows ==
  ASSUME DownloadInv, ViewInv
  PROVE  ViewIsTold
<1>1. SUFFICES ASSUME feed # NoFeed, \A i \in DOMAIN inbox : inbox[i].kind # "view"
               PROVE  Viewed(engine) = feed.told
  BY DEF ViewIsTold
<1>2. Leads(inbox, 0, Len(inbox) + 1, Viewed(engine), feed.told)
  BY <1>1 DEF ViewInv
<1>3. Len(inbox) \in Nat /\ DOMAIN inbox = 1..Len(inbox)
  BY SequenceSeq DEF DownloadInv, FeedTypes, IsSequence
<1>4. 0 + 1..Len(inbox) + 1 - 1 = DOMAIN inbox
  BY <1>3
<1>5. QED
  BY <1>1, <1>2, <1>4 DEF Leads

\* While no build that starts wants more than the one before it, a connection and the
\* Engine agree on the view: the one the connection filters by is on its way as a view
\* frame, or is the Engine's (#onViewIn, and the token that #onConnect presents).
THEOREM ViewsAgree == Spec /\ [][NoWider]_wants => []ViewIsTold
<1>1. Init => ViewInv
  BY ViewStart
<1>2. DownloadInv /\ ViewInv /\ [Next]_vars /\ [NoWider]_wants => ViewInv'
  BY ViewStep
<1>3. DownloadInv /\ ViewInv => ViewIsTold
  BY ViewFollows
<1>4. QED
  BY <1>1, <1>2, <1>3, DownloadsAgree, PTL DEF Spec
=============================================================================

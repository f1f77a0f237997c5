---------------------------- MODULE StreamProofs ----------------------------
(***************************************************************************)
(* Theorems about Stream, for any slices, grants, mutations, connection    *)
(* ids and limits.                                                         *)
(*                                                                         *)
(* The invariant has two halves.  The first follows the results on their   *)
(* way to the dispatcher: which position is published, and which view and  *)
(* which generation a connection has, once those before each have been     *)
(* dispatched.  The second follows the frames from the dispatcher to the   *)
(* client: an edit past the cursor that the client's view covers is among  *)
(* the frames on their way, among the edits read from the log, still to be *)
(* read from it, or in a backfill the client was told of.                  *)
(***************************************************************************)
EXTENDS Stream, FiniteSetTheorems, SequenceTheorems, TLAPS

-----------------------------------------------------------------------------
(* The results.                                                            *)

IsCommit(i) == i \in DOMAIN results /\ results[i].kind = "commit"
IsAccount(i) == i \in DOMAIN results /\ results[i].kind = "account"
MyView(i) == i \in DOMAIN results /\ results[i].kind = "view" /\ Mine(results[i])

\* The position published once the results before i have been dispatched.
PublishedBy(i, p) ==
  \/ \E j \in 1..(i - 1) : IsCommit(j) /\ results[j].position = p
                           /\ \A k \in (j + 1)..(i - 1) : ~IsCommit(k)
  \/ position = p /\ \A k \in 1..(i - 1) : ~IsCommit(k)

\* The view the connection has then, unless it ended.
ViewBy(i, v) ==
  \/ \E j \in 1..(i - 1) : /\ MyView(j) /\ results[j].ok /\ results[j].grant \cap Wants = v
                           /\ \A k \in (j + 1)..(i - 1) : ~MyView(k)
  \/ /\ conn # NoConn /\ conn.active /\ conn.view = v
     /\ \A k \in 1..(i - 1) : ~MyView(k)

\* A commit's mutations are those of the positions it publishes.
Complete(r) ==
  /\ Len(r.mutations) > 0
  /\ \A k \in DOMAIN r.mutations :
       LET p == r.position - Len(r.mutations) + k
       IN  r.mutations[k].position = p /\ log[p] \subseteq r.mutations[k].edits

ResultHolds(i) ==
  LET r == results[i] IN
  /\ r.kind \in {"view", "commit"} => position <= r.position /\ r.position <= Len(log)
  /\ r.kind = "view" /\ r.ok /\ r.position > 0 => r.grant = grantAt[r.position]
  /\ r.kind = "commit" => Complete(r) /\ PublishedBy(i, r.position - Len(r.mutations))

ResultsHold ==
  /\ IsFiniteSet(members)
  /\ log # <<>> => grant = grantAt[Len(log)]
  /\ position <= Len(log)
  /\ \A i \in DOMAIN results : ResultHolds(i)
  /\ \A i, j \in DOMAIN results :
       i < j /\ IsCommit(i) /\ ~IsAccount(j) => results[i].position <= results[j].position
  /\ PublishedBy(Len(results) + 1, Len(log))

\* What the server does for the connection's id, and the answer it waits for.
RegistrationHolds ==
  conn # NoConn =>
    /\ \A i \in DOMAIN requests : requests[i].conn = conn.id =>
         /\ requests[i].kind = "register" /\ requests[i].generation = conn.generation
         /\ pc = "wait" /\ conn.id \notin members /\ \A k \in DOMAIN results : ~MyView(k)
    /\ \A i, j \in DOMAIN results : i < j /\ MyView(i) /\ MyView(j) => ~results[j].asked
    /\ \A i \in DOMAIN results : MyView(i) =>
         /\ results[i].asked => pc = "wait"
         /\ results[i].ok => conn.id \in members
    /\ conn.active =>
         conn.id \in members /\ pc # "wait" /\ ~conn.revoked /\ conn.view \in SUBSET Slices

\* The view by the time each commit is dispatched is that of its batch.
ViewsFollow ==
  /\ \A i \in DOMAIN results : \A v \in SUBSET Slices :
       IsCommit(i) /\ ViewBy(i, v) => v = grantAt[results[i].position] \cap Wants
  /\ \A v \in SUBSET Slices : ViewBy(Len(results) + 1, v) => v = grant \cap Wants

GenerationsFollow ==
  /\ \A i \in DOMAIN results : IsAccount(i) /\ (\A k \in DOMAIN results : k > i => ~IsAccount(k))
       => results[i].generation = generation
  /\ \A i \in DOMAIN results :
       MyView(i) /\ results[i].asked /\ results[i].ok
         /\ (\A k \in DOMAIN results : k > i => ~IsAccount(k))
       => \/ conn.generation = generation \/ conn.revoked
          \/ \E k \in DOMAIN results : k < i /\ IsAccount(k) /\ results[k].generation # conn.generation

CoreInv ==
  /\ ResultsHold /\ RegistrationHolds /\ ViewsFollow /\ GenerationsFollow
  /\ PublishedViewIsCurrent /\ NoStaleTokenStreams

-----------------------------------------------------------------------------
(* The frames.                                                             *)

Streaming == {"switchForward", "hotReplay", "live", "wakeForward", "beat", "beatForward"}
Started == {"cold", "coldForward", "coldReplay"} \cup Streaming
Replaying == {"coldReplay", "hotReplay"}

\* The frames on their way to the client, in order.
Frames == taken \o conn.backlog

IsViewFrame(F, k) == k \in DOMAIN F /\ F[k].kind = "view"
IsCommitFrame(F, k) == k \in DOMAIN F /\ F[k].kind = "commit"
IsEnd(F, k) == k \in DOMAIN F /\ F[k].kind = "end"
HasEnd(F) == \E k \in DOMAIN F : IsEnd(F, k)

\* The frames end with the last frame, and their positions go up.
InOrder(F) ==
  /\ \A k, l \in DOMAIN F : k < l =>
       /\ ~IsEnd(F, k)
       /\ IsViewFrame(F, k) /\ IsCommitFrame(F, l) =>
            \A j \in DOMAIN F[l].mutations : F[k].pos < F[l].mutations[j].position
       /\ IsCommitFrame(F, k) /\ IsViewFrame(F, l) =>
            \A i \in DOMAIN F[k].mutations : F[k].mutations[i].position <= F[l].pos
       /\ IsCommitFrame(F, k) /\ IsCommitFrame(F, l) =>
            \A i \in DOMAIN F[k].mutations, j \in DOMAIN F[l].mutations :
              F[k].mutations[i].position < F[l].mutations[j].position
  /\ \A k \in DOMAIN F : IsCommitFrame(F, k) =>
       /\ F[k].mutations # <<>>
       /\ \A i, j \in DOMAIN F[k].mutations :
            i < j => F[k].mutations[i].position < F[k].mutations[j].position

\* Every position the frames name lies past one bound, and at or below another.
CommitsPast(F, p) ==
  \A k \in DOMAIN F : IsCommitFrame(F, k) =>
    \A i \in DOMAIN F[k].mutations : p < F[k].mutations[i].position
ViewsFrom(F, p) == \A k \in DOMAIN F : IsViewFrame(F, k) => p <= F[k].pos
CommitsTo(F, p) ==
  \A k \in DOMAIN F : IsCommitFrame(F, k) =>
    \A i \in DOMAIN F[k].mutations : F[k].mutations[i].position <= p
ViewsTo(F, p) == \A k \in DOMAIN F : IsViewFrame(F, k) => F[k].pos <= p

\* The view once the frames are forwarded, from one to begin with.
Leads(F, from, view) ==
  \/ \E k \in DOMAIN F : /\ IsViewFrame(F, k) /\ F[k].view = view
                         /\ \A l \in DOMAIN F : l > k => ~IsViewFrame(F, l)
  \/ from = view /\ \A k \in DOMAIN F : ~IsViewFrame(F, k)

Carries(F, s, p) ==
  \E k \in DOMAIN F : /\ IsCommitFrame(F, k)
                      /\ \E i \in DOMAIN F[k].mutations :
                           F[k].mutations[i].position = p /\ s \in F[k].mutations[i].edits

\* The frames bring a position's edits of the view they lead to before it, that
\* of the last one backfilled short of it, unless the client has them.
Governs(F, k, p) ==
  /\ IsViewFrame(F, k) /\ F[k].pos < p
  /\ \A l \in DOMAIN F : l > k /\ IsViewFrame(F, l) => p <= F[l].pos
Brings(F, view, p, edits, covered) ==
  \A s \in edits :
    /\ \A k \in DOMAIN F : Governs(F, k, p) /\ s \in F[k].view => Carries(F, s, p)
    /\ ViewsFrom(F, p) /\ s \in view => Carries(F, s, p) \/ <<s, p>> \in covered

\* The client has come to its cursor without a gap, and its view with it.
ClientHolds ==
  /\ CursorSkipsNothing /\ EachEditOnce
  /\ client.cursor <= Len(log)
  /\ client.cursor = -1 <=> client.view = NoView
  /\ \A i \in DOMAIN wire : wire[i] <= client.cursor

\* An entry whose registration is not answered, or whose stream has not begun.
EntryHolds ==
  /\ pc \in {"none", "wait", "replied"} => taken = <<>> /\ items = <<>> /\ ~ending
  /\ conn # NoConn =>
      /\ pc = "wait" => conn.backlog = <<>> /\ ~conn.overflowed
      /\ pc = "replied" /\ reply.ok => conn.view # NoView /\ reply.position <= Len(log)
      /\ pc = "replied" /\ ~reply.ok => ~conn.active
      /\ pc \in Started => conn.view # NoView
      /\ conn.streaming <=> pc \in Streaming
      /\ conn.overflowed => ~conn.active
      /\ pc # "wait" /\ (pc = "replied" => reply.ok /\ ~conn.revoked) /\ ~conn.active =>
           conn.overflowed \/ HasEnd(Frames)
      /\ HasEnd(Frames) => ~conn.active
      /\ conn.backlog # <<>> => conn.notified
      /\ conn.overflowed => conn.notified \/ ending
      /\ ending => conn.overflowed

FramesHold ==
  conn # NoConn =>
    /\ InOrder(Frames) /\ CommitsTo(Frames, position) /\ ViewsTo(Frames, position)
    /\ ~conn.streaming => CommitsPast(Frames, MaxPosition)
    /\ ~Forwarding => taken = <<>> /\ ~ending
    /\ conn.active /\ pc # "wait" =>
         Leads(Frames, IF pc \in Started THEN selectors ELSE conn.view, conn.view)
    /\ pc \in {"switchForward", "hotReplay", "beat", "beatForward"} => mark <= position
    /\ pc \in {"switchForward", "hotReplay", "beatForward"} =>
         CommitsPast(conn.backlog, mark) /\ ViewsFrom(conn.backlog, mark)
    /\ pc = "switchForward" => CommitsPast(taken, MaxPosition) /\ ViewsTo(taken, mark)

\* The task is done once it has forwarded what it took.
Doomed == ending \/ HasEnd(taken)

CursorHolds ==
  pc \in Started =>
    /\ client.view # NoView
    /\ pc # "switchForward" => selectors = client.view
    /\ pc = "switchForward" =>
         Doomed \/ selectors = client.view \/ Leads(taken, client.view, selectors)
    /\ pc \notin Replaying => client.cursor = cursor /\ items = <<>>
    /\ ~conn.streaming => client.cursor = told
    /\ pc = "coldReplay" => cursor <= told /\ told <= mark /\ mark <= Len(log)
    /\ pc = "coldReplay" /\ mark = cursor => items = <<>>
    /\ pc = "hotReplay" => cursor <= client.cursor /\ client.cursor <= Larger(cursor, mark)

\* What was read from the log brings the client to where the reading ends.
ItemsHold ==
  pc \in Replaying =>
    /\ \A i \in DOMAIN items : client.cursor < items[i].position /\ items[i].position <= mark
    /\ \A i, j \in DOMAIN items : i < j => items[i].position < items[j].position
    /\ \A p \in (client.cursor + 1)..mark : \A s \in log[p] \cap selectors :
         \/ <<s, p>> \in client.covered
         \/ \E i \in DOMAIN items : items[i].position = p /\ s \in items[i].edits

\* Up to a bound, which is the published position while the connection is active,
\* the frames bring every edit past what the cursor, or the reading, comes to.
ReadTo == IF pc \in {"switchForward", "hotReplay"} THEN Larger(cursor, mark) ELSE cursor
BringsAllTo(b) ==
  /\ conn.active => b = position
  /\ CommitsTo(Frames, b)
  /\ pc = "beatForward" => Doomed \/ mark <= b
  /\ \A p \in (ReadTo + 1)..b : Brings(Frames, selectors, p, log[p], client.covered)
FramesBring == pc \in Streaming => \E b \in 0..position : BringsAllTo(b)

ClientInv ==
  ClientHolds /\ EntryHolds /\ FramesHold /\ CursorHolds /\ ItemsHold /\ FramesBring

StreamInv == TypeOK /\ CoreInv /\ ClientInv

-----------------------------------------------------------------------------
(* Sequences, and the orders the model picks.                              *)

\* An order the results of a batch may go out in lists each connection once.
LEMMA OrdersOf ==
  ASSUME NEW S, IsFiniteSet(S), NEW f \in SetToSeqs(S)
  PROVE  /\ f \in Seq(S) /\ Len(f) \in Nat /\ DOMAIN f = 1..Len(f)
         /\ \A x \in S : \E i \in DOMAIN f : f[i] = x
         /\ \A i, j \in DOMAIN f : f[i] = f[j] => i = j
<1> DEFINE n == Cardinality(S)
<1>1. n \in Nat /\ f \in [1..n -> S] /\ \A i, j \in 1..n : i # j => f[i] # f[j]
  BY FS_CardinalityType DEF SetToSeqs
<1>2. f \in Injection(1..n, S)
  BY <1>1 DEF Injection, IsInjective
<1>3. Cardinality(1..n) = n
  BY <1>1, FS_Interval
<1>4. f \in Surjection(1..n, S)
  BY <1>2, <1>3, FS_Injection
<1>5. QED
  BY <1>1, <1>4 DEF Surjection

\* The positions of a reading come one by one and in order, each that holds edits.
ReadingOf(r, from, to) ==
  /\ r \in Seq(Mutation)
  /\ \A i \in DOMAIN r : /\ r[i].position \in from..to /\ r[i].position <= Len(log)
                         /\ r[i].edits = log[r[i].position]
  /\ \A i, j \in DOMAIN r : i < j => r[i].position < r[j].position
  /\ \A p \in from..to : p <= Len(log) /\ log[p] # {} =>
       \E i \in DOMAIN r : r[i].position = p

\* A read of the log finds the positions in its range that hold edits, in order.
LEMMA ReadLogReads ==
  ASSUME TypeOK, NEW from \in Nat \ {0}, NEW to \in Nat
  PROVE  ReadingOf(ReadLog(from, to), from, to)
<1> DEFINE found == {p \in from..to : p <= Len(log) /\ log[p] # {}}
           n == Cardinality(found)
           upTo(p) == {q \in found : q <= p}
           nth(i) == CHOOSE p \in found : Cardinality(upTo(p)) = i
<1>1. IsFiniteSet(found) /\ n \in Nat /\ found \subseteq from..to /\ found \subseteq Nat \ {0}
  <2>1. found \subseteq from..to /\ IsFiniteSet(from..to)
    BY FS_Interval
  <2>2. IsFiniteSet(found)
    BY <2>1, FS_Subset
  <2>3. from..to \subseteq Nat \ {0}
    OBVIOUS
  <2> HIDE DEF found
  <2>4. QED
    BY <2>1, <2>2, <2>3, FS_CardinalityType
<1> DEFINE rank == [p \in found |-> Cardinality(upTo(p))]
<1>2. ASSUME NEW p \in found
      PROVE  upTo(p) \subseteq found /\ IsFiniteSet(upTo(p)) /\ rank[p] \in 1..n
  <2>1. upTo(p) \subseteq found /\ IsFiniteSet(upTo(p)) /\ Cardinality(upTo(p)) <= n
    BY <1>1, FS_Subset
  <2>2. Cardinality(upTo(p)) \in Nat /\ Cardinality(upTo(p)) # 0
    <3>1. p \in upTo(p)
      BY <1>1
    <3>2. upTo(p) # {}
      BY <3>1
    <3> HIDE DEF upTo
    <3>3. QED
      BY <2>1, <3>2, FS_CardinalityType, FS_EmptySet
  <2>3. QED
    BY <1>1, <2>1, <2>2
<1>3. ASSUME NEW p \in found, NEW q \in found, p < q
      PROVE  rank[p] < rank[q]
  <2>1. upTo(p) \subseteq upTo(q) /\ q \in upTo(q) /\ q \notin upTo(p)
    BY <1>1, <1>3
  <2>2. rank[p] <= rank[q] /\ rank[p] # rank[q]
    <3>1. Cardinality(upTo(p)) <= Cardinality(upTo(q))
          /\ (Cardinality(upTo(p)) = Cardinality(upTo(q)) => upTo(q) = upTo(p))
      BY <1>2, <2>1, FS_Subset
    <3>2. QED
      BY <2>1, <3>1
  <2>3. rank[p] \in 1..n /\ rank[q] \in 1..n
    BY <1>2
  <2> HIDE DEF rank
  <2>4. QED
    BY <1>1, <2>2, <2>3
<1>4. rank \in Injection(found, 1..n)
  <2>1. \A p, q \in found : rank[p] = rank[q] => p = q
    <3> TAKE p, q \in found
    <3>1. rank[p] \in 1..n /\ rank[q] \in 1..n
      BY <1>2
    <3>2. p \in Nat /\ q \in Nat
      BY <1>1
    <3> HIDE DEF rank, found
    <3>3. QED
      BY <1>1, <1>3, <3>1, <3>2
  <2>2. rank \in [found -> 1..n]
    BY <1>2
  <2> HIDE DEF rank
  <2>3. QED
    BY <2>1, <2>2 DEF Injection, IsInjective
<1>5. rank \in Surjection(found, 1..n)
  <2>1. IsFiniteSet(1..n) /\ Cardinality(1..n) = n
    BY <1>1, FS_Interval
  <2> HIDE DEF rank
  <2>2. QED
    BY <1>4, <2>1, FS_Injection
<1>6. ASSUME NEW i \in 1..n PROVE nth(i) \in found /\ rank[nth(i)] = i
  <2>1. \E p \in found : Cardinality(upTo(p)) = i
    BY <1>5 DEF Surjection
  <2>2. nth(i) \in found /\ Cardinality(upTo(nth(i))) = i
    BY <2>1
  <2>3. QED
    BY <2>2
<1>7. ASSUME NEW i \in 1..n, NEW j \in 1..n, i < j PROVE nth(i) < nth(j)
  <2> DEFINE p == nth(i)
             q == nth(j)
  <2>1. p \in found /\ q \in found /\ rank[p] = i /\ rank[q] = j
    BY <1>6
  <2>2. p \in Int /\ q \in Int
    BY <1>1, <2>1
  <2> HIDE DEF p, q, rank, nth
  <2>3. p < q
    BY <1>3, <1>7, <2>1, <2>2
  <2>4. QED
    BY <2>3 DEF p, q
<1> DEFINE r == [i \in 1..n |-> [position |-> nth(i), edits |-> log[nth(i)]]]
<1>8. ReadLog(from, to) = r
  BY DEF ReadLog
<1>9. ASSUME NEW p \in found PROVE \E i \in 1..n : nth(i) = p
  <2>1. rank[p] \in 1..n
    BY <1>2
  <2>2. nth(rank[p]) \in found /\ rank[nth(rank[p])] = rank[p]
    BY <1>6, <2>1
  <2>3. nth(rank[p]) = p
    BY <1>4, <2>2 DEF Injection, IsInjective
  <2>4. QED
    BY <2>1, <2>3
<1>10. \A i \in 1..n : nth(i) \in found
  BY <1>6
<1>11. \A p \in found : [position |-> p, edits |-> log[p]] \in Mutation
  <2> TAKE p \in found
  <2>1. p \in 1..Len(log) /\ p \in 1..MaxPosition
    BY <1>1, StreamAssumption DEF TypeOK
  <2>2. log[p] \in SUBSET Slices
    BY <2>1 DEF TypeOK
  <2>3. QED
    BY <2>1, <2>2 DEF Mutation
<1> HIDE DEF nth, rank
<1>12. r \in [1..n -> Mutation] /\ DOMAIN r = 1..n /\ r \in Seq(Mutation)
  <2>1. \A i \in 1..n : [position |-> nth(i), edits |-> log[nth(i)]] \in Mutation
    BY <1>10, <1>11
  <2>2. r \in [1..n -> Mutation]
    BY <2>1
  <2> HIDE DEF n
  <2>3. r \in Seq(Mutation)
    BY <1>1, <2>2
  <2>4. QED
    BY <2>2, <2>3
<1>13. /\ \A i \in DOMAIN r : r[i].position \in found /\ r[i].edits = log[r[i].position]
       /\ \A i, j \in DOMAIN r : i < j => r[i].position < r[j].position
       /\ \A p \in found : \E i \in DOMAIN r : r[i].position = p
  BY <1>7, <1>9, <1>10
<1> HIDE DEF r
<1>14. ReadingOf(r, from, to)
  BY <1>12, <1>13 DEF ReadingOf
<1>15. QED
  BY <1>8, <1>14

-----------------------------------------------------------------------------
(* The types.                                                              *)

\* The fields of a connection's entry.
LEMMA EntryType ==
  ASSUME TypeOK, conn # NoConn
  PROVE  /\ conn \in Conn /\ pc # "none"
         /\ conn.id \in Conns /\ conn.generation \in Nat /\ conn.view \in {NoView} \cup SUBSET Slices
         /\ conn.active \in BOOLEAN /\ conn.streaming \in BOOLEAN /\ conn.overflowed \in BOOLEAN
         /\ conn.revoked \in BOOLEAN /\ conn.notified \in BOOLEAN
         /\ conn.backlog \in Seq(Frame) /\ taken \in Seq(Frame) /\ Frames \in Seq(Frame)
<1>1. conn \in Conn /\ pc # "none" /\ taken \in Seq(Frame)
  BY DEF TypeOK
<1>2. /\ conn.id \in Conns /\ conn.generation \in Nat /\ conn.view \in {NoView} \cup SUBSET Slices
      /\ conn.active \in BOOLEAN /\ conn.streaming \in BOOLEAN /\ conn.overflowed \in BOOLEAN
      /\ conn.revoked \in BOOLEAN /\ conn.notified \in BOOLEAN
      /\ conn.backlog \in Seq(Frame)
  BY <1>1 DEF Conn
<1>3. Frames \in Seq(Frame)
  BY <1>1, <1>2, ConcatProperties DEF Frames
<1>4. QED
  BY <1>1, <1>2, <1>3

\* The frames the dispatcher queues.
LEMMA FrameType ==
  /\ EndFrame \in Frame
  /\ \A view \in SUBSET Slices, p \in Positions : [kind |-> "view", view |-> view, pos |-> p] \in Frame
  /\ \A ms \in Seq(Mutation) : [kind |-> "commit", mutations |-> ms] \in Frame
BY DEF EndFrame, Frame

\* The fields of a frame.
LEMMA FrameFields ==
  ASSUME NEW f \in Frame
  PROVE  /\ f.kind \in {"view", "commit", "end"}
         /\ f.kind = "view" => f.view \in SUBSET Slices /\ f.pos \in Positions
         /\ f.kind = "commit" => f.mutations \in Seq(Mutation)
BY DEF Frame

\* The fields of a result.
LEMMA ResultFields ==
  ASSUME NEW r \in Result
  PROVE  /\ r.kind \in {"account", "view", "commit"}
         /\ r.kind = "account" => r.generation \in Nat /\ r.conn = NoConn
         /\ r.kind = "view" => /\ r.conn \in Conns /\ r.asked \in BOOLEAN /\ r.ok \in BOOLEAN
                               /\ r.grant \in SUBSET Slices /\ r.position \in Positions
         /\ r.kind = "commit" => /\ r.mutations \in Seq(Mutation) /\ r.position \in Positions
                                 /\ r.conn = NoConn
BY DEF Result

\* The dispatcher takes the first result; the others keep their order.
LEMMA NextResult ==
  ASSUME TypeOK, results # <<>>
  PROVE  /\ Head(results) \in Result /\ Head(results) = results[1] /\ 1 \in DOMAIN results
         /\ DOMAIN results = 1..Len(results) /\ Len(results) \in Nat
         /\ Tail(results) \in Seq(Result) /\ DOMAIN Tail(results) = 1..Len(results) - 1
         /\ Len(Tail(results)) = Len(results) - 1
         /\ \A i \in DOMAIN Tail(results) : Tail(results)[i] = results[i + 1]
<1>1. results \in Seq(Result)
  BY DEF TypeOK
<1>2. /\ Head(results) \in Result /\ Tail(results) \in Seq(Result)
      /\ Len(Tail(results)) = Len(results) - 1
      /\ \A i \in 1..Len(Tail(results)) : Tail(results)[i] = results[i + 1]
  BY <1>1, HeadTailProperties
<1>3. Len(results) \in Nat \ {0} /\ DOMAIN results = 1..Len(results)
  BY <1>1, EmptySeq, LenProperties
<1>4. DOMAIN Tail(results) = 1..Len(Tail(results))
  BY <1>2, LenProperties
<1>5. Head(results) = results[1]
  BY <1>1
<1>6. QED
  BY <1>2, <1>3, <1>4, <1>5

\* What a frame queued does to an entry.
LEMMA QueuedType ==
  ASSUME NEW c \in Conn, NEW f \in Frame
  PROVE  LET q == Queued(c, f) IN
         /\ q \in Conn
         /\ q.id = c.id /\ q.generation = c.generation /\ q.view = c.view
         /\ q.streaming = c.streaming /\ q.revoked = c.revoked
         /\ \/ ~c.active /\ q = c
            \/ /\ c.active /\ ~q.active /\ q.overflowed /\ q.notified /\ q.backlog = c.backlog
            \/ /\ c.active /\ q.active /\ q.overflowed = c.overflowed /\ q.notified
               /\ q.backlog = Append(c.backlog, f)
<1>1. CASE ~c.active
  BY <1>1 DEF Queued
<1>2. CASE c.active /\ Len(c.backlog) >= MaxBacklog
  <2>1. Queued(c, f) = [c EXCEPT !.overflowed = TRUE, !.active = FALSE, !.notified = TRUE]
    BY <1>2 DEF Queued
  <2>2. QED
    BY <1>2, <2>1 DEF Conn
<1>3. CASE c.active /\ ~(Len(c.backlog) >= MaxBacklog)
  <2>1. Queued(c, f) = [c EXCEPT !.backlog = Append(c.backlog, f), !.notified = TRUE]
    BY <1>3 DEF Queued
  <2>2. Append(c.backlog, f) \in Seq(Frame)
    BY AppendProperties DEF Conn
  <2>3. QED
    BY <1>3, <2>1, <2>2 DEF Conn
<1>4. QED
  BY <1>1, <1>2, <1>3

\* What the end of the stream does to an entry.
LEMMA EndedType ==
  ASSUME NEW c \in Conn
  PROVE  LET q == Ended(c) IN
         /\ q \in Conn
         /\ q.id = c.id /\ q.generation = c.generation /\ q.view = c.view
         /\ q.streaming = c.streaming /\ q.revoked = c.revoked /\ ~q.active
         /\ \/ ~c.active /\ q.overflowed = c.overflowed /\ q.notified = c.notified /\ q.backlog = c.backlog
            \/ c.active /\ q.overflowed /\ q.notified /\ q.backlog = c.backlog
            \/ c.active /\ q.overflowed = c.overflowed /\ q.notified
               /\ q.backlog = Append(c.backlog, EndFrame)
<1> DEFINE e == Queued(c, EndFrame)
<1>1. Ended(c) = [e EXCEPT !.active = FALSE]
  BY DEF Ended
<1>2. /\ e \in Conn
      /\ e.id = c.id /\ e.generation = c.generation /\ e.view = c.view
      /\ e.streaming = c.streaming /\ e.revoked = c.revoked
      /\ \/ ~c.active /\ e = c
         \/ c.active /\ e.overflowed /\ e.notified /\ e.backlog = c.backlog
         \/ c.active /\ e.overflowed = c.overflowed /\ e.notified
            /\ e.backlog = Append(c.backlog, EndFrame)
  BY FrameType, QueuedType
<1> HIDE DEF e
<1>3. QED
  BY <1>1, <1>2 DEF Conn

\* A step of the dispatcher that leaves the task alone keeps the types.
LEMMA DispatchedType ==
  ASSUME TypeOK, results # <<>>, results' = Tail(results),
         conn' = conn \/ (conn # NoConn /\ conn' \in Conn),
         position' \in Positions,
         UNCHANGED <<core, requests, task, client, wire, drops>>
  PROVE  TypeOK'
<1>1. results' \in Seq(Result)
  BY NextResult
<1>2. conn' \in {NoConn} \cup Conn /\ (conn' = NoConn <=> pc' = "none")
  BY NoConnAssumption DEF TypeOK, task
<1>3. QED
  BY <1>1, <1>2 DEF TypeOK, core, task

\* The types hold at first.
LEMMA InitType == Init => TypeOK
<1> SUFFICES ASSUME Init PROVE TypeOK
  OBVIOUS
<1>1. /\ log = <<>> /\ grant \in SUBSET Slices /\ client.covered = {}
      /\ client = [cursor |-> -1, view |-> NoView, covered |-> {}]
  BY StreamAssumption DEF Init
<1>2. client \in [cursor: -1..MaxPosition, view: {NoView} \cup SUBSET Slices,
                  covered: SUBSET (Slices \X (1..MaxPosition))]
  BY <1>1, StreamAssumption
<1>3. /\ log \in Seq(SUBSET Slices) /\ requests \in Seq(Request) /\ results \in Seq(Result)
      /\ taken \in Seq(Frame) /\ items \in Seq(Mutation) /\ wire \in Seq(1..MaxPosition)
      /\ grantAt \in Seq(SUBSET Slices) /\ Len(grantAt) = Len(log) /\ Len(log) <= MaxPosition
  <2>1. Len(<<>>) = 0 /\ 0 <= MaxPosition
    BY StreamAssumption
  <2>2. QED
    BY <2>1, EmptySeq DEF Init
<1>4. /\ position \in Positions /\ cursor \in Positions /\ told \in Positions
      /\ mark \in Positions /\ reply \in [ok: BOOLEAN, position: Positions]
  BY StreamAssumption DEF Init, Positions
<1>5. QED
  BY <1>1, <1>2, <1>3, <1>4 DEF Init, TypeOK

\* An account result keeps the types.
LEMMA DispatchAccountType == TypeOK /\ DispatchAccount => TypeOK'
<1> SUFFICES ASSUME TypeOK, DispatchAccount PROVE TypeOK'
  OBVIOUS
<1> USE DEF DispatchAccount
<1>1. conn' = conn \/ (conn # NoConn /\ conn' \in Conn)
  <2>1. CASE conn # NoConn /\ conn' = [Ended(conn) EXCEPT !.revoked = TRUE]
    <3>1. Ended(conn) \in Conn
      BY <2>1, EntryType, EndedType
    <3>2. [Ended(conn) EXCEPT !.revoked = TRUE] \in Conn
      BY <3>1 DEF Conn
    <3>3. QED
      BY <2>1, <3>2
  <2>2. QED
    BY <2>1
<1>2. position' \in Positions
  BY DEF TypeOK
<1>3. QED
  BY <1>1, <1>2, DispatchedType

\* A changed view keeps the types.
LEMMA DispatchViewType == TypeOK /\ DispatchView => TypeOK'
<1> SUFFICES ASSUME TypeOK, DispatchView PROVE TypeOK'
  OBVIOUS
<1> USE DEF DispatchView
<1> DEFINE r == Head(results)
           view == r.grant \cap Wants
           seen == [conn EXCEPT !.view = view]
           frame == [kind |-> "view", view |-> view, pos |-> position]
<1>1. conn' = conn \/ (conn # NoConn /\ conn' \in Conn)
  <2>1. CASE Mine(r) /\ ~r.ok
    BY <2>1, EntryType, EndedType DEF Mine
  <2>2. CASE Mine(r) /\ r.ok /\ view # conn.view
    <3>1. view \in SUBSET Slices /\ position \in Positions
      BY NextResult, ResultFields DEF TypeOK
    <3>2. conn \in Conn /\ conn # NoConn
      BY <2>2, EntryType DEF Mine
    <3>3. seen \in Conn /\ frame \in Frame
      BY <3>1, <3>2, FrameType DEF Conn
    <3>4. Queued(seen, frame) \in Conn
      BY <3>3, QueuedType
    <3>5. conn' = Queued(seen, frame)
      BY <2>2
    <3>6. QED
      BY <3>2, <3>4, <3>5
  <2>3. CASE ~Mine(r) \/ (r.ok /\ view = conn.view)
    BY <2>3
  <2>4. QED
    BY <2>1, <2>2, <2>3
<1>2. position' \in Positions
  BY DEF TypeOK
<1>3. QED
  BY <1>1, <1>2, DispatchedType

\* A commit keeps the types.
LEMMA DispatchCommitType == TypeOK /\ DispatchCommit => TypeOK'
<1> SUFFICES ASSUME TypeOK, DispatchCommit PROVE TypeOK'
  OBVIOUS
<1> USE DEF DispatchCommit
<1> DEFINE frame == [kind |-> "commit", mutations |-> Head(results).mutations]
<1>1. Head(results).mutations \in Seq(Mutation) /\ position' \in Positions
  BY NextResult, ResultFields
<1>2. frame \in Frame
  BY <1>1, FrameType
<1>3. conn # NoConn => Queued(conn, frame) \in Conn
  BY <1>2, EntryType, QueuedType
<1>4. conn' = conn \/ (conn # NoConn /\ conn' \in Conn)
  BY <1>3
<1>5. QED
  BY <1>1, <1>4, DispatchedType

\* The answer of a registration keeps the types.
LEMMA DispatchReplyType == TypeOK /\ DispatchReply => TypeOK'
<1> SUFFICES ASSUME TypeOK, DispatchReply PROVE TypeOK'
  OBVIOUS
<1> USE DEF DispatchReply
<1> DEFINE r == Head(results)
<1>1. results' \in Seq(Result) /\ r.kind = "view" /\ r \in Result
  BY NextResult
<1>2. r.grant \in SUBSET Slices /\ r.ok \in BOOLEAN /\ r.position \in Positions
  BY <1>1, ResultFields
<1>3. CASE ~Mine(r)
  BY <1>1, <1>3 DEF TypeOK, core
<1>4. CASE Mine(r)
  <2>1. conn \in Conn /\ conn # NoConn /\ pc # "none"
    BY <1>4, EntryType DEF Mine
  <2>2. [conn EXCEPT !.view = r.grant \cap Wants, !.active = ~conn.revoked] \in Conn
    BY <1>2, <2>1 DEF Conn
  <2>3. conn' \in Conn /\ conn' # NoConn /\ pc' = "replied"
    BY <1>4, <2>1, <2>2, NoConnAssumption
  <2>4. reply' \in [ok: BOOLEAN, position: Positions]
    BY <1>2, <1>4
  <2>5. QED
    BY <1>1, <1>4, <2>3, <2>4 DEF TypeOK, core
<1>5. QED
  BY <1>3, <1>4

-----------------------------------------------------------------------------
(* A batch.                                                                *)

Asks == {r \in {requests[i] : i \in DOMAIN requests} : r.kind = "register"}
Asking == {r.conn : r \in Asks}
Leaving == {r.conn : r \in {requests[i] : i \in DOMAIN requests} \ Asks}
Admitted(valid) == {r.conn : r \in {a \in Asks : a.generation = valid}}
Seeing(g, f) == IF g # grant \/ f # failed THEN members \ Leaving ELSE {}

\* What a batch puts behind the results that wait, up to a, b, c and d: the
\* account, the views, the commit and the answers.
Appends(muts, g, f, gen, valid, a, b, c, d) ==
  LET n == Len(results)
      head == Len(log) + Len(muts) IN
  /\ a \in Nat /\ b \in Nat /\ c \in Nat /\ d \in Nat
  /\ a = (IF gen # generation THEN n + 1 ELSE n) /\ a <= b
  /\ c = (IF muts # <<>> THEN b + 1 ELSE b) /\ c <= d
  /\ Len(results') = d /\ DOMAIN results' = 1..d
  /\ \A i \in 1..n : results'[i] = results[i]
  /\ \A i \in (n + 1)..a : results'[i] = Account(gen)
  /\ \A i \in (a + 1)..b : \E m \in Seeing(g, f) :
       results'[i] = ViewResult(m, FALSE, ~f, g, head)
  /\ \A m \in Seeing(g, f) : \E i \in (a + 1)..b : results'[i].conn = m
  /\ \A i \in (b + 1)..c : results'[i] = CommitResult(muts, Len(log) + 1, head)
  /\ \A i \in (c + 1)..d : \E m \in Asking :
       results'[i] = IF m \in Admitted(valid) THEN ViewResult(m, TRUE, ~f, g, head)
                     ELSE ViewResult(m, TRUE, FALSE, {}, head)
  /\ \A m \in Asking : \E i \in (c + 1)..d : results'[i].conn = m
  /\ \A i, j \in (c + 1)..d : results'[i].conn = results'[j].conn => i = j

\* The connections that register with a batch are finitely many.
LEMMA FiniteAsking ==
  ASSUME TypeOK
  PROVE  /\ IsFiniteSet(Asking) /\ Asking \subseteq Conns
         /\ \A valid : IsFiniteSet(Admitted(valid)) /\ Admitted(valid) \subseteq Asking
<1> DEFINE R == {requests[i] : i \in DOMAIN requests}
<1>1. requests \in Seq(Request) /\ DOMAIN requests = 1..Len(requests) /\ Len(requests) \in Nat
  BY LenProperties DEF TypeOK
<1>2. IsFiniteSet(R) /\ R \subseteq Request
  <2>1. IsFiniteSet(1..Len(requests))
    BY <1>1, FS_Interval
  <2>2. IsFiniteSet(R)
    <3> DEFINE nth == [i \in 1..Len(requests) |-> requests[i]]
    <3>1. nth \in Surjection(1..Len(requests), R)
      BY <1>1 DEF Surjection
    <3>2. QED
      BY <2>1, <3>1, FS_Surjection
  <2>3. QED
    BY <1>1, <2>2
<1>3. Asks \subseteq R /\ IsFiniteSet(Asks)
  BY <1>2, FS_Subset DEF Asks
<1>4. IsFiniteSet(Asking)
  <2> DEFINE asker == [r \in Asks |-> r.conn]
  <2>1. asker \in Surjection(Asks, Asking)
    BY DEF Surjection, Asking
  <2>2. QED
    BY <1>3, <2>1, FS_Surjection
<1>5. Asking \subseteq Conns
  BY <1>2, <1>3 DEF Asking, Request
<1>6. ASSUME NEW valid PROVE IsFiniteSet(Admitted(valid)) /\ Admitted(valid) \subseteq Asking
  <2>1. Admitted(valid) \subseteq Asking
    BY DEF Admitted, Asking
  <2>2. QED
    BY <1>4, <2>1, FS_Subset
<1>7. QED
  BY <1>4, <1>5, <1>6

\* What the log holds after a batch.
LEMMA LoggedIs ==
  ASSUME TypeOK, NEW muts \in Seq(Mutations)
  PROVE  LET l == Logged(log, muts)
             n == Len(log) IN
         /\ l \in Seq(SUBSET Slices) /\ Len(l) = n + Len(muts) /\ DOMAIN l = 1..n + Len(muts)
         /\ \A p \in 1..n : l[p] \subseteq log[p]
         /\ \A i \in DOMAIN muts : l[n + i] \subseteq muts[i].edits
<1> DEFINE n == Len(log)
           erased(p) == UNION {muts[i].erases : i \in {j \in DOMAIN muts : n + j > p}}
           at(p) == (IF p <= n THEN log[p] ELSE muts[p - n].edits) \ erased(p)
<1>1. n \in Nat /\ Len(muts) \in Nat /\ log \in Seq(SUBSET Slices) /\ DOMAIN log = 1..n
      /\ DOMAIN muts = 1..Len(muts)
  BY LenProperties DEF TypeOK
<1>2. Logged(log, muts) = [p \in 1..n + Len(muts) |-> at(p)]
  BY DEF Logged
<1>3. \A p \in 1..n + Len(muts) : at(p) \in SUBSET Slices
  <2> TAKE p \in 1..n + Len(muts)
  <2>1. CASE p <= n
    BY <1>1, <2>1
  <2>2. CASE ~(p <= n)
    <3>1. muts[p - n] \in Mutations
      BY <1>1, <2>2
    <3>2. muts[p - n].edits \subseteq Slices
      BY <3>1, StreamAssumption
    <3>3. at(p) \subseteq muts[p - n].edits
      BY <2>2
    <3>4. QED
      BY <3>2, <3>3
  <2>3. QED
    BY <2>1, <2>2
<1>4. \A p \in 1..n : at(p) \subseteq log[p]
  OBVIOUS
<1>5. \A i \in DOMAIN muts : at(n + i) \subseteq muts[i].edits
  <2> TAKE i \in DOMAIN muts
  <2>1. n + i - n = i /\ ~(n + i <= n)
    BY <1>1
  <2>2. QED
    BY <2>1
<1> HIDE DEF at, n
<1>6. \A p \in 1..n : p \in 1..n + Len(muts)
  BY <1>1
<1>7. \A i \in DOMAIN muts : n + i \in 1..n + Len(muts)
  BY <1>1
<1> DEFINE l == Logged(log, muts)
<1>8. /\ l \in [1..n + Len(muts) -> SUBSET Slices]
      /\ \A p \in 1..n + Len(muts) : l[p] = at(p)
  BY <1>2, <1>3
<1> HIDE DEF l
<1>9. l \in Seq(SUBSET Slices) /\ Len(l) = n + Len(muts) /\ DOMAIN l = 1..n + Len(muts)
  <2>1. \A S, m : m \in Nat /\ l \in [1..m -> S] => l \in Seq(S) /\ Len(l) = m /\ DOMAIN l = 1..m
    OBVIOUS
  <2>2. n + Len(muts) \in Nat
    BY <1>1
  <2>3. QED
    BY <1>8, <2>1, <2>2
<1>10. QED
  BY <1>4, <1>5, <1>6, <1>7, <1>8, <1>9 DEF n, l

\* The results of a batch.
LEMMA BatchResults ==
  ASSUME TypeOK, NEW g \in SUBSET Slices, NEW gen \in Nat, NEW p \in Positions
  PROVE  /\ Account(gen) \in Result
         /\ \A m \in Conns, asked, ok \in BOOLEAN : ViewResult(m, asked, ok, g, p) \in Result
         /\ \A m \in Conns : ViewResult(m, TRUE, FALSE, {}, p) \in Result
         /\ \A muts \in Seq(Mutations) : p = Len(log) + Len(muts)
              => CommitResult(muts, Len(log) + 1, p) \in Result
<1>1. Account(gen) \in Result
  BY DEF Account, Result
<1>2. \A m \in Conns, asked, ok \in BOOLEAN : ViewResult(m, asked, ok, g, p) \in Result
  BY DEF ViewResult, Result
<1>3. \A m \in Conns : ViewResult(m, TRUE, FALSE, {}, p) \in Result
  BY DEF ViewResult, Result
<1>4. ASSUME NEW muts \in Seq(Mutations), p = Len(log) + Len(muts)
      PROVE  CommitResult(muts, Len(log) + 1, p) \in Result
  <2> DEFINE ms == [i \in DOMAIN muts |-> [position |-> Len(log) + 1 + i - 1, edits |-> muts[i].edits]]
  <2>1. Len(muts) \in Nat /\ DOMAIN muts = 1..Len(muts) /\ Len(log) \in Nat
    BY LenProperties DEF TypeOK
  <2>2. \A i \in DOMAIN muts : [position |-> Len(log) + 1 + i - 1, edits |-> muts[i].edits] \in Mutation
    <3> TAKE i \in DOMAIN muts
    <3>1. Len(log) + 1 + i - 1 \in 1..MaxPosition
      BY <1>4, <2>1, StreamAssumption DEF Positions
    <3>2. muts[i].edits \in SUBSET Slices
      BY <2>1, StreamAssumption
    <3>3. QED
      BY <3>1, <3>2 DEF Mutation
  <2>3. ms \in [1..Len(muts) -> Mutation]
    BY <2>1, <2>2
  <2>4. ms \in Seq(Mutation)
    BY <2>1, <2>3
  <2>5. CommitResult(muts, Len(log) + 1, p) = [kind |-> "commit", conn |-> NoConn, position |-> p, mutations |-> ms]
    BY DEF CommitResult
  <2> HIDE DEF ms
  <2>6. QED
    BY <2>4, <2>5 DEF Result
<1>5. QED
  BY <1>1, <1>2, <1>3, <1>4

\* A batch's results go behind those that wait.
LEMMA BatchAppends ==
  ASSUME TypeOK, IsFiniteSet(members), NEW muts \in Seq(Mutations), NEW g \in SUBSET Slices,
         NEW f \in BOOLEAN, NEW gen \in Nat, Batch(muts, g, f, gen)
  PROVE  \E valid \in {generation, gen}, a, b, c, d \in Nat :
           /\ Appends(muts, g, f, gen, valid, a, b, c, d)
           /\ members' = (members \cup Admitted(valid)) \ Leaving
           /\ results' \in Seq(Result)
<1> DEFINE head == Len(log) + Len(muts)
           n == Len(results)
           A == IF gen # generation THEN <<Account(gen)>> ELSE <<>>
           C == IF muts # <<>> THEN <<CommitResult(muts, Len(log) + 1, head)>> ELSE <<>>
           Viewed(m) == ViewResult(m, FALSE, ~f, g, head)
           Answered(valid, m) == IF m \in Admitted(valid) THEN ViewResult(m, TRUE, ~f, g, head)
                                 ELSE ViewResult(m, TRUE, FALSE, {}, head)
<1>1. PICK valid \in {generation, gen} :
        /\ members' = (members \cup Admitted(valid)) \ Leaving
        /\ \E views \in SetToSeqs(Seeing(g, f)), asked \in SetToSeqs(Asking) :
             results' = results \o A \o [i \in DOMAIN views |-> Viewed(views[i])]
                          \o C \o [i \in DOMAIN asked |-> Answered(valid, asked[i])]
  BY DEF Batch, Asks, Asking, Leaving, Admitted, Seeing
<1>2. PICK views \in SetToSeqs(Seeing(g, f)), asked \in SetToSeqs(Asking) :
        results' = results \o A \o [i \in DOMAIN views |-> Viewed(views[i])]
                     \o C \o [i \in DOMAIN asked |-> Answered(valid, asked[i])]
  BY <1>1
<1> DEFINE V == [i \in DOMAIN views |-> Viewed(views[i])]
           W == [i \in DOMAIN asked |-> Answered(valid, asked[i])]
<1>3. head \in Positions /\ head <= MaxPosition
  BY LenProperties, StreamAssumption DEF TypeOK, Batch, Positions
<1>4. IsFiniteSet(Seeing(g, f)) /\ Seeing(g, f) \subseteq Conns
  <2>1. Seeing(g, f) \subseteq members /\ members \subseteq Conns
    BY DEF Seeing, TypeOK
  <2>2. QED
    BY <2>1, FS_Subset
<1>5. /\ views \in Seq(Seeing(g, f)) /\ DOMAIN views = 1..Len(views) /\ Len(views) \in Nat
      /\ \A x \in Seeing(g, f) : \E i \in DOMAIN views : views[i] = x
  BY <1>4, OrdersOf
<1>6. /\ asked \in Seq(Asking) /\ DOMAIN asked = 1..Len(asked) /\ Len(asked) \in Nat
      /\ \A x \in Asking : \E i \in DOMAIN asked : asked[i] = x
      /\ \A i, j \in DOMAIN asked : asked[i] = asked[j] => i = j
  BY FiniteAsking, OrdersOf
<1>7. /\ Account(gen) \in Result
      /\ \A m \in Conns : Viewed(m) \in Result /\ Answered(valid, m) \in Result
      /\ CommitResult(muts, Len(log) + 1, head) \in Result
  BY <1>3, BatchResults
<1>8. A \in Seq(Result) /\ C \in Seq(Result)
      /\ Len(A) = (IF gen # generation THEN 1 ELSE 0) /\ Len(C) = (IF muts # <<>> THEN 1 ELSE 0)
  <2> HIDE DEF head
  <2>1. \A r \in Result : <<r>> \in Seq(Result) /\ Len(<<r>>) = 1
    OBVIOUS
  <2>2. <<>> \in Seq(Result) /\ Len(<<>>) = 0
    OBVIOUS
  <2>3. QED
    BY <1>7, <2>1, <2>2
<1>9. V \in Seq(Result) /\ Len(V) = Len(views) /\ \A i \in 1..Len(views) : V[i] = Viewed(views[i])
  <2>1. \A i \in 1..Len(views) : views[i] \in Seeing(g, f) /\ views[i] \in Conns
    BY <1>4, <1>5
  <2> HIDE DEF Viewed
  <2>2. V \in [1..Len(views) -> Result] /\ \A i \in 1..Len(views) : V[i] = Viewed(views[i])
    BY <1>5, <1>7, <2>1
  <2> HIDE DEF V
  <2>3. QED
    BY <1>5, <2>2
<1>10. W \in Seq(Result) /\ Len(W) = Len(asked)
       /\ \A i \in 1..Len(asked) : W[i] = Answered(valid, asked[i])
  <2>1. \A i \in 1..Len(asked) : asked[i] \in Asking /\ asked[i] \in Conns
    BY <1>6, FiniteAsking
  <2> HIDE DEF Answered
  <2>2. W \in [1..Len(asked) -> Result] /\ \A i \in 1..Len(asked) : W[i] = Answered(valid, asked[i])
    BY <1>6, <1>7, <2>1
  <2> HIDE DEF W
  <2>3. \A S, m : m \in Nat /\ W \in [1..m -> S] => W \in Seq(S) /\ Len(W) = m
    OBVIOUS
  <2>4. Len(asked) \in Nat
    BY <1>6
  <2>5. QED
    BY <2>2, <2>3, <2>4
<1>11. A # <<>> => A[1] = Account(gen)
  OBVIOUS
<1>12. C # <<>> => C[1] = CommitResult(muts, Len(log) + 1, head)
  OBVIOUS
<1>13. results \in Seq(Result) /\ results' = results \o A \o V \o C \o W
  BY <1>2 DEF TypeOK
<1> HIDE DEF A, V, C, W, head, Viewed, Answered
<1> DEFINE a == n + Len(A)
           b == a + Len(V)
           c == b + Len(C)
           d == c + Len(W)
<1>14. /\ n \in Nat /\ a \in Nat /\ b \in Nat /\ c \in Nat /\ d \in Nat
       /\ n <= a /\ a <= b /\ b <= c /\ c <= d
       /\ results' \in Seq(Result) /\ Len(results') = d /\ DOMAIN results' = 1..d
       /\ \A i \in 1..n : results'[i] = results[i]
       /\ \A i \in 1..Len(A) : results'[n + i] = A[i]
       /\ \A i \in 1..Len(V) : results'[a + i] = V[i]
       /\ \A i \in 1..Len(C) : results'[b + i] = C[i]
       /\ \A i \in 1..Len(W) : results'[c + i] = W[i]
  <2>1. /\ results \in Seq(Result) /\ A \in Seq(Result) /\ V \in Seq(Result) /\ C \in Seq(Result)
        /\ W \in Seq(Result) /\ results' = results \o A \o V \o C \o W
    BY <1>8, <1>9, <1>10, <1>13
  <2>2. /\ n \in Nat /\ a \in Nat /\ b \in Nat /\ c \in Nat /\ d \in Nat
        /\ n <= a /\ a <= b /\ b <= c /\ c <= d
    BY ONLY <2>1
  <2>3. results' \in Seq(Result)
    BY ONLY <2>1
  <2>4. Len(results') = d
    BY ONLY <2>1
  <2>5. DOMAIN results' = 1..d
    BY <2>3, <2>4, LenProperties
  <2>6. \A i \in 1..n : results'[i] = results[i]
    BY ONLY <2>1
  <2>7. \A i \in 1..Len(A) : results'[n + i] = A[i]
    BY ONLY <2>1
  <2>8. \A i \in 1..Len(V) : results'[a + i] = V[i]
    BY ONLY <2>1
  <2>9. \A i \in 1..Len(C) : results'[b + i] = C[i]
    BY ONLY <2>1
  <2>10. \A i \in 1..Len(W) : results'[c + i] = W[i]
    BY ONLY <2>1
  <2>11. QED
    BY <2>2, <2>3, <2>4, <2>5, <2>6, <2>7, <2>8, <2>9, <2>10
<1>15. a = (IF gen # generation THEN n + 1 ELSE n) /\ c = (IF muts # <<>> THEN b + 1 ELSE b)
  <2>1. n \in Nat /\ b \in Nat /\ a = n + Len(A) /\ c = b + Len(C)
    BY <1>14
  <2> HIDE DEF a, b, c, d, n
  <2>2. QED
    BY <1>8, <2>1
<1>16. \A k \in 1..Len(views) : a + k \in (a + 1)..b /\ results'[a + k] = Viewed(views[k])
  <2>1. b = a + Len(V) /\ Len(V) = Len(views) /\ Len(views) \in Nat /\ a \in Nat
    BY <1>5, <1>9, <1>14
  <2> HIDE DEF a, b, c, d, n
  <2>2. QED
    BY <1>9, <1>14, <2>1
<1>17. \A k \in 1..Len(asked) : c + k \in (c + 1)..d /\ results'[c + k] = Answered(valid, asked[k])
  <2>1. d = c + Len(W) /\ Len(W) = Len(asked) /\ Len(asked) \in Nat /\ c \in Nat
    BY <1>6, <1>10, <1>14
  <2> HIDE DEF a, b, c, d, n
  <2>2. QED
    BY <1>10, <1>14, <2>1
<1>18. /\ a = n + Len(A) /\ b = a + Len(V) /\ c = b + Len(C) /\ d = c + Len(W)
      /\ (A # <<>> => Len(A) = 1) /\ (C # <<>> => Len(C) = 1) /\ Len(A) \in {0, 1} /\ Len(C) \in {0, 1}
      /\ (A = <<>> => Len(A) = 0) /\ (C = <<>> => Len(C) = 0)
  <2>1. (A # <<>> => Len(A) = 1) /\ (C # <<>> => Len(C) = 1)
    BY <1>8 DEF A, C
  <2>2. Len(A) \in {0, 1} /\ Len(C) \in {0, 1}
    BY <1>8
  <2>3. (A = <<>> => Len(A) = 0) /\ (C = <<>> => Len(C) = 0)
    BY EmptySeq
  <2>4. QED
    BY <2>1, <2>2, <2>3
<1> HIDE DEF a, b, c, d, n
<1>19. \A i \in (n + 1)..a : results'[i] = Account(gen)
  <2>1. ASSUME NEW i \in (n + 1)..a PROVE results'[i] = Account(gen)
    <3>1. Len(A) = 1 /\ i = n + 1 /\ A # <<>> /\ 1 \in 1..Len(A)
      <4>1. n \in Nat /\ a \in Nat /\ a = n + Len(A) /\ Len(A) \in {0, 1}
        BY <1>18, <1>14, Zenon
      <4>2. i \in Int /\ n + 1 <= i /\ i <= a
        BY <4>1
      <4>3. Len(A) = 1
        BY <4>1, <4>2
      <4>4. i = n + 1 /\ 1 \in 1..Len(A)
        BY <4>1, <4>2, <4>3
      <4>5. QED
        BY <1>18, <4>3, <4>4
    <3>2. results'[n + 1] = A[1]
      BY <1>14, <3>1
    <3>3. QED
      BY <1>11, <3>1, <3>2
  <2>2. QED
    BY <2>1
<1>20. \A i \in (b + 1)..c : results'[i] = CommitResult(muts, Len(log) + 1, head)
  <2>1. ASSUME NEW i \in (b + 1)..c PROVE results'[i] = CommitResult(muts, Len(log) + 1, head)
    <3>1. Len(C) = 1 /\ i = b + 1 /\ C # <<>> /\ 1 \in 1..Len(C)
      <4>1. b \in Nat /\ c \in Nat /\ c = b + Len(C) /\ Len(C) \in {0, 1}
        BY <1>18, <1>14, Zenon
      <4>2. i \in Int /\ b + 1 <= i /\ i <= c
        BY <4>1
      <4>3. Len(C) = 1
        BY <4>1, <4>2
      <4>4. i = b + 1 /\ 1 \in 1..Len(C)
        BY <4>1, <4>2, <4>3
      <4>5. QED
        BY <1>18, <4>3, <4>4
    <3>2. results'[b + 1] = C[1]
      BY <1>14, <3>1
    <3>3. QED
      BY <1>12, <3>1, <3>2
  <2>2. QED
    BY <2>1
<1>21. \A i \in (a + 1)..b : i - a \in 1..Len(views) /\ results'[i] = Viewed(views[i - a])
  <2>1. ASSUME NEW i \in (a + 1)..b
        PROVE  i - a \in 1..Len(views) /\ results'[i] = Viewed(views[i - a])
    <3>1. i - a \in 1..Len(V) /\ a + (i - a) = i
      BY <1>18, <1>9, <1>5, <1>14
    <3>2. results'[a + (i - a)] = V[i - a]
      BY <1>14, <3>1
    <3>3. QED
      BY <1>9, <3>1, <3>2
  <2>2. QED
    BY <2>1
<1>22. \A i \in (c + 1)..d : i - c \in 1..Len(asked) /\ results'[i] = Answered(valid, asked[i - c])
  <2>1. ASSUME NEW i \in (c + 1)..d
        PROVE  i - c \in 1..Len(asked) /\ results'[i] = Answered(valid, asked[i - c])
    <3>1. i - c \in 1..Len(W) /\ c + (i - c) = i
      BY <1>18, <1>10, <1>6, <1>14
    <3>2. results'[c + (i - c)] = W[i - c]
      BY <1>14, <3>1
    <3>3. QED
      BY <1>10, <3>1, <3>2
  <2>2. QED
    BY <2>1
<1>23. /\ \A m : Viewed(m) = ViewResult(m, FALSE, ~f, g, head) /\ Viewed(m).conn = m
       /\ \A m : /\ Answered(valid, m) = IF m \in Admitted(valid) THEN ViewResult(m, TRUE, ~f, g, head)
                                         ELSE ViewResult(m, TRUE, FALSE, {}, head)
                 /\ Answered(valid, m).conn = m
  BY DEF Viewed, Answered, ViewResult
<1>24. \A i \in (a + 1)..b : \E m \in Seeing(g, f) : results'[i] = ViewResult(m, FALSE, ~f, g, head)
  <2>1. ASSUME NEW i \in (a + 1)..b
        PROVE  \E m \in Seeing(g, f) : results'[i] = ViewResult(m, FALSE, ~f, g, head)
    <3>1. views[i - a] \in Seeing(g, f)
      BY <1>5, <1>21
    <3>2. QED
      BY <1>21, <1>23, <3>1
  <2>2. QED
    BY <2>1
<1>25. \A m \in Seeing(g, f) : \E i \in (a + 1)..b : results'[i].conn = m
  <2>1. ASSUME NEW m \in Seeing(g, f) PROVE \E i \in (a + 1)..b : results'[i].conn = m
    <3>1. PICK k \in 1..Len(views) : views[k] = m
      BY <1>5
    <3>2. a + k \in (a + 1)..b /\ results'[a + k] = Viewed(m)
      BY <1>16, <3>1
    <3>3. QED
      BY <1>23, <3>2
  <2>2. QED
    BY <2>1
<1>26. \A i \in (c + 1)..d : \E m \in Asking :
         results'[i] = IF m \in Admitted(valid) THEN ViewResult(m, TRUE, ~f, g, head)
                       ELSE ViewResult(m, TRUE, FALSE, {}, head)
  <2>1. ASSUME NEW i \in (c + 1)..d
        PROVE  \E m \in Asking :
                 results'[i] = IF m \in Admitted(valid) THEN ViewResult(m, TRUE, ~f, g, head)
                               ELSE ViewResult(m, TRUE, FALSE, {}, head)
    <3>1. asked[i - c] \in Asking
      BY <1>6, <1>22
    <3>2. QED
      BY <1>22, <1>23, <3>1
  <2>2. QED
    BY <2>1
<1>27. \A m \in Asking : \E i \in (c + 1)..d : results'[i].conn = m
  <2>1. ASSUME NEW m \in Asking PROVE \E i \in (c + 1)..d : results'[i].conn = m
    <3>1. PICK k \in 1..Len(asked) : asked[k] = m
      BY <1>6
    <3>2. c + k \in (c + 1)..d /\ results'[c + k] = Answered(valid, m)
      BY <1>17, <3>1
    <3>3. QED
      BY <1>23, <3>2
  <2>2. QED
    BY <2>1
<1>28. \A i, j \in (c + 1)..d : results'[i].conn = results'[j].conn => i = j
  <2>1. ASSUME NEW i \in (c + 1)..d, NEW j \in (c + 1)..d, results'[i].conn = results'[j].conn
        PROVE  i = j
    <3>1. results'[i].conn = asked[i - c] /\ results'[j].conn = asked[j - c]
      BY <1>22, <1>23
    <3>2. i - c \in 1..Len(asked) /\ j - c \in 1..Len(asked) /\ asked[i - c] = asked[j - c]
      BY <1>22, <2>1, <3>1
    <3>3. i - c = j - c
      BY <1>6, <3>2
    <3>4. QED
      BY <1>14, <3>3
  <2>2. QED
    BY <2>1
<1> HIDE DEF a, b, c, d
<1>29. Appends(muts, g, f, gen, valid, a, b, c, d)
  BY <1>14, <1>19, <1>20, <1>24, <1>25, <1>26, <1>27, <1>28, <1>15 DEF Appends, n, head
<1>30. QED
  BY <1>1, <1>14, <1>29

-----------------------------------------------------------------------------
(* The types after a batch and after a step of the connection's task.      *)

\* What it leaves of the log.
LogsOf(muts, g) ==
  /\ Len(muts) \in Nat /\ (muts # <<>> => Len(muts) > 0) /\ (muts = <<>> => Len(muts) = 0)
  /\ Len(log) \in Nat /\ log' \in Seq(SUBSET Slices) /\ Len(log') = Len(log) + Len(muts)
  /\ Len(log') <= MaxPosition
  /\ \A p \in 1..Len(log) : log'[p] \subseteq log[p]
  /\ \A i \in 1..Len(muts) : log'[Len(log) + i] \subseteq muts[i].edits
  /\ grantAt' \in Seq(SUBSET Slices) /\ Len(grantAt') = Len(log')
  /\ \A p \in 1..Len(log) : grantAt'[p] = grantAt[p]
  /\ \A p \in (Len(log) + 1)..(Len(log) + Len(muts)) : grantAt'[p] = g

\* A batch adds its mutations to the log, each with the grant it leaves.
LEMMA BatchLogs ==
  ASSUME TypeOK, NEW muts \in Seq(Mutations), NEW g \in SUBSET Slices,
         NEW f \in BOOLEAN, NEW gen \in Nat, Batch(muts, g, f, gen)
  PROVE  LogsOf(muts, g)
<1> DEFINE n == Len(log)
           G == [i \in DOMAIN muts |-> g]
<1>1. /\ Len(muts) \in Nat /\ DOMAIN muts = 1..Len(muts) /\ n \in Nat
      /\ (muts # <<>> => Len(muts) > 0) /\ (muts = <<>> => Len(muts) = 0)
  BY EmptySeq, LenProperties DEF TypeOK
<1>2. log' = Logged(log, muts) /\ n + Len(muts) <= MaxPosition /\ grantAt' = grantAt \o G
  BY DEF Batch
<1>3. grantAt \in Seq(SUBSET Slices) /\ Len(grantAt) = n
  BY DEF TypeOK
<1>4. G \in Seq(SUBSET Slices) /\ Len(G) = Len(muts) /\ \A i \in 1..Len(muts) : G[i] = g
  <2>1. G \in [1..Len(muts) -> SUBSET Slices] /\ \A i \in 1..Len(muts) : G[i] = g
    BY <1>1
  <2> HIDE DEF G
  <2>2. \A S, m : m \in Nat /\ G \in [1..m -> S] => G \in Seq(S) /\ Len(G) = m
    OBVIOUS
  <2>3. QED
    BY <1>1, <2>1, <2>2
<1> HIDE DEF G
<1>5. grantAt' \in Seq(SUBSET Slices) /\ Len(grantAt') = n + Len(muts)
  <2>1. \A S, s, t, m : s \in Seq(S) /\ t \in Seq(S) /\ Len(s) = n /\ Len(t) = m /\ n \in Nat /\ m \in Nat
          => s \o t \in Seq(S) /\ Len(s \o t) = n + m
    OBVIOUS
  <2>2. QED
    BY <1>1, <1>2, <1>3, <1>4, <2>1
<1>6. \A p \in 1..n : grantAt'[p] = grantAt[p]
  BY <1>2, <1>3, <1>4
<1>7. \A p \in (n + 1)..(n + Len(muts)) : grantAt'[p] = g
  <2>1. \A i \in 1..Len(muts) : grantAt'[n + i] = G[i]
    BY <1>2, <1>3, <1>4
  <2> TAKE p \in (n + 1)..(n + Len(muts))
  <2>2. p - n \in 1..Len(muts) /\ n + (p - n) = p
    BY <1>1
  <2>3. QED
    BY <1>4, <2>1, <2>2
<1>8. QED
  BY <1>1, <1>2, <1>5, <1>6, <1>7, LoggedIs DEF LogsOf

\* A batch keeps the types.
LEMMA BatchType ==
  ASSUME TypeOK, IsFiniteSet(members), NEW muts \in Seq(Mutations), NEW g \in SUBSET Slices,
         NEW f \in BOOLEAN, NEW gen \in Nat, Batch(muts, g, f, gen)
  PROVE  TypeOK'
<1>1. results' \in Seq(Result) /\ members' \subseteq Conns
  <2>1. PICK valid \in {generation, gen}, a, b, c, d \in Nat :
          /\ Appends(muts, g, f, gen, valid, a, b, c, d)
          /\ members' = (members \cup Admitted(valid)) \ Leaving
          /\ results' \in Seq(Result)
    BY BatchAppends, Zenon
  <2>2. Admitted(valid) \subseteq Asking /\ Asking \subseteq Conns
    BY FiniteAsking
  <2>3. members \subseteq Conns
    BY DEF TypeOK
  <2>4. QED
    BY <2>1, <2>2, <2>3
<1>2. /\ log' \in Seq(SUBSET Slices) /\ Len(log') <= MaxPosition
      /\ grantAt' \in Seq(SUBSET Slices) /\ Len(grantAt') = Len(log')
  <2>1. LogsOf(muts, g)
    BY BatchLogs, Zenon
  <2>2. QED
    BY <2>1 DEF LogsOf
<1>3. requests' = <<>> /\ requests' \in Seq(Request) /\ grant' = g /\ failed' = f /\ generation' = gen
  BY DEF Batch
<1>4. UNCHANGED <<position, conn, task, client, wire, drops>>
  BY DEF Batch
<1>5. QED
  BY <1>1, <1>2, <1>3, <1>4 DEF TypeOK, task

\* A client that connects keeps the types.
LEMMA ConnectType ==
  ASSUME TypeOK, NEW c \in Conns, NEW g \in Nat, Connect(c, g)
  PROVE  TypeOK'
<1>1. NewConn(c, g) \in Conn
  <2>1. <<>> \in Seq(Frame)
    OBVIOUS
  <2>2. QED
    BY <2>1 DEF NewConn, Conn
<1>2. conn' \in {NoConn} \cup Conn /\ conn' # NoConn /\ pc' = "wait"
  BY <1>1, NoConnAssumption DEF Connect
<1>3. requests' \in Seq(Request)
  <2>1. [kind |-> "register", conn |-> c, generation |-> g] \in Request
    BY DEF Request
  <2>2. QED
    BY <2>1, AppendProperties DEF TypeOK, Connect
<1>4. wire' = <<>> /\ wire' \in Seq(1..MaxPosition)
  BY DEF Connect
<1>5. UNCHANGED <<core, results, position, reply, selectors, cursor, told, taken,
                  ending, items, mark, client, drops>>
  BY DEF Connect
<1>6. QED
  BY <1>2, <1>3, <1>4, <1>5 DEF TypeOK, core

\* The task's locals once it is gone.
LEMMA IdleType ==
  ASSUME Idle
  PROVE  /\ pc' = "none" /\ reply' \in [ok: BOOLEAN, position: Positions] /\ selectors' \in SUBSET Slices
         /\ cursor' \in Positions /\ told' \in Positions /\ mark' \in Positions
         /\ taken' \in Seq(Frame) /\ ending' \in BOOLEAN /\ items' \in Seq(Mutation)
<1>1. 0 \in Positions
  BY StreamAssumption DEF Positions
<1>2. <<>> \in Seq(Frame) /\ <<>> \in Seq(Mutation)
  OBVIOUS
<1>3. QED
  BY <1>1, <1>2 DEF Idle

\* The end of the request keeps the types.
LEMMA DropConnType ==
  ASSUME TypeOK, conn # NoConn, DropConn, UNCHANGED client, drops' \in Nat
  PROVE  TypeOK'
<1>1. conn' = NoConn /\ pc' = "none" /\ UNCHANGED <<core, results, position, wire>>
  BY DEF DropConn, Idle
<1>2. requests' \in Seq(Request)
  <2>1. [kind |-> "unregister", conn |-> conn.id] \in Request
    BY EntryType DEF Request
  <2>2. QED
    BY <2>1, AppendProperties DEF TypeOK, DropConn
<1>3. Idle
  BY DEF DropConn
<1>4. QED
  BY <1>1, <1>2, <1>3, IdleType DEF TypeOK, core

\* A restart keeps the types.
LEMMA RestartType == TypeOK /\ Restart => TypeOK'
<1> SUFFICES ASSUME TypeOK, Restart PROVE TypeOK'
  OBVIOUS
<1>1. /\ requests' = <<>> /\ results' = <<>> /\ members' = {} /\ position' = Len(log) /\ conn' = NoConn
      /\ drops' = drops + 1 /\ Idle
      /\ UNCHANGED <<log, grant, failed, generation, grantAt, client, wire>>
  BY DEF Restart
<1>2. requests' \in Seq(Request) /\ results' \in Seq(Result) /\ position' \in Positions
  BY <1>1, LenProperties, StreamAssumption DEF TypeOK, Positions
<1>3. QED
  BY <1>1, <1>2, IdleType DEF TypeOK

-----------------------------------------------------------------------------
(* The client, and the steps of the connection's task.                     *)

Client == [cursor: -1..MaxPosition, view: {NoView} \cup SUBSET Slices,
           covered: SUBSET (Slices \X (1..MaxPosition))]

\* The fields of the client.
LEMMA ClientType ==
  ASSUME TypeOK
  PROVE  /\ client \in Client /\ client.cursor \in -1..MaxPosition
         /\ client.view \in {NoView} \cup SUBSET Slices
         /\ client.covered \in SUBSET (Slices \X (1..MaxPosition))
BY DEF TypeOK, Client

\* The larger of two numbers.
LEMMA Largest ==
  ASSUME NEW a \in Int, NEW b \in Int
  PROVE  /\ Larger(a, b) \in {a, b} /\ Larger(a, b) \in Int /\ a <= Larger(a, b) /\ b <= Larger(a, b)
         /\ a <= b => Larger(a, b) = b
         /\ b <= a => Larger(a, b) = a
BY DEF Larger

\* The client after an edits frame.
LEMMA AfterEdits ==
  ASSUME TypeOK, NEW p \in 1..MaxPosition, NEW edits \in SUBSET Slices, GetsEdits(p, edits)
  PROVE  /\ client' \in Client
         /\ client'.cursor = Larger(client.cursor, p) /\ client'.view = client.view
         /\ client'.covered = client.covered \cup {<<s, p>> : s \in edits}
<1>1. Larger(client.cursor, p) \in -1..MaxPosition
  BY ClientType, StreamAssumption DEF Larger
<1>2. {<<s, p>> : s \in edits} \in SUBSET (Slices \X (1..MaxPosition))
  OBVIOUS
<1>3. QED
  BY <1>1, <1>2, ClientType DEF GetsEdits, Client

\* The client after a vouch.
LEMMA AfterVouch ==
  ASSUME TypeOK, NEW n \in Positions, Vouched(n)
  PROVE  /\ client' \in Client
         /\ client'.cursor = Larger(client.cursor, n) /\ client'.view = client.view
         /\ client'.covered = client.covered
<1>1. Larger(client.cursor, n) \in -1..MaxPosition
  BY ClientType, StreamAssumption DEF Larger, Positions
<1>2. QED
  BY <1>1, ClientType DEF Vouched, Client

\* A backfill through n has what the view newly grants of the log.
Backfills(view, n) ==
  /\ client' \in Client
  /\ client'.cursor = (IF client.cursor = -1 THEN n ELSE client.cursor)
  /\ client'.view = view
  /\ \A s \in view, p \in 1..n : s \in log[p] => <<s, p>> \in client'.covered
                                   \/ (client.view # NoView /\ s \in client.view)
  /\ \A e \in client.covered : client.view # NoView /\ e[1] \in client.view \cap view
       => e \in client'.covered

\* The client after a view frame.
LEMMA AfterView ==
  ASSUME TypeOK, NEW view \in SUBSET Slices, NEW n \in Positions, SeesView(view, n)
  PROVE  Backfills(view, n)
<1> DEFINE kept == IF client.view = NoView THEN {} ELSE client.view \cap view
           old == {e \in client.covered : e[1] \in kept}
           new == {e \in (view \ kept) \X (1..n) : e[1] \in log[e[2]]}
           at == IF client.cursor = -1 THEN n ELSE client.cursor
<1>1. client' = [cursor |-> at, view |-> view, covered |-> old \cup new]
  BY DEF SeesView
<1>2. at \in -1..MaxPosition /\ n \in 0..MaxPosition /\ MaxPosition \in Nat
  BY ClientType, StreamAssumption DEF Positions
<1>3. old \cup new \in SUBSET (Slices \X (1..MaxPosition))
  <2>1. old \subseteq Slices \X (1..MaxPosition)
    BY ClientType
  <2>2. 1..n \subseteq 1..MaxPosition
    BY <1>2
  <2>3. new \subseteq Slices \X (1..MaxPosition)
    BY <2>2
  <2>4. QED
    BY <2>1, <2>3
<1>4. \A s \in view \ kept, p \in 1..n : s \in log[p] => <<s, p>> \in new
  OBVIOUS
<1>5. \A e \in client.covered : client.view # NoView /\ e[1] \in client.view \cap view => e \in old
  OBVIOUS
<1>6. \A s \in kept : client.view # NoView /\ s \in client.view
  OBVIOUS
<1> HIDE DEF kept, old, new, at
<1>7. client' \in Client
  BY <1>1, <1>2, <1>3 DEF Client
<1>8. QED
  BY <1>1, <1>4, <1>5, <1>6, <1>7 DEF at, Backfills

\* A step of the connection's task keeps the types.
LEMMA TaskType ==
  ASSUME TypeOK, conn # NoConn, conn' \in Conn, pc' \in {"replied"} \cup Started,
         UNCHANGED <<core, server, reply, drops>>, selectors' \in SUBSET Slices,
         cursor' \in Positions, told' \in Positions, mark' \in Positions,
         taken' \in Seq(Frame), ending' \in BOOLEAN, items' \in Seq(Mutation),
         client' \in Client, wire' \in Seq(1..MaxPosition)
  PROVE  TypeOK'
<1>1. conn' \in {NoConn} \cup Conn /\ (conn' = NoConn <=> pc' = "none")
  BY NoConnAssumption DEF Started, Streaming
<1>2. pc' \in {"none", "wait", "replied", "cold", "coldForward", "coldReplay",
               "switchForward", "hotReplay", "live", "wakeForward", "beat", "beatForward"}
  BY DEF Started, Streaming
<1>3. QED
  BY <1>1, <1>2 DEF TypeOK, core, server, Client

\* The types of what a running task has.
LEMMA TaskTypes ==
  ASSUME TypeOK, pc # "none"
  PROVE  /\ conn # NoConn /\ conn \in Conn /\ selectors \in SUBSET Slices
         /\ cursor \in Positions /\ told \in Positions /\ mark \in Positions /\ position \in Positions
         /\ cursor \in Nat /\ told \in Nat /\ mark \in Nat /\ position \in Nat
         /\ reply.ok \in BOOLEAN /\ reply.position \in Positions
         /\ taken \in Seq(Frame) /\ ending \in BOOLEAN /\ items \in Seq(Mutation)
         /\ client \in Client /\ wire \in Seq(1..MaxPosition)
BY StreamAssumption DEF TypeOK, Client, Positions

\* The stream's start keeps the types.
LEMMA StartType == TypeOK /\ Start /\ conn.view # NoView => TypeOK'
<1> SUFFICES ASSUME TypeOK, Start, conn.view # NoView PROVE TypeOK'
  OBVIOUS
<1> DEFINE from == IF client.cursor >= 0 THEN client.cursor ELSE reply.position
<1>1. /\ pc # "none" /\ selectors' = conn.view /\ cursor' = from /\ told' = from /\ pc' = "cold"
      /\ IF client.view = conn.view THEN UNCHANGED client ELSE SeesView(conn.view, from)
      /\ UNCHANGED <<core, server, conn, reply, taken, ending, items, mark, wire, drops>>
  BY DEF Start
<1>2. from \in Positions
  BY <1>1, ClientType, TaskTypes DEF Positions
<1> HIDE DEF from
<1>3. conn.view \in SUBSET Slices
  BY <1>1, TaskTypes, EntryType
<1>4. client' \in Client
  BY <1>1, <1>2, <1>3, TaskTypes, AfterView DEF Backfills
<1>5. QED
  BY <1>1, <1>2, <1>3, <1>4, TaskTypes, TaskType DEF Started, Streaming

\* The backlog is taken whole.
LEMMA TakeType == TypeOK /\ (TakeCold \/ Wake \/ TakeBeat \/ Switch) /\ conn.view # NoView => TypeOK'
<1> SUFFICES ASSUME TypeOK, TakeCold \/ Wake \/ TakeBeat \/ Switch, conn.view # NoView
             PROVE  TypeOK'
  OBVIOUS
<1>1. /\ pc # "none" /\ taken' = conn.backlog /\ ending' = conn.overflowed /\ pc' \in Started
      /\ UNCHANGED <<core, server, reply, cursor, told, items, client, wire, drops>>
      /\ mark' \in {mark, position} /\ selectors' \in {selectors, conn.view}
  BY DEF TakeCold, Wake, TakeBeat, Switch, Take, Started, Streaming
<1>2. \/ conn' = [conn EXCEPT !.backlog = <<>>]
      \/ conn' = [conn EXCEPT !.backlog = <<>>, !.notified = FALSE]
      \/ conn' = [conn EXCEPT !.streaming = TRUE, !.backlog = <<>>]
  BY DEF TakeCold, Wake, TakeBeat, Switch
<1>3. conn' \in Conn
  <2>1. <<>> \in Seq(Frame) /\ conn \in Conn
    BY <1>1, TaskTypes
  <2>2. QED
    BY <1>2, <2>1 DEF Conn
<1>4. conn.backlog \in Seq(Frame) /\ conn.overflowed \in BOOLEAN /\ conn.view \in SUBSET Slices
  BY <1>1, TaskTypes, EntryType
<1>5. QED
  BY <1>1, <1>3, <1>4, TaskTypes, TaskType

\* The first frame taken.
LEMMA FirstFrame ==
  ASSUME TypeOK, taken # <<>>
  PROVE  /\ Head(taken) \in Frame /\ Tail(taken) \in Seq(Frame)
         /\ Head(taken).kind = "view" => Head(taken).view \in SUBSET Slices /\ Head(taken).pos \in Positions
         /\ Head(taken).kind = "commit" => Head(taken).mutations \in Seq(Mutation)
<1>1. Head(taken) \in Frame /\ Tail(taken) \in Seq(Frame)
  BY HeadTailProperties DEF TypeOK
<1>2. QED
  BY <1>1, FrameFields

\* A view frame forwarded keeps the types.
LEMMA ForwardViewType == TypeOK /\ ForwardView => TypeOK'
<1> SUFFICES ASSUME TypeOK, ForwardView PROVE TypeOK'
  OBVIOUS
<1> DEFINE v == Head(taken)
           n == Larger(v.pos, cursor)
<1>1. /\ Forwarding /\ taken # <<>> /\ v.kind = "view" /\ SeesView(v.view, n)
      /\ selectors' = v.view /\ taken' = Tail(taken)
      /\ UNCHANGED <<core, server, conn, pc, reply, cursor, told, ending, items, mark, wire, drops>>
  BY DEF ForwardView
<1>2. v.view \in SUBSET Slices /\ v.pos \in Positions /\ Tail(taken) \in Seq(Frame)
  BY <1>1, FirstFrame
<1>3. pc # "none" /\ pc \in Started
  BY <1>1 DEF Forwarding, Started, Streaming
<1>4. n \in Positions
  BY <1>2, <1>3, TaskTypes DEF Larger
<1> HIDE DEF v, n
<1>5. client' \in Client
  BY <1>1, <1>2, <1>4, AfterView DEF Backfills
<1>6. QED
  BY <1>1, <1>2, <1>3, <1>5, TaskTypes, TaskType

\* One mutation of the first frame, and what is left of the frame.
LEMMA FirstMutation ==
  ASSUME TypeOK, taken # <<>>, Head(taken).kind = "commit", Head(taken).mutations # <<>>
  PROVE  LET ms == Head(taken).mutations IN
         /\ Head(ms) \in Mutation /\ Head(ms).position \in 1..MaxPosition /\ Head(ms).edits \in SUBSET Slices
         /\ Tail(ms) \in Seq(Mutation)
         /\ <<[kind |-> "commit", mutations |-> Tail(ms)]>> \o Tail(taken) \in Seq(Frame)
<1> DEFINE ms == Head(taken).mutations
           f == [kind |-> "commit", mutations |-> Tail(ms)]
<1>1. ms \in Seq(Mutation) /\ Tail(taken) \in Seq(Frame)
  BY FirstFrame
<1>2. Head(ms) \in Mutation /\ Tail(ms) \in Seq(Mutation)
  BY <1>1, HeadTailProperties
<1>3. f \in Frame
  BY <1>2, FrameType
<1> HIDE DEF f
<1>4. <<f>> \o Tail(taken) \in Seq(Frame)
  <2>1. \A S, x, t : x \in S /\ t \in Seq(S) => <<x>> \o t \in Seq(S)
    OBVIOUS
  <2>2. QED
    BY <1>1, <1>3, <2>1
<1>5. Head(ms).position \in 1..MaxPosition /\ Head(ms).edits \in SUBSET Slices
  BY <1>2 DEF Mutation
<1>6. QED
  BY <1>2, <1>4, <1>5 DEF f

\* A mutation forwarded keeps the types.
LEMMA ForwardCommitType ==
  ASSUME TypeOK, ForwardCommit, Head(taken).mutations # <<>>
  PROVE  TypeOK'
<1> DEFINE ms == Head(taken).mutations
           m == Head(ms)
           edits == m.edits \cap selectors
<1>1. /\ Forwarding /\ taken # <<>> /\ Head(taken).kind = "commit"
      /\ IF m.position > cursor /\ edits # {}
         THEN /\ GetsEdits(m.position, edits)
              /\ wire' = Append(wire, m.position)
              /\ cursor' = m.position
         ELSE UNCHANGED <<client, wire, cursor>>
      /\ taken' = IF Tail(ms) = <<>> THEN Tail(taken)
                  ELSE <<[kind |-> "commit", mutations |-> Tail(ms)]>> \o Tail(taken)
      /\ UNCHANGED <<core, server, conn, pc, reply, selectors, told, ending, items, mark, drops>>
  BY DEF ForwardCommit
<1>2. /\ m.position \in 1..MaxPosition /\ m.edits \in SUBSET Slices
      /\ taken' \in Seq(Frame)
  BY <1>1, FirstFrame, FirstMutation
<1>3. pc # "none" /\ pc \in Started
  BY <1>1 DEF Forwarding, Started, Streaming
<1>4. edits \in SUBSET Slices
  BY <1>2
<1> HIDE DEF m, edits
<1>5. client' \in Client /\ wire' \in Seq(1..MaxPosition) /\ cursor' \in Positions
  <2>1. CASE m.position > cursor /\ edits # {}
    <3>1. client' \in Client
      BY <1>1, <1>2, <1>4, <2>1, AfterEdits
    <3>2. wire' \in Seq(1..MaxPosition)
      <4>1. wire \in Seq(1..MaxPosition) /\ wire' = Append(wire, m.position)
        BY <1>1, <1>3, <2>1, TaskTypes
      <4>2. \A S, s, x : s \in Seq(S) /\ x \in S => Append(s, x) \in Seq(S)
        OBVIOUS
      <4>3. QED
        BY <1>2, <4>1, <4>2
    <3>3. cursor' \in Positions
      BY <1>1, <1>2, <2>1, StreamAssumption DEF Positions
    <3>4. QED
      BY <3>1, <3>2, <3>3
  <2>2. CASE ~(m.position > cursor /\ edits # {})
    BY <1>1, <1>3, <2>2, TaskTypes
  <2>3. QED
    BY <2>1, <2>2
<1>6. QED
  BY <1>1, <1>2, <1>3, <1>5, TaskTypes, TaskType

\* A read of the log keeps the types.
LEMMA ReadType == TypeOK /\ (ReadCold \/ ReadHot) => TypeOK'
<1> SUFFICES ASSUME TypeOK, ReadCold \/ ReadHot PROVE TypeOK'
  OBVIOUS
<1>1. /\ pc # "none" /\ pc' \in Started
      /\ UNCHANGED <<core, server, conn, reply, selectors, cursor, told, taken, ending, client,
                     wire, drops>>
  BY DEF ReadCold, ReadHot, Read, Started, Streaming
<1>2. \/ ReadHot /\ items' = ReadLog(cursor + 1, mark) /\ mark' = mark
      \/ /\ ReadCold /\ items' = ReadLog(cursor + 1, cursor + ColdBatch)
         /\ mark' = IF items' = <<>> THEN cursor ELSE items'[Len(items')].position
  BY DEF ReadCold, ReadHot, Read
<1>3. items' \in Seq(Mutation)
  <2>1. \A from \in Nat \ {0}, to \in Nat : ReadLog(from, to) \in Seq(Mutation)
    BY ReadLogReads DEF ReadingOf
  <2>2. cursor + 1 \in Nat \ {0} /\ mark \in Nat /\ cursor + ColdBatch \in Nat
    BY <1>1, TaskTypes, StreamAssumption
  <2>3. QED
    BY <1>2, <2>1, <2>2
<1>4. mark' \in Positions
  <2>1. CASE mark' = mark \/ mark' = cursor
    BY <1>1, <2>1, TaskTypes
  <2>2. CASE items' # <<>> /\ mark' = items'[Len(items')].position
    <3>1. Len(items') \in 1..Len(items')
      BY <1>3, <2>2
    <3>2. items'[Len(items')] \in Mutation
      BY <1>3, <3>1
    <3>3. QED
      BY <2>2, <3>2, StreamAssumption DEF Mutation, Positions
  <2>3. QED
    BY <1>2, <2>1, <2>2
<1>5. QED
  BY <1>1, <1>3, <1>4, TaskTypes, TaskType

\* The first of what was read.
LEMMA FirstItem ==
  ASSUME TypeOK, items # <<>>
  PROVE  /\ Head(items) \in Mutation /\ Head(items).position \in 1..MaxPosition
         /\ Head(items).edits \in SUBSET Slices /\ Tail(items) \in Seq(Mutation)
<1>1. Head(items) \in Mutation /\ Tail(items) \in Seq(Mutation)
  BY HeadTailProperties DEF TypeOK
<1>2. QED
  BY <1>1 DEF Mutation

\* A mutation replayed keeps the types.
LEMMA ReplayType == TypeOK /\ Replay => TypeOK'
<1> SUFFICES ASSUME TypeOK, Replay PROVE TypeOK'
  OBVIOUS
<1> DEFINE m == Head(items)
           edits == m.edits \cap selectors
<1>1. /\ pc \in {"coldReplay", "hotReplay"} /\ items # <<>>
      /\ IF edits # {} THEN /\ GetsEdits(m.position, edits)
                            /\ wire' = Append(wire, m.position)
                            /\ told' = m.position
                       ELSE UNCHANGED <<client, wire, told>>
      /\ items' = Tail(items)
      /\ UNCHANGED <<core, server, conn, pc, reply, selectors, cursor, taken, ending, mark, drops>>
  BY DEF Replay
<1>2. /\ m.position \in 1..MaxPosition /\ m.edits \in SUBSET Slices /\ items' \in Seq(Mutation)
  BY <1>1, FirstItem
<1>3. pc # "none" /\ pc \in Started
  BY <1>1 DEF Started, Streaming
<1>4. edits \in SUBSET Slices
  BY <1>2
<1> HIDE DEF m, edits
<1>5. client' \in Client /\ wire' \in Seq(1..MaxPosition) /\ told' \in Positions
  <2>1. CASE edits # {}
    <3>1. client' \in Client
      BY <1>1, <1>2, <1>4, <2>1, AfterEdits
    <3>2. wire' \in Seq(1..MaxPosition)
      <4>1. wire \in Seq(1..MaxPosition) /\ wire' = Append(wire, m.position)
        BY <1>1, <1>3, <2>1, TaskTypes
      <4>2. \A S, s, x : s \in Seq(S) /\ x \in S => Append(s, x) \in Seq(S)
        OBVIOUS
      <4>3. QED
        BY <1>2, <4>1, <4>2
    <3>3. told' \in Positions
      BY <1>1, <1>2, <2>1, StreamAssumption DEF Positions
    <3>4. QED
      BY <3>1, <3>2, <3>3
  <2>2. CASE edits = {}
    BY <1>1, <1>3, <2>2, TaskTypes
  <2>3. QED
    BY <2>1, <2>2
<1>6. QED
  BY <1>1, <1>2, <1>3, <1>5, TaskTypes, TaskType

\* The cursor moves to what it comes to with no frame.
LEMMA MoveType ==
  TypeOK /\ (ColdWindow \/ Live \/ Forwarded \/ Heartbeat \/ Vouch) => TypeOK'
<1> SUFFICES ASSUME TypeOK, ColdWindow \/ Live \/ Forwarded \/ Heartbeat \/ Vouch
             PROVE  TypeOK'
  OBVIOUS
<1>1. /\ pc # "none" /\ pc' \in Started
      /\ UNCHANGED <<core, server, conn, reply, selectors, taken, ending, items, wire, drops>>
      /\ told' \in {told, mark} /\ mark' \in {mark, 0, position}
      /\ cursor' \in {cursor, mark, Larger(cursor, mark)}
      /\ \/ UNCHANGED client
         \/ Vouched(mark)
         \/ Vouched(Larger(cursor, mark))
  BY DEF ColdWindow, Live, Forwarded, Heartbeat, Vouch, Started, Streaming
<1>2. Larger(cursor, mark) \in Positions /\ 0 \in Positions
  BY <1>1, TaskTypes, StreamAssumption DEF Larger, Positions
<1>3. client' \in Client
  BY <1>1, <1>2, TaskTypes, AfterVouch
<1>4. QED
  BY <1>1, <1>2, <1>3, TaskTypes, TaskType

\* A step of nobody keeps the types.
LEMMA StutterType == TypeOK /\ UNCHANGED vars => TypeOK'
<1> SUFFICES ASSUME TypeOK, UNCHANGED vars PROVE TypeOK'
  OBVIOUS
<1>1. UNCHANGED <<core, server, conn, task, client, wire, drops>>
  BY DEF vars
<1>2. QED
  BY <1>1 DEF TypeOK, core, server, task

-----------------------------------------------------------------------------
(* The results: what leaves them alone.                                    *)

\* A step of the task keeps what the dispatcher and the core go by.
LEMMA TaskKeepsCore ==
  ASSUME CoreInv, conn # NoConn, conn' # NoConn, pc # "wait", pc' # "wait",
         conn'.id = conn.id, conn'.generation = conn.generation, conn'.view = conn.view,
         conn'.active = conn.active, conn'.revoked = conn.revoked, UNCHANGED <<core, server>>
  PROVE  CoreInv'
<1>1. UNCHANGED <<log, grant, failed, generation, members, grantAt, requests, results, position>>
  BY DEF core, server
<1>2. /\ \A r : Mine(r)' <=> Mine(r)
      /\ \A i : (MyView(i)' <=> MyView(i)) /\ (IsCommit(i)' <=> IsCommit(i)) /\ (IsAccount(i)' <=> IsAccount(i))
  BY <1>1 DEF Mine, MyView, IsCommit, IsAccount
<1>3. \A i, v : ViewBy(i, v)' <=> ViewBy(i, v)
  BY <1>1, <1>2 DEF ViewBy
<1>4. \A i, p : PublishedBy(i, p)' <=> PublishedBy(i, p)
  BY <1>1, <1>2 DEF PublishedBy
<1>5. ResultsHold'
  BY <1>1, <1>2, <1>4 DEF CoreInv, ResultsHold, ResultHolds, Complete
<1>6. RegistrationHolds'
  BY <1>1, <1>2 DEF CoreInv, RegistrationHolds
<1>7. ViewsFollow' /\ GenerationsFollow'
  BY <1>1, <1>2, <1>3 DEF CoreInv, ViewsFollow, GenerationsFollow
<1>8. PublishedViewIsCurrent' /\ NoStaleTokenStreams'
  BY <1>1 DEF CoreInv, PublishedViewIsCurrent, NoStaleTokenStreams
<1>9. QED
  BY <1>5, <1>6, <1>7, <1>8 DEF CoreInv

\* So does one that has ended.
LEMMA GoneKeepsCore ==
  ASSUME CoreInv, conn' = NoConn, UNCHANGED <<core, results, position>>
  PROVE  CoreInv'
<1>1. UNCHANGED <<log, grant, failed, generation, members, grantAt, results, position>>
  BY DEF core
<1>2. \A i : ~MyView(i)' /\ (IsCommit(i)' <=> IsCommit(i)) /\ (IsAccount(i)' <=> IsAccount(i))
  BY <1>1 DEF Mine, MyView, IsCommit, IsAccount
<1>3. \A i, v : ~ViewBy(i, v)'
  BY <1>1, <1>2 DEF ViewBy
<1>4. \A i, p : PublishedBy(i, p)' <=> PublishedBy(i, p)
  BY <1>1, <1>2 DEF PublishedBy
<1>5. ResultsHold'
  BY <1>1, <1>2, <1>4 DEF CoreInv, ResultsHold, ResultHolds, Complete
<1>6. ViewsFollow' /\ GenerationsFollow'
  BY <1>1, <1>2, <1>3 DEF CoreInv, ViewsFollow, GenerationsFollow
<1>7. RegistrationHolds' /\ PublishedViewIsCurrent' /\ NoStaleTokenStreams'
  BY DEF RegistrationHolds, PublishedViewIsCurrent, NoStaleTokenStreams
<1>8. QED
  BY <1>5, <1>6, <1>7 DEF CoreInv

\* A log nothing waits behind.
LEMMA QuietCore ==
  ASSUME IsFiniteSet(members), log # <<>> => grant = grantAt[Len(log)], Len(log) \in Nat,
         results = <<>>, position = Len(log), conn = NoConn
  PROVE  CoreInv
<1>1. Len(results) = 0 /\ DOMAIN results = {}
  BY EmptySeq
<1>2. \A i : ~MyView(i) /\ ~IsCommit(i) /\ ~IsAccount(i)
  BY <1>1 DEF MyView, IsCommit, IsAccount
<1>3. PublishedBy(Len(results) + 1, Len(log)) /\ \A i, v : ~ViewBy(i, v)
  BY <1>2 DEF PublishedBy, ViewBy
<1>4. ResultsHold
  BY <1>1, <1>2, <1>3 DEF ResultsHold
<1>5. ViewsFollow /\ GenerationsFollow
  BY <1>2, <1>3 DEF ViewsFollow, GenerationsFollow
<1>6. RegistrationHolds /\ PublishedViewIsCurrent /\ NoStaleTokenStreams
  BY DEF RegistrationHolds, PublishedViewIsCurrent, NoStaleTokenStreams
<1>7. QED
  BY <1>4, <1>5, <1>6 DEF CoreInv

\* No result waits at first.
LEMMA InitCore == Init => CoreInv
<1> SUFFICES ASSUME Init PROVE CoreInv
  OBVIOUS
<1>1. IsFiniteSet(members) /\ log = <<>> /\ Len(log) = 0 /\ results = <<>> /\ position = 0 /\ conn = NoConn
  BY FS_EmptySet, EmptySeq DEF Init
<1>2. QED
  BY <1>1, QuietCore

\* None waits after a restart.
LEMMA RestartCore == TypeOK /\ CoreInv /\ Restart => CoreInv'
<1> SUFFICES ASSUME TypeOK, CoreInv, Restart PROVE CoreInv'
  OBVIOUS
<1>1. /\ members' = {} /\ results' = <<>> /\ position' = Len(log) /\ conn' = NoConn
      /\ UNCHANGED <<log, grant, failed, generation, grantAt>>
  BY DEF Restart
<1>2. Len(results') = 0 /\ DOMAIN results' = {} /\ Len(log') \in Nat /\ IsFiniteSet(members')
  BY <1>1, EmptySeq, FS_EmptySet, LenProperties DEF TypeOK
<1>3. \A i : ~MyView(i)' /\ ~IsCommit(i)' /\ ~IsAccount(i)'
  BY <1>2 DEF MyView, IsCommit, IsAccount
<1>4. PublishedBy(Len(results) + 1, Len(log))' /\ \A i, v : ~ViewBy(i, v)'
  BY <1>1, <1>3 DEF PublishedBy, ViewBy
<1>5. ResultsHold'
  BY <1>1, <1>2, <1>3, <1>4 DEF CoreInv, ResultsHold
<1>6. ViewsFollow' /\ GenerationsFollow'
  BY <1>2, <1>3, <1>4 DEF ViewsFollow, GenerationsFollow
<1>7. RegistrationHolds' /\ PublishedViewIsCurrent' /\ NoStaleTokenStreams'
  BY <1>1 DEF RegistrationHolds, PublishedViewIsCurrent, NoStaleTokenStreams
<1>8. QED
  BY <1>5, <1>6, <1>7 DEF CoreInv

\* A connection's id is one that nothing in the server refers to.
LEMMA ConnectCore ==
  ASSUME TypeOK, CoreInv, NEW c \in Conns, NEW g \in Nat, Connect(c, g)
  PROVE  CoreInv'
<1> DEFINE r == [kind |-> "register", conn |-> c, generation |-> g]
           n == Len(requests)
<1>1. /\ c \in Fresh /\ conn' = NewConn(c, g) /\ requests' = Append(requests, r) /\ pc' = "wait"
      /\ UNCHANGED <<log, grant, failed, generation, members, grantAt, results, position>>
  BY DEF Connect, core
<1>2. /\ c \notin members /\ \A i \in DOMAIN requests : requests[i].conn # c
      /\ \A i \in DOMAIN results : results[i].conn # c
  BY <1>1 DEF Fresh
<1>3. /\ conn'.id = c /\ conn'.generation = g /\ ~conn'.active /\ ~conn'.revoked
  BY <1>1 DEF NewConn
<1>4. \A i : ~MyView(i)' /\ (IsCommit(i)' <=> IsCommit(i)) /\ (IsAccount(i)' <=> IsAccount(i))
  BY <1>1, <1>2, <1>3 DEF MyView, Mine, IsCommit, IsAccount
<1>5. \A i, v : ~ViewBy(i, v)'
  BY <1>1, <1>3, <1>4 DEF ViewBy
<1>6. \A i, p : PublishedBy(i, p)' <=> PublishedBy(i, p)
  BY <1>1, <1>4 DEF PublishedBy
<1>7. ResultsHold'
  BY <1>1, <1>4, <1>6 DEF CoreInv, ResultsHold, ResultHolds, Complete
<1>8. ViewsFollow' /\ GenerationsFollow'
  BY <1>1, <1>4, <1>5 DEF CoreInv, ViewsFollow, GenerationsFollow
<1>9. \A i \in DOMAIN requests' : requests'[i].conn = c => requests'[i] = r
  <2>1. n \in Nat /\ DOMAIN requests = 1..n /\ DOMAIN requests' = 1..n + 1 /\ requests'[n + 1] = r
        /\ \A i \in 1..n : requests'[i] = requests[i]
    BY <1>1, AppendProperties, LenProperties DEF TypeOK
  <2> HIDE DEF r, n
  <2>2. QED
    BY <1>2, <2>1
<1>10. RegistrationHolds'
  BY <1>1, <1>2, <1>3, <1>4, <1>9 DEF RegistrationHolds
<1>11. PublishedViewIsCurrent' /\ NoStaleTokenStreams'
  BY <1>3 DEF PublishedViewIsCurrent, NoStaleTokenStreams
<1>12. QED
  BY <1>7, <1>8, <1>10, <1>11 DEF CoreInv

-----------------------------------------------------------------------------
(* The results: the dispatcher takes one.                                  *)

\* The results move up by one when the first is dispatched.
LEMMA Shifts ==
  ASSUME TypeOK, results # <<>>, results' = Tail(results)
  PROVE  LET n == Len(results) IN
         /\ n \in Nat \ {0} /\ DOMAIN results = 1..n /\ Len(results') = n - 1
         /\ DOMAIN results' = 1..n - 1
         /\ \A i \in 1..n - 1 : results'[i] = results[i + 1]
         /\ \A i \in 1..n - 1 : /\ (IsCommit(i)' <=> IsCommit(i + 1))
                                /\ (IsAccount(i)' <=> IsAccount(i + 1))
<1> DEFINE n == Len(results)
<1>1. /\ n \in Nat \ {0} /\ DOMAIN results = 1..n /\ Len(results') = n - 1
      /\ DOMAIN results' = 1..n - 1 /\ \A i \in 1..n - 1 : results'[i] = results[i + 1]
  BY NextResult
<1> HIDE DEF n
<1>2. ASSUME NEW i \in 1..n - 1
      PROVE  (IsCommit(i)' <=> IsCommit(i + 1)) /\ (IsAccount(i)' <=> IsAccount(i + 1))
  <2>1. i \in DOMAIN results' /\ i + 1 \in DOMAIN results /\ results'[i] = results[i + 1]
    BY <1>1
  <2>2. QED
    BY <2>1 DEF IsCommit, IsAccount
<1>3. QED
  BY <1>1, <1>2 DEF n

\* What holds of the results holds of those left.
LEMMA DispatchedResults ==
  ASSUME TypeOK, ResultsHold, results # <<>>, results' = Tail(results), UNCHANGED core,
         position' = IF IsCommit(1) THEN results[1].position ELSE position
  PROVE  ResultsHold'
<1>1. PICK n \in Nat, h \in Nat : n = Len(results) /\ h = Len(log)
  BY LenProperties DEF TypeOK
<1>2. /\ n \in Nat \ {0} /\ DOMAIN results = 1..n /\ Len(results') = n - 1
      /\ DOMAIN results' = 1..n - 1 /\ \A i \in 1..n - 1 : results'[i] = results[i + 1]
  BY <1>1, Shifts
<1>3. \A i \in 1..n - 1 : (IsCommit(i)' <=> IsCommit(i + 1)) /\ (IsAccount(i)' <=> IsAccount(i + 1))
  BY <1>1, Shifts
<1>4. UNCHANGED <<log, grant, members, grantAt>>
  BY DEF core
<1>5. ASSUME NEW i \in 1..n, NEW p, PublishedBy(i + 1, p)
      PROVE  PublishedBy(i, p)'
  <2>1. CASE \E j \in 1..i : IsCommit(j) /\ results[j].position = p
                               /\ \A k \in (j + 1)..i : ~IsCommit(k)
    <3>1. PICK j \in 1..i : IsCommit(j) /\ results[j].position = p
                               /\ \A k \in (j + 1)..i : ~IsCommit(k)
      BY <2>1
    <3>2. CASE j = 1
      <4>1. \A k \in 1..(i - 1) : ~IsCommit(k)'
        BY <1>2, <1>3, <3>1, <3>2
      <4>2. position' = p
        BY <3>1, <3>2
      <4>3. QED
        BY <4>1, <4>2 DEF PublishedBy
    <3>3. CASE j # 1
      <4>1. j - 1 \in 1..(i - 1) /\ j - 1 \in 1..n - 1 /\ j - 1 + 1 = j
        BY <1>2, <3>3
      <4>2. IsCommit(j - 1)' /\ results'[j - 1].position = p
        BY <1>2, <1>3, <3>1, <4>1
      <4>3. \A k \in (j - 1 + 1)..(i - 1) : ~IsCommit(k)'
        BY <1>2, <1>3, <3>1, <4>1
      <4>4. QED
        BY <4>1, <4>2, <4>3 DEF PublishedBy
    <3>4. QED
      BY <3>2, <3>3
  <2>2. CASE position = p /\ \A k \in 1..i : ~IsCommit(k)
    <3>1. \A k \in 1..(i - 1) : ~IsCommit(k)'
      BY <1>2, <1>3, <2>2
    <3>2. position' = p
      BY <1>2, <2>2
    <3>3. QED
      BY <3>1, <3>2 DEF PublishedBy
  <2>3. i + 1 - 1 = i
    BY <1>2
  <2>4. QED
    BY <1>2, <1>5, <2>1, <2>2, <2>3 DEF PublishedBy
<1>6. PublishedBy(Len(results) + 1, Len(log))'
  <2>1. PublishedBy(n + 1, h) /\ n \in 1..n
    BY <1>1, <1>2 DEF ResultsHold
  <2>2. PublishedBy(n, h)'
    BY <1>5, <2>1
  <2>3. Len(results') + 1 = n /\ Len(log') = h
    BY <1>1, <1>2, <1>4
  <2>4. QED
    BY <2>2, <2>3 DEF PublishedBy
<1>7. position' <= Len(log)
  <2>1. IsCommit(1) => results[1].position <= Len(log)
    BY DEF ResultsHold, ResultHolds, IsCommit
  <2>2. QED
    BY <2>1 DEF ResultsHold
<1>8. ASSUME NEW i \in DOMAIN results'
      PROVE  ResultHolds(i)'
  <2>1. PICK r : r = results'[i]
    OBVIOUS
  <2>2. PICK first : first = r.position - Len(r.mutations)
    OBVIOUS
  <2>3. /\ i \in 1..n - 1 /\ i + 1 \in DOMAIN results /\ r = results[i + 1] /\ 1 \in DOMAIN results
        /\ i \in 1..n /\ 1 < i + 1
    BY <1>2, <2>1
  <2>4. /\ r.kind \in {"view", "commit"} => position <= r.position /\ r.position <= Len(log)
        /\ r.kind = "view" /\ r.ok /\ r.position > 0 => r.grant = grantAt[r.position]
        /\ r.kind = "commit" => Complete(r) /\ PublishedBy(i + 1, first)
    BY <2>2, <2>3 DEF ResultsHold, ResultHolds
  <2>5. r.kind \in {"view", "commit"} /\ IsCommit(1) => results[1].position <= r.position
    <3>1. r.kind \in {"view", "commit"} => ~IsAccount(i + 1)
      BY <2>3 DEF IsAccount
    <3>2. QED
      BY <2>3, <3>1 DEF ResultsHold
  <2>6. r.kind = "commit" => PublishedBy(i, first)'
    BY <1>5, <2>3, <2>4
  <2>7. r.kind \in {"view", "commit"} => position' <= r.position
    BY <2>4, <2>5
  <2>8. QED
    BY <1>4, <2>1, <2>2, <2>4, <2>6, <2>7 DEF ResultHolds, Complete, PublishedBy
<1>9. \A i, j \in DOMAIN results' :
        i < j /\ IsCommit(i)' /\ ~IsAccount(j)' => results'[i].position <= results'[j].position
  <2> TAKE i, j \in DOMAIN results'
  <2>1. /\ i + 1 \in DOMAIN results /\ j + 1 \in DOMAIN results /\ (i < j => i + 1 < j + 1)
        /\ i \in 1..n - 1 /\ j \in 1..n - 1
    BY <1>2
  <2>2. i + 1 < j + 1 /\ IsCommit(i + 1) /\ ~IsAccount(j + 1)
          => results[i + 1].position <= results[j + 1].position
    BY <2>1 DEF ResultsHold
  <2>3. QED
    BY <1>2, <1>3, <2>1, <2>2
<1>10. QED
  BY <1>4, <1>6, <1>7, <1>8, <1>9 DEF ResultsHold

\* What the first result does to the entry.
EntryFollows ==
  /\ conn # NoConn /\ conn' # NoConn /\ conn'.id = conn.id /\ conn'.generation = conn.generation
  /\ conn.revoked => conn'.revoked
  /\ IsAccount(1) /\ results[1].generation # conn.generation => conn'.revoked
  /\ conn'.active =>
       /\ ~conn'.revoked
       /\ MyView(1) => results[1].ok /\ conn'.view = results[1].grant \cap Wants
       /\ ~MyView(1) => conn'.view = conn.view
       /\ conn.active \/ (MyView(1) /\ results[1].asked)
  /\ pc' = IF MyView(1) /\ results[1].asked THEN "replied" ELSE pc

\* So does what holds of them and the entry, when the entry follows the result.
LEMMA DispatchedEntry ==
  ASSUME TypeOK, CoreInv, results # <<>>, results' = Tail(results), UNCHANGED <<core, requests>>,
         position' = (IF IsCommit(1) THEN results[1].position ELSE position),
         EntryFollows \/ (conn = NoConn /\ conn' = NoConn)
  PROVE  CoreInv'
<1>1. PICK n \in Nat : n = Len(results)
  BY LenProperties DEF TypeOK
<1>2. /\ n \in Nat \ {0} /\ DOMAIN results = 1..n /\ Len(results') = n - 1
      /\ DOMAIN results' = 1..n - 1 /\ \A i \in 1..n - 1 : results'[i] = results[i + 1]
  BY <1>1, Shifts
<1>3. \A i \in 1..n - 1 : (IsCommit(i)' <=> IsCommit(i + 1)) /\ (IsAccount(i)' <=> IsAccount(i + 1))
  BY <1>1, Shifts
<1>4. UNCHANGED <<log, grant, members, grantAt, requests, generation>>
  BY DEF core
<1>5. ResultsHold'
  BY <1>4, DispatchedResults DEF CoreInv, core
<1>6. CASE conn = NoConn /\ conn' = NoConn
  <2>1. \A i : ~MyView(i)'
    BY <1>6 DEF MyView, Mine
  <2>2. \A i, v : ~ViewBy(i, v)'
    BY <1>6, <2>1 DEF ViewBy
  <2>3. \A i \in DOMAIN results' : IsAccount(i)' /\ (\A k \in DOMAIN results' : k > i => ~IsAccount(k)')
          => results'[i].generation = generation'
    <3> TAKE i \in DOMAIN results'
    <3>1. i + 1 \in DOMAIN results /\ results'[i] = results[i + 1] /\ (IsAccount(i)' <=> IsAccount(i + 1))
      BY <1>2, <1>3
    <3>2. ASSUME \A k \in DOMAIN results' : k > i => ~IsAccount(k)'
          PROVE  \A k \in DOMAIN results : k > i + 1 => ~IsAccount(k)
      <4> TAKE k \in DOMAIN results
      <4>1. k > i + 1 => k - 1 \in DOMAIN results' /\ k - 1 > i /\ k - 1 + 1 = k
        BY <1>2
      <4>2. QED
        BY <1>2, <1>3, <3>2, <4>1
    <3>3. QED
      BY <1>4, <3>1, <3>2 DEF CoreInv, GenerationsFollow
  <2>4. ViewsFollow' /\ GenerationsFollow'
    BY <2>1, <2>2, <2>3 DEF ViewsFollow, GenerationsFollow
  <2>5. RegistrationHolds' /\ PublishedViewIsCurrent' /\ NoStaleTokenStreams'
    BY <1>6 DEF RegistrationHolds, PublishedViewIsCurrent, NoStaleTokenStreams
  <2>6. QED
    BY <1>5, <2>4, <2>5 DEF CoreInv
<1>7. CASE EntryFollows
  <2> USE <1>7
  <2>1. \A i \in 1..n - 1 : MyView(i)' <=> MyView(i + 1)
    <3> TAKE i \in 1..n - 1
    <3>1. i \in DOMAIN results' /\ i + 1 \in DOMAIN results /\ results'[i] = results[i + 1]
      BY <1>2
    <3>2. QED
      BY <3>1 DEF MyView, Mine, EntryFollows
  <2>2. \A i \in 1..n - 1 : ~IsAccount(i)' => ~IsAccount(i + 1)
    BY <1>3
  <2>3. ASSUME NEW i \in 1..n, NEW v, ViewBy(i, v)'
        PROVE  ViewBy(i + 1, v)
    <3>1. i + 1 - 1 = i /\ i \in Nat
      BY <1>2
    <3>2. CASE \E j \in 1..(i - 1) : /\ MyView(j)' /\ results'[j].ok /\ results'[j].grant \cap Wants = v
                                     /\ \A k \in (j + 1)..(i - 1) : ~MyView(k)'
      <4>1. PICK j \in 1..(i - 1) : /\ MyView(j)' /\ results'[j].ok /\ results'[j].grant \cap Wants = v
                                    /\ \A k \in (j + 1)..(i - 1) : ~MyView(k)'
        BY <3>2
      <4>2. j \in 1..n - 1 /\ j + 1 \in 1..i
        BY <1>2
      <4>3. MyView(j + 1) /\ results[j + 1].ok /\ results[j + 1].grant \cap Wants = v
        BY <1>2, <2>1, <4>1, <4>2
      <4>4. \A k \in (j + 1 + 1)..i : ~MyView(k)
        <5> TAKE k \in (j + 1 + 1)..i
        <5>1. k - 1 \in (j + 1)..(i - 1) /\ k - 1 \in 1..n - 1 /\ k - 1 + 1 = k
          BY <1>2
        <5>2. QED
          BY <2>1, <4>1, <5>1
      <4>5. QED
        BY <3>1, <4>2, <4>3, <4>4 DEF ViewBy
    <3>3. CASE conn'.active /\ conn'.view = v /\ \A k \in 1..(i - 1) : ~MyView(k)'
      <4>1. \A k \in 2..i : ~MyView(k)
        <5> TAKE k \in 2..i
        <5>1. k - 1 \in 1..(i - 1) /\ k - 1 \in 1..n - 1 /\ k - 1 + 1 = k
          BY <1>2
        <5>2. QED
          BY <2>1, <3>3, <5>1
      <4>2. CASE MyView(1)
        <5>1. results[1].ok /\ results[1].grant \cap Wants = v /\ 1 \in 1..i
          BY <1>2, <3>3, <4>2 DEF EntryFollows
        <5>2. QED
          BY <3>1, <4>1, <4>2, <5>1 DEF ViewBy
      <4>3. CASE ~MyView(1)
        <5>1. conn # NoConn /\ conn.active /\ conn.view = v
          BY <3>3, <4>3 DEF EntryFollows
        <5>2. \A k \in 1..i : ~MyView(k)
          BY <4>1, <4>3
        <5>3. \A k \in 1..(i + 1 - 1) : ~MyView(k)
          BY <3>1, <5>2
        <5>4. QED
          BY <5>1, <5>3 DEF ViewBy
      <4>4. QED
        BY <4>2, <4>3
    <3>4. QED
      BY <2>3, <3>2, <3>3 DEF ViewBy
  <2>4. ViewsFollow'
    <3>1. ASSUME NEW i \in DOMAIN results', NEW v \in SUBSET Slices, IsCommit(i)', ViewBy(i, v)'
          PROVE  v = grantAt'[results'[i].position] \cap Wants
      <4>1. i + 1 \in DOMAIN results /\ i \in 1..n /\ i \in 1..n - 1 /\ results'[i] = results[i + 1]
        BY <1>2
      <4>2. IsCommit(i + 1) /\ ViewBy(i + 1, v)
        BY <1>3, <2>3, <3>1, <4>1
      <4>3. QED
        BY <1>4, <4>1, <4>2 DEF CoreInv, ViewsFollow
    <3>2. ASSUME NEW v \in SUBSET Slices, ViewBy(Len(results) + 1, v)'
          PROVE  v = grant' \cap Wants
      <4>1. Len(results') + 1 = n /\ n \in 1..n
        BY <1>2
      <4>2. ViewBy(n, v)'
        BY <3>2, <4>1 DEF ViewBy
      <4>3. ViewBy(n + 1, v)
        BY <2>3, <4>1, <4>2
      <4>4. QED
        BY <1>1, <1>4, <4>3 DEF CoreInv, ViewsFollow
    <3>3. QED
      BY <3>1, <3>2 DEF ViewsFollow
  <2>5. ASSUME NEW i \in DOMAIN results', \A k \in DOMAIN results' : k > i => ~IsAccount(k)'
        PROVE  \A k \in DOMAIN results : k > i + 1 => ~IsAccount(k)
    <3> TAKE k \in DOMAIN results
    <3>1. k > i + 1 => k - 1 \in DOMAIN results' /\ k - 1 > i /\ k - 1 + 1 = k /\ k - 1 \in 1..n - 1
      BY <1>2
    <3>2. QED
      BY <1>3, <2>5, <3>1
  <2>6. GenerationsFollow'
    <3>1. ASSUME NEW i \in DOMAIN results', IsAccount(i)', \A k \in DOMAIN results' : k > i => ~IsAccount(k)'
          PROVE  results'[i].generation = generation'
      <4>1. i + 1 \in DOMAIN results /\ results'[i] = results[i + 1] /\ IsAccount(i + 1)
        BY <1>2, <1>3, <3>1
      <4>2. QED
        BY <1>4, <2>5, <3>1, <4>1 DEF CoreInv, GenerationsFollow
    <3>2. ASSUME NEW i \in DOMAIN results', MyView(i)', results'[i].asked, results'[i].ok,
                 \A k \in DOMAIN results' : k > i => ~IsAccount(k)'
          PROVE  \/ conn'.generation = generation' \/ conn'.revoked
                 \/ \E k \in DOMAIN results' : k < i /\ IsAccount(k)' /\ results'[k].generation # conn'.generation
      <4>1. /\ i \in 1..n - 1 /\ i + 1 \in DOMAIN results /\ results'[i] = results[i + 1] /\ MyView(i + 1)
        BY <1>2, <2>1, <3>2
      <4>2. \/ conn.generation = generation \/ conn.revoked
            \/ \E k \in DOMAIN results : k < i + 1 /\ IsAccount(k) /\ results[k].generation # conn.generation
        BY <2>5, <3>2, <4>1 DEF CoreInv, GenerationsFollow
      <4>3. CASE conn.generation = generation \/ conn.revoked
        BY <1>4, <4>3 DEF EntryFollows
      <4>4. ASSUME NEW k \in DOMAIN results, k < i + 1, IsAccount(k), results[k].generation # conn.generation
            PROVE  \/ conn'.revoked
                   \/ \E l \in DOMAIN results' : l < i /\ IsAccount(l)' /\ results'[l].generation # conn'.generation
        <5>1. CASE k = 1
          BY <4>4, <5>1 DEF EntryFollows
        <5>2. CASE k # 1
          <6>1. k - 1 \in DOMAIN results' /\ k - 1 \in 1..n - 1 /\ k - 1 < i /\ k - 1 + 1 = k
            BY <1>2, <4>1, <4>4, <5>2
          <6>2. IsAccount(k - 1)' /\ results'[k - 1].generation # conn'.generation
            BY <1>2, <1>3, <4>4, <6>1 DEF EntryFollows
          <6>3. QED
            BY <6>1, <6>2
        <5>3. QED
          BY <5>1, <5>2
      <4>5. QED
        BY <4>2, <4>3, <4>4
    <3>3. QED
      BY <3>1, <3>2 DEF GenerationsFollow
  <2>7. RegistrationHolds'
    <3>1. ASSUME NEW i \in DOMAIN requests', requests'[i].conn = conn'.id
          PROVE  /\ requests'[i].kind = "register" /\ requests'[i].generation = conn'.generation
                 /\ pc' = "wait" /\ conn'.id \notin members' /\ \A k \in DOMAIN results' : ~MyView(k)'
      <4>1. /\ requests[i].kind = "register" /\ requests[i].generation = conn.generation
            /\ pc = "wait" /\ conn.id \notin members /\ \A k \in DOMAIN results : ~MyView(k)
        BY <1>4, <3>1 DEF CoreInv, RegistrationHolds, EntryFollows
      <4>2. ~MyView(1)
        BY <1>2, <4>1
      <4>3. \A k \in DOMAIN results' : ~MyView(k)'
        <5> TAKE k \in DOMAIN results'
        <5>1. k \in 1..n - 1 /\ k + 1 \in DOMAIN results
          BY <1>2
        <5>2. QED
          BY <2>1, <4>1, <5>1
      <4>4. QED
        BY <1>4, <4>1, <4>2, <4>3 DEF EntryFollows
    <3>2. \A i, j \in DOMAIN results' : i < j /\ MyView(i)' /\ MyView(j)' => ~results'[j].asked
      <4> TAKE i, j \in DOMAIN results'
      <4>1. /\ i + 1 \in DOMAIN results /\ j + 1 \in DOMAIN results /\ (i < j => i + 1 < j + 1)
            /\ results'[j] = results[j + 1] /\ (MyView(i)' => MyView(i + 1)) /\ (MyView(j)' => MyView(j + 1))
        BY <1>2, <2>1
      <4>2. QED
        BY <4>1 DEF CoreInv, RegistrationHolds, EntryFollows
    <3>3. ASSUME NEW i \in DOMAIN results', MyView(i)'
          PROVE  (results'[i].asked => pc' = "wait") /\ (results'[i].ok => conn'.id \in members')
      <4>1. i + 1 \in DOMAIN results /\ results'[i] = results[i + 1] /\ MyView(i + 1) /\ 1 < i + 1
            /\ 1 \in DOMAIN results
        BY <1>2, <2>1, <3>3
      <4>2. /\ results[i + 1].asked => pc = "wait"
            /\ results[i + 1].ok => conn.id \in members
            /\ MyView(1) => ~results[i + 1].asked
        BY <4>1 DEF CoreInv, RegistrationHolds, EntryFollows
      <4>3. QED
        BY <1>4, <4>1, <4>2 DEF EntryFollows
    <3>4. conn'.active =>
            conn'.id \in members' /\ pc' # "wait" /\ ~conn'.revoked /\ conn'.view \in SUBSET Slices
      <4>1. conn.active => conn.id \in members /\ pc # "wait" /\ conn.view \in SUBSET Slices
        BY DEF CoreInv, RegistrationHolds, EntryFollows
      <4>2. MyView(1) /\ results[1].ok => conn.id \in members
        BY <1>2 DEF CoreInv, RegistrationHolds, EntryFollows
      <4>3. MyView(1) => results[1].grant \cap Wants \in SUBSET Slices
        BY NextResult, ResultFields DEF MyView
      <4>4. QED
        BY <1>4, <4>1, <4>2, <4>3 DEF EntryFollows
    <3>5. QED
      BY <3>1, <3>2, <3>3, <3>4 DEF RegistrationHolds
  <2>8. PublishedViewIsCurrent'
    <3> SUFFICES ASSUME conn'.active, position' > 0
                 PROVE  \E q \in position'..Len(log) : conn'.view = grantAt[q] \cap Wants
      BY <1>4 DEF PublishedViewIsCurrent
    <3>1. CASE MyView(1)
      <4>1. results[1].ok /\ results[1].kind = "view" /\ conn'.view = results[1].grant \cap Wants
        BY <3>1 DEF EntryFollows, MyView
      <4>2. ~IsCommit(1) /\ position' = position
        BY <4>1 DEF IsCommit
      <4>3. position <= results[1].position /\ results[1].position <= Len(log)
            /\ (results[1].position > 0 => results[1].grant = grantAt[results[1].position])
        BY <1>2, <4>1 DEF CoreInv, ResultsHold, ResultHolds
      <4>4. results[1].position \in Nat /\ position \in Nat /\ Len(log) \in Nat
        BY <4>1, NextResult, ResultFields, LenProperties, StreamAssumption DEF TypeOK, Positions
      <4>5. results[1].position \in position..Len(log) /\ results[1].position > 0
        BY <4>2, <4>3, <4>4
      <4>6. QED
        BY <4>1, <4>2, <4>3, <4>5
    <3>2. CASE ~MyView(1)
      <4>1. conn.active /\ conn'.view = conn.view /\ conn # NoConn
        BY <3>2 DEF EntryFollows
      <4>2. CASE IsCommit(1)
        <5>1. ViewBy(1, conn.view)
          BY <4>1 DEF ViewBy
        <5>2. conn.view \in SUBSET Slices
          BY <4>1 DEF CoreInv, RegistrationHolds
        <5>3. conn.view = grantAt[results[1].position] \cap Wants
          BY <1>2, <4>2, <5>1, <5>2 DEF CoreInv, ViewsFollow
        <5>4. position' = results[1].position /\ position' <= Len(log)
          BY <1>2, <4>2 DEF CoreInv, ResultsHold, ResultHolds, IsCommit
        <5>5. position' \in Nat /\ Len(log) \in Nat
          BY <4>2, <5>4, NextResult, ResultFields, LenProperties, StreamAssumption DEF TypeOK, Positions, IsCommit
        <5>6. position' \in position'..Len(log)
          BY <5>4, <5>5
        <5>7. QED
          BY <4>1, <5>3, <5>4, <5>6
      <4>3. CASE ~IsCommit(1)
        BY <3>2, <4>1, <4>3 DEF CoreInv, PublishedViewIsCurrent
      <4>4. QED
        BY <4>2, <4>3
    <3>3. QED
      BY <3>1, <3>2
  <2>9. NoStaleTokenStreams'
    <3> SUFFICES ASSUME conn'.active, \A i \in DOMAIN results' : results'[i].kind # "account"
                 PROVE  conn'.generation = generation'
      BY DEF NoStaleTokenStreams
    <3>1. \A k \in DOMAIN results : k > 1 => results[k].kind # "account" /\ ~IsAccount(k)
      <4> TAKE k \in DOMAIN results
      <4>1. k > 1 => k - 1 \in DOMAIN results' /\ results'[k - 1] = results[k - 1 + 1] /\ k - 1 + 1 = k
        BY <1>2
      <4>2. QED
        BY <4>1 DEF IsAccount
    <3>2. 1 \in DOMAIN results
      BY <1>2
    <3>3. CASE MyView(1) /\ results[1].asked
      <4>1. \/ conn.generation = generation \/ conn.revoked
            \/ \E k \in DOMAIN results : k < 1 /\ IsAccount(k) /\ results[k].generation # conn.generation
        BY <3>1, <3>2, <3>3 DEF CoreInv, GenerationsFollow, EntryFollows
      <4>2. \A k \in DOMAIN results : ~(k < 1)
        BY <1>2
      <4>3. QED
        BY <1>4, <4>1, <4>2 DEF EntryFollows
    <3>4. CASE conn.active
      <4>1. CASE IsAccount(1)
        <5>1. results[1].generation = generation
          BY <3>1, <3>2, <4>1 DEF CoreInv, GenerationsFollow
        <5>2. QED
          BY <1>4, <4>1, <5>1 DEF EntryFollows
      <4>2. CASE ~IsAccount(1)
        <5>1. \A k \in DOMAIN results : results[k].kind # "account"
          BY <1>2, <3>1, <3>2, <4>2 DEF IsAccount
        <5>2. QED
          BY <1>4, <3>4, <5>1 DEF CoreInv, NoStaleTokenStreams, EntryFollows
      <4>3. QED
        BY <4>1, <4>2
    <3>5. QED
      BY <3>3, <3>4 DEF EntryFollows
  <2>10. QED
    BY <1>5, <2>4, <2>6, <2>7, <2>8, <2>9 DEF CoreInv
<1>8. QED
  BY <1>6, <1>7

\* What each step of the dispatcher does to the entry.
LEMMA DispatchCore ==
  TypeOK /\ CoreInv /\ (DispatchAccount \/ DispatchView \/ DispatchReply \/ DispatchCommit) => CoreInv'
<1> SUFFICES ASSUME TypeOK, CoreInv, DispatchAccount \/ DispatchView \/ DispatchReply \/ DispatchCommit
             PROVE  CoreInv'
  OBVIOUS
<1>1. /\ results # <<>> /\ results' = Tail(results) /\ UNCHANGED <<core, requests>>
      /\ Head(results) = results[1] /\ 1 \in DOMAIN results /\ results[1] \in Result
  BY NextResult DEF DispatchAccount, DispatchView, DispatchReply, DispatchCommit
<1>2. /\ IsAccount(1) <=> results[1].kind = "account"
      /\ IsCommit(1) <=> results[1].kind = "commit"
      /\ MyView(1) <=> results[1].kind = "view" /\ Mine(results[1])
  BY <1>1 DEF IsAccount, IsCommit, MyView
<1>3. position' = (IF IsCommit(1) THEN results[1].position ELSE position)
  BY <1>1, <1>2 DEF DispatchAccount, DispatchView, DispatchReply, DispatchCommit
<1>4. CASE conn = NoConn
  <2>1. conn' = NoConn
    BY <1>4 DEF DispatchAccount, DispatchView, DispatchReply, DispatchCommit, Mine
  <2>2. QED
    BY <1>1, <1>3, <1>4, <2>1, DispatchedEntry
<1>5. CASE conn # NoConn
  <2>1. /\ conn \in Conn /\ conn.active \in BOOLEAN /\ conn.revoked \in BOOLEAN
        /\ conn.active => ~conn.revoked
    BY <1>5, EntryType DEF CoreInv, RegistrationHolds
  <2>2. CASE DispatchAccount
    <3>1. ~MyView(1) /\ pc' = pc
      BY <1>1, <1>2, <2>2 DEF DispatchAccount, task
    <3>2. CASE conn.revoked \/ conn.generation = results[1].generation
      <4>1. conn' = conn
        BY <1>1, <2>2, <3>2 DEF DispatchAccount
      <4>2. EntryFollows
        BY <1>5, <2>1, <3>1, <3>2, <4>1 DEF EntryFollows
      <4>3. QED
        BY <1>1, <1>3, <4>2, DispatchedEntry
    <3>3. CASE ~(conn.revoked \/ conn.generation = results[1].generation)
      <4>1. conn' = [Ended(conn) EXCEPT !.revoked = TRUE]
        BY <1>1, <1>5, <2>2, <3>3 DEF DispatchAccount
      <4>2. conn' \in Conn /\ conn'.id = conn.id /\ conn'.generation = conn.generation
            /\ ~conn'.active /\ conn'.revoked
        <5> DEFINE e == Ended(conn)
        <5>1. e \in Conn /\ e.id = conn.id /\ e.generation = conn.generation /\ ~e.active
          BY <2>1, EndedType
        <5> HIDE DEF e
        <5>2. conn' = [e EXCEPT !.revoked = TRUE]
          BY <4>1 DEF e
        <5>3. QED
          BY <5>1, <5>2 DEF Conn
      <4>3. EntryFollows
        BY <1>5, <3>1, <4>2, NoConnAssumption DEF EntryFollows
      <4>4. QED
        BY <1>1, <1>3, <4>3, DispatchedEntry
    <3>4. QED
      BY <3>2, <3>3
  <2>3. CASE DispatchView
    <3> DEFINE r == Head(results)
               view == r.grant \cap Wants
               seen == [conn EXCEPT !.view = view]
               frame == [kind |-> "view", view |-> view, pos |-> position]
    <3>1. /\ r.kind = "view" /\ ~r.asked /\ pc' = pc /\ ~IsAccount(1) /\ r = results[1]
          /\ MyView(1) <=> Mine(r)
      BY <1>1, <1>2, <2>3 DEF DispatchView, task
    <3>2. CASE ~Mine(r)
      <4>1. conn' = conn
        BY <2>3, <3>2 DEF DispatchView
      <4>2. EntryFollows
        BY <1>5, <2>1, <3>1, <3>2, <4>1 DEF EntryFollows
      <4>3. QED
        BY <1>1, <1>3, <4>2, DispatchedEntry
    <3>3. CASE Mine(r) /\ ~r.ok
      <4>1. conn' = Ended(conn)
        BY <2>3, <3>3 DEF DispatchView
      <4>2. /\ conn' \in Conn /\ conn'.id = conn.id /\ conn'.generation = conn.generation
            /\ ~conn'.active /\ conn'.revoked = conn.revoked
        BY <2>1, <4>1, EndedType
      <4>3. EntryFollows
        BY <1>5, <3>1, <4>2, NoConnAssumption DEF EntryFollows
      <4>4. QED
        BY <1>1, <1>3, <4>3, DispatchedEntry
    <3>4. CASE Mine(r) /\ r.ok /\ view = conn.view
      <4>1. conn' = conn
        BY <2>3, <3>4 DEF DispatchView
      <4>2. EntryFollows
        BY <1>5, <2>1, <3>1, <3>4, <4>1 DEF EntryFollows
      <4>3. QED
        BY <1>1, <1>3, <4>2, DispatchedEntry
    <3>5. CASE Mine(r) /\ r.ok /\ view # conn.view
      <4>1. conn' = Queued(seen, frame)
        BY <2>3, <3>5 DEF DispatchView
      <4>2. view \in SUBSET Slices /\ position \in Positions
        BY <1>1, <3>1, ResultFields DEF TypeOK
      <4>3. seen \in Conn /\ frame \in Frame
        BY <2>1, <4>2, FrameType DEF Conn
      <4>4. /\ seen.id = conn.id /\ seen.generation = conn.generation /\ seen.view = view
            /\ seen.active = conn.active /\ seen.revoked = conn.revoked
        BY <2>1 DEF Conn
      <4> HIDE DEF seen, frame
      <4>5. /\ conn' \in Conn /\ conn'.id = conn.id /\ conn'.generation = conn.generation
            /\ conn'.view = view /\ conn'.revoked = conn.revoked
            /\ (conn'.active => conn.active)
        BY <4>1, <4>3, <4>4, QueuedType
      <4>6. EntryFollows
        BY <1>5, <2>1, <3>1, <3>5, <4>5, NoConnAssumption DEF EntryFollows
      <4>7. QED
        BY <1>1, <1>3, <4>6, DispatchedEntry
    <3>6. QED
      BY <3>2, <3>3, <3>4, <3>5
  <2>4. CASE DispatchReply
    <3> DEFINE r == Head(results)
    <3>1. r.kind = "view" /\ r.asked /\ ~IsAccount(1) /\ r = results[1] /\ (MyView(1) <=> Mine(r))
      BY <1>1, <1>2, <2>4 DEF DispatchReply
    <3>2. CASE ~Mine(r)
      <4>1. conn' = conn /\ pc' = pc
        BY <2>4, <3>2 DEF DispatchReply
      <4>2. EntryFollows
        BY <1>5, <2>1, <3>1, <3>2, <4>1 DEF EntryFollows
      <4>3. QED
        BY <1>1, <1>3, <4>2, DispatchedEntry
    <3>3. CASE Mine(r)
      <4>1. /\ pc' = "replied"
            /\ conn' = IF r.ok THEN [conn EXCEPT !.view = r.grant \cap Wants, !.active = ~conn.revoked]
                       ELSE conn
        BY <2>4, <3>3 DEF DispatchReply
      <4>2. ~conn.active
        BY <1>1, <1>5, <2>1, <3>1, <3>3 DEF CoreInv, RegistrationHolds
      <4>3. r.grant \cap Wants \in SUBSET Slices
        BY <1>1, <3>1, ResultFields
      <4>4. /\ conn' \in Conn /\ conn'.id = conn.id /\ conn'.generation = conn.generation
            /\ conn'.revoked = conn.revoked
            /\ (conn'.active => ~conn.revoked /\ r.ok /\ conn'.view = r.grant \cap Wants)
        BY <2>1, <4>1, <4>2, <4>3 DEF Conn
      <4>5. EntryFollows
        BY <1>5, <3>1, <3>3, <4>1, <4>4, NoConnAssumption DEF EntryFollows
      <4>6. QED
        BY <1>1, <1>3, <4>5, DispatchedEntry
    <3>4. QED
      BY <3>2, <3>3
  <2>5. CASE DispatchCommit
    <3> DEFINE frame == [kind |-> "commit", mutations |-> Head(results).mutations]
    <3>1. ~MyView(1) /\ ~IsAccount(1) /\ pc' = pc /\ conn' \in {conn, Queued(conn, frame)}
      BY <1>1, <1>2, <2>5 DEF DispatchCommit, task
    <3>2. frame \in Frame
      BY <1>1, <2>5, ResultFields, FrameType DEF DispatchCommit
    <3> HIDE DEF frame
    <3>3. /\ conn' \in Conn /\ conn'.id = conn.id /\ conn'.generation = conn.generation
          /\ conn'.view = conn.view /\ conn'.revoked = conn.revoked /\ (conn'.active => conn.active)
      BY <2>1, <3>1, <3>2, QueuedType
    <3>4. EntryFollows
      BY <1>5, <2>1, <3>1, <3>3, NoConnAssumption DEF EntryFollows
    <3>5. QED
      BY <1>1, <1>3, <3>4, DispatchedEntry
  <2>6. QED
    BY <2>2, <2>3, <2>4, <2>5
<1>6. QED
  BY <1>4, <1>5

-----------------------------------------------------------------------------
(* The results: a batch adds its own.                                      *)

\* The view of the last result for the connection.
LEMMA SeenLast ==
  ASSUME NEW n \in Nat, NEW v, NEW j \in 1..n, MyView(j), results[j].ok,
         results[j].grant \cap Wants = v, \A k \in (j + 1)..n : ~MyView(k)
  PROVE  ViewBy(n + 1, v)
<1>1. n + 1 - 1 = n
  OBVIOUS
<1>2. QED
  BY <1>1 DEF ViewBy

\* The requests of the connection's own id.
LEMMA OwnRequests ==
  ASSUME TypeOK, RegistrationHolds, conn # NoConn
  PROVE  /\ conn.id \notin Leaving
         /\ conn.id \in Asking =>
              /\ pc = "wait" /\ conn.id \notin members
              /\ \A k \in DOMAIN results : ~MyView(k)
         /\ \A valid : conn.id \in Admitted(valid) => conn.generation = valid
<1> DEFINE R == {requests[i] : i \in DOMAIN requests}
<1>1. \A r \in R : r.conn = conn.id =>
        /\ r.kind = "register" /\ r.generation = conn.generation /\ pc = "wait"
        /\ conn.id \notin members /\ \A k \in DOMAIN results : ~MyView(k)
  BY DEF RegistrationHolds
<1>2. Asks = {r \in R : r.kind = "register"}
  BY DEF Asks
<1> HIDE DEF R
<1>3. conn.id \notin Leaving
  BY <1>1, <1>2 DEF Leaving, R
<1>4. conn.id \in Asking => \E r \in R : r.conn = conn.id
  BY <1>2 DEF Asking
<1>5. ASSUME NEW valid, conn.id \in Admitted(valid) PROVE conn.generation = valid
  BY <1>1, <1>2, <1>5 DEF Admitted
<1>6. QED
  BY <1>1, <1>3, <1>4, <1>5

\* The results a batch adds are as those before them: its commit is published next, its
\* views are of its grant, and its account result is the last.
LEMMA BatchCore ==
  ASSUME TypeOK, CoreInv, NEW muts \in Seq(Mutations), NEW g \in SUBSET Slices,
         NEW f \in BOOLEAN, NEW gen \in Nat, Batch(muts, g, f, gen)
  PROVE  CoreInv'
<1>1. PICK valid \in {generation, gen}, a, b, c, d \in Nat :
        /\ Appends(muts, g, f, gen, valid, a, b, c, d)
        /\ members' = (members \cup Admitted(valid)) \ Leaving
        /\ results' \in Seq(Result)
  <2>1. IsFiniteSet(members)
    BY DEF CoreInv, ResultsHold
  <2>2. QED
    BY <2>1, BatchAppends, Zenon
<1>2. PICK n \in Nat, h \in Nat, m \in Nat, head \in Nat :
        n = Len(results) /\ h = Len(log) /\ m = Len(muts) /\ head = h + m
  BY LenProperties DEF TypeOK
<1>3. /\ muts = <<>> => g = grant /\ f = failed /\ gen = generation
      /\ requests' = <<>> /\ grant' = g /\ generation' = gen
      /\ UNCHANGED <<position, conn, pc>>
  BY DEF Batch, task
<1>4. /\ (muts # <<>> => m > 0) /\ (muts = <<>> => m = 0)
      /\ Len(log') = head /\ \A p \in 1..h : log'[p] \subseteq log[p]
      /\ \A i \in 1..m : log'[h + i] \subseteq muts[i].edits
      /\ \A p \in 1..h : grantAt'[p] = grantAt[p]
      /\ \A p \in (h + 1)..head : grantAt'[p] = g
  <2>1. LogsOf(muts, g)
    BY BatchLogs, Zenon
  <2>2. QED
    BY <1>2, <2>1 DEF LogsOf
<1>5. /\ n <= a /\ a <= b /\ b <= c /\ c <= d
      /\ DOMAIN results = 1..n /\ DOMAIN results' = 1..d /\ Len(results') = d
      /\ gen = generation => a = n
      /\ gen # generation => a = n + 1
      /\ muts = <<>> => c = b
      /\ muts # <<>> => c = b + 1
  BY <1>1, <1>2, LenProperties DEF Appends, TypeOK
<1>6. \A i \in 1..n : results'[i] = results[i]
  BY <1>1, <1>2 DEF Appends
<1>7. \A i \in (n + 1)..a : results'[i] = Account(gen)
  BY <1>1, <1>2 DEF Appends
<1>8. /\ \A i \in (a + 1)..b : \E k \in Seeing(g, f) : results'[i] = ViewResult(k, FALSE, ~f, g, head)
      /\ \A k \in Seeing(g, f) : \E i \in (a + 1)..b : results'[i].conn = k
  <2>1. \A i \in (a + 1)..b : \E k \in Seeing(g, f) :
          results'[i] = ViewResult(k, FALSE, ~f, g, Len(log) + Len(muts))
    BY <1>1, Zenon DEF Appends
  <2>2. \A k \in Seeing(g, f) : \E i \in (a + 1)..b : results'[i].conn = k
    BY <1>1, Zenon DEF Appends
  <2>3. QED
    BY <1>2, <2>1, <2>2
<1>9. \A i \in (b + 1)..c : results'[i] = CommitResult(muts, h + 1, head)
  BY <1>1, <1>2 DEF Appends
<1>10. /\ \A i \in (c + 1)..d : \E k \in Asking :
            results'[i] = IF k \in Admitted(valid) THEN ViewResult(k, TRUE, ~f, g, head)
                          ELSE ViewResult(k, TRUE, FALSE, {}, head)
       /\ \A i, j \in (c + 1)..d : results'[i].conn = results'[j].conn => i = j
  <2>1. \A i \in (c + 1)..d : \E k \in Asking :
            results'[i] = IF k \in Admitted(valid)
                          THEN ViewResult(k, TRUE, ~f, g, Len(log) + Len(muts))
                          ELSE ViewResult(k, TRUE, FALSE, {}, Len(log) + Len(muts))
    BY <1>1, Zenon DEF Appends
  <2>2. \A i, j \in (c + 1)..d : results'[i].conn = results'[j].conn => i = j
    BY <1>1, Zenon DEF Appends
  <2>3. QED
    BY <1>2, <2>1, <2>2
<1>11. ASSUME NEW i \in 1..d
       PROVE  i \in 1..n \/ i \in (n + 1)..a \/ i \in (a + 1)..b \/ i \in (b + 1)..c \/ i \in (c + 1)..d
  BY <1>5
\* What each of the results is.
<1>12. \A i \in 1..n : /\ (IsCommit(i)' <=> IsCommit(i)) /\ (IsAccount(i)' <=> IsAccount(i))
                       /\ (MyView(i)' <=> MyView(i))
  <2> TAKE i \in 1..n
  <2>1. i \in DOMAIN results /\ i \in DOMAIN results' /\ results'[i] = results[i]
    BY <1>5, <1>6
  <2>2. QED
    BY <1>3, <2>1 DEF IsCommit, IsAccount, MyView, Mine
<1>13. \A i \in (n + 1)..a : /\ ~IsCommit(i)' /\ IsAccount(i)' /\ ~MyView(i)'
                             /\ results'[i].kind = "account" /\ results'[i].generation = gen
  <2> TAKE i \in (n + 1)..a
  <2>1. i \in DOMAIN results' /\ results'[i].kind = "account" /\ results'[i].generation = gen
    BY <1>5, <1>7 DEF Account
  <2>2. QED
    BY <2>1 DEF IsCommit, IsAccount, MyView
<1>14. \A i \in (a + 1)..b : /\ ~IsCommit(i)' /\ ~IsAccount(i)' /\ results'[i].kind = "view"
                             /\ ~results'[i].asked /\ results'[i].grant = g
                             /\ results'[i].position = head /\ results'[i].conn \in Seeing(g, f)
  <2> TAKE i \in (a + 1)..b
  <2>1. i \in DOMAIN results'
    BY <1>5
  <2>2. /\ results'[i].kind = "view" /\ ~results'[i].asked /\ results'[i].grant = g
        /\ results'[i].position = head /\ results'[i].conn \in Seeing(g, f)
    <3>1. PICK k \in Seeing(g, f) : results'[i] = ViewResult(k, FALSE, ~f, g, head)
      BY <1>8
    <3>2. QED
      BY <3>1 DEF ViewResult
  <2>3. QED
    BY <2>1, <2>2 DEF IsCommit, IsAccount
<1>15. \A i \in (b + 1)..c : /\ IsCommit(i)' /\ ~IsAccount(i)' /\ ~MyView(i)' /\ results'[i].kind = "commit"
                             /\ results'[i].position = head
                             /\ results'[i].mutations
                                  = [k \in DOMAIN muts |-> [position |-> h + 1 + k - 1, edits |-> muts[k].edits]]
  <2> TAKE i \in (b + 1)..c
  <2>1. /\ i \in DOMAIN results' /\ results'[i].kind = "commit" /\ results'[i].position = head
        /\ results'[i].mutations = [k \in DOMAIN muts |-> [position |-> h + 1 + k - 1, edits |-> muts[k].edits]]
    <3>1. i \in DOMAIN results' /\ results'[i] = CommitResult(muts, h + 1, head)
      BY <1>5, <1>9
    <3>2. QED
      BY <3>1 DEF CommitResult
  <2>2. QED
    BY <2>1 DEF IsCommit, IsAccount, MyView
<1>16. \A i \in (c + 1)..d : /\ ~IsCommit(i)' /\ ~IsAccount(i)' /\ results'[i].kind = "view"
                             /\ results'[i].asked /\ results'[i].position = head
                             /\ results'[i].conn \in Asking
                             /\ results'[i].ok => results'[i].grant = g /\ results'[i].conn \in Admitted(valid)
  <2> TAKE i \in (c + 1)..d
  <2>1. i \in DOMAIN results'
    BY <1>5
  <2>2. /\ results'[i].kind = "view" /\ results'[i].asked
        /\ results'[i].position = head /\ results'[i].conn \in Asking
        /\ results'[i].ok => results'[i].grant = g /\ results'[i].conn \in Admitted(valid)
    <3>1. PICK k \in Asking : results'[i] = IF k \in Admitted(valid) THEN ViewResult(k, TRUE, ~f, g, head)
                                            ELSE ViewResult(k, TRUE, FALSE, {}, head)
      BY <1>10
    <3>2. CASE k \in Admitted(valid)
      BY <3>1, <3>2 DEF ViewResult
    <3>3. CASE k \notin Admitted(valid)
      BY <3>1, <3>3 DEF ViewResult
    <3>4. QED
      BY <3>2, <3>3
  <2>3. QED
    BY <2>1, <2>2 DEF IsCommit, IsAccount
<1>17. \A i \in 1..d : MyView(i)' <=> conn # NoConn /\ results'[i].kind = "view" /\ results'[i].conn = conn.id
  BY <1>3, <1>5 DEF MyView, Mine
<1>18. \A i \in 1..n : \A p : PublishedBy(i, p) => PublishedBy(i, p)'
  <2> TAKE i \in 1..n
  <2> TAKE p
  <2>1. \A k \in 1..(i - 1) : k \in 1..n
    OBVIOUS
  <2>2. \A j \in 1..(i - 1) : \A k \in (j + 1)..(i - 1) : k \in 1..n
    OBVIOUS
  <2>3. QED
    BY <1>3, <1>6, <1>12, <2>1, <2>2 DEF PublishedBy
<1>19. \A p : PublishedBy(n + 1, p) => PublishedBy(b + 1, p)'
  <2> TAKE p
  <2> SUFFICES ASSUME PublishedBy(n + 1, p) PROVE PublishedBy(b + 1, p)'
    OBVIOUS
  <2>1. n + 1 - 1 = n /\ b + 1 - 1 = b
    OBVIOUS
  <2>2. \A k \in (n + 1)..b : ~IsCommit(k)'
    <3> TAKE k \in (n + 1)..b
    <3>1. k \in (n + 1)..a \/ k \in (a + 1)..b
      BY <1>5
    <3>2. QED
      BY <1>13, <1>14, <3>1
  <2>3. CASE \E j \in 1..n : IsCommit(j) /\ results[j].position = p
                               /\ \A k \in (j + 1)..n : ~IsCommit(k)
    <3>1. PICK j \in 1..n : IsCommit(j) /\ results[j].position = p
                              /\ \A k \in (j + 1)..n : ~IsCommit(k)
      BY <2>3
    <3>2. IsCommit(j)' /\ results'[j].position = p /\ j \in 1..b
      BY <1>5, <1>6, <1>12, <3>1
    <3>3. \A k \in (j + 1)..b : ~IsCommit(k)'
      <4> TAKE k \in (j + 1)..b
      <4>1. k \in (n + 1)..b \/ (k \in (j + 1)..n /\ k \in 1..n)
        BY <1>5
      <4>2. QED
        BY <1>12, <2>2, <3>1, <4>1
    <3>4. QED
      BY <2>1, <3>2, <3>3 DEF PublishedBy
  <2>4. CASE position = p /\ \A k \in 1..n : ~IsCommit(k)
    <3>1. \A k \in 1..b : ~IsCommit(k)'
      <4> TAKE k \in 1..b
      <4>1. k \in (n + 1)..b \/ k \in 1..n
        BY <1>5
      <4>2. QED
        BY <1>12, <2>2, <2>4, <4>1
    <3>2. QED
      BY <1>3, <2>1, <2>4, <3>1 DEF PublishedBy
  <2>5. QED
    BY <2>1, <2>3, <2>4 DEF PublishedBy
<1>20. ResultsHold /\ RegistrationHolds /\ ViewsFollow /\ GenerationsFollow
       /\ position \in Nat /\ position <= h /\ PublishedBy(n + 1, h)
  BY <1>2 DEF CoreInv, ResultsHold, TypeOK, Positions
<1>21. \A i \in 1..n : ResultHolds(i) /\ results[i] \in Result
  <2>1. \A i \in 1..n : results[i] \in Result
    BY <1>5 DEF TypeOK
  <2>2. QED
    BY <1>5, <1>20, <2>1 DEF ResultsHold
\* The parts of the invariant.
<1>22. /\ IsFiniteSet(members')
       /\ log' # <<>> => grant' = grantAt'[Len(log')]
       /\ position' <= Len(log')
  <2>1. IsFiniteSet(members) /\ IsFiniteSet(Admitted(valid))
    BY <1>20, FiniteAsking DEF ResultsHold
  <2>2. IsFiniteSet(members')
    BY <1>1, <2>1, FS_Union, FS_Subset
  <2>3. ASSUME log' # <<>> PROVE grant' = grantAt'[Len(log')]
    <3>1. head > 0
      <4>1. log' \in Seq(SUBSET Slices)
        <5>1. LogsOf(muts, g)
          BY BatchLogs, Zenon
        <5>2. QED
          BY <5>1 DEF LogsOf
      <4>2. head # 0
        BY <1>4, <2>3, <4>1, EmptySeq
      <4>3. QED
        BY <4>2
    <3>2. CASE m > 0
      <4>1. head \in (h + 1)..head
        BY <1>2, <3>2
      <4>2. QED
        BY <1>3, <1>4, <4>1
    <3>3. CASE m = 0
      <4>1. head = h /\ h \in 1..h /\ muts = <<>>
        BY <1>2, <1>4, <3>1, <3>3
      <4>2. log # <<>>
        BY <1>2, <3>1, <4>1, EmptySeq
      <4>3. QED
        BY <1>2, <1>3, <1>4, <1>20, <4>1, <4>2 DEF ResultsHold
    <3>4. QED
      BY <3>2, <3>3
  <2>4. QED
    BY <1>2, <1>3, <1>4, <1>20, <2>2, <2>3
<1>23. ASSUME NEW i \in 1..d PROVE ResultHolds(i)'
  <2>1. CASE i \in 1..n
    <3>1. PICK r, first : r = results[i] /\ first = r.position - Len(r.mutations)
      OBVIOUS
    <3>2. ResultHolds(i) /\ r \in Result /\ results'[i] = r
      BY <1>6, <1>21, <2>1, <3>1
    <3>3. r.kind \in {"view", "commit"} => position <= r.position /\ r.position <= head /\ r.position <= h
      <4>1. r.kind \in {"view", "commit"} => position <= r.position /\ r.position <= h
        BY <1>2, <3>1, <3>2 DEF ResultHolds
      <4>2. r.kind \in {"view", "commit"} => r.position \in Nat
        BY <3>2, ResultFields DEF Positions
      <4>3. QED
        BY <1>2, <4>1, <4>2
    <3>4. r.kind = "view" /\ r.ok /\ r.position > 0 => r.grant = grantAt'[r.position]
      <4> SUFFICES ASSUME r.kind = "view", r.ok, r.position > 0 PROVE r.grant = grantAt'[r.position]
        OBVIOUS
      <4>1. r.position \in Nat
        BY <3>2, ResultFields DEF Positions
      <4>2. r.position \in 1..h
        BY <3>3, <4>1
      <4>3. r.grant = grantAt[r.position]
        BY <3>1, <3>2 DEF ResultHolds
      <4>4. QED
        BY <1>4, <4>2, <4>3
    <3>5. r.kind = "commit" => Complete(r)' /\ PublishedBy(i, first)'
      <4> SUFFICES ASSUME r.kind = "commit" PROVE Complete(r)' /\ PublishedBy(i, first)'
        OBVIOUS
      <4>1. Complete(r) /\ PublishedBy(i, first)
        BY <3>1, <3>2 DEF ResultHolds
      <4>2. /\ r.position \in Nat /\ r.mutations \in Seq(Mutation) /\ r.position <= h
        BY <3>2, <3>3, ResultFields DEF Positions
      <4>3. /\ Len(r.mutations) \in Nat /\ DOMAIN r.mutations = 1..Len(r.mutations)
            /\ \A k \in DOMAIN r.mutations : r.mutations[k].position \in 1..MaxPosition
        <5>1. Len(r.mutations) \in Nat /\ DOMAIN r.mutations = 1..Len(r.mutations)
          BY <4>2, LenProperties
        <5>2. \A k \in DOMAIN r.mutations : r.mutations[k] \in Mutation
          BY <4>2
        <5>3. \A x \in Mutation : x.position \in 1..MaxPosition
          BY DEF Mutation
        <5>4. QED
          BY <5>1, <5>2, <5>3
      <4>4. ASSUME NEW k \in DOMAIN r.mutations, NEW p, p = r.position - Len(r.mutations) + k
            PROVE  r.mutations[k].position = p /\ log'[p] \subseteq r.mutations[k].edits
        <5>1. r.mutations[k].position = p /\ log[p] \subseteq r.mutations[k].edits
          BY <4>1, <4>4 DEF Complete
        <5>2. p \in 1..MaxPosition /\ p <= h
          BY <4>2, <4>3, <4>4, <5>1
        <5>3. p \in 1..h
          BY <5>2
        <5>4. QED
          BY <1>4, <5>1, <5>3
      <4>5. Complete(r)'
        BY <4>1, <4>4 DEF Complete
      <4>6. QED
        BY <1>18, <2>1, <4>1, <4>5
    <3>6. QED
      BY <1>3, <1>4, <3>1, <3>2, <3>3, <3>4, <3>5 DEF ResultHolds, PublishedBy
  <2>2. CASE i \in (n + 1)..a
    BY <1>13, <2>2 DEF ResultHolds
  <2>3. CASE i \in (a + 1)..b \/ i \in (c + 1)..d
    <3>1. /\ results'[i].kind = "view" /\ results'[i].position = head
          /\ results'[i].ok => results'[i].grant = g
      BY <1>14, <1>16, <2>3
    <3>2. head > 0 => grantAt'[head] = g
      <4>1. CASE m > 0
        <5>1. head \in (h + 1)..head
          BY <1>2, <4>1
        <5>2. QED
          BY <1>4, <5>1
      <4>2. CASE m = 0 /\ head > 0
        <5>1. muts = <<>> /\ head = h /\ h \in 1..h
          BY <1>2, <1>4, <4>2
        <5>2. log # <<>>
          BY <1>2, <5>1, EmptySeq DEF TypeOK
        <5>3. grant = grantAt[h]
          BY <1>2, <5>2 DEF CoreInv, ResultsHold
        <5>4. QED
          BY <1>3, <1>4, <5>1, <5>3
      <4>3. QED
        BY <1>2, <4>1, <4>2
    <3>3. position <= head
      BY <1>2, <1>20
    <3>4. QED
      BY <1>3, <1>4, <3>1, <3>2, <3>3 DEF ResultHolds
  <2>4. CASE i \in (b + 1)..c
    <3>1. PICK r : r = results'[i]
      OBVIOUS
    <3>2. /\ r.kind = "commit" /\ r.position = head
          /\ r.mutations = [k \in DOMAIN muts |-> [position |-> h + 1 + k - 1, edits |-> muts[k].edits]]
      BY <1>15, <2>4, <3>1
    <3>3. i = b + 1 /\ muts # <<>> /\ m > 0
      BY <1>4, <1>5, <2>4
    <3>4. Len(r.mutations) = m /\ DOMAIN r.mutations = 1..m
      <4>1. DOMAIN muts = 1..m
        BY <1>2, LenProperties
      <4>2. QED
        BY <1>2, <3>2, <4>1
    <3>5. Complete(r)'
      <4>1. ASSUME NEW k \in DOMAIN r.mutations, NEW p, p = r.position - Len(r.mutations) + k
            PROVE  r.mutations[k].position = p /\ log'[p] \subseteq r.mutations[k].edits
        <5>1. k \in 1..m /\ k \in DOMAIN muts
          BY <1>2, <3>4, <4>1, LenProperties
        <5>2. p = h + k /\ r.mutations[k] = [position |-> h + 1 + k - 1, edits |-> muts[k].edits]
          BY <1>2, <3>2, <3>4, <4>1, <5>1
        <5>3. QED
          BY <1>4, <5>1, <5>2
      <4>2. QED
        BY <3>3, <3>4, <4>1 DEF Complete
    <3>6. PublishedBy(b + 1, h)'
      BY <1>19, <1>20
    <3>7. PublishedBy(i, head - m)'
      <4>1. head - m = h
        BY <1>2
      <4>2. QED
        BY <3>3, <3>6, <4>1
    <3>8. position <= head
      BY <1>2, <1>20
    <3>9. PICK first : first = head - m
      OBVIOUS
    <3>10. PublishedBy(i, first)'
      BY <3>7, <3>9
    <3>11. QED
      BY <1>3, <1>4, <3>1, <3>2, <3>4, <3>5, <3>8, <3>9, <3>10 DEF ResultHolds, PublishedBy
  <2>5. QED
    BY <1>11, <2>1, <2>2, <2>3, <2>4
<1>24. \A i, j \in 1..d : i < j /\ IsCommit(i)' /\ ~IsAccount(j)' => results'[i].position <= results'[j].position
  <2> TAKE i, j \in 1..d
  <2> SUFFICES ASSUME i < j, IsCommit(i)', ~IsAccount(j)' PROVE results'[i].position <= results'[j].position
    OBVIOUS
  <2>1. CASE i \in 1..n /\ j \in 1..n
    <3>1. results[i].position <= results[j].position
      BY <1>5, <1>12, <1>20, <2>1 DEF ResultsHold
    <3>2. QED
      BY <1>6, <2>1, <3>1
  <2>2. CASE j \notin 1..n
    <3>1. results'[j].position = head
      BY <1>11, <1>13, <1>14, <1>15, <1>16, <2>2
    <3>2. CASE i \in 1..n
      <4>1. results[i].kind = "commit" /\ results'[i] = results[i] /\ results[i].position \in Nat
        BY <1>6, <1>12, <1>21, <3>2, ResultFields DEF IsCommit, Positions
      <4>2. results[i].position <= h
        BY <1>2, <1>21, <3>2, <4>1 DEF ResultHolds
      <4>3. QED
        BY <1>2, <3>1, <4>1, <4>2
    <3>3. CASE i \notin 1..n
      <4>1. results'[i].position = head
        BY <1>11, <1>13, <1>14, <1>15, <1>16, <3>3
      <4>2. QED
        BY <3>1, <4>1
    <3>4. QED
      BY <3>2, <3>3
  <2>3. i \in 1..n \/ j \notin 1..n
    OBVIOUS
  <2>4. QED
    BY <2>1, <2>2, <2>3
<1>25. PublishedBy(Len(results) + 1, Len(log))'
  <2>1. d + 1 - 1 = d /\ b + 1 - 1 = b /\ \A k \in (c + 1)..d : ~IsCommit(k)'
    BY <1>16
  <2>2. PublishedBy(d + 1, head)'
    <3>1. CASE m = 0
      <4>1. b = c /\ head = h
        BY <1>2, <1>4, <1>5, <3>1
      <4>2. PublishedBy(b + 1, head)'
        BY <1>19, <1>20, <4>1
      <4>3. CASE \E j \in 1..b : IsCommit(j)' /\ results'[j].position = head
                                /\ \A k \in (j + 1)..b : ~IsCommit(k)'
        <5>1. PICK j \in 1..b : IsCommit(j)' /\ results'[j].position = head
                                /\ \A k \in (j + 1)..b : ~IsCommit(k)'
          BY <4>3
        <5>2. j \in 1..d
          BY <1>5
        <5>3. \A k \in (j + 1)..d : ~IsCommit(k)'
          <6> TAKE k \in (j + 1)..d
          <6>1. k \in (j + 1)..b \/ k \in (c + 1)..d
            BY <4>1
          <6>2. QED
            BY <2>1, <5>1, <6>1
        <5>4. QED
          BY <2>1, <5>1, <5>2, <5>3 DEF PublishedBy
      <4>4. CASE position' = head /\ \A k \in 1..b : ~IsCommit(k)'
        <5>1. \A k \in 1..d : ~IsCommit(k)'
          <6> TAKE k \in 1..d
          <6>1. k \in 1..b \/ k \in (c + 1)..d
            BY <4>1
          <6>2. QED
            BY <2>1, <4>4, <6>1
        <5>2. QED
          BY <2>1, <4>4, <5>1 DEF PublishedBy
      <4>5. QED
        BY <2>1, <4>2, <4>3, <4>4 DEF PublishedBy
    <3>2. CASE m > 0
      <4>1. c = b + 1 /\ c \in (b + 1)..c /\ c \in 1..d
        BY <1>2, <1>4, <1>5, <3>2
      <4>2. IsCommit(c)' /\ results'[c].position = head
        BY <1>15, <4>1
      <4>3. QED
        BY <2>1, <4>1, <4>2 DEF PublishedBy
    <3>3. QED
      BY <3>1, <3>2
  <2>3. Len(results') + 1 = d + 1 /\ Len(log') = head
    BY <1>4, <1>5
  <2>4. QED
    BY <2>2, <2>3 DEF PublishedBy
<1>26. ResultsHold'
  BY <1>5, <1>22, <1>23, <1>24, <1>25 DEF ResultsHold
\* What the batch tells the connection.
<1>27. ASSUME conn # NoConn
       PROVE  /\ conn.id \notin Leaving
              /\ conn.id \in Asking =>
                   /\ pc = "wait" /\ conn.id \notin members
                   /\ \A k \in 1..n : ~MyView(k)
              /\ conn.id \in Admitted(valid) => conn.generation = valid
  BY <1>5, <1>20, <1>27, OwnRequests
<1>28. ASSUME conn # NoConn, NEW i \in 1..d, MyView(i)'
       PROVE  /\ results'[i].kind = "view" /\ results'[i].conn = conn.id
              /\ (i \in 1..n /\ MyView(i)) \/ i \in (a + 1)..b \/ i \in (c + 1)..d
              /\ i \in (a + 1)..b => conn.id \in Seeing(g, f) /\ conn.id \in members /\ conn.id \notin Asking
              /\ i \in (c + 1)..d => /\ conn.id \in Asking
                                     /\ results'[i].ok => conn.id \in Admitted(valid)
  <2>1. results'[i].kind = "view" /\ results'[i].conn = conn.id
    BY <1>17, <1>28
  <2>2. (i \in 1..n /\ MyView(i)) \/ i \in (a + 1)..b \/ i \in (c + 1)..d
    BY <1>11, <1>12, <1>13, <1>15, <1>28
  <2>3. ASSUME i \in (a + 1)..b
        PROVE  conn.id \in Seeing(g, f) /\ conn.id \in members /\ conn.id \notin Asking
    <3>1. conn.id \in Seeing(g, f)
      BY <1>14, <2>1, <2>3
    <3>2. conn.id \in members
      BY <3>1 DEF Seeing
    <3>3. QED
      BY <1>27, <1>28, <3>1, <3>2
  <2>4. ASSUME i \in (c + 1)..d
        PROVE  /\ conn.id \in Asking
               /\ results'[i].ok => conn.id \in Admitted(valid)
    BY <1>16, <2>1, <2>4
  <2>5. QED
    BY <2>1, <2>2, <2>3, <2>4
<1>29. RegistrationHolds'
  <2> SUFFICES ASSUME conn # NoConn PROVE RegistrationHolds'
    BY <1>3 DEF RegistrationHolds
  <2>1. ASSUME NEW i \in 1..d, NEW j \in 1..d, i < j, MyView(i)', MyView(j)'
        PROVE  ~results'[j].asked
    <3>1. CASE j \in 1..n
      <4>1. i \in 1..n
        BY <2>1, <3>1
      <4>2. MyView(i) /\ MyView(j)
        BY <1>12, <2>1, <3>1, <4>1
      <4>3. ~results[j].asked
        BY <1>5, <1>20, <2>1, <3>1, <4>1, <4>2 DEF RegistrationHolds
      <4>4. QED
        BY <1>6, <3>1, <4>3
    <3>2. CASE j \in (a + 1)..b
      BY <1>14, <3>2
    <3>3. CASE j \in (c + 1)..d
      <4>1. conn.id \in Asking /\ results'[j].conn = conn.id
        BY <1>28, <2>1, <3>3
      <4>2. conn.id \notin members /\ \A k \in 1..n : ~MyView(k)
        BY <1>27, <4>1
      <4>3. i \in (c + 1)..d /\ results'[i].conn = conn.id
        BY <1>28, <2>1, <4>1, <4>2
      <4>4. i = j
        BY <1>10, <3>3, <4>1, <4>3
      <4>5. QED
        BY <2>1, <4>4
    <3>4. QED
      BY <1>28, <2>1, <3>1, <3>2, <3>3
  <2>2. ASSUME NEW i \in 1..d, MyView(i)'
        PROVE  (results'[i].asked => pc = "wait") /\ (results'[i].ok => conn.id \in members')
    <3>1. CASE i \in 1..n /\ MyView(i)
      <4>1. (results[i].asked => pc = "wait") /\ (results[i].ok => conn.id \in members)
        BY <1>5, <1>20, <3>1 DEF RegistrationHolds
      <4>2. QED
        BY <1>1, <1>6, <1>27, <3>1, <4>1
    <3>2. CASE i \in (a + 1)..b
      BY <1>1, <1>14, <1>27, <1>28, <2>2, <3>2
    <3>3. CASE i \in (c + 1)..d
      BY <1>1, <1>27, <1>28, <2>2, <3>3
    <3>4. QED
      BY <1>28, <2>2, <3>1, <3>2, <3>3
  <2>3. ASSUME conn.active
        PROVE  conn.id \in members' /\ pc # "wait" /\ ~conn.revoked /\ conn.view \in SUBSET Slices
    BY <1>1, <1>20, <1>27, <2>3 DEF RegistrationHolds
  <2>4. DOMAIN requests' = {} /\ DOMAIN results' = 1..d /\ conn' = conn /\ pc' = pc
    BY <1>3, <1>5
  <2>5. QED
    BY <2>1, <2>2, <2>3, <2>4 DEF RegistrationHolds
<1>30. ASSUME conn # NoConn, conn.id \in members, \A k \in (a + 1)..b : ~MyView(k)'
       PROVE  g = grant
  <2>1. conn.id \notin Seeing(g, f)
    <3> SUFFICES ASSUME conn.id \in Seeing(g, f) PROVE FALSE
      OBVIOUS
    <3>1. PICK k \in (a + 1)..b : results'[k].conn = conn.id
      BY <1>8
    <3>2. results'[k].kind = "view" /\ k \in 1..d
      BY <1>5, <1>14
    <3>3. QED
      BY <1>17, <1>30, <3>1, <3>2
  <2>2. QED
    BY <1>27, <1>30, <2>1 DEF Seeing
<1>31. ASSUME NEW e \in b..d, NEW v \in SUBSET Slices, ViewBy(e + 1, v)'
       PROVE  v = g \cap Wants
  <2>1. e + 1 - 1 = e /\ n + 1 - 1 = n /\ \A k \in (a + 1)..b : k \in 1..e
    BY <1>5
  <2>2. \A w \in SUBSET Slices : ViewBy(n + 1, w) => w = grant \cap Wants
    BY <1>2, <1>20 DEF ViewsFollow
  <2>3. CASE \E j \in 1..e : /\ MyView(j)' /\ results'[j].ok /\ results'[j].grant \cap Wants = v
                             /\ \A k \in (j + 1)..e : ~MyView(k)'
    <3>1. PICK j \in 1..e : /\ MyView(j)' /\ results'[j].ok /\ results'[j].grant \cap Wants = v
                            /\ \A k \in (j + 1)..e : ~MyView(k)'
      BY <2>3
    <3>2. j \in 1..d /\ conn # NoConn
      BY <1>5, <1>17, <3>1
    <3>3. CASE j \in 1..n
      <4>1. /\ MyView(j) /\ results[j].ok /\ results[j].grant \cap Wants = v
            /\ \A k \in (j + 1)..n : ~MyView(k)
        <5>1. \A k \in (j + 1)..n : k \in 1..n /\ k \in (j + 1)..e
          BY <1>5
        <5>2. QED
          BY <1>6, <1>12, <3>1, <3>3, <5>1
      <4>2. ViewBy(n + 1, v)
        BY <3>3, <4>1, SeenLast
      <4>3. conn.id \in members
        BY <1>5, <1>20, <3>2, <3>3, <4>1 DEF RegistrationHolds
      <4>4. \A k \in (a + 1)..b : ~MyView(k)'
        <5>1. \A k \in (a + 1)..b : k \in (j + 1)..e
          BY <1>5, <3>3
        <5>2. QED
          BY <3>1, <5>1
      <4>5. QED
        BY <1>30, <2>2, <3>2, <4>2, <4>3, <4>4
    <3>4. CASE j \notin 1..n
      <4>1. j \in (a + 1)..b \/ j \in (c + 1)..d
        BY <1>28, <3>1, <3>2, <3>4
      <4>2. QED
        BY <1>14, <1>16, <3>1, <4>1
    <3>5. QED
      BY <3>3, <3>4
  <2>4. CASE conn # NoConn /\ conn.active /\ conn.view = v /\ \A k \in 1..e : ~MyView(k)'
    <3>1. \A k \in 1..n : ~MyView(k)
      <4>1. \A k \in 1..n : k \in 1..e
        BY <1>5
      <4>2. QED
        BY <1>12, <2>4, <4>1
    <3>2. ViewBy(n + 1, v)
      BY <2>1, <2>4, <3>1 DEF ViewBy
    <3>3. conn.id \in members
      BY <1>20, <2>4 DEF RegistrationHolds
    <3>4. QED
      BY <1>30, <2>1, <2>2, <2>4, <3>2, <3>3
  <2>5. QED
    BY <1>3, <1>31, <2>1, <2>3, <2>4 DEF ViewBy
<1>32. ViewsFollow'
  <2>1. ASSUME NEW i \in 1..d, NEW v \in SUBSET Slices, IsCommit(i)', ViewBy(i, v)'
        PROVE  v = grantAt'[results'[i].position] \cap Wants
    <3>1. CASE i \in 1..n
      <4>1. IsCommit(i) /\ results'[i] = results[i]
        BY <1>6, <1>12, <2>1, <3>1
      <4>2. ViewBy(i, v)
        <5>1. \A k \in 1..(i - 1) : k \in 1..n
          BY <3>1
        <5>2. \A j \in 1..(i - 1) : \A k \in (j + 1)..(i - 1) : k \in 1..n
          BY <3>1
        <5>3. QED
          BY <1>3, <1>6, <1>12, <2>1, <5>1, <5>2 DEF ViewBy
      <4>3. v = grantAt[results[i].position] \cap Wants
        BY <1>5, <1>20, <3>1, <4>1, <4>2 DEF ViewsFollow
      <4>4. results[i].position \in 1..h
        <5>1. PICK r : r = results[i]
          OBVIOUS
        <5>2. r.kind = "commit" /\ r.position \in Nat /\ r.mutations \in Seq(Mutation)
          BY <1>21, <3>1, <4>1, <5>1, ResultFields DEF IsCommit, Positions
        <5>3. r.position <= h /\ Complete(r)
          BY <1>2, <1>21, <3>1, <5>1, <5>2 DEF ResultHolds
        <5>4. Len(r.mutations) \in Nat /\ Len(r.mutations) > 0 /\ DOMAIN r.mutations = 1..Len(r.mutations)
          BY <5>2, <5>3, LenProperties DEF Complete
        <5>5. Len(r.mutations) \in DOMAIN r.mutations
              /\ r.position - Len(r.mutations) + Len(r.mutations) = r.position
          BY <5>2, <5>4
        <5>6. r.mutations[Len(r.mutations)].position = r.position
          BY <5>3, <5>5 DEF Complete
        <5>7. r.mutations[Len(r.mutations)] \in Mutation
          BY <5>2, <5>5
        <5>8. \A x \in Mutation : x.position \in 1..MaxPosition
          BY DEF Mutation
        <5>9. r.position \in 1..MaxPosition
          BY <5>6, <5>7, <5>8
        <5>10. QED
          BY <1>2, <5>1, <5>3, <5>9
      <4>5. QED
        BY <1>4, <4>1, <4>3, <4>4
    <3>2. CASE i \notin 1..n
      <4>1. i \in (b + 1)..c
        BY <1>11, <1>13, <1>14, <1>16, <2>1, <3>2
      <4>2. i = b + 1 /\ m > 0 /\ results'[i].position = head
        <5>1. i = b + 1 /\ muts # <<>>
          BY <1>5, <4>1
        <5>2. QED
          BY <1>4, <1>15, <4>1, <5>1
      <4>3. b \in b..d /\ head \in (h + 1)..head
        BY <1>2, <1>5, <4>2
      <4>4. PICK e \in b..d : e = b
        BY <4>3
      <4>5. ViewBy(e + 1, v)'
        BY <2>1, <4>2, <4>4
      <4>6. v = g \cap Wants
        BY <1>31, <2>1, <4>5
      <4>7. QED
        BY <1>4, <4>2, <4>3, <4>6
    <3>3. QED
      BY <3>1, <3>2
  <2>2. ASSUME NEW v \in SUBSET Slices, ViewBy(Len(results) + 1, v)'
        PROVE  v = grant' \cap Wants
    <3>1. PICK e \in b..d : e = d
      BY <1>5
    <3>2. Len(results') + 1 = e + 1
      BY <1>5, <3>1
    <3>3. ViewBy(e + 1, v)'
      BY <2>2, <3>2 DEF ViewBy
    <3>4. QED
      BY <1>3, <1>31, <3>3
  <2>3. QED
    BY <1>5, <2>1, <2>2 DEF ViewsFollow
<1>33. ASSUME NEW i \in 1..n, \A k \in 1..d : k > i => ~IsAccount(k)'
       PROVE  gen = generation /\ \A k \in 1..n : k > i => ~IsAccount(k)
  <2>1. gen = generation
    <3> SUFFICES ASSUME gen # generation PROVE FALSE
      OBVIOUS
    <3>1. a = n + 1 /\ a \in (n + 1)..a /\ a \in 1..d /\ a > i
      BY <1>5
    <3>2. QED
      BY <1>13, <1>33, <3>1
  <2>2. \A k \in 1..n : k \in 1..d
    BY <1>5
  <2>3. QED
    BY <1>12, <1>33, <2>1, <2>2
<1>34. GenerationsFollow'
  <2>1. ASSUME NEW i \in 1..d, IsAccount(i)', \A k \in 1..d : k > i => ~IsAccount(k)'
        PROVE  results'[i].generation = gen
    <3>1. CASE i \in 1..n
      <4>1. gen = generation /\ \A k \in 1..n : k > i => ~IsAccount(k)
        BY <1>33, <2>1, <3>1
      <4>2. IsAccount(i) /\ results'[i] = results[i]
        BY <1>6, <1>12, <2>1, <3>1
      <4>3. QED
        BY <1>5, <1>20, <3>1, <4>1, <4>2 DEF GenerationsFollow
    <3>2. CASE i \in (n + 1)..a
      BY <1>13, <3>2
    <3>3. QED
      BY <1>11, <1>14, <1>15, <1>16, <2>1, <3>1, <3>2
  <2>2. ASSUME NEW i \in 1..d, MyView(i)', results'[i].asked, results'[i].ok,
               \A k \in 1..d : k > i => ~IsAccount(k)'
        PROVE  \/ conn.generation = gen \/ conn.revoked
               \/ \E k \in 1..d : k < i /\ IsAccount(k)' /\ results'[k].generation # conn.generation
    <3>1. conn # NoConn
      BY <1>17, <2>2
    <3>2. CASE i \in 1..n /\ MyView(i)
      <4>1. gen = generation /\ \A k \in 1..n : k > i => ~IsAccount(k)
        BY <1>33, <2>2, <3>2
      <4>2. MyView(i) /\ results[i].asked /\ results[i].ok
        BY <1>6, <2>2, <3>2
      <4>3. \/ conn.generation = generation \/ conn.revoked
            \/ \E k \in 1..n : k < i /\ IsAccount(k) /\ results[k].generation # conn.generation
        BY <1>5, <1>20, <3>2, <4>1, <4>2 DEF GenerationsFollow
      <4>4. ASSUME NEW k \in 1..n, k < i, IsAccount(k), results[k].generation # conn.generation
            PROVE  k \in 1..d /\ IsAccount(k)' /\ results'[k].generation # conn.generation
        BY <1>5, <1>6, <1>12, <4>4
      <4>5. QED
        BY <4>1, <4>3, <4>4
    <3>3. CASE i \in (c + 1)..d
      <4>1. conn.generation = valid
        BY <1>27, <1>28, <2>2, <3>1, <3>3
      <4>2. CASE valid # gen
        <5>1. gen # generation /\ conn.generation = generation
          BY <4>1, <4>2
        <5>2. a \in (n + 1)..a /\ a \in 1..d /\ a < i
          BY <1>5, <3>3, <5>1
        <5>3. IsAccount(a)' /\ results'[a].generation = gen
          BY <1>13, <5>2
        <5>4. QED
          BY <5>1, <5>2, <5>3
      <4>3. QED
        BY <4>1, <4>2
    <3>4. i \notin (a + 1)..b
      BY <1>14, <2>2
    <3>5. QED
      BY <1>28, <2>2, <3>1, <3>2, <3>3, <3>4
  <2>3. conn' = conn /\ generation' = gen /\ DOMAIN results' = 1..d
    BY <1>3, <1>5
  <2>4. QED
    BY <2>1, <2>2, <2>3 DEF GenerationsFollow
<1>35. PublishedViewIsCurrent'
  <2> SUFFICES ASSUME conn # NoConn, conn.active, position > 0
               PROVE  \E q \in position..head : conn.view = grantAt'[q] \cap Wants
    BY <1>3, <1>4 DEF PublishedViewIsCurrent
  <2>1. PICK q \in position..h : conn.view = grantAt[q] \cap Wants
    BY <1>2 DEF CoreInv, PublishedViewIsCurrent
  <2>2. q \in 1..h /\ q \in position..head
    BY <1>2, <1>20
  <2>3. QED
    BY <1>4, <2>1, <2>2
<1>36. NoStaleTokenStreams'
  <2> SUFFICES ASSUME conn # NoConn, conn.active, \A i \in 1..d : results'[i].kind # "account"
               PROVE  conn.generation = gen
    BY <1>3, <1>5 DEF NoStaleTokenStreams
  <2>1. gen = generation
    <3> SUFFICES ASSUME gen # generation PROVE FALSE
      OBVIOUS
    <3>1. a \in (n + 1)..a /\ a \in 1..d
      BY <1>5
    <3>2. QED
      BY <1>13, <3>1
  <2>2. \A i \in 1..n : results[i].kind # "account"
    <3>1. \A i \in 1..n : i \in 1..d
      BY <1>5
    <3>2. QED
      BY <1>6, <3>1
  <2>3. QED
    BY <1>5, <2>1, <2>2 DEF CoreInv, NoStaleTokenStreams
<1>37. QED
  BY <1>26, <1>29, <1>32, <1>34, <1>35, <1>36 DEF CoreInv

-----------------------------------------------------------------------------
(* The frames.                                                             *)

\* The data of a sequence of frames.
LEMMA FrameData ==
  ASSUME NEW F \in Seq(Frame)
  PROVE  /\ Len(F) \in Nat /\ DOMAIN F = 1..Len(F)
         /\ \A k \in DOMAIN F : IsViewFrame(F, k) => F[k].pos \in Nat /\ F[k].view \in SUBSET Slices
         /\ \A k \in DOMAIN F : IsCommitFrame(F, k) =>
              /\ F[k].mutations \in Seq(Mutation)
              /\ \A i \in DOMAIN F[k].mutations : /\ F[k].mutations[i].position \in 1..MaxPosition
                                                  /\ F[k].mutations[i].position \in Nat
                                                  /\ F[k].mutations[i].edits \in SUBSET Slices
<1>1. Len(F) \in Nat /\ DOMAIN F = 1..Len(F)
  BY LenProperties
<1>2. ASSUME NEW k \in DOMAIN F, IsViewFrame(F, k)
      PROVE  F[k].pos \in Nat /\ F[k].view \in SUBSET Slices
  <2>1. F[k] \in Frame /\ F[k].kind = "view"
    BY <1>2 DEF IsViewFrame
  <2>2. QED
    BY <2>1, FrameFields, StreamAssumption DEF Positions
<1>3. ASSUME NEW k \in DOMAIN F, IsCommitFrame(F, k)
      PROVE  /\ F[k].mutations \in Seq(Mutation)
             /\ \A i \in DOMAIN F[k].mutations : /\ F[k].mutations[i].position \in 1..MaxPosition
                                                 /\ F[k].mutations[i].position \in Nat
                                                 /\ F[k].mutations[i].edits \in SUBSET Slices
  <2>1. F[k] \in Frame /\ F[k].kind = "commit"
    BY <1>3 DEF IsCommitFrame
  <2>2. F[k].mutations \in Seq(Mutation)
    BY <2>1, FrameFields
  <2>3. \A i \in DOMAIN F[k].mutations : F[k].mutations[i] \in Mutation
    BY <2>2
  <2>4. \A x \in Mutation : x.position \in 1..MaxPosition /\ x.position \in Nat /\ x.edits \in SUBSET Slices
    BY StreamAssumption DEF Mutation
  <2>5. QED
    BY <2>2, <2>3, <2>4
<1>4. QED
  BY <1>1, <1>2, <1>3

\* No frame.
LEMMA NoFrames ==
  /\ InOrder(<<>>) /\ ~HasEnd(<<>>)
  /\ \A p : CommitsPast(<<>>, p) /\ ViewsFrom(<<>>, p) /\ CommitsTo(<<>>, p) /\ ViewsTo(<<>>, p)
  /\ \A from, view : Leads(<<>>, from, view) <=> from = view
<1>1. DOMAIN <<>> = {}
  OBVIOUS
<1>2. QED
  BY <1>1 DEF InOrder, HasEnd, CommitsPast, ViewsFrom, CommitsTo, ViewsTo, Leads

\* The backlog and what was taken of it.
LEMMA FramesAre ==
  ASSUME TypeOK, conn # NoConn
  PROVE  /\ Frames \in Seq(Frame) /\ taken \in Seq(Frame) /\ conn.backlog \in Seq(Frame)
         /\ taken = <<>> => Frames = conn.backlog
         /\ conn.backlog = <<>> => Frames = taken
<1>1. Frames \in Seq(Frame) /\ taken \in Seq(Frame) /\ conn.backlog \in Seq(Frame)
  BY EntryType
<1>2. \A s \in Seq(Frame) : s \o <<>> = s /\ <<>> \o s = s
  OBVIOUS
<1>3. QED
  BY <1>1, <1>2 DEF Frames

-----------------------------------------------------------------------------
(* A frame is queued behind the others.                                    *)

Grown(F, G, f) ==
  /\ Len(G) = Len(F) + 1 /\ G[Len(F) + 1] = f /\ \A k \in DOMAIN F : G[k] = F[k]

\* A frame appended grows a sequence of frames.
LEMMA AppendGrows ==
  ASSUME NEW F \in Seq(Frame), NEW f \in Frame
  PROVE  Append(F, f) \in Seq(Frame) /\ Grown(F, Append(F, f), f)
<1>1. \A S, s, x : s \in Seq(S) /\ x \in S => /\ Append(s, x) \in Seq(S) /\ Len(Append(s, x)) = Len(s) + 1
                                            /\ Append(s, x)[Len(s) + 1] = x
                                            /\ \A k \in DOMAIN s : Append(s, x)[k] = s[k]
  OBVIOUS
<1>2. QED
  BY <1>1 DEF Grown

\* Its frames are those before, and the new one last.
LEMMA GrownParts ==
  ASSUME NEW F \in Seq(Frame), NEW G \in Seq(Frame), NEW f, Grown(F, G, f)
  PROVE  /\ \A k \in DOMAIN F : /\ k \in DOMAIN G /\ G[k] = F[k]
                                /\ (IsViewFrame(G, k) <=> IsViewFrame(F, k))
                                /\ (IsCommitFrame(G, k) <=> IsCommitFrame(F, k))
                                /\ (IsEnd(G, k) <=> IsEnd(F, k))
         /\ \A k \in DOMAIN G : k \in DOMAIN F \/ (k = Len(F) + 1 /\ G[k] = f)
         /\ Len(F) + 1 \in DOMAIN G /\ G[Len(F) + 1] = f /\ Len(F) + 1 \notin DOMAIN F
         /\ \A k \in DOMAIN F : k < Len(F) + 1
<1>1. PICK n \in Nat : n = Len(F) /\ DOMAIN F = 1..n /\ DOMAIN G = 1..n + 1
  BY LenProperties DEF Grown
<1>2. G[n + 1] = f /\ \A k \in 1..n : G[k] = F[k]
  BY <1>1 DEF Grown
<1>3. \A k \in 1..n : k \in 1..n + 1
  OBVIOUS
<1>4. \A k \in 1..n + 1 : k \in 1..n \/ k = n + 1
  OBVIOUS
<1>5. QED
  BY <1>1, <1>2, <1>3, <1>4 DEF IsViewFrame, IsCommitFrame, IsEnd

\* They stay in order, when the new one is not behind the published position.
LEMMA GrownInOrder ==
  ASSUME NEW F \in Seq(Frame), NEW G \in Seq(Frame), NEW f \in Frame, Grown(F, G, f),
         InOrder(F), ~HasEnd(F), NEW q \in Nat, CommitsTo(F, q), ViewsTo(F, q),
         f.kind = "view" => f.pos = q,
         f.kind = "commit" =>
           /\ f.mutations # <<>>
           /\ \A i \in DOMAIN f.mutations : q < f.mutations[i].position
           /\ \A i, j \in DOMAIN f.mutations : i < j => f.mutations[i].position < f.mutations[j].position
  PROVE  InOrder(G)
<1>1. /\ \A k \in DOMAIN F : /\ k \in DOMAIN G /\ G[k] = F[k]
                             /\ (IsViewFrame(G, k) <=> IsViewFrame(F, k))
                             /\ (IsCommitFrame(G, k) <=> IsCommitFrame(F, k))
                             /\ (IsEnd(G, k) <=> IsEnd(F, k))
      /\ \A k \in DOMAIN G : k \in DOMAIN F \/ (k = Len(F) + 1 /\ G[k] = f)
      /\ \A k \in DOMAIN F : k < Len(F) + 1
  BY GrownParts
<1>2. Len(F) \in Nat /\ DOMAIN F \subseteq Nat
  BY FrameData
<1>3. ASSUME NEW k \in DOMAIN G, NEW l \in DOMAIN G, k < l
      PROVE  /\ ~IsEnd(G, k)
             /\ IsViewFrame(G, k) /\ IsCommitFrame(G, l) =>
                  \A j \in DOMAIN G[l].mutations : G[k].pos < G[l].mutations[j].position
             /\ IsCommitFrame(G, k) /\ IsViewFrame(G, l) =>
                  \A i \in DOMAIN G[k].mutations : G[k].mutations[i].position <= G[l].pos
             /\ IsCommitFrame(G, k) /\ IsCommitFrame(G, l) =>
                  \A i \in DOMAIN G[k].mutations, j \in DOMAIN G[l].mutations :
                    G[k].mutations[i].position < G[l].mutations[j].position
  <2>1. k \in DOMAIN F
    BY <1>1, <1>2, <1>3
  <2>2. CASE l \in DOMAIN F
    BY <1>1, <1>3, <2>1, <2>2 DEF InOrder
  <2>3. CASE l \notin DOMAIN F
    <3>1. G[l] = f /\ G[k] = F[k]
      BY <1>1, <2>1, <2>3
    <3>2. ~IsEnd(G, k)
      BY <1>1, <2>1 DEF HasEnd
    <3>3. IsViewFrame(G, k) => F[k].pos <= q /\ F[k].pos \in Nat
      BY <1>1, <2>1, FrameData DEF ViewsTo
    <3>4. IsCommitFrame(G, k) => \A i \in DOMAIN F[k].mutations :
             F[k].mutations[i].position <= q /\ F[k].mutations[i].position \in Nat
      BY <1>1, <2>1, FrameData DEF CommitsTo
    <3>5. IsViewFrame(G, l) => f.pos = q
      BY <3>1 DEF IsViewFrame
    <3>6. IsCommitFrame(G, l) => \A i \in DOMAIN f.mutations :
             q < f.mutations[i].position /\ f.mutations[i].position \in Nat
      <4>1. IsCommitFrame(G, l) => f.kind = "commit"
        BY <3>1 DEF IsCommitFrame
      <4>2. IsCommitFrame(G, l) => \A i \in DOMAIN G[l].mutations : G[l].mutations[i].position \in Nat
        BY FrameData
      <4>3. QED
        BY <3>1, <4>1, <4>2
    <3>7. IsViewFrame(G, k) /\ IsCommitFrame(G, l) =>
             \A j \in DOMAIN G[l].mutations : G[k].pos < G[l].mutations[j].position
      BY <3>1, <3>3, <3>6
    <3>8. IsCommitFrame(G, k) /\ IsViewFrame(G, l) =>
             \A i \in DOMAIN G[k].mutations : G[k].mutations[i].position <= G[l].pos
      BY <3>1, <3>4, <3>5
    <3>9. IsCommitFrame(G, k) /\ IsCommitFrame(G, l) =>
             \A i \in DOMAIN G[k].mutations, j \in DOMAIN G[l].mutations :
               G[k].mutations[i].position < G[l].mutations[j].position
      BY <3>1, <3>4, <3>6
    <3>10. QED
      BY <3>2, <3>7, <3>8, <3>9
  <2>4. QED
    BY <2>2, <2>3
<1>4. ASSUME NEW k \in DOMAIN G, IsCommitFrame(G, k)
      PROVE  /\ G[k].mutations # <<>>
             /\ \A i, j \in DOMAIN G[k].mutations :
                  i < j => G[k].mutations[i].position < G[k].mutations[j].position
  <2>1. CASE k \in DOMAIN F
    BY <1>1, <1>4, <2>1 DEF InOrder
  <2>2. CASE k \notin DOMAIN F
    <3>1. G[k] = f /\ f.kind = "commit"
      BY <1>1, <1>4, <2>2 DEF IsCommitFrame
    <3>2. QED
      BY <3>1
  <2>3. QED
    BY <2>1, <2>2
<1>5. QED
  BY <1>3, <1>4 DEF InOrder

\* What the frame behind the others leaves of what is said of them.
LEMMA GrownKeeps ==
  ASSUME NEW F \in Seq(Frame), NEW G \in Seq(Frame), NEW f \in Frame, Grown(F, G, f)
  PROVE  /\ HasEnd(G) <=> HasEnd(F) \/ f.kind = "end"
         /\ \A p : CommitsPast(F, p)
                   /\ (f.kind = "commit" => \A i \in DOMAIN f.mutations : p < f.mutations[i].position)
              => CommitsPast(G, p)
         /\ \A p : CommitsTo(F, p)
                   /\ (f.kind = "commit" => \A i \in DOMAIN f.mutations : f.mutations[i].position <= p)
              => CommitsTo(G, p)
         /\ \A p : ViewsFrom(F, p) /\ (f.kind = "view" => p <= f.pos) => ViewsFrom(G, p)
         /\ \A p : ViewsFrom(G, p) => ViewsFrom(F, p)
         /\ \A p : ViewsTo(F, p) /\ (f.kind = "view" => f.pos <= p) => ViewsTo(G, p)
         /\ \A s, p : Carries(F, s, p) => Carries(G, s, p)
         /\ \A from, view : f.kind # "view" /\ Leads(F, from, view) => Leads(G, from, view)
         /\ \A from : f.kind = "view" => Leads(G, from, f.view)
<1>1. /\ \A k \in DOMAIN F : /\ k \in DOMAIN G /\ G[k] = F[k]
                             /\ (IsViewFrame(G, k) <=> IsViewFrame(F, k))
                             /\ (IsCommitFrame(G, k) <=> IsCommitFrame(F, k))
                             /\ (IsEnd(G, k) <=> IsEnd(F, k))
      /\ \A k \in DOMAIN G : k \in DOMAIN F \/ (k = Len(F) + 1 /\ G[k] = f)
      /\ Len(F) + 1 \in DOMAIN G /\ G[Len(F) + 1] = f
      /\ \A k \in DOMAIN F : k < Len(F) + 1
  BY GrownParts
<1>2. HasEnd(G) <=> HasEnd(F) \/ f.kind = "end"
  <2>1. HasEnd(F) => HasEnd(G)
    BY <1>1 DEF HasEnd
  <2>2. f.kind = "end" => HasEnd(G)
    BY <1>1 DEF HasEnd, IsEnd
  <2>3. HasEnd(G) => HasEnd(F) \/ f.kind = "end"
    BY <1>1 DEF HasEnd, IsEnd
  <2>4. QED
    BY <2>1, <2>2, <2>3
<1>3. ASSUME NEW p, CommitsPast(F, p),
             f.kind = "commit" => \A i \in DOMAIN f.mutations : p < f.mutations[i].position
      PROVE  CommitsPast(G, p)
  BY <1>1, <1>3 DEF CommitsPast, IsCommitFrame
<1>4. ASSUME NEW p, CommitsTo(F, p),
             f.kind = "commit" => \A i \in DOMAIN f.mutations : f.mutations[i].position <= p
      PROVE  CommitsTo(G, p)
  BY <1>1, <1>4 DEF CommitsTo, IsCommitFrame
<1>5. ASSUME NEW p, ViewsFrom(F, p), f.kind = "view" => p <= f.pos
      PROVE  ViewsFrom(G, p)
  BY <1>1, <1>5 DEF ViewsFrom, IsViewFrame
<1>6. ASSUME NEW p, ViewsFrom(G, p)
      PROVE  ViewsFrom(F, p)
  BY <1>1, <1>6 DEF ViewsFrom
<1>7. ASSUME NEW p, ViewsTo(F, p), f.kind = "view" => f.pos <= p
      PROVE  ViewsTo(G, p)
  BY <1>1, <1>7 DEF ViewsTo, IsViewFrame
<1>8. ASSUME NEW s, NEW p, Carries(F, s, p)
      PROVE  Carries(G, s, p)
  BY <1>1, <1>8 DEF Carries
<1>9. ASSUME NEW from, NEW view, f.kind # "view", Leads(F, from, view)
      PROVE  Leads(G, from, view)
  <2>1. \A k \in DOMAIN G : IsViewFrame(G, k) => k \in DOMAIN F /\ IsViewFrame(F, k)
    BY <1>1, <1>9 DEF IsViewFrame
  <2>2. QED
    BY <1>1, <1>9, <2>1 DEF Leads
<1>10. ASSUME NEW from, f.kind = "view"
       PROVE  Leads(G, from, f.view)
  <2>1. IsViewFrame(G, Len(F) + 1)
    BY <1>1, <1>10 DEF IsViewFrame
  <2>2. Len(F) \in Nat /\ DOMAIN F \subseteq Nat
    BY FrameData
  <2>3. \A l \in DOMAIN G : ~(l > Len(F) + 1)
    BY <1>1, <2>2
  <2>4. QED
    BY <1>1, <2>1, <2>3 DEF Leads
<1>11. QED
  BY <1>2, <1>3, <1>4, <1>5, <1>6, <1>7, <1>8, <1>9, <1>10

\* A frame that ends the others, or a view as of a position at or past p, brings
\* no less.
LEMMA GrownBrings ==
  ASSUME NEW F \in Seq(Frame), NEW G \in Seq(Frame), NEW f \in Frame, Grown(F, G, f),
         NEW p \in Nat, f.kind = "view" => p <= f.pos, NEW view, NEW edits, NEW covered,
         Brings(F, view, p, edits, covered)
  PROVE  Brings(G, view, p, edits, covered)
<1>1. /\ \A k \in DOMAIN F : /\ k \in DOMAIN G /\ G[k] = F[k]
                             /\ (IsViewFrame(G, k) <=> IsViewFrame(F, k))
      /\ \A k \in DOMAIN G : k \in DOMAIN F \/ (k = Len(F) + 1 /\ G[k] = f)
  BY GrownParts
<1>2. \A s, q : Carries(F, s, q) => Carries(G, s, q)
  BY GrownKeeps
<1>3. ViewsFrom(G, p) => ViewsFrom(F, p)
  BY GrownKeeps
<1>4. ASSUME NEW k \in DOMAIN G, Governs(G, k, p)
      PROVE  k \in DOMAIN F /\ G[k] = F[k] /\ Governs(F, k, p)
  <2>1. k \in DOMAIN F
    <3> SUFFICES ASSUME k \notin DOMAIN F PROVE FALSE
      OBVIOUS
    <3>1. f.kind = "view" /\ f.pos < p
      BY <1>1, <1>4 DEF Governs, IsViewFrame
    <3>2. f.pos \in Nat
      BY <3>1, FrameFields, StreamAssumption DEF Positions
    <3>3. QED
      BY <3>1, <3>2
  <2>2. QED
    BY <1>1, <1>4, <2>1 DEF Governs
<1>5. QED
  BY <1>2, <1>3, <1>4 DEF Brings

-----------------------------------------------------------------------------
(* The first frame is written, or the first mutation of a commit's.        *)

\* What is left of a frame.
Rest(f, g) ==
  /\ g.kind = f.kind
  /\ g.kind = "view" => g = f
  /\ g.kind = "commit" =>
       /\ g.mutations # <<>>
       /\ \E t \in Nat : \A i \in DOMAIN g.mutations :
            i + t \in DOMAIN f.mutations /\ g.mutations[i] = f.mutations[i + t]

\* G is what is left of F, and nothing but the first of the first frame is gone.
Advances(F, G, d) ==
  /\ \A k \in DOMAIN G : k + d \in DOMAIN F /\ Rest(F[k + d], G[k])
  /\ \A k \in DOMAIN F : k # 1 => k - d \in DOMAIN G /\ G[k - d] = F[k]
  /\ F[1].kind # "end"
  /\ F[1].kind = "view" => d = 1
  /\ F[1].kind = "commit" => \A i \in DOMAIN F[1].mutations : i # 1 =>
       /\ d = 0 /\ 1 \in DOMAIN G /\ G[1].kind = "commit"
       /\ i - 1 \in DOMAIN G[1].mutations /\ G[1].mutations[i - 1] = F[1].mutations[i]

\* The head of a sequence of frames goes.
LEMMA PopAdvances ==
  ASSUME NEW F \in Seq(Frame), F # <<>>, InOrder(F), F[1].kind # "end",
         F[1].kind = "commit" => Len(F[1].mutations) <= 1
  PROVE  Tail(F) \in Seq(Frame) /\ Advances(F, Tail(F), 1)
<1>1. PICK n \in Nat, G \in Seq(Frame) :
        /\ G = Tail(F) /\ DOMAIN F = 1..n + 1 /\ DOMAIN G = 1..n
        /\ \A k \in 1..n : G[k] = F[k + 1]
  <2>1. Len(F) \in Nat \ {0} /\ DOMAIN F = 1..Len(F)
    BY EmptySeq, LenProperties
  <2>2. /\ Tail(F) \in Seq(Frame) /\ Len(Tail(F)) = Len(F) - 1
        /\ \A i \in 1..Len(Tail(F)) : Tail(F)[i] = F[i + 1]
    BY HeadTailProperties
  <2>3. DOMAIN Tail(F) = 1..Len(Tail(F))
    BY <2>2, LenProperties
  <2>4. Len(F) - 1 \in Nat /\ Len(F) - 1 + 1 = Len(F)
    BY <2>1
  <2>5. QED
    BY <2>1, <2>2, <2>3, <2>4
<1>2. ASSUME NEW k \in DOMAIN G
      PROVE  k + 1 \in DOMAIN F /\ Rest(F[k + 1], G[k])
  <2>1. k + 1 \in DOMAIN F /\ G[k] = F[k + 1]
    BY <1>1
  <2>2. G[k].kind = "commit" => G[k].mutations # <<>>
    BY <2>1 DEF InOrder, IsCommitFrame
  <2>3. G[k].kind = "commit" => \A i \in DOMAIN G[k].mutations : i + 0 \in DOMAIN G[k].mutations /\ i + 0 = i
    <3> SUFFICES ASSUME G[k].kind = "commit", NEW i \in DOMAIN G[k].mutations PROVE i + 0 = i
      OBVIOUS
    <3>1. IsCommitFrame(G, k)
      BY DEF IsCommitFrame
    <3>2. i \in Nat
      <4>1. G[k].mutations \in Seq(Mutation)
        BY <3>1, FrameData
      <4>2. QED
        BY <4>1
    <3>3. QED
      BY <3>2
  <2>4. QED
    BY <2>1, <2>2, <2>3 DEF Rest
<1>3. ASSUME NEW k \in DOMAIN F, k # 1
      PROVE  k - 1 \in DOMAIN G /\ G[k - 1] = F[k]
  BY <1>1, <1>3
<1>4. F[1].kind = "commit" => \A i \in DOMAIN F[1].mutations : i = 1
  <2> SUFFICES ASSUME F[1].kind = "commit", NEW i \in DOMAIN F[1].mutations PROVE i = 1
    OBVIOUS
  <2>1. 1 \in DOMAIN F
    BY <1>1
  <2>2. IsCommitFrame(F, 1)
    BY <2>1 DEF IsCommitFrame
  <2>3. F[1].mutations \in Seq(Mutation)
    BY <2>1, <2>2, FrameData
  <2>4. i \in 1..Len(F[1].mutations) /\ Len(F[1].mutations) \in Nat
    BY <2>3, LenProperties
  <2>5. QED
    BY <2>4
<1>5. QED
  BY <1>1, <1>2, <1>3, <1>4 DEF Advances

\* The head of the mutations of the first frame goes.
LEMMA CutAdvances ==
  ASSUME NEW F \in Seq(Frame), F # <<>>, InOrder(F), F[1].kind = "commit", NEW G \in Seq(Frame),
         DOMAIN G = DOMAIN F, Tail(F[1].mutations) # <<>>,
         G[1] = [kind |-> "commit", mutations |-> Tail(F[1].mutations)],
         \A k \in DOMAIN F : k # 1 => G[k] = F[k]
  PROVE  Advances(F, G, 0)
<1>1. 1 \in DOMAIN F /\ DOMAIN F \subseteq Nat
  BY EmptySeq, LenProperties
<1>2. IsCommitFrame(F, 1)
  BY <1>1 DEF IsCommitFrame
<1>3. PICK ms \in Seq(Mutation) : ms = F[1].mutations
  BY <1>1, <1>2, FrameData
<1>4. ms # <<>>
  BY <1>1, <1>2, <1>3 DEF InOrder
<1>5. /\ DOMAIN ms \subseteq Nat
      /\ \A i \in DOMAIN Tail(ms) : i + 1 \in DOMAIN ms /\ Tail(ms)[i] = ms[i + 1]
      /\ \A i \in DOMAIN ms : i # 1 => i - 1 \in DOMAIN Tail(ms) /\ Tail(ms)[i - 1] = ms[i]
  BY <1>4
<1>6. G[1].kind = "commit" /\ G[1].mutations = Tail(ms) /\ Tail(ms) # <<>>
  BY <1>3
<1>7. Rest(F[1], G[1])
  <2>1. \A i \in DOMAIN G[1].mutations :
          i + 1 \in DOMAIN F[1].mutations /\ G[1].mutations[i] = F[1].mutations[i + 1]
    BY <1>3, <1>5, <1>6
  <2>2. 1 \in Nat /\ G[1].kind = F[1].kind /\ G[1].kind = "commit"
    BY <1>6
  <2>3. QED
    BY <1>6, <2>1, <2>2 DEF Rest
<1>8. ASSUME NEW k \in DOMAIN G, k # 1 PROVE Rest(F[k], G[k])
  <2>1. k \in DOMAIN F /\ G[k] = F[k]
    BY <1>8
  <2>2. G[k].kind = "commit" => G[k].mutations # <<>>
    BY <2>1 DEF InOrder, IsCommitFrame
  <2>3. G[k].kind = "commit" => \A i \in DOMAIN G[k].mutations : i + 0 \in DOMAIN G[k].mutations /\ i + 0 = i
    <3> SUFFICES ASSUME G[k].kind = "commit", NEW i \in DOMAIN G[k].mutations PROVE i + 0 = i
      OBVIOUS
    <3>1. IsCommitFrame(G, k)
      BY DEF IsCommitFrame
    <3>2. i \in Nat
      <4>1. G[k].mutations \in Seq(Mutation)
        BY <3>1, FrameData
      <4>2. QED
        BY <4>1
    <3>3. QED
      BY <3>2
  <2>4. QED
    BY <2>1, <2>2, <2>3 DEF Rest
<1>9. \A k \in DOMAIN G : k + 0 = k /\ k - 0 = k
  BY <1>1
<1>10. ASSUME NEW k \in DOMAIN G PROVE k + 0 \in DOMAIN F /\ Rest(F[k + 0], G[k])
  BY <1>7, <1>8, <1>9
<1>11. ASSUME NEW k \in DOMAIN F, k # 1 PROVE k - 0 \in DOMAIN G /\ G[k - 0] = F[k]
  BY <1>9, <1>11
<1>12. ASSUME NEW i \in DOMAIN F[1].mutations, i # 1
       PROVE  i - 1 \in DOMAIN G[1].mutations /\ G[1].mutations[i - 1] = F[1].mutations[i]
  BY <1>3, <1>5, <1>6, <1>12
<1>13. QED
  BY <1>1, <1>10, <1>11, <1>12 DEF Advances

\* What is left is in order, and says no more than what it is left of.
LEMMA AdvanceKeeps ==
  ASSUME NEW F \in Seq(Frame), NEW G \in Seq(Frame), NEW d \in {0, 1}, Advances(F, G, d), InOrder(F)
  PROVE  /\ InOrder(G) /\ (HasEnd(G) <=> HasEnd(F))
         /\ \A p : CommitsPast(F, p) => CommitsPast(G, p)
         /\ \A p : CommitsTo(F, p) => CommitsTo(G, p)
         /\ \A p : ViewsTo(F, p) => ViewsTo(G, p)
<1>1. /\ DOMAIN F \subseteq Nat /\ DOMAIN G \subseteq Nat
      /\ \A k, l \in DOMAIN G : k < l => k + d < l + d
  BY FrameData
<1>2. ASSUME NEW k \in DOMAIN G
      PROVE  /\ k + d \in DOMAIN F
             /\ IsEnd(G, k) <=> IsEnd(F, k + d)
             /\ IsViewFrame(G, k) => IsViewFrame(F, k + d) /\ G[k] = F[k + d]
             /\ IsCommitFrame(G, k) => /\ IsCommitFrame(F, k + d) /\ G[k].mutations # <<>>
                                       /\ \A i \in DOMAIN G[k].mutations : \E j \in DOMAIN F[k + d].mutations :
                                            G[k].mutations[i] = F[k + d].mutations[j]
  <2>1. k + d \in DOMAIN F /\ Rest(F[k + d], G[k])
    BY DEF Advances
  <2>2. QED
    BY <2>1 DEF Rest, IsEnd, IsViewFrame, IsCommitFrame
<1>3. ASSUME NEW k \in DOMAIN G, NEW l \in DOMAIN G, k < l
      PROVE  /\ ~IsEnd(G, k)
             /\ IsViewFrame(G, k) /\ IsCommitFrame(G, l) =>
                  \A j \in DOMAIN G[l].mutations : G[k].pos < G[l].mutations[j].position
             /\ IsCommitFrame(G, k) /\ IsViewFrame(G, l) =>
                  \A i \in DOMAIN G[k].mutations : G[k].mutations[i].position <= G[l].pos
             /\ IsCommitFrame(G, k) /\ IsCommitFrame(G, l) =>
                  \A i \in DOMAIN G[k].mutations, j \in DOMAIN G[l].mutations :
                    G[k].mutations[i].position < G[l].mutations[j].position
  <2>1. PICK K \in DOMAIN F, L \in DOMAIN F : K = k + d /\ L = l + d /\ K < L
    BY <1>1, <1>2, <1>3
  <2>2. ~IsEnd(F, K)
    BY <2>1 DEF InOrder
  <2>3. IsViewFrame(F, K) /\ IsCommitFrame(F, L) =>
          \A j \in DOMAIN F[L].mutations : F[K].pos < F[L].mutations[j].position
    BY <2>1 DEF InOrder
  <2>4. IsCommitFrame(F, K) /\ IsViewFrame(F, L) =>
          \A i \in DOMAIN F[K].mutations : F[K].mutations[i].position <= F[L].pos
    BY <2>1 DEF InOrder
  <2>5. IsCommitFrame(F, K) /\ IsCommitFrame(F, L) =>
          \A i \in DOMAIN F[K].mutations, j \in DOMAIN F[L].mutations :
            F[K].mutations[i].position < F[L].mutations[j].position
    BY <2>1 DEF InOrder
  <2>6. IsViewFrame(G, k) /\ IsCommitFrame(G, l) =>
          \A j \in DOMAIN G[l].mutations : G[k].pos < G[l].mutations[j].position
    BY <1>2, <2>1, <2>3
  <2>7. IsCommitFrame(G, k) /\ IsViewFrame(G, l) =>
          \A i \in DOMAIN G[k].mutations : G[k].mutations[i].position <= G[l].pos
    BY <1>2, <2>1, <2>4
  <2>8. IsCommitFrame(G, k) /\ IsCommitFrame(G, l) =>
          \A i \in DOMAIN G[k].mutations, j \in DOMAIN G[l].mutations :
            G[k].mutations[i].position < G[l].mutations[j].position
    BY <1>2, <2>1, <2>5
  <2>9. QED
    BY <1>2, <2>1, <2>2, <2>6, <2>7, <2>8
<1>4. ASSUME NEW k \in DOMAIN G, IsCommitFrame(G, k)
      PROVE  /\ G[k].mutations # <<>>
             /\ \A i, j \in DOMAIN G[k].mutations :
                  i < j => G[k].mutations[i].position < G[k].mutations[j].position
  <2>1. G[k].mutations # <<>> /\ IsCommitFrame(F, k + d) /\ k + d \in DOMAIN F
    BY <1>2, <1>4
  <2>2. PICK t \in Nat : \A i \in DOMAIN G[k].mutations :
          i + t \in DOMAIN F[k + d].mutations /\ G[k].mutations[i] = F[k + d].mutations[i + t]
    <3>1. Rest(F[k + d], G[k]) /\ G[k].kind = "commit"
      BY <1>4 DEF Advances, IsCommitFrame
    <3>2. QED
      BY <3>1 DEF Rest
  <2>3. G[k].mutations \in Seq(Mutation)
    BY <1>4, FrameData
  <2>4. \A i, j \in DOMAIN G[k].mutations : i < j => i + t < j + t
    BY <2>3
  <2>5. \A i, j \in DOMAIN F[k + d].mutations :
          i < j => F[k + d].mutations[i].position < F[k + d].mutations[j].position
    BY <2>1 DEF InOrder
  <2>6. QED
    BY <2>1, <2>2, <2>4, <2>5
<1>5. InOrder(G)
  BY <1>3, <1>4 DEF InOrder
<1>6. HasEnd(G) <=> HasEnd(F)
  <2>1. HasEnd(G) => HasEnd(F)
    BY <1>2 DEF HasEnd
  <2>2. ASSUME NEW k \in DOMAIN F, IsEnd(F, k) PROVE HasEnd(G)
    <3>1. k # 1 /\ k - d \in DOMAIN G /\ G[k - d] = F[k]
      BY <2>2 DEF Advances, IsEnd
    <3>2. QED
      BY <2>2, <3>1 DEF HasEnd, IsEnd
  <2>3. QED
    BY <2>1, <2>2 DEF HasEnd
<1>7. ASSUME NEW p, CommitsPast(F, p) PROVE CommitsPast(G, p)
  BY <1>2, <1>7 DEF CommitsPast
<1>8. ASSUME NEW p, CommitsTo(F, p) PROVE CommitsTo(G, p)
  BY <1>2, <1>8 DEF CommitsTo
<1>9. ASSUME NEW p, ViewsTo(F, p) PROVE ViewsTo(G, p)
  BY <1>2, <1>9 DEF ViewsTo
<1>10. QED
  BY <1>5, <1>6, <1>7, <1>8, <1>9

\* The view the frames lead to stays, from the first frame's view if it was one.
LEMMA AdvanceLeads ==
  ASSUME NEW F \in Seq(Frame), NEW G \in Seq(Frame), NEW d \in {0, 1}, Advances(F, G, d), F # <<>>,
         NEW from, NEW view, Leads(F, from, view)
  PROVE  Leads(G, IF F[1].kind = "view" THEN F[1].view ELSE from, view)
<1>1. /\ 1 \in DOMAIN F /\ DOMAIN F \subseteq Nat \ {0} /\ DOMAIN G \subseteq Nat \ {0}
  BY FrameData, EmptySeq
<1>2. \A k \in DOMAIN G : IsViewFrame(G, k) => k + d \in DOMAIN F /\ IsViewFrame(F, k + d)
  BY DEF Advances, Rest, IsViewFrame
<1>3. CASE \E k \in DOMAIN F : /\ IsViewFrame(F, k) /\ F[k].view = view
                               /\ \A l \in DOMAIN F : l > k => ~IsViewFrame(F, l)
  <2>1. PICK k \in DOMAIN F : /\ IsViewFrame(F, k) /\ F[k].view = view
                              /\ \A l \in DOMAIN F : l > k => ~IsViewFrame(F, l)
    BY <1>3
  <2>2. CASE k # 1
    <3>1. PICK j \in DOMAIN G : j = k - d /\ G[j] = F[k]
      BY <2>2 DEF Advances
    <3>2. IsViewFrame(G, j) /\ G[j].view = view
      BY <2>1, <3>1 DEF IsViewFrame
    <3>3. \A l \in DOMAIN G : l > j => l + d > k
      BY <1>1, <3>1
    <3>4. \A l \in DOMAIN G : l > j => ~IsViewFrame(G, l)
      BY <1>2, <2>1, <3>3
    <3>5. QED
      BY <3>2, <3>4 DEF Leads
  <2>3. CASE k = 1
    <3>1. F[1].kind = "view" /\ F[1].view = view /\ d = 1
      BY <2>1, <2>3 DEF IsViewFrame, Advances
    <3>2. \A l \in DOMAIN G : l + d > k
      BY <1>1, <2>3, <3>1
    <3>3. \A l \in DOMAIN G : ~IsViewFrame(G, l)
      BY <1>2, <2>1, <3>2
    <3>4. QED
      BY <3>1, <3>3 DEF Leads
  <2>4. QED
    BY <2>2, <2>3
<1>4. CASE from = view /\ \A k \in DOMAIN F : ~IsViewFrame(F, k)
  <2>1. F[1].kind # "view" /\ \A k \in DOMAIN G : ~IsViewFrame(G, k)
    BY <1>1, <1>2, <1>4 DEF IsViewFrame
  <2>2. QED
    BY <1>4, <2>1 DEF Leads
<1>5. QED
  BY <1>3, <1>4 DEF Leads

\* What they carry they carry still, but for the first frame's first mutation.
LEMMA AdvanceCarries ==
  ASSUME NEW F \in Seq(Frame), NEW G \in Seq(Frame), NEW d \in {0, 1}, Advances(F, G, d),
         NEW s, NEW p, Carries(F, s, p)
  PROVE  \/ Carries(G, s, p)
         \/ F[1].kind = "commit" /\ F[1].mutations[1].position = p /\ s \in F[1].mutations[1].edits
<1>1. PICK k \in DOMAIN F : /\ IsCommitFrame(F, k)
                            /\ \E i \in DOMAIN F[k].mutations :
                                 F[k].mutations[i].position = p /\ s \in F[k].mutations[i].edits
  BY DEF Carries
<1>2. PICK i \in DOMAIN F[k].mutations : F[k].mutations[i].position = p /\ s \in F[k].mutations[i].edits
  BY <1>1
<1>3. CASE k # 1
  <2>1. PICK j \in DOMAIN G : G[j] = F[k]
    BY <1>3 DEF Advances
  <2>2. IsCommitFrame(G, j)
    BY <1>1, <2>1 DEF IsCommitFrame
  <2>3. QED
    BY <1>2, <2>1, <2>2 DEF Carries
<1>4. CASE k = 1 /\ i # 1
  <2>1. F[1].kind = "commit" /\ i \in DOMAIN F[1].mutations
    BY <1>1, <1>2, <1>4 DEF IsCommitFrame
  <2>2. /\ 1 \in DOMAIN G /\ G[1].kind = "commit"
        /\ i - 1 \in DOMAIN G[1].mutations /\ G[1].mutations[i - 1] = F[1].mutations[i]
    BY <1>4, <2>1 DEF Advances
  <2>3. QED
    BY <1>2, <1>4, <2>2 DEF Carries, IsCommitFrame
<1>5. CASE k = 1 /\ i = 1
  BY <1>1, <1>2, <1>5 DEF IsCommitFrame
<1>6. QED
  BY <1>3, <1>4, <1>5

\* A view frame that governs a position governed it before.
LEMMA AdvanceGoverns ==
  ASSUME NEW F \in Seq(Frame), NEW G \in Seq(Frame), NEW d \in {0, 1}, Advances(F, G, d),
         NEW k \in DOMAIN G, NEW p, Governs(G, k, p)
  PROVE  k + d \in DOMAIN F /\ G[k] = F[k + d] /\ Governs(F, k + d, p)
<1>1. /\ DOMAIN F \subseteq Nat \ {0} /\ DOMAIN G \subseteq Nat \ {0}
  BY FrameData
<1>2. k + d \in DOMAIN F /\ G[k] = F[k + d] /\ IsViewFrame(F, k + d) /\ F[k + d].pos < p
  BY DEF Governs, Advances, Rest, IsViewFrame
<1>3. ASSUME NEW l \in DOMAIN F, l > k + d, IsViewFrame(F, l)
      PROVE  p <= F[l].pos
  <2>1. l # 1
    BY <1>1, <1>3
  <2>2. PICK j \in DOMAIN G : j = l - d /\ G[j] = F[l]
    BY <2>1 DEF Advances
  <2>3. j > k /\ IsViewFrame(G, j)
    BY <1>1, <1>3, <2>2 DEF IsViewFrame
  <2>4. QED
    BY <2>2, <2>3 DEF Governs
<1>4. QED
  BY <1>2, <1>3 DEF Governs

\* View frames from a position on were so before, if the first was.
LEMMA AdvanceViews ==
  ASSUME NEW F \in Seq(Frame), NEW G \in Seq(Frame), NEW d \in {0, 1}, Advances(F, G, d),
         NEW p, ViewsFrom(G, p), F[1].kind = "view" => p <= F[1].pos
  PROVE  ViewsFrom(F, p)
<1> SUFFICES ASSUME NEW k \in DOMAIN F, IsViewFrame(F, k) PROVE p <= F[k].pos
  BY DEF ViewsFrom
<1>1. CASE k = 1
  BY <1>1 DEF IsViewFrame
<1>2. CASE k # 1
  <2>1. PICK j \in DOMAIN G : G[j] = F[k]
    BY <1>2 DEF Advances
  <2>2. IsViewFrame(G, j)
    BY <2>1 DEF IsViewFrame
  <2>3. QED
    BY <2>1, <2>2 DEF ViewsFrom
<1>3. QED
  BY <1>1, <1>2

\* A view frame written: the client has what it newly covers through its position.
LEMMA ViewBrings ==
  ASSUME NEW F \in Seq(Frame), NEW G \in Seq(Frame), Advances(F, G, 1), F # <<>>, F[1].kind = "view",
         NEW p \in Nat, NEW view, NEW edits, NEW covered, NEW covered2, Brings(F, view, p, edits, covered),
         \A s \in edits : s \in F[1].view /\ p <= F[1].pos =>
           <<s, p>> \in covered2 \/ (s \in view /\ (<<s, p>> \in covered => <<s, p>> \in covered2))
  PROVE  Brings(G, F[1].view, p, edits, covered2)
<1>1. 1 \in DOMAIN F /\ DOMAIN F \subseteq Nat /\ 1 \in {0, 1} /\ 0 \in {0, 1}
  BY FrameData, EmptySeq
<1>2. ASSUME NEW s, Carries(F, s, p) PROVE Carries(G, s, p)
  BY <1>1, <1>2, AdvanceCarries
<1>3. ASSUME NEW s \in edits, NEW k \in DOMAIN G, Governs(G, k, p), s \in G[k].view
      PROVE  Carries(G, s, p)
  <2>1. PICK j \in DOMAIN F : G[k] = F[j] /\ Governs(F, j, p)
    BY <1>1, <1>3, AdvanceGoverns
  <2>2. Carries(F, s, p)
    BY <1>3, <2>1 DEF Brings
  <2>3. QED
    BY <1>2, <2>2
<1>4. ASSUME NEW s \in edits, ViewsFrom(G, p), s \in F[1].view
      PROVE  Carries(G, s, p) \/ <<s, p>> \in covered2
  <2>1. F[1].pos \in Nat /\ IsViewFrame(F, 1)
    BY <1>1, FrameData DEF IsViewFrame
  <2>2. CASE p <= F[1].pos
    <3>1. ViewsFrom(F, p)
      BY <1>1, <1>4, <2>2, AdvanceViews
    <3>2. s \in view => Carries(F, s, p) \/ <<s, p>> \in covered
      BY <3>1 DEF Brings
    <3>3. QED
      BY <1>2, <1>4, <2>2, <3>2
  <2>3. CASE F[1].pos < p
    <3>1. \A l \in DOMAIN F : l > 1 /\ IsViewFrame(F, l) => p <= F[l].pos
      <4> SUFFICES ASSUME NEW l \in DOMAIN F, l > 1, IsViewFrame(F, l) PROVE p <= F[l].pos
        OBVIOUS
      <4>1. PICK j \in DOMAIN G : G[j] = F[l]
        BY DEF Advances
      <4>2. IsViewFrame(G, j)
        BY <4>1 DEF IsViewFrame
      <4>3. QED
        BY <1>4, <4>1, <4>2 DEF ViewsFrom
    <3>2. Governs(F, 1, p)
      BY <2>1, <2>3, <3>1 DEF Governs
    <3>3. Carries(F, s, p)
      BY <1>1, <1>4, <3>2 DEF Brings
    <3>4. QED
      BY <1>2, <3>3
  <2>4. QED
    BY <2>1, <2>2, <2>3
<1>5. QED
  BY <1>3, <1>4 DEF Brings

\* The mutation that comes next is the only one at its position, and none comes
\* before it.
LEMMA NextMutation ==
  ASSUME NEW F \in Seq(Frame), F # <<>>, F[1].kind = "commit", InOrder(F)
  PROVE  LET m == F[1].mutations[1] IN
         /\ 1 \in DOMAIN F /\ 1 \in DOMAIN F[1].mutations /\ m \in Mutation
         /\ m.position \in 1..MaxPosition /\ m.edits \in SUBSET Slices
         /\ \A k \in DOMAIN F : IsViewFrame(F, k) => m.position <= F[k].pos
         /\ \A p \in Nat : p <= m.position => ViewsFrom(F, p)
         /\ \A s, p : Carries(F, s, p) /\ p <= m.position => p = m.position /\ s \in m.edits
<1> DEFINE ms == F[1].mutations
           m == ms[1]
<1>1. 1 \in DOMAIN F /\ DOMAIN F \subseteq Nat \ {0}
  BY FrameData, EmptySeq
<1>2. IsCommitFrame(F, 1)
  BY <1>1 DEF IsCommitFrame
<1>3. /\ ms \in Seq(Mutation) /\ ms # <<>>
      /\ \A i \in DOMAIN ms : /\ ms[i].position \in 1..MaxPosition /\ ms[i].position \in Nat
                              /\ ms[i].edits \in SUBSET Slices
  BY <1>1, <1>2, FrameData DEF InOrder
<1>4. 1 \in DOMAIN ms /\ m \in Mutation /\ DOMAIN ms \subseteq Nat \ {0}
  BY <1>3, EmptySeq, LenProperties
<1>5. m.position \in 1..MaxPosition /\ m.edits \in SUBSET Slices /\ m.position \in Nat
  BY <1>3, <1>4
<1>6. ASSUME NEW k \in DOMAIN F, IsViewFrame(F, k)
      PROVE  m.position <= F[k].pos
  <2>1. k # 1
    BY <1>2, <1>6 DEF IsCommitFrame, IsViewFrame
  <2>2. 1 < k
    BY <1>1, <2>1
  <2>3. QED
    BY <1>1, <1>2, <1>4, <1>6, <2>2 DEF InOrder
<1>7. ASSUME NEW p \in Nat, p <= m.position PROVE ViewsFrom(F, p)
  <2> SUFFICES ASSUME NEW k \in DOMAIN F, IsViewFrame(F, k) PROVE p <= F[k].pos
    BY DEF ViewsFrom
  <2>1. F[k].pos \in Nat
    BY FrameData
  <2>2. QED
    BY <1>5, <1>6, <1>7, <2>1
<1>8. ASSUME NEW s, NEW p, Carries(F, s, p), p <= m.position
      PROVE  p = m.position /\ s \in m.edits
  <2>1. PICK k \in DOMAIN F : /\ IsCommitFrame(F, k)
                              /\ \E i \in DOMAIN F[k].mutations :
                                   F[k].mutations[i].position = p /\ s \in F[k].mutations[i].edits
    BY <1>8 DEF Carries
  <2>2. PICK i \in DOMAIN F[k].mutations : F[k].mutations[i].position = p /\ s \in F[k].mutations[i].edits
    BY <2>1
  <2>3. p \in Nat
    BY <2>1, <2>2, FrameData
  <2>4. k = 1
    <3> SUFFICES ASSUME k # 1 PROVE FALSE
      OBVIOUS
    <3>1. 1 < k
      BY <1>1
    <3>2. m.position < F[k].mutations[i].position
      BY <1>1, <1>2, <1>4, <2>1, <3>1 DEF InOrder
    <3>3. QED
      BY <1>5, <1>8, <2>2, <2>3, <3>2
  <2>5. i = 1
    <3> SUFFICES ASSUME i # 1 PROVE FALSE
      OBVIOUS
    <3>1. 1 < i /\ i \in DOMAIN ms
      BY <1>4, <2>4
    <3>2. ms[1].position < ms[i].position
      BY <1>1, <1>2, <1>4, <3>1 DEF InOrder
    <3>3. QED
      BY <1>5, <1>8, <2>2, <2>3, <2>4, <3>2
  <2>6. QED
    BY <2>2, <2>4, <2>5
<1>9. QED
  BY <1>1, <1>4, <1>5, <1>6, <1>7, <1>8

\* A mutation written, or skipped: past it nothing is lost.
LEMMA MutationBrings ==
  ASSUME NEW F \in Seq(Frame), NEW G \in Seq(Frame), NEW d \in {0, 1}, Advances(F, G, d),
         F # <<>>, F[1].kind = "commit", InOrder(F),
         NEW p \in Nat, NEW view, NEW edits, NEW covered, NEW covered2, covered \subseteq covered2,
         Brings(F, view, p, edits, covered),
         F[1].mutations[1].position # p \/ F[1].mutations[1].edits \cap view = {}
  PROVE  Brings(G, view, p, edits, covered2)
<1> DEFINE m == F[1].mutations[1]
<1>1. /\ m.position \in Nat
      /\ \A k \in DOMAIN F : IsViewFrame(F, k) => m.position <= F[k].pos
  BY NextMutation, StreamAssumption
<1>2. ASSUME NEW s, Carries(F, s, p) PROVE Carries(G, s, p) \/ (m.position = p /\ s \in m.edits)
  BY <1>2, AdvanceCarries
<1>3. ASSUME NEW s \in edits, NEW k \in DOMAIN G, Governs(G, k, p), s \in G[k].view
      PROVE  Carries(G, s, p)
  <2>1. PICK j \in DOMAIN F : G[k] = F[j] /\ Governs(F, j, p)
    BY <1>3, AdvanceGoverns
  <2>2. Carries(F, s, p)
    BY <1>3, <2>1 DEF Brings
  <2>3. m.position # p
    <3>1. IsViewFrame(F, j) /\ F[j].pos < p
      BY <2>1 DEF Governs
    <3>2. F[j].pos \in Nat
      BY <3>1, FrameData
    <3>3. QED
      BY <1>1, <3>1, <3>2
  <2>4. QED
    BY <1>2, <2>2, <2>3
<1>4. ASSUME NEW s \in edits, ViewsFrom(G, p), s \in view
      PROVE  Carries(G, s, p) \/ <<s, p>> \in covered2
  <2>1. ViewsFrom(F, p)
    BY <1>4, AdvanceViews
  <2>2. Carries(F, s, p) \/ <<s, p>> \in covered
    BY <1>4, <2>1 DEF Brings
  <2>3. QED
    BY <1>2, <1>4, <2>2
<1>5. QED
  BY <1>3, <1>4 DEF Brings

-----------------------------------------------------------------------------
(* The frames: what the core and the end of a connection leave alone.      *)

\* There is no connection at first.
LEMMA InitClient == Init => ClientInv
<1> SUFFICES ASSUME Init PROVE ClientInv
  OBVIOUS
<1>1. /\ log = <<>> /\ conn = NoConn /\ pc = "none" /\ taken = <<>> /\ items = <<>> /\ ~ending
      /\ client = [cursor |-> -1, view |-> NoView, covered |-> {}] /\ wire = <<>>
  BY DEF Init
<1>2. Len(log) = 0 /\ Len(wire) = 0 /\ DOMAIN wire = {}
  BY <1>1, EmptySeq
<1>3. ClientHolds
  BY <1>1, <1>2 DEF ClientHolds, CursorSkipsNothing, EachEditOnce
<1>4. EntryHolds /\ FramesHold
  BY <1>1 DEF EntryHolds, FramesHold
<1>5. pc \notin Started /\ pc \notin Replaying /\ pc \notin Streaming
  BY <1>1 DEF Started, Replaying, Streaming
<1>6. QED
  BY <1>3, <1>4, <1>5 DEF ClientInv, CursorHolds, ItemsHold, FramesBring

\* A connection that is gone leaves the client as it is.
LEMMA GoneKeepsClient ==
  ASSUME ClientInv, conn' = NoConn, Idle, UNCHANGED <<log, client, wire>> \/ (UNCHANGED <<core, client, wire>>)
  PROVE  ClientInv'
<1>1. UNCHANGED <<log, client, wire>> /\ pc' = "none" /\ taken' = <<>> /\ items' = <<>> /\ ~ending'
  BY DEF Idle, core
<1>2. ClientHolds'
  BY <1>1 DEF ClientInv, ClientHolds, CursorSkipsNothing, EachEditOnce
<1>3. EntryHolds' /\ FramesHold'
  BY <1>1 DEF EntryHolds, FramesHold
<1>4. pc' \notin Started /\ pc' \notin Replaying /\ pc' \notin Streaming
  BY <1>1 DEF Started, Replaying, Streaming
<1>5. QED
  BY <1>2, <1>3, <1>4 DEF ClientInv, CursorHolds, ItemsHold, FramesBring

\* A client connects with nothing on its way to it.
LEMMA ConnectClient ==
  ASSUME TypeOK, ClientInv, NEW c \in Conns, NEW g \in Nat, Connect(c, g)
  PROVE  ClientInv'
<1>1. /\ pc = "none" /\ conn = NoConn /\ conn' = NewConn(c, g) /\ pc' = "wait" /\ wire' = <<>>
      /\ UNCHANGED <<log, position, taken, ending, items, client>>
  BY DEF Connect, core
<1>2. /\ taken' = <<>> /\ items' = <<>> /\ ~ending'
      /\ conn'.backlog = <<>> /\ ~conn'.overflowed /\ ~conn'.active /\ ~conn'.streaming
  BY <1>1 DEF ClientInv, EntryHolds, NewConn
<1>3. Frames' = <<>>
  <2>1. <<>> \o <<>> = <<>>
    OBVIOUS
  <2>2. QED
    BY <1>2, <2>1 DEF Frames
<1>4. Len(wire') = 0 /\ DOMAIN wire' = {}
  BY <1>1, EmptySeq
<1>5. ClientHolds'
  BY <1>1, <1>4 DEF ClientInv, ClientHolds, CursorSkipsNothing, EachEditOnce
<1>6. pc' \notin Started /\ pc' \notin Replaying /\ pc' \notin Streaming
  BY <1>1 DEF Started, Replaying, Streaming
<1>7. EntryHolds'
  BY <1>1, <1>2, <1>3, <1>6, NoFrames DEF EntryHolds
<1>8. FramesHold'
  BY <1>1, <1>2, <1>3, <1>6, NoFrames DEF FramesHold, Forwarding
<1>9. QED
  BY <1>5, <1>6, <1>7, <1>8 DEF ClientInv, CursorHolds, ItemsHold, FramesBring

\* A batch takes nothing from the log but what it erases.
LEMMA BatchClient ==
  ASSUME TypeOK, CoreInv, ClientInv, NEW muts \in Seq(Mutations), NEW g \in SUBSET Slices,
         NEW f \in BOOLEAN, NEW gen \in Nat, Batch(muts, g, f, gen)
  PROVE  ClientInv'
<1>1. UNCHANGED <<position, conn, pc, reply, selectors, cursor, told, taken, ending, items, mark, client, wire>>
  BY DEF Batch, task
<1>2. LogsOf(muts, g)
  BY BatchLogs, Zenon
<1>3. PICK h \in Nat, head \in Nat :
        /\ h = Len(log) /\ head = Len(log') /\ h <= head
        /\ \A p \in 1..h : log'[p] \subseteq log[p]
  <2>1. Len(log) \in Nat /\ Len(muts) \in Nat /\ Len(log') = Len(log) + Len(muts)
    BY <1>2 DEF LogsOf
  <2>2. \A p \in 1..Len(log) : log'[p] \subseteq log[p]
    BY <1>2 DEF LogsOf
  <2>3. Len(log') \in Nat /\ Len(log) <= Len(log')
    BY <2>1
  <2>4. QED
    BY <2>1, <2>2, <2>3
<1>4. /\ position \in Nat /\ position <= h /\ client.cursor \in Int /\ client.cursor <= h
      /\ mark \in Nat /\ reply.position \in Nat
  BY <1>3, ClientType, StreamAssumption DEF CoreInv, ResultsHold, ClientInv, ClientHolds, TypeOK, Positions
<1>5. ClientHolds'
  <2>1. CursorSkipsNothing'
    <3> SUFFICES ASSUME client.view # NoView, NEW p \in 1..client.cursor, NEW s \in log'[p] \cap client.view
                 PROVE  <<s, p>> \in client.covered
      BY <1>1 DEF CursorSkipsNothing
    <3>1. p \in 1..h
      BY <1>4
    <3>2. s \in log[p] \cap client.view
      BY <1>3, <3>1
    <3>3. QED
      BY <3>2 DEF ClientInv, ClientHolds, CursorSkipsNothing
  <2>2. QED
    BY <1>1, <1>3, <1>4, <2>1 DEF ClientInv, ClientHolds, EachEditOnce
<1>6. Frames' = Frames
  BY <1>1 DEF Frames
<1>7. EntryHolds'
  BY <1>1, <1>3, <1>4, <1>6 DEF ClientInv, EntryHolds
<1>8. FramesHold'
  BY <1>1, <1>6 DEF ClientInv, FramesHold, Forwarding
<1>9. CursorHolds'
  BY <1>1, <1>3, <1>4 DEF ClientInv, CursorHolds, Doomed
<1>10. ItemsHold'
  <2> SUFFICES ASSUME pc \in Replaying PROVE ItemsHold'
    BY <1>1 DEF ItemsHold
  <2>1. mark <= h
    <3>1. CASE pc = "coldReplay"
      BY <1>3, <3>1 DEF ClientInv, CursorHolds, Started
    <3>2. CASE pc = "hotReplay"
      <4>1. mark <= position
        BY <3>2 DEF ClientInv, FramesHold, TypeOK
      <4>2. QED
        BY <1>4, <4>1
    <3>3. QED
      BY <3>1, <3>2 DEF Replaying
  <2>2. ASSUME NEW p \in (client.cursor + 1)..mark, NEW s \in log'[p] \cap selectors
        PROVE  <<s, p>> \in client.covered \/ \E i \in DOMAIN items : items[i].position = p /\ s \in items[i].edits
    <3>1. p \in 1..h
      <4>1. 0 <= client.cursor
        <5>1. client.view # NoView
          BY DEF ClientInv, CursorHolds, Started, Replaying, Streaming
        <5>2. client.cursor # -1
          BY <5>1 DEF ClientInv, ClientHolds
        <5>3. client.cursor \in -1..MaxPosition /\ MaxPosition \in Nat
          BY ClientType, StreamAssumption
        <5>4. QED
          BY <5>2, <5>3
      <4>2. QED
        BY <1>4, <2>1, <4>1
    <3>2. s \in log[p] \cap selectors
      BY <1>3, <2>2, <3>1
    <3>3. QED
      BY <3>2 DEF ClientInv, ItemsHold
  <2>3. QED
    BY <1>1, <2>2 DEF ClientInv, ItemsHold
<1>11. FramesBring'
  <2> SUFFICES ASSUME pc \in Streaming PROVE FramesBring'
    BY <1>1 DEF FramesBring
  <2>1. PICK b \in 0..position : BringsAllTo(b)
    BY DEF ClientInv, FramesBring
  <2>2. ReadTo' = ReadTo /\ ReadTo \in Nat
    <3>1. cursor \in Nat /\ mark \in Nat
      BY DEF TypeOK, Positions
    <3>2. Larger(cursor, mark) \in Nat
      BY <3>1 DEF Larger
    <3>3. ReadTo \in Nat
      BY <3>1, <3>2 DEF ReadTo
    <3>4. ReadTo' = ReadTo
      BY <1>1 DEF ReadTo, Larger
    <3>5. QED
      BY <3>3, <3>4
  <2>3. ASSUME NEW p \in (ReadTo + 1)..b
        PROVE  Brings(Frames, selectors, p, log'[p], client.covered)
    <3>1. p \in 1..h
      BY <1>4, <2>2
    <3>2. log'[p] \subseteq log[p]
      BY <1>3, <3>1
    <3>3. Brings(Frames, selectors, p, log[p], client.covered)
      BY <2>1 DEF BringsAllTo
    <3>4. QED
      BY <3>2, <3>3 DEF Brings
  <2>4. BringsAllTo(b)'
    BY <1>1, <1>6, <2>1, <2>2, <2>3 DEF BringsAllTo, Doomed
  <2>5. QED
    BY <1>1, <2>4 DEF FramesBring
<1>12. QED
  BY <1>5, <1>7, <1>8, <1>9, <1>10, <1>11 DEF ClientInv

-----------------------------------------------------------------------------
(* The connection's task takes its backlog.                                *)

\* The entry once its backlog is taken, and what else a step leaves of it.
TakenFrom(c) ==
  /\ c.backlog = <<>> /\ c.view = conn.view /\ c.active = conn.active
  /\ c.overflowed = conn.overflowed /\ c.revoked = conn.revoked

\* A connection that ended before its backlog was taken ends once it is forwarded.
LEMMA TakeFrames ==
  ASSUME TypeOK, ClientInv, pc \in Started, ~Forwarding,
         TakenFrom(conn'), taken' = conn.backlog, ending' = conn.overflowed
  PROVE  /\ taken = <<>> /\ ~ending /\ conn # NoConn /\ Frames = conn.backlog
         /\ Frames' = Frames /\ taken' = Frames
         /\ ~conn.active => Doomed'
<1>1. conn # NoConn
  BY DEF TypeOK, Started, Streaming
<1>2. taken = <<>> /\ ~ending
  BY <1>1 DEF ClientInv, FramesHold
<1>3. Frames = conn.backlog
  BY <1>1, <1>2, FramesAre
<1>4. Frames' = conn.backlog
  <2>1. \A s \in Seq(Frame) : s \o <<>> = s
    OBVIOUS
  <2>2. conn.backlog \in Seq(Frame)
    BY <1>1, FramesAre
  <2>3. taken' \o <<>> = conn.backlog
    BY <2>1, <2>2
  <2>4. QED
    BY <2>3 DEF Frames, TakenFrom
<1>5. ~conn.active => conn.overflowed \/ HasEnd(Frames)
  BY <1>1 DEF ClientInv, EntryHolds, Started, Streaming
<1>6. ~conn.active => Doomed'
  BY <1>3, <1>5 DEF Doomed
<1>7. QED
  BY <1>1, <1>2, <1>3, <1>4, <1>6

\* A task that takes its backlog while it streams the log or waits.
LEMMA TakeClient ==
  ASSUME TypeOK, CoreInv, ClientInv, TakeCold \/ Wake \/ TakeBeat
  PROVE  ClientInv'
<1>1. /\ \/ pc = "cold" /\ pc' = "coldForward"
         \/ pc = "live" /\ pc' = "wakeForward"
         \/ pc = "beat" /\ pc' = "beatForward"
      /\ taken' = conn.backlog /\ ending' = conn.overflowed
      /\ UNCHANGED <<log, position, reply, selectors, cursor, told, items, mark, client, wire>>
  BY DEF TakeCold, Wake, TakeBeat, Take, core, server
<1>2. /\ pc \in Started /\ pc' \in Started /\ ~Forwarding
      /\ pc \notin Replaying /\ pc' \notin Replaying
      /\ pc \in Streaming <=> pc' \in Streaming
      /\ pc' # "switchForward" /\ pc' # "none" /\ pc' # "wait" /\ pc' # "replied"
  BY <1>1 DEF Started, Streaming, Replaying, Forwarding
<1>3. conn # NoConn /\ conn \in Conn
  BY <1>2, EntryType DEF TypeOK, Started, Streaming
<1>4. TakenFrom(conn') /\ conn'.streaming = conn.streaming
  BY <1>3 DEF TakeCold, Wake, TakeBeat, TakenFrom, Conn
<1>5. /\ taken = <<>> /\ ~ending /\ Frames = conn.backlog
      /\ Frames' = Frames /\ taken' = Frames
      /\ ~conn.active => Doomed'
  BY <1>1, <1>2, <1>4, TakeFrames
<1>6. ClientHolds'
  BY <1>1 DEF ClientInv, ClientHolds, CursorSkipsNothing, EachEditOnce
<1>7. EntryHolds'
  BY <1>1, <1>2, <1>3, <1>4, <1>5 DEF ClientInv, EntryHolds, TakenFrom
<1>8. FramesHold'
  <2>1. InOrder(Frames') /\ CommitsTo(Frames', position') /\ ViewsTo(Frames', position')
    BY <1>1, <1>3, <1>5 DEF ClientInv, FramesHold
  <2>2. ~conn'.streaming => CommitsPast(Frames', MaxPosition)
    BY <1>3, <1>4, <1>5 DEF ClientInv, FramesHold
  <2>3. Forwarding'
    BY <1>1 DEF Forwarding
  <2>4. conn'.active => Leads(Frames', selectors', conn'.view)
    BY <1>1, <1>2, <1>3, <1>4, <1>5 DEF ClientInv, FramesHold, TakenFrom
  <2>5. pc' = "beatForward" => mark' <= position'
    BY <1>1, <1>3 DEF ClientInv, FramesHold
  <2>6. CommitsPast(conn'.backlog, mark') /\ ViewsFrom(conn'.backlog, mark')
    BY <1>4, NoFrames DEF TakenFrom
  <2>7. pc' \notin {"switchForward", "hotReplay", "beat"}
    BY <1>1
  <2>8. QED
    BY <1>2, <2>1, <2>2, <2>3, <2>4, <2>5, <2>6, <2>7 DEF FramesHold
<1>9. CursorHolds'
  BY <1>1, <1>2, <1>4 DEF ClientInv, CursorHolds
<1>10. ItemsHold'
  BY <1>2 DEF ItemsHold
<1>11. FramesBring'
  <2> SUFFICES ASSUME pc' \in Streaming PROVE FramesBring'
    BY DEF FramesBring
  <2>1. PICK b \in 0..position : BringsAllTo(b)
    BY <1>2 DEF ClientInv, FramesBring
  <2>2. ReadTo = cursor /\ ReadTo' = cursor
    BY <1>1 DEF ReadTo
  <2>3. pc' = "beatForward" => Doomed' \/ mark <= b
    <3>1. pc' = "beatForward" /\ conn.active => mark <= position /\ b = position
      BY <1>1, <1>3, <2>1 DEF ClientInv, FramesHold, BringsAllTo
    <3>2. QED
      BY <1>5, <3>1
  <2>4. BringsAllTo(b)'
    BY <1>1, <1>4, <1>5, <2>1, <2>2, <2>3 DEF BringsAllTo, TakenFrom
  <2>5. QED
    BY <1>1, <2>4 DEF FramesBring
<1>12. QED
  BY <1>6, <1>7, <1>8, <1>9, <1>10, <1>11 DEF ClientInv

\* The switch to streaming: what was queued so far is forwarded by the view the
\* dispatcher holds, and the hot catchup reads through the published position.
LEMMA SwitchClient ==
  ASSUME TypeOK, CoreInv, ClientInv, Switch
  PROVE  ClientInv'
<1>1. /\ pc = "coldReplay" /\ items = <<>> /\ mark = cursor /\ pc' = "switchForward"
      /\ conn' = [conn EXCEPT !.streaming = TRUE, !.backlog = <<>>]
      /\ taken' = conn.backlog /\ ending' = conn.overflowed
      /\ selectors' = conn.view /\ mark' = position
      /\ UNCHANGED <<log, position, reply, cursor, told, items, client, wire>>
  BY DEF Switch, Take, core, server
<1>2. /\ pc \in Started /\ pc' \in Started /\ ~Forwarding /\ pc \in Replaying /\ pc' \notin Replaying
      /\ pc \notin Streaming /\ pc' \in Streaming
  BY <1>1 DEF Started, Streaming, Replaying, Forwarding
<1>3. conn # NoConn /\ conn \in Conn
  BY <1>1, EntryType DEF TypeOK
<1>4. TakenFrom(conn') /\ conn'.streaming
  BY <1>1, <1>3 DEF TakenFrom, Conn
<1>5. /\ taken = <<>> /\ ~ending /\ Frames = conn.backlog
      /\ Frames' = Frames /\ taken' = Frames
      /\ ~conn.active => Doomed'
  BY <1>1, <1>2, <1>4, TakeFrames
<1>6. ~conn.streaming
  BY <1>2, <1>3 DEF ClientInv, EntryHolds
<1>7. position \in Nat /\ cursor \in Nat /\ told \in Nat
  BY <1>1, TaskTypes
<1>8. ClientHolds'
  BY <1>1 DEF ClientInv, ClientHolds, CursorSkipsNothing, EachEditOnce
<1>9. EntryHolds'
  BY <1>1, <1>2, <1>3, <1>4, <1>5 DEF ClientInv, EntryHolds, TakenFrom
<1>10. conn.active => Leads(Frames, selectors, conn.view) /\ Leads(Frames, conn.view, conn.view)
  BY <1>1, <1>2, <1>3 DEF ClientInv, FramesHold, Leads
<1>11. FramesHold'
  <2>1. InOrder(Frames') /\ CommitsTo(Frames', position') /\ ViewsTo(Frames', position')
    BY <1>1, <1>3, <1>5 DEF ClientInv, FramesHold
  <2>2. CommitsPast(taken', MaxPosition) /\ ViewsTo(taken', mark')
    BY <1>1, <1>3, <1>5, <1>6 DEF ClientInv, FramesHold
  <2>3. Forwarding'
    BY <1>1 DEF Forwarding
  <2>4. conn'.active => Leads(Frames', selectors', conn'.view)
    BY <1>1, <1>4, <1>5, <1>10 DEF TakenFrom
  <2>5. mark' <= position'
    BY <1>1, <1>7
  <2>6. CommitsPast(conn'.backlog, mark') /\ ViewsFrom(conn'.backlog, mark')
    BY <1>4, NoFrames DEF TakenFrom
  <2>7. QED
    BY <1>1, <1>2, <1>4, <2>1, <2>2, <2>3, <2>4, <2>5, <2>6 DEF FramesHold
<1>12. CursorHolds'
  <2>1. client.view # NoView /\ selectors = client.view /\ client.cursor = told /\ cursor <= told /\ told <= mark
    BY <1>1, <1>2, <1>6 DEF ClientInv, CursorHolds
  <2>2. client.cursor = cursor
    BY <1>1, <1>7, <2>1
  <2>3. Doomed' \/ Leads(taken', client.view, selectors')
    BY <1>1, <1>5, <1>10, <2>1
  <2>4. QED
    BY <1>1, <1>2, <1>4, <2>1, <2>2, <2>3 DEF CursorHolds
<1>13. ItemsHold'
  BY <1>2 DEF ItemsHold
<1>14. FramesBring'
  <2>1. ReadTo' = Larger(cursor, position) /\ position <= Larger(cursor, position) /\ Larger(cursor, position) \in Int
    BY <1>1, <1>7, Largest DEF ReadTo
  <2>2. (ReadTo' + 1)..position = {}
    BY <1>7, <2>1
  <2>3. CommitsTo(Frames', position)
    BY <1>3, <1>5 DEF ClientInv, FramesHold
  <2>4. BringsAllTo(position)'
    BY <1>1, <2>2, <2>3 DEF BringsAllTo
  <2>5. position \in 0..position'
    BY <1>1, <1>7
  <2>6. \E b \in 0..position' : BringsAllTo(b)'
    BY <1>1, <2>4, <2>5
  <2>7. QED
    BY <2>6 DEF FramesBring
<1>15. QED
  BY <1>8, <1>9, <1>11, <1>12, <1>13, <1>14 DEF ClientInv

-----------------------------------------------------------------------------
(* The cursor moves to where a reading or a vouch ends.                    *)

\* A client that has every edit up to where its cursor moves.
LEMMA VouchHolds ==
  ASSUME TypeOK, ClientInv, client' \in Client, client'.view = client.view,
         client'.covered = client.covered, client.cursor <= client'.cursor,
         client'.cursor <= Len(log), client.view # NoView, client'.cursor # -1,
         \A p \in (client.cursor + 1)..client'.cursor : \A s \in log[p] \cap client.view :
           <<s, p>> \in client.covered,
         UNCHANGED <<log, wire>>
  PROVE  ClientHolds'
<1>1. client.cursor \in Int /\ client'.cursor \in Int /\ Len(log) \in Int
  BY ClientType DEF Client, TypeOK
<1>2. CursorSkipsNothing'
  <2> SUFFICES ASSUME NEW p \in 1..client'.cursor, NEW s \in log[p] \cap client.view
               PROVE  <<s, p>> \in client.covered
    BY DEF CursorSkipsNothing
  <2>1. CASE p <= client.cursor
    <3>1. p \in 1..client.cursor
      BY <1>1, <2>1
    <3>2. QED
      BY <3>1 DEF ClientInv, ClientHolds, CursorSkipsNothing
  <2>2. CASE p > client.cursor
    <3>1. p \in (client.cursor + 1)..client'.cursor
      BY <1>1, <2>2
    <3>2. QED
      BY <3>1
  <2>3. QED
    BY <1>1, <2>1, <2>2
<1>3. \A i \in DOMAIN wire : wire[i] <= client'.cursor
  <2>1. \A i \in DOMAIN wire : wire[i] \in Nat /\ wire[i] <= client.cursor
    BY StreamAssumption DEF ClientInv, ClientHolds, TypeOK
  <2>2. QED
    BY <1>1, <2>1
<1>4. EachEditOnce'
  BY DEF ClientInv, ClientHolds, EachEditOnce
<1>5. QED
  BY <1>2, <1>3, <1>4 DEF ClientHolds

\* An edit the client has, or is sent, stays one it has.
LEMMA BringsMore ==
  ASSUME NEW F, NEW view, NEW p, NEW edits, NEW covered, NEW covered2, covered \subseteq covered2,
         Brings(F, view, p, edits, covered)
  PROVE  Brings(F, view, p, edits, covered2)
BY DEF Brings

\* The task waits again, or its heartbeat reads the published position.
LEMMA WaitClient ==
  ASSUME TypeOK, CoreInv, ClientInv, Forwarded \/ Heartbeat
  PROVE  ClientInv'
<1>1. /\ \/ pc = "wakeForward" /\ taken = <<>> /\ ~ending /\ pc' = "live" /\ mark' = mark
         \/ pc = "live" /\ pc' = "beat" /\ mark' = position
      /\ UNCHANGED <<log, position, conn, reply, selectors, cursor, told, taken, ending, items, client, wire>>
  BY DEF Forwarded, Heartbeat, core, server
<1>2. /\ pc \in Started /\ pc' \in Started /\ pc \in Streaming /\ pc' \in Streaming
      /\ pc \notin Replaying /\ pc' \notin Replaying /\ ~Forwarding'
  BY <1>1 DEF Started, Streaming, Replaying, Forwarding
<1>3. conn # NoConn /\ conn \in Conn /\ position \in Nat
  BY <1>1, EntryType, TaskTypes DEF TypeOK
<1>4. Frames' = Frames
  BY <1>1 DEF Frames
<1>5. ClientHolds'
  BY <1>1 DEF ClientInv, ClientHolds, CursorSkipsNothing, EachEditOnce
<1>6. EntryHolds'
  BY <1>1, <1>2, <1>3, <1>4 DEF ClientInv, EntryHolds
<1>7. taken = <<>> /\ ~ending
  BY <1>1, <1>3 DEF ClientInv, FramesHold, Forwarding
<1>8. FramesHold'
  <2>1. InOrder(Frames') /\ CommitsTo(Frames', position') /\ ViewsTo(Frames', position')
    BY <1>1, <1>3, <1>4 DEF ClientInv, FramesHold
  <2>2. ~conn'.streaming => CommitsPast(Frames', MaxPosition)
    BY <1>1, <1>3, <1>4 DEF ClientInv, FramesHold
  <2>3. conn'.active => Leads(Frames', selectors', conn'.view)
    BY <1>1, <1>2, <1>3, <1>4 DEF ClientInv, FramesHold
  <2>4. pc' = "beat" => mark' <= position'
    BY <1>1, <1>3
  <2>5. pc' \notin {"switchForward", "hotReplay", "beatForward", "wait"}
    BY <1>1
  <2>6. QED
    BY <1>1, <1>2, <1>7, <2>1, <2>2, <2>3, <2>4, <2>5 DEF FramesHold
<1>9. CursorHolds'
  BY <1>1, <1>2, <1>3 DEF ClientInv, CursorHolds, EntryHolds
<1>10. ItemsHold'
  BY <1>2 DEF ItemsHold
<1>11. FramesBring'
  <2>1. PICK b \in 0..position : BringsAllTo(b)
    BY <1>2 DEF ClientInv, FramesBring
  <2>2. ReadTo = cursor /\ ReadTo' = cursor
    BY <1>1 DEF ReadTo
  <2>3. BringsAllTo(b)'
    BY <1>1, <1>4, <2>1, <2>2 DEF BringsAllTo
  <2>4. QED
    BY <1>1, <2>3 DEF FramesBring
<1>12. QED
  BY <1>5, <1>6, <1>8, <1>9, <1>10, <1>11 DEF ClientInv

\* A cold window's end.
LEMMA WindowClient ==
  ASSUME TypeOK, CoreInv, ClientInv, ColdWindow
  PROVE  ClientInv'
<1>1. /\ pc = "coldReplay" /\ items = <<>> /\ mark # cursor /\ cursor' = mark /\ pc' = "cold"
      /\ IF mark > told THEN Vouched(mark) /\ told' = mark ELSE UNCHANGED <<client, told>>
      /\ UNCHANGED <<log, position, conn, reply, selectors, taken, ending, items, mark, wire>>
  BY DEF ColdWindow, core, server
<1>2. /\ pc \in Started /\ pc' \in Started /\ pc \notin Streaming /\ pc' \notin Streaming
      /\ pc \in Replaying /\ pc' \notin Replaying /\ ~Forwarding' /\ ~Forwarding
  BY <1>1 DEF Started, Streaming, Replaying, Forwarding
<1>3. conn # NoConn /\ conn \in Conn /\ cursor \in Nat /\ told \in Nat /\ mark \in Nat /\ mark \in Positions
  BY <1>1, EntryType, TaskTypes DEF TypeOK
<1>4. ~conn.streaming
  BY <1>2, <1>3 DEF ClientInv, EntryHolds
<1>5. /\ client.view # NoView /\ selectors = client.view /\ client.cursor = told
      /\ cursor <= told /\ told <= mark /\ mark <= Len(log)
  BY <1>1, <1>2, <1>4 DEF ClientInv, CursorHolds
<1>6. /\ client' \in Client /\ client'.cursor = mark /\ told' = mark
      /\ client'.view = client.view /\ client'.covered = client.covered
  <2>1. CASE mark > told
    <3>1. Larger(client.cursor, mark) = mark
      BY <1>3, <1>5 DEF Larger
    <3>2. Vouched(mark) /\ told' = mark
      BY <1>1, <2>1
    <3>3. QED
      BY <1>3, <3>1, <3>2, AfterVouch
  <2>2. CASE ~(mark > told)
    <3>1. mark = told
      BY <1>3, <1>5, <2>2
    <3>2. QED
      BY <1>1, <1>5, <2>2, <3>1, ClientType
  <2>3. QED
    BY <2>1, <2>2
<1>7. \A p \in (client.cursor + 1)..mark : \A s \in log[p] \cap client.view : <<s, p>> \in client.covered
  <2>1. DOMAIN items = {}
    BY <1>1, EmptySeq
  <2>2. QED
    BY <1>2, <1>5, <2>1 DEF ClientInv, ItemsHold
<1>8. ClientHolds'
  BY <1>1, <1>3, <1>5, <1>6, <1>7, VouchHolds
<1>9. Frames' = Frames
  BY <1>1 DEF Frames
<1>10. EntryHolds'
  BY <1>1, <1>2, <1>3, <1>9 DEF ClientInv, EntryHolds
<1>11. FramesHold'
  BY <1>1, <1>2, <1>3, <1>9 DEF ClientInv, FramesHold
<1>12. CursorHolds'
  BY <1>1, <1>2, <1>4, <1>5, <1>6 DEF CursorHolds
<1>13. ItemsHold' /\ FramesBring'
  BY <1>2 DEF ItemsHold, FramesBring
<1>14. QED
  BY <1>8, <1>10, <1>11, <1>12, <1>13 DEF ClientInv

\* The hot catchup's end.
LEMMA LiveClient ==
  ASSUME TypeOK, CoreInv, ClientInv, Live
  PROVE  ClientInv'
<1> DEFINE far == Larger(cursor, mark)
<1>1. /\ pc = "hotReplay" /\ items = <<>> /\ cursor' = far /\ Vouched(cursor') /\ pc' = "live"
      /\ UNCHANGED <<log, position, conn, reply, selectors, told, taken, ending, items, wire>>
  BY DEF Live, core, server
<1>2. /\ pc \in Started /\ pc' \in Started /\ pc \in Streaming /\ pc' \in Streaming
      /\ pc \in Replaying /\ pc' \notin Replaying /\ ~Forwarding' /\ ~Forwarding
  BY <1>1 DEF Started, Streaming, Replaying, Forwarding
<1>3. /\ conn # NoConn /\ conn \in Conn /\ cursor \in Nat /\ mark \in Nat /\ position \in Nat
      /\ cursor \in Positions /\ mark \in Positions
  BY <1>1, EntryType, TaskTypes DEF TypeOK
<1>4. /\ far \in {cursor, mark} /\ far \in Nat /\ far \in Positions /\ cursor <= far /\ mark <= far
  <2>1. cursor \in Int /\ mark \in Int
    BY <1>3
  <2>2. far \in {cursor, mark} /\ cursor <= far /\ mark <= far
    BY <2>1, Largest
  <2> HIDE DEF far
  <2>3. QED
    BY <1>3, <2>2
<1> HIDE DEF far
<1>5. client.view # NoView /\ selectors = client.view /\ cursor <= client.cursor /\ client.cursor <= far
  BY <1>1, <1>2 DEF ClientInv, CursorHolds, far
<1>6. /\ client' \in Client /\ client'.cursor = far
      /\ client'.view = client.view /\ client'.covered = client.covered
  <2>1. client.cursor \in Int
    BY ClientType
  <2>2. Larger(client.cursor, far) = far
    BY <1>4, <1>5, <2>1, Largest
  <2>3. Vouched(far)
    BY <1>1
  <2>4. QED
    BY <1>4, <2>2, <2>3, AfterVouch
<1>7. mark <= position /\ position <= Len(log) /\ client.cursor <= Len(log) /\ Len(log) \in Nat /\ client.cursor \in Int
  BY <1>1, <1>3, ClientType DEF ClientInv, FramesHold, ClientHolds, CoreInv, ResultsHold, TypeOK
<1>8. ClientHolds'
  <2>1. \A p \in (client.cursor + 1)..far : \A s \in log[p] \cap client.view : <<s, p>> \in client.covered
    <3> SUFFICES ASSUME NEW p \in (client.cursor + 1)..far, NEW s \in log[p] \cap client.view
                 PROVE  <<s, p>> \in client.covered
      OBVIOUS
    <3>1. p \in (client.cursor + 1)..mark
      BY <1>3, <1>4, <1>5, <1>7
    <3>2. QED
      BY <1>1, <1>2, <1>5, <3>1, EmptySeq DEF ClientInv, ItemsHold
  <2>2. far <= Len(log) /\ client.cursor <= far /\ far # -1
    BY <1>3, <1>4, <1>5, <1>7
  <2>3. QED
    BY <1>1, <1>5, <1>6, <2>1, <2>2, VouchHolds
<1>9. Frames' = Frames
  BY <1>1 DEF Frames
<1>10. EntryHolds'
  BY <1>1, <1>2, <1>3, <1>9 DEF ClientInv, EntryHolds
<1>11. FramesHold'
  BY <1>1, <1>2, <1>3, <1>9 DEF ClientInv, FramesHold
<1>12. CursorHolds'
  <2>1. conn'.streaming
    BY <1>1, <1>2, <1>3 DEF ClientInv, EntryHolds
  <2>2. QED
    BY <1>1, <1>2, <1>5, <1>6, <2>1 DEF CursorHolds
<1>13. ItemsHold'
  BY <1>2 DEF ItemsHold
<1>14. FramesBring'
  <2>1. PICK b \in 0..position : BringsAllTo(b)
    BY <1>2 DEF ClientInv, FramesBring
  <2>2. ReadTo = far /\ ReadTo' = far
    BY <1>1 DEF ReadTo, far
  <2>3. BringsAllTo(b)'
    BY <1>1, <1>6, <1>9, <2>1, <2>2 DEF BringsAllTo
  <2>4. QED
    BY <1>1, <2>3 DEF FramesBring
<1>15. QED
  BY <1>8, <1>10, <1>11, <1>12, <1>13, <1>14 DEF ClientInv

\* A heartbeat vouches for the position that was published before the backlog was
\* taken: by then every edit below it is written.
LEMMA VouchClient ==
  ASSUME TypeOK, CoreInv, ClientInv, Vouch
  PROVE  ClientInv'
<1> DEFINE far == Larger(cursor, mark)
<1>1. /\ pc = "beatForward" /\ taken = <<>> /\ ~ending /\ cursor' = far /\ Vouched(cursor') /\ pc' = "live"
      /\ UNCHANGED <<log, position, conn, reply, selectors, told, taken, ending, items, wire>>
  BY DEF Vouch, core, server
<1>2. /\ pc \in Started /\ pc' \in Started /\ pc \in Streaming /\ pc' \in Streaming
      /\ pc \notin Replaying /\ pc' \notin Replaying /\ ~Forwarding'
  BY <1>1 DEF Started, Streaming, Replaying, Forwarding
<1>3. /\ conn # NoConn /\ conn \in Conn /\ cursor \in Nat /\ mark \in Nat /\ position \in Nat
      /\ cursor \in Positions /\ mark \in Positions
  BY <1>1, EntryType, TaskTypes DEF TypeOK
<1>4. /\ far \in {cursor, mark} /\ far \in Nat /\ far \in Positions /\ cursor <= far /\ mark <= far
  <2>1. cursor \in Int /\ mark \in Int
    BY <1>3
  <2>2. far \in {cursor, mark} /\ cursor <= far /\ mark <= far
    BY <2>1, Largest
  <2> HIDE DEF far
  <2>3. QED
    BY <1>3, <2>2
<1> HIDE DEF far
<1>5. /\ client.view # NoView /\ selectors = client.view /\ client.cursor = cursor /\ items = <<>>
  BY <1>1, <1>2 DEF ClientInv, CursorHolds
<1>6. /\ client' \in Client /\ client'.cursor = far
      /\ client'.view = client.view /\ client'.covered = client.covered
  <2>1. Larger(client.cursor, far) = far
    BY <1>3, <1>4, <1>5, Largest
  <2>2. Vouched(far)
    BY <1>1
  <2>3. QED
    BY <1>4, <2>1, <2>2, AfterVouch
<1>7. PICK b \in 0..position : BringsAllTo(b)
  BY <1>2 DEF ClientInv, FramesBring
<1>8. ReadTo = cursor /\ ReadTo' = far
  BY <1>1 DEF ReadTo
<1>9. mark <= b
  <2>1. ~HasEnd(taken)
    BY <1>1, NoFrames
  <2>2. QED
    BY <1>1, <1>7, <2>1 DEF BringsAllTo, Doomed
<1>10. position <= Len(log) /\ client.cursor <= Len(log) /\ Len(log) \in Nat
  BY DEF ClientInv, ClientHolds, CoreInv, ResultsHold, TypeOK
<1>11. Frames = conn.backlog /\ Frames' = Frames /\ Frames \in Seq(Frame)
  BY <1>1, <1>3, FramesAre DEF Frames
<1>12. ClientHolds'
  <2>1. \A p \in (client.cursor + 1)..far : \A s \in log[p] \cap client.view : <<s, p>> \in client.covered
    <3> SUFFICES ASSUME NEW p \in (client.cursor + 1)..far, NEW s \in log[p] \cap client.view
                 PROVE  <<s, p>> \in client.covered
      OBVIOUS
    <3>1. p \in Nat /\ p <= mark /\ p \in (ReadTo + 1)..b
      BY <1>3, <1>4, <1>5, <1>8, <1>9
    <3>2. Brings(Frames, selectors, p, log[p], client.covered)
      BY <1>7, <3>1 DEF BringsAllTo
    <3>3. /\ \A k \in DOMAIN Frames : IsViewFrame(Frames, k) => mark <= Frames[k].pos
          /\ \A k \in DOMAIN Frames : IsCommitFrame(Frames, k) =>
               \A i \in DOMAIN Frames[k].mutations : mark < Frames[k].mutations[i].position
      BY <1>1, <1>3, <1>11 DEF ClientInv, FramesHold, CommitsPast, ViewsFrom
    <3>4. ViewsFrom(Frames, p)
      <4>1. \A k \in DOMAIN Frames : IsViewFrame(Frames, k) => Frames[k].pos \in Nat
        BY <1>11, FrameData
      <4>2. QED
        BY <1>3, <3>1, <3>3, <4>1 DEF ViewsFrom
    <3>5. ~Carries(Frames, s, p)
      <4>1. \A k \in DOMAIN Frames : IsCommitFrame(Frames, k) =>
              \A i \in DOMAIN Frames[k].mutations : Frames[k].mutations[i].position \in Nat
        BY <1>11, FrameData
      <4>2. QED
        BY <1>3, <3>1, <3>3, <4>1 DEF Carries
    <3>6. QED
      BY <1>5, <3>2, <3>4, <3>5 DEF Brings
  <2>2. far <= Len(log) /\ client.cursor <= far /\ far # -1
    BY <1>3, <1>4, <1>5, <1>9, <1>10
  <2>3. QED
    BY <1>1, <1>5, <1>6, <2>1, <2>2, VouchHolds
<1>13. EntryHolds'
  BY <1>1, <1>2, <1>3, <1>11 DEF ClientInv, EntryHolds
<1>14. FramesHold'
  <2>1. pc' \notin {"switchForward", "hotReplay", "beat", "beatForward", "wait"}
    BY <1>1
  <2>2. QED
    BY <1>1, <1>2, <1>3, <1>11, <2>1 DEF ClientInv, FramesHold
<1>15. CursorHolds'
  <2>1. conn'.streaming
    BY <1>1, <1>2, <1>3 DEF ClientInv, EntryHolds
  <2>2. QED
    BY <1>1, <1>2, <1>5, <1>6, <2>1 DEF CursorHolds
<1>16. ItemsHold'
  BY <1>2 DEF ItemsHold
<1>17. FramesBring'
  <2>1. (ReadTo' + 1)..b \subseteq (ReadTo + 1)..b
    BY <1>3, <1>4, <1>8
  <2>2. BringsAllTo(b)'
    BY <1>1, <1>6, <1>7, <1>11, <2>1 DEF BringsAllTo
  <2>3. QED
    BY <1>1, <2>2 DEF FramesBring
<1>18. QED
  BY <1>12, <1>13, <1>14, <1>15, <1>16, <1>17 DEF ClientInv

-----------------------------------------------------------------------------
(* The log is read and replayed.                                           *)

\* A cold window holds what lies past the cursor, up to where it ends.
LEMMA ReadColdClient ==
  ASSUME TypeOK, CoreInv, ClientInv, ReadCold
  PROVE  ClientInv'
<1>1. /\ pc = "coldForward" /\ pc' = "coldReplay" /\ taken = <<>> /\ ~ending
      /\ items' = ReadLog(cursor + 1, cursor + ColdBatch)
      /\ mark' = IF items' = <<>> THEN cursor ELSE items'[Len(items')].position
      /\ UNCHANGED <<log, position, conn, reply, selectors, cursor, told, taken, ending, client, wire>>
  BY DEF ReadCold, Read, core, server
<1>2. /\ pc \in Started /\ pc' \in Started /\ pc \notin Streaming /\ pc' \notin Streaming
      /\ pc \notin Replaying /\ pc' \in Replaying /\ ~Forwarding'
  BY <1>1 DEF Started, Streaming, Replaying, Forwarding
<1>3. conn # NoConn /\ conn \in Conn /\ cursor \in Nat /\ told \in Nat
  BY <1>1, EntryType, TaskTypes DEF TypeOK
<1>4. ~conn.streaming
  BY <1>2, <1>3 DEF ClientInv, EntryHolds
<1>5. /\ client.view # NoView /\ selectors = client.view /\ client.cursor = told
      /\ client.cursor = cursor /\ client.cursor <= Len(log) /\ Len(log) \in Nat
  BY <1>1, <1>2, <1>4 DEF ClientInv, CursorHolds, ClientHolds, TypeOK
<1>6. PICK r \in Seq(Mutation), n \in Nat : r = items' /\ n = Len(r) /\ DOMAIN r = 1..n
  <2>1. items' \in Seq(Mutation)
    BY ReadType DEF TypeOK
  <2>2. QED
    BY <2>1, LenProperties
<1>7. /\ \A i \in 1..n : /\ r[i].position \in cursor + 1..cursor + ColdBatch /\ r[i].position <= Len(log)
                         /\ r[i].edits = log[r[i].position]
      /\ \A i, j \in 1..n : i < j => r[i].position < r[j].position
      /\ \A p \in cursor + 1..cursor + ColdBatch : p <= Len(log) /\ log[p] # {} =>
           \E i \in 1..n : r[i].position = p
  <2>1. cursor + 1 \in Nat \ {0} /\ cursor + ColdBatch \in Nat
    BY <1>3, StreamAssumption
  <2>2. ReadingOf(ReadLog(cursor + 1, cursor + ColdBatch), cursor + 1, cursor + ColdBatch)
    BY <2>1, ReadLogReads, Zenon
  <2>3. ReadingOf(r, cursor + 1, cursor + ColdBatch)
    BY <1>1, <1>6, <2>2
  <2>4. QED
    BY <1>6, <2>3 DEF ReadingOf
<1>8. r = <<>> <=> n = 0
  BY <1>6, EmptySeq
<1>9. /\ r = <<>> => mark' = cursor
      /\ r # <<>> => n \in 1..n /\ mark' = r[n].position /\ cursor < mark' /\ mark' <= cursor + ColdBatch
                     /\ \A i \in 1..n : r[i].position <= mark'
      /\ mark' \in Nat /\ mark' <= Len(log) /\ cursor <= mark'
  <2>1. CASE r = <<>>
    BY <1>1, <1>3, <1>5, <1>6, <2>1
  <2>2. CASE r # <<>>
    <3>1. n \in 1..n /\ mark' = r[n].position
      BY <1>1, <1>6, <1>8, <2>2
    <3>2. r[n].position \in cursor + 1..cursor + ColdBatch /\ r[n].position <= Len(log)
      BY <1>7, <3>1
    <3>3. \A i \in 1..n : r[i].position \in Nat /\ (i = n \/ i < n)
      BY <1>3, <1>7
    <3>4. \A i \in 1..n : r[i].position <= r[n].position
      BY <1>7, <3>1, <3>2, <3>3, <1>3
    <3>5. cursor < r[n].position /\ r[n].position <= cursor + ColdBatch /\ r[n].position \in Nat
      BY <1>3, <3>2, StreamAssumption
    <3>6. cursor <= r[n].position
      BY <1>3, <3>5
    <3>7. QED
      BY <2>2, <3>1, <3>2, <3>4, <3>5, <3>6
  <2>3. QED
    BY <2>1, <2>2
<1>10. Frames' = Frames
  BY <1>1 DEF Frames
<1>11. ClientHolds'
  BY <1>1 DEF ClientInv, ClientHolds, CursorSkipsNothing, EachEditOnce
<1>12. EntryHolds'
  BY <1>1, <1>2, <1>3, <1>10 DEF ClientInv, EntryHolds
<1>13. FramesHold'
  BY <1>1, <1>2, <1>3, <1>10 DEF ClientInv, FramesHold
<1>14. CursorHolds'
  <2>1. mark' = cursor => items' = <<>>
    BY <1>3, <1>6, <1>9
  <2>2. told = cursor
    BY <1>5
  <2>3. QED
    BY <1>1, <1>2, <1>3, <1>4, <1>5, <1>9, <2>1, <2>2 DEF CursorHolds
<1>15. ItemsHold'
  <2>1. \A i \in 1..n : client.cursor < r[i].position /\ r[i].position <= mark'
    <3> SUFFICES ASSUME NEW i \in 1..n PROVE client.cursor < r[i].position /\ r[i].position <= mark'
      OBVIOUS
    <3>1. r # <<>>
      BY <1>8
    <3>2. r[i].position \in cursor + 1..cursor + ColdBatch
      BY <1>7
    <3>3. cursor < r[i].position
      BY <1>3, <3>2, StreamAssumption
    <3>4. QED
      BY <1>5, <1>9, <3>1, <3>3
  <2>2. ASSUME NEW p \in (client.cursor + 1)..mark', NEW s \in log[p] \cap selectors
        PROVE  \E i \in 1..n : r[i].position = p /\ s \in r[i].edits
    <3>1. r # <<>>
      BY <1>3, <1>5, <1>9
    <3>2. p \in cursor + 1..cursor + ColdBatch /\ p <= Len(log)
      BY <1>3, <1>5, <1>9, <3>1, StreamAssumption
    <3>3. PICK i \in 1..n : r[i].position = p
      BY <1>7, <3>2
    <3>4. r[i].edits = log[p]
      BY <1>7, <3>3
    <3>5. QED
      BY <3>3, <3>4
  <2>3. QED
    BY <1>1, <1>6, <1>7, <2>1, <2>2 DEF ItemsHold
<1>16. FramesBring'
  BY <1>2 DEF FramesBring
<1>17. QED
  BY <1>11, <1>12, <1>13, <1>14, <1>15, <1>16 DEF ClientInv

\* The hot catchup reads through the position published at the switch.
LEMMA ReadHotClient ==
  ASSUME TypeOK, CoreInv, ClientInv, ReadHot
  PROVE  ClientInv'
<1>1. /\ pc = "switchForward" /\ pc' = "hotReplay" /\ taken = <<>> /\ ~ending
      /\ items' = ReadLog(cursor + 1, mark)
      /\ UNCHANGED <<log, position, conn, reply, selectors, cursor, told, taken, ending, mark, client, wire>>
  BY DEF ReadHot, Read, core, server
<1>2. /\ pc \in Started /\ pc' \in Started /\ pc \in Streaming /\ pc' \in Streaming
      /\ pc \notin Replaying /\ pc' \in Replaying /\ ~Forwarding'
  BY <1>1 DEF Started, Streaming, Replaying, Forwarding
<1>3. conn # NoConn /\ conn \in Conn /\ cursor \in Nat /\ mark \in Nat /\ position \in Nat
  BY <1>1, EntryType, TaskTypes DEF TypeOK
<1>4. ~Doomed /\ (Leads(taken, client.view, selectors) => selectors = client.view)
  BY <1>1, NoFrames DEF Doomed
<1>5. client.view # NoView /\ selectors = client.view /\ client.cursor = cursor
  BY <1>1, <1>2, <1>4 DEF ClientInv, CursorHolds
<1>6. mark <= position /\ position <= Len(log) /\ Len(log) \in Nat
  BY <1>1, <1>3 DEF ClientInv, FramesHold, CoreInv, ResultsHold, TypeOK
<1>7. /\ \A i \in DOMAIN items' : /\ items'[i].position \in cursor + 1..mark
                                  /\ items'[i].edits = log[items'[i].position]
      /\ \A i, j \in DOMAIN items' : i < j => items'[i].position < items'[j].position
      /\ \A p \in cursor + 1..mark : p <= Len(log) /\ log[p] # {} =>
           \E i \in DOMAIN items' : items'[i].position = p
  <2>1. cursor + 1 \in Nat \ {0}
    BY <1>3
  <2>2. ReadingOf(ReadLog(cursor + 1, mark), cursor + 1, mark)
    BY <1>3, <2>1, ReadLogReads, Zenon
  <2>3. ReadingOf(items', cursor + 1, mark)
    BY <1>1, <2>2
  <2>4. QED
    BY <2>3 DEF ReadingOf
<1>8. Frames' = Frames
  BY <1>1 DEF Frames
<1>9. ClientHolds'
  BY <1>1 DEF ClientInv, ClientHolds, CursorSkipsNothing, EachEditOnce
<1>10. EntryHolds'
  BY <1>1, <1>2, <1>3, <1>8 DEF ClientInv, EntryHolds
<1>11. FramesHold'
  BY <1>1, <1>2, <1>3, <1>8 DEF ClientInv, FramesHold
<1>12. CursorHolds'
  <2>1. conn'.streaming
    BY <1>1, <1>2, <1>3 DEF ClientInv, EntryHolds
  <2>2. cursor <= client.cursor /\ client.cursor <= Larger(cursor, mark)
    BY <1>3, <1>5 DEF Larger
  <2>3. (cursor <= client.cursor /\ client.cursor <= Larger(cursor, mark))'
    BY <1>1, <2>2 DEF Larger
  <2>4. QED
    BY <1>1, <1>2, <1>5, <2>1, <2>3 DEF CursorHolds
<1>13. ItemsHold'
  <2>1. \A i \in DOMAIN items' : client.cursor < items'[i].position /\ items'[i].position <= mark
    BY <1>3, <1>5, <1>7
  <2>2. ASSUME NEW p \in (client.cursor + 1)..mark, NEW s \in log[p] \cap selectors
        PROVE  \E i \in DOMAIN items' : items'[i].position = p /\ s \in items'[i].edits
    <3>1. p \in cursor + 1..mark /\ p <= Len(log)
      BY <1>3, <1>5, <1>6
    <3>2. PICK i \in DOMAIN items' : items'[i].position = p
      BY <1>7, <3>1
    <3>3. items'[i].edits = log[p]
      BY <1>7, <3>2
    <3>4. QED
      BY <3>2, <3>3
  <2>3. QED
    BY <1>1, <1>7, <2>1, <2>2 DEF ItemsHold
<1>14. FramesBring'
  <2>1. PICK b \in 0..position : BringsAllTo(b)
    BY <1>2 DEF ClientInv, FramesBring
  <2>2. ReadTo' = ReadTo
    BY <1>1 DEF ReadTo, Larger
  <2>3. BringsAllTo(b)'
    BY <1>1, <1>8, <2>1, <2>2 DEF BringsAllTo
  <2>4. QED
    BY <1>1, <2>3 DEF FramesBring
<1>15. QED
  BY <1>9, <1>10, <1>11, <1>12, <1>13, <1>14 DEF ClientInv

\* An edits frame the client had no later one of.
LEMMA EditHolds ==
  ASSUME TypeOK, ClientInv, NEW m \in Mutation, m.position \in 1..MaxPosition, client' \in Client,
         client.view # NoView, client.cursor < m.position, m.position <= Len(log),
         client'.cursor = m.position, client'.view = client.view,
         client'.covered = client.covered \cup {<<s, m.position>> : s \in m.edits \cap selectors},
         wire' = Append(wire, m.position), log' = log,
         \A p \in (client.cursor + 1)..m.position : \A s \in log[p] \cap client.view :
           <<s, p>> \in client.covered \/ (p = m.position /\ s \in m.edits \cap selectors)
  PROVE  ClientHolds'
<1>1. PICK q \in Nat : q = m.position
  BY StreamAssumption
<1>2. client.cursor \in Int /\ Len(log) \in Int
  BY ClientType DEF TypeOK
<1>3. CursorSkipsNothing'
  <2> SUFFICES ASSUME NEW p \in 1..q, NEW s \in log[p] \cap client.view
               PROVE  <<s, p>> \in client'.covered
    BY <1>1 DEF CursorSkipsNothing
  <2>1. CASE p <= client.cursor
    <3>1. p \in 1..client.cursor
      BY <1>2, <2>1
    <3>2. QED
      BY <3>1 DEF ClientInv, ClientHolds, CursorSkipsNothing
  <2>2. CASE p > client.cursor
    <3>1. p \in (client.cursor + 1)..m.position
      BY <1>1, <1>2, <2>2
    <3>2. QED
      BY <3>1
  <2>3. QED
    BY <1>2, <2>1, <2>2
<1>4. PICK n \in Nat : /\ n = Len(wire) /\ DOMAIN wire = 1..n /\ Len(wire') = n + 1 /\ DOMAIN wire' = 1..n + 1
                       /\ wire'[n + 1] = q /\ \A i \in 1..n : wire'[i] = wire[i]
  <2>1. wire \in Seq(Nat)
    BY StreamAssumption DEF TypeOK
  <2>2. \A w \in Seq(Nat) : /\ Len(w) \in Nat /\ DOMAIN w = 1..Len(w) /\ Len(Append(w, q)) = Len(w) + 1
                            /\ DOMAIN Append(w, q) = 1..Len(w) + 1 /\ Append(w, q)[Len(w) + 1] = q
                            /\ \A i \in 1..Len(w) : Append(w, q)[i] = w[i]
    OBVIOUS
  <2>3. QED
    BY <1>1, <2>1, <2>2
<1>5. \A i \in 1..n : wire[i] \in Int /\ wire[i] < q
  <2>1. \A i \in DOMAIN wire : wire[i] \in Nat /\ wire[i] <= client.cursor
    BY StreamAssumption DEF ClientInv, ClientHolds, TypeOK
  <2>2. QED
    BY <1>1, <1>2, <1>4, <2>1
<1>6. \A i \in 1..n + 1 : wire'[i] <= q
  BY <1>1, <1>4, <1>5
<1>7. EachEditOnce'
  <2>1. \A i \in 1..n - 1 : wire[i] < wire[i + 1]
    BY <1>4 DEF ClientInv, ClientHolds, EachEditOnce
  <2>2. ASSUME NEW i \in 1..n PROVE wire'[i] < wire'[i + 1]
    <3>1. CASE i = n
      BY <1>4, <1>5, <3>1
    <3>2. CASE i # n
      <4>1. i \in 1..n - 1 /\ i + 1 \in 1..n
        BY <3>2
      <4>2. QED
        BY <1>4, <2>1, <4>1
    <3>3. QED
      BY <3>1, <3>2
  <2>3. Len(wire') - 1 = n
    BY <1>4
  <2>4. QED
    BY <2>2, <2>3 DEF EachEditOnce
<1>8. client'.view # NoView /\ client'.cursor # -1 /\ client'.cursor <= Len(log')
  BY <1>1
<1>9. QED
  BY <1>1, <1>3, <1>4, <1>6, <1>7, <1>8 DEF ClientHolds

\* A mutation replayed brings the client to its position.
LEMMA ReplayClient ==
  ASSUME TypeOK, CoreInv, ClientInv, Replay
  PROVE  ClientInv'
<1>1. PICK m \in Mutation, n \in Nat :
        /\ m = Head(items) /\ DOMAIN items = 1..n + 1 /\ DOMAIN items' = 1..n /\ m = items[1]
        /\ \A i \in 1..n : items'[i] = items[i + 1]
        /\ m.position \in 1..MaxPosition /\ m.edits \in SUBSET Slices
  <2>1. items # <<>> /\ items' = Tail(items) /\ items \in Seq(Mutation)
    BY DEF Replay, TypeOK
  <2>2. Len(items) \in Nat /\ Len(items) # 0 /\ DOMAIN items = 1..Len(items)
    BY <2>1, EmptySeq, LenProperties
  <2>3. Head(items) = items[1] /\ items[1] \in Mutation
    BY <2>1, <2>2
  <2>4. /\ Len(Tail(items)) = Len(items) - 1 /\ DOMAIN Tail(items) = 1..Len(items) - 1
        /\ \A i \in 1..Len(items) - 1 : Tail(items)[i] = items[i + 1]
    BY <2>1, <2>2
  <2>5. Len(items) - 1 \in Nat /\ (Len(items) - 1) + 1 = Len(items)
    BY <2>2
  <2>6. items[1].position \in 1..MaxPosition /\ items[1].edits \in SUBSET Slices
    BY <2>3 DEF Mutation
  <2>7. QED
    BY <2>1, <2>2, <2>3, <2>4, <2>5, <2>6
<1>2. /\ pc \in {"coldReplay", "hotReplay"} /\ items # <<>> /\ pc' = pc
      /\ IF m.edits \cap selectors # {}
         THEN /\ GetsEdits(m.position, m.edits \cap selectors) /\ wire' = Append(wire, m.position)
              /\ told' = m.position
         ELSE UNCHANGED <<client, wire, told>>
      /\ UNCHANGED <<log, position, conn, reply, selectors, cursor, taken, ending, mark>>
  BY <1>1 DEF Replay, core, server
<1>3. /\ pc \in Started /\ pc \in Replaying /\ ~Forwarding /\ (pc = "hotReplay" <=> pc \in Streaming)
  BY <1>2 DEF Started, Streaming, Replaying, Forwarding
<1>4. /\ conn # NoConn /\ conn \in Conn /\ cursor \in Nat /\ mark \in Nat /\ position \in Nat /\ told \in Nat
      /\ selectors \in SUBSET Slices
  BY <1>2, EntryType, TaskTypes DEF TypeOK
<1>5. client.view # NoView /\ selectors = client.view
  BY <1>2, <1>3 DEF ClientInv, CursorHolds
<1>6. mark <= Len(log) /\ Len(log) \in Nat /\ client.cursor \in Int
  <2>1. pc = "hotReplay" => mark <= position
    BY <1>2, <1>4 DEF ClientInv, FramesHold
  <2>2. pc = "coldReplay" => mark <= Len(log)
    BY <1>3 DEF ClientInv, CursorHolds
  <2>3. position <= Len(log) /\ Len(log) \in Nat /\ client.cursor \in Int
    BY ClientType DEF CoreInv, ResultsHold, TypeOK
  <2>4. QED
    BY <1>2, <1>4, <2>1, <2>2, <2>3
<1>7. PICK q \in Nat : q = m.position /\ client.cursor < q /\ q <= mark
  <2>1. 1 \in DOMAIN items
    BY <1>1
  <2>2. client.cursor < m.position /\ m.position <= mark
    BY <1>1, <1>3, <2>1 DEF ClientInv, ItemsHold
  <2>3. QED
    BY <1>1, <2>2, StreamAssumption
<1>8. \A i \in 2..n + 1 : q < items[i].position
  <2> SUFFICES ASSUME NEW i \in 2..n + 1 PROVE q < items[i].position
    OBVIOUS
  <2>1. 1 \in DOMAIN items /\ i \in DOMAIN items /\ 1 < i
    BY <1>1
  <2>2. items[1].position < items[i].position
    BY <1>3, <2>1 DEF ClientInv, ItemsHold
  <2>3. QED
    BY <1>1, <1>7, <2>2
<1>9. \A p \in (client.cursor + 1)..mark : \A s \in log[p] \cap selectors :
         <<s, p>> \in client.covered \/ \E i \in 1..n + 1 : items[i].position = p /\ s \in items[i].edits
  BY <1>1, <1>3 DEF ClientInv, ItemsHold
<1>10. IF m.edits \cap selectors # {}
       THEN /\ client' \in Client /\ client'.cursor = q /\ client'.view = client.view /\ told' = q
            /\ client'.covered = client.covered \cup {<<s, q>> : s \in m.edits \cap selectors}
       ELSE client' = client /\ told' = told /\ wire' = wire
  <2>1. CASE m.edits \cap selectors # {}
    <3>1. GetsEdits(m.position, m.edits \cap selectors) /\ m.edits \cap selectors \in SUBSET Slices
      BY <1>1, <1>2, <2>1
    <3>2. Larger(client.cursor, m.position) = m.position
      BY <1>6, <1>7 DEF Larger
    <3>3. QED
      BY <1>1, <1>2, <1>7, <2>1, <3>1, <3>2, AfterEdits
  <2>2. QED
    BY <1>2, <2>1
<1>11. client.covered \subseteq client'.covered /\ client'.view = client.view /\ client'.view # NoView
  BY <1>5, <1>10
<1>12. ClientHolds'
  <2>1. CASE m.edits \cap selectors # {}
    <3>1. \A p \in (client.cursor + 1)..m.position : \A s \in log[p] \cap client.view :
            <<s, p>> \in client.covered \/ (p = m.position /\ s \in m.edits \cap selectors)
      <4> SUFFICES ASSUME NEW p \in (client.cursor + 1)..q, NEW s \in log[p] \cap selectors,
                          <<s, p>> \notin client.covered
                   PROVE  p = q /\ s \in m.edits
        BY <1>5, <1>7
      <4>1. p \in (client.cursor + 1)..mark
        BY <1>4, <1>6, <1>7
      <4>2. PICK i \in 1..n + 1 : items[i].position = p /\ s \in items[i].edits
        BY <1>9, <4>1
      <4>3. i \notin 2..n + 1
        BY <1>6, <1>8, <4>2
      <4>4. i = 1
        BY <4>3
      <4>5. QED
        BY <1>1, <1>7, <4>2, <4>4
    <3>2. m.position <= Len(log)
      BY <1>4, <1>6, <1>7
    <3>3. QED
      BY <1>1, <1>2, <1>5, <1>7, <1>10, <2>1, <3>1, <3>2, EditHolds
  <2>2. CASE m.edits \cap selectors = {}
    BY <1>2, <1>10, <2>2 DEF ClientInv, ClientHolds, CursorSkipsNothing, EachEditOnce
  <2>3. QED
    BY <2>1, <2>2
<1>13. Frames' = Frames
  BY <1>2 DEF Frames
<1>14. EntryHolds'
  <2>1. pc' \notin {"none", "wait", "replied"}
    BY <1>2
  <2>2. QED
    BY <1>2, <1>3, <1>4, <1>13, <2>1 DEF ClientInv, EntryHolds
<1>15. FramesHold'
  BY <1>2, <1>3, <1>4, <1>13 DEF ClientInv, FramesHold, Forwarding
<1>16. CursorHolds'
  <2>1. ~conn.streaming => client'.cursor = told'
    BY <1>3, <1>10 DEF ClientInv, CursorHolds
  <2>2. pc = "coldReplay" => cursor <= told' /\ told' <= mark /\ mark <= Len(log) /\ mark # cursor
    <3>1. pc = "coldReplay" => cursor <= told /\ told <= mark /\ mark # cursor /\ client.cursor = told
      <4>1. pc = "coldReplay" => ~conn.streaming
        BY <1>2, <1>4 DEF ClientInv, EntryHolds, Streaming
      <4>2. QED
        BY <1>2, <1>3, <4>1 DEF ClientInv, CursorHolds
    <3>2. QED
      BY <1>4, <1>6, <1>7, <1>10, <3>1
  <2>3. pc = "hotReplay" => cursor <= client'.cursor /\ client'.cursor <= Larger(cursor, mark)
    <3>1. pc = "hotReplay" => cursor <= client.cursor /\ client.cursor <= Larger(cursor, mark)
      BY <1>3 DEF ClientInv, CursorHolds
    <3>2. Larger(cursor, mark) \in Nat /\ mark <= Larger(cursor, mark)
      BY <1>4 DEF Larger
    <3>3. QED
      BY <1>4, <1>6, <1>7, <1>10, <3>1, <3>2
  <2>4. Larger(cursor, mark)' = Larger(cursor, mark)
    BY <1>2 DEF Larger
  <2>5. pc' # "switchForward" /\ pc' \in Replaying
    BY <1>2, <1>3
  <2>6. QED
    BY <1>2, <1>5, <1>11, <2>1, <2>2, <2>3, <2>4, <2>5 DEF CursorHolds
<1>17. ItemsHold'
  <2>1. \A i \in 1..n : i + 1 \in 2..n + 1 /\ i + 1 \in 1..n + 1
    OBVIOUS
  <2>2. \A i \in 1..n : client'.cursor < items'[i].position /\ items'[i].position <= mark
    <3> SUFFICES ASSUME NEW i \in 1..n PROVE client'.cursor < items'[i].position /\ items'[i].position <= mark
      OBVIOUS
    <3>1. items'[i] = items[i + 1] /\ i + 1 \in 1..n + 1 /\ q < items[i + 1].position
      BY <1>1, <1>8, <2>1
    <3>2. client.cursor < items[i + 1].position /\ items[i + 1].position <= mark
      BY <1>1, <1>3, <3>1 DEF ClientInv, ItemsHold
    <3>3. QED
      BY <1>10, <3>1, <3>2
  <2>3. \A i, j \in 1..n : i < j => items'[i].position < items'[j].position
    <3> SUFFICES ASSUME NEW i \in 1..n, NEW j \in 1..n, i < j PROVE items'[i].position < items'[j].position
      OBVIOUS
    <3>1. i + 1 < j + 1 /\ i + 1 \in 1..n + 1 /\ j + 1 \in 1..n + 1
      OBVIOUS
    <3>2. items[i + 1].position < items[j + 1].position
      BY <1>1, <1>3, <3>1 DEF ClientInv, ItemsHold
    <3>3. QED
      BY <1>1, <3>2
  <2>4. ASSUME NEW p \in (client'.cursor + 1)..mark, NEW s \in log[p] \cap selectors
        PROVE  <<s, p>> \in client'.covered \/ \E i \in 1..n : items'[i].position = p /\ s \in items'[i].edits
    <3>1. p \in (client.cursor + 1)..mark
      BY <1>4, <1>6, <1>7, <1>10
    <3>2. ASSUME NEW i \in 1..n + 1, items[i].position = p, s \in items[i].edits
          PROVE  <<s, p>> \in client'.covered \/ \E k \in 1..n : items'[k].position = p /\ s \in items'[k].edits
      <4>1. CASE i = 1
        <5>1. p = q /\ s \in m.edits \cap selectors
          BY <1>1, <1>7, <2>4, <3>2, <4>1
        <5>2. QED
          BY <1>10, <5>1
      <4>2. CASE i # 1
        <5>1. i - 1 \in 1..n /\ (i - 1) + 1 = i
          BY <4>2
        <5>2. QED
          BY <1>1, <3>2, <5>1
      <4>3. QED
        BY <4>1, <4>2
    <3>3. QED
      BY <1>9, <1>11, <2>4, <3>1, <3>2
  <2>5. QED
    BY <1>1, <1>2, <2>2, <2>3, <2>4 DEF ItemsHold
<1>18. FramesBring'
  <2> SUFFICES ASSUME pc \in Streaming PROVE FramesBring'
    BY <1>2 DEF FramesBring
  <2>1. PICK b \in 0..position : BringsAllTo(b)
    BY DEF ClientInv, FramesBring
  <2>2. ReadTo' = ReadTo
    BY <1>2 DEF ReadTo, Larger
  <2>3. \A p \in (ReadTo + 1)..b : Brings(Frames, selectors, p, log[p], client'.covered)
    BY <1>11, <2>1, BringsMore DEF BringsAllTo
  <2>4. pc' # "beatForward"
    BY <1>2
  <2>5. BringsAllTo(b)'
    BY <1>2, <1>13, <2>1, <2>2, <2>3, <2>4 DEF BringsAllTo
  <2>6. QED
    BY <1>2, <2>5 DEF FramesBring
<1>19. QED
  BY <1>12, <1>14, <1>15, <1>16, <1>17, <1>18 DEF ClientInv

\* The stream's first frame, the view, unless the client presented its token.
LEMMA StartClient ==
  ASSUME TypeOK, CoreInv, ClientInv, Start
  PROVE  ClientInv'
<1> DEFINE from == IF client.cursor >= 0 THEN client.cursor ELSE reply.position
<1>1. /\ pc = "replied" /\ reply.ok /\ ~conn.revoked /\ pc' = "cold"
      /\ selectors' = conn.view /\ cursor' = from /\ told' = from
      /\ IF client.view = conn.view THEN UNCHANGED client ELSE SeesView(conn.view, from)
      /\ UNCHANGED <<log, position, conn, reply, taken, ending, items, mark, wire>>
  BY DEF Start, core, server
<1>2. /\ pc \notin Started /\ pc' \in Started /\ pc \notin Streaming /\ pc' \notin Streaming
      /\ pc' \notin Replaying /\ ~Forwarding' /\ ~Forwarding
  BY <1>1 DEF Started, Streaming, Replaying, Forwarding
<1>3. conn # NoConn /\ conn \in Conn /\ conn.view \in {NoView} \cup SUBSET Slices /\ reply.position \in Positions
  BY <1>1, EntryType, TaskTypes DEF TypeOK
<1>4. conn.view # NoView /\ conn.view \in SUBSET Slices /\ reply.position <= Len(log) /\ ~conn.streaming
  BY <1>1, <1>2, <1>3 DEF ClientInv, EntryHolds
<1>5. /\ client.cursor \in Int /\ client.cursor <= Len(log) /\ (client.cursor = -1 <=> client.view = NoView)
      /\ (client.cursor = -1 \/ client.cursor >= 0) /\ Len(log) \in Nat
  BY ClientType DEF ClientInv, ClientHolds, TypeOK
<1>6. from \in Positions /\ from \in Nat /\ from <= Len(log) /\ client.cursor <= from
      /\ (client.cursor # -1 => from = client.cursor)
  BY <1>3, <1>4, <1>5, ClientType, StreamAssumption DEF Positions
<1> HIDE DEF from
<1>7. taken = <<>> /\ items = <<>> /\ ~ending
  BY <1>1 DEF ClientInv, EntryHolds
<1>8. /\ client' \in Client /\ client'.cursor = from /\ client'.view = conn.view
      /\ \A p \in 1..from : \A s \in log[p] \cap conn.view : <<s, p>> \in client'.covered
  <2>1. CASE client.view = conn.view
    <3>1. client' = client /\ client.cursor = from
      BY <1>1, <1>4, <1>5, <1>6, <2>1
    <3>2. QED
      BY <1>4, <2>1, <3>1, ClientType DEF ClientInv, ClientHolds, CursorSkipsNothing
  <2>2. CASE client.view # conn.view
    <3>1. SeesView(conn.view, from)
      BY <1>1, <2>2
    <3>2. Backfills(conn.view, from)
      BY <1>4, <1>6, <3>1, AfterView, Zenon
    <3>3. ASSUME NEW p \in 1..from, NEW s \in log[p] \cap conn.view, <<s, p>> \notin client'.covered
          PROVE  FALSE
      <4>1. client.view # NoView /\ s \in client.view
        BY <3>2, <3>3 DEF Backfills
      <4>2. p \in 1..client.cursor
        BY <1>5, <1>6, <4>1
      <4>3. <<s, p>> \in client.covered
        BY <4>1, <4>2 DEF ClientInv, ClientHolds, CursorSkipsNothing
      <4>4. <<s, p>>[1] = s
        OBVIOUS
      <4>5. QED
        BY <3>2, <3>3, <4>1, <4>3, <4>4 DEF Backfills
    <3>4. QED
      BY <1>6, <3>2, <3>3 DEF Backfills
  <2>3. QED
    BY <2>1, <2>2
<1>9. ClientHolds'
  <2>1. \A i \in DOMAIN wire : wire[i] <= from
    <3>1. \A i \in DOMAIN wire : wire[i] \in Nat /\ wire[i] <= client.cursor
      BY StreamAssumption DEF ClientInv, ClientHolds, TypeOK
    <3>2. QED
      BY <1>5, <1>6, <3>1
  <2>2. CursorSkipsNothing'
    BY <1>1, <1>8 DEF CursorSkipsNothing
  <2>3. from # -1
    BY <1>6
  <2>4. EachEditOnce'
    BY <1>1 DEF ClientInv, ClientHolds, EachEditOnce
  <2>5. QED
    BY <1>1, <1>4, <1>6, <1>8, <2>1, <2>2, <2>3, <2>4 DEF ClientHolds
<1>10. Frames' = Frames
  BY <1>1 DEF Frames
<1>11. EntryHolds'
  BY <1>1, <1>2, <1>3, <1>4, <1>7, <1>10 DEF ClientInv, EntryHolds
<1>12. FramesHold'
  <2>1. conn.active => Leads(Frames, conn.view, conn.view)
    BY <1>1, <1>2, <1>3 DEF ClientInv, FramesHold
  <2>2. QED
    BY <1>1, <1>2, <1>3, <1>7, <1>10, <2>1 DEF ClientInv, FramesHold
<1>13. CursorHolds'
  BY <1>1, <1>2, <1>4, <1>7, <1>8 DEF CursorHolds
<1>14. ItemsHold' /\ FramesBring'
  BY <1>2 DEF ItemsHold, FramesBring
<1>15. QED
  BY <1>9, <1>11, <1>12, <1>13, <1>14 DEF ClientInv

-----------------------------------------------------------------------------
(* The task forwards what it took.                                         *)

Joins(F, A, B, a, b) ==
  /\ DOMAIN A = 1..a /\ DOMAIN B = 1..b /\ DOMAIN F = 1..a + b /\ Len(F) = a + b
  /\ \A k \in 1..a : F[k] = A[k]
  /\ \A k \in 1..b : F[a + k] = B[k]

\* Frames taken and frames of the backlog, one behind the other.
LEMMA ConcatFrames ==
  ASSUME NEW A \in Seq(Frame), NEW B \in Seq(Frame), NEW a \in Nat, a = Len(A), NEW b \in Nat, b = Len(B)
  PROVE  \E F \in Seq(Frame) : F = A \o B /\ Joins(F, A, B, a, b)
<1>1. PICK F \in Seq(Frame) : F = A \o B
  BY ConcatProperties
<1>2. /\ DOMAIN A = 1..a /\ DOMAIN B = 1..b /\ DOMAIN F = 1..a + b /\ Len(F) = a + b
      /\ \A k \in 1..a : F[k] = A[k]
      /\ \A k \in 1..b : F[a + k] = B[k]
  BY <1>1
<1>3. Joins(F, A, B, a, b)
  BY <1>2 DEF Joins
<1>4. QED
  BY <1>1, <1>3

\* The frames behind the first.
LEMMA TailFrames ==
  ASSUME NEW A \in Seq(Frame), A # <<>>
  PROVE  \E a \in Nat, T \in Seq(Frame) :
           /\ Len(A) = a + 1 /\ DOMAIN A = 1..a + 1 /\ T = Tail(A) /\ Len(T) = a /\ DOMAIN T = 1..a
           /\ \A k \in 1..a : T[k] = A[k + 1]
<1>1. PICK n \in Nat : n = Len(A) /\ n # 0 /\ DOMAIN A = 1..n
  BY EmptySeq, LenProperties
<1>2. PICK a \in Nat : a = n - 1 /\ n = a + 1
  <2>1. n - 1 \in Nat /\ n = (n - 1) + 1
    BY <1>1
  <2>2. QED
    BY <2>1
<1>3. Tail(A) \in Seq(Frame) /\ Len(Tail(A)) = n - 1 /\ \A k \in 1..n - 1 : Tail(A)[k] = A[k + 1]
  BY <1>1, HeadTailProperties
<1>4. PICK T \in Seq(Frame) : T = Tail(A)
  BY <1>3
<1>5. Len(T) = a /\ DOMAIN T = 1..a /\ \A k \in 1..a : T[k] = A[k + 1]
  BY <1>2, <1>3, <1>4, LenProperties
<1>6. QED
  BY <1>1, <1>2, <1>4, <1>5

\* The first of the frames taken is the first of all.
LEMMA FrontFrames ==
  ASSUME NEW A \in Seq(Frame), NEW B \in Seq(Frame), A # <<>>
  PROVE  /\ A \o B \in Seq(Frame) /\ A \o B # <<>> /\ (A \o B)[1] = A[1] /\ Head(A) = A[1]
         /\ A[1] \in Frame /\ Tail(A) \in Seq(Frame) /\ Tail(A) \o B = Tail(A \o B)
         /\ InOrder(A \o B) => InOrder(A)
<1>1. PICK a \in Nat, T \in Seq(Frame) :
        /\ Len(A) = a + 1 /\ DOMAIN A = 1..a + 1 /\ T = Tail(A) /\ Len(T) = a /\ DOMAIN T = 1..a
        /\ \A k \in 1..a : T[k] = A[k + 1]
  BY TailFrames
<1>2. PICK b \in Nat : b = Len(B)
  BY LenProperties
<1>3. PICK F \in Seq(Frame) : F = A \o B /\ Joins(F, A, B, a + 1, b)
  <2>1. a + 1 \in Nat /\ a + 1 = Len(A)
    BY <1>1
  <2>2. QED
    BY <1>2, <2>1, ConcatFrames, Zenon
<1>4. /\ F = A \o B /\ DOMAIN F = 1..(a + 1) + b /\ Len(F) = (a + 1) + b
      /\ \A k \in 1..a + 1 : F[k] = A[k]
      /\ \A k \in 1..b : F[(a + 1) + k] = B[k]
  BY <1>3 DEF Joins
<1>5. F # <<>> /\ F[1] = A[1] /\ Head(A) = A[1] /\ A[1] \in Frame
  BY <1>1, <1>4, EmptySeq
<1>6. T \o B = Tail(F)
  <2>1. PICK G \in Seq(Frame) : G = T \o B /\ Joins(G, T, B, a, b)
    BY <1>1, <1>2, ConcatFrames, Zenon
  <2>2. /\ G = T \o B /\ DOMAIN G = 1..a + b /\ Len(G) = a + b
        /\ \A k \in 1..a : G[k] = T[k]
        /\ \A k \in 1..b : G[a + k] = B[k]
    BY <2>1 DEF Joins
  <2>3. PICK c \in Nat, H \in Seq(Frame) :
          /\ Len(F) = c + 1 /\ H = Tail(F) /\ Len(H) = c /\ DOMAIN H = 1..c
          /\ \A k \in 1..c : H[k] = F[k + 1]
    BY <1>5, TailFrames
  <2>4. c = a + b
    BY <1>4, <2>3
  <2>5. ASSUME NEW k \in 1..a + b PROVE G[k] = H[k]
    <3>1. H[k] = F[k + 1]
      BY <2>3, <2>4
    <3>2. CASE k <= a
      <4>1. k \in 1..a /\ k + 1 \in 1..a + 1
        BY <3>2
      <4>2. QED
        BY <1>1, <1>4, <2>2, <3>1, <4>1
    <3>3. CASE k > a
      <4>1. PICK i \in 1..b : k = a + i /\ k + 1 = (a + 1) + i
        <5>1. k - a \in 1..b /\ k = a + (k - a) /\ k + 1 = (a + 1) + (k - a)
          BY <3>3
        <5>2. QED
          BY <5>1
      <4>2. G[k] = B[i] /\ F[k + 1] = B[i]
        BY <1>4, <2>2, <4>1
      <4>3. QED
        BY <3>1, <4>2
    <3>4. QED
      BY <3>2, <3>3
  <2>6. G = H
    BY <2>2, <2>3, <2>4, <2>5, SeqEqual
  <2>7. QED
    BY <2>2, <2>3, <2>6
<1>7. ASSUME InOrder(F) PROVE InOrder(A)
  <2>1. \A k \in DOMAIN A : /\ k \in DOMAIN F /\ F[k] = A[k]
                            /\ (IsViewFrame(F, k) <=> IsViewFrame(A, k))
                            /\ (IsCommitFrame(F, k) <=> IsCommitFrame(A, k))
                            /\ (IsEnd(F, k) <=> IsEnd(A, k))
    <3>1. \A k \in DOMAIN A : k \in DOMAIN F /\ F[k] = A[k]
      BY <1>1, <1>4
    <3>2. QED
      BY <3>1 DEF IsViewFrame, IsCommitFrame, IsEnd
  <2>2. QED
    BY <1>7, <2>1 DEF InOrder
<1>8. QED
  BY <1>1, <1>4, <1>5, <1>6, <1>7

\* The first frame replaced by another.
LEMMA CutFrames ==
  ASSUME NEW A \in Seq(Frame), NEW g \in Frame, A # <<>>
  PROVE  \E C \in Seq(Frame) : /\ C = <<g>> \o Tail(A) /\ DOMAIN C = DOMAIN A /\ C[1] = g /\ Len(C) = Len(A)
                               /\ \A k \in DOMAIN A : k # 1 => C[k] = A[k]
<1>1. PICK a \in Nat, T \in Seq(Frame) :
        /\ a + 1 = Len(A) /\ DOMAIN A = 1..a + 1 /\ T = Tail(A) /\ Len(T) = a /\ DOMAIN T = 1..a
        /\ \A k \in 1..a : T[k] = A[k + 1]
  BY TailFrames
<1>2. <<g>> \in Seq(Frame) /\ Len(<<g>>) = 1 /\ <<g>>[1] = g
  OBVIOUS
<1>3. /\ <<g>> \o T \in Seq(Frame) /\ Len(<<g>> \o T) = 1 + a /\ (<<g>> \o T)[1] = g
      /\ \A k \in 1..a : (<<g>> \o T)[1 + k] = T[k]
  BY <1>1, <1>2
<1>4. ASSUME NEW k \in 1..a + 1, k # 1 PROVE (<<g>> \o T)[k] = A[k]
  <2>1. k - 1 \in 1..a /\ 1 + (k - 1) = k /\ (k - 1) + 1 = k
    BY <1>4
  <2>2. QED
    BY <1>1, <1>3, <2>1
<1>5. DOMAIN (<<g>> \o T) = 1..a + 1 /\ Len(<<g>> \o T) = Len(A)
  BY <1>1, <1>3, LenProperties
<1>6. QED
  BY <1>1, <1>3, <1>4, <1>5

\* The first frame is cut short, whatever is behind it.
SameButFirst(F, G, g) ==
  /\ Len(G) = Len(F) /\ DOMAIN G = DOMAIN F /\ G[1] = g
  /\ \A k \in DOMAIN F : k # 1 => G[k] = F[k]

\* It is replaced in the frames on their way as in those taken.
LEMMA CutJoins ==
  ASSUME NEW A \in Seq(Frame), NEW B \in Seq(Frame), NEW C \in Seq(Frame), NEW g, A # <<>>, SameButFirst(A, C, g)
  PROVE  SameButFirst(A \o B, C \o B, g)
<1>1. /\ Len(C) = Len(A) /\ C[1] = g /\ \A k \in DOMAIN A : k # 1 => C[k] = A[k]
  BY DEF SameButFirst
<1>2. PICK a \in Nat, b \in Nat : a = Len(A) /\ a = Len(C) /\ b = Len(B) /\ DOMAIN A = 1..a /\ a # 0
  BY <1>1, EmptySeq, LenProperties
<1>3. PICK F \in Seq(Frame) : F = A \o B /\ Joins(F, A, B, a, b)
  BY <1>2, ConcatFrames, Zenon
<1>4. PICK G \in Seq(Frame) : G = C \o B /\ Joins(G, C, B, a, b)
  BY <1>2, ConcatFrames, Zenon
<1>5. /\ F = A \o B /\ DOMAIN F = 1..a + b /\ Len(F) = a + b
      /\ \A k \in 1..a : F[k] = A[k]
      /\ \A k \in 1..b : F[a + k] = B[k]
  BY <1>3 DEF Joins
<1>6. /\ G = C \o B /\ DOMAIN G = 1..a + b /\ Len(G) = a + b
      /\ \A k \in 1..a : G[k] = C[k]
      /\ \A k \in 1..b : G[a + k] = B[k]
  BY <1>4 DEF Joins
<1>7. G[1] = g
  BY <1>1, <1>2, <1>6
<1>8. ASSUME NEW k \in 1..a + b, k # 1 PROVE G[k] = F[k]
  <2>1. CASE k <= a
    <3>1. k \in 1..a
      BY <2>1
    <3>2. C[k] = A[k]
      BY <1>1, <1>2, <1>8, <3>1
    <3>3. QED
      BY <1>5, <1>6, <3>1, <3>2
  <2>2. CASE k > a
    <3>1. k - a \in 1..b /\ a + (k - a) = k
      BY <2>2
    <3>2. QED
      BY <1>5, <1>6, <3>1
  <2>3. QED
    BY <2>1, <2>2
<1>9. SameButFirst(F, G, g)
  BY <1>5, <1>6, <1>7, <1>8 DEF SameButFirst
<1>10. QED
  BY <1>5, <1>6, <1>9

\* The first of what was taken is written, or the first mutation of it.
Advanced(d) ==
  /\ Frames \in Seq(Frame) /\ Frames' \in Seq(Frame) /\ taken \in Seq(Frame) /\ taken' \in Seq(Frame)
  /\ Frames # <<>> /\ Frames[1] = Head(taken) /\ taken[1] = Head(taken) /\ Head(taken) \in Frame
  /\ InOrder(Frames) /\ InOrder(taken)
  /\ Advances(Frames, Frames', d) /\ Advances(taken, taken', d)

\* A frame forwarded whole leaves the frames behind it.
LEMMA PopFrames ==
  ASSUME TypeOK, ClientInv, conn # NoConn, conn' = conn, taken # <<>>, taken' = Tail(taken),
         Head(taken).kind # "end", Head(taken).kind = "commit" => Len(Head(taken).mutations) <= 1
  PROVE  Advanced(1)
<1>1. /\ taken \in Seq(Frame) /\ conn.backlog \in Seq(Frame) /\ Frames = taken \o conn.backlog
      /\ Frames' = Tail(taken) \o conn.backlog /\ InOrder(Frames)
  BY FramesAre DEF Frames, ClientInv, FramesHold
<1>2. /\ Frames \in Seq(Frame) /\ Frames # <<>> /\ Frames[1] = Head(taken) /\ taken[1] = Head(taken)
      /\ Head(taken) \in Frame /\ Tail(taken) \in Seq(Frame) /\ Frames' = Tail(Frames) /\ InOrder(taken)
  BY <1>1, FrontFrames
<1>3. Tail(Frames) \in Seq(Frame) /\ Advances(Frames, Tail(Frames), 1)
  BY <1>1, <1>2, PopAdvances
<1>4. Advances(taken, Tail(taken), 1)
  BY <1>1, <1>2, PopAdvances
<1>5. QED
  BY <1>1, <1>2, <1>3, <1>4 DEF Advanced

\* A commit forwarded in part leaves the rest of it first.
LEMMA CutTaken ==
  ASSUME TypeOK, ClientInv, conn # NoConn, conn' = conn, taken # <<>>, Head(taken).kind = "commit",
         Tail(Head(taken).mutations) # <<>>, Head(taken).mutations # <<>>,
         taken' = <<[kind |-> "commit", mutations |-> Tail(Head(taken).mutations)]>> \o Tail(taken)
  PROVE  Advanced(0)
<1> DEFINE g == [kind |-> "commit", mutations |-> Tail(Head(taken).mutations)]
<1>1. PICK A \in Seq(Frame), B \in Seq(Frame) :
        /\ A = taken /\ B = conn.backlog /\ Frames = A \o B /\ Frames' = taken' \o B /\ InOrder(Frames)
  BY FramesAre DEF Frames, ClientInv, FramesHold
<1>2. /\ Frames \in Seq(Frame) /\ Frames # <<>> /\ Frames[1] = Head(taken) /\ A[1] = Head(taken)
      /\ Head(taken) \in Frame /\ InOrder(A)
  BY <1>1, FrontFrames
<1>3. g \in Frame
  <2>1. Head(taken).mutations \in Seq(Mutation)
    BY <1>2, FrameFields
  <2>2. Tail(Head(taken).mutations) \in Seq(Mutation)
    BY <2>1, HeadTailProperties
  <2>3. QED
    BY <2>2, FrameType
<1> HIDE DEF g
<1>4. PICK C \in Seq(Frame) : /\ C = taken' /\ DOMAIN C = DOMAIN A /\ C[1] = g /\ Len(C) = Len(A)
                              /\ \A k \in DOMAIN A : k # 1 => C[k] = A[k]
  <2>1. \E C \in Seq(Frame) : /\ C = <<g>> \o Tail(A) /\ DOMAIN C = DOMAIN A /\ C[1] = g /\ Len(C) = Len(A)
                              /\ \A k \in DOMAIN A : k # 1 => C[k] = A[k]
    BY <1>1, <1>3, CutFrames
  <2>2. taken' = <<g>> \o Tail(A)
    BY <1>1 DEF g
  <2>3. QED
    BY <2>1, <2>2
<1>5. Tail(A[1].mutations) # <<>> /\ A[1].kind = "commit" /\ g = [kind |-> "commit", mutations |-> Tail(A[1].mutations)]
  BY <1>2 DEF g
<1>6. Advances(A, C, 0)
  BY <1>1, <1>2, <1>4, <1>5, CutAdvances
<1>7. PICK F \in Seq(Frame), G \in Seq(Frame) : F = A \o B /\ G = C \o B /\ SameButFirst(F, G, g)
  <2>1. A # <<>> /\ SameButFirst(A, C, g)
    BY <1>1, <1>4 DEF SameButFirst
  <2>2. SameButFirst(A \o B, C \o B, g)
    BY <2>1, CutJoins, Zenon
  <2>3. A \o B \in Seq(Frame) /\ C \o B \in Seq(Frame)
    BY ConcatProperties
  <2>4. QED
    BY <2>2, <2>3
<1>8. F = Frames /\ G = Frames'
  BY <1>1, <1>4, <1>7
<1>9. Advances(F, G, 0)
  <2>1. F # <<>> /\ InOrder(F) /\ F[1] = A[1]
    BY <1>1, <1>2, <1>8
  <2>2. DOMAIN G = DOMAIN F /\ G[1] = g /\ \A k \in DOMAIN F : k # 1 => G[k] = F[k]
    BY <1>7 DEF SameButFirst
  <2>3. QED
    BY <1>5, <2>1, <2>2, CutAdvances
<1>10. QED
  BY <1>1, <1>2, <1>4, <1>6, <1>8, <1>9 DEF Advanced

\* What forwarding a frame keeps of the entry and of the frames.
LEMMA AdvanceClient ==
  ASSUME TypeOK, ClientInv, NEW d \in {0, 1}, Advanced(d), conn # NoConn, Forwarding,
         UNCHANGED <<log, position, conn, pc, reply, mark, ending, items>>,
         selectors' = IF Frames[1].kind = "view" THEN Frames[1].view ELSE selectors
  PROVE  /\ EntryHolds' /\ FramesHold' /\ ItemsHold' /\ (Doomed' <=> Doomed)
         /\ \A p : CommitsTo(Frames, p) => CommitsTo(Frames', p)
<1>1. /\ pc \in Started /\ pc \notin Replaying /\ pc \notin {"none", "wait", "replied"}
  BY DEF Forwarding, Started, Streaming, Replaying
<1>2. /\ InOrder(Frames') /\ (HasEnd(Frames') <=> HasEnd(Frames))
      /\ \A p : CommitsPast(Frames, p) => CommitsPast(Frames', p)
      /\ \A p : CommitsTo(Frames, p) => CommitsTo(Frames', p)
      /\ \A p : ViewsTo(Frames, p) => ViewsTo(Frames', p)
  BY AdvanceKeeps DEF Advanced
<1>3. /\ HasEnd(taken') <=> HasEnd(taken)
      /\ \A p : CommitsPast(taken, p) => CommitsPast(taken', p)
      /\ \A p : ViewsTo(taken, p) => ViewsTo(taken', p)
  BY AdvanceKeeps DEF Advanced
<1>4. \A view : Leads(Frames, selectors, view) => Leads(Frames', selectors', view)
  <2> SUFFICES ASSUME NEW view, Leads(Frames, selectors, view) PROVE Leads(Frames', selectors', view)
    OBVIOUS
  <2>1. Leads(Frames', IF Frames[1].kind = "view" THEN Frames[1].view ELSE selectors, view)
    BY AdvanceLeads DEF Advanced
  <2>2. QED
    BY <2>1
<1>5. EntryHolds'
  BY <1>1, <1>2 DEF ClientInv, EntryHolds
<1>6. FramesHold'
  <2>1. InOrder(Frames') /\ CommitsTo(Frames', position') /\ ViewsTo(Frames', position')
    BY <1>2 DEF ClientInv, FramesHold
  <2>2. ~conn'.streaming => CommitsPast(Frames', MaxPosition)
    BY <1>2 DEF ClientInv, FramesHold
  <2>3. Forwarding'
    BY DEF Forwarding
  <2>4. conn'.active => Leads(Frames', selectors', conn'.view)
    BY <1>1, <1>4 DEF ClientInv, FramesHold
  <2>5. pc' = "switchForward" => CommitsPast(taken', MaxPosition) /\ ViewsTo(taken', mark')
    BY <1>3 DEF ClientInv, FramesHold
  <2>6. pc' \in {"switchForward", "hotReplay", "beat", "beatForward"} => mark' <= position'
    BY DEF ClientInv, FramesHold
  <2>7. pc' \in {"switchForward", "hotReplay", "beatForward"} =>
           CommitsPast(conn'.backlog, mark') /\ ViewsFrom(conn'.backlog, mark')
    BY DEF ClientInv, FramesHold
  <2>8. QED
    BY <1>1, <2>1, <2>2, <2>3, <2>4, <2>5, <2>6, <2>7 DEF FramesHold
<1>7. ItemsHold'
  BY <1>1 DEF ItemsHold
<1>8. Doomed' <=> Doomed
  BY <1>3 DEF Doomed
<1>9. QED
  BY <1>2, <1>5, <1>6, <1>7, <1>8

\* A view frame: the client backfills what the view newly grants, through the
\* later of the frame's position and the cursor.
LEMMA ForwardViewClient ==
  ASSUME TypeOK, CoreInv, ClientInv, ForwardView
  PROVE  ClientInv'
<1>1. PICK v \in Frame : v = Head(taken)
  <2>1. \A A \in Seq(Frame) : A # <<>> => Head(A) \in Frame
    OBVIOUS
  <2>2. QED
    BY <2>1 DEF ForwardView, TypeOK
<1> DEFINE n == Larger(v.pos, cursor)
<1>2. /\ Forwarding /\ taken # <<>> /\ v.kind = "view" /\ SeesView(v.view, n)
      /\ selectors' = v.view /\ taken' = Tail(taken)
      /\ UNCHANGED <<log, position, conn, pc, reply, cursor, told, ending, items, mark, wire>>
  BY <1>1 DEF ForwardView, core, server
<1>3. conn # NoConn /\ cursor \in Nat /\ cursor \in Positions /\ mark \in Nat /\ position \in Nat
  BY <1>2, TaskTypes DEF TypeOK, Forwarding
<1>4. Advanced(1)
  BY <1>1, <1>2, <1>3, PopFrames
<1>5. Frames[1] = v /\ 1 \in DOMAIN Frames /\ taken[1] = v /\ 1 \in DOMAIN taken
  BY <1>1, <1>2, <1>4, EmptySeq, LenProperties DEF Advanced
<1>6. v.view \in SUBSET Slices /\ v.pos \in Positions /\ v.pos \in Nat
  BY <1>1, <1>2, FrameFields DEF Positions
<1>7. n \in Positions /\ n \in Nat /\ v.pos <= n /\ cursor <= n
  BY <1>3, <1>6 DEF Larger
<1> HIDE DEF n
<1>8. Backfills(v.view, n)
  BY <1>2, <1>6, <1>7, AfterView, Zenon
<1>9. /\ EntryHolds' /\ FramesHold' /\ ItemsHold' /\ (Doomed' <=> Doomed)
      /\ \A p : CommitsTo(Frames, p) => CommitsTo(Frames', p)
  <2>1. selectors' = IF Frames[1].kind = "view" THEN Frames[1].view ELSE selectors
    BY <1>2, <1>5
  <2>2. 1 \in {0, 1}
    OBVIOUS
  <2>3. QED
    BY <1>2, <1>3, <1>4, <2>1, <2>2, AdvanceClient
<1>10. pc \in Started /\ pc \notin Replaying
  BY <1>2 DEF Forwarding, Started, Streaming, Replaying
<1>11. /\ client.view # NoView /\ client.cursor = cursor /\ client.cursor # -1
       /\ pc # "switchForward" => selectors = client.view
  BY <1>10 DEF ClientInv, CursorHolds, ClientHolds
<1>12. client'.cursor = cursor /\ client'.view = v.view
  BY <1>8, <1>11 DEF Backfills
<1>13. \A s \in client.view \cap v.view, p \in Nat : <<s, p>> \in client.covered => <<s, p>> \in client'.covered
  <2> SUFFICES ASSUME NEW s \in client.view \cap v.view, NEW p \in Nat, <<s, p>> \in client.covered
               PROVE  <<s, p>> \in client'.covered
    OBVIOUS
  <2>1. <<s, p>>[1] = s
    OBVIOUS
  <2>2. QED
    BY <1>8, <1>11, <2>1 DEF Backfills
<1>14. ClientHolds'
  <2>1. ASSUME NEW p \in 1..cursor, NEW s \in log[p] \cap v.view PROVE <<s, p>> \in client'.covered
    <3>1. p \in 1..n
      BY <1>3, <1>7
    <3>2. CASE s \in client.view
      <4>1. <<s, p>> \in client.covered
        BY <1>11, <2>1, <3>2 DEF ClientInv, ClientHolds, CursorSkipsNothing
      <4>2. QED
        BY <1>13, <2>1, <3>2, <4>1
    <3>3. CASE s \notin client.view
      BY <1>8, <2>1, <3>1, <3>3 DEF Backfills
    <3>4. QED
      BY <3>2, <3>3
  <2>2. CursorSkipsNothing'
    BY <1>2, <1>12, <2>1 DEF CursorSkipsNothing
  <2>3. v.view # NoView
    BY <1>6, StreamAssumption
  <2>4. QED
    BY <1>2, <1>11, <1>12, <2>2, <2>3 DEF ClientInv, ClientHolds, EachEditOnce
<1>15. CursorHolds'
  <2>1. v.view # NoView
    BY <1>6, StreamAssumption
  <2>2. items = <<>> /\ (~conn.streaming => client.cursor = told)
    BY <1>10 DEF ClientInv, CursorHolds
  <2>3. pc' \in Started /\ pc' \notin Replaying /\ pc' \notin {"coldReplay", "hotReplay"}
    BY <1>2, <1>10 DEF Replaying
  <2>4. QED
    BY <1>2, <1>11, <1>12, <2>1, <2>2, <2>3 DEF CursorHolds
<1>16. FramesBring'
  <2> SUFFICES ASSUME pc \in Streaming PROVE FramesBring'
    BY <1>2 DEF FramesBring
  <2>1. PICK b \in 0..position : BringsAllTo(b)
    BY DEF ClientInv, FramesBring
  <2>2. ReadTo' = ReadTo
    BY <1>2 DEF ReadTo, Larger
  <2>3. ReadTo \in Nat /\ (pc = "switchForward" => mark <= ReadTo)
    BY <1>3 DEF ReadTo, Larger
  <2>4. ASSUME NEW p \in (ReadTo + 1)..b PROVE Brings(Frames', v.view, p, log[p], client'.covered)
    <3>1. p \in Nat /\ p > 0 /\ ReadTo < p /\ Brings(Frames, selectors, p, log[p], client.covered)
      BY <1>3, <2>1, <2>3 DEF BringsAllTo
    <3>2. ASSUME NEW s \in log[p], s \in v.view, p <= v.pos
          PROVE  <<s, p>> \in client'.covered \/ (s \in selectors /\ (<<s, p>> \in client.covered => <<s, p>> \in client'.covered))
      <4>1. p \in 1..n
        BY <1>6, <1>7, <3>1, <3>2
      <4>2. pc # "switchForward"
        <5> SUFFICES ASSUME pc = "switchForward" PROVE FALSE
          OBVIOUS
        <5>1. ViewsTo(taken, mark)
          BY <1>3 DEF ClientInv, FramesHold
        <5>2. IsViewFrame(taken, 1)
          BY <1>2, <1>5 DEF IsViewFrame
        <5>3. v.pos <= mark
          BY <1>5, <5>1, <5>2 DEF ViewsTo
        <5>4. QED
          BY <1>3, <1>6, <2>3, <3>1, <3>2, <5>3
      <4>3. <<s, p>> \in client'.covered \/ s \in client.view
        BY <1>8, <3>2, <4>1 DEF Backfills
      <4>4. QED
        BY <1>11, <1>13, <3>1, <3>2, <4>2, <4>3
    <3>3. QED
      BY <1>2, <1>4, <1>5, <3>1, <3>2, ViewBrings DEF Advanced
  <2>5. BringsAllTo(b)'
    BY <1>2, <1>9, <2>1, <2>2, <2>4 DEF BringsAllTo
  <2>6. QED
    BY <1>2, <2>5 DEF FramesBring
<1>17. QED
  BY <1>9, <1>14, <1>15, <1>16 DEF ClientInv

\* A commit's mutation: one that the hot catchup did not send, and that the view
\* covers, is the next edit past the cursor.
LEMMA ForwardCommitClient ==
  ASSUME TypeOK, CoreInv, ClientInv, ForwardCommit
  PROVE  ClientInv'
<1>1. /\ Forwarding /\ taken # <<>> /\ Head(taken).kind = "commit"
      /\ UNCHANGED <<log, position, conn, pc, reply, selectors, told, ending, items, mark>>
  BY DEF ForwardCommit, core, server
<1>2. conn # NoConn /\ cursor \in Nat /\ mark \in Nat /\ position \in Nat /\ selectors \in SUBSET Slices
  BY <1>1, TaskTypes DEF TypeOK, Forwarding
<1>3. /\ Frames \in Seq(Frame) /\ Frames # <<>> /\ Frames[1] = Head(taken) /\ taken \in Seq(Frame)
      /\ taken[1] = Head(taken) /\ 1 \in DOMAIN taken /\ InOrder(Frames) /\ Head(taken) \in Frame
  <2>1. taken \in Seq(Frame) /\ conn.backlog \in Seq(Frame) /\ Frames = taken \o conn.backlog /\ InOrder(Frames)
    BY <1>2, FramesAre DEF Frames, ClientInv, FramesHold
  <2>2. 1 \in DOMAIN taken
    BY <1>1, <2>1, EmptySeq, LenProperties
  <2>3. QED
    BY <1>1, <2>1, <2>2, FrontFrames
<1>4. PICK ms \in Seq(Mutation), m \in Mutation, q \in Nat :
        /\ ms = Head(taken).mutations /\ ms # <<>> /\ m = ms[1] /\ m = Head(ms) /\ q = m.position
        /\ 1 \in DOMAIN ms /\ q \in 1..MaxPosition /\ m.edits \in SUBSET Slices
        /\ m = Frames[1].mutations[1] /\ 1 \in DOMAIN Frames /\ IsCommitFrame(Frames, 1) /\ IsCommitFrame(taken, 1)
  <2>1. 1 \in DOMAIN Frames /\ IsCommitFrame(Frames, 1) /\ IsCommitFrame(taken, 1)
    BY <1>1, <1>3, EmptySeq, LenProperties DEF IsCommitFrame
  <2>2. Frames[1].mutations # <<>>
    BY <1>3, <2>1 DEF InOrder
  <2>3. PICK ms \in Seq(Mutation) : ms = Head(taken).mutations
    BY <1>1, <1>3, FrameFields
  <2>4. ms # <<>> /\ 1 \in DOMAIN ms /\ ms[1] \in Mutation /\ Head(ms) = ms[1]
    BY <1>3, <2>2, <2>3, EmptySeq, LenProperties
  <2>5. ms[1].position \in 1..MaxPosition /\ ms[1].edits \in SUBSET Slices
    BY <2>4 DEF Mutation
  <2>6. ms[1].position \in Nat
    BY <2>5, StreamAssumption
  <2>7. QED
    BY <1>3, <2>1, <2>3, <2>4, <2>5, <2>6
<1>5. /\ IF q > cursor /\ m.edits \cap selectors # {}
         THEN /\ GetsEdits(q, m.edits \cap selectors) /\ wire' = Append(wire, q) /\ cursor' = q
         ELSE UNCHANGED <<client, wire, cursor>>
      /\ taken' = IF Tail(ms) = <<>> THEN Tail(taken)
                  ELSE <<[kind |-> "commit", mutations |-> Tail(ms)]>> \o Tail(taken)
  BY <1>4 DEF ForwardCommit
<1>6. PICK d \in {0, 1} : Advanced(d)
  <2>1. conn' = conn /\ Head(taken).kind # "end"
    BY <1>1
  <2>2. CASE Tail(ms) = <<>>
    <3>1. Len(Head(taken).mutations) <= 1
      <4>1. Len(ms) \in Nat /\ Len(Tail(ms)) = Len(ms) - 1
        BY <1>4, HeadTailProperties, LenProperties
      <4>2. Len(Tail(ms)) = 0
        BY <2>2, EmptySeq
      <4>3. Len(ms) = 1
        BY <4>1, <4>2
      <4>4. Len(Head(taken).mutations) = 1
        <5>1. ms = Head(taken).mutations
          BY <1>4
        <5>2. QED
          BY <4>3, <5>1, Zenon
      <4>5. \A n : n = 1 => n <= 1
        OBVIOUS
      <4>6. QED
        BY <4>4, <4>5, Zenon
    <3>2. Advanced(1)
      BY <1>1, <1>2, <1>5, <2>1, <2>2, <3>1, PopFrames
    <3>3. QED
      BY <3>2
  <2>3. CASE Tail(ms) # <<>>
    <3>1. Advanced(0)
      BY <1>1, <1>2, <1>4, <1>5, <2>1, <2>3, CutTaken
    <3>2. QED
      BY <3>1
  <2>4. QED
    BY <2>2, <2>3
<1>7. pc \in {"wakeForward", "beatForward"} /\ pc \in Streaming /\ pc \in Started /\ pc \notin Replaying
  <2>1. ~(MaxPosition < q)
    BY <1>4, StreamAssumption
  <2>2. ~CommitsPast(Frames, MaxPosition) /\ ~CommitsPast(taken, MaxPosition)
    BY <1>3, <1>4, <2>1 DEF CommitsPast, IsCommitFrame
  <2>3. conn.streaming /\ pc # "switchForward"
    BY <1>2, <2>2 DEF ClientInv, FramesHold
  <2>4. pc # "coldForward"
    BY <1>2, <2>3 DEF ClientInv, EntryHolds, Streaming
  <2>5. QED
    BY <1>1, <2>3, <2>4 DEF Forwarding, Started, Streaming, Replaying
<1>8. /\ EntryHolds' /\ FramesHold' /\ ItemsHold' /\ (Doomed' <=> Doomed)
      /\ \A p : CommitsTo(Frames, p) => CommitsTo(Frames', p)
  <2>1. selectors' = IF Frames[1].kind = "view" THEN Frames[1].view ELSE selectors
    BY <1>1, <1>3
  <2>2. QED
    BY <1>1, <1>2, <1>6, <2>1, AdvanceClient
<1>9. client.view # NoView /\ client.cursor = cursor /\ selectors = client.view /\ items = <<>> /\ conn.streaming
  BY <1>2, <1>7 DEF ClientInv, CursorHolds, EntryHolds
<1>10. PICK b \in 0..position : BringsAllTo(b)
  BY <1>7 DEF ClientInv, FramesBring
<1>11. q <= b /\ q <= position /\ q <= Len(log) /\ Len(log) \in Nat
  <2>1. q <= b
    BY <1>3, <1>4, <1>10 DEF BringsAllTo, CommitsTo
  <2>2. position <= Len(log) /\ Len(log) \in Nat
    BY DEF CoreInv, ResultsHold, TypeOK
  <2>3. QED
    BY <1>2, <1>10, <2>1, <2>2
<1>12. ReadTo = cursor /\ ReadTo' = cursor'
  BY <1>1, <1>7 DEF ReadTo
<1>13. /\ \A p \in Nat : p <= q => ViewsFrom(Frames, p)
       /\ \A s, p : Carries(Frames, s, p) /\ p <= q => p = q /\ s \in m.edits
  BY <1>1, <1>3, <1>4, NextMutation
<1>14. IF q > cursor /\ m.edits \cap selectors # {}
       THEN /\ client' \in Client /\ client'.cursor = q /\ client'.view = client.view
            /\ client'.covered = client.covered \cup {<<s, q>> : s \in m.edits \cap selectors}
       ELSE client' = client /\ wire' = wire /\ cursor' = cursor
  <2>1. CASE q > cursor /\ m.edits \cap selectors # {}
    <3>1. GetsEdits(q, m.edits \cap selectors) /\ m.edits \cap selectors \in SUBSET Slices
      BY <1>4, <1>5, <2>1
    <3>2. Larger(client.cursor, q) = q
      BY <1>2, <1>9, <2>1 DEF Larger
    <3>3. QED
      BY <1>4, <2>1, <3>1, <3>2, AfterEdits
  <2>2. QED
    BY <1>5, <2>1
<1>15. client'.cursor = cursor' /\ client'.view = client.view /\ client.covered \subseteq client'.covered
  BY <1>5, <1>9, <1>14
<1>16. ClientHolds'
  <2>1. CASE q > cursor /\ m.edits \cap selectors # {}
    <3>1. \A p \in (client.cursor + 1)..m.position : \A s \in log[p] \cap client.view :
            <<s, p>> \in client.covered \/ (p = m.position /\ s \in m.edits \cap selectors)
      <4> SUFFICES ASSUME NEW p \in (cursor + 1)..q, NEW s \in log[p] \cap selectors,
                          <<s, p>> \notin client.covered
                   PROVE  p = q /\ s \in m.edits
        BY <1>4, <1>9
      <4>1. p \in Nat /\ p <= q /\ p \in (ReadTo + 1)..b
        BY <1>2, <1>11, <1>12
      <4>2. Brings(Frames, selectors, p, log[p], client.covered)
        BY <1>10, <4>1 DEF BringsAllTo
      <4>3. Carries(Frames, s, p)
        BY <1>13, <4>1, <4>2 DEF Brings
      <4>4. QED
        BY <1>13, <4>1, <4>3
    <3>2. client.cursor < m.position /\ m.position <= Len(log) /\ m.position \in 1..MaxPosition
      BY <1>2, <1>4, <1>9, <1>11, <2>1
    <3>3. wire' = Append(wire, m.position) /\ log' = log
      BY <1>1, <1>4, <1>5, <2>1
    <3>4. /\ client' \in Client /\ client'.cursor = m.position /\ client'.view = client.view
          /\ client'.covered = client.covered \cup {<<s, m.position>> : s \in m.edits \cap selectors}
      BY <1>4, <1>14, <2>1
    <3>5. QED
      BY <1>9, <3>1, <3>2, <3>3, <3>4, EditHolds
  <2>2. CASE ~(q > cursor /\ m.edits \cap selectors # {})
    BY <1>1, <1>14, <2>2 DEF ClientInv, ClientHolds, CursorSkipsNothing, EachEditOnce
  <2>3. QED
    BY <2>1, <2>2
<1>17. CursorHolds'
  BY <1>1, <1>7, <1>9, <1>15 DEF CursorHolds
<1>18. FramesBring'
  <2>1. ASSUME NEW p \in (cursor' + 1)..b PROVE Brings(Frames', selectors, p, log[p], client'.covered)
    <3>1. p \in Nat /\ p \in (ReadTo + 1)..b
      BY <1>2, <1>5, <1>10, <1>12
    <3>2. Brings(Frames, selectors, p, log[p], client.covered)
      BY <1>10, <3>1 DEF BringsAllTo
    <3>3. q # p \/ m.edits \cap selectors = {}
      <4>1. cursor < p /\ cursor' < p
        BY <1>2, <1>5, <1>10, <2>1
      <4>2. QED
        BY <1>5, <4>1
    <3>4. Frames[1].mutations[1].position # p \/ Frames[1].mutations[1].edits \cap selectors = {}
      BY <1>4, <3>3
    <3>5. Advances(Frames, Frames', d) /\ Frames' \in Seq(Frame) /\ Frames[1].kind = "commit"
      BY <1>1, <1>3, <1>6 DEF Advanced
    <3>6. QED
      BY <1>3, <1>15, <3>1, <3>2, <3>4, <3>5, MutationBrings
  <2>2. BringsAllTo(b)'
    BY <1>1, <1>8, <1>10, <1>12, <2>1 DEF BringsAllTo
  <2>3. QED
    BY <1>1, <2>2 DEF FramesBring
<1>19. QED
  BY <1>8, <1>16, <1>17, <1>18 DEF ClientInv

-----------------------------------------------------------------------------
(* The dispatcher queues a frame, or ends the connection.                  *)

\* What changes neither the connection nor the published position keeps it all.
LEMMA SameClient ==
  ASSUME ClientInv, UNCHANGED <<log, position, conn, task, client, wire>>
  PROVE  ClientInv'
<1>1. UNCHANGED <<log, position, conn, pc, reply, selectors, cursor, told, taken, ending, items, mark, client, wire>>
  BY DEF task
<1>2. Frames' = Frames /\ ReadTo' = ReadTo /\ (Doomed' <=> Doomed)
  BY <1>1 DEF Frames, ReadTo, Doomed, Larger
<1>3. ClientHolds'
  BY <1>1 DEF ClientInv, ClientHolds, CursorSkipsNothing, EachEditOnce
<1>4. EntryHolds'
  BY <1>1, <1>2 DEF ClientInv, EntryHolds
<1>5. FramesHold'
  BY <1>1, <1>2 DEF ClientInv, FramesHold, Forwarding
<1>6. CursorHolds'
  BY <1>1, <1>2 DEF ClientInv, CursorHolds, Larger
<1>7. ItemsHold'
  BY <1>1 DEF ClientInv, ItemsHold
<1>8. FramesBring'
  BY <1>1, <1>2 DEF ClientInv, FramesBring, BringsAllTo
<1>9. QED
  BY <1>3, <1>4, <1>5, <1>6, <1>7, <1>8 DEF ClientInv

\* What the dispatcher leaves alone: the client, and what the task has of it.
LEMMA DispatchKeeps ==
  ASSUME TypeOK, ClientInv, conn # NoConn, conn'.streaming = conn.streaming,
         UNCHANGED <<log, task, client, wire>>
  PROVE  ClientHolds' /\ CursorHolds' /\ ItemsHold' /\ ReadTo' = ReadTo /\ ReadTo \in Nat /\ (Doomed' <=> Doomed)
<1>1. UNCHANGED <<log, pc, reply, selectors, cursor, told, taken, ending, items, mark, client, wire>>
  BY DEF task
<1>2. ReadTo' = ReadTo /\ (Doomed' <=> Doomed)
  BY <1>1 DEF ReadTo, Doomed, Larger
<1>3. ClientHolds'
  BY <1>1 DEF ClientInv, ClientHolds, CursorSkipsNothing, EachEditOnce
<1>4. CursorHolds'
  BY <1>1, <1>2 DEF ClientInv, CursorHolds, Larger
<1>5. ItemsHold'
  BY <1>1 DEF ClientInv, ItemsHold
<1>6. ReadTo \in Nat
  BY DEF ReadTo, Larger, TypeOK, Positions
<1>7. QED
  BY <1>2, <1>3, <1>4, <1>5, <1>6

\* Positions go up.
LEMMA PastTo ==
  ASSUME NEW F \in Seq(Frame), NEW p \in Nat, NEW q \in Nat, p <= q
  PROVE  (CommitsTo(F, p) => CommitsTo(F, q)) /\ (ViewsTo(F, p) => ViewsTo(F, q))
<1>1. /\ \A k \in DOMAIN F : IsViewFrame(F, k) => F[k].pos \in Nat
      /\ \A k \in DOMAIN F : IsCommitFrame(F, k) =>
           \A i \in DOMAIN F[k].mutations : F[k].mutations[i].position \in Nat
  BY FrameData
<1>2. QED
  BY <1>1 DEF CommitsTo, ViewsTo

\* A connection that has ended, or ends because its backlog is full.
LEMMA EndsClient ==
  ASSUME TypeOK, CoreInv, ClientInv, conn # NoConn, conn' \in Conn,
         conn'.streaming = conn.streaming, conn.revoked => conn'.revoked,
         conn'.view = conn.view \/ conn'.view # NoView,
         conn'.backlog = conn.backlog, ~conn'.active,
         \/ ~conn.active /\ conn'.overflowed = conn.overflowed /\ conn'.notified = conn.notified
         \/ conn.active /\ conn'.overflowed /\ conn'.notified,
         position' \in Nat, position <= position', UNCHANGED <<log, task, client, wire>>
  PROVE  ClientInv'
<1>1. UNCHANGED <<log, pc, reply, selectors, cursor, told, taken, ending, items, mark, client, wire>>
  BY DEF task
<1>2. /\ ClientHolds' /\ CursorHolds' /\ ItemsHold' /\ ReadTo' = ReadTo /\ (Doomed' <=> Doomed)
  BY DispatchKeeps
<1>3. Frames' = Frames /\ Frames \in Seq(Frame)
  BY <1>1, FramesAre DEF Frames
<1>4. conn' # NoConn
  BY NoConnAssumption
<1>5. position \in Nat /\ mark \in Nat
  BY DEF TypeOK, Positions
<1>6. conn.active => pc # "wait"
  BY DEF CoreInv, RegistrationHolds
<1>7. EntryHolds'
  BY <1>1, <1>3, <1>4, <1>6 DEF ClientInv, EntryHolds
<1>8. FramesHold'
  <2>1. InOrder(Frames') /\ CommitsTo(Frames', position') /\ ViewsTo(Frames', position')
    BY <1>3, <1>5, PastTo DEF ClientInv, FramesHold
  <2>2. pc \in {"switchForward", "hotReplay", "beat", "beatForward"} => mark <= position'
    BY <1>5 DEF ClientInv, FramesHold
  <2>3. QED
    BY <1>1, <1>3, <1>4, <2>1, <2>2 DEF ClientInv, FramesHold, Forwarding
<1>9. FramesBring'
  <2> SUFFICES ASSUME pc \in Streaming PROVE FramesBring'
    BY <1>1 DEF FramesBring
  <2>1. PICK b \in 0..position : BringsAllTo(b)
    BY DEF ClientInv, FramesBring
  <2>2. BringsAllTo(b)'
    BY <1>1, <1>2, <1>3, <2>1 DEF BringsAllTo
  <2>3. b \in 0..position'
    BY <1>5
  <2>4. QED
    BY <2>2, <2>3 DEF FramesBring
<1>10. QED
  BY <1>2, <1>7, <1>8, <1>9 DEF ClientInv

\* The view the frames lead to, once another is queued.
LEMMA GrownLeads ==
  ASSUME NEW F \in Seq(Frame), NEW G \in Seq(Frame), NEW f, Grown(F, G, f)
  PROVE  /\ \A from : f.kind = "view" => Leads(G, from, f.view)
         /\ \A from, view : f.kind # "view" /\ Leads(F, from, view) => Leads(G, from, view)
<1>1. PICK n \in Nat : n = Len(F) /\ DOMAIN F = 1..n
  BY LenProperties
<1>2. /\ \A k \in DOMAIN F : /\ k \in DOMAIN G /\ G[k] = F[k]
                             /\ (IsViewFrame(G, k) <=> IsViewFrame(F, k))
      /\ \A k \in DOMAIN G : k \in DOMAIN F \/ (k = n + 1 /\ G[k] = f)
      /\ n + 1 \in DOMAIN G /\ G[n + 1] = f
  BY <1>1, GrownParts
<1>3. ASSUME NEW from, f.kind = "view" PROVE Leads(G, from, f.view)
  <2>1. IsViewFrame(G, n + 1) /\ G[n + 1].view = f.view
    BY <1>2, <1>3 DEF IsViewFrame
  <2>2. \A l \in DOMAIN G : ~(l > n + 1)
    BY <1>1, <1>2
  <2>3. QED
    BY <1>2, <2>1, <2>2 DEF Leads
<1>4. ASSUME NEW from, NEW view, f.kind # "view", Leads(F, from, view) PROVE Leads(G, from, view)
  <2>1. \A l \in DOMAIN G : IsViewFrame(G, l) => l \in DOMAIN F /\ IsViewFrame(F, l)
    BY <1>2, <1>4 DEF IsViewFrame
  <2>2. CASE from = view /\ \A k \in DOMAIN F : ~IsViewFrame(F, k)
    BY <2>1, <2>2 DEF Leads
  <2>3. CASE \E k \in DOMAIN F : /\ IsViewFrame(F, k) /\ F[k].view = view
                                 /\ \A l \in DOMAIN F : l > k => ~IsViewFrame(F, l)
    <3>1. PICK k \in DOMAIN F : /\ IsViewFrame(F, k) /\ F[k].view = view
                                /\ \A l \in DOMAIN F : l > k => ~IsViewFrame(F, l)
      BY <2>3
    <3>2. k \in DOMAIN G /\ IsViewFrame(G, k) /\ G[k].view = view
      BY <1>2, <3>1
    <3>3. \A l \in DOMAIN G : l > k => ~IsViewFrame(G, l)
      BY <2>1, <3>1
    <3>4. QED
      BY <3>2, <3>3 DEF Leads
  <2>4. QED
    BY <1>4, <2>2, <2>3 DEF Leads
<1>5. QED
  BY <1>3, <1>4

\* The positions of a commit frame are numbers.
LEMMA CommitPositions ==
  ASSUME NEW f \in Frame, f.kind = "commit"
  PROVE  \A i \in DOMAIN f.mutations : f.mutations[i].position \in Nat
<1>1. f.mutations \in Seq(Mutation)
  BY FrameFields
<1>2. PICK ms \in Seq(Mutation) : ms = f.mutations
  BY <1>1
<1>3. MaxPosition \in Nat
  BY StreamAssumption
<1>4. \A m \in Mutation : m.position \in Nat
  BY <1>3 DEF Mutation
<1>5. \A i \in DOMAIN ms : ms[i] \in Mutation
  OBVIOUS
<1>6. QED
  BY <1>2, <1>4, <1>5

\* What a commit frame holds: the edits of the positions it publishes.
Publishes(f) ==
  /\ f.mutations # <<>>
  /\ \A i \in DOMAIN f.mutations : position < f.mutations[i].position /\ f.mutations[i].position <= position'
  /\ \A i, j \in DOMAIN f.mutations : i < j => f.mutations[i].position < f.mutations[j].position
  /\ \A p \in position + 1..position' : \A s \in log[p] :
       \E i \in DOMAIN f.mutations : f.mutations[i].position = p /\ s \in f.mutations[i].edits

\* A frame queued to an active connection.
LEMMA FrameClient ==
  ASSUME TypeOK, CoreInv, ClientInv, conn # NoConn, conn.active, conn' \in Conn, NEW f \in Frame,
         conn'.streaming = conn.streaming, conn.revoked => conn'.revoked,
         conn'.backlog = Append(conn.backlog, f), conn'.notified, conn'.overflowed = conn.overflowed,
         position' \in Nat, position <= position', UNCHANGED <<log, task, client, wire>>,
         conn'.active <=> f.kind # "end",
         conn'.view = (IF f.kind = "view" THEN f.view ELSE conn.view),
         f.kind = "view" => f.pos = position,
         f.kind # "commit" => position' = position,
         f.kind = "commit" => conn.streaming /\ Publishes(f)
  PROVE  ClientInv'
<1>1. UNCHANGED <<log, pc, reply, selectors, cursor, told, taken, ending, items, mark, client, wire>>
  BY DEF task
<1>2. /\ ClientHolds' /\ CursorHolds' /\ ItemsHold' /\ ReadTo' = ReadTo /\ ReadTo \in Nat /\ (Doomed' <=> Doomed)
  BY DispatchKeeps
<1>3. conn' # NoConn /\ position \in Nat /\ mark \in Nat
  BY NoConnAssumption DEF TypeOK, Positions
<1>4. PICK F \in Seq(Frame), G \in Seq(Frame), A \in Seq(Frame), B \in Seq(Frame) :
        F = Frames /\ G = Frames' /\ A = conn.backlog /\ B = conn'.backlog /\ Grown(F, G, f) /\ Grown(A, B, f)
  <2>1. taken \in Seq(Frame) /\ conn.backlog \in Seq(Frame) /\ Frames \in Seq(Frame)
    BY FramesAre
  <2>2. \A t, s \in Seq(Frame) : t \o Append(s, f) = Append(t \o s, f)
    OBVIOUS
  <2>3. Frames' = Append(Frames, f)
    BY <1>1, <2>1, <2>2 DEF Frames
  <2>4. Append(Frames, f) \in Seq(Frame) /\ Grown(Frames, Append(Frames, f), f)
    BY <2>1, AppendGrows
  <2>5. Append(conn.backlog, f) \in Seq(Frame) /\ Grown(conn.backlog, Append(conn.backlog, f), f)
    BY <2>1, AppendGrows
  <2>6. QED
    BY <2>1, <2>3, <2>4, <2>5
<1>5. pc # "wait"
  BY DEF CoreInv, RegistrationHolds
<1>6. ~conn.overflowed /\ ~HasEnd(F)
  BY <1>4 DEF ClientInv, EntryHolds
<1>7. InOrder(F) /\ CommitsTo(F, position) /\ ViewsTo(F, position)
  BY <1>4 DEF ClientInv, FramesHold
<1>8. f.kind \in {"view", "commit", "end"} /\ (f.kind = "view" => f.view \in SUBSET Slices /\ f.view # NoView)
  BY FrameFields, StreamAssumption
<1>9. /\ HasEnd(G) <=> f.kind = "end"
      /\ CommitsTo(G, position') /\ ViewsTo(G, position')
  <2>1. HasEnd(G) <=> f.kind = "end"
    BY <1>4, <1>6, GrownKeeps
  <2>2. CommitsTo(F, position') /\ ViewsTo(F, position')
    BY <1>3, <1>7, PastTo
  <2>3. f.kind = "commit" => \A i \in DOMAIN f.mutations : f.mutations[i].position <= position'
    BY DEF Publishes
  <2>4. CommitsTo(G, position')
    BY <1>4, <2>2, <2>3, GrownKeeps
  <2>5. f.kind = "view" => f.pos <= position'
    BY <1>3
  <2>6. ViewsTo(G, position')
    BY <1>4, <2>2, <2>5, GrownKeeps
  <2>7. QED
    BY <2>1, <2>4, <2>6
<1>10. InOrder(G)
  <2>1. f.kind = "commit" =>
          /\ f.mutations # <<>>
          /\ \A i \in DOMAIN f.mutations : position < f.mutations[i].position
          /\ \A i, j \in DOMAIN f.mutations : i < j => f.mutations[i].position < f.mutations[j].position
    BY DEF Publishes
  <2>2. QED
    BY <1>3, <1>4, <1>6, <1>7, <2>1, GrownInOrder
<1>11. EntryHolds'
  <2>1. pc \in Started => conn'.view # NoView
    BY <1>8 DEF ClientInv, EntryHolds
  <2>2. pc = "replied" /\ reply.ok => conn'.view # NoView /\ reply.position <= Len(log)
    BY <1>8 DEF ClientInv, EntryHolds
  <2>3. pc = "replied" => reply.ok
    BY DEF ClientInv, EntryHolds
  <2>4. ~ending
    BY <1>6 DEF ClientInv, EntryHolds
  <2>5. pc \in {"none", "wait", "replied"} => taken = <<>> /\ items = <<>>
    BY DEF ClientInv, EntryHolds
  <2>6. conn.streaming <=> pc \in Streaming
    BY DEF ClientInv, EntryHolds
  <2>7. HasEnd(Frames') <=> ~conn'.active
    BY <1>4, <1>9
  <2>8. QED
    BY <1>1, <1>5, <1>6, <2>1, <2>2, <2>3, <2>4, <2>5, <2>6, <2>7 DEF EntryHolds
<1>12. FramesHold'
  <2>1. ~conn.streaming => CommitsPast(G, MaxPosition)
    <3>1. ~conn.streaming => CommitsPast(F, MaxPosition) /\ f.kind # "commit"
      BY <1>4 DEF ClientInv, FramesHold
    <3>2. QED
      BY <1>4, <3>1, GrownKeeps
  <2>2. pc \in {"switchForward", "hotReplay", "beat", "beatForward"} => mark <= position /\ mark <= position'
    BY <1>3 DEF ClientInv, FramesHold
  <2>3. pc \in {"switchForward", "hotReplay", "beatForward"} => CommitsPast(B, mark) /\ ViewsFrom(B, mark)
    <3> SUFFICES ASSUME pc \in {"switchForward", "hotReplay", "beatForward"} PROVE CommitsPast(B, mark) /\ ViewsFrom(B, mark)
      OBVIOUS
    <3>1. CommitsPast(A, mark) /\ ViewsFrom(A, mark)
      BY <1>4 DEF ClientInv, FramesHold
    <3>2. f.kind = "commit" => \A i \in DOMAIN f.mutations : mark < f.mutations[i].position
      <4>1. f.kind = "commit" => \A i \in DOMAIN f.mutations : f.mutations[i].position \in Nat
        BY CommitPositions
      <4>2. QED
        BY <1>3, <2>2, <4>1 DEF Publishes
    <3>3. f.kind = "view" => mark <= f.pos
      BY <2>2
    <3>4. QED
      BY <1>4, <3>1, <3>2, <3>3, GrownKeeps
  <2>4. conn'.active => Leads(G, IF pc \in Started THEN selectors ELSE conn'.view, conn'.view)
    <3>1. CASE f.kind = "view"
      <4>1. \A from : Leads(G, from, conn'.view)
        BY <1>4, <3>1, GrownLeads
      <4>2. QED
        BY <4>1
    <3>2. CASE f.kind # "view"
      <4>1. Leads(F, IF pc \in Started THEN selectors ELSE conn.view, conn.view)
        BY <1>4, <1>5 DEF ClientInv, FramesHold
      <4>2. Leads(G, IF pc \in Started THEN selectors ELSE conn.view, conn.view)
        BY <1>4, <3>2, <4>1, GrownLeads
      <4>3. QED
        BY <3>2, <4>2
    <3>3. QED
      BY <3>1, <3>2
  <2>5. (~Forwarding => taken = <<>> /\ ~ending)
        /\ (pc = "switchForward" => CommitsPast(taken, MaxPosition) /\ ViewsTo(taken, mark))
    BY DEF ClientInv, FramesHold
  <2>6. QED
    BY <1>1, <1>3, <1>4, <1>9, <1>10, <2>1, <2>2, <2>3, <2>4, <2>5 DEF FramesHold, Forwarding
<1>13. FramesBring'
  <2> SUFFICES ASSUME pc \in Streaming PROVE FramesBring'
    BY <1>1 DEF FramesBring
  <2>1. BringsAllTo(position)
    <3>1. PICK b \in 0..position : BringsAllTo(b)
      BY DEF ClientInv, FramesBring
    <3>2. b = position
      BY <3>1 DEF BringsAllTo
    <3>3. QED
      BY <3>1, <3>2
  <2>2. ASSUME NEW p \in (ReadTo + 1)..position' PROVE Brings(G, selectors, p, log[p], client.covered)
    <3>1. CASE p <= position
      <4>1. p \in Nat /\ p \in (ReadTo + 1)..position
        BY <1>2, <1>3, <3>1
      <4>2. Brings(F, selectors, p, log[p], client.covered)
        BY <1>4, <2>1, <4>1 DEF BringsAllTo
      <4>3. f.kind = "view" => p <= f.pos
        BY <3>1
      <4>4. QED
        BY <1>4, <4>1, <4>2, <4>3, GrownBrings
    <3>2. CASE ~(p <= position)
      <4>1. p \in position + 1..position' /\ f.kind = "commit"
        BY <1>2, <1>3, <3>2
      <4>2. Len(F) + 1 \in DOMAIN G /\ G[Len(F) + 1] = f
        BY <1>4, GrownParts
      <4>3. \A s \in log[p] : Carries(G, s, p)
        <5>1. IsCommitFrame(G, Len(F) + 1)
          BY <4>1, <4>2 DEF IsCommitFrame
        <5>2. \A s \in log[p] : \E i \in DOMAIN f.mutations : f.mutations[i].position = p /\ s \in f.mutations[i].edits
          BY <4>1 DEF Publishes
        <5>3. QED
          BY <4>2, <5>1, <5>2 DEF Carries
      <4>4. QED
        BY <4>3 DEF Brings
    <3>3. QED
      BY <3>1, <3>2
  <2>3. pc = "beatForward" => mark <= position'
    BY <1>3 DEF ClientInv, FramesHold
  <2>4. CommitsTo(G, position')
    BY <1>9
  <2>5. \E b \in 0..position' : BringsAllTo(b)'
    <3>1. PICK b \in 0..position' : b = position'
      OBVIOUS
    <3>2. BringsAllTo(b)'
      BY <1>1, <1>2, <1>4, <2>2, <2>3, <2>4, <3>1 DEF BringsAllTo
    <3>3. QED
      BY <3>2
  <2>6. QED
    BY <2>5 DEF FramesBring
<1>14. QED
  BY <1>2, <1>11, <1>12, <1>13 DEF ClientInv

\* A frame for the connection: it has ended, its backlog is full, or the frame is
\* queued.
LEMMA QueuedClient ==
  ASSUME TypeOK, CoreInv, ClientInv, conn # NoConn, conn' \in Conn, NEW f \in Frame,
         conn'.streaming = conn.streaming, conn.revoked => conn'.revoked,
         conn'.view = (IF f.kind = "view" THEN f.view ELSE conn.view),
         \/ /\ ~conn.active /\ ~conn'.active /\ conn'.backlog = conn.backlog
            /\ conn'.overflowed = conn.overflowed /\ conn'.notified = conn.notified
         \/ /\ conn.active /\ ~conn'.active /\ conn'.backlog = conn.backlog
            /\ conn'.overflowed /\ conn'.notified
         \/ /\ conn.active /\ (conn'.active <=> f.kind # "end")
            /\ conn'.backlog = Append(conn.backlog, f)
            /\ conn'.overflowed = conn.overflowed /\ conn'.notified,
         position' \in Nat, position <= position', UNCHANGED <<log, task, client, wire>>,
         f.kind = "view" => f.pos = position,
         f.kind # "commit" => position' = position,
         f.kind = "commit" => conn.streaming /\ Publishes(f)
  PROVE  ClientInv'
<1>1. conn'.view = conn.view \/ conn'.view # NoView
  BY FrameFields, StreamAssumption
<1>2. CASE conn'.backlog = conn.backlog /\ ~conn'.active
           /\ \/ ~conn.active /\ conn'.overflowed = conn.overflowed /\ conn'.notified = conn.notified
              \/ conn.active /\ conn'.overflowed /\ conn'.notified
  BY <1>1, <1>2, EndsClient
<1>3. CASE /\ conn.active /\ (conn'.active <=> f.kind # "end")
           /\ conn'.backlog = Append(conn.backlog, f)
           /\ conn'.overflowed = conn.overflowed /\ conn'.notified
  BY <1>3, FrameClient
<1>4. QED
  BY <1>2, <1>3

\* An account result leaves the stream alone, or ends it.
LEMMA DispatchAccountClient ==
  ASSUME TypeOK, CoreInv, ClientInv, DispatchAccount
  PROVE  ClientInv'
<1>1. UNCHANGED <<log, position, task, client, wire>> /\ position \in Nat
  BY StreamAssumption DEF DispatchAccount, core, TypeOK, Positions
<1>2. CASE conn' = conn
  BY <1>1, <1>2, SameClient
<1>3. CASE conn' # conn
  <2>1. conn # NoConn /\ conn' = [Ended(conn) EXCEPT !.revoked = TRUE]
    BY <1>3 DEF DispatchAccount
  <2>2. conn \in Conn
    BY <2>1, EntryType
  <2>3. PICK e \in Conn :
          /\ e = Ended(conn)
          /\ e.view = conn.view /\ e.streaming = conn.streaming /\ ~e.active
          /\ \/ ~conn.active /\ e.overflowed = conn.overflowed /\ e.notified = conn.notified /\ e.backlog = conn.backlog
             \/ conn.active /\ e.overflowed /\ e.notified /\ e.backlog = conn.backlog
             \/ conn.active /\ e.overflowed = conn.overflowed /\ e.notified
                /\ e.backlog = Append(conn.backlog, EndFrame)
    BY <2>2, EndedType
  <2>4. conn' = [e EXCEPT !.revoked = TRUE]
    BY <2>1, <2>3
  <2>5. /\ conn' \in Conn /\ conn'.revoked /\ conn'.view = e.view /\ conn'.streaming = e.streaming
        /\ conn'.active = e.active /\ conn'.overflowed = e.overflowed
        /\ conn'.notified = e.notified /\ conn'.backlog = e.backlog
    BY <2>4 DEF Conn
  <2>6. PICK f \in Frame : f = EndFrame /\ f.kind = "end"
    BY FrameType DEF EndFrame
  <2>7. QED
    BY <1>1, <2>1, <2>3, <2>5, <2>6, QueuedClient
<1>4. QED
  BY <1>2, <1>3

\* A changed view is queued behind the frames, or the stream ends.
LEMMA DispatchViewClient ==
  ASSUME TypeOK, CoreInv, ClientInv, DispatchView
  PROVE  ClientInv'
<1>1. UNCHANGED <<log, position, task, client, wire>> /\ position \in Nat /\ position \in Positions
  BY StreamAssumption DEF DispatchView, core, TypeOK, Positions
<1>2. PICK r \in Result : r = Head(results) /\ r.kind = "view"
  BY NextResult DEF DispatchView
<1>3. PICK view \in SUBSET Slices : view = r.grant \cap Wants
  BY <1>2, ResultFields
<1>4. CASE conn' = conn
  BY <1>1, <1>4, SameClient
<1>5. CASE Mine(r) /\ ~r.ok
  <2>1. conn # NoConn /\ conn' = Ended(conn) /\ conn \in Conn
    BY <1>2, <1>5, EntryType DEF DispatchView, Mine
  <2>2. PICK e \in Conn :
          /\ e = Ended(conn)
          /\ e.view = conn.view /\ e.streaming = conn.streaming /\ e.revoked = conn.revoked /\ ~e.active
          /\ \/ ~conn.active /\ e.overflowed = conn.overflowed /\ e.notified = conn.notified /\ e.backlog = conn.backlog
             \/ conn.active /\ e.overflowed /\ e.notified /\ e.backlog = conn.backlog
             \/ conn.active /\ e.overflowed = conn.overflowed /\ e.notified
                /\ e.backlog = Append(conn.backlog, EndFrame)
    BY <2>1, EndedType
  <2>3. PICK f \in Frame : f = EndFrame /\ f.kind = "end"
    BY FrameType DEF EndFrame
  <2>4. QED
    BY <1>1, <2>1, <2>2, <2>3, QueuedClient
<1>6. CASE Mine(r) /\ r.ok /\ view # conn.view
  <2>1. conn # NoConn /\ conn \in Conn
    BY <1>6, EntryType DEF Mine
  <2>2. PICK f \in Frame : /\ f = [kind |-> "view", view |-> view, pos |-> position]
                           /\ f.kind = "view" /\ f.view = view /\ f.pos = position
    BY <1>1, FrameType
  <2>3. PICK c \in Conn : /\ c = [conn EXCEPT !.view = view]
                          /\ c.view = view /\ c.active = conn.active /\ c.streaming = conn.streaming
                          /\ c.revoked = conn.revoked /\ c.backlog = conn.backlog
                          /\ c.overflowed = conn.overflowed /\ c.notified = conn.notified
    <3>1. [conn EXCEPT !.view = view] \in Conn
      BY <2>1 DEF Conn
    <3>2. PICK c \in Conn : c = [conn EXCEPT !.view = view]
      BY <3>1
    <3>3. /\ c.view = view /\ c.active = conn.active /\ c.streaming = conn.streaming
          /\ c.revoked = conn.revoked /\ c.backlog = conn.backlog
          /\ c.overflowed = conn.overflowed /\ c.notified = conn.notified
      BY <2>1, <3>2 DEF Conn
    <3>4. QED
      BY <3>2, <3>3
  <2>4. conn' = Queued(c, f)
    BY <1>2, <1>3, <1>6, <2>2, <2>3 DEF DispatchView
  <2>5. PICK q \in Conn :
          /\ q = Queued(c, f)
          /\ q.view = c.view /\ q.streaming = c.streaming /\ q.revoked = c.revoked
          /\ \/ ~c.active /\ q = c
             \/ /\ c.active /\ ~q.active /\ q.overflowed /\ q.notified /\ q.backlog = c.backlog
             \/ /\ c.active /\ q.active /\ q.overflowed = c.overflowed /\ q.notified
                /\ q.backlog = Append(c.backlog, f)
    BY QueuedType
  <2>6. /\ conn' = q /\ conn'.view = f.view /\ conn'.streaming = conn.streaming /\ conn'.revoked = conn.revoked
    BY <2>2, <2>3, <2>4, <2>5
  <2>7. \/ /\ ~conn.active /\ ~conn'.active /\ conn'.backlog = conn.backlog
           /\ conn'.overflowed = conn.overflowed /\ conn'.notified = conn.notified
        \/ /\ conn.active /\ ~conn'.active /\ conn'.backlog = conn.backlog
           /\ conn'.overflowed /\ conn'.notified
        \/ /\ conn.active /\ conn'.active /\ conn'.backlog = Append(conn.backlog, f)
           /\ conn'.overflowed = conn.overflowed /\ conn'.notified
    BY <2>3, <2>5, <2>6
  <2>8. QED
    BY <1>1, <2>1, <2>2, <2>6, <2>7, QueuedClient
<1>7. QED
  BY <1>2, <1>3, <1>4, <1>5, <1>6 DEF DispatchView

\* The answer of the registration: no frame is queued yet.
LEMMA DispatchReplyClient ==
  ASSUME TypeOK, CoreInv, ClientInv, DispatchReply
  PROVE  ClientInv'
<1>1. /\ UNCHANGED <<log, position, selectors, cursor, told, taken, ending, items, mark, client, wire>>
      /\ position \in Nat
  BY StreamAssumption DEF DispatchReply, core, TypeOK, Positions
<1>2. PICK r \in Result : r = Head(results) /\ r = results[1] /\ r.kind = "view" /\ r.asked /\ 1 \in DOMAIN results
  BY NextResult DEF DispatchReply
<1>3. CASE ~Mine(r)
  <2>1. conn' = conn /\ pc' = pc /\ reply' = reply
    BY <1>2, <1>3 DEF DispatchReply
  <2>2. QED
    BY <1>1, <2>1, SameClient DEF task
<1>4. CASE Mine(r)
  <2>1. /\ conn # NoConn /\ conn \in Conn /\ pc' = "replied"
        /\ reply' = [ok |-> r.ok, position |-> r.position]
        /\ conn' = IF r.ok THEN [conn EXCEPT !.view = r.grant \cap Wants, !.active = ~conn.revoked]
                   ELSE conn
    BY <1>2, <1>4, EntryType DEF DispatchReply, Mine
  <2>2. r.ok \in BOOLEAN /\ r.position \in Positions /\ r.grant \cap Wants \in SUBSET Slices
    BY <1>2, ResultFields
  <2>3. reply'.ok = r.ok /\ reply'.position = r.position
    BY <2>1
  <2>4. MyView(1)
    BY <1>2, <1>4 DEF MyView
  <2>5. pc = "wait" /\ ~conn.active
    BY <1>2, <2>1, <2>4 DEF CoreInv, RegistrationHolds
  <2>6. r.position <= Len(log)
    BY <1>2 DEF CoreInv, ResultsHold, ResultHolds
  <2>7. /\ taken = <<>> /\ items = <<>> /\ ~ending
        /\ conn.backlog = <<>> /\ ~conn.overflowed /\ ~conn.streaming
    BY <2>1, <2>5 DEF ClientInv, EntryHolds, Streaming
  <2>8. /\ conn' \in Conn /\ conn'.backlog = <<>> /\ ~conn'.overflowed /\ ~conn'.streaming
        /\ conn'.active <=> r.ok /\ ~conn'.revoked
        /\ r.ok => conn'.view \in SUBSET Slices
    <3>1. CASE r.ok
      <4>1. PICK view \in SUBSET Slices, live \in BOOLEAN :
              view = r.grant \cap Wants /\ live = ~conn.revoked
        BY <2>2
      <4>2. conn' = [conn EXCEPT !.view = view, !.active = live]
        BY <2>1, <3>1, <4>1
      <4>3. /\ conn' \in Conn /\ conn'.view = view /\ conn'.active = live
            /\ conn'.revoked = conn.revoked /\ conn'.backlog = conn.backlog
            /\ conn'.overflowed = conn.overflowed /\ conn'.streaming = conn.streaming
        BY <2>1, <4>2 DEF Conn
      <4>4. QED
        BY <2>7, <3>1, <4>1, <4>3
    <3>2. CASE ~r.ok
      BY <2>1, <2>5, <2>7, <3>2
    <3>3. QED
      BY <3>1, <3>2
  <2>9. conn' # NoConn /\ (r.ok => conn'.view # NoView)
    BY <2>8, NoConnAssumption, StreamAssumption
  <2>10. Frames' = <<>> /\ ~HasEnd(Frames')
    BY <1>1, <2>7, <2>8, NoFrames DEF Frames
  <2>11. ClientHolds'
    BY <1>1 DEF ClientInv, ClientHolds, CursorSkipsNothing, EachEditOnce
  <2>12. EntryHolds'
    BY <1>1, <2>1, <2>3, <2>6, <2>7, <2>8, <2>9, <2>10 DEF EntryHolds, Started, Streaming
  <2>13. FramesHold'
    BY <1>1, <2>1, <2>7, <2>8, <2>10, NoFrames DEF FramesHold, Started, Streaming, Forwarding
  <2>14. CursorHolds' /\ ItemsHold' /\ FramesBring'
    BY <2>1 DEF CursorHolds, ItemsHold, FramesBring, Started, Streaming, Replaying
  <2>15. QED
    BY <2>11, <2>12, <2>13, <2>14 DEF ClientInv
<1>5. QED
  BY <1>3, <1>4

\* What a commit publishes: the positions next to the published one.
PublishesNext(ms, n) ==
  /\ ms = Head(results).mutations /\ DOMAIN ms = 1..n /\ position' = position + n
  /\ \A k \in 1..n : ms[k].position = position + k /\ log[position + k] \subseteq ms[k].edits

\* A commit is dispatched when the position before its own is published.
LEMMA CommitPublishes ==
  ASSUME TypeOK, CoreInv, DispatchCommit
  PROVE  \E ms \in Seq(Mutation), n \in Nat \ {0} : PublishesNext(ms, n)
<1>1. PICK r \in Result : r = Head(results) /\ r = results[1] /\ r.kind = "commit" /\ 1 \in DOMAIN results
  BY NextResult DEF DispatchCommit
<1>2. PICK ms \in Seq(Mutation), n \in Nat : ms = r.mutations /\ n = Len(ms) /\ DOMAIN ms = 1..n
  BY <1>1, ResultFields, LenProperties
<1>3. Complete(r) /\ PublishedBy(1, r.position - Len(r.mutations))
  BY <1>1 DEF CoreInv, ResultsHold, ResultHolds
<1>4. r.position \in Nat /\ position \in Nat
  BY <1>1, ResultFields, StreamAssumption DEF Positions, TypeOK
<1>5. position = r.position - n
  BY <1>2, <1>3 DEF PublishedBy
<1>6. n # 0 /\ \A k \in 1..n : ms[k].position = r.position - n + k /\ log[r.position - n + k] \subseteq ms[k].edits
  BY <1>2, <1>3 DEF Complete
<1>7. position' = r.position
  BY <1>1 DEF DispatchCommit
<1>8. position' = position + n /\ \A k \in 1..n : r.position - n + k = position + k
  BY <1>4, <1>5, <1>7
<1>9. PublishesNext(ms, n)
  BY <1>1, <1>2, <1>6, <1>8 DEF PublishesNext
<1>10. QED
  BY <1>6, <1>9

\* Edits past every view frame, of no slice the last of them covers.
LEMMA UnseenBrings ==
  ASSUME NEW F \in Seq(Frame), NEW q \in Nat, NEW p \in Nat, q < p, ViewsTo(F, q),
         NEW from, NEW view, NEW edits, NEW covered,
         Leads(F, from, view), edits \cap view = {}
  PROVE  Brings(F, from, p, edits, covered)
<1>1. /\ DOMAIN F \subseteq Nat
      /\ \A k \in DOMAIN F : IsViewFrame(F, k) => F[k].pos \in Nat /\ F[k].pos < p
  BY FrameData DEF ViewsTo
<1>2. ASSUME NEW k \in DOMAIN F, Governs(F, k, p) PROVE F[k].view = view
  <2>1. IsViewFrame(F, k) /\ \A l \in DOMAIN F : l > k => ~IsViewFrame(F, l)
    BY <1>1, <1>2 DEF Governs
  <2>2. PICK j \in DOMAIN F : /\ IsViewFrame(F, j) /\ F[j].view = view
                              /\ \A l \in DOMAIN F : l > j => ~IsViewFrame(F, l)
    BY <2>1 DEF Leads
  <2>3. j = k
    BY <1>1, <2>1, <2>2
  <2>4. QED
    BY <2>2, <2>3
<1>3. ViewsFrom(F, p) => from = view
  <2>1. ViewsFrom(F, p) => \A k \in DOMAIN F : ~IsViewFrame(F, k)
    BY <1>1 DEF ViewsFrom
  <2>2. QED
    BY <2>1 DEF Leads
<1>4. QED
  BY <1>2, <1>3 DEF Brings

\* A commit the connection has no frame of: it does not stream yet, or its view
\* covers nothing of it.
LEMMA UnseenClient ==
  ASSUME TypeOK, CoreInv, ClientInv, conn # NoConn, conn.active, conn' = conn,
         position' \in Nat, position <= position', UNCHANGED <<log, task, client, wire>>,
         conn.streaming => \A p \in position + 1..position' : log[p] \cap conn.view = {}
  PROVE  ClientInv'
<1>1. UNCHANGED <<log, conn, pc, reply, selectors, cursor, told, taken, ending, items, mark, client, wire>>
  BY DEF task
<1>2. /\ ClientHolds' /\ CursorHolds' /\ ItemsHold' /\ ReadTo' = ReadTo /\ ReadTo \in Nat /\ (Doomed' <=> Doomed)
  BY DispatchKeeps
<1>3. Frames' = Frames /\ Frames \in Seq(Frame)
  BY <1>1, FramesAre DEF Frames
<1>4. position \in Nat /\ mark \in Nat
  BY StreamAssumption DEF TypeOK, Positions
<1>5. PICK F \in Seq(Frame) : F = Frames /\ F = Frames'
  BY <1>3
<1>6. EntryHolds'
  BY <1>1, <1>3 DEF ClientInv, EntryHolds
<1>7. CommitsTo(F, position) /\ ViewsTo(F, position) /\ CommitsTo(F, position') /\ ViewsTo(F, position')
  BY <1>4, <1>5, PastTo DEF ClientInv, FramesHold
<1>8. FramesHold'
  <2>1. pc \in {"switchForward", "hotReplay", "beat", "beatForward"} => mark <= position'
    BY <1>4 DEF ClientInv, FramesHold
  <2>2. CommitsTo(Frames', position') /\ ViewsTo(Frames', position')
    BY <1>5, <1>7
  <2>3. QED
    BY <1>1, <1>3, <2>1, <2>2 DEF ClientInv, FramesHold, Forwarding
<1>9. FramesBring'
  <2> SUFFICES ASSUME pc \in Streaming PROVE FramesBring'
    BY <1>1 DEF FramesBring
  <2>1. BringsAllTo(position)
    <3>1. PICK b \in 0..position : BringsAllTo(b)
      BY DEF ClientInv, FramesBring
    <3>2. b = position
      BY <3>1 DEF BringsAllTo
    <3>3. QED
      BY <3>1, <3>2
  <2>2. conn.streaming /\ pc # "wait" /\ pc \in Started
    BY DEF ClientInv, EntryHolds, Started, Streaming
  <2>3. Leads(F, selectors, conn.view)
    BY <1>5, <2>2 DEF ClientInv, FramesHold
  <2>4. ASSUME NEW p \in (ReadTo + 1)..position' PROVE Brings(F, selectors, p, log[p], client.covered)
    <3>1. CASE p <= position
      <4>1. p \in (ReadTo + 1)..position
        BY <1>2, <1>4, <3>1
      <4>2. QED
        BY <1>5, <2>1, <4>1 DEF BringsAllTo
    <3>2. CASE ~(p <= position)
      <4>1. p \in Nat /\ position < p /\ p \in position + 1..position'
        BY <1>2, <1>4, <3>2
      <4>2. log[p] \cap conn.view = {}
        BY <2>2, <4>1
      <4>3. QED
        BY <1>4, <1>7, <2>3, <4>1, <4>2, UnseenBrings
    <3>3. QED
      BY <3>1, <3>2
  <2>5. PICK b \in 0..position' : b = position'
    BY <1>4
  <2>6. pc = "beatForward" => mark <= position'
    BY <1>4 DEF ClientInv, FramesHold
  <2>7. BringsAllTo(b)'
    BY <1>1, <1>2, <1>5, <1>7, <2>4, <2>5, <2>6 DEF BringsAllTo
  <2>8. QED
    BY <2>5, <2>7 DEF FramesBring
<1>10. QED
  BY <1>2, <1>6, <1>8, <1>9 DEF ClientInv

\* A commit is dispatched to nobody.
LEMMA NobodyClient ==
  ASSUME ClientInv, conn = NoConn, conn' = NoConn, pc = "none",
         UNCHANGED <<log, task, client, wire>>
  PROVE  ClientInv'
<1>1. UNCHANGED <<log, pc, taken, ending, items, client, wire>>
  BY DEF task
<1>2. ClientHolds'
  BY <1>1 DEF ClientInv, ClientHolds, CursorSkipsNothing, EachEditOnce
<1>3. EntryHolds'
  BY <1>1 DEF ClientInv, EntryHolds
<1>4. FramesHold' /\ CursorHolds' /\ ItemsHold' /\ FramesBring'
  BY <1>1 DEF FramesHold, CursorHolds, ItemsHold, FramesBring, Started, Streaming, Replaying
<1>5. QED
  BY <1>2, <1>3, <1>4 DEF ClientInv

\* A commit is queued to a connection that streams what it edits, before it is published.
LEMMA DispatchCommitClient ==
  ASSUME TypeOK, CoreInv, ClientInv, DispatchCommit
  PROVE  ClientInv'
<1>1. UNCHANGED <<log, task, client, wire>> /\ position \in Nat
  BY StreamAssumption DEF DispatchCommit, core, TypeOK, Positions
<1>2. PICK ms \in Seq(Mutation), n \in Nat \ {0} : PublishesNext(ms, n)
  BY CommitPublishes
<1>3. /\ ms = Head(results).mutations /\ DOMAIN ms = 1..n /\ position' = position + n
      /\ \A k \in 1..n : ms[k].position = position + k /\ log[position + k] \subseteq ms[k].edits
  BY <1>2 DEF PublishesNext
<1>4. position' \in Nat /\ position <= position'
  BY <1>1, <1>3
<1>5. PICK f \in Frame : f = [kind |-> "commit", mutations |-> ms] /\ f.kind = "commit" /\ f.mutations = ms
  BY FrameType
<1>6. Publishes(f)
  <2>1. ASSUME NEW p \in position + 1..position', NEW s \in log[p]
        PROVE  \E i \in DOMAIN ms : ms[i].position = p /\ s \in ms[i].edits
    <3>1. p - position \in 1..n /\ position + (p - position) = p
      BY <1>1, <1>3
    <3>2. QED
      BY <1>3, <2>1, <3>1
  <2>2. /\ ms # <<>>
        /\ \A i \in DOMAIN ms : position < ms[i].position /\ ms[i].position <= position'
        /\ \A i, j \in DOMAIN ms : i < j => ms[i].position < ms[j].position
    BY <1>1, <1>3
  <2>3. QED
    BY <1>5, <2>1, <2>2 DEF Publishes
<1>7. CASE conn = NoConn
  <2>1. conn' = NoConn /\ pc = "none"
    BY <1>7 DEF DispatchCommit, TypeOK
  <2>2. QED
    BY <1>1, <1>7, <2>1, NobodyClient
<1>8. CASE conn # NoConn /\ ~conn.active
  <2>1. conn' = conn /\ conn \in Conn
    BY <1>8, EntryType DEF DispatchCommit
  <2>2. QED
    BY <1>1, <1>4, <1>8, <2>1, EndsClient
<1>9. CASE conn # NoConn /\ conn.active /\ conn.streaming /\ Covers(conn.view, ms)
  <2>1. conn' = Queued(conn, f) /\ conn \in Conn
    BY <1>3, <1>5, <1>9, EntryType DEF DispatchCommit
  <2>2. PICK q \in Conn :
          /\ q = Queued(conn, f)
          /\ q.view = conn.view /\ q.streaming = conn.streaming /\ q.revoked = conn.revoked
          /\ \/ ~conn.active /\ q = conn
             \/ /\ conn.active /\ ~q.active /\ q.overflowed /\ q.notified /\ q.backlog = conn.backlog
             \/ /\ conn.active /\ q.active /\ q.overflowed = conn.overflowed /\ q.notified
                /\ q.backlog = Append(conn.backlog, f)
    BY <2>1, QueuedType
  <2>3. QED
    BY <1>1, <1>4, <1>5, <1>6, <1>9, <2>1, <2>2, QueuedClient
<1>10. CASE conn # NoConn /\ conn.active /\ ~(conn.streaming /\ Covers(conn.view, ms))
  <2>1. conn' = conn
    BY <1>3, <1>10 DEF DispatchCommit
  <2>2. ASSUME conn.streaming, NEW p \in position + 1..position' PROVE log[p] \cap conn.view = {}
    <3>1. PICK k \in 1..n : p = position + k
      <4>1. p - position \in 1..n /\ p = position + (p - position)
        BY <1>1, <1>3
      <4>2. QED
        BY <4>1
    <3>2. ms[k].edits \cap conn.view = {} /\ log[p] \subseteq ms[k].edits
      BY <1>3, <1>10, <2>2, <3>1 DEF Covers
    <3>3. QED
      BY <3>2
  <2>3. QED
    BY <1>1, <1>4, <1>10, <2>1, <2>2, UnseenClient
<1>11. QED
  BY <1>7, <1>8, <1>9, <1>10

-----------------------------------------------------------------------------
(* Every step keeps the invariant.                                         *)

\* A batch of the core, with mutations or without.
LEMMA BatchOf ==
  ASSUME TypeOK, Commit \/ ServeRequests
  PROVE  \E muts \in Seq(Mutations), g \in SUBSET Slices, f \in BOOLEAN, gen \in Nat : Batch(muts, g, f, gen)
<1>1. grant \in SUBSET Slices /\ failed \in BOOLEAN /\ generation \in Nat
  BY DEF TypeOK
<1>2. CASE ServeRequests
  <2>1. <<>> \in Seq(Mutations)
    OBVIOUS
  <2>2. QED
    BY <1>1, <1>2, <2>1 DEF ServeRequests
<1>3. CASE Commit
  <2>1. PICK muts \in Groups, g \in Grants, f \in Failures, gen \in Generations : Batch(muts, g, f, gen)
    BY <1>3 DEF Commit
  <2>2. g \in SUBSET Slices /\ f \in BOOLEAN
    BY StreamAssumption
  <2>3. gen \in Nat
    BY <1>1 DEF Generations
  <2>4. muts \in Seq(Mutations)
    <3>1. PICK n \in 1..MaxGroup : muts \in [1..n -> Mutations]
      BY DEF Groups
    <3>2. n \in Nat
      BY StreamAssumption
    <3>3. \A S, m : m \in Nat /\ muts \in [1..m -> S] => muts \in Seq(S)
      OBVIOUS
    <3>4. QED
      BY <3>1, <3>2, <3>3
  <2>5. QED
    BY <2>1, <2>2, <2>3, <2>4
<1>4. QED
  BY <1>2, <1>3

\* A batch keeps the invariant.
LEMMA BatchKeeps ==
  ASSUME StreamInv, Commit \/ ServeRequests
  PROVE  StreamInv'
<1>1. TypeOK /\ CoreInv /\ ClientInv
  BY DEF StreamInv
<1>2. PICK muts \in Seq(Mutations), g \in SUBSET Slices, f \in BOOLEAN, gen \in Nat : Batch(muts, g, f, gen)
  BY <1>1, BatchOf
<1>3. IsFiniteSet(members)
  BY <1>1 DEF CoreInv, ResultsHold
<1>4. TypeOK'
  BY <1>1, <1>2, <1>3, BatchType
<1>5. CoreInv'
  BY <1>1, <1>2, BatchCore
<1>6. ClientInv'
  BY <1>1, <1>2, BatchClient
<1>7. QED
  BY <1>4, <1>5, <1>6 DEF StreamInv

\* The dispatcher keeps it.
LEMMA DispatchKeepsAll ==
  ASSUME StreamInv, Dispatch
  PROVE  StreamInv'
<1>1. TypeOK /\ CoreInv /\ ClientInv
  BY DEF StreamInv
<1>2. DispatchAccount \/ DispatchView \/ DispatchReply \/ DispatchCommit
  BY DEF Dispatch
<1>3. TypeOK'
  BY <1>1, <1>2, DispatchAccountType, DispatchViewType, DispatchReplyType, DispatchCommitType
<1>4. CoreInv'
  BY <1>1, <1>2, DispatchCore
<1>5. ClientInv'
  BY <1>1, <1>2, DispatchAccountClient, DispatchViewClient, DispatchReplyClient, DispatchCommitClient
<1>6. QED
  BY <1>3, <1>4, <1>5 DEF StreamInv

\* The entry comes and goes.
LEMMA ConnectKeeps ==
  ASSUME StreamInv, NEW c \in Conns, NEW g \in Nat, Connect(c, g)
  PROVE  StreamInv'
BY ConnectType, ConnectCore, ConnectClient DEF StreamInv

\* So does the end of a connection.
LEMMA GoneKeeps ==
  ASSUME StreamInv, Refused \/ ForwardEnd \/ Overflow \/ Drop
  PROVE  StreamInv'
<1>1. TypeOK /\ CoreInv /\ ClientInv
  BY DEF StreamInv
<1>2. DropConn /\ UNCHANGED client /\ (drops' = drops \/ drops' = drops + 1)
  BY DEF Refused, ForwardEnd, Overflow, Drop
<1>3. conn # NoConn
  BY <1>1 DEF Refused, ForwardEnd, Overflow, Drop, Forwarding, TypeOK
<1>4. drops' \in Nat
  BY <1>1, <1>2 DEF TypeOK
<1>5. TypeOK'
  BY <1>1, <1>2, <1>3, <1>4, DropConnType
<1>6. conn' = NoConn /\ Idle /\ UNCHANGED <<core, results, position, wire>>
  BY <1>2 DEF DropConn
<1>7. CoreInv'
  BY <1>1, <1>6, GoneKeepsCore
<1>8. ClientInv'
  <2>1. UNCHANGED <<core, client, wire>>
    BY <1>2, <1>6
  <2>2. QED
    BY <1>1, <1>6, <2>1, GoneKeepsClient
<1>9. QED
  BY <1>5, <1>7, <1>8 DEF StreamInv

\* So does a restart of the server.
LEMMA RestartKeeps ==
  ASSUME StreamInv, Restart
  PROVE  StreamInv'
<1>1. TypeOK /\ CoreInv /\ ClientInv
  BY DEF StreamInv
<1>2. conn' = NoConn /\ Idle /\ UNCHANGED <<log, client, wire>>
  BY DEF Restart
<1>3. ClientInv'
  BY <1>1, <1>2, GoneKeepsClient
<1>4. QED
  BY <1>1, <1>3, RestartType, RestartCore DEF StreamInv

\* The connection's task.
TaskStep ==
  \/ Start \/ TakeCold \/ ForwardView \/ ForwardCommit
  \/ ReadCold \/ ReadHot \/ Replay \/ ColdWindow \/ Switch \/ Live
  \/ Wake \/ Forwarded \/ TakeBeat \/ Vouch \/ Heartbeat

\* The connection's task leaves the results alone, and what the dispatcher goes by.
LEMMA TaskCore ==
  ASSUME TypeOK, CoreInv, TaskStep
  PROVE  CoreInv'
<1>1. /\ pc # "none" /\ pc # "wait" /\ pc' # "wait" /\ UNCHANGED <<core, server>>
      /\ \/ conn' = conn
         \/ conn' = [conn EXCEPT !.backlog = <<>>]
         \/ conn' = [conn EXCEPT !.backlog = <<>>, !.notified = FALSE]
         \/ conn' = [conn EXCEPT !.streaming = TRUE, !.backlog = <<>>]
  <2>1. CASE Start \/ TakeCold \/ ReadCold \/ ReadHot \/ Replay \/ ColdWindow \/ Switch \/ Live
    BY <2>1 DEF Start, TakeCold, ReadCold, ReadHot, Replay, ColdWindow, Switch, Live, Take, Read
  <2>2. CASE ForwardView \/ ForwardCommit \/ Wake \/ Forwarded \/ TakeBeat \/ Vouch \/ Heartbeat
    BY <2>2 DEF ForwardView, ForwardCommit, Wake, Forwarded, TakeBeat, Vouch, Heartbeat, Take, Forwarding
  <2>3. QED
    BY <2>1, <2>2 DEF TaskStep
<1>2. conn # NoConn /\ conn \in Conn
  BY <1>1, TaskTypes
<1>3. conn' \in Conn
  <2>1. <<>> \in Seq(Frame)
    OBVIOUS
  <2>2. QED
    BY <1>1, <1>2, <2>1 DEF Conn
<1>4. /\ conn'.id = conn.id /\ conn'.generation = conn.generation /\ conn'.view = conn.view
      /\ conn'.active = conn.active /\ conn'.revoked = conn.revoked
  BY <1>1, <1>2 DEF Conn
<1>5. conn' # NoConn
  BY <1>3, NoConnAssumption
<1>6. QED
  BY <1>1, <1>2, <1>4, <1>5, TaskKeepsCore

\* The first frame taken, if it is of a commit, holds a mutation.
LEMMA TakenMutations ==
  ASSUME TypeOK, ClientInv, Forwarding, taken # <<>>, Head(taken).kind = "commit"
  PROVE  Head(taken).mutations # <<>>
<1>1. conn # NoConn /\ taken \in Seq(Frame) /\ conn.backlog \in Seq(Frame)
  BY FramesAre DEF Forwarding, TypeOK
<1>2. \A A, B \in Seq(Frame) : A # <<>> => 1 \in DOMAIN (A \o B) /\ (A \o B)[1] = Head(A)
  OBVIOUS
<1>3. 1 \in DOMAIN Frames /\ Frames[1] = Head(taken)
  BY <1>1, <1>2 DEF Frames
<1>4. IsCommitFrame(Frames, 1)
  BY <1>1, <1>3 DEF IsCommitFrame
<1>5. QED
  BY <1>1, <1>3, <1>4 DEF ClientInv, FramesHold, InOrder

\* The connection's task keeps the invariant.
LEMMA TaskKeeps ==
  ASSUME StreamInv, TaskStep
  PROVE  StreamInv'
<1>1. TypeOK /\ CoreInv /\ ClientInv
  BY DEF StreamInv
<1>2. CoreInv'
  BY <1>1, TaskCore
<1>3. TypeOK'
  <2>1. CASE Start
    <3>1. conn.view # NoView
      BY <1>1, <2>1 DEF ClientInv, EntryHolds, Start, TypeOK
    <3>2. QED
      BY <1>1, <2>1, <3>1, StartType
  <2>2. CASE TakeCold \/ Wake \/ TakeBeat \/ Switch
    <3>1. pc \in Started /\ pc # "none"
      BY <2>2 DEF TakeCold, Wake, TakeBeat, Switch, Started, Streaming
    <3>2. conn.view # NoView
      BY <1>1, <3>1, TaskTypes DEF ClientInv, EntryHolds
    <3>3. QED
      BY <1>1, <2>2, <3>2, TakeType
  <2>3. CASE ForwardCommit
    BY <1>1, <2>3, TakenMutations, ForwardCommitType DEF ForwardCommit
  <2>4. CASE ForwardView
    BY <1>1, <2>4, ForwardViewType
  <2>5. CASE ReadCold \/ ReadHot
    BY <1>1, <2>5, ReadType
  <2>6. CASE Replay
    BY <1>1, <2>6, ReplayType
  <2>7. CASE ColdWindow \/ Live \/ Forwarded \/ Heartbeat \/ Vouch
    BY <1>1, <2>7, MoveType
  <2>8. QED
    BY <2>1, <2>2, <2>3, <2>4, <2>5, <2>6, <2>7 DEF TaskStep
<1>4. ClientInv'
  <2>1. CASE Start
    BY <1>1, <2>1, StartClient
  <2>2. CASE TakeCold \/ Wake \/ TakeBeat
    BY <1>1, <2>2, TakeClient
  <2>3. CASE ForwardView
    BY <1>1, <2>3, ForwardViewClient
  <2>4. CASE ForwardCommit
    BY <1>1, <2>4, ForwardCommitClient
  <2>5. CASE ReadCold
    BY <1>1, <2>5, ReadColdClient
  <2>6. CASE ReadHot
    BY <1>1, <2>6, ReadHotClient
  <2>7. CASE Replay
    BY <1>1, <2>7, ReplayClient
  <2>8. CASE ColdWindow
    BY <1>1, <2>8, WindowClient
  <2>9. CASE Switch
    BY <1>1, <2>9, SwitchClient
  <2>10. CASE Live
    BY <1>1, <2>10, LiveClient
  <2>11. CASE Forwarded \/ Heartbeat
    BY <1>1, <2>11, WaitClient
  <2>12. CASE Vouch
    BY <1>1, <2>12, VouchClient
  <2>13. QED
    BY <2>1, <2>2, <2>3, <2>4, <2>5, <2>6, <2>7, <2>8, <2>9, <2>10, <2>11, <2>12 DEF TaskStep
<1>5. QED
  BY <1>2, <1>3, <1>4 DEF StreamInv

\* So does a step of nobody.
LEMMA StutterKeeps ==
  ASSUME StreamInv, UNCHANGED vars
  PROVE  StreamInv'
<1>1. TypeOK /\ CoreInv /\ ClientInv
  BY DEF StreamInv
<1>2. UNCHANGED <<core, server, conn, task, client, wire, drops>>
  BY DEF vars
<1>3. UNCHANGED <<log, grant, failed, generation, members, grantAt, requests, results, position, conn, pc>>
  BY <1>2 DEF core, server, task
<1>4. ClientInv'
  BY <1>1, <1>2, <1>3, SameClient
<1>5. CoreInv'
  <2>1. /\ \A r : Mine(r)' <=> Mine(r)
        /\ \A i : (MyView(i)' <=> MyView(i)) /\ (IsCommit(i)' <=> IsCommit(i)) /\ (IsAccount(i)' <=> IsAccount(i))
    BY <1>3 DEF Mine, MyView, IsCommit, IsAccount
  <2>2. \A i, v : ViewBy(i, v)' <=> ViewBy(i, v)
    BY <1>3, <2>1 DEF ViewBy
  <2>3. \A i, p : PublishedBy(i, p)' <=> PublishedBy(i, p)
    BY <1>3, <2>1 DEF PublishedBy
  <2>4. ResultsHold'
    BY <1>1, <1>3, <2>1, <2>3 DEF CoreInv, ResultsHold, ResultHolds, Complete
  <2>5. RegistrationHolds'
    BY <1>1, <1>3, <2>1 DEF CoreInv, RegistrationHolds
  <2>6. ViewsFollow' /\ GenerationsFollow'
    BY <1>1, <1>3, <2>1, <2>2 DEF CoreInv, ViewsFollow, GenerationsFollow
  <2>7. PublishedViewIsCurrent' /\ NoStaleTokenStreams'
    BY <1>1, <1>3 DEF CoreInv, PublishedViewIsCurrent, NoStaleTokenStreams
  <2>8. QED
    BY <2>4, <2>5, <2>6, <2>7 DEF CoreInv
<1>6. QED
  BY <1>1, <1>4, <1>5, StutterType DEF StreamInv

-----------------------------------------------------------------------------
(* The theorems.                                                           *)

\* The invariant holds of every behaviour: however commits, changes of the grant,
\* registrations, steps of the dispatcher and of the connection's task, drops and
\* restarts follow each other.
THEOREM StreamInvariance == Spec => []StreamInv
<1>1. Init => StreamInv
  BY InitType, InitCore, InitClient DEF StreamInv
<1>2. StreamInv /\ [Next]_vars => StreamInv'
  <2> SUFFICES ASSUME StreamInv, [Next]_vars PROVE StreamInv'
    OBVIOUS
  <2>1. CASE Commit \/ ServeRequests
    BY <2>1, BatchKeeps
  <2>2. CASE Dispatch
    BY <2>2, DispatchKeepsAll
  <2>3. CASE \E c \in Conns, g \in 0..generation : Connect(c, g)
    <3>1. PICK c \in Conns, g \in 0..generation : Connect(c, g)
      BY <2>3
    <3>2. g \in Nat
      BY DEF StreamInv, TypeOK
    <3>3. QED
      BY <3>1, <3>2, ConnectKeeps
  <2>4. CASE Advance \/ Heartbeat
    <3>1. Refused \/ ForwardEnd \/ Overflow \/ TaskStep
      BY <2>4 DEF Advance, TaskStep
    <3>2. QED
      BY <3>1, GoneKeeps, TaskKeeps
  <2>5. CASE Drop
    BY <2>5, GoneKeeps
  <2>6. CASE Restart
    BY <2>6, RestartKeeps
  <2>7. CASE UNCHANGED vars
    BY <2>7, StutterKeeps
  <2>8. QED
    BY <2>1, <2>2, <2>3, <2>4, <2>5, <2>6, <2>7 DEF Next
<1>3. QED
  BY <1>1, <1>2, PTL DEF Spec

\* What is about to be written is filtered by the view the client was told of.
LEMMA InvFilters == StreamInv => FiltersByViewTold
<1> SUFFICES ASSUME StreamInv PROVE FiltersByViewTold
  OBVIOUS
<1>1. TypeOK /\ ClientInv
  BY DEF StreamInv
<1>2. CASE items # <<>>
  <2>1. pc \in Started /\ pc # "switchForward"
    BY <1>1, <1>2 DEF TypeOK, ClientInv, EntryHolds, CursorHolds, Started, Streaming, Replaying
  <2>2. QED
    BY <1>1, <2>1 DEF ClientInv, CursorHolds, FiltersByViewTold
<1>3. CASE taken # <<>> /\ Head(taken).kind = "commit"
  <2>1. Forwarding
    BY <1>1, <1>3 DEF TypeOK, ClientInv, EntryHolds, FramesHold
  <2>2. pc \in Started /\ conn # NoConn
    BY <1>1, <2>1 DEF Forwarding, TypeOK, Started, Streaming
  <2>3. pc # "switchForward"
    <3> SUFFICES ASSUME pc = "switchForward" PROVE FALSE
      OBVIOUS
    <3>1. taken \in Seq(Frame) /\ CommitsPast(taken, MaxPosition)
      BY <1>1, <2>2 DEF TypeOK, ClientInv, FramesHold
    <3>2. 1 \in DOMAIN taken /\ taken[1] = Head(taken)
      BY <1>3, <3>1
    <3>3. IsCommitFrame(taken, 1)
      BY <1>3, <3>2 DEF IsCommitFrame
    <3>4. PICK ms \in Seq(Mutation) : ms = taken[1].mutations
      BY <3>1, <3>2, <3>3, FrameData
    <3>5. ms # <<>>
      BY <1>1, <1>3, <2>1, <3>2, <3>4, TakenMutations
    <3>6. 1 \in DOMAIN ms /\ ms[1] \in Mutation
      BY <3>5
    <3>7. ms[1].position \in 1..MaxPosition /\ MaxPosition < ms[1].position
      <4>1. ms[1].position \in 1..MaxPosition
        BY <3>6 DEF Mutation
      <4>2. MaxPosition < ms[1].position
        BY <3>1, <3>2, <3>3, <3>4, <3>6 DEF CommitsPast
      <4>3. QED
        BY <4>1, <4>2
    <3>8. QED
      BY <3>7, StreamAssumption
  <2>4. QED
    BY <1>1, <2>2, <2>3 DEF ClientInv, CursorHolds, FiltersByViewTold
<1>4. QED
  BY <1>2, <1>3 DEF FiltersByViewTold

\* A live connection's task has been woken for what waits.
LEMMA InvWakes == StreamInv => NoLostWakeup
<1> SUFFICES ASSUME StreamInv, pc = "live" PROVE conn.backlog # <<>> \/ conn.overflowed => conn.notified
  BY DEF NoLostWakeup
<1>1. TypeOK /\ ClientInv /\ conn # NoConn /\ ~Forwarding
  BY DEF StreamInv, TypeOK, Forwarding
<1>2. ~ending
  BY <1>1 DEF ClientInv, FramesHold
<1>3. QED
  BY <1>1, <1>2 DEF ClientInv, EntryHolds

\* The types; edits are filtered by the view the client was last told of
\* (forward, replay); and once a position is published, every connection holds the
\* view of a batch at or past it (dispatch, settled).
THEOREM StreamViewsHold == Spec => []ViewsHold
<1>1. StreamInv => ViewsHold
  BY InvFilters DEF StreamInv, CoreInv, ViewsHold
<1>2. QED
  BY <1>1, StreamInvariance, PTL

\* The client misses no edit of its view at or below its cursor, over any number
\* of connections, drops and restarts, and a connection writes none twice
\* (stream_frames: the cold and the hot catchup, the backlog, the vouches).
THEOREM StreamExactAlways == Spec => []StreamIsExact
<1>1. StreamInv => StreamIsExact
  BY DEF StreamInv, ClientInv, ClientHolds, StreamIsExact
<1>2. QED
  BY <1>1, StreamInvariance, PTL

\* The task of a live connection never sleeps over a frame or an overflow (queue,
\* wake.notified).
THEOREM StreamWakes == Spec => []NoLostWakeup
<1>1. QED
  BY InvWakes, StreamInvariance, PTL

\* A connection whose token is of an earlier generation than the account's has
\* ended once the account results are dispatched (account).
THEOREM StreamRefusesStaleTokens == Spec => []NoStaleTokenStreams
<1>1. StreamInv => NoStaleTokenStreams
  BY DEF StreamInv, CoreInv
<1>2. QED
  BY <1>1, StreamInvariance, PTL

=============================================================================

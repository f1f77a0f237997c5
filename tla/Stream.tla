------------------------------- MODULE Stream -------------------------------
(***************************************************************************)
(* A stream connection, from the core's results to the client's cursor:    *)
(* the results channel the writer thread fills (core/writer.rs run_batch,  *)
(* settle), the dispatcher that turns them into frames on the connection's *)
(* backlog (server.rs dispatch, queue, account), and the connection's own  *)
(* task, which replays the log and forwards the backlog (view,             *)
(* stream_frames, forward, replay).  The client is what it keeps between   *)
(* connections: its cursor, its view, and which edits it was sent or told  *)
(* to backfill (client/ts and skeleton.ts, rules P8-P12).                  *)
(*                                                                         *)
(* A selector set is the set of slices it covers, so a view's token is the *)
(* view itself.  A frame reaches the client when it is written: what a     *)
(* broken connection loses in flight it could as well never have written.  *)
(***************************************************************************)
EXTENDS Integers, Sequences, FiniteSets, SequencesExt

CONSTANTS
  Slices,      \* slice names
  Wants,       \* the slices the client's wants cover
  Grants,      \* the grants the grantor may allow, as sets of slices
  Failures,    \* whether the grantor may fail: {FALSE}, or BOOLEAN
  Mutations,   \* what a mutation may edit, and which of it it erases
  Conns,       \* connection ids: an id is used again only once nothing holds it
  NoConn,      \* no connection
  NoView,      \* the view of a client that never heard of one
  MaxPosition, \* bound on positions
  MaxGroup,    \* bound on the mutations of a batch
  MaxBacklog,  \* --max-stream-backlog
  ColdBatch,   \* COLD_BATCH, the window of a cold read
  MaxDrops,    \* bound on connections that break, and on restarts
  MaxGeneration \* bound on the account's generation

ASSUME StreamAssumption ==
  /\ Wants \subseteq Slices
  /\ Grants \subseteq SUBSET Slices /\ Grants # {}
  /\ Failures \subseteq BOOLEAN
  /\ \A m \in Mutations : m.edits \in SUBSET Slices \ {{}} /\ m.erases \subseteq m.edits
  /\ NoConn \notin Conns
  /\ \A view \in SUBSET Slices : view # NoView
  /\ MaxPosition \in Nat /\ MaxGroup \in Nat /\ MaxDrops \in Nat /\ MaxGeneration \in Nat
  /\ MaxBacklog \in Nat /\ ColdBatch \in Nat \ {0}

VARIABLES
  log,        \* the committed log: the slices each position's edits are of
  grant,      \* what the grantor allows the principal as of the log's end
  failed,     \* whether the grantor fails instead
  generation, \* the account's generation as of the log's end
  members,    \* the connections the core sends changes of the grant to
  requests,   \* the requests waiting at the core
  results,    \* the results waiting at the dispatcher
  position,   \* the position the dispatcher published
  conn,       \* the server's entry of the connection, NoConn without one
  pc,         \* where the connection's task stands
  reply,      \* what the core answered its registration
  selectors,  \* the task's own copy of the view
  cursor,     \* everything at or below it is delivered
  told,       \* the last position the client was told of
  taken,      \* frames taken from the backlog, not written yet
  ending,     \* whether they are the last
  items,      \* edits read from the log, not written yet
  mark,       \* where the read ends, or the published position it read
  client,     \* the client's cursor, view, and the edits it has or backfills
  wire,       \* history: the positions whose edits this connection wrote
  grantAt,    \* history: the grant after each position's batch
  drops       \* connections broken and restarts so far

core == <<log, grant, failed, generation, members, grantAt>>
server == <<requests, results, position>>
task == <<pc, reply, selectors, cursor, told, taken, ending, items, mark>>
vars == <<core, server, conn, task, client, wire, drops>>

-----------------------------------------------------------------------------
(* The data.                                                               *)

Larger(a, b) == IF a >= b THEN a ELSE b

NewConn(c, g) ==
  [id |-> c, generation |-> g, view |-> NoView, active |-> FALSE,
   streaming |-> FALSE, backlog |-> <<>>, overflowed |-> FALSE,
   revoked |-> FALSE, notified |-> FALSE]

\* Mutant of Queued: a full backlog drops the frame and carries on.
QueuedDrops(c, f) ==
  IF ~c.active \/ Len(c.backlog) >= MaxBacklog THEN c
  ELSE [c EXCEPT !.backlog = Append(c.backlog, f), !.notified = TRUE]

\* queue: a frame on the backlog of a connection that has not ended, or the end
\* of one whose backlog is full; either wakes its task.
Queued(c, f) ==
  IF ~c.active THEN c
  ELSE IF Len(c.backlog) >= MaxBacklog
    THEN [c EXCEPT !.overflowed = TRUE, !.active = FALSE, !.notified = TRUE]
    ELSE [c EXCEPT !.backlog = Append(c.backlog, f), !.notified = TRUE]

EndFrame == [kind |-> "end"]

\* Mutant of Ended: it does not wake the task.
EndedSleeps(c) ==
  [Queued(c, EndFrame) EXCEPT !.active = FALSE, !.notified = c.notified]

\* The end of a connection that a failed grantor or a revocation ends.
Ended(c) == [Queued(c, EndFrame) EXCEPT !.active = FALSE]

\* Connection ids nothing in the server refers to.
Fresh == {c \in Conns :
            /\ c \notin members
            /\ conn # NoConn => conn.id # c
            /\ \A i \in DOMAIN requests : requests[i].conn # c
            /\ \A i \in DOMAIN results : results[i].conn # c}

-----------------------------------------------------------------------------
Init ==
  /\ log = <<>>
  /\ grant \in Grants
  /\ failed = FALSE
  /\ generation = 0
  /\ members = {}
  /\ requests = <<>>
  /\ results = <<>>
  /\ position = 0
  /\ conn = NoConn
  /\ pc = "none"
  /\ reply = [ok |-> FALSE, position |-> 0]
  /\ selectors = {}
  /\ cursor = 0
  /\ told = 0
  /\ taken = <<>>
  /\ ending = FALSE
  /\ items = <<>>
  /\ mark = 0
  /\ client = [cursor |-> -1, view |-> NoView, covered |-> {}]
  /\ wire = <<>>
  /\ grantAt = <<>>
  /\ drops = 0

-----------------------------------------------------------------------------
(* The core: one batch of the writer thread.                               *)

\* An erasing mutation takes its slices' earlier edits from the log.
Logged(l, muts) ==
  LET erased(p) == UNION {muts[i].erases : i \in {j \in DOMAIN muts : Len(l) + j > p}}
  IN  [p \in 1..Len(l) + Len(muts) |->
         (IF p <= Len(l) THEN l[p] ELSE muts[p - Len(l)].edits) \ erased(p)]

Account(g) == [kind |-> "account", conn |-> NoConn, generation |-> g]
ViewResult(c, asked, ok, g, p) ==
  [kind |-> "view", conn |-> c, asked |-> asked, ok |-> ok, grant |-> g, position |-> p]
CommitResult(muts, first, p) ==
  [kind |-> "commit", conn |-> NoConn, position |-> p,
   mutations |-> [i \in DOMAIN muts |->
                    [position |-> first + i - 1, edits |-> muts[i].edits]]]

\* run_batch: the requests waiting, and a group of mutations, the grant, its
\* failure and the generation as they leave them.  A registration's token speaks
\* for the generation as of its turn, before or after the mutations.  The results
\* go out in one order: the account, the views of the connections registered
\* before the batch, the commit, then the answers.
Batch(muts, g, f, gen) ==
  LET head == Len(log) + Len(muts)
      asks == {r \in {requests[i] : i \in DOMAIN requests} : r.kind = "register"}
      leave == {r.conn : r \in {requests[i] : i \in DOMAIN requests} \ asks}
      changed == g # grant \/ f # failed
  IN
  /\ muts # <<>> \/ requests # <<>>
  /\ muts = <<>> => g = grant /\ f = failed /\ gen = generation
  /\ head <= MaxPosition
  /\ log' = Logged(log, muts)
  /\ grantAt' = grantAt \o [i \in DOMAIN muts |-> g]
  /\ grant' = g /\ failed' = f /\ generation' = gen
  /\ requests' = <<>>
  /\ \E valid \in {generation, gen} :
       LET in == {r.conn : r \in {a \in asks : a.generation = valid}}
           Viewed(c) == ViewResult(c, FALSE, ~f, g, head)
           Answered(c) == IF c \in in THEN ViewResult(c, TRUE, ~f, g, head)
                          ELSE ViewResult(c, TRUE, FALSE, {}, head)
       IN
       /\ members' = (members \cup in) \ leave
       /\ \E views \in SetToSeqs(IF changed THEN members \ leave ELSE {}),
             asked \in SetToSeqs({r.conn : r \in asks}) :
            results' = results
              \o (IF gen # generation THEN <<Account(gen)>> ELSE <<>>)
              \o [i \in DOMAIN views |-> Viewed(views[i])]
              \o (IF muts # <<>> THEN <<CommitResult(muts, Len(log) + 1, head)>> ELSE <<>>)
              \o [i \in DOMAIN asked |-> Answered(asked[i])]
  /\ UNCHANGED <<position, conn, task, client, wire, drops>>

-----------------------------------------------------------------------------
(* The dispatcher: the only task that changes a connection's view and puts *)
(* frames on its backlog, under the server's lock.                         *)

Mine(r) == conn # NoConn /\ conn.id = r.conn

\* account: a connection whose token is of another generation ends.
DispatchAccount ==
  /\ results # <<>> /\ Head(results).kind = "account"
  /\ results' = Tail(results)
  /\ conn' = IF conn = NoConn \/ conn.revoked
                \/ conn.generation = Head(results).generation
             THEN conn ELSE [Ended(conn) EXCEPT !.revoked = TRUE]
  /\ UNCHANGED <<core, requests, position, task, client, wire, drops>>

\* A changed grant: the view frame's position is the one published before the
\* batch.  A grantor's failure ends a connection that was active.
DispatchView ==
  /\ results # <<>> /\ Head(results).kind = "view" /\ ~Head(results).asked
  /\ results' = Tail(results)
  /\ LET r == Head(results)
         view == r.grant \cap Wants
     IN  conn' = IF ~Mine(r) THEN conn
                 ELSE IF ~r.ok THEN Ended(conn)
                 ELSE IF view = conn.view THEN conn
                 ELSE Queued([conn EXCEPT !.view = view],
                             [kind |-> "view", view |-> view, pos |-> position])
  /\ UNCHANGED <<core, requests, position, task, client, wire, drops>>

\* Mutant of DispatchReply: a connection revoked while it registered starts.
DispatchReplyRevoked ==
  /\ results # <<>> /\ Head(results).kind = "view" /\ Head(results).asked
  /\ results' = Tail(results)
  /\ LET r == Head(results) IN
     IF ~Mine(r) THEN UNCHANGED <<conn, pc, reply>>
     ELSE /\ conn' = IF r.ok THEN [conn EXCEPT !.view = r.grant \cap Wants, !.active = TRUE]
                     ELSE conn
          /\ pc' = "replied"
          /\ reply' = [ok |-> r.ok, position |-> r.position]
  /\ UNCHANGED <<core, requests, position, selectors, cursor, told, taken, ending,
                 items, mark, client, wire, drops>>

\* The answer of a registration: the connection takes frames from here on.
DispatchReply ==
  /\ results # <<>> /\ Head(results).kind = "view" /\ Head(results).asked
  /\ results' = Tail(results)
  /\ LET r == Head(results) IN
     IF ~Mine(r) THEN UNCHANGED <<conn, pc, reply>>
     ELSE /\ conn' = IF r.ok THEN [conn EXCEPT !.view = r.grant \cap Wants,
                                               !.active = ~conn.revoked]
                     ELSE conn
          /\ pc' = "replied"
          /\ reply' = [ok |-> r.ok, position |-> r.position]
  /\ UNCHANGED <<core, requests, position, selectors, cursor, told, taken, ending,
                 items, mark, client, wire, drops>>

Covers(view, mutations) == \E i \in DOMAIN mutations : mutations[i].edits \cap view # {}

\* Mutant of DispatchCommit: it publishes the core's head in place of the
\* commit's position.
DispatchCommitHead ==
  /\ results # <<>> /\ Head(results).kind = "commit"
  /\ results' = Tail(results)
  /\ LET muts == Head(results).mutations IN
     conn' = IF conn # NoConn /\ conn.active /\ conn.streaming /\ Covers(conn.view, muts)
             THEN Queued(conn, [kind |-> "commit", mutations |-> muts])
             ELSE conn
  /\ position' = Len(log)
  /\ UNCHANGED <<core, requests, task, client, wire, drops>>

\* A commit: queued to a streaming connection whose view covers any of it, then
\* published, both under the lock.
DispatchCommit ==
  /\ results # <<>> /\ Head(results).kind = "commit"
  /\ results' = Tail(results)
  /\ LET muts == Head(results).mutations IN
     conn' = IF conn # NoConn /\ conn.active /\ conn.streaming /\ Covers(conn.view, muts)
             THEN Queued(conn, [kind |-> "commit", mutations |-> muts])
             ELSE conn
  /\ position' = Head(results).position
  /\ UNCHANGED <<core, requests, task, client, wire, drops>>

-----------------------------------------------------------------------------
(* The client.                                                             *)

\* An edits frame: its edits apply or park, and the cursor moves to it.
GetsEdits(p, edits) ==
  client' = [client EXCEPT !.cursor = Larger(client.cursor, p),
                           !.covered = client.covered \cup {<<s, p>> : s \in edits}]

\* A view frame at position n: what it newly grants is backfilled through n, and
\* what it does not cover is dropped.  A bootstrap's moves the cursor (P10).
SeesView(view, n) ==
  LET kept == IF client.view = NoView THEN {} ELSE client.view \cap view IN
  client' = [cursor |-> IF client.cursor = -1 THEN n ELSE client.cursor,
             view |-> view,
             covered |-> {e \in client.covered : e[1] \in kept}
                           \cup {e \in (view \ kept) \X (1..n) : e[1] \in log[e[2]]}]

\* A vouch or a live frame.
Vouched(n) == client' = [client EXCEPT !.cursor = Larger(client.cursor, n)]

\* The client connects from its cursor, presenting its view's token.
Connect(c, g) ==
  /\ pc = "none" /\ conn = NoConn
  /\ c \in Fresh
  /\ conn' = NewConn(c, g)
  /\ requests' = Append(requests, [kind |-> "register", conn |-> c, generation |-> g])
  /\ pc' = "wait"
  /\ wire' = <<>>
  /\ UNCHANGED <<core, results, position, reply, selectors, cursor, told, taken,
                 ending, items, mark, client, drops>>

-----------------------------------------------------------------------------
(* The connection's task.                                                  *)

\* Its locals once it is gone.
Idle ==
  /\ pc' = "none"
  /\ reply' = [ok |-> FALSE, position |-> 0]
  /\ selectors' = {} /\ cursor' = 0 /\ told' = 0
  /\ taken' = <<>> /\ ending' = FALSE /\ items' = <<>> /\ mark' = 0

\* Mutant of DropConn: the entry leaks.
DropConnLeaks ==
  /\ conn' = conn
  /\ requests' = Append(requests, [kind |-> "unregister", conn |-> conn.id])
  /\ Idle
  /\ UNCHANGED <<core, results, position, wire>>

\* The request ends: drop_conn removes the entry and tells the core.
DropConn ==
  /\ conn' = NoConn
  /\ requests' = Append(requests, [kind |-> "unregister", conn |-> conn.id])
  /\ Idle
  /\ UNCHANGED <<core, results, position, wire>>

\* The client goes away, or the token expires.
Drop ==
  /\ conn # NoConn
  /\ drops < MaxDrops
  /\ drops' = drops + 1
  /\ DropConn
  /\ UNCHANGED client

\* view and handle_stream, once the reply is in: a registration refused, or one
\* revoked before it started, is answered with an error.
Refused ==
  /\ pc = "replied"
  /\ ~reply.ok \/ conn.revoked
  /\ DropConn
  /\ UNCHANGED <<client, drops>>

\* Otherwise the stream starts at the client's cursor, or at the registration's
\* position, with the view the dispatcher holds by now; its first frame is the
\* view, unless the client presented its token.
Start ==
  /\ pc = "replied"
  /\ reply.ok /\ ~conn.revoked
  /\ LET from == IF client.cursor >= 0 THEN client.cursor ELSE reply.position IN
     /\ selectors' = conn.view
     /\ cursor' = from /\ told' = from
     /\ IF client.view = conn.view THEN UNCHANGED client ELSE SeesView(conn.view, from)
  /\ pc' = "cold"
  /\ UNCHANGED <<core, server, conn, reply, taken, ending, items, mark, wire, drops>>

\* Takes the backlog whole, under the lock.
Take(next) ==
  /\ taken' = conn.backlog
  /\ ending' = conn.overflowed
  /\ pc' = next

TakeCold ==
  /\ pc = "cold"
  /\ Take("coldForward")
  /\ conn' = [conn EXCEPT !.backlog = <<>>]
  /\ UNCHANGED <<core, server, reply, selectors, cursor, told, items, mark, client,
                 wire, drops>>

Forwarding == pc \in {"coldForward", "switchForward", "wakeForward", "beatForward"}

\* Mutant of ForwardView: it writes the frame and goes on filtering by the old view.
ForwardViewOnly ==
  /\ Forwarding
  /\ taken # <<>> /\ Head(taken).kind = "view"
  /\ SeesView(Head(taken).view, Larger(Head(taken).pos, cursor))
  /\ taken' = Tail(taken)
  /\ UNCHANGED <<core, server, conn, pc, reply, selectors, cursor, told, ending, items,
                 mark, wire, drops>>

\* forward, one view frame: written at the later of its position and the cursor.
ForwardView ==
  /\ Forwarding
  /\ taken # <<>> /\ Head(taken).kind = "view"
  /\ LET v == Head(taken) IN
     /\ SeesView(v.view, Larger(v.pos, cursor))
     /\ selectors' = v.view
  /\ taken' = Tail(taken)
  /\ UNCHANGED <<core, server, conn, pc, reply, cursor, told, ending, items, mark,
                 wire, drops>>

\* forward, an end frame: the connection is done, whatever was queued behind it.
ForwardEnd ==
  /\ Forwarding
  /\ taken # <<>> /\ Head(taken).kind = "end"
  /\ DropConn
  /\ UNCHANGED <<client, drops>>

\* Mutant of ForwardCommit: it does not skip what the hot catchup sent.
ForwardCommitAgain ==
  /\ Forwarding
  /\ taken # <<>> /\ Head(taken).kind = "commit"
  /\ LET m == Head(Head(taken).mutations)
         rest == Tail(Head(taken).mutations)
         edits == m.edits \cap selectors
     IN
     /\ IF edits # {}
        THEN /\ GetsEdits(m.position, edits)
             /\ wire' = Append(wire, m.position)
             /\ cursor' = m.position
        ELSE UNCHANGED <<client, wire, cursor>>
     /\ taken' = IF rest = <<>> THEN Tail(taken)
                 ELSE <<[kind |-> "commit", mutations |-> rest]>> \o Tail(taken)
  /\ UNCHANGED <<core, server, conn, pc, reply, selectors, told, ending, items, mark,
                 drops>>

\* forward, one mutation of a commit: one at or below the cursor was sent by the
\* hot catchup, and one the view does not cover is no frame.
ForwardCommit ==
  /\ Forwarding
  /\ taken # <<>> /\ Head(taken).kind = "commit"
  /\ LET m == Head(Head(taken).mutations)
         rest == Tail(Head(taken).mutations)
         edits == m.edits \cap selectors
     IN
     /\ IF m.position > cursor /\ edits # {}
        THEN /\ GetsEdits(m.position, edits)
             /\ wire' = Append(wire, m.position)
             /\ cursor' = m.position
        ELSE UNCHANGED <<client, wire, cursor>>
     /\ taken' = IF rest = <<>> THEN Tail(taken)
                 ELSE <<[kind |-> "commit", mutations |-> rest]>> \o Tail(taken)
  /\ UNCHANGED <<core, server, conn, pc, reply, selectors, told, ending, items, mark,
                 drops>>

\* The end of forward for a backlog that overflowed.
Overflow ==
  /\ Forwarding /\ taken = <<>> /\ ending
  /\ DropConn
  /\ UNCHANGED <<client, drops>>

\* The positions from one to another that hold edits.
ReadLog(from, to) ==
  LET found == {p \in from..to : p <= Len(log) /\ log[p] # {}}
      nth(i) == CHOOSE p \in found : Cardinality({q \in found : q <= p}) = i
  IN  [i \in 1..Cardinality(found) |-> [position |-> nth(i), edits |-> log[nth(i)]]]

Read(from, to, next) ==
  /\ Forwarding /\ taken = <<>> /\ ~ending
  /\ items' = ReadLog(from, to)
  /\ pc' = next

\* The cold catchup reads a window past the cursor, committed or published.
ReadCold ==
  /\ pc = "coldForward"
  /\ Read(cursor + 1, cursor + ColdBatch, "coldReplay")
  /\ mark' = IF items' = <<>> THEN cursor ELSE items'[Len(items')].position
  /\ UNCHANGED <<core, server, conn, reply, selectors, cursor, told, taken, ending,
                 client, wire, drops>>

\* Mutants of ReadHot: it takes the empty cold window for the log's end, or it
\* reads the cursor's own position again.
ReadHotNothing ==
  /\ pc = "switchForward"
  /\ Read(mark + 1, mark, "hotReplay")
  /\ UNCHANGED <<core, server, conn, reply, selectors, cursor, told, taken, ending,
                 mark, client, wire, drops>>
ReadHotCursor ==
  /\ pc = "switchForward"
  /\ Read(Larger(cursor, 1), mark, "hotReplay")
  /\ UNCHANGED <<core, server, conn, reply, selectors, cursor, told, taken, ending,
                 mark, client, wire, drops>>

ReadHot ==
  /\ pc = "switchForward"
  /\ Read(cursor + 1, mark, "hotReplay")
  /\ UNCHANGED <<core, server, conn, reply, selectors, cursor, told, taken, ending,
                 mark, client, wire, drops>>

\* replay, one mutation.
Replay ==
  /\ pc \in {"coldReplay", "hotReplay"}
  /\ items # <<>>
  /\ LET m == Head(items)
         edits == m.edits \cap selectors
     IN  IF edits # {}
         THEN /\ GetsEdits(m.position, edits)
              /\ wire' = Append(wire, m.position)
              /\ told' = m.position
         ELSE UNCHANGED <<client, wire, told>>
  /\ items' = Tail(items)
  /\ UNCHANGED <<core, server, conn, pc, reply, selectors, cursor, taken, ending,
                 mark, drops>>

\* A cold window that moved the cursor: what lies past the last frame is vouched
\* for, and the next window is read.
ColdWindow ==
  /\ pc = "coldReplay" /\ items = <<>> /\ mark # cursor
  /\ cursor' = mark
  /\ IF mark > told THEN Vouched(mark) /\ told' = mark ELSE UNCHANGED <<client, told>>
  /\ pc' = "cold"
  /\ UNCHANGED <<core, server, conn, reply, selectors, taken, ending, items, mark,
                 wire, drops>>

\* An empty one: the switch to streaming, under the lock.
Switch ==
  /\ pc = "coldReplay" /\ items = <<>> /\ mark = cursor
  /\ conn' = [conn EXCEPT !.streaming = TRUE, !.backlog = <<>>]
  /\ selectors' = conn.view
  /\ mark' = position
  /\ Take("switchForward")
  /\ UNCHANGED <<core, server, reply, cursor, told, items, client, wire, drops>>

\* The end of the hot catchup.
Live ==
  /\ pc = "hotReplay" /\ items = <<>>
  /\ cursor' = Larger(cursor, mark)
  /\ Vouched(cursor')
  /\ pc' = "live"
  /\ mark' = 0
  /\ UNCHANGED <<core, server, conn, reply, selectors, told, taken, ending, items,
                 wire, drops>>

\* A frame was queued: wake.notified, and the backlog taken.
Wake ==
  /\ pc = "live"
  /\ conn.notified
  /\ Take("wakeForward")
  /\ conn' = [conn EXCEPT !.backlog = <<>>, !.notified = FALSE]
  /\ UNCHANGED <<core, server, reply, selectors, cursor, told, items, mark, client,
                 wire, drops>>

Forwarded ==
  /\ pc = "wakeForward" /\ taken = <<>> /\ ~ending
  /\ pc' = "live"
  /\ UNCHANGED <<core, server, conn, reply, selectors, cursor, told, taken, ending,
                 items, mark, client, wire, drops>>

\* The heartbeat reads the published position before it takes the backlog.
Heartbeat ==
  /\ pc = "live"
  /\ mark' = position
  /\ pc' = "beat"
  /\ UNCHANGED <<core, server, conn, reply, selectors, cursor, told, taken, ending,
                 items, client, wire, drops>>

TakeBeat ==
  /\ pc = "beat"
  /\ Take("beatForward")
  /\ conn' = [conn EXCEPT !.backlog = <<>>]
  /\ UNCHANGED <<core, server, reply, selectors, cursor, told, items, mark, client,
                 wire, drops>>

\* Mutants of Vouch: it reads the published position after the backlog was taken,
\* or vouches for the cursor alone.
VouchLate ==
  /\ pc = "beatForward" /\ taken = <<>> /\ ~ending
  /\ cursor' = Larger(cursor, position)
  /\ Vouched(cursor')
  /\ pc' = "live"
  /\ mark' = 0
  /\ UNCHANGED <<core, server, conn, reply, selectors, told, taken, ending, items,
                 wire, drops>>
VouchCursor ==
  /\ pc = "beatForward" /\ taken = <<>> /\ ~ending
  /\ Vouched(cursor)
  /\ pc' = "live"
  /\ mark' = 0
  /\ UNCHANGED <<core, server, conn, reply, selectors, cursor, told, taken, ending,
                 items, wire, drops>>

Vouch ==
  /\ pc = "beatForward" /\ taken = <<>> /\ ~ending
  /\ cursor' = Larger(cursor, mark)
  /\ Vouched(cursor')
  /\ pc' = "live"
  /\ mark' = 0
  /\ UNCHANGED <<core, server, conn, reply, selectors, told, taken, ending, items,
                 wire, drops>>

\* The server process dies and starts again: what is committed stays, the
\* results and requests in memory go, and the dispatcher starts at the log's head.
Restart ==
  /\ drops < MaxDrops
  /\ drops' = drops + 1
  /\ requests' = <<>> /\ results' = <<>> /\ members' = {}
  /\ position' = Len(log)
  /\ conn' = NoConn
  /\ Idle
  /\ UNCHANGED <<log, grant, failed, generation, grantAt, client, wire>>

-----------------------------------------------------------------------------
Dispatch == DispatchAccount \/ DispatchView \/ DispatchReply \/ DispatchCommit

\* What the task does with no timer and nobody's leave.
Advance ==
  \/ Refused \/ Start
  \/ TakeCold \/ ForwardView \/ ForwardEnd \/ ForwardCommit \/ Overflow
  \/ ReadCold \/ ReadHot \/ Replay \/ ColdWindow \/ Switch \/ Live
  \/ Wake \/ Forwarded \/ TakeBeat \/ Vouch

Groups == UNION {[1..n -> Mutations] : n \in 1..MaxGroup}

Generations == {g \in {generation, generation + 1} : g <= MaxGeneration}

\* A grantor that fails names no other grant.
Commit ==
  \E muts \in Groups, g \in Grants, f \in Failures, gen \in Generations :
    (f => g = grant) /\ Batch(muts, g, f, gen)

ServeRequests == Batch(<<>>, grant, failed, generation)

Next ==
  \/ Commit
  \/ ServeRequests
  \/ Dispatch
  \/ \E c \in Conns, g \in 0..generation : Connect(c, g)
  \/ Advance
  \/ Heartbeat
  \/ Drop
  \/ Restart

Spec == Init /\ [][Next]_vars

\* The writer thread serves what waits, the dispatcher and the connection's task
\* run whenever they can, the heartbeat's timer fires, and a client whose stream
\* keeps ending connects in the end with a token of the current generation.
FairSpec ==
  /\ Spec
  /\ WF_vars(ServeRequests)
  /\ WF_vars(Dispatch)
  /\ WF_vars(Advance)
  /\ WF_vars(Heartbeat)
  /\ SF_vars(\E c \in Conns : Connect(c, generation))

-----------------------------------------------------------------------------
(* Properties.                                                             *)

Positions == 0..MaxPosition
Mutation == [position: 1..MaxPosition, edits: SUBSET Slices]
Frame == [kind: {"view"}, view: SUBSET Slices, pos: Positions] \cup [kind: {"end"}]
           \cup [kind: {"commit"}, mutations: Seq(Mutation)]
Result == [kind: {"account"}, conn: {NoConn}, generation: Nat]
            \cup [kind: {"view"}, conn: Conns, asked: BOOLEAN, ok: BOOLEAN,
                  grant: SUBSET Slices, position: Positions]
            \cup [kind: {"commit"}, conn: {NoConn}, position: Positions,
                  mutations: Seq(Mutation)]
Request == [kind: {"register"}, conn: Conns, generation: Nat]
             \cup [kind: {"unregister"}, conn: Conns]
Conn == [id: Conns, generation: Nat, view: {NoView} \cup SUBSET Slices,
         active: BOOLEAN, streaming: BOOLEAN, backlog: Seq(Frame),
         overflowed: BOOLEAN, revoked: BOOLEAN, notified: BOOLEAN]

\* No entry is no entry.
ASSUME NoConnAssumption == NoConn \notin Conn

TypeOK ==
  /\ log \in Seq(SUBSET Slices) /\ Len(log) <= MaxPosition
  /\ grant \in SUBSET Slices /\ failed \in BOOLEAN /\ generation \in Nat
  /\ members \subseteq Conns
  /\ requests \in Seq(Request)
  /\ results \in Seq(Result)
  /\ position \in Positions
  /\ conn \in {NoConn} \cup Conn
  /\ pc \in {"none", "wait", "replied", "cold", "coldForward", "coldReplay",
            "switchForward", "hotReplay", "live", "wakeForward", "beat", "beatForward"}
  /\ conn = NoConn <=> pc = "none"
  /\ reply \in [ok: BOOLEAN, position: Positions]
  /\ selectors \in SUBSET Slices
  /\ cursor \in Positions /\ told \in Positions /\ mark \in Positions
  /\ taken \in Seq(Frame) /\ ending \in BOOLEAN
  /\ items \in Seq(Mutation)
  /\ client \in [cursor: -1..MaxPosition, view: {NoView} \cup SUBSET Slices,
                covered: SUBSET (Slices \X (1..MaxPosition))]
  /\ wire \in Seq(1..MaxPosition)
  /\ grantAt \in Seq(SUBSET Slices) /\ Len(grantAt) = Len(log)
  /\ drops \in Nat

\* P12, over any number of connections, drops and restarts: every edit at or
\* below the client's cursor of a slice its view covers was sent to it or is
\* below the position a backfill it was told of reads through (the switch to
\* streaming, view_frame's position, the vouches).
CursorSkipsNothing ==
  client.view # NoView =>
    \A p \in 1..client.cursor : \A s \in log[p] \cap client.view :
      <<s, p>> \in client.covered

\* A connection writes each mutation's edits once, in position order: the hot
\* catchup and the backlog never both write one.
EachEditOnce ==
  \A i \in 1..Len(wire) - 1 : wire[i] < wire[i + 1]

\* The client misses no edit and gets none twice.  (stream_frames)
StreamIsExact == CursorSkipsNothing /\ EachEditOnce

\* Edits are filtered by the view the client was last told of, never by a later
\* one the dispatcher already holds, nor by an earlier one.
FiltersByViewTold ==
  (items # <<>> \/ (taken # <<>> /\ Head(taken).kind = "commit"))
    => (selectors = client.view)

\* Once a position is published, every connection holds the view of a batch at
\* or past it, so a read that waited for the position answers by no older grant
\* (settled, not_visible).
PublishedViewIsCurrent ==
  conn # NoConn =>
    (conn.active /\ position > 0 =>
      \E q \in position..Len(log) : conn.view = grantAt[q] \cap Wants)

\* What the dispatcher holds, what the connection's task forwards by and what the
\* client was told are of one type and speak of one view.
ViewsHold == TypeOK /\ FiltersByViewTold /\ PublishedViewIsCurrent

\* A live connection's task never sleeps over a frame or an overflow.
NoLostWakeup ==
  pc = "live" => (conn.backlog # <<>> \/ conn.overflowed => conn.notified)

\* The dispatcher's account results revoke a connection before the batch that
\* changed the generation is published: an active connection's token speaks for
\* a generation at least as new.
NoStaleTokenStreams ==
  conn # NoConn =>
    (conn.active /\ (\A i \in DOMAIN results : results[i].kind # "account")
       => conn.generation = generation)

\* However commits, view changes, dropped connections, overflows and restarts
\* fall, once they stop the client comes to the head, with the view it may see,
\* unless the grantor goes on failing.
ClientCatchesUp ==
  <>[](failed \/ (client.cursor = Len(log) /\ client.view = grant \cap Wants))
========================================================================

------------------------------ MODULE Replica -------------------------------
(***************************************************************************)
(* A client Engine that replicates a database (skeleton.ts): the frames of *)
(* its connection, the backfills it downloads over it (client/ts http.ts,  *)
(* against the server's snapshot and edits reads), and the passes of its   *)
(* advancer, each one store transaction on the store of ReplicaStore, with *)
(* lost connections, failed downloads, restarts and changes of build.      *)
(*                                                                         *)
(* The database is a history that its head walks through, and a connection *)
(* is what Stream shows one to be: it delivers, in order, every readable   *)
(* edit above its cursor that the view it told covers, a view frame at     *)
(* the last position it sent under the view before, and vouches for        *)
(* positions with nothing left below them.                                 *)
(***************************************************************************)
EXTENDS ReplicaStore, SequencesExt

CONSTANTS
  Histories,  \* the logs a run of the database may write
  Grants,     \* the grants its grantor may give, as sets of selectors
  Builds,     \* the wants of the builds that may start, as sets of selectors
  NoFeed,     \* no connection on the server's side
  CutLag,     \* how many positions behind the head a cached blob may be cut
  TailMax,    \* the positions a page of a tail holds at most
  Faults,     \* which faults happen, of AllFaults
  MaxFaults,  \* bound on faults
  MaxGrants,  \* bound on changes of the grant
  MaxInbox,   \* bound on the frames that wait for the advancer
  MaxWork     \* bound on the pushes that do

AllFaults == {"drop", "restart", "open", "body", "page", "tail"}

H == INSTANCE History

ASSUME ReplicaAssumption ==
  /\ \A log \in Histories : H!IsHistory(log)
  /\ Grants \subseteq SUBSET Selectors /\ Grants # {}
  /\ Builds \subseteq SUBSET Selectors /\ Builds # {}
  /\ CutLag \in Nat /\ TailMax \in Nat \ {0} /\ Faults \subseteq AllFaults
  /\ MaxFaults \in Nat /\ MaxGrants \in Nat /\ MaxInbox \in Nat \ {0}
  /\ MaxWork \in Nat \ {0} /\ IsFiniteSet(Slices)

\* What is not there is not mistaken for what is.
ASSUME NothingAssumption ==
  /\ \A x \in SUBSET Selectors : NoView # x /\ NoView # [token |-> x, selectors |-> x]
  /\ NoFeed \notin [told : SUBSET Selectors, sent : Nat, vouched : Int]
  /\ NoResume \notin [position : Nat, visible : Nat, skip : Nat, from : Nat,
                      snapshotDone : BOOLEAN, tailDone : BOOLEAN]
  /\ NoCall \notin [blob : {"open", "body", "done"}, skip : Nat, position : Nat,
                    tail : {"wait", "read", "end", "done"}, from : Nat, tailDone : BOOLEAN]

VARIABLES
  log,      \* the history the database walks through
  head,     \* how far it came
  granted,  \* what its grantor grants the client
  feed,     \* the server's side of the connection, NoFeed without one
  wants,    \* the selectors of the slice types of the build that runs
  engine,   \* the Engine's store, and its backfills in memory
  up,       \* whether the Engine has a connection
  inbox,    \* frames that wait for the advancer
  work,     \* pushes that wait for it
  outcomes, \* ends of calls that wait for it
  faults,   \* faults so far
  changes   \* changes of the grant so far

database == <<log, head, granted, changes>>
queues == <<inbox, work, outcomes>>
vars == <<database, feed, wants, engine, up, queues, faults>>

-----------------------------------------------------------------------------
(* The database.                                                           *)

\* The selectors of a view: the narrower of each pair of a grant and a want.
Intersect(grant, want) ==
  {m \in grant : \E w \in want : m \subseteq w}
    \cup {w \in want : \E m \in grant : w \subseteq m}

\* A view record: the token is a hash of the selectors the server told.
ViewOf(selectors) == [token |-> selectors, selectors |-> selectors]
Token(e) == IF e.view = NoView THEN NoView ELSE e.view.token

\* An edit on the wire: its envelope.
Edit(s, p) ==
  [slice |-> s, position |-> p, seq |-> H!SeqAt(log, s, p),
   life |-> IF H!IsDeath(log, s, p) THEN "death" ELSE log[p][s]]

\* The edits of a position that are still in the log, for the slices of a selector.
ReadAt(p, slices) == {Edit(s, p) : s \in {x \in slices : H!Readable(log, head, x, p)}}

Commit ==
  /\ head < Len(log)
  /\ head' = head + 1
  /\ UNCHANGED <<log, granted, changes, feed, wants, engine, up, queues, faults>>

ChangeGrant ==
  /\ changes < MaxGrants
  /\ granted' \in Grants \ {granted}
  /\ changes' = changes + 1
  /\ UNCHANGED <<log, head, feed, wants, engine, up, queues, faults>>

-----------------------------------------------------------------------------
(* The connection.                                                         *)

Shown(selectors) == UNION selectors

\* The first position the connection has an edit of to deliver, head + 1 for none.
NextShown ==
  LET due == {p \in feed.sent + 1..head : ReadAt(p, Shown(feed.told)) # {}} IN
  IF due = {} THEN head + 1 ELSE CHOOSE p \in due : \A q \in due : p <= q

Deliver(frame) == inbox' = Append(inbox, frame)

FeedEdits ==
  /\ feed # NoFeed /\ Len(inbox) < MaxInbox
  /\ NextShown <= head
  /\ Deliver([kind |-> "edits", position |-> NextShown,
              edits |-> ReadAt(NextShown, Shown(feed.told))])
  /\ feed' = [feed EXCEPT !.sent = NextShown]
  /\ UNCHANGED <<database, wants, engine, up, work, outcomes, faults>>

\* A change of the view, at a position everything under the old view was sent to.
FeedView ==
  /\ feed # NoFeed /\ Len(inbox) < MaxInbox
  /\ feed.told # Intersect(granted, wants)
  /\ \E position \in feed.sent..NextShown - 1 :
       /\ Deliver([kind |-> "view", position |-> position,
                   view |-> ViewOf(Intersect(granted, wants))])
       /\ feed' = [feed EXCEPT !.told = Intersect(granted, wants), !.sent = position]
  /\ UNCHANGED <<database, wants, engine, up, work, outcomes, faults>>

\* The live mark, once, or a heartbeat's vouch.
FeedCursor ==
  /\ feed # NoFeed /\ Len(inbox) < MaxInbox
  /\ NextShown > head /\ feed.vouched < head
  /\ Deliver([kind |-> "cursor", position |-> head])
  /\ feed' = [feed EXCEPT !.sent = head, !.vouched = head]
  /\ UNCHANGED <<database, wants, engine, up, work, outcomes, faults>>

\* The connection breaks: what it sent is still in the inbox, ahead of its end.
FeedDrops ==
  /\ feed # NoFeed
  /\ "drop" \in Faults /\ faults < MaxFaults
  /\ Deliver([kind |-> "end"])
  /\ feed' = NoFeed
  /\ faults' = faults + 1
  /\ UNCHANGED <<database, wants, engine, up, work, outcomes>>

-----------------------------------------------------------------------------
(* A backfill() call.                                                      *)

\* A call as it starts, with its own copy of the resume.  A half an earlier
\* attempt finished is skipped, and no part of the tail is read before the blob's
\* position is known.
NewCall(r) ==
  IF r = NoResume
  THEN [blob |-> "open", skip |-> 0, position |-> 0, tail |-> "wait", from |-> 0,
        tailDone |-> FALSE]
  ELSE [blob |-> IF r.snapshotDone THEN "done" ELSE "open",
        skip |-> r.skip, position |-> r.position,
        tail |-> IF ~r.snapshotDone THEN "wait" ELSE IF r.tailDone THEN "done" ELSE "read",
        from |-> Larger(r.from, r.position), tailDone |-> r.tailDone]

\* #startCalls: every call asked for, if there is a connection to run it on.
StartCalls(e, connected) ==
  [e EXCEPT !.backfills =
     [x \in InFlight(e) |->
        LET b == e.backfills[x] IN
        [b EXCEPT !.asked = FALSE,
                  !.call = IF b.asked /\ connected THEN NewCall(b.resume) ELSE b.call]]]

\* A queued push or outcome knows its backfill and its connection.
Of(sel, item) == [selector |-> sel, sameEntry |-> TRUE, sameConn |-> TRUE, item |-> item]
\* Mutant of Current: a backfill is known by its selector.
CurrentSelector(queued) == queued.selector \in InFlight(engine) /\ queued.sameConn
Current(queued) == queued.sameEntry /\ queued.sameConn

Waiting(sel, kinds) ==
  \E i \in DOMAIN work : /\ work[i].selector = sel /\ Current(work[i])
                         /\ work[i].item.kind \in kinds
BlobItems == {"header", "page", "pagesDone"}
TailItems == {"edits", "editsDone"}

Push(sel, item) ==
  /\ Len(work) < MaxWork
  /\ work' = Append(work, Of(sel, item))
Call(sel) == engine.backfills[sel].call
Becomes(sel, call) == engine' = [engine EXCEPT !.backfills[sel].call = call]
Running(sel) == sel \in InFlight(engine) /\ Call(sel) # NoCall

\* The cuts the origin may answer with: the head, or a cached blob's, none before
\* the one it answered this backfill with last.
Cuts(sel) ==
  LET r == engine.backfills[sel].resume IN
  {c \in 0..head : c >= head - CutLag /\ (r # NoResume => c >= r.position)}
HeaderAt(sel, c) ==
  [kind |-> "header", position |-> c,
   seqs |-> [s \in Slices |-> IF s \in sel /\ H!LiveAt(log, s, c)
                              THEN H!SeqAt(log, s, c) ELSE 0],
   visible |-> LargestOf({0} \cup {H!ChangedAt(log, s, c) : s \in sel})]
PagesAt(sel, c) == SetToSeq({s \in sel : H!LiveAt(log, s, c)})

\* The snapshot request of an unfinished snapshot half: a fresh download pushes
\* its header, and a resumed one goes on in a blob of the same cut.
OpenBlob(sel) ==
  /\ Running(sel) /\ Call(sel).blob = "open"
  /\ CoveredBy(granted, sel)
  /\ \E c \in Cuts(sel) :
       LET opened == [Call(sel) EXCEPT !.blob = "body", !.position = c,
                        !.tail = IF Call(sel).tailDone THEN "done" ELSE "read",
                        !.from = Larger(Call(sel).from, c)]
       IN
       \/ /\ Call(sel).skip = 0
          /\ Push(sel, HeaderAt(sel, c))
          /\ Becomes(sel, opened)
          /\ UNCHANGED outcomes
       \/ /\ Call(sel).skip > 0 /\ c = Call(sel).position
          /\ Becomes(sel, opened)
          /\ UNCHANGED <<work, outcomes>>
       \/ /\ Call(sel).skip > 0 /\ c # Call(sel).position
          /\ Becomes(sel, NoCall)
          /\ outcomes' = Append(outcomes, Of(sel, [kind |-> "stale"]))
          /\ UNCHANGED work
  /\ UNCHANGED <<database, feed, wants, up, inbox, faults>>

\* #blobPages: a page for each live slice, each awaited, then the end.
NextPage(sel) ==
  LET call == Call(sel) IN
  /\ Running(sel) /\ call.blob = "body" /\ ~Waiting(sel, BlobItems)
  /\ LET pages == PagesAt(sel, call.position) IN
     IF call.skip < Len(pages)
     THEN LET s == pages[call.skip + 1] IN
          /\ Push(sel, [kind |-> "page", skip |-> call.skip + 1, slice |-> s,
                        state |-> H!StateAt(log, s, call.position)])
          /\ Becomes(sel, [call EXCEPT !.skip = call.skip + 1])
     ELSE /\ Push(sel, [kind |-> "pagesDone"])
          /\ Becomes(sel, [call EXCEPT !.blob = "done"])
  /\ UNCHANGED <<database, feed, wants, up, inbox, outcomes, faults>>

\* #tail: a page of edits, or the end once the scan reaches until.  A page never
\* splits a position's edits.
NextTail(sel) ==
  LET call == Call(sel)
      until == engine.backfills[sel].until
      due == {p \in call.from + 1..until - 1 : p <= head /\ ReadAt(p, sel) # {}}
      page == {p \in due : Cardinality({q \in due : q <= p}) <= TailMax}
      scanned == IF Cardinality(due) >= TailMax THEN LargestOf(page) ELSE until
  IN
  /\ Running(sel) /\ call.tail \in {"read", "end"}
  /\ CoveredBy(granted, sel)
  /\ ~Waiting(sel, TailItems \cup {"header"})
  /\ IF call.tail = "end" \/ due = {}
     THEN /\ Push(sel, [kind |-> "editsDone"])
          /\ Becomes(sel, [call EXCEPT !.tail = "done"])
     ELSE /\ Push(sel, [kind |-> "edits", edits |-> UNION {ReadAt(p, sel) : p \in page}])
          /\ Becomes(sel, [call EXCEPT !.from = scanned,
                             !.tail = IF scanned >= until THEN "end" ELSE "read"])
  /\ UNCHANGED <<database, feed, wants, up, inbox, outcomes, faults>>

\* Both halves are in: the outcome 'done' only clears the attempts.
CallDone(sel) ==
  /\ Running(sel) /\ Call(sel).blob = "done" /\ Call(sel).tail = "done"
  /\ ~Waiting(sel, BlobItems \cup TailItems)
  /\ Becomes(sel, NoCall)
  /\ UNCHANGED <<database, feed, wants, up, queues, faults>>

\* Where a call can fail, and take its other half with it.
Breaking(call) ==
  (IF call.blob = "open" THEN {"open"} ELSE {})
    \cup (IF call.blob = "body" THEN {IF call.skip = 0 THEN "body" ELSE "page"} ELSE {})
    \cup (IF call.tail = "read" THEN {"tail"} ELSE {})

CallFails(sel) ==
  /\ Running(sel) /\ faults < MaxFaults
  /\ Breaking(Call(sel)) \cap Faults # {}
  /\ Becomes(sel, NoCall)
  /\ outcomes' = Append(outcomes, Of(sel, [kind |-> "failed"]))
  /\ faults' = faults + 1
  /\ UNCHANGED <<database, feed, wants, up, inbox, work>>

-----------------------------------------------------------------------------
(* The advancer: what its passes do, in the order of their priority.       *)

\* A pass that leaves the store as e, from which the calls asked for start.
Commits(e) == \E store \in {e} : engine' = StartCalls(store, up)

\* One frame.  A dropped and regranted selector is a new backfill.
Handled(state, frame) ==
  LET e == CASE frame.kind = "edits" -> OnEditsIn(state.e, frame.position, frame.edits)
             [] frame.kind = "view" -> OnViewIn(state.e, frame.view, frame.position)
             [] frame.kind = "cursor" -> OnCursorIn(state.e, frame.position)
      gone == IF frame.kind = "view"
              THEN {x \in InFlight(state.e) : ~CoveredBy(frame.view.selectors, x)} ELSE {}
  IN  [e |-> e, gone |-> state.gone \cup gone \cup (InFlight(state.e) \ InFlight(e))]

Ends == {i \in DOMAIN inbox : inbox[i].kind = "end"}

\* The frames ahead of the connection's end, and what reading each of them leaves.
Ahead == SubSeq(inbox, 1, IF Ends = {} THEN Len(inbox) ELSE (CHOOSE i \in Ends : TRUE) - 1)
Reads ==
  LET read[n \in 0..Len(Ahead)] ==
        IF n = 0 THEN [e |-> engine, gone |-> {}] ELSE Handled(read[n - 1], Ahead[n])
  IN  read

\* A queue once some backfills are gone.
Tagged(queue, gone) ==
  [i \in DOMAIN queue |->
     [queue[i] EXCEPT !.sameEntry = @ /\ queue[i].selector \notin gone]]

\* #onInbox: those frames in one transaction, and the land they may have completed.
OnInbox ==
  /\ inbox # <<>> /\ inbox[1].kind # "end"
  /\ \E read \in {Reads[Len(Ahead)]} :
       \E landed \in {IF Frozen(read.e) THEN TryLandIn(read.e) ELSE read.e} :
         LET gone == read.gone \cup (InFlight(read.e) \ InFlight(landed))
         IN  /\ Commits(landed)
             /\ inbox' = SubSeq(inbox, Len(Ahead) + 1, Len(inbox))
             /\ work' = Tagged(work, gone)
             /\ outcomes' = Tagged(outcomes, gone)
  /\ UNCHANGED <<database, feed, wants, up, faults>>

\* #onEnd: every call dies with the connection.
OnEnd ==
  /\ inbox # <<>> /\ inbox[1].kind = "end"
  /\ inbox' = Tail(inbox)
  /\ up' = FALSE
  /\ engine' = [engine EXCEPT !.backfills =
       [x \in InFlight(engine) |-> [engine.backfills[x] EXCEPT !.call = NoCall]]]
  /\ work' = [i \in DOMAIN work |-> [work[i] EXCEPT !.sameConn = FALSE]]
  /\ outcomes' = [i \in DOMAIN outcomes |-> [outcomes[i] EXCEPT !.sameConn = FALSE]]
  /\ UNCHANGED <<database, feed, wants, faults>>

\* #onBackfillOutcomes: those of the current connection and backfill count.
Judged(e, queued) ==
  IF ~Current(queued) THEN e
  ELSE IF queued.item.kind = "stale" THEN StaleIn(e, queued.selector)
  ELSE FailureIn(e, queued.selector)

Judging ==
  LET judged[n \in 0..Len(outcomes)] ==
        IF n = 0 THEN engine ELSE Judged(judged[n - 1], outcomes[n])
  IN  judged

OnBackfillOutcomes ==
  /\ inbox = <<>> /\ outcomes # <<>>
  /\ Commits(Judging[Len(outcomes)])
  /\ outcomes' = <<>>
  /\ UNCHANGED <<database, feed, wants, up, inbox, work, faults>>

\* #onBackfillWork: every push of a current call parks, and what they completed
\* lands; the others are refused.
Pushed(e, queued) ==
  IF ~Current(queued) THEN e ELSE ParkPushIn(e, queued.selector, queued.item)
Parking ==
  LET parked[n \in 0..Len(work)] ==
        IF n = 0 THEN engine ELSE Pushed(parked[n - 1], work[n])
  IN  parked

OnBackfillWork ==
  /\ inbox = <<>> /\ outcomes = <<>> /\ work # <<>>
  /\ IF \A i \in DOMAIN work : ~Current(work[i]) THEN UNCHANGED engine
     ELSE \E parked \in {Parking[Len(work)]} :
            Commits(IF parked.failed THEN parked ELSE TryLandIn(parked))
  /\ work' = <<>>
  /\ UNCHANGED <<database, feed, wants, up, inbox, outcomes, faults>>

\* #onConnect: from the checkpoint, presenting the view's token.  Every download
\* that waits for no timer starts again.  The server answers a token that is not
\* current with the view, ahead of history, and a bootstrap's at the head.
OnConnect ==
  /\ ~up /\ inbox = <<>> /\ outcomes = <<>> /\ work = <<>>
  /\ up' = TRUE
  /\ LET sent == IF engine.cursor = -1 THEN head ELSE engine.cursor
         view == Intersect(granted, wants)
     IN  /\ feed' = [told |-> view, sent |-> sent, vouched |-> -1]
         /\ inbox' = IF Token(engine) = view THEN <<>>
                     ELSE <<[kind |-> "view", position |-> sent, view |-> ViewOf(view)]>>
  /\ engine' = StartCalls(
       [engine EXCEPT !.backfills =
          [x \in InFlight(engine) |->
             LET b == engine.backfills[x] IN
             [b EXCEPT !.asked = b.asked \/ (~b.ready /\ ~b.retry)]]], TRUE)
  /\ UNCHANGED <<database, wants, work, outcomes, faults>>

\* A backfill's timer, which outlasts the pushes its call left queued.
Retry(sel) ==
  /\ sel \in InFlight(engine) /\ engine.backfills[sel].retry
  /\ ~Waiting(sel, BlobItems \cup TailItems)
  /\ Commits(StartBackfill([engine EXCEPT !.backfills[sel].retry = FALSE], sel))
  /\ UNCHANGED <<database, feed, wants, up, queues, faults>>

\* The process ends and a build starts over the store.
Restart ==
  /\ "restart" \in Faults /\ faults < MaxFaults
  /\ faults' = faults + 1
  /\ wants' \in Builds
  /\ engine' = StartCalls(InitializeIn(engine, wants'), FALSE)
  /\ up' = FALSE /\ feed' = NoFeed
  /\ inbox' = <<>> /\ work' = <<>> /\ outcomes' = <<>>
  /\ UNCHANGED database

-----------------------------------------------------------------------------
Start ==
  /\ log \in Histories
  /\ head = 0
  /\ granted \in Grants
  /\ feed = NoFeed
  /\ engine = EmptyStore
  /\ up = FALSE
  /\ inbox = <<>> /\ work = <<>> /\ outcomes = <<>>
Init == Start /\ wants \in Builds /\ faults = 0 /\ changes = 0

Database == Commit \/ ChangeGrant
Feed == FeedEdits \/ FeedView \/ FeedCursor
Download(sel) == OpenBlob(sel) \/ NextPage(sel) \/ NextTail(sel) \/ CallDone(sel)
Advancer == OnInbox \/ OnEnd \/ OnBackfillOutcomes \/ OnBackfillWork \/ OnConnect
Downloads == \E sel \in Selectors : Download(sel) \/ Retry(sel)
Fault == FeedDrops \/ Restart \/ \E sel \in Selectors : CallFails(sel)

Next ==
  \/ Database
  \/ Feed
  \/ Advancer
  \/ Downloads
  \/ Fault

Spec == Init /\ [][Next]_vars

\* The server's connection tasks, the client's fetches, the host's timers and the
\* advancer's passes all run on; the database and the faults need not.
FairSpec ==
  /\ Spec
  /\ WF_vars(Feed) /\ WF_vars(Advancer) /\ WF_vars(Downloads)

-----------------------------------------------------------------------------
(* What a replica promises (db/README.md, Protocol rules).                 *)

\* The types of the Engine's records and of its queues (skeleton.ts, the fields of
\* BackfillRecord and of the Engine).
Positions == 0..head
States == SUBSET Nat
EditType ==
  [slice : Slices, position : Positions, seq : Nat, life : {"birth", "normal", "death"}]
ResumeType ==
  [position : Positions, visible : Positions, skip : Nat, from : Positions,
   snapshotDone : BOOLEAN, tailDone : BOOLEAN]
CallType ==
  [blob : {"open", "body", "done"}, skip : Nat, position : Positions,
   tail : {"wait", "read", "end", "done"}, from : Nat, tailDone : BOOLEAN]
BackfillOK(b) ==
  /\ b.until \in Nat /\ b.resume \in ResumeType \cup {NoResume}
  /\ b.header \in [Slices -> Positions]
  /\ \A page \in b.pages : page.at \in Nat /\ page.slice \in Slices /\ page.state \in States
  /\ \A flag \in {b.ready, b.retry, b.asked} : flag \in BOOLEAN
  /\ b.call \in CallType \cup {NoCall}
TypeOK ==
  /\ engine.cursor \in Positions \cup {-1} /\ engine.applied \in Positions \cup {-1}
  /\ engine.applied <= engine.cursor
  /\ engine.seqs \in [Slices -> Positions] /\ engine.base \in [Slices -> States]
  /\ engine.park \subseteq EditType
  /\ engine.view = NoView \/ engine.view \in [token : SUBSET Selectors,
                                             selectors : SUBSET Selectors]
  /\ InFlight(engine) \subseteq Selectors
  /\ \A x \in InFlight(engine) : BackfillOK(engine.backfills[x])
  /\ Len(inbox) <= MaxInbox + 1 /\ Len(work) <= MaxWork

\* An erasure the replica has not reached: its slice keeps an earlier state (P18).
Stale(s) == \E q \in Larger(engine.applied, 0) + 1..head : log[q][s] = "erase"

\* P18, P22: every held slice is as the history left it at the applied position,
\* the same for all of them, and nothing is kept of a slice that is not held.
BaseIsHistory ==
  \A s \in Slices :
    IF engine.seqs[s] = 0 THEN engine.base[s] = {}
    ELSE \E p \in 0..engine.applied :
           /\ engine.seqs[s] = H!SeqAt(log, s, p)
           /\ engine.base[s] = H!StateAt(log, s, p)
           /\ p = engine.applied \/ Stale(s)
                \/ H!SeqAt(log, s, p) = H!SeqAt(log, s, engine.applied)

\* P8, P19: unfrozen, the slices held are those the view covers that live.
HoldsWhatItSees ==
  ~Frozen(engine) /\ engine.applied >= 0 =>
    \A s \in Slices :
      \/ Stale(s)
      \/ engine.seqs[s] # 0 <=> InView(engine, s) /\ H!LiveAt(log, s, engine.applied)

\* P12: the cursor never skips an edit of a slice the view covers: one past the
\* base is parked or a backfill's to deliver, and one in the base is there.
CursorSkipsNothing ==
  \A s \in {x \in Slices : InView(engine, x)}, p \in 1..engine.cursor :
    LET owed == \E x \in Covering(engine, s) : p < engine.backfills[x].until IN
    /\ p > engine.applied /\ H!Readable(log, head, s, p) => Edit(s, p) \in engine.park \/ owed
    /\ p <= engine.applied /\ H!LiveAt(log, s, engine.applied) =>
         engine.seqs[s] # 0 \/ Stale(s) \/ owed

\* The base is of one type with its cursor, its seqs and its backfills, it is the
\* history of the slices the view covers, and the cursor leaves nothing of them out.
Consistent == TypeOK /\ BaseIsHistory /\ HoldsWhatItSees /\ CursorSkipsNothing

\* No push finds a backfill without a resume, which would end the Engine.
EngineNeverFails == ~engine.failed

\* P17: while there is a connection, every download that is not in runs or has
\* something that will run it again.
NoStrandedBackfill ==
  up => \A x \in InFlight(engine) :
          LET b == engine.backfills[x] IN
          \/ b.ready \/ b.retry \/ b.call # NoCall
          \/ \E i \in DOMAIN outcomes : outcomes[i].selector = x /\ Current(outcomes[i])

\* A view frame is on its way, or the view is the one its connection filters by.
ViewIsTold ==
  feed # NoFeed /\ (\A i \in DOMAIN inbox : inbox[i].kind # "view") =>
    Viewed(engine) = feed.told

\* P9, P18: what the app reads of the database is always one position's state of
\* some slices, and it only moves on; it is said of the logs that erase nothing.
Erases == \E p \in DOMAIN log, s \in Slices : log[p][s] = "erase"
Local == INSTANCE Mirror WITH
  at <- IF Erases THEN -1 ELSE engine.applied,
  shown <- IF Erases THEN [s \in Slices |-> {}] ELSE engine.base
MirrorsHistory == Local!Spec

\* P8, P15: unfrozen, nothing is kept of a slice that the view does not show.
KeepsNothingUnseen ==
  ~Frozen(engine) =>
    \A s \in {x \in Slices : ~InView(engine, x)} :
      engine.seqs[s] = 0 /\ engine.base[s] = {} /\ \A edit \in engine.park : edit.slice # s

\* P12, P17: once nothing changes any more, the replica comes to the head with the
\* view it is granted, and stays there.
CaughtUp ==
  /\ ~Frozen(engine)
  /\ engine.applied = head
  /\ Viewed(engine) = Intersect(granted, wants)
CatchesUp == <>[]CaughtUp
=============================================================================

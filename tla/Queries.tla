------------------------------ MODULE Queries ------------------------------
(***************************************************************************)
(* The app's queries over the Engine (skeleton.ts, QueryGraph and the      *)
(* passes that run it).  Each pass of the advancer changes the base, the   *)
(* outbox or the status, rebuilds the overlay of predictions, runs every   *)
(* query that read what changed, and calls the subscribers of those whose  *)
(* result did.  Query functions and subscribers are the app's own code,    *)
(* which may add and close queries, subscribe and submit from within.      *)
(***************************************************************************)
EXTENDS Overlay

CONSTANTS
  Mutations,       \* the mutations the app may submit, each once
  Predictor,       \* [Mutations -> what its predictor does]
  Queries,         \* the queries the app may add, each once
  Programs,        \* what their functions may read
  ConnectionKey,   \* the status key that tells whether there is a base
  OutboxKey,       \* the status key that counts what is unacknowledged
  Bases,           \* the bases a session may start from
  Stored,          \* the outboxes a session may find stored
  NoResult,        \* the result of a query that has not run
  MaxEdits         \* how many edits the database applies

ASSUME QueriesAssumption ==
  /\ ConnectionKey \notin Keys /\ OutboxKey \notin Keys
  /\ Bases \subseteq Base
  /\ Stored \subseteq Seq(Mutations)

VARIABLES
  baseNow,      \* the stored state the edits applied so far leave
  hasBase,      \* has the first sync landed?
  outbox,       \* the mutations waiting in the outbox, in order
  acked,        \* those the database has acknowledged
  overlay,      \* the predictions over the base
  status,       \* the status as last published
  queries,      \* the graph's queries, in the order they were added
  query,        \* what each query knows
  newQueries,   \* a query was added since the graph last ran
  submitted,    \* mutations the app has sent, not yet in the outbox
  pending,      \* the queries whose subscribers the pass is still to call
  edits         \* how many edits were applied

vars == <<baseNow, hasBase, outbox, acked, overlay, status, queries, query,
          newQueries, submitted, pending, edits>>

Predictors(muts) == [i \in 1..Len(muts) |-> Predictor[muts[i]]]
Fresh == [program |-> Undefined, runs |-> 0, held |-> FALSE, result |-> NoResult, deps |-> NoDeps,
          closed |-> FALSE, subscribed |-> FALSE, told |-> Undefined, latest |-> Undefined]

StatusOf(has, muts, acks) ==
  (ConnectionKey :> has) @@ (OutboxKey :> Cardinality(ToSet(muts) \ acks))

(***************************************************************************)
(* Query functions.  A program gets a key of the status, if it names one,  *)
(* and stops there when it reads that there is no base; then a key of the  *)
(* store; then, unless that key is absent, it scans.                       *)
(***************************************************************************)
Result(first, then, entries) == [first |-> first, then |-> then, entries |-> entries]

Stops(p, st) == p.status = ConnectionKey /\ ~st[ConnectionKey]

\* Does a run read anything but the status?
ReadsStore(p, st) == ~Stops(p, st) /\ (p.key \in Keys \/ p.scans)

Entries(b, layer, keys) == [i \in 1..Len(keys) |-> <<keys[i], Get(b, layer, keys[i])>>]

\* What a program reads and returns.
Run(p, b, layer, st) ==
  LET d1 == IF p.status = Undefined THEN NoDeps ELSE Got(NoDeps, p.status)
      first == IF p.status = Undefined THEN Undefined ELSE st[p.status]
      d2 == IF p.key \in Keys THEN Got(d1, p.key) ELSE d1
      then == IF p.key \in Keys THEN Get(b, layer, p.key) ELSE Undefined
      Read(walk) ==
        [result |-> Result(first, then, Entries(b, layer, walk.taken)), deps |-> walk.deps]
  IN  CASE Stops(p, st) -> [result |-> Result(first, Undefined, <<>>), deps |-> d1]
        [] ~Stops(p, st) /\ p.scans /\ then # Absent -> Read(Walked(b, layer, p.scan, d2))
        [] OTHER -> [result |-> Result(first, then, <<>>), deps |-> d2]

Answered(r, run) ==
  [r EXCEPT !.held = FALSE, !.runs = 1, !.result = run.result, !.deps = run.deps]

\* Mutant of RunQuery: a query the Engine held waits for a change of what it read.
MutRunQuery(q, b, layer, st, dirty) ==
  LET r == query[q]
      p == r.program
      tried == r.runs > 0 \/ r.held
  IN  IF tried /\ ~\E k \in dirty : Reads(r.deps, k)
      THEN r
      ELSE IF ~st[ConnectionKey] /\ ReadsStore(p, st)
      THEN [r EXCEPT !.held = TRUE]
      ELSE Answered(r, Run(p, b, layer, st))

\* One query of a run of the graph: it keeps its result unless it read what
\* changed, and waits with what it had when the Engine holds a read of it.
RunQuery(q, b, layer, st, dirty) ==
  LET r == query[q]
      p == r.program
  IN  IF r.runs > 0 /\ ~r.held /\ ~\E k \in dirty : Reads(r.deps, k)
      THEN r
      ELSE IF ~st[ConnectionKey] /\ ReadsStore(p, st)
      THEN [r EXCEPT !.held = TRUE]
      ELSE Answered(r, Run(p, b, layer, st))

\* The graph runs every open query, and the changed ones are to be notified.
RunGraph(b, layer, st, dirty) ==
  LET open == SelectSeq(queries, LAMBDA q : ~query[q].closed) IN
  /\ queries' = open
  /\ query' = [q \in Queries |-> IF q \in ToSet(open) THEN RunQuery(q, b, layer, st, dirty)
                                 ELSE query[q]]
  /\ pending' = SelectSeq(open, LAMBDA q : query'[q].result # query[q].result)
  /\ newQueries' = FALSE

\* Mutant of Dirtied: the keys only the discarded overlay held are forgotten.
MutDirtied(changed, statuses, rebuilds, before, after) ==
  changed \cup statuses \cup (IF rebuilds THEN Touched(after) ELSE {})

\* What a refresh tells the graph has changed: what was applied, the status,
\* and, when the overlay is rebuilt, the keys of the old one and of the new.
Dirtied(changed, statuses, rebuilds, before, after) ==
  changed \cup statuses \cup (IF rebuilds THEN Touched(before) \cup Touched(after) ELSE {})

\* The end of a pass: the status first, then the overlay if the base or the
\* outbox changed, then the graph if there is a reason to run it.
Refresh(changed, outboxChanged) ==
  LET st == StatusOf(hasBase', outbox', acked')
      statuses == {k \in {ConnectionKey, OutboxKey} : st[k] # status[k]}
      rebuilds == outboxChanged \/ changed # {}
      layer == IF rebuilds THEN Predicted(baseNow', Predictors(outbox')) ELSE overlay
      dirty == Dirtied(changed, statuses, rebuilds, overlay, layer)
  IN  /\ status' = st
      /\ overlay' = layer
      /\ IF rebuilds \/ statuses # {} \/ newQueries
         THEN RunGraph(baseNow', layer, st, dirty)
         ELSE UNCHANGED <<queries, query, newQueries, pending>>

Init ==
  /\ hasBase \in BOOLEAN
  /\ baseNow \in IF hasBase THEN Bases ELSE {[k \in Keys |-> Absent]}
  /\ outbox \in Stored
  /\ acked = {}
  /\ overlay = Predicted(baseNow, Predictors(outbox))
  /\ status = StatusOf(hasBase, outbox, acked)
  /\ queries = <<>>
  /\ query = [q \in Queries |-> Fresh]
  /\ newQueries = FALSE
  /\ submitted = <<>>
  /\ pending = <<>>
  /\ edits = 0

(***************************************************************************)
(* The app, from a task of its own or from a query or a subscriber.        *)
(***************************************************************************)
engineState == <<baseNow, hasBase, outbox, acked, overlay, status, pending, edits>>

NewQuery(q) ==
  /\ q \notin ToSet(queries) /\ ~query[q].closed
  /\ queries' = Append(queries, q)
  /\ query' \in {[query EXCEPT ![q].program = p] : p \in Programs}
  /\ newQueries' = TRUE
  /\ UNCHANGED <<engineState, submitted>>

Close(q) ==
  /\ q \in ToSet(queries) /\ ~query[q].closed
  /\ query' = [query EXCEPT ![q].closed = TRUE]
  /\ UNCHANGED <<engineState, queries, newQueries, submitted>>

\* A late subscriber is called at once with the latest value.
Subscribe(q) ==
  /\ q \in ToSet(queries) /\ ~query[q].closed /\ ~query[q].subscribed
  /\ query' = [query EXCEPT ![q].subscribed = TRUE,
                            ![q].told = IF query[q].runs > 0 THEN query[q].latest ELSE @]
  /\ UNCHANGED <<engineState, queries, newQueries, submitted>>

Submit(m) ==
  /\ m \notin ToSet(outbox) \cup ToSet(submitted) \cup acked
  /\ submitted' = Append(submitted, m)
  /\ UNCHANGED <<engineState, queries, query, newQueries>>

(***************************************************************************)
(* The advancer's passes, in its priority.                                 *)
(***************************************************************************)
OnSubmitted ==
  /\ pending = <<>> /\ submitted # <<>>
  /\ outbox' = outbox \o submitted
  /\ submitted' = <<>>
  /\ UNCHANGED <<baseNow, hasBase, acked, edits>>
  /\ Refresh({}, TRUE)

OnNewQueries ==
  /\ pending = <<>> /\ submitted = <<>> /\ newQueries
  /\ UNCHANGED <<baseNow, hasBase, outbox, acked, submitted, edits>>
  /\ Refresh({}, FALSE)

Free == pending = <<>> /\ submitted = <<>> /\ ~newQueries

Leaves(ms) == outbox' = SelectSeq(outbox, LAMBDA m : m \notin ms)

\* The first sync lands whole.
FirstLand ==
  /\ Free /\ ~hasBase
  /\ hasBase' = TRUE
  /\ baseNow' \in Bases
  /\ UNCHANGED <<outbox, acked, submitted, edits>>
  /\ Refresh({k \in Keys : baseNow'[k] # Absent}, FALSE)

\* An edit of a key, or none, and the mutations it shows to be in the base,
\* which leave the outbox.
OnEdits ==
  /\ Free /\ hasBase /\ edits < MaxEdits
  /\ edits' = edits + 1
  /\ \E changed \in {{}} \cup {{k} : k \in Keys}, ms \in {{}} \cup {{m} : m \in ToSet(outbox)} :
       /\ changed # {} \/ ms # {}
       /\ baseNow' \in {[k \in Keys |-> IF k \in changed THEN v ELSE baseNow[k]] :
                        v \in Values \cup {Absent}}
       /\ Leaves(ms)
       /\ acked' = acked \cup ms
       /\ UNCHANGED <<hasBase, submitted>>
       /\ Refresh(changed, ms # {})

\* The database acknowledges a mutation, which waits for the base to show it,
\* or refuses it, and it leaves the outbox at once.
OnMutationOutcomes ==
  /\ Free
  /\ \E m \in ToSet(outbox) \ acked, ok \in BOOLEAN :
       /\ acked' = acked \cup {m}
       /\ IF ok THEN UNCHANGED outbox ELSE Leaves({m})
       /\ UNCHANGED <<baseNow, hasBase, submitted, edits>>
       /\ Refresh({}, ~ok)

\* Mutant of Notify: a query's latest value is left as it was.
MutNotify ==
  /\ pending # <<>>
  /\ LET q == Head(pending)
         r == query[q]
     IN  query' = [query EXCEPT ![q] =
           IF r.closed THEN r
           ELSE [r EXCEPT !.told = IF r.subscribed THEN r.result ELSE @]]
  /\ pending' = Tail(pending)
  /\ UNCHANGED <<baseNow, hasBase, outbox, acked, overlay, status, queries,
                 newQueries, submitted, edits>>

\* The next query's subscribers, unless it was closed meanwhile.
Notify ==
  /\ pending # <<>>
  /\ LET q == Head(pending)
         r == query[q]
     IN  query' = [query EXCEPT ![q] =
           IF r.closed THEN r
           ELSE [r EXCEPT !.told = IF r.subscribed THEN r.result ELSE @,
                          !.latest = r.result]]
  /\ pending' = Tail(pending)
  /\ UNCHANGED <<baseNow, hasBase, outbox, acked, overlay, status, queries,
                 newQueries, submitted, edits>>

Next ==
  \/ \E q \in Queries : NewQuery(q) \/ Close(q) \/ Subscribe(q)
  \/ \E m \in Mutations : Submit(m)
  \/ OnSubmitted \/ OnNewQueries \/ FirstLand \/ OnEdits \/ OnMutationOutcomes
  \/ Notify

Spec == Init /\ [][Next]_vars

(***************************************************************************)
(* Properties                                                              *)
(***************************************************************************)
\* Every variable keeps to its type: a query's dependencies are keys and spans
\* of batches, and the ones the graph holds were added.
TypeOK ==
  /\ baseNow \in Base /\ overlay \in Layer
  /\ hasBase \in BOOLEAN /\ newQueries \in BOOLEAN
  /\ outbox \in Seq(Mutations) /\ submitted \in Seq(Mutations) /\ acked \subseteq Mutations
  /\ queries \in Seq(Queries) /\ ToSet(pending) \subseteq ToSet(queries)
  /\ edits \in 0..MaxEdits
  /\ \A q \in Queries :
       /\ query[q].program \in Programs \cup {Undefined}
       /\ query[q].runs \in 0..1
       /\ query[q].deps.keys \subseteq Keys \cup {ConnectionKey, OutboxKey}
       /\ \A i \in 1..Len(query[q].deps.spans) :
            {query[q].deps.spans[i].from, query[q].deps.spans[i].to} \subseteq Keys \cup {Undefined}

\* What a query's function returns over a base, its outbox's predictions and
\* the status, when it reads all there is.
Shown(q) ==
  LET p == query[q].program
      st == StatusOf(hasBase, outbox, acked)
      layer == Predicted(baseNow, Predictors(outbox))
      first == IF p.status = Undefined THEN Undefined ELSE st[p.status]
      then == IF p.key \in Keys THEN Get(baseNow, layer, p.key) ELSE Undefined
  IN  CASE Stops(p, st) -> Result(first, Undefined, <<>>)
        [] ~Stops(p, st) /\ p.scans /\ then # Absent ->
             Result(first, then, Entries(baseNow, layer, Scanned(baseNow, layer, p.scan)))
        [] OTHER -> Result(first, then, <<>>)

\* A query never keeps a result that what it reads has outdated: whatever pass
\* ran last, an open query shows the base, every prediction over it and the
\* status as they are, although it is run again only when a key it recorded
\* changed.  Without a base it shows nothing but the status.
\* (QueryImpl.run, record, batches, #refresh, #rebuildOverlay)
QueriesShowTheView ==
  \A q \in ToSet(queries) :
    query[q].runs > 0 /\ ~query[q].closed =>
      /\ query[q].result = Shown(q)
      /\ hasBase \/ ~ReadsStore(query[q].program, status)

\* Between passes, a subscriber was last called with the query's result, also
\* one that subscribed from another's callback, and so was latest.
\* (QueryImpl.subscribe, notify)
SubscribersToldLatest ==
  pending = <<>> =>
    \A q \in ToSet(queries) :
      query[q].runs > 0 /\ ~query[q].closed =>
        /\ query[q].latest = query[q].result
        /\ query[q].subscribed => query[q].told = query[q].result

\* Once the advancer has nothing to do, each open query has run, also one added
\* from within a pass, or it waits for the first sync, and then runs with it.
\* (newQuery, #newQueries, Held)
EveryQueryAnswered ==
  Free => \A q \in ToSet(queries) :
            \/ query[q].runs > 0
            \/ query[q].closed
            \/ ~hasBase /\ ReadsStore(query[q].program, status)

\* The graph's dependencies are of their type, every query is answered, and its
\* subscribers know what it knows.  (QueryGraph)
GraphHolds == TypeOK /\ SubscribersToldLatest /\ EveryQueryAnswered
=============================================================================

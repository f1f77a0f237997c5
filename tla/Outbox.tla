------------------------------- MODULE Outbox -------------------------------
(***************************************************************************)
(* A client's mutations from the app's submission to their effect in its   *)
(* base: the Engine's passes over its outbox (skeleton.ts), the            *)
(* connection's send queue (client/ts/src/http.ts), the requests on the    *)
(* wire, and what the database answers them (server.rs decide, and the     *)
(* dedup by series and number that EditLog models in full).                *)
(*                                                                         *)
(* A mutation is its index in `minted', the order they were numbered in.   *)
(* A process of the client is a series.  A request the client gave up on   *)
(* may still reach the database, long after its retry did.  Of the base    *)
(* only how far it is applied is here: Replica has the rest.               *)
(***************************************************************************)
EXTENDS Integers, FiniteSets, Sequences, SequencesExt

CONSTANTS
  Kinds,        \* the kinds of mutations submitted, of "outbox" and "online"
  NoPost,       \* a send queue with no call in flight
  Limit,        \* the mutations one request may carry
  SendRetries,  \* sendRetries
  MaxMutations, \* bound on mutations
  MaxQueue,     \* bound on submissions waiting for a pass
  MaxFaults,    \* bound on failed posts, lost connections and restarts
  MaxFreezes,   \* bound on freezes of the base
  MaxRefused    \* bound on mutations whose data the database refuses

ASSUME OutboxAssumption ==
  /\ Kinds \subseteq {"outbox", "online"}
  /\ Limit \in Nat \ {0} /\ SendRetries \in Nat /\ MaxMutations \in Nat /\ MaxQueue \in Nat
  /\ MaxFaults \in Nat /\ MaxFreezes \in Nat /\ MaxRefused \in Nat

VARIABLES
  minted,    \* every mutation numbered: its kind, its data's validity, its series and number
  decided,   \* the database's decisions, in order
  net,       \* the requests on the wire
  process,   \* the client's process, which is its series
  submitted, \* submissions waiting for a pass
  engine,    \* the Engine's state: see NewEngine
  settled,   \* history: how the app's @online mutations settled
  up,        \* the Engine has a connection
  resend,    \* #resend
  ending,    \* the connection's end waits in the inbox
  outcomes,  \* #mutationOutcomes
  ended,     \* the connection ended
  sends,     \* its calls waiting, #sends
  posting,   \* its call in flight
  freezes,   \* freezes so far
  faults     \* faults so far

database == <<minted, decided>>
passes == <<submitted, resend>>
connection == <<ended, sends, posting>>
vars == <<database, net, process, passes, engine, settled, up, ending, outcomes, connection,
          freezes, faults>>

-----------------------------------------------------------------------------
(* The database.                                                           *)

Mutation == DOMAIN minted

\* A mutation's number is at or below the highest of its series that was decided.
BelowMark(m) ==
  \E i \in DOMAIN decided : /\ minted[decided[i].id].series = minted[m].series
                            /\ minted[m].n <= minted[decided[i].id].n

\* The log's head after some decisions: one position for each that made edits.
HeadAt(k) == Cardinality({i \in 1..k : decided[i].outcome = "edit"})
LogHead == HeadAt(Len(decided))

Decisions(m) == {i \in DOMAIN decided : decided[i].id = m}
EditAt(p) ==
  LET i == CHOOSE j \in DOMAIN decided : decided[j].outcome = "edit" /\ HeadAt(j) = p
  IN  decided[i].id

\* A request's mutations, how many were answered, and whether the client waits.
Request(ids) == [ids |-> ids, answers |-> <<>>, awaited |-> TRUE]

\* The database takes the request's next mutation, after any request's: it refuses
\* its data without a decision, answers a number it decided ok at the head, or
\* decides.  Between two of them a bounced proof may let another request in.
Answers(m) ==
  IF ~minted[m].valid THEN {[kind |-> "reject", made |-> <<>>]}
  ELSE IF BelowMark(m)
    THEN {[kind |-> "ok", position |-> LogHead, made |-> <<>>]}
  ELSE {[kind |-> "ok", position |-> LogHead + 1, made |-> <<[id |-> m, outcome |-> "edit"]>>],
        [kind |-> "ok", position |-> LogHead, made |-> <<[id |-> m, outcome |-> "none"]>>],
        [kind |-> "reject", made |-> <<[id |-> m, outcome |-> "reject"]>>]}

Decide(r) ==
  /\ Len(r.answers) < Len(r.ids)
  /\ \E a \in Answers(r.ids[Len(r.answers) + 1]) :
       LET answer == IF a.kind = "ok" THEN [kind |-> "ok", position |-> a.position]
                     ELSE [kind |-> "reject"]
           rest == [r EXCEPT !.answers = Append(@, answer)]
           over == ~r.awaited /\ Len(rest.answers) = Len(r.ids)
       IN  /\ decided' = decided \o a.made
           /\ net' = (net \ {r}) \cup (IF over THEN {} ELSE {rest})
  /\ UNCHANGED <<minted, process, passes, engine, settled, up, ending, outcomes, connection,
                 freezes, faults>>

-----------------------------------------------------------------------------
(* The Engine: what it keeps, and the steps its passes are made of.        *)

\* Its outbox, which of it this connection was handed, the position each answered
\* one was decided by, and its @online mutations with their ack and round trip; and
\* of the base the cursor, how far it is applied, and whether it is frozen.
NewEngine ==
  [outbox |-> {}, sent |-> {}, acked |-> <<>>, online |-> <<>>,
   cursor |-> 0, applied |-> 0, frozen |-> FALSE]

Without(f, ids) == [m \in DOMAIN f \ ids |-> f[m]]

\* Mutant of Released: what was sent and answered of it stays behind.
ReleasedKeepsMaps(e, ids) == [e EXCEPT !.outbox = @ \ ids]

\* #releaseIn: mutations leave the outbox.
Released(e, ids) ==
  [e EXCEPT !.outbox = @ \ ids, !.sent = @ \ ids, !.acked = Without(@, ids)]

\* #releaseThroughIn: the applied position moves, and what was decided by it leaves.
AppliedThrough(e, position) ==
  IF position <= e.applied THEN e
  ELSE Released([e EXCEPT !.applied = position],
                {m \in DOMAIN e.acked : e.acked[m] <= position})

\* #roundTrip: edits that entered the base bring their mutations back.
RoundTrip(e, ids) ==
  Released([e EXCEPT !.online = [m \in DOMAIN @ |-> IF m \in ids THEN [@[m] EXCEPT !.seen = TRUE]
                                                    ELSE @[m]]],
           ids)

\* Mutant of Settles: an ack settles at once.
SettlesAcked(e) == {m \in DOMAIN e.online : e.online[m].ack # -1}

\* #settleOnline: the acked @online mutations whose outcome queries can show.
Settles(e) ==
  IF e.frozen THEN {}
  ELSE {m \in DOMAIN e.online :
          /\ e.online[m].ack # -1
          /\ e.online[m].seen \/ e.online[m].ack <= e.applied}

\* A pass leaves the Engine as e, after its refresh, and @online mutations settled so.
Leaves(e, outcome) ==
  \E left \in {e} :
    LET done == Settles(left) IN
    /\ engine' = [left EXCEPT !.online = Without(@, done)]
    /\ settled' = [m \in DOMAIN settled \cup DOMAIN outcome \cup done |->
                     IF m \in DOMAIN settled THEN settled[m]
                     ELSE IF m \in DOMAIN outcome THEN outcome[m] ELSE "ok"]

NoOutcome == <<>>
Fail(calls) == [i \in DOMAIN calls |->
                  [ids |-> calls[i], failed |-> TRUE, answers |-> <<>>, current |-> TRUE]]

-----------------------------------------------------------------------------
(* The Engine's passes, in the order of their priority.                    *)

\* The app submits a mutation.
Submit(kind, valid) ==
  /\ Len(minted) + Len(submitted) < MaxMutations /\ Len(submitted) < MaxQueue
  /\ ~valid => Cardinality({m \in Mutation : ~minted[m].valid}) < MaxRefused
  /\ submitted' = Append(submitted, [kind |-> kind, valid |-> valid])
  /\ UNCHANGED <<database, net, process, engine, settled, resend, up, ending, outcomes,
                 connection, freezes, faults>>

\* The sequence of a set's numbers in ascending order, alone in a set.
Ascending(S) == {q \in SetToSeqs(S) : \A i, j \in DOMAIN q : i < j => q[i] < q[j]}

\* Mutant of Pending: it sorts the other way.
PendingNewestFirst(e) ==
  {Reverse(q) : q \in Ascending(e.outbox \ (e.sent \cup DOMAIN e.acked))}

\* What a new connection is sent again: the outbox it was not handed and that was
\* not answered, oldest first.
Pending(e) == Ascending(e.outbox \ (e.sent \cup DOMAIN e.acked))

\* The calls of some mutations: runs of outbox mutations, each @online one alone.
CallsOf(ids, online) ==
  LET starts == {k \in DOMAIN ids : k = 1 \/ ids[k] \in online \/ ids[k - 1] \in online}
  IN  {[i \in DOMAIN at |->
          SubSeq(ids, at[i], IF i = Len(at) THEN Len(ids) ELSE at[i + 1] - 1)] :
         at \in Ascending(starts)}

\* #onSubmitted: the resend first, then each submission under the next number, in
\* calls of their own; without a connection @online mutations fail at once.
OnSubmitted ==
  /\ submitted # <<>> \/ resend
  /\ LET first == Len(minted)
         numbered == Cardinality({m \in Mutation : minted[m].series = process})
         new == [i \in DOMAIN submitted |->
                   [kind |-> submitted[i].kind, valid |-> submitted[i].valid,
                    series |-> process, n |-> numbered + i]]
         fresh == {first + i : i \in DOMAIN submitted}
         online == {m \in fresh : new[m - first].kind = "online"}
         kept == [engine EXCEPT !.outbox = @ \cup (fresh \ online)]
         handed(pending) ==
           [kept EXCEPT
              !.sent = @ \cup Range(pending) \cup (fresh \ online),
              !.online = [m \in DOMAIN @ \cup online |->
                            IF m \in online THEN [ack |-> -1, seen |-> FALSE] ELSE @[m]]]
     IN  /\ minted' = minted \o new
         /\ \/ /\ up
               /\ \E pending \in IF resend THEN Pending(engine) ELSE {<<>>} :
                  \E calls \in CallsOf(pending \o [i \in DOMAIN submitted |-> first + i], online) :
                    /\ Leaves(handed(pending), NoOutcome)
                    /\ sends' = IF ended THEN sends ELSE sends \o calls
                    /\ outcomes' = IF ended THEN outcomes \o Fail(calls) ELSE outcomes
            \/ /\ ~up
               /\ Leaves(kept, [m \in online |-> "failed"])
               /\ UNCHANGED <<sends, outcomes>>
  /\ submitted' = <<>>
  /\ resend' = FALSE
  /\ UNCHANGED <<decided, net, process, up, ending, ended, posting, freezes, faults>>

Quiet == submitted = <<>> /\ ~resend

\* #onInbox with the next edit, or a vouch when the view does not show it: it
\* applies, or parks while the base is frozen.
FeedNext(shown) ==
  /\ Quiet /\ up /\ ~ended /\ engine.cursor < LogHead
  /\ LET next == [engine EXCEPT !.cursor = @ + 1]
         applied == AppliedThrough(next, next.cursor)
     IN  Leaves(IF engine.frozen THEN next
                ELSE IF shown THEN RoundTrip(applied, {EditAt(next.cursor)}) ELSE applied,
                NoOutcome)
  /\ UNCHANGED <<database, net, process, passes, up, ending, outcomes, connection, freezes,
                 faults>>

\* A backfill starts, and the base freezes.
Freeze ==
  /\ Quiet /\ up /\ ~engine.frozen /\ freezes < MaxFreezes
  /\ freezes' = freezes + 1
  /\ engine' = [engine EXCEPT !.frozen = TRUE]
  /\ UNCHANGED <<database, net, process, passes, settled, up, ending, outcomes, connection,
                 faults>>

\* The land: the base is applied through the cursor, and of the edits parked those
\* that no blob held already make their round trip.
Land ==
  /\ Quiet /\ engine.frozen
  /\ \E run \in SUBSET {EditAt(p) : p \in engine.applied + 1..engine.cursor} :
       Leaves(RoundTrip(AppliedThrough([engine EXCEPT !.frozen = FALSE], engine.cursor), run),
              NoOutcome)
  /\ UNCHANGED <<database, net, process, passes, up, ending, outcomes, connection, freezes,
                 faults>>

\* Mutant of Unsent: what the last connection was handed is not sent again.
UnsentKeeping(e) == e

Unsent(e) == [e EXCEPT !.sent = {}]

\* Nobody waits for a request any more; it may be lost, or still be decided.
Abandoned(lost) ==
  {r \in net : ~r.awaited}
    \cup (IF lost THEN {} ELSE {[r EXCEPT !.awaited = FALSE] :
                                  r \in {x \in net : x.awaited /\ Len(x.answers) < Len(x.ids)}})

\* #onEnd: the abort fails the call in flight and those behind it.
OnEnd ==
  /\ Quiet /\ ending
  /\ up' = FALSE /\ ending' = FALSE
  /\ engine' = Unsent(engine)
  /\ LET calls == (IF posting = NoPost THEN <<>> ELSE <<posting.ids>>) \o sends
         failed == outcomes \o Fail(calls)
     IN  outcomes' = [i \in DOMAIN failed |-> [failed[i] EXCEPT !.current = FALSE]]
  /\ posting' = NoPost /\ sends' = <<>>
  /\ \E lost \in BOOLEAN : net' = Abandoned(lost)
  /\ UNCHANGED <<database, process, passes, settled, ended, freezes, faults>>

\* The answers some calls' outcomes give a mutation, from whatever connection.
Told(calls, m) ==
  UNION {{calls[i].answers[k] : k \in {l \in DOMAIN calls[i].answers : calls[i].ids[l] = m}} :
           i \in DOMAIN calls}
Oks(calls, m) == {a.position : a \in {b \in Told(calls, m) : b.kind = "ok"}}
Rejected(calls) == {m \in Mutation : \E a \in Told(calls, m) : a.kind = "reject"}
Failed(calls) == UNION {Range(calls[i].ids) : i \in {j \in DOMAIN calls : calls[j].failed}}

Lowest(positions) == CHOOSE p \in positions : \A q \in positions : p <= q

\* Mutant of Acked: a mutation answered ok leaves the outbox at once.
AckedLeaves(e, calls) == Released(e, {m \in e.outbox : Oks(calls, m) # {}})

\* Oks: the lowest position a mutation's answers had, and out once the base has
\* applied that.
Acked(e, calls) ==
  LET ok == {m \in e.outbox : Oks(calls, m) # {}}
      lowest == [m \in DOMAIN e.acked \cup ok |->
                   Lowest(Oks(calls, m) \cup (IF m \in DOMAIN e.acked THEN {e.acked[m]} ELSE {}))]
  IN  Released([e EXCEPT !.acked = lowest], {m \in ok : lowest[m] <= e.applied})

\* Every outcome: a failed call's @online mutation fails, its outbox mutations wait
\* for the next connection; a reject is final; an ok waits for the base.
Judged(e, calls) ==
  Acked(Released([e EXCEPT !.online =
                    [m \in DOMAIN @ \ (Failed(calls) \cup Rejected(calls)) |->
                       IF Oks(calls, m) = {} THEN @[m]
                       ELSE [@[m] EXCEPT !.ack = Lowest(Oks(calls, m))]]],
                 Rejected(calls)),
        calls)

\* How the @online mutations of some outcomes settle, other than by an ok.
Refusals(e, calls) ==
  [m \in DOMAIN e.online \cap (Failed(calls) \cup Rejected(calls)) |->
     IF m \in Failed(calls) THEN "failed" ELSE "reject"]

\* #onMutationOutcomes: every outcome queued; a failed call of this connection ends it.
OnMutationOutcomes ==
  /\ Quiet /\ ~ending /\ outcomes # <<>>
  /\ Leaves(Judged(engine, outcomes), Refusals(engine, outcomes))
  /\ outcomes' = <<>>
  /\ LET ends == up /\ ~ended /\ \E i \in DOMAIN outcomes : outcomes[i].failed /\ outcomes[i].current
     IN  ended' = (ended \/ ends) /\ ending' = ends
  /\ UNCHANGED <<database, net, process, passes, up, sends, posting, freezes, faults>>

\* #onConnect: a new connection, which is first sent the outbox again.
OnConnect ==
  /\ Quiet /\ ~ending /\ outcomes = <<>> /\ ~up
  /\ up' = TRUE /\ resend' = TRUE /\ ended' = FALSE
  /\ UNCHANGED <<database, net, process, submitted, engine, settled, ending, outcomes, sends,
                 posting, freezes, faults>>

-----------------------------------------------------------------------------
(* The connection.                                                         *)

\* inRequests: the rest of the call, as far as one request carries it.
NextRequest(post) ==
  Request(SubSeq(post.ids, Len(post.answers) + 1,
                 IF Len(post.answers) + Limit < Len(post.ids) THEN Len(post.answers) + Limit
                 ELSE Len(post.ids)))

\* #pump: the next call, when none is in flight.
Pump ==
  /\ posting = NoPost /\ sends # <<>>
  /\ LET post == [ids |-> sends[1], answers |-> <<>>, attempt |-> 0] IN
     /\ posting' = post
     /\ net' = net \cup {NextRequest(post)}
  /\ sends' = Tail(sends)
  /\ UNCHANGED <<database, process, passes, engine, settled, up, ending, outcomes, ended,
                 freezes, faults>>

\* A request's answers arrive: the call's next request goes out, or the call is answered.
Reply ==
  \E r \in net :
    /\ r.awaited /\ Len(r.answers) = Len(r.ids)
    /\ LET post == [posting EXCEPT !.answers = @ \o r.answers, !.attempt = 0]
           over == Len(post.answers) = Len(post.ids)
       IN  /\ posting' = IF over THEN NoPost ELSE post
           /\ net' = (net \ {r}) \cup (IF over THEN {} ELSE {NextRequest(post)})
           /\ outcomes' = IF over
                THEN Append(outcomes, [ids |-> post.ids, failed |-> FALSE,
                                       answers |-> post.answers, current |-> TRUE])
                ELSE outcomes
    /\ UNCHANGED <<database, process, passes, engine, settled, up, ending, ended, sends,
                   freezes, faults>>

\* Mutant of Behind: the calls behind a failed one stay queued and go out.
BehindStay == <<>>

\* The calls that fail with the one in flight.
Behind == sends

\* #post fails: it tries again, or the call fails, those behind it with it, and the
\* connection ends.
PostFails ==
  /\ posting # NoPost /\ faults < MaxFaults
  /\ faults' = faults + 1
  /\ \E lost \in BOOLEAN :
       \/ /\ posting.attempt < SendRetries /\ ~ended
          /\ posting' = [posting EXCEPT !.attempt = @ + 1]
          /\ net' = Abandoned(lost) \cup {NextRequest(posting)}
          /\ UNCHANGED <<outcomes, ended, ending, sends>>
       \/ /\ net' = Abandoned(lost)
          /\ outcomes' = outcomes \o Fail(<<posting.ids>> \o Behind)
          /\ posting' = NoPost /\ sends' = SubSeq(sends, Len(Behind) + 1, Len(sends))
          /\ ended' = TRUE /\ ending' = (ending \/ ~ended)
  /\ UNCHANGED <<database, process, passes, engine, settled, up, freezes>>

\* The stream ends by itself; the call in flight runs on until the Engine hears of it.
StreamEnds ==
  /\ up /\ ~ended /\ faults < MaxFaults
  /\ faults' = faults + 1
  /\ ended' = TRUE /\ ending' = TRUE
  /\ UNCHANGED <<database, net, process, passes, engine, settled, up, outcomes, sends, posting,
                 freezes>>

\* The process ends and another starts over the store, with a series of its own.
Restart ==
  /\ faults < MaxFaults
  /\ faults' = faults + 1
  /\ process' = process + 1
  /\ engine' = [NewEngine EXCEPT !.outbox = engine.outbox, !.cursor = engine.cursor,
                  !.applied = engine.applied, !.frozen = engine.frozen]
  /\ submitted' = <<>> /\ resend' = FALSE /\ up' = FALSE /\ ending' = FALSE
  /\ outcomes' = <<>> /\ ended' = FALSE /\ sends' = <<>> /\ posting' = NoPost
  /\ \E lost \in BOOLEAN : net' = Abandoned(lost)
  /\ UNCHANGED <<database, settled, freezes>>

-----------------------------------------------------------------------------
Init ==
  /\ minted = <<>> /\ decided = <<>> /\ net = {}
  /\ process = 1 /\ submitted = <<>> /\ engine = NewEngine /\ settled = <<>>
  /\ up = FALSE /\ resend = FALSE /\ ending = FALSE /\ outcomes = <<>>
  /\ ended = FALSE /\ sends = <<>> /\ posting = NoPost
  /\ freezes = 0 /\ faults = 0

Submits == \E kind \in Kinds, valid \in BOOLEAN : Submit(kind, valid)
Decides == \E r \in net : Decide(r)
Feed == \E shown \in BOOLEAN : FeedNext(shown)
Passes == OnSubmitted \/ OnEnd \/ OnMutationOutcomes \/ OnConnect
Transport == Pump \/ Reply
Fault == PostFails \/ StreamEnds \/ Restart

Next ==
  \/ Submits
  \/ Decides
  \/ Feed
  \/ Freeze
  \/ Land
  \/ Passes
  \/ Transport
  \/ Fault

Spec == Init /\ [][Next]_vars

\* The database serves every request and every stream, the passes and the transport
\* run on, and a frozen base lands; the app and the faults need not.
FairSpec ==
  /\ Spec
  /\ WF_vars(Decides) /\ WF_vars(Feed) /\ WF_vars(Land) /\ WF_vars(Passes) /\ WF_vars(Transport)

-----------------------------------------------------------------------------
(* Properties.                                                             *)

IsOutbox(m) == minted[m].kind = "outbox"
WasDecided(m) == Decisions(m) # {}

\* Its outcome shows: the base is applied through every edit up to the decision.
Shown(m) == \E i \in Decisions(m) : HeadAt(i) <= engine.applied
WasRejected(m) ==
  ~minted[m].valid \/ \E i \in Decisions(m) : decided[i].outcome = "reject"

\* An answer of the database's, and a call in flight.
Answer == [kind : {"ok"}, position : Nat] \cup [kind : {"reject"}]
Post == [ids : Seq(Nat), answers : Seq(Answer), attempt : Nat]
ASSUME NoPostAssumption == NoPost \notin Post

\* The types of the Engine's maps and of the send queue (skeleton.ts, http.ts).
TypeOK ==
  /\ engine.outbox \subseteq {m \in Mutation : IsOutbox(m)}
  /\ engine.sent \subseteq engine.outbox /\ DOMAIN engine.acked \subseteq engine.outbox
  /\ DOMAIN engine.online \subseteq Mutation \ engine.outbox
  /\ engine.applied <= engine.cursor /\ engine.cursor <= LogHead
  /\ engine.frozen \/ engine.applied = engine.cursor
  /\ Cardinality({r \in net : r.awaited}) = IF posting = NoPost THEN 0 ELSE 1
  /\ ending => up /\ ended

\* However requests are lost, late, repeated, split, resent by the next connection or
\* by the next process, the outbox is decided in the order it was submitted, each
\* mutation once (client/README.md, "Ordering is the connection's guarantee").
CarriedOutInOrder ==
  \A i, j \in DOMAIN decided :
    i < j /\ IsOutbox(decided[i].id) /\ IsOutbox(decided[j].id)
      => decided[i].id < decided[j].id

\* A number at or below the series' mark is answered ok unseen, so no mutation the
\* client still counts on may ever be overtaken: what was answered ok was decided
\* (writer.rs run_mutation, #pump's failing of the calls behind).
NothingSkipped ==
  \A m \in Mutation :
    (m \in DOMAIN engine.acked) \/ (m \in DOMAIN settled /\ settled[m] = "ok")
      => WasDecided(m)

\* The client's maps and the database's marks agree on what was decided, once and
\* in order, with none passed over.
DecidedOnceInOrder == TypeOK /\ CarriedOutInOrder /\ NothingSkipped

\* P13: a mutation leaves the outbox, in this process or a later one, only once
\* queries show its outcome, or the database refused it.
LeavesOnlyShown ==
  \A m \in Mutation :
    IsOutbox(m) /\ m \notin engine.outbox => Shown(m) \/ WasRejected(m)

\* An @online mutation resolves ok only once its outcome shows, and reject only when
\* it made no edit (#settleOnline).
OnlineTellsTheTruth ==
  \A m \in DOMAIN settled :
    /\ settled[m] = "ok" => Shown(m)
    /\ settled[m] = "reject" => WasRejected(m)

\* Once the faults end, every outbox mutation is answered, shown and gone, and every
\* @online mutation settled (client/README.md, Mutations).
OutboxDrains == <>[](engine.outbox = {} /\ engine.online = <<>>)
=============================================================================

---------------------------- MODULE ReplicaStore ----------------------------
(***************************************************************************)
(* What a client's Engine keeps of the database (skeleton.ts, the Engine's *)
(* persisted state), and the handlers that change it inside one store      *)
(* transaction: a frame's edits, a view, a cursor, a push of a backfill,   *)
(* the land, and the purge at boot.  Each is a function of the store.      *)
(*                                                                         *)
(* A selector is the set of the slices it covers.  A state is the set of   *)
(* the seqs whose writes it holds.  An edit is what its envelope says.     *)
(***************************************************************************)
EXTENDS Integers, FiniteSets, Sequences

CONSTANTS
  Slices,    \* slice names
  NoView,    \* the view, and the token, of a client that never heard of one
  NoResume,  \* the resume of a backfill that has nothing yet
  NoCall     \* the call of a backfill that none runs for

Selectors == (SUBSET Slices) \ {{}}

Larger(a, b) == IF a >= b THEN a ELSE b
LargestOf(S) == CHOOSE x \in S : \A y \in S : y <= x

\* An Engine's state.  cursor and applied are -1 for never; seqs gives the seq
\* of every held slice, 0 for the others; base is the slices' applied state.
EmptyStore ==
  [cursor |-> -1, applied |-> -1, view |-> NoView,
   seqs |-> [s \in Slices |-> 0], base |-> [s \in Slices |-> {}],
   backfills |-> <<>>, park |-> {}, failed |-> FALSE]

\* A backfill's record, header and parked pages, and in memory whether it is
\* ready, whether a timer will retry it, whether a call was asked for (#starts),
\* and the call that runs.
NewBackfill(until) ==
  [until |-> until, resume |-> NoResume, header |-> [s \in Slices |-> 0], pages |-> {},
   ready |-> FALSE, retry |-> FALSE, asked |-> FALSE, call |-> NoCall]

InFlight(e) == DOMAIN e.backfills
Frozen(e) == InFlight(e) # {}
CoveredBy(selectors, x) == \E r \in selectors : x \subseteq r
Viewed(e) == IF e.view = NoView THEN {} ELSE e.view.selectors
InView(e, s) == CoveredBy(Viewed(e), {s})

-----------------------------------------------------------------------------
(* The steps the handlers are made of.                                     *)

\* A field of one backfill, or several.
StartBackfill(e, sel) ==
  [e EXCEPT !.backfills[sel].ready = FALSE, !.backfills[sel].asked = TRUE]

SpawnIn(e, sels, until) ==
  [e EXCEPT !.backfills =
     [x \in InFlight(e) \cup sels |->
        IF x \in sels THEN [NewBackfill(until) EXCEPT !.asked = TRUE] ELSE e.backfills[x]]]

\* A backfill whose run broke starts over, its header and its pages gone.
RestartIn(e, sels) ==
  [e EXCEPT !.backfills =
     [x \in InFlight(e) |->
        IF x \in sels THEN [NewBackfill(e.backfills[x].until) EXCEPT !.asked = TRUE]
        ELSE e.backfills[x]]]

DropBackfillsIn(e, sels) ==
  [e EXCEPT !.backfills = [x \in InFlight(e) \ sels |-> e.backfills[x]]]

DropSlicesIn(e, slices) ==
  [e EXCEPT !.base = [s \in Slices |-> IF s \in slices THEN {} ELSE e.base[s]],
            !.seqs = [s \in Slices |-> IF s \in slices THEN 0 ELSE e.seqs[s]],
            !.park = {edit \in e.park : edit.slice \notin slices}]

Held(e) == {s \in Slices : e.seqs[s] # 0}

\* The slices that leave with a change of the view.
Unviewed(e) == {s \in Held(e) : ~InView(e, s)}

AdvanceCursorIn(e, position, applied) ==
  [e EXCEPT !.cursor = Larger(position, e.cursor),
            !.applied = IF applied THEN Larger(position, e.applied) ELSE e.applied]

\* A slice's state after a run of edits that chain: from the last reset, or on
\* the state it had.
AfterRun(state, run) ==
  LET resets == {edit.seq : edit \in {x \in run : x.life # "normal"}}
      start == IF resets = {} THEN 0 ELSE LargestOf(resets)
      ended == \E edit \in run : edit.seq = start /\ edit.life = "death"
  IN  (IF resets = {} THEN state ELSE {})
        \cup {edit.seq : edit \in {x \in run : x.seq > start \/ (x.seq = start /\ ~ended)}}

\* The seq a slice is held at after a run of edits, 0 once it ends dead.
SeqAfterRun(seq, run) ==
  IF run = {} THEN seq
  ELSE LET end == CHOOSE x \in run : \A y \in run : y.seq <= x.seq
       IN  IF end.life = "death" THEN 0 ELSE end.seq

-----------------------------------------------------------------------------
(* The land.                                                               *)

\* The backfill whose blob gives a slice its state: of those that cover it, one
\* with the newest cut.
Covering(e, s) == {x \in InFlight(e) : s \in x}
Winner(e, s) ==
  CHOOSE x \in Covering(e, s) :
    \A y \in Covering(e, s) : e.backfills[y].resume.position <= e.backfills[x].resume.position

Named(e, s) == IF Covering(e, s) = {} THEN 0 ELSE e.backfills[Winner(e, s)].header[s]
Cut(e, s) == e.backfills[Winner(e, s)].resume.position

\* A held slice keeps its own state when it is at or past the blob's seq, or the
\* blob is cut at or below the base.
Newer(e, s) ==
  /\ e.seqs[s] # 0
  /\ Cut(e, s) <= e.applied \/ (Named(e, s) # 0 /\ e.seqs[s] >= Named(e, s))

FromBlob(e, s) == Covering(e, s) # {} /\ ~Newer(e, s)
StartSeq(e, s) == IF FromBlob(e, s) THEN Named(e, s) ELSE e.seqs[s]

\* A slice's parked edits past its base, and of those the last reset and what
\* follows it.
Past(e, s) ==
  {edit \in e.park : /\ edit.slice = s
                     /\ FromBlob(e, s) => edit.position > Cut(e, s)
                     /\ edit.seq > StartSeq(e, s)}

Run(e, s) ==
  LET resets == {edit.seq : edit \in {x \in Past(e, s) : x.life # "normal"}} IN
  IF resets = {} THEN Past(e, s) ELSE {x \in Past(e, s) : x.seq >= LargestOf(resets)}

\* A run broken by a gap, or one of normal edits that has nothing to go on.
Breaks(e, s) ==
  LET run == Run(e, s)
      resets == {x \in run : x.life # "normal"}
      from == IF resets = {} THEN StartSeq(e, s) + 1
              ELSE (CHOOSE x \in resets : TRUE).seq
  IN  /\ run # {}
      /\ \/ resets = {} /\ StartSeq(e, s) = 0
         \/ {x.seq : x \in run} # from..from + Cardinality(run) - 1

\* The slices the land touches that the view shows.
Planned(e) ==
  {s \in Slices :
     /\ InView(e, s)
     /\ \/ \E edit \in e.park : edit.slice = s
        \/ \E x \in InFlight(e) : e.backfills[x].header[s] # 0
        \/ e.seqs[s] # 0 /\ Covering(e, s) # {}}

\* A slice's state once every blob is applied: a slice that starts from its blob
\* is cleared first, and a blob's header names the slices its pages skip.
Applied(e, s) ==
  LET fromBlob == s \in Planned(e) /\ FromBlob(e, s)
      taken == {x \in InFlight(e) : e.backfills[x].header[s] = 0
                                      \/ (fromBlob /\ Winner(e, s) = x)}
  IN  (IF fromBlob THEN {} ELSE e.base[s])
        \cup UNION {page.state : page \in
               {p \in UNION {e.backfills[x].pages : x \in taken} : p.slice = s}}

\* The base is applied through the cursor.  Mutant: and the position after it.
AppliedPast(e) == Larger(e.cursor, e.applied) + 1
AppliedThrough(e) == Larger(e.cursor, e.applied)

\* Every blob, every parked run, and what the view no longer shows goes.
LandedIn(e) ==
  LET landed == [e EXCEPT
        !.base = [s \in Slices |-> IF s \in Planned(e) THEN AfterRun(Applied(e, s), Run(e, s))
                                   ELSE Applied(e, s)],
        !.seqs = [s \in Slices |-> IF s \in Planned(e)
                                   THEN SeqAfterRun(StartSeq(e, s), Run(e, s)) ELSE e.seqs[s]]]
      dropped == DropSlicesIn(landed, Unviewed(landed))
  IN  [dropped EXCEPT !.park = {}, !.backfills = <<>>,
                      !.applied = AppliedThrough(e)]

\* Mutant of LandIn: it waits for no edit and no gap.
LandInAnyway(e) == LandedIn(e)

\* #landIn: an edit parked past the cursor makes the land wait, and a slice whose
\* run breaks is backfilled afresh and the land waits for it.
LandIn(e) ==
  LET broken == {s \in Planned(e) : Breaks(e, s)} IN
  IF \E edit \in e.park : edit.position > e.cursor THEN e
  ELSE IF broken # {}
    THEN SpawnIn(RestartIn(e, {{s} : s \in broken} \cap InFlight(e)),
                 {{s} : s \in broken} \ InFlight(e), e.cursor + 1)
    ELSE LandedIn(e)

\* Mutant of TryLandIn: it does not wait for the cursor to reach the blobs.
TryLandInEarly(e) == IF \A x \in InFlight(e) : e.backfills[x].ready THEN LandIn(e) ELSE e

\* #tryLandIn: once every backfill is ready and the cursor reached its visible.
TryLandIn(e) ==
  IF \A x \in InFlight(e) : e.backfills[x].ready /\ e.backfills[x].resume.visible <= e.cursor
  THEN LandIn(e) ELSE e

-----------------------------------------------------------------------------
(* The frames.                                                             *)

\* A normal edit that neither is in the base already nor goes on from it.
Unchained(e, edit) ==
  /\ ~Frozen(e)
  /\ edit.life = "normal"
  /\ e.seqs[edit.slice] = 0 \/ edit.seq > e.seqs[edit.slice] + 1

\* #onEditsIn: the edits of one position apply whole, or park whole and what
\* they break is backfilled.
OnEditsIn(e, position, edits) ==
  LET breaks == {edit.slice : edit \in {x \in edits : Unchained(e, x)}}
      fresh(s) == {x \in edits : x.slice = s /\ x.seq > e.seqs[s]}
  IN
  IF Frozen(e) \/ breaks # {}
  THEN AdvanceCursorIn(
         [SpawnIn(e, {{s} : s \in breaks}, position) EXCEPT !.park = e.park \cup edits],
         position, FALSE)
  ELSE AdvanceCursorIn(
         [e EXCEPT !.base = [s \in Slices |-> AfterRun(e.base[s], fresh(s))],
                   !.seqs = [s \in Slices |-> SeqAfterRun(e.seqs[s], fresh(s))]],
         position, TRUE)

\* #onCursorIn: a vouch or the live mark.
OnCursorIn(e, position) == AdvanceCursorIn(e, position, ~Frozen(e))

\* Whether a selector is the base's already: the view covered it, and no backfill
\* was to bring it.  Its mutant asks the view alone.
AccountedByView(e, sel) == CoveredBy(Viewed(e), sel)
Accounted(e, sel) == CoveredBy(Viewed(e), sel) /\ ~CoveredBy(InFlight(e), sel)

\* A backfill owes the edits through the view frame's position.  Its mutant: those
\* below it.
OwesBelow(position) == position
Owes(position) == position + 1

\* The narrower of the selectors that are new go, and a broad one comes first.
Broadest(sels) == {sel \in sels : ~\E b \in sels : sel \subseteq b /\ sel # b}

\* Mutant of Told: a frozen Engine keeps the view it has until the land.
ToldUnfrozen(e, view, position) ==
  [e EXCEPT !.view = IF Frozen(e) THEN @ ELSE view, !.cursor = IF @ = -1 THEN position ELSE @]
Told(e, view, position) ==
  [e EXCEPT !.view = view, !.cursor = IF @ = -1 THEN position ELSE @]

\* #onViewIn: the backfills the view does not cover are canceled, what nothing
\* accounts for is backfilled, and the drops happen now, or with the land the base
\* is frozen for.
OnViewIn(e, view, position) ==
  LET kept == DropBackfillsIn(e, {x \in InFlight(e) : ~CoveredBy(view.selectors, x)})
      new == {sel \in view.selectors : ~CoveredBy(InFlight(kept), sel) /\ ~Accounted(e, sel)}
      viewed == Told(SpawnIn(kept, Broadest(new), Owes(position)), view, position)
  IN  IF Frozen(viewed) THEN viewed
      ELSE IF Frozen(e) THEN LandIn(viewed)
      ELSE DropSlicesIn(viewed, Unviewed(viewed))

-----------------------------------------------------------------------------
(* The backfills.                                                          *)

\* A push of a download, parked with the resume point it brought it to.  A push
\* other than a header finds a resume, or the Engine throws.
Parked(entry, item) ==
  LET r == entry.resume IN
  CASE item.kind = "header" ->
         [entry EXCEPT !.header = item.seqs,
            !.resume = [position |-> item.position, visible |-> item.visible, skip |-> 0,
                        from |-> IF r = NoResume THEN item.position
                                 ELSE Larger(r.from, item.position),
                        snapshotDone |-> FALSE, tailDone |-> FALSE]]
    [] item.kind = "page" ->
         [entry EXCEPT !.resume.skip = item.skip,
            !.pages = {p \in entry.pages : p.at # r.skip}
                        \cup {[at |-> r.skip, slice |-> item.slice, state |-> item.state]}]
    [] item.kind = "pagesDone" -> [entry EXCEPT !.resume.snapshotDone = TRUE]
    [] item.kind = "edits" ->
         [entry EXCEPT !.resume.from = LargestOf({r.from} \cup {x.position : x \in item.edits})]
    [] item.kind = "editsDone" -> [entry EXCEPT !.resume.tailDone = TRUE]

ParkPushIn(e, sel, item) ==
  IF item.kind # "header" /\ e.backfills[sel].resume = NoResume
  THEN [e EXCEPT !.failed = TRUE]
  ELSE LET entry == Parked(e.backfills[sel], item) IN
       [e EXCEPT !.backfills[sel] =
                   [entry EXCEPT !.ready = entry.ready \/ (entry.resume.snapshotDone
                                                            /\ entry.resume.tailDone)],
                 !.park = e.park \cup (IF item.kind = "edits" THEN item.edits ELSE {})]

\* Mutant of StaleIn: the parked pages stay.
StaleInKeeping(e, sel) ==
  StartBackfill([e EXCEPT !.backfills[sel].resume =
                   IF @ = NoResume THEN @ ELSE [@ EXCEPT !.skip = 0, !.snapshotDone = FALSE,
                                                         !.tailDone = FALSE]], sel)

\* A stale outcome: the parked pages go, and both halves start over.
StaleIn(e, sel) ==
  LET entry == e.backfills[sel]
      reset == [entry EXCEPT !.pages = {},
                 !.resume = IF entry.resume = NoResume THEN NoResume
                            ELSE [entry.resume EXCEPT !.skip = 0, !.snapshotDone = FALSE,
                                                      !.tailDone = FALSE]]
  IN  StartBackfill([e EXCEPT !.backfills[sel] = reset], sel)

\* Mutant of FailureIn: only the next connection tries again.
FailureInIgnored(e, sel) == e

\* A failure waits for a timer, unless both halves came in first.
FailureIn(e, sel) ==
  IF e.backfills[sel].ready THEN e ELSE [e EXCEPT !.backfills[sel].retry = TRUE]

-----------------------------------------------------------------------------
(* Boot.                                                                   *)

\* What a start finds on disk: the records, and what memory derives from them.
Loaded(e) ==
  [e EXCEPT !.backfills =
     [x \in InFlight(e) |->
        LET b == e.backfills[x] IN
        [b EXCEPT !.ready = b.resume # NoResume /\ b.resume.snapshotDone /\ b.resume.tailDone,
                  !.retry = FALSE, !.asked = FALSE, !.call = NoCall]]]

\* Mutant of InitializeIn: what the build does not want stays.
InitializeInKeeping(e, wants) ==
  LET viewed == IF e.view = NoView THEN Loaded(e)
                ELSE [Loaded(e) EXCEPT
                        !.view.selectors = {x \in @ : CoveredBy(wants, x)}]
  IN  IF Frozen(e) THEN TryLandIn(viewed) ELSE viewed

\* #initialize: whatever a build does not want goes, and what waited may land.
InitializeIn(e, wants) ==
  LET loaded == Loaded(e)
      wanted(x) == CoveredBy(wants, x)
      kept == DropBackfillsIn(loaded, {x \in InFlight(e) : ~wanted(x)})
      purged == DropSlicesIn(kept, {s \in Slices : ~wanted({s})})
      viewed == IF e.view = NoView THEN purged
                ELSE [purged EXCEPT !.view.selectors = {x \in e.view.selectors : wanted(x)}]
  IN  IF Frozen(e) THEN TryLandIn(viewed) ELSE viewed

=============================================================================

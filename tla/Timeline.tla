------------------------------ MODULE Timeline ------------------------------
(***************************************************************************)
(* The log lines of devstack.mts: chunks of output become lines of one     *)
(* timeline, which is written to stdout line by line when it runs          *)
(* headless, and scrolled through on a terminal when it does not.          *)
(*                                                                         *)
(* A character is its width, and what is between characters a CR or an LF. *)
(***************************************************************************)
EXTENDS Integers, Sequences, FiniteSets, SequencesExt

CONSTANTS
  Streams,         \* the names of the streams
  Console,         \* the one the supervisor writes to
  CR, LF,
  Chunks,          \* what a stream may be handed at once
  Widths, Height,  \* the terminal's columns, and the rows of its log viewport
  Deltas,          \* how far a key may scroll, up or down
  MaxInputs        \* bound: chunks, keys and resizes in all

ASSUME TimelineAssumption ==
  /\ CR # LF /\ Height \in Nat \ {0} /\ Widths \subseteq Nat \ {0} /\ Deltas \subseteq Int
  /\ Console \in Streams

VARIABLES
  items,     \* the timeline: the lines of every stream
  streams,   \* of each stream: its line that still grows, and whether a CR came last
  seq,       \* the source of the lines' numbers
  written,   \* what each stream was handed
  watched,   \* the stream of the step that waits for a line, if there is one
  headless, done,
  emit,      \* headless: the last number seen, and the lines passed over
  out,       \* headless: the lines written
  view,      \* the terminal: its width, streams, anchor and pending scroll
  inputs

logVars == <<items, streams, seq, written, watched>>
timelineVars == <<items, streams, seq, written, watched, headless, done, emit, out, view, inputs>>

None == 0

(***************************************************************************)
(* Lines                                                                   *)
(***************************************************************************)
\* The parts of a text between its terminators, a CR LF being one.
Parts(text) ==
  FoldLeft(LAMBDA parts, i :
             CASE text[i] = LF /\ i > 1 /\ text[i - 1] = CR -> parts
               [] text[i] \in {CR, LF} /\ ~(text[i] = LF /\ i > 1 /\ text[i - 1] = CR) -> Append(parts, <<>>)
               [] OTHER -> [parts EXCEPT ![Len(parts)] = Append(@, text[i])],
           <<<<>>>>, [i \in 1..Len(text) |-> i])

\* A timeline is a record of the variables of logVars.  A terminator ends the
\* stream's open line, or is a line of its own.
Terminate(t, s) ==
  IF t.streams[s].open # None THEN [t EXCEPT !.streams[s].open = None]
  ELSE [t EXCEPT !.seq = @ + 1,
                 !.items = Append(@, [id |-> t.seq + 1, stream |-> s, seq |-> t.seq + 1, line |-> <<>>])]

\* What follows grows the open line, or opens one; a line that grows goes to
\* the end of the timeline, under a fresh number.
Grow(t, s, part) ==
  LET opened == IF t.streams[s].open # None THEN t
                ELSE [Terminate(t, s) EXCEPT !.streams[s].open = t.seq + 1]
      at == CHOOSE i \in 1..Len(opened.items) : opened.items[i].id = opened.streams[s].open
      item == [opened.items[at] EXCEPT !.line = @ \o part, !.seq = opened.seq + 1]
  IN  [opened EXCEPT !.seq = @ + 1, !.items = Append(RemoveAt(@, at), item)]

\* A line of the supervisor's own.
Notice == <<1, LF>>

\* Mutant of Counted: an LF that ends a CR in another chunk counts again.
MutCounted(t, s, chunk) == chunk

\* What of a chunk counts: an LF at its start may end a CR that counted already.
Counted(t, s, chunk) ==
  IF t.streams[s].swallow /\ chunk[1] = LF THEN Tail(chunk) ELSE chunk

RECURSIVE Logged(_, _, _, _)
\* A chunk's parts in turn.  The step that waits for a line hears of each part
\* that grew one, and at the one it saw its line in logs in its turn, from within.
Logged(t, s, chunk, seen) ==
  LET text == Counted(t, s, chunk)
      parts == Parts(text)
      Part(u, i) ==
        LET ended == IF i = 1 THEN u ELSE Terminate(u, s)
            grown == IF parts[i] = <<>> THEN ended ELSE Grow(ended, s, parts[i])
        IN  IF i = seen /\ parts[i] # <<>> THEN Logged([grown EXCEPT !.watched = {}], Console, Notice, 0)
            ELSE grown
  IN  FoldLeft(Part, [t EXCEPT !.written[s] = @ \o chunk,
                               !.streams[s].swallow = text # <<>> /\ Last(text) = CR],
               [i \in 1..Len(parts) |-> i])

TimelineNow == [items |-> items, streams |-> streams, seq |-> seq, written |-> written, watched |-> watched]

Becomes(t) ==
  /\ ~done /\ inputs < MaxInputs /\ inputs' = inputs + 1
  /\ items' = t.items /\ streams' = t.streams /\ seq' = t.seq
  /\ written' = t.written /\ watched' = t.watched
  /\ UNCHANGED <<headless, done, emit, out, view>>

\* A stream is handed a chunk, in a part of which the step that waits for a line
\* of it may see one.
Log(s, chunk) ==
  \E seen \in IF s \in watched THEN 0..Len(chunk) + 1 ELSE {0} :
    Becomes(Logged(TimelineNow, s, chunk, seen))

\* A step that waits for a line, of a stage's stream, says so before it subscribes.
LogCheck(s) ==
  /\ watched = {} /\ s # Console
  /\ Becomes([Logged(TimelineNow, Console, Notice, 0) EXCEPT !.watched = {s}])

CheckAborted == watched # {} /\ Becomes([TimelineNow EXCEPT !.watched = {}])

IsOpen(item) == streams[item.stream].open = item.id

(***************************************************************************)
(* Headless: each line is written once it is complete, or at the end.      *)
(***************************************************************************)
\* Mutant of Written: a line passed over is forgotten when it grows.
MutWritten(flush) ==
  LET unseen == SelectSeq(items, LAMBDA item : item.seq > emit.seen) IN
  SelectSeq(items, LAMBDA item : (flush \/ ~IsOpen(item)) /\ item \in Range(unseen))

\* What a write takes: the lines past the last number seen, and those passed
\* over, but for the ones that still grow.
Written(flush) ==
  LET unseen == SelectSeq(items, LAMBDA item : item.seq > emit.seen) IN
  SelectSeq(items, LAMBDA item : /\ flush \/ ~IsOpen(item)
                                 /\ item \in Range(unseen) \/ item.id \in emit.skipped)

RenderOneshot(flush) ==
  LET unseen == SelectSeq(items, LAMBDA item : item.seq > emit.seen)
      passed == {item.id : item \in {u \in Range(unseen) : IsOpen(u)}}
      taken == {item.id : item \in Range(Written(flush))}
  IN  /\ headless /\ ~done
      /\ out' = out \o [i \in 1..Len(Written(flush)) |->
                          [stream |-> Written(flush)[i].stream, line |-> Written(flush)[i].line]]
      /\ emit' = [seen |-> IF unseen = <<>> THEN emit.seen ELSE Last(unseen).seq,
                  skipped |-> (emit.skipped \cup passed) \ taken]
      /\ done' = flush
      /\ UNCHANGED <<logVars, headless, view, inputs>>

(***************************************************************************)
(* The terminal.  A place is a line's index and a row of it, from 0.       *)
(***************************************************************************)
\* Where the rows of a line start but for its first.
Starts(line, width) ==
  FoldLeft(LAMBDA m, i :
             IF m.col + line[i] > width THEN [starts |-> Append(m.starts, i - 1), col |-> line[i]]
             ELSE [m EXCEPT !.col = @ + line[i]],
           [starts |-> <<>>, col |-> 0], [i \in 1..Len(line) |-> i]).starts

RowsOf(i) == Len(Starts(items[i].line, view.width)) + 1
RowStart(i, k) == IF k = 0 THEN 0 ELSE Starts(items[i].line, view.width)[k]

Shown == {i \in 1..Len(items) : items[i].stream \in view.active}
PrevVisible(i) == Max({None} \cup {j \in Shown : j <= i})
NextVisible(i) == LET from == {j \in Shown : j >= i} IN IF from = {} THEN None ELSE Min(from)

RowsFrom(i, k) == MapThenSumSet(RowsOf, {j \in Shown : j >= i}) - k

Nowhere == [i |-> None, k |-> 0]

\* The place a screenful above the end, or Nowhere when everything fits.
FollowingTop ==
  LET filling == {i \in Shown : RowsFrom(i, 0) >= Height} IN
  IF filling = {} THEN Nowhere
  ELSE [i |-> Max(filling), k |-> RowsFrom(Max(filling), 0) - Height]

\* Where the anchored character is now; a hidden one, the next line shown.
ResolveAnchor ==
  LET i == CHOOSE j \in 1..Len(items) : items[j].id = view.anchor.id
      starts == Starts(items[i].line, view.width)
  IN  CASE view.anchor.id = None -> Nowhere
        [] view.anchor.id # None /\ items[i].stream \notin view.active -> [i |-> NextVisible(i + 1), k |-> 0]
        [] OTHER -> [i |-> i, k |-> Cardinality({r \in 1..Len(starts) : starts[r] <= view.anchor.offset})]

\* Mutant of RowUp: from a line to the first row of the one before.
MutRowUp(p) ==
  LET j == PrevVisible(p.i - 1) IN
  CASE p.k > 0 -> [p EXCEPT !.k = @ - 1]
    [] p.k = 0 /\ j = None -> p
    [] OTHER -> [i |-> j, k |-> 0]

RowUp(p) ==
  LET j == PrevVisible(p.i - 1) IN
  CASE p.k > 0 -> [p EXCEPT !.k = @ - 1]
    [] p.k = 0 /\ j = None -> p
    [] OTHER -> [i |-> j, k |-> RowsOf(j) - 1]

RowDown(p) ==
  LET j == NextVisible(p.i + 1) IN
  CASE p.k < RowsOf(p.i) - 1 -> [p EXCEPT !.k = @ + 1]
    [] p.k = RowsOf(p.i) - 1 /\ j = None -> p
    [] OTHER -> [i |-> j, k |-> 0]

Times(n) == [i \in 1..n |-> i]

\* Where the pending scroll leaves the anchor: not on a line that still grows,
\* if there is one before it, and following the end when less than a screenful
\* is below.
ApplyScroll ==
  LET resolved == ResolveAnchor
      from == IF resolved # Nowhere THEN resolved
              ELSE IF view.delta > 0 THEN FollowingTop ELSE Nowhere
      moved == IF view.delta > 0 THEN FoldLeft(LAMBDA p, n : RowUp(p), from, Times(view.delta))
               ELSE FoldLeft(LAMBDA p, n : RowDown(p), from, Times(-view.delta))
      settled == IF IsOpen(items[moved.i]) /\ moved.k = 0 THEN RowUp(moved) ELSE moved
  IN  CASE view.delta = 0 \/ from = Nowhere -> view.anchor
        [] view.delta # 0 /\ from # Nowhere /\ RowsFrom(settled.i, settled.k) < Height ->
             [id |-> None, offset |-> 0]
        [] OTHER -> [id |-> items[settled.i].id, offset |-> RowStart(settled.i, settled.k)]

\* Nothing is painted, and no scroll taken up, while the terminal is too small.
UsablySized == view.width >= 4 /\ Height + 2 >= 4

Render ==
  /\ ~headless /\ view.dirty /\ UsablySized
  /\ view' = [view EXCEPT !.anchor = ApplyScroll, !.delta = 0, !.dirty = FALSE]
  /\ UNCHANGED <<logVars, headless, done, emit, out, inputs>>

Key(changed) ==
  /\ ~headless /\ inputs < MaxInputs /\ inputs' = inputs + 1
  /\ view' = [changed EXCEPT !.dirty = TRUE]
  /\ UNCHANGED <<logVars, headless, done, emit, out>>

ScrollBy(delta) == Key([view EXCEPT !.delta = @ + delta])
FollowTail == Key([view EXCEPT !.anchor = [id |-> None, offset |-> 0], !.delta = 0])
ToggleStream(s) ==
  Key([view EXCEPT !.active = IF s \in @ THEN @ \ {s} ELSE @ \cup {s}])
Resize(width) == Key([view EXCEPT !.width = width])

LogInit ==
  /\ items = <<>> /\ seq = 0
  /\ streams = [s \in Streams |-> [open |-> None, swallow |-> FALSE]]
  /\ written = [s \in Streams |-> <<>>] /\ watched = {}
  /\ headless \in BOOLEAN /\ done = FALSE
  /\ emit = [seen |-> 0, skipped |-> {}] /\ out = <<>>
  /\ \E width \in Widths :
       view = [width |-> width, active |-> Streams, anchor |-> [id |-> None, offset |-> 0],
               delta |-> 0, dirty |-> FALSE]
  /\ inputs = 0

LogNext ==
  \/ \E s \in Streams, chunk \in Chunks : Log(s, chunk)
  \/ \E s \in Streams : LogCheck(s)
  \/ CheckAborted
  \/ \E flush \in BOOLEAN : RenderOneshot(flush)
  \/ Render
  \/ \E delta \in Deltas : ScrollBy(delta)
  \/ FollowTail
  \/ \E s \in Streams : ToggleStream(s)
  \/ \E width \in Widths : Resize(width)

(***************************************************************************)
(* Properties                                                              *)
(***************************************************************************)
\* The lines of a text: its parts, the last of which is one only if not empty.
Lines(text) == IF Last(Parts(text)) = <<>> THEN Front(Parts(text)) ELSE Parts(text)

LinesOf(s, list) ==
  LET own == SelectSeq(list, LAMBDA item : item.stream = s) IN [i \in 1..Len(own) |-> own[i].line]

\* The timeline holds the lines each stream was handed, in order and numbered in
\* order, wherever its output was cut into chunks, and whoever logs from within a
\* log.  (log, logCheck)
LinesAreThoseWritten ==
  /\ \A s \in Streams : LinesOf(s, items) = Lines(written[s])
  /\ \A i \in 1..Len(items) - 1 : items[i].seq < items[i + 1].seq

\* Headless, each line is written once, in its stream's order and never in part;
\* all are in the end.  (renderOneshot)
WrittenOnce ==
  \A s \in Streams :
    LET lines == Lines(written[s])
        complete == IF streams[s].open = None THEN lines ELSE Front(lines)
    IN  IF done THEN LinesOf(s, out) = lines ELSE IsPrefix(LinesOf(s, out), complete)

\* The log's lines, in the timeline and headless.  (log, renderOneshot)
LogHolds == LinesAreThoseWritten /\ WrittenOnce

\* The rows shown, from the first line to the last.
AllRows ==
  FoldLeft(LAMBDA rows, i : IF i \notin Shown THEN rows
                            ELSE rows \o [k \in 1..RowsOf(i) |-> [i |-> i, k |-> k - 1]],
           <<>>, Times(Len(items)))

\* A scroll moves the view by as many rows as its keys say, whatever arrived,
\* was hidden or wrapped anew since the last: between the first row and the
\* last, a screenful from the end following it, and off a line that still
\* grows.  (applyScroll)
ScrollsByRows ==
  [][Render /\ view.delta # 0 /\ AllRows # <<>> =>
       LET n == Len(AllRows)
           start == IF ResolveAnchor # Nowhere
                    THEN CHOOSE r \in 1..n : AllRows[r] = ResolveAnchor
                    ELSE Max({1, n - Height + 1})
           wanted == Min({n, Max({1, start - view.delta})})
           row == IF AllRows[wanted].k = 0 /\ IsOpen(items[AllRows[wanted].i]) THEN Max({1, wanted - 1})
                  ELSE wanted
       IN  IF n - row + 1 < Height \/ (ResolveAnchor = Nowhere /\ (view.delta < 0 \/ n < Height))
           THEN view'.anchor.id \in {None, view.anchor.id}
           ELSE view'.anchor = [id |-> items[AllRows[row].i].id,
                                offset |-> RowStart(AllRows[row].i, AllRows[row].k)]]_timelineVars
=============================================================================

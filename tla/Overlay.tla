------------------------------ MODULE Overlay ------------------------------
(***************************************************************************)
(* What queries and predictors read on a client: the overlay, a layer of   *)
(* predicted writes, over the stored base; scans that fetch the keys of a  *)
(* pattern batch by batch through both; and the record of what a query     *)
(* read, by which its graph knows when to run it again (skeleton.ts).      *)
(*                                                                         *)
(* Keys are numbered in their order, and a pattern is the set of keys it   *)
(* matches: KeyScan is how a store finds them.                             *)
(***************************************************************************)
EXTENDS Naturals, Sequences, FiniteSets, SequencesExt

CONSTANTS
  Keys,         \* the keys of the store, numbered in code-point order
  Slices,       \* the slices they are in
  SliceOf,      \* [Keys -> Slices]
  Values,       \* what a key may hold
  Absent,       \* what an absent key reads as
  Deleted,      \* a deletion in a layer
  Untouched,    \* a key a layer says nothing of
  Undefined,    \* JavaScript's undefined, where a position may be missing
  FirstBatch,   \* the size of a scan's first batch, 16 in the code
  MaxBatch      \* the size batches grow to, 256 in the code

ASSUME OverlayAssumption ==
  /\ Keys \subseteq Nat
  /\ SliceOf \in [Keys -> Slices]
  /\ Absent \notin Values /\ Deleted \notin Values /\ Untouched \notin Values
  /\ Absent # Deleted /\ Deleted # Untouched /\ Absent # Untouched
  /\ Undefined \notin Keys
  /\ FirstBatch \in Nat \ {0} /\ MaxBatch \in Nat \ {0}

Base == [Keys -> Values \cup {Absent}]
Layer == [Keys -> Values \cup {Deleted, Untouched}]

EmptyLayer == [k \in Keys |-> Untouched]

\* The keys a layer has an entry for.
Touched(layer) == {k \in Keys : layer[k] # Untouched}

\* A layer's entries over another's.
Over(data, updates) ==
  [k \in Keys |-> IF updates[k] # Untouched THEN updates[k] ELSE data[k]]

\* The value at a key: a layer's entry decides, a deletion reads as absent.
Get(base, layer, k) ==
  CASE layer[k] = Untouched -> base[k]
    [] layer[k] = Deleted -> Absent
    [] OTHER -> layer[k]

\* The keys live through a layer.
Live(base, layer) == {k \in Keys : Get(base, layer, k) # Absent}

(***************************************************************************)
(* Scans.  A request is one batch of a walk of a pattern's keys, forward   *)
(* or reversed, from just past the key after.                              *)
(***************************************************************************)
InOrder(S, reverse) ==
  LET before(k) == {j \in S : IF reverse THEN j > k ELSE j < k}
  IN  [i \in 1..Cardinality(S) |-> CHOOSE k \in S : Cardinality(before(k)) = i - 1]

\* Is k behind the position p of a walk, or at it?
NotPast(p, reverse, k) == p # Undefined /\ IF reverse THEN k >= p ELSE k <= p

First(keys, limit) == SubSeq(keys, 1, IF Len(keys) < limit THEN Len(keys) ELSE limit)

\* A batch of the base: a full one says nothing of what follows it.
BaseScan(base, req) ==
  LET live == {k \in req.pattern : base[k] # Absent /\ ~NotPast(req.after, req.reverse, k)}
      keys == First(InOrder(live, req.reverse), req.limit)
  IN  [keys |-> keys,
       next |-> IF Len(keys) = req.limit THEN Last(keys) ELSE Undefined]

\* What a batch covers, from just past from to to, or to the walk's end.
Span(req, next) ==
  [pattern |-> req.pattern, reverse |-> req.reverse, from |-> req.after, to |-> next]

\* Mutant of SpanCovers: a span that ends before its last key.
MutSpanCovers(s, k) ==
  /\ ~NotPast(s.from, s.reverse, k)
  /\ s.to # Undefined => ~NotPast(s.to, ~s.reverse, k)
  /\ k \in s.pattern

SpanCovers(s, k) ==
  /\ ~NotPast(s.from, s.reverse, k)
  /\ s.to # Undefined => s.to = k \/ ~NotPast(s.to, ~s.reverse, k)
  /\ k \in s.pattern

\* A batch through the layer: its keys within the base's batch win.  The walk
\* resumes past a full base batch, even if the merge of it was short.
Merged(layer, req, below) ==
  LET span == Span(req, below.next)
      shown == {k \in ToSet(below.keys) : layer[k] = Untouched}
                 \cup {k \in Touched(layer) : layer[k] # Deleted /\ SpanCovers(span, k)}
      keys == InOrder(shown, req.reverse)
  IN  [keys |-> First(keys, req.limit),
       next |-> IF Len(keys) >= req.limit THEN keys[req.limit] ELSE below.next]

OverlayScan(base, layer, req) == Merged(layer, req, BaseScan(base, req))

(***************************************************************************)
(* What a query's run read: the keys it got, and what its scans covered.   *)
(***************************************************************************)
NoDeps == [keys |-> {}, spans |-> <<>>]

Got(deps, k) == [deps EXCEPT !.keys = @ \cup {k}]

\* The batch that goes on where the last span ends extends it, and any other
\* starts a span of its own.
Record(deps, req, next) ==
  LET n == Len(deps.spans) IN
  IF /\ n > 0
     /\ deps.spans[n].to # Undefined /\ deps.spans[n].to = req.after
     /\ deps.spans[n].reverse = req.reverse /\ deps.spans[n].pattern = req.pattern
  THEN [deps EXCEPT !.spans[n].to = next]
  ELSE [deps EXCEPT !.spans = Append(@, Span(req, next))]

EndAt(deps, p) == [deps EXCEPT !.spans[Len(deps.spans)].to = p]

\* Was a key among those read, or within a stretch walked?
Reads(deps, k) ==
  k \in deps.keys \/ \E i \in 1..Len(deps.spans) : SpanCovers(deps.spans[i], k)

(***************************************************************************)
(* A scan as a query takes it: entry after entry, in batches that double,  *)
(* until it has taken enough or asked past the last.  Each entry handed    *)
(* out is where the span ends, and asking past the last, it runs to the    *)
(* walk's end.                                                             *)
(***************************************************************************)
WalkStart(deps) ==
  [deps |-> deps, after |-> Undefined, limit |-> FirstBatch, taken |-> <<>>, done |-> FALSE]

HandOut(scan, w, page, deps) ==
  LET handed == First(page.keys, scan.take - Len(w.taken))
      stops == Len(w.taken) + Len(handed) = scan.take
  IN  [deps |-> CASE handed # <<>> /\ (stops \/ page.next # Undefined) ->
                       EndAt(deps, Last(handed))
                  [] ~stops /\ page.next = Undefined -> EndAt(deps, Undefined)
                  [] OTHER -> deps,
       after |-> page.next,
       limit |-> IF 2 * w.limit < MaxBatch THEN 2 * w.limit ELSE MaxBatch,
       taken |-> w.taken \o handed,
       done |-> stops \/ page.next = Undefined]

NextBatch(base, layer, scan, w) ==
  LET req == [pattern |-> scan.pattern, reverse |-> scan.reverse,
              after |-> w.after, limit |-> w.limit]
      Turn(page) == HandOut(scan, w, page, Record(w.deps, req, page.next))
  IN  Turn(OverlayScan(base, layer, req))

\* Each batch but the last holds a key of the base, so a walk takes at most
\* this many.
Walked(base, layer, scan, deps) ==
  FoldLeft(LAMBDA w, n : IF w.done THEN w ELSE NextBatch(base, layer, scan, w),
           WalkStart(deps), [n \in 1..Cardinality(Keys) + 1 |-> n])

\* The reference: the live keys of the pattern, in order.
Scanned(base, layer, scan) ==
  First(InOrder(scan.pattern \cap Live(base, layer), scan.reverse), scan.take)

(***************************************************************************)
(* Predictions.  A mutation's predictor needs keys to be there, or throws; *)
(* deletes whole slices; and sets and deletes keys.                        *)
(***************************************************************************)
\* Every key of a slice that is live in the base or the layer.
DeleteSlice(base, layer, s) ==
  [k \in Keys |-> IF SliceOf[k] = s /\ k \in Live(base, layer) THEN Deleted ELSE Untouched]

Throws(base, data, m) == \E k \in m.needs : Get(base, data, k) = Absent

\* The scratch layer a prediction leaves.
Written(base, data, m) ==
  LET cleared == [k \in Keys |->
                    IF SliceOf[k] \in m.clears THEN DeleteSlice(base, data, SliceOf[k])[k]
                    ELSE Untouched]
  IN  Over(cleared, m.writes)

\* One prediction onto the overlay: a throw drops its writes alone.
Apply(base, data, m) ==
  IF Throws(base, data, m) THEN data ELSE Over(data, Written(base, data, m))

\* The overlay over a base, each mutation seeing what the ones before it left.
Predicted(base, outbox) == FoldLeft(LAMBDA data, m : Apply(base, data, m), EmptyLayer, outbox)
=============================================================================

------------------------------ MODULE KeyScan -------------------------------
(***************************************************************************)
(* How the in-memory store finds the keys a scan picks out (skeleton.ts,   *)
(* "key patterns" and "in-memory layers"): a pattern compiled to fields, a *)
(* skip scan that places each key it meets and seeks past those that       *)
(* cannot match, over cursors that merge a transaction's writes with the   *)
(* stored keys.                                                            *)
(*                                                                         *)
(* A key is the record of its slice's parameters, its template and its     *)
(* parameters, and its text a sequence of characters, numbered in order:   *)
(* that the order of texts is the order of parameters is half of what the  *)
(* scan rests on.  All keys are of one family.                             *)
(***************************************************************************)
EXTENDS Integers, Sequences, FiniteSets, SequencesExt

CONSTANTS
  Bang, Comma, Colon,   \* the separators; each one's successor is the character above it
  Prefix,               \* the text every key of the family starts with
  Universe,             \* the keys there may be
  StoredKeySets, Updates,  \* the stored keys and the transactions a scan may find, as texts
  Patterns,             \* the patterns a scan may look for
  Budgets,              \* how many keys to step over before a seek, 8 in the code
  Limits                \* entries to a batch

ASSUME KeyScanAssumption ==
  /\ Colon > Comma + 1 /\ Comma > Bang + 1
  /\ Budgets \subseteq Nat /\ Limits \subseteq Nat \ {0}

VARIABLES
  stored,    \* the keys of the store
  updates,   \* the transaction's writes: what it set and what it deleted
  pattern,   \* what the scan picks out
  reverse,   \* the way it walks
  limit,     \* entries to a batch
  budget,    \* the steps before a seek
  after,     \* where the batch started, or None
  cursor,    \* the positions among the stored keys and among the pending ones
  visited,   \* what the scan has handed out, over all its batches
  taken,     \* how many of them in this batch
  phase      \* "walk", "batch" when a full batch was handed out, or "done"

scanVars == <<stored, updates, pattern, reverse, limit, budget, after, cursor,
              visited, taken, phase>>

None == <<-1>>

(***************************************************************************)
(* Texts, compared character by character.                                 *)
(***************************************************************************)
IsLess(s, t) ==
  \E n \in 0..Len(t) - 1 :
    /\ n <= Len(s) /\ SubSeq(s, 1, n) = SubSeq(t, 1, n)
    /\ n = Len(s) \/ s[n + 1] < t[n + 1]

AtMost(s, t) == s = t \/ IsLess(s, t)

From(s, i) == SubSeq(s, i + 1, Len(s))
To(s, i) == SubSeq(s, 1, i)
StartsWith(s, t) == Len(t) <= Len(s) /\ To(s, Len(t)) = t

Joined(parts, sep) ==
  FoldLeft(LAMBDA s, p : IF s = <<>> THEN p ELSE s \o <<sep>> \o p, <<>>, parts)

\* The text of a key: its family, its slice's parameters, its template, its own.
Text(k) ==
  Prefix \o Joined(k.slice, Comma) \o <<Bang>> \o k.name
    \o (IF k.local = <<>> THEN <<>> ELSE <<Colon>> \o Joined(k.local, Comma))

\* The first text past all those that start with s.
PrefixEnd(s) == [s EXCEPT ![Len(s)] = @ + 1]

Ordered(S) ==
  [i \in 1..Cardinality(S) |-> CHOOSE s \in S : Cardinality({t \in S : IsLess(t, s)}) = i - 1]

(***************************************************************************)
(* Patterns.  A match on a parameter is any value, one, those of a prefix, *)
(* or a range; bounds may hold any character.                              *)
(***************************************************************************)
ValueField(m, sep) ==
  LET field(lo, loOpen, hi, hiOpen) ==
        [literal |-> FALSE, lo |-> lo, loOpen |-> loOpen, hi |-> hi, hiOpen |-> hiOpen,
         single |-> m.kind = "eq", sep |-> sep]
      tighterLo == m.gt # None /\ (m.gte = None \/ AtMost(m.gte, m.gt))
      tighterHi == m.lt # None /\ (m.lte = None \/ AtMost(m.lt, m.lte))
  IN  CASE m.kind = "any" \/ (m.kind = "prefix" /\ m.text = <<>>) ->
             field(None, FALSE, None, FALSE)
        [] m.kind = "eq" -> field(m.text, FALSE, m.text, FALSE)
        [] m.kind = "prefix" /\ m.text # <<>> -> field(m.text, FALSE, PrefixEnd(m.text), TRUE)
        [] m.kind = "range" ->
             field(IF tighterLo THEN m.gt ELSE m.gte, tighterLo,
                   IF tighterHi THEN m.lt ELSE m.lte, tighterHi)

Literal(text, whole) == [literal |-> TRUE, text |-> text, whole |-> whole]

\* Value fields for a run of parameters, the last followed by end.
Fields(matches, end) ==
  [i \in 1..Len(matches) |-> ValueField(matches[i], IF i < Len(matches) THEN <<Comma>> ELSE end)]

\* The pattern's head and its fields in key order.
Compile(p) ==
  [head |-> Prefix,
   fields |->
     Fields(p.slice, <<Bang>>) \o
       (IF p.name = None THEN <<>>
        ELSE <<Literal(IF p.local = <<>> THEN p.name ELSE p.name \o <<Colon>>, p.local = <<>>)>>
               \o Fields(p.local, <<>>))]

(***************************************************************************)
(* Placing a key: the first field outside its match decides.               *)
(***************************************************************************)
Match == [kind |-> "match"]
Step == [kind |-> "step"]
Done == [kind |-> "done"]
SeekTo(target, strict) == [kind |-> "seek", target |-> target, strict |-> strict]

Above(sep) == [sep EXCEPT ![1] = @ + 1]

\* The end of the value that starts at pos: its separator, or the key's end.
EndOf(key, pos, sep) ==
  LET at == {i \in pos + 1..Len(key) : sep # <<>> /\ key[i] = sep[1]}
  IN  IF at = {} THEN [end |-> Len(key), short |-> sep # <<>>]
      ELSE [end |-> (CHOOSE i \in at : \A j \in at : i <= j) - 1, short |-> FALSE]

\* Mutant of SkipBack: past the first varying field's value, not the nearest's.
MutSkipBack(c, key, ends, i, rev) ==
  LET varying == {j \in 1..i - 1 : ~c.fields[j].literal /\ ~c.fields[j].single} IN
  IF varying = {} THEN Done
  ELSE LET j == CHOOSE j \in varying : \A l \in varying : j <= l IN
       IF rev THEN SeekTo(To(key, ends[j] + 1), TRUE)
       ELSE SeekTo(To(key, ends[j]) \o Above(c.fields[j].sep), FALSE)

\* Past every key holding the value of the nearest varying field before field i.
SkipBack(c, key, ends, i, rev) ==
  LET varying == {j \in 1..i - 1 : ~c.fields[j].literal /\ ~c.fields[j].single} IN
  IF varying = {} THEN Done
  ELSE LET j == CHOOSE j \in varying : \A l \in varying : l <= j IN
       IF rev THEN SeekTo(To(key, ends[j] + 1), TRUE)
       ELSE SeekTo(To(key, ends[j]) \o Above(c.fields[j].sep), FALSE)

\* A literal the key does not have at pos.
PlaceLiteral(c, key, ends, i, pos, rev) ==
  LET f == c.fields[i] IN
  IF IsLess(From(key, pos), f.text)
  THEN IF rev THEN SkipBack(c, key, ends, i, rev) ELSE SeekTo(To(key, pos) \o f.text, FALSE)
  ELSE IF ~rev THEN SkipBack(c, key, ends, i, rev)
  ELSE IF f.whole THEN SeekTo(To(key, pos) \o f.text, FALSE)
  ELSE SeekTo(To(key, pos) \o PrefixEnd(f.text), TRUE)

\* A value below its field's match, and one above it.
PlaceBelow(c, key, ends, i, pos, rev) ==
  LET f == c.fields[i]
      at == To(key, pos) \o f.lo
  IN  CASE rev -> SkipBack(c, key, ends, i, rev)
        [] ~rev /\ ~f.loOpen -> SeekTo(at, FALSE)
        [] ~rev /\ f.loOpen /\ f.sep = <<>> -> SeekTo(at, TRUE)
        [] OTHER -> SeekTo(at \o Above(f.sep), FALSE)

PlaceAbove(c, key, ends, i, pos, rev) ==
  LET f == c.fields[i]
      at == To(key, pos) \o f.hi
  IN  CASE ~rev -> SkipBack(c, key, ends, i, rev)
        [] rev /\ f.hiOpen -> SeekTo(at, TRUE)
        [] rev /\ ~f.hiOpen /\ f.sep = <<>> -> SeekTo(at, FALSE)
        [] OTHER -> SeekTo(at \o Above(f.sep), TRUE)

\* One field of a key whose fields before it match.
PlaceField(c, key, s, i, rev) ==
  LET f == c.fields[i]
      has == /\ StartsWith(From(key, s.pos), f.text)
             /\ f.whole => Len(key) = s.pos + Len(f.text)
      e == EndOf(key, s.pos, f.sep)
      v == SubSeq(key, s.pos + 1, e.end)
      below == f.lo # None /\ (IsLess(v, f.lo) \/ (v = f.lo /\ f.loOpen))
      above == f.hi # None /\ (IsLess(f.hi, v) \/ (v = f.hi /\ f.hiOpen))
  IN  IF f.literal
      THEN IF has THEN [s EXCEPT !.pos = @ + Len(f.text), !.ends = Append(@, 0)]
           ELSE [s EXCEPT !.place = PlaceLiteral(c, key, s.ends, i, s.pos, rev)]
      ELSE CASE below -> [s EXCEPT !.place = PlaceBelow(c, key, s.ends, i, s.pos, rev)]
             [] ~below /\ above -> [s EXCEPT !.place = PlaceAbove(c, key, s.ends, i, s.pos, rev)]
             [] ~below /\ ~above /\ e.short -> [s EXCEPT !.place = Step]
             [] OTHER -> [s EXCEPT !.pos = e.end + Len(f.sep), !.ends = Append(@, e.end)]

PlaceKey(c, key, rev) ==
  LET start == [pos |-> Len(c.head), ends |-> <<>>, place |-> Match]
      placed == FoldLeft(LAMBDA s, i : IF s.place = Match THEN PlaceField(c, key, s, i, rev) ELSE s,
                         start, [i \in 1..Len(c.fields) |-> i])
  IN  IF StartsWith(key, c.head) THEN placed.place ELSE Done

(***************************************************************************)
(* Cursors.  A position counts from 1, and 0 or one past the last key is   *)
(* the end of a walk.                                                      *)
(***************************************************************************)
At(keys, i) == IF i \in 1..Len(keys) THEN keys[i] ELSE None

\* Forward, the first key at or past target; reversed, the last at or before.
Bisected(keys, target, strict, rev) ==
  LET before == {i \in 1..Len(keys) :
                   IsLess(keys[i], target) \/ (keys[i] = target /\ strict # rev)}
  IN  IF rev THEN Cardinality(before) ELSE Cardinality(before) + 1

Texts == Ordered({Text(k) : k \in Universe})
Listed(S) == SelectSeq(Texts, LAMBDA t : t \in S)

StoredKeys == Listed(stored)
Hidden == updates.set \cup updates.deleted
PendingKeys == Listed(updates.set)

Way(rev) == IF rev THEN -1 ELSE 1

\* Past the stored keys the transaction wrote.
Unhidden(i, rev) ==
  LET keys == StoredKeys
      hidden == Hidden
      rest == {j \in 1..Len(keys) : (IF rev THEN j <= i ELSE j >= i) /\ keys[j] \notin hidden}
  IN  IF rest = {} THEN IF rev THEN 0 ELSE Len(keys) + 1
      ELSE CHOOSE j \in rest : \A l \in rest : IF rev THEN l <= j ELSE j <= l

\* The key at two cursors that hold none in common.
KeyAt(cur) ==
  LET a == At(StoredKeys, cur.a)
      b == At(PendingKeys, cur.b)
  IN  CASE a = None -> b
        [] a # None /\ b = None -> a
        [] OTHER -> IF (IF reverse THEN IsLess(b, a) ELSE IsLess(a, b)) THEN a ELSE b

SeekIn(target, strict) ==
  [a |-> Unhidden(Bisected(StoredKeys, target, strict, reverse), reverse),
   b |-> Bisected(PendingKeys, target, strict, reverse)]

StepIn(cur) ==
  IF At(StoredKeys, cur.a) = KeyAt(cur)
  THEN [cur EXCEPT !.a = Unhidden(@ + Way(reverse), reverse)]
  ELSE [cur EXCEPT !.b = @ + Way(reverse)]

(***************************************************************************)
(* The walk.                                                               *)
(***************************************************************************)
Past(key, place) ==
  \/ key = place.target /\ ~place.strict
  \/ IF reverse THEN IsLess(key, place.target) ELSE IsLess(place.target, key)

Stepped(cur, n) == FoldLeft(LAMBDA x, i : StepIn(x), cur, [i \in 1..n |-> i])

\* The cursor after the fewest steps that arrive, or else a seek's.
Arrived(cur, place, arrives) ==
  IF arrives = {} THEN SeekIn(place.target, place.strict)
  ELSE Stepped(cur, CHOOSE n \in arrives : \A l \in arrives : n <= l)

Reached(key, place) == key = None \/ Past(key, place)
Arrivals(cur, place) == {n \in 1..budget : Reached(KeyAt(Stepped(cur, n)), place)}

\* Mutant of Toward: it seeks even when the target is behind the key.
MutToward(cur, place) == Arrived(cur, place, Arrivals(cur, place))

\* Step up to budget keys toward a target, and then seek if it is still ahead;
\* a target behind the key is stepped past.
Toward(cur, place) ==
  IF Past(KeyAt(cur), place) THEN StepIn(cur) ELSE Arrived(cur, place, Arrivals(cur, place))

StartOf(from) ==
  LET c == Compile(pattern) IN
  IF from # None THEN SeekIn(from, TRUE)
  ELSE IF ~reverse THEN SeekIn(c.head, FALSE)
  ELSE SeekIn(PrefixEnd(c.head), TRUE)

\* A key of the walk: it is handed out, and a full batch pauses the walk.
Visit ==
  /\ phase = "walk" /\ KeyAt(cursor) # None
  /\ PlaceKey(Compile(pattern), KeyAt(cursor), reverse) = Match
  /\ visited' = Append(visited, KeyAt(cursor))
  /\ taken' = taken + 1
  /\ IF taken + 1 = limit
     THEN phase' = "batch" /\ UNCHANGED cursor
     ELSE cursor' = StepIn(cursor) /\ UNCHANGED phase
  /\ UNCHANGED <<stored, updates, pattern, reverse, limit, budget, after>>

\* One that does not match: over it, or as far as its place says.
Skip ==
  /\ phase = "walk" /\ KeyAt(cursor) # None
  /\ LET place == PlaceKey(Compile(pattern), KeyAt(cursor), reverse) IN
       /\ place # Match
       /\ CASE place = Done -> phase' = "done" /\ UNCHANGED cursor
            [] place = Step -> cursor' = StepIn(cursor) /\ UNCHANGED phase
            [] OTHER -> cursor' = Toward(cursor, place) /\ UNCHANGED phase
  /\ UNCHANGED <<stored, updates, pattern, reverse, limit, budget, after, visited, taken>>

WalkEnds ==
  /\ phase = "walk" /\ KeyAt(cursor) = None
  /\ phase' = "done"
  /\ UNCHANGED <<stored, updates, pattern, reverse, limit, budget, after, cursor, visited, taken>>

\* The next batch seeks from just past the last key of the one before.
ResumeBatch ==
  /\ phase = "batch"
  /\ after' = Last(visited)
  /\ cursor' = StartOf(Last(visited))
  /\ taken' = 0
  /\ phase' = "walk"
  /\ UNCHANGED <<stored, updates, pattern, reverse, limit, budget, visited>>

ScanInit ==
  /\ stored \in StoredKeySets
  /\ updates \in Updates
  /\ pattern \in Patterns
  /\ reverse \in BOOLEAN
  /\ limit \in Limits
  /\ budget \in Budgets
  /\ after = None
  /\ cursor = StartOf(None)
  /\ visited = <<>>
  /\ taken = 0
  /\ phase = "walk"

ScanNext == Visit \/ Skip \/ WalkEnds \/ ResumeBatch

(***************************************************************************)
(* Properties                                                              *)
(***************************************************************************)
\* What a match says of a value.
Admits(m, v) ==
  CASE m.kind = "any" -> TRUE
    [] m.kind = "eq" -> v = m.text
    [] m.kind = "prefix" -> StartsWith(v, m.text)
    [] m.kind = "range" ->
         /\ m.gte # None => AtMost(m.gte, v)
         /\ m.gt # None => IsLess(m.gt, v)
         /\ m.lte # None => AtMost(v, m.lte)
         /\ m.lt # None => IsLess(v, m.lt)

Picks(p, k) ==
  /\ Len(k.slice) = Len(p.slice) /\ \A i \in 1..Len(p.slice) : Admits(p.slice[i], k.slice[i])
  /\ p.name # None =>
       /\ k.name = p.name /\ Len(k.local) = Len(p.local)
       /\ \A i \in 1..Len(p.local) : Admits(p.local[i], k.local[i])

Expected ==
  LET live == (stored \ updates.deleted) \cup updates.set
      texts == Listed(live \cap {Text(k) : k \in {l \in Universe : Picks(pattern, l)}})
  IN  IF reverse THEN Reverse(texts) ELSE texts

\* A scan hands out the live keys its pattern picks out, in the order of their
\* texts or reversed, each once, whatever it steps over and seeks past, with
\* the transaction's own writes in their place and over any number of batches.
\* (compilePattern, placeKey, walkPattern, InMemTxn.scan)
ScanIsExact ==
  /\ phase # "done" => visited = SubSeq(Expected, 1, Len(visited)) /\ Len(visited) <= Len(Expected)
  /\ phase = "done" => visited = Expected

\* Whether a key is further along than another, or the end is.
Ahead(key, other) == key = None \/ IF reverse THEN IsLess(key, other) ELSE IsLess(other, key)

\* Each turn of the walk's loop moves its cursor on, so a walk ends: where a
\* target lies behind the key, as a bound no value can equal may put it, the
\* walk steps.  (walkPattern)
WalkAdvances ==
  phase = "walk" /\ KeyAt(cursor) # None =>
    LET place == PlaceKey(Compile(pattern), KeyAt(cursor), reverse)
    IN  place.kind = "seek" => Ahead(KeyAt(Toward(cursor, place)), KeyAt(cursor))
=============================================================================

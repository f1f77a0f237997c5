----------------------------- MODULE MCQueries ------------------------------
(***************************************************************************)
(* Instances of Queries: a slice of two keys and one of another, and a     *)
(* query of each way of reading.                                           *)
(***************************************************************************)
EXTENDS Queries
CONSTANTS x, y

MCSliceOf == <<"a", "a", "b">>
Writes(k, v) == [EmptyLayer EXCEPT ![k] = v]
Predicts(needs, clears, writes) == [needs |-> needs, clears |-> clears, writes |-> writes]

\* One mutation sets a key, one clears a slice and throws when a key is gone.
MCPredictor ==
  [m \in Mutations |->
    CASE m = "set" -> Predicts({}, {}, Writes(1, y))
      [] m = "drop" -> Predicts({}, {}, Writes(2, Deleted))
      [] m = "clear" -> Predicts({2}, {"a"}, Writes(3, y))]

Scan(pattern, reverse, take) == [pattern |-> pattern, reverse |-> reverse, take |-> take]
Reader(st, key, scans, scan) == [status |-> st, key |-> key, scans |-> scans, scan |-> scan]
Nothing == Scan({}, FALSE, 1)

\* A list, its last entry, a list behind a key, a key once there is a base, and
\* what the outbox holds.
List == Reader(Undefined, Undefined, TRUE, Scan({1, 2, 3}, FALSE, 9))
MCPrograms ==
  {List,
   Reader(Undefined, Undefined, TRUE, Scan({1, 2}, TRUE, 1)),
   Reader(Undefined, 3, TRUE, Scan({1, 2}, FALSE, 9)),
   Reader(ConnectionKey, 2, FALSE, Nothing),
   Reader(OutboxKey, Undefined, FALSE, Nothing)}
OnlyList == {List}

MCBases == {<<x, x, x>>, <<Absent, x, Absent>>}
MCStored == {<<>>, <<"clear">>}
MCEmpty == {<<>>}
=============================================================================

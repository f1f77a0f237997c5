---------------------------- MODULE WriteBuffer ----------------------------
(***************************************************************************)
(* The write buffer of one mutation (db/src/buffer.rs): what a decider, a  *)
(* bootstrap or a cron hook has written so far and how its reads see it.   *)
(*                                                                         *)
(* A store key is a slice and a field of it: the code keeps both in one    *)
(* string "<slice>!<local key>" and recovers the slice as the text before  *)
(* the first '!'.  A buffer maps every slice to what was done to it:       *)
(*   entries - per field the value put last, Deleted, or Untouched;        *)
(*   del     - "kept", "deleted", or "erased" (deleted with its history).  *)
(***************************************************************************)
EXTENDS Naturals

CONSTANTS
  Slices,     \* slice names
  Fields,     \* local keys of a slice
  Values,     \* values a key may hold
  Absent,     \* a key the store does not hold
  Deleted,    \* a buffered deletion of a key
  Untouched   \* a key the buffer says nothing of

ASSUME MarkersAreNoValues ==
  /\ {Absent, Deleted, Untouched} \cap Values = {}
  /\ Absent # Deleted /\ Absent # Untouched /\ Deleted # Untouched

Entries == [Fields -> Values \cup {Deleted, Untouched}]
Touch == [entries: Entries, del: {"kept", "deleted", "erased"}]
Buffer == [Slices -> Touch]
Contents == [Fields -> Values \cup {Absent}]
KeyValues == [Slices -> Contents]

Nothing == [f \in Fields |-> Untouched]
NoTouch == [entries |-> Nothing, del |-> "kept"]
EmptyBuffer == [s \in Slices |-> NoTouch]

\* WriteBuffer::put of a value or of a deletion, the last write of a key standing.
Put(b, s, f, v) ==
  [b EXCEPT ![s] = [entries |-> [b[s].entries EXCEPT ![f] = v], del |-> b[s].del]]

\* Of two deletions of one slice either may have asked for its history to go.
Joined(del, erase) == IF erase \/ del = "erased" THEN "erased" ELSE "deleted"

\* Mutant of DeleteSlice: it leaves the entries under the slice.
DeleteSliceKeepsEntries(b, s, erase) ==
  [b EXCEPT ![s] = [entries |-> b[s].entries, del |-> Joined(b[s].del, erase)]]

\* WriteBuffer::delete_slice: the entries under the slice go, so an entry under
\* a deleted slice is always a write made after the deletion.
DeleteSlice(b, s, erase) ==
  [b EXCEPT ![s] = [entries |-> Nothing, del |-> Joined(b[s].del, erase)]]

\* What a read of key f of slice s answers (native_get): the buffer's entry if
\* it has one, nothing for a key of a deleted slice, the store's otherwise.
ReadThrough(b, kv, s, f) ==
  LET entry == b[s].entries[f] IN
  IF entry \in Values THEN entry
  ELSE IF entry = Deleted \/ b[s].del # "kept" THEN Absent
  ELSE kv[s][f]

\* Whether the buffer sets any key of the slice.
Sets(t) == \E f \in Fields : t.entries[f] \in Values

=============================================================================

-------------------------------- MODULE Mirror ------------------------------
(***************************************************************************)
(* What a client shows its app of the database, whatever way it came to    *)
(* it: the states some slices had after one position of the log, the same  *)
(* position for all of them, and no position but a later one afterwards.   *)
(* Replica implements it while no edit is erased.                          *)
(***************************************************************************)
EXTENDS Integers, FiniteSets, Sequences

CONSTANT Slices  \* slice names

VARIABLES
  log,   \* the database's history, as far as it will come
  at,    \* the position shown, -1 before the first
  shown  \* the state shown of each slice, {} for the slices not shown

LOCAL INSTANCE History

\* The states of some slices after a position.
CutAt(slices, p) == [s \in Slices |-> IF s \in slices THEN StateAt(log, s, p) ELSE {}]

Init ==
  /\ at = -1
  /\ shown = CutAt({}, at)

\* The base is applied through a later position, or at the same one slices come to
\* be shown with a land or go with the view.
Show ==
  \E p \in at..Len(log), slices \in SUBSET Slices :
    /\ at' = p
    /\ shown' = CutAt(slices, p)
    /\ UNCHANGED log

Spec == Init /\ [][Show]_<<log, at, shown>>
=============================================================================

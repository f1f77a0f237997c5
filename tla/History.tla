------------------------------ MODULE History -------------------------------
(***************************************************************************)
(* The log of edits as a client replicates it: what each position does to  *)
(* each slice, and from that the seq, life and state of a slice at a       *)
(* position.  EditLog is how the database comes to such a log; here it is  *)
(* the reference a replica is compared with.                               *)
(*                                                                         *)
(* A state is the set of the seqs whose writes it holds: those of the last *)
(* birth and of the normal edits after it.                                 *)
(***************************************************************************)
EXTENDS Integers, FiniteSets, Sequences

CONSTANT Slices  \* slice names

\* What a position does to a slice: nothing, a birth, a normal edit, a death, or
\* a death that erases the slice's earlier edits.
Changes == {"none", "birth", "normal", "death", "erase"}

IsEdit(log, s, p) == log[p][s] # "none"
IsDeath(log, s, p) == log[p][s] \in {"death", "erase"}

\* The edits of a slice in a range of positions.
EditsIn(log, s, range) == {p \in range : IsEdit(log, s, p)}

\* An edit's seq, or that of the last edit at or below a position; 0 for none.
SeqAt(log, s, p) == Cardinality(EditsIn(log, s, 1..p))

\* The last position at or below p that changed a slice, 0 for none.
ChangedAt(log, s, p) ==
  LET past == EditsIn(log, s, 1..p) IN
  IF past = {} THEN 0 ELSE CHOOSE q \in past : \A o \in past : o <= q

LiveAt(log, s, p) ==
  ChangedAt(log, s, p) # 0 /\ ~IsDeath(log, s, ChangedAt(log, s, p))

\* The writes a slice's state holds after position p.
StateAt(log, s, p) ==
  {SeqAt(log, s, q) : q \in
     {o \in EditsIn(log, s, 1..p) :
        /\ ~IsDeath(log, s, o)
        /\ \A later \in EditsIn(log, s, o + 1..p) : log[later][s] = "normal"}}

\* Whether an edit is still in a log of head positions: no erasure followed it.
Readable(log, head, s, p) ==
  IsEdit(log, s, p) /\ \A q \in p + 1..head : log[q][s] # "erase"

\* A log a database can have written: normal edits and deaths of live slices only.
IsHistory(log) ==
  /\ log \in Seq([Slices -> Changes])
  /\ \A p \in DOMAIN log :
       /\ \E s \in Slices : IsEdit(log, s, p)
       /\ \A s \in Slices :
            log[p][s] \in {"normal", "death", "erase"} => LiveAt(log, s, p - 1)
=============================================================================

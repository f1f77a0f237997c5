----------------------------- MODULE MCEditLog -----------------------------
(***************************************************************************)
(* Instances of EditLog for TLC: two numbered mutations of one series, one *)
(* of which expects slice "a" at seq 1, a tick of a cron entry, a mutation *)
(* without a number, and one whose data the schema refuses.                *)
(***************************************************************************)
EXTENDS EditLog, TLC

Mutation(kind, series, n, expect) ==
  [kind |-> kind, series |-> series, n |-> n, expect |-> expect]

First == Mutation("submit", "s", 1, NoExpect)
Second == Mutation("submit", "s", 2, [slice |-> "a", seq |-> 1])
Tick == Mutation("tick", "cron", 1, NoExpect)
Unnumbered == Mutation("submit", NoSeries, 0, NoExpect)
Garbled == Mutation("submit", NoSeries, 1, NoExpect)

MCNumbered == {First, Second, Tick, Garbled}
MCUnnumbered == {Unnumbered, Garbled}
MCInvalid == {Garbled}

ContentSymmetry == Permutations(Slices) \cup Permutations(Fields)
=============================================================================

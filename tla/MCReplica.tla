----------------------------- MODULE MCReplica ------------------------------
(***************************************************************************)
(* Replica on two slices: a type's selector that covers both, and each     *)
(* slice's own.                                                            *)
(***************************************************************************)
EXTENDS Replica
CONSTANTS s1, s2

Both == {s1, s2}
At(x, y) == [s \in {s1, s2} |-> IF s = s1 THEN x ELSE y]

\* Normal edits of both slices at once, and one with a birth over a live slice.
Edited == <<At("birth", "birth"), At("normal", "normal")>>
Reborn == <<At("birth", "birth"), At("normal", "birth")>>
\* The erasure of a live slice, at a normal edit of the other.
Erased == <<At("birth", "birth"), At("erase", "normal")>>
\* One slice is there before the other is born and edited.
Later == <<At("birth", "none"), At("none", "birth"), At("none", "normal")>>

Short == {Edited}
Lives == {Reborn}
Erasures == {Erased}
LivesAndErasures == Lives \cup Erasures
Apart == {Later}

\* A selector of both slices, of one, or none.
AnyPart == {{Both}, {{s1}}, {}}
OnlyAll == {{Both}}
OneOrNone == {{Both}, {}}
\* A slice's own selectors: of one, of both, or none.
OneMoreOrNone == {{{s1}}, {{s1}, {s2}}, {}}

WantsAll == {{Both}}
WantsEach == {{{s1}, {s2}}}
\* Builds with a slice type for each slice, and one without the second type.
MoreOrFewer == {{{s1}, {s2}}, {{s1}}}

\* From the grant of both slices, it changes over a log that erases nothing, without a
\* fault; faults happen, and builds change, over an erasure, under that grant.  What is
\* not to happen is counted as spent.
FocusedInit ==
  /\ Start
  /\ granted \in OnlyAll
  /\ \/ log \in Lives /\ wants \in WantsAll /\ faults = MaxFaults /\ changes = 0
     \/ log \notin Lives /\ wants \in MoreOrFewer /\ faults = 0 /\ changes = MaxGrants
FocusedSpec == FocusedInit /\ [][Next]_vars
=============================================================================

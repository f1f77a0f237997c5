------------------------------ MODULE MCStream ------------------------------
(***************************************************************************)
(* Instances of Stream for TLC: two slices, of which the grantor allows    *)
(* one or both.                                                            *)
(***************************************************************************)
EXTENDS Stream

Mut(edits, erases) == [edits |-> edits, erases |-> erases]

MCGrants == {{"a"}, {"a", "b"}}
\* The second erases what the first leaves alone, and is seen by any grant.
MCErasing == {Mut({"b"}, {}), Mut({"a", "b"}, {"a"})}

=============================================================================

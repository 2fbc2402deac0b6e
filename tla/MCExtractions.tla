----------------------------- MODULE MCExtractions -----------------------------
(* Small instances of the review for TLC. *)
EXTENDS Extractions
CONSTANTS c1, c2
\* One candidate, both in either order, and one twice.
Orders == {<<c1>>, <<c1, c2>>, <<c2, c1>>, <<c1, c1>>}
=============================================================================

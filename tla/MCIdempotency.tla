--------------------------- MODULE MCIdempotency ---------------------------
(* Small instances of Idempotency for TLC.                                 *)
EXTENDS Idempotency, TLC

Symmetry == Permutations(Request) \cup Permutations(Key)
                \cup Permutations(Body) \cup Permutations(Resource)
=============================================================================

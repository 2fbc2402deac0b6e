---------------------------- MODULE MCAnnotations ----------------------------
(* Small instances of the annotations for TLC. *)
EXTENDS Annotations, TLC

CONSTANTS a1, a2, c1, c2, j1, j2, u, w

MCAnn == {a1, a2}

\* One author, who may also mention themselves.
MCAuthor == [a \in MCAnn |-> w]

\* Two requests, and two batches as two worker processes start them.
MCClient == {c1, c2}
MCJob == {j1, j2}

\* Three of the four are enough for every pair to meet with a third at work.
ThreeAtWork ==
  Cardinality({c \in Client : request[c] # None}) + Cardinality({j \in Job : job[j] # None}) <= 3

MCSymmetry == Permutations(MCAnn) \cup Permutations(MCClient) \cup Permutations(MCJob)
=============================================================================

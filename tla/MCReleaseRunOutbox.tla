------------------------ MODULE MCReleaseRunOutbox ------------------------
(* Instances of ReleaseRunOutbox for model checking. *)
EXTENDS ReleaseRunOutbox, TLC

CONSTANTS w1, w2

(* One run per commit, numbered in push order. *)
PushOrder == [r \in Runs |-> r]

Symmetry == Permutations(Workers)
=============================================================================

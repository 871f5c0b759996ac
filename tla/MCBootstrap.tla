---------------------------- MODULE MCBootstrap ----------------------------
(* Instances of Bootstrap for TLC. *)
EXTENDS Bootstrap, TLC

\* Promoters and snapshot ids are interchangeable in every definition.
Symmetry == Permutations(Writers) \cup Permutations(Ids)

=============================================================================

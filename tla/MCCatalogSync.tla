--------------------------- MODULE MCCatalogSync ---------------------------
(* Instances of CatalogSync for TLC. *)
EXTENDS CatalogSync, TLC

\* The two sides of a damaged file: with and without bytes that are no text.
TextDamages  == {Absent, Torn} \cup Snapshots
EveryDamage  == {Absent, Torn, Undecodable} \cup Snapshots

\* Callers, ids and headers are interchangeable in every definition.
Symmetry ==
  Permutations(Writers) \cup Permutations(Ids) \cup Permutations(Metas)

=============================================================================

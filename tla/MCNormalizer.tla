---------------------------- MODULE MCNormalizer ----------------------------
(* Instances of Normalizer for TLC: the mapping of data/catalog_policy.yaml *)
(* with one more tag, which maps to a task that another tag maps to.        *)
EXTENDS Normalizer

PolicyMapping == [t \in Tags |-> CASE t = "code"   -> <<"codigo">>
                                   [] t = "coding" -> <<"chat", "codigo">>
                                   [] OTHER        -> <<>>]

Order == [x \in Ids |-> CASE x = "empty" -> 0 [] x = "spaces" -> 1 [] x = "m1" -> 2]

=============================================================================

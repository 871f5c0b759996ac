--------------------------- MODULE MCChatService ---------------------------
(* Instances of ChatService for TLC. *)
EXTENDS ChatService, TLC

\* Threads, ids and criteria are interchangeable in every definition.
Symmetry ==
  Permutations(Threads) \cup Permutations(Conversations) \cup Permutations(Criteria)

=============================================================================

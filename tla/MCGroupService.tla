--------------------------- MODULE MCGroupService ---------------------------
(* GroupService on small instances: every id is interchangeable. *)
EXTENDS GroupService, TLC

Symmetry == Permutations(Users) \cup Permutations(Groups) \cup Permutations(Invites)
            \cup Permutations(JoinRequests) \cup Permutations(Handlers)

=============================================================================

-------------------------- MODULE MCGroupRealtime --------------------------
(* GroupRealtime on small instances: every id is interchangeable. *)
EXTENDS GroupRealtime, TLC

Symmetry == Permutations(Users) \cup Permutations(Groups) \cup Permutations(Invites)
            \cup Permutations(JoinRequests) \cup Permutations(Handlers)
            \cup Permutations(Sockets)

=============================================================================

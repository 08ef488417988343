--------------------------- MODULE MCFriendService ---------------------------
(* FriendService on small instances.  Users are ordered, so they are numbers *)
(* and only the other ids are interchangeable.                               *)
EXTENDS FriendService, TLC

Symmetry == Permutations(Requests) \cup Permutations(Friendships) \cup Permutations(Handlers)

=============================================================================

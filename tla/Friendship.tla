------------------------------ MODULE Friendship ------------------------------
(***************************************************************************)
(* What FriendService promises, without rows, handlers or failures: two    *)
(* users become friends when one of them accepts what the other asked, in  *)
(* that step and in no other; and a friendship ends as a whole.            *)
(***************************************************************************)
CONSTANT Users

VARIABLES
    asked,          \* <<u, v>>: u has asked v
    answered,       \* <<u, v>>: v has answered u, one way or the other
    accepted,       \* <<u, v>>: v's answer is yes
    friends         \* {u, v}

friendship == <<asked, answered, accepted, friends>>

Ask(u, v) ==
    /\ u # v
    /\ asked' = asked \cup {<<u, v>>}
    /\ UNCHANGED <<answered, accepted, friends>>

Accept(u, v) ==
    /\ <<u, v>> \in asked
    /\ answered' = answered \cup {<<u, v>>}
    /\ accepted' = accepted \cup {<<u, v>>}
    /\ friends' = friends \cup {{u, v}}
    /\ UNCHANGED asked

\* A late no leaves the friends of an earlier yes friends, and does not undo
\* the yes to another question.
Reject(u, v) ==
    /\ <<u, v>> \in asked
    /\ answered' = answered \cup {<<u, v>>}
    /\ accepted' \in {accepted, accepted \ {<<u, v>>}}
    /\ UNCHANGED <<asked, friends>>

Part(u, v) ==
    /\ {u, v} \in friends
    /\ friends' = friends \ {{u, v}}
    /\ UNCHANGED <<asked, answered, accepted>>

Init == asked = {} /\ answered = {} /\ accepted = {} /\ friends = {}

Next == \E u, v \in Users : Ask(u, v) \/ Accept(u, v) \/ Reject(u, v) \/ Part(u, v)

Spec == Init /\ [][Next]_friendship

=============================================================================

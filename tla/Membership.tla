------------------------------ MODULE Membership ------------------------------
(***************************************************************************)
(* What GroupService promises, without rows, handlers or failures: a group *)
(* is founded by its owner, who stays in it until it is gone; everybody    *)
(* else enters as a plain member, by an answer to an invitation or a       *)
(* request, given in that very step; and a group that is gone is empty for *)
(* good.                                                                   *)
(***************************************************************************)
CONSTANTS
    Groups,
    Users,
    NoUser

VARIABLES
    status,         \* a group is "unused", "live" or "deleted"
    owner,
    role,           \* "owner", "admin", "member" or "none"
    called,         \* <<g, u>>: u was invited to g or has asked to join it
    answered        \* <<g, u>>: there is an answer to that

membership == <<status, owner, role, called, answered>>

Of(g) == {g} \X Users

Found(g, u) ==
    /\ status[g] = "unused"
    /\ status' = [status EXCEPT ![g] = "live"]
    /\ owner' = [owner EXCEPT ![g] = u]
    /\ role' = [role EXCEPT ![g][u] = "owner"]
    /\ UNCHANGED <<called, answered>>

Call(g, u) ==
    /\ status[g] = "live"
    /\ called' = called \cup {<<g, u>>}
    /\ UNCHANGED <<status, owner, role, answered>>

Answered(g, u) ==
    /\ status[g] = "live" /\ <<g, u>> \in called
    /\ answered' = answered \cup {<<g, u>>}
    /\ UNCHANGED <<status, owner, called>>

Admit(g, u) ==
    /\ role[g][u] = "none"
    /\ role' = [role EXCEPT ![g][u] = "member"]
    /\ Answered(g, u)

\* A no, or a yes to somebody who is in the group already.
Settle(g, u) ==
    /\ Answered(g, u)
    /\ UNCHANGED role

SetRole(g, u) ==
    /\ role[g][u] \in {"admin", "member"}
    /\ \E r \in {"admin", "member"} : role' = [role EXCEPT ![g][u] = r]
    /\ UNCHANGED <<status, owner, called, answered>>

Leave(g, u) ==
    /\ role[g][u] \in {"admin", "member"}
    /\ role' = [role EXCEPT ![g][u] = "none"]
    /\ UNCHANGED <<status, owner, called, answered>>

Dissolve(g) ==
    /\ status[g] = "live"
    /\ status' = [status EXCEPT ![g] = "deleted"]
    /\ owner' = [owner EXCEPT ![g] = NoUser]
    /\ role' = [role EXCEPT ![g] = [u \in Users |-> "none"]]
    /\ called' = called \ Of(g)
    /\ answered' = answered \ Of(g)

Init ==
    /\ status = [g \in Groups |-> "unused"]
    /\ owner = [g \in Groups |-> NoUser]
    /\ role = [g \in Groups |-> [u \in Users |-> "none"]]
    /\ called = {} /\ answered = {}

Next ==
    \E g \in Groups :
        \/ Dissolve(g)
        \/ \E u \in Users :
            \/ Found(g, u) \/ Call(g, u) \/ Admit(g, u) \/ Settle(g, u)
            \/ SetRole(g, u) \/ Leave(g, u)

Spec == Init /\ [][Next]_membership

=============================================================================

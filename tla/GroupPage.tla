------------------------------ MODULE GroupPage ------------------------------
(***************************************************************************)
(* The page of a group (GroupChatPage.tsx) and what it loads: the group,   *)
(* its join requests and the group key.  The page stays mounted when the   *)
(* address changes from one group to another; none of its requests is      *)
(* cancelled then, and an answer is put into its state whenever it comes.  *)
(* A key, a list and a view are named by the group they are of.  Effects   *)
(* run in the step that changes what they depend on.  Sending and inviting *)
(* read this state and leave it alone.  The server is not followed: what   *)
(* the person is in a group, when it answers, can be anything.             *)
(***************************************************************************)
EXTENDS FiniteSets, Naturals

CONSTANTS
    Groups,
    Broken,         \* where the wrapped key does not open
    None,           \* no group, no page
    MaxPending      \* bounds the commands that wait for an answer

ASSUME PageAssumption ==
    /\ Broken \subseteq Groups /\ None \notin Groups
    /\ MaxPending \in Nat

VARIABLES
    route,          \* the group in the address
    unlocked,       \* privateKey of AuthProvider
    shown,          \* the state `group`
    role,           \* what the person is in the members it lists
    groupKey,
    listed,         \* whose join requests joinRequests are
    loads,          \* getGroup: asked for and not answered
    asks,           \* listGroupJoinRequests: asked for and not answered
    unwraps,        \* unwrapGroupKey: not resolved
    pending,        \* commands that wait for an answer
    visited         \* the groups this page was at: a history

answers == <<loads, asks, unwraps, pending>>
vars == <<route, unlocked, shown, role, groupKey, listed, answers, visited>>

\* "none": the members were read after the person was removed.
Roles == {"none", "member", "manager"}

Commands == [kind : {"edit", "remove", "approve", "reject", "quit"}, group : Groups]

TypeOK ==
    /\ {route, shown, groupKey, listed} \subseteq Groups \cup {None}
    /\ unlocked \in BOOLEAN
    /\ role \in Roles
    /\ UNION {loads, asks, unwraps, visited} \subseteq Groups
    /\ pending \subseteq Commands

Init ==
    /\ route = None
    /\ unlocked = FALSE
    /\ shown = None /\ role = "none" /\ groupKey = None /\ listed = None
    /\ loads = {} /\ asks = {} /\ unwraps = {} /\ pending = {}
    /\ visited = {}

-----------------------------------------------------------------------------
(* Effects. *)

\* canManageGroupJoinRequests
CanManage(r, g, as) == g # None /\ g = r /\ as = "manager"

\* Join requests are asked for when the person comes to manage the group of
\* the address, and dropped when that ends.
RequestsEffect(r, g, as) ==
    IF r = route /\ CanManage(r, g, as) = CanManage(route, shown, role)
    THEN UNCHANGED <<asks, listed>>
    ELSE IF CanManage(r, g, as) THEN asks' = asks \cup {r} /\ UNCHANGED listed
                                ELSE listed' = None /\ UNCHANGED asks

\* The key of the person's membership is unwrapped when that or the private
\* key changes.
KeyEffect(g, as, key) ==
    IF key /\ as # "none" THEN unwraps' = unwraps \cup {g} /\ UNCHANGED groupKey
                          ELSE groupKey' = None /\ UNCHANGED unwraps

SetGroup(g) ==
    \E as \in Roles :
        /\ shown' = g /\ role' = as
        /\ RequestsEffect(route, g, as)
        /\ IF role = "none" /\ as = "none" THEN UNCHANGED <<groupKey, unwraps>>
                                           ELSE KeyEffect(g, as, unlocked)

-----------------------------------------------------------------------------
(* The page. *)

\* A new page starts with nothing.
Mount(g) ==
    /\ route = None
    /\ route' = g /\ visited' = {g}
    /\ loads' = {g}
    /\ UNCHANGED <<unlocked, shown, role, groupKey, listed, asks, unwraps, pending>>

Switch(g) ==
    /\ route \notin {None, g}
    /\ route' = g /\ visited' = visited \cup {g}
    /\ loads' = loads \cup {g}
    /\ RequestsEffect(g, shown, role)
    /\ UNCHANGED <<unlocked, shown, role, groupKey, unwraps, pending>>

\* A bug: the page is not unmounted, and what it has asked for still counts.
UnmountLater(commands) ==
    /\ route' = None
    /\ shown' = None /\ role' = "none" /\ groupKey' = None /\ listed' = None
    /\ visited' = {}
    /\ pending' = commands
    /\ UNCHANGED <<loads, asks, unwraps>>

\* No answer changes a page that is gone, but leaving the group still
\* navigates when it is answered.
Unmount(commands) ==
    /\ route' = None
    /\ shown' = None /\ role' = "none" /\ groupKey' = None /\ listed' = None
    /\ loads' = {} /\ asks' = {} /\ unwraps' = {}
    /\ visited' = {}
    /\ pending' = {c \in commands : c.kind = "quit"}

\* The person goes elsewhere, or hears that the group of the address is
\* deleted, which is said before it is done, or that they are out of it.
Leave == route # None /\ Unmount(pending) /\ UNCHANGED unlocked

\* A bug: the effect that unwraps the key does not see the private key.
UnlockUnseen ==
    /\ ~unlocked /\ unlocked' = TRUE
    /\ UNCHANGED <<route, shown, role, groupKey, listed, answers, visited>>

Unlock ==
    /\ ~unlocked /\ unlocked' = TRUE
    /\ KeyEffect(shown, role, TRUE)
    /\ UNCHANGED <<route, shown, role, listed, loads, asks, pending, visited>>

\* group:updated, of whatever group: the page loads its own again.
HearUpdate ==
    /\ route # None
    /\ loads' = loads \cup {route}
    /\ asks' = IF CanManage(route, shown, role) THEN asks \cup {route} ELSE asks
    /\ UNCHANGED <<route, unlocked, shown, role, groupKey, listed, unwraps, pending, visited>>

-----------------------------------------------------------------------------
(* Answers.  Of requests of one kind and group several can be outstanding: *)
(* an answer may not be the last.                                          *)

Answered(S, x) == {S \ {x}, S}

LoadAnswered(g) ==
    /\ g \in loads /\ loads' \in Answered(loads, g)
    /\ SetGroup(g)
    /\ UNCHANGED <<route, unlocked, pending, visited>>

LoadFails(g) ==
    /\ g \in loads /\ loads' \in Answered(loads, g)
    /\ UNCHANGED <<route, unlocked, shown, role, groupKey, listed, asks, unwraps, pending, visited>>

RequestsAnswered(g) ==
    /\ g \in asks /\ asks' \in Answered(asks, g)
    /\ listed' = g
    /\ UNCHANGED <<route, unlocked, shown, role, groupKey, loads, unwraps, pending, visited>>

RequestsFail(g) ==
    /\ g \in asks /\ asks' \in Answered(asks, g)
    /\ UNCHANGED <<route, unlocked, shown, role, groupKey, listed, loads, unwraps, pending, visited>>

Unwrapped(g) ==
    /\ g \in unwraps /\ unwraps' \in Answered(unwraps, g)
    /\ groupKey' = IF g \in Broken THEN None ELSE g
    /\ UNCHANGED <<route, unlocked, shown, role, listed, loads, asks, pending, visited>>

-----------------------------------------------------------------------------
(* Commands.  Some name the group that is shown, others the one in the     *)
(* address.  One that asks for confirmation is pending from its click on,  *)
(* and refused when it is cancelled; only renaming asks for the group when *)
(* it is confirmed, in a dialog that may have been opened earlier.         *)

Command(kind, g) ==
    /\ Cardinality(pending) < MaxPending
    /\ pending' = pending \cup {[kind |-> kind, group |-> g]}
    /\ UNCHANGED <<route, unlocked, shown, role, groupKey, listed, loads, asks, unwraps, visited>>

\* A bug: the dialog saves a group that is not there.
RenameUnshown == route # None /\ Command("edit", shown)

Rename == shown \in Groups /\ Command("edit", shown)
SetRole == role = "manager" /\ Command("edit", route)
RemoveMember == role = "manager" /\ Command("remove", route)
Approve == {groupKey, listed} \subseteq Groups /\ Command("approve", route)
Reject == listed \in Groups /\ Command("reject", route)
DeleteOrLeave == role # "none" /\ Command("quit", shown)

\* An edit returns the group, which is shown.
Edited(c) ==
    /\ c.kind = "edit"
    /\ SetGroup(c.group)
    /\ pending' \in Answered(pending, c)
    /\ UNCHANGED <<route, loads, visited>>

\* A removal and the answers to a join request load again, for the address
\* they were given at.
Reloaded(c) ==
    /\ c.kind \in {"remove", "approve", "reject"}
    /\ loads' = loads \cup (IF c.kind = "reject" THEN {} ELSE {c.group})
    /\ asks' = asks \cup (IF c.kind = "remove" THEN {} ELSE {c.group})
    /\ pending' \in Answered(pending, c)
    /\ UNCHANGED <<route, shown, role, groupKey, listed, unwraps, visited>>

\* Whoever left or deleted a group is taken to the list of groups.
Gone(c) == c.kind = "quit" /\ \E rest \in Answered(pending, c) : Unmount(rest)

Done(c) ==
    /\ c \in pending
    /\ Edited(c) \/ Reloaded(c) \/ Gone(c)
    /\ UNCHANGED unlocked

Refused(c) ==
    /\ c \in pending
    /\ pending' \in Answered(pending, c)
    /\ UNCHANGED <<route, unlocked, shown, role, groupKey, listed, loads, asks, unwraps, visited>>

-----------------------------------------------------------------------------
Next ==
    \/ \E g \in Groups :
        \/ Mount(g) \/ Switch(g)
        \/ LoadAnswered(g) \/ LoadFails(g)
        \/ RequestsAnswered(g) \/ RequestsFail(g)
        \/ Unwrapped(g)
    \/ Leave \/ Unlock \/ HearUpdate
    \/ Rename \/ SetRole \/ RemoveMember \/ Approve \/ Reject \/ DeleteOrLeave
    \/ \E c \in pending : Done(c) \/ Refused(c)

Spec == Init /\ [][Next]_vars

\* The promise of Web Crypto is settled.
FairSpec == Spec /\ \A g \in Groups : WF_vars(Unwrapped(g))

-----------------------------------------------------------------------------
(* A page that was opened anew for its group, from the list of groups or   *)
(* from another page, has nothing of another group: no view, no key and no *)
(* join request, whatever pages were left with answers outstanding.  (Only *)
(* going from one group straight to another mixes them up.)                *)
OneGroupNoMixUp ==
    visited = {route} => {shown, groupKey, listed} \subseteq {route, None}

\* The page shows its group, nothing of another group is outstanding, and the
\* key is being unwrapped, or should be: it was never at another group, whose
\* key could have failed to open after this one's did.
AwaitsKey(g) ==
    /\ route = g /\ shown = g /\ unlocked /\ g \notin Broken
    /\ loads \cup unwraps \cup {c.group : c \in pending} \subseteq {g}
    /\ g \in unwraps \/ (role # "none" /\ groupKey = None /\ visited = {g})

(* A person with a private key gets the group key of the page they stay    *)
(* on, whether the private key was unlocked before or after the group was  *)
(* loaded, once no late answer of another group can come between.          *)
OwnKeyArrives == \A g \in Groups : AwaitsKey(g) ~> (groupKey = g \/ route # g)

=============================================================================

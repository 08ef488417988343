---------------------------- MODULE GroupService ----------------------------
(***************************************************************************)
(* Group membership: apps/api/src/modules/groups/groups.service.ts over    *)
(* the tables groups, group_members, group_invites, group_join_requests.   *)
(*                                                                         *)
(* A request handler is an async function: a sequence of awaited Prisma    *)
(* calls.  Each call is one atomic step of the database, and the handlers  *)
(* of other requests run between two calls of this one.  `call[h]` is the  *)
(* handler in slot h: the point it has reached (pc) and the local values   *)
(* it still uses.  A $transaction commits or aborts in one step.           *)
(*                                                                         *)
(* A failed check throws, and so does a failed query or an aborted         *)
(* transaction: all of them end the handler with no further effect, so     *)
(* they are one action, Throw.  A check is therefore the guard of the step *)
(* that goes on.                                                           *)
(*                                                                         *)
(* Left out: names, codes, wrapped group keys and timestamps, which no     *)
(* decision reads; rows of users, which the API never deletes.             *)
(***************************************************************************)

CONSTANTS
    Users,          \* accounts
    NoUser,         \* the owner of a group that does not exist
    Groups,         \* ids a group may get
    Invites,        \* ids a row of group_invites may get
    JoinRequests,   \* ids a row of group_join_requests may get
    Handlers        \* slots for requests being handled at the same time

ASSUME NoUserAssumption == NoUser \notin Users

VARIABLES
    status,     \* status[g]: a group is unused, live, or deleted for good
    owner,      \* owner[g]: groups.owner_id
    role,       \* role[g][u]: group_members.role, "none" when there is no row
    invites,    \* group_invites
    joins,      \* group_join_requests
    call        \* the handlers

tables == <<status, owner, role, invites, joins>>
vars == <<status, owner, role, invites, joins, call>>

-----------------------------------------------------------------------------
(* The tables. *)

Roles == {"owner", "admin", "member"}

\* FriendRequestStatus is the enum of both tables; "free" is a row not yet
\* inserted and "deleted" one removed by a cascade.
FreeRow == [st |-> "free"]
Row == {FreeRow} \cup
       [st : {"pending", "accepted", "rejected", "deleted"}, g : Groups, u : Users]

NewRowOutsideEnum(g, u) == [st |-> "invited", g |-> g, u |-> u]
NewRow(g, u) == [st |-> "pending", g |-> g, u |-> u]

\* update({ where: { id }, data: { status } }): whatever the status was.
SetStatusForgetsAccept(t, i, st) == IF st = "accepted" THEN t ELSE [t EXCEPT ![i].st = st]
SetStatusAlwaysAccepts(t, i, st) == [t EXCEPT ![i].st = "accepted"]
SetStatus(t, i, st) == [t EXCEPT ![i].st = st]

Stored(t, i) == t[i].st \in {"pending", "accepted", "rejected"}

\* A row of table t for this group and user with this status.
HasRow(t, g, u, st) == \E i \in DOMAIN t : t[i].st = st /\ t[i].g = g /\ t[i].u = u

\* An update of row i to status st: it finds the row, and the unique index
\* (group, user, status) has no other row like it.
Updatable(t, i, st) ==
    /\ Stored(t, i)
    /\ \A j \in DOMAIN t \ {i} : t[j].st = st => ~(t[j].g = t[i].g /\ t[j].u = t[i].u)

IsMember(u, g) == role[g][u] # "none"
AtLeastAdmin(u, g) == role[g][u] \in {"owner", "admin"}

\* ON DELETE CASCADE of the group a row belongs to.
NoCascade(t, g) == t
Cascade(t, g) ==
    [i \in DOMAIN t |-> IF Stored(t, i) /\ t[i].g = g
                        THEN [t[i] EXCEPT !.st = "deleted"] ELSE t[i]]

-----------------------------------------------------------------------------
(* The handlers. *)

Idle == [pc |-> "idle"]

PlainPoints == {"create.notify", "rename.update", "rename.notify",
                "invite.member", "invite.pending", "invite.create", "invite.notify",
                "join.member", "join.pending", "join.create", "join.notify",
                "remove.delete", "remove.notify", "delete.announce", "delete.commit"}
InvitePoints == {"accept.commit", "accept.notify", "refuse.commit"}
JoinPoints == {"approve.role", "approve.member", "approve.commit", "approve.notify",
               "decline.role", "decline.commit", "decline.notify"}
RolePoints == {"role.target", "role.update", "role.notify"}

\* What a concurrent read of a membership has returned so far.
ReadRole == Roles \cup {"none", "unread"}

Call == {Idle}
    \cup [pc : PlainPoints, g : Groups, u : Users]
    \cup [pc : InvitePoints, actor : Users, g : Groups, u : Users, row : Invites]
    \cup [pc : JoinPoints, actor : Users, g : Groups, u : Users, row : JoinRequests]
    \cup [pc : RolePoints, actor : Users, g : Groups, u : Users, to : {"admin", "member"}]
    \cup [pc : {"remove.read"}, actor : Users, g : Groups, u : Users,
          actorRole : ReadRole, targetRole : ReadRole]

\* The write is done; realtime calls and the HTTP response remain.
NotifyPoints == {"create.notify", "rename.notify", "invite.notify", "join.notify",
                 "remove.notify", "accept.notify", "approve.notify",
                 "decline.notify", "role.notify"}

Plain(pc, g, u) == [pc |-> pc, g |-> g, u |-> u]
OnRow(pc, a, t, i) == [pc |-> pc, actor |-> a, g |-> t[i].g, u |-> t[i].u, row |-> i]

Start(h, c) == call[h] = Idle /\ call' = [call EXCEPT ![h] = c]
At(h, pc) == call[h].pc = pc
Goto(h, pc) == call' = [call EXCEPT ![h].pc = pc]
Return(h) == call' = [call EXCEPT ![h] = Idle]

\* A check, a query or a transaction of h fails, or its reply is lost.
Throw(h) ==
    /\ call[h] # Idle
    /\ Return(h)
    /\ UNCHANGED tables

\* The response, after the emits, which have no effect on the tables.
Notify(h) ==
    /\ call[h].pc \in NotifyPoints
    /\ Return(h)
    /\ UNCHANGED tables

\* The API process stops; the database stays.
Crash ==
    /\ call' = [h \in Handlers |-> Idle]
    /\ UNCHANGED tables

-----------------------------------------------------------------------------
(* create: the group and its owner's membership are one nested create.  A   *)
(* collision of codes is retried and inserts nothing.                       *)

Create(h, a, g) ==
    /\ Start(h, Plain("create.notify", g, a))
    /\ status[g] = "unused"
    /\ status' = [status EXCEPT ![g] = "live"]
    /\ owner' = [owner EXCEPT ![g] = a]
    /\ role' = [role EXCEPT ![g][a] = "owner"]
    /\ UNCHANGED <<invites, joins>>

(* updateName: a blank name is refused after the check, without a write. *)

UpdateName(h, a, g) ==
    /\ AtLeastAdmin(a, g)
    /\ Start(h, Plain("rename.update", g, a))
    /\ UNCHANGED tables

UpdateNameCommit(h) ==
    /\ At(h, "rename.update")
    /\ status[call[h].g] = "live"
    /\ Goto(h, "rename.notify")
    /\ UNCHANGED tables

-----------------------------------------------------------------------------
(* invite *)

Invite(h, a, g, u) ==
    /\ IsMember(a, g)
    /\ Start(h, Plain("invite.member", g, u))
    /\ UNCHANGED tables

InviteCheckMember(h) ==
    /\ At(h, "invite.member")
    /\ ~IsMember(call[h].u, call[h].g)
    /\ Goto(h, "invite.pending")
    /\ UNCHANGED tables

InviteCheckPending(h) ==
    /\ At(h, "invite.pending")
    /\ ~HasRow(invites, call[h].g, call[h].u, "pending")
    /\ Goto(h, "invite.create")
    /\ UNCHANGED tables

\* An insert: the foreign key needs the group, the unique index a free status.
InsertPendingUnindexed(t, h) == status[call[h].g] = "live"
InsertPending(t, h) ==
    /\ status[call[h].g] = "live"
    /\ ~HasRow(t, call[h].g, call[h].u, "pending")

InviteCreate(h) ==
    /\ At(h, "invite.create")
    /\ InsertPending(invites, h)
    /\ \E i \in Invites :
        /\ invites[i] = FreeRow
        /\ invites' = [invites EXCEPT ![i] = NewRow(call[h].g, call[h].u)]
    /\ Goto(h, "invite.notify")
    /\ UNCHANGED <<status, owner, role, joins>>

-----------------------------------------------------------------------------
(* requestJoin: the group is found by its code. *)

RequestJoin(h, a, g) ==
    /\ status[g] = "live"
    /\ Start(h, Plain("join.member", g, a))
    /\ UNCHANGED tables

RequestJoinCheckMember(h) ==
    /\ At(h, "join.member")
    /\ ~IsMember(call[h].u, call[h].g)
    /\ Goto(h, "join.pending")
    /\ UNCHANGED tables

RequestJoinCheckPending(h) ==
    /\ At(h, "join.pending")
    /\ ~HasRow(joins, call[h].g, call[h].u, "pending")
    /\ Goto(h, "join.create")
    /\ UNCHANGED tables

RequestJoinCreate(h) ==
    /\ At(h, "join.create")
    /\ InsertPending(joins, h)
    /\ \E i \in JoinRequests :
        /\ joins[i] = FreeRow
        /\ joins' = [joins EXCEPT ![i] = NewRow(call[h].g, call[h].u)]
    /\ Goto(h, "join.notify")
    /\ UNCHANGED <<status, owner, role, invites>>

-----------------------------------------------------------------------------
(* approveJoinRequest *)

ApproveJoinRequest(h, a, i) ==
    /\ joins[i].st = "pending"
    /\ Start(h, OnRow("approve.role", a, joins, i))
    /\ UNCHANGED tables

ApproveCheckRole(h) ==
    /\ At(h, "approve.role")
    /\ AtLeastAdmin(call[h].actor, call[h].g)
    /\ Goto(h, "approve.member")
    /\ UNCHANGED tables

ApproveCheckMember(h) ==
    /\ At(h, "approve.member")
    /\ ~IsMember(call[h].u, call[h].g)
    /\ Goto(h, "approve.commit")
    /\ UNCHANGED tables

\* The transaction: groupMember.create needs the group and no membership,
\* groupJoinRequest.update does not look at the status it overwrites.
ApproveCommit(h) ==
    LET c == call[h] IN
    /\ At(h, "approve.commit")
    /\ status[c.g] = "live"
    /\ ~IsMember(c.u, c.g)
    /\ Updatable(joins, c.row, "accepted")
    /\ role' = [role EXCEPT ![c.g][c.u] = "member"]
    /\ joins' = SetStatus(joins, c.row, "accepted")
    /\ Goto(h, "approve.notify")
    /\ UNCHANGED <<status, owner, invites>>

(* rejectJoinRequest *)

RejectJoinRequest(h, a, i) ==
    /\ joins[i].st = "pending"
    /\ Start(h, OnRow("decline.role", a, joins, i))
    /\ UNCHANGED tables

RejectCheckRole(h) ==
    /\ At(h, "decline.role")
    /\ AtLeastAdmin(call[h].actor, call[h].g)
    /\ Goto(h, "decline.commit")
    /\ UNCHANGED tables

RejectCommit(h) ==
    LET c == call[h] IN
    /\ At(h, "decline.commit")
    /\ Updatable(joins, c.row, "rejected")
    /\ joins' = SetStatus(joins, c.row, "rejected")
    /\ Goto(h, "decline.notify")
    /\ UNCHANGED <<status, owner, role, invites>>

-----------------------------------------------------------------------------
(* acceptInvite: the upsert gives an existing member a new key and keeps    *)
(* the role.                                                                *)

AcceptInvite(h, a, i) ==
    /\ invites[i].st = "pending" /\ invites[i].u = a
    /\ Start(h, OnRow("accept.commit", a, invites, i))
    /\ UNCHANGED tables

UpsertsAdmin(old) == IF old = "none" THEN "admin" ELSE old
UpsertRole(old) == IF old = "none" THEN "member" ELSE old

AcceptCommit(h) ==
    LET c == call[h] IN
    /\ At(h, "accept.commit")
    /\ status[c.g] = "live"
    /\ Updatable(invites, c.row, "accepted")
    /\ role' = [role EXCEPT ![c.g][c.u] = UpsertRole(@)]
    /\ invites' = SetStatus(invites, c.row, "accepted")
    /\ Goto(h, "accept.notify")
    /\ UNCHANGED <<status, owner, joins>>

(* rejectInvite: nothing is emitted. *)

RejectInvite(h, a, i) ==
    /\ invites[i].st = "pending" /\ invites[i].u = a
    /\ Start(h, OnRow("refuse.commit", a, invites, i))
    /\ UNCHANGED tables

RefuseCommit(h) ==
    LET c == call[h] IN
    /\ At(h, "refuse.commit")
    /\ Updatable(invites, c.row, "rejected")
    /\ invites' = SetStatus(invites, c.row, "rejected")
    /\ Return(h)
    /\ UNCHANGED <<status, owner, role, joins>>

-----------------------------------------------------------------------------
(* updateMemberRole: the group.update that follows writes nothing and fails *)
(* when the group is gone, which Throw covers.                              *)

UpdateMemberRole(h, a, g, u, to) ==
    /\ owner[g] = a
    /\ Start(h, [pc |-> "role.target", actor |-> a, g |-> g, u |-> u, to |-> to])
    /\ UNCHANGED tables

RoleMayChange(r) == r \in {"admin", "member"}

UpdateRoleCheckTarget(h) ==
    /\ At(h, "role.target")
    /\ RoleMayChange(role[call[h].g][call[h].u])
    /\ Goto(h, "role.update")
    /\ UNCHANGED tables

UpdateRoleCommit(h) ==
    LET c == call[h] IN
    /\ At(h, "role.update")
    /\ IsMember(c.u, c.g)
    /\ role' = [role EXCEPT ![c.g][c.u] = c.to]
    /\ Goto(h, "role.notify")
    /\ UNCHANGED <<status, owner, invites, joins>>

-----------------------------------------------------------------------------
(* removeMember: two queries run concurrently and answer in either order.   *)

RemoveMember(h, a, g, u) ==
    /\ Start(h, [pc |-> "remove.read", actor |-> a, g |-> g, u |-> u,
                 actorRole |-> "unread", targetRole |-> "unread"])
    /\ UNCHANGED tables

RemoveReadActor(h) ==
    /\ At(h, "remove.read") /\ call[h].actorRole = "unread"
    /\ call' = [call EXCEPT ![h].actorRole = role[call[h].g][call[h].actor]]
    /\ UNCHANGED tables

RemoveReadTarget(h) ==
    /\ At(h, "remove.read") /\ call[h].targetRole = "unread"
    /\ call' = [call EXCEPT ![h].targetRole = role[call[h].g][call[h].u]]
    /\ UNCHANGED tables

MayRemoveAnyRole(actorRole, targetRole, self) ==
    /\ actorRole \in Roles
    /\ targetRole \in Roles
    /\ self \/ actorRole # "member"
MayRemove(actorRole, targetRole, self) ==
    /\ actorRole \in Roles
    /\ targetRole \in {"admin", "member"}
    /\ \/ self
       \/ actorRole = "owner"
       \/ actorRole = "admin" /\ targetRole = "member"

RemoveCheck(h) ==
    LET c == call[h] IN
    /\ At(h, "remove.read")
    /\ MayRemove(c.actorRole, c.targetRole, c.actor = c.u)
    /\ call' = [call EXCEPT ![h] = Plain("remove.delete", c.g, c.u)]
    /\ UNCHANGED tables

RemoveCommit(h) ==
    LET c == call[h] IN
    /\ At(h, "remove.delete")
    /\ IsMember(c.u, c.g)
    /\ role' = [role EXCEPT ![c.g][c.u] = "none"]
    /\ Goto(h, "remove.notify")
    /\ UNCHANGED <<status, owner, invites, joins>>

-----------------------------------------------------------------------------
(* deleteGroup: the members are told before the row is deleted. *)

DeleteGroup(h, a, g) ==
    /\ owner[g] = a
    /\ Start(h, Plain("delete.announce", g, a))
    /\ UNCHANGED tables

DeleteAnnounce(h) ==
    /\ At(h, "delete.announce")
    /\ Goto(h, "delete.commit")
    /\ UNCHANGED tables

DeleteCommit(h) ==
    LET g == call[h].g IN
    /\ At(h, "delete.commit")
    /\ status[g] = "live"
    /\ status' = [status EXCEPT ![g] = "deleted"]
    /\ owner' = [owner EXCEPT ![g] = NoUser]
    /\ role' = [role EXCEPT ![g] = [u \in Users |-> "none"]]
    /\ invites' = Cascade(invites, g)
    /\ joins' = Cascade(joins, g)
    /\ Return(h)

-----------------------------------------------------------------------------
Init ==
    /\ status = [g \in Groups |-> "unused"]
    /\ owner = [g \in Groups |-> NoUser]
    /\ role = [g \in Groups |-> [u \in Users |-> "none"]]
    /\ invites = [i \in Invites |-> FreeRow]
    /\ joins = [i \in JoinRequests |-> FreeRow]
    /\ call = [h \in Handlers |-> Idle]

\* A request arrives and its first query runs.
Arrive(h) ==
    \E a \in Users :
        \/ \E g \in Groups :
            \/ Create(h, a, g)
            \/ UpdateName(h, a, g)
            \/ RequestJoin(h, a, g)
            \/ DeleteGroup(h, a, g)
            \/ \E u \in Users :
                \/ Invite(h, a, g, u)
                \/ RemoveMember(h, a, g, u)
                \/ \E to \in {"admin", "member"} : UpdateMemberRole(h, a, g, u, to)
        \/ \E i \in Invites : AcceptInvite(h, a, i) \/ RejectInvite(h, a, i)
        \/ \E i \in JoinRequests : ApproveJoinRequest(h, a, i) \/ RejectJoinRequest(h, a, i)

\* A handler goes on, up to the point where its write is done.
Advance(h) ==
    \/ UpdateNameCommit(h)
    \/ InviteCheckMember(h) \/ InviteCheckPending(h) \/ InviteCreate(h)
    \/ RequestJoinCheckMember(h) \/ RequestJoinCheckPending(h) \/ RequestJoinCreate(h)
    \/ ApproveCheckRole(h) \/ ApproveCheckMember(h) \/ ApproveCommit(h)
    \/ RejectCheckRole(h) \/ RejectCommit(h)
    \/ AcceptCommit(h) \/ RefuseCommit(h)
    \/ UpdateRoleCheckTarget(h) \/ UpdateRoleCommit(h)
    \/ RemoveReadActor(h) \/ RemoveReadTarget(h) \/ RemoveCheck(h) \/ RemoveCommit(h)
    \/ DeleteAnnounce(h) \/ DeleteCommit(h)

Next ==
    \/ \E h \in Handlers : Arrive(h) \/ Advance(h) \/ Notify(h) \/ Throw(h)
    \/ Crash

Spec == Init /\ [][Next]_vars

-----------------------------------------------------------------------------
(* Properties. *)

\* Every variable has its type, and a group has an owner while it is live.
TypeOK ==
    /\ status \in [Groups -> {"unused", "live", "deleted"}]
    /\ owner \in [Groups -> Users \cup {NoUser}]
    /\ role \in [Groups -> [Users -> Roles \cup {"none"}]]
    /\ invites \in [Invites -> Row]
    /\ joins \in [JoinRequests -> Row]
    /\ call \in [Handlers -> Call]
    /\ \A g \in Groups : status[g] = "live" <=> owner[g] # NoUser

\* groups.owner_id and the role column never disagree: however role changes,
\* removals, departures and second invitations interleave between their
\* checks and their writes, the owner of a live group keeps the one
\* membership with role owner (the checks at 341 and 371 are made on an
\* earlier read than the write they protect).
OwnerIsMember ==
    \A g \in Groups : status[g] = "live" =>
        \A u \in Users : role[g][u] = "owner" <=> u = owner[g]

\* A deleted group leaves nothing behind: a handler that passed its checks
\* before deleteGroup cannot add a member or a row to it afterwards.
NothingOutlivesGroup ==
    \A g \in Groups : status[g] # "live" =>
        /\ \A u \in Users : role[g][u] = "none"
        /\ \A i \in Invites : Stored(invites, i) => invites[i].g # g
        /\ \A i \in JoinRequests : Stored(joins, i) => joins[i].g # g

\* invite and requestJoin look for a pending row and then insert one; two of
\* them may both find none, and still at most one row per user, group and
\* status is ever stored.
OneRowPerStatusIn(t) ==
    \A i, j \in DOMAIN t :
        i # j /\ Stored(t, i) /\ t[j].st = t[i].st => ~(t[i].g = t[j].g /\ t[i].u = t[j].u)
OneRowPerStatus == OneRowPerStatusIn(invites) /\ OneRowPerStatusIn(joins)

\* Nobody is in a group by accident: a member other than the owner has an
\* invitation or a join request that was answered, even after it was answered
\* twice, and after leaving and coming back.
Answered(t, g, u) == HasRow(t, g, u, "accepted") \/ HasRow(t, g, u, "rejected")
MembershipHasOrigin ==
    \A g \in Groups, u \in Users :
        role[g][u] \in {"admin", "member"} => Answered(invites, g, u) \/ Answered(joins, g, u)

\* The transactions of acceptInvite and approveJoinRequest are whole: who
\* enters a group has a row that is accepted from that step on, and a row
\* that turns accepted belongs to a member from that step on.
TurnsAccepted(t, i) == t[i].st # "accepted" /\ t'[i].st = "accepted"
Admitted(g, u) == role[g][u] = "none" /\ role'[g][u] \in {"admin", "member"}
AnswerAndAdmissionTogether ==
    [][ /\ \A g \in Groups, u \in Users : Admitted(g, u) =>
            HasRow(invites', g, u, "accepted") \/ HasRow(joins', g, u, "accepted")
        /\ \A i \in Invites : TurnsAccepted(invites, i) =>
            role'[invites'[i].g][invites'[i].u] # "none"
        /\ \A i \in JoinRequests : TurnsAccepted(joins, i) =>
            role'[joins'[i].g][joins'[i].u] # "none" ]_vars

\* GroupService implements Membership: whatever handlers overlap or fail, each
\* step of the tables is one whole change of one group's membership, or none.
\* Nobody but the owner is in a group without an answer, an owner is never
\* removed or given another role, and no late write reaches a deleted group.
Asked == {"pending", "accepted", "rejected"}
Settled == {"accepted", "rejected"}
PairsOf(t, S) == {<<t[i].g, t[i].u>> : i \in {j \in DOMAIN t : t[j].st \in S}}
PairsIn(S) == PairsOf(invites, S) \cup PairsOf(joins, S)

Promise == INSTANCE Membership WITH called <- PairsIn(Asked), answered <- PairsIn(Settled)
MembershipKept == Promise!Spec

(* Statements of the code and the clients that the interleavings refute. *)

\* acceptInvite refuses only an invitation that is not pending or not one's
\* own (groups.service.ts:276): a pending invitation can be accepted.
PendingInviteCanBeAccepted ==
    \A i \in Invites : invites[i].st = "pending" => Updatable(invites, i, "accepted")

=============================================================================

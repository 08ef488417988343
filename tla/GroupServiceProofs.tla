------------------------- MODULE GroupServiceProofs -------------------------
(***************************************************************************)
(* Proofs about GroupService, for any sets of users, groups, rows and      *)
(* handlers.                                                               *)
(***************************************************************************)
EXTENDS GroupService, TLAPS

-----------------------------------------------------------------------------
(* What the shorthands for handlers do to the types. *)

LEMMA IdleIsCall == Idle \in Call
BY DEF Idle, Call

LEMMA PointsOfCall ==
    ASSUME NEW c \in Call
    PROVE  /\ c.pc \in PlainPoints =>
                c \in [pc : PlainPoints, g : Groups, u : Users]
           /\ c.pc \in InvitePoints =>
                c \in [pc : InvitePoints, actor : Users, g : Groups, u : Users, row : Invites]
           /\ c.pc \in JoinPoints =>
                c \in [pc : JoinPoints, actor : Users, g : Groups, u : Users, row : JoinRequests]
           /\ c.pc \in RolePoints =>
                c \in [pc : RolePoints, actor : Users, g : Groups, u : Users,
                       to : {"admin", "member"}]
           /\ c.pc = "remove.read" =>
                c \in [pc : {"remove.read"}, actor : Users, g : Groups, u : Users,
                       actorRole : ReadRole, targetRole : ReadRole]
BY DEF Call, Idle, PlainPoints, InvitePoints, JoinPoints, RolePoints

LEMMA ReturnIsCall ==
    ASSUME call \in [Handlers -> Call], NEW h \in Handlers, Return(h)
    PROVE  call' \in [Handlers -> Call]
BY IdleIsCall DEF Return

LEMMA GotoIsCall ==
    ASSUME call \in [Handlers -> Call], NEW h \in Handlers, NEW pc, Goto(h, pc),
           \/ call[h].pc \in PlainPoints /\ pc \in PlainPoints
           \/ call[h].pc \in InvitePoints /\ pc \in InvitePoints
           \/ call[h].pc \in JoinPoints /\ pc \in JoinPoints
           \/ call[h].pc \in RolePoints /\ pc \in RolePoints
    PROVE  call' \in [Handlers -> Call]
<1> DEFINE c == [call[h] EXCEPT !.pc = pc]
<1>1. c \in Call
    BY PointsOfCall DEF Call
<1>2. call' = [call EXCEPT ![h] = c]
    BY DEF Goto
<1> QED BY <1>1, <1>2

LEMMA StartIsCall ==
    ASSUME call \in [Handlers -> Call], NEW h \in Handlers, NEW c \in Call, Start(h, c)
    PROVE  call' \in [Handlers -> Call]
BY DEF Start

LEMMA PlainIsCall ==
    ASSUME NEW pc \in PlainPoints, NEW g \in Groups, NEW u \in Users
    PROVE  Plain(pc, g, u) \in Call
BY DEF Plain, Call

LEMMA OnInviteIsCall ==
    ASSUME TypeOK, NEW pc \in InvitePoints, NEW a \in Users, NEW i \in Invites, Stored(invites, i)
    PROVE  OnRow(pc, a, invites, i) \in Call
BY DEF TypeOK, Row, FreeRow, Stored, OnRow, Call

LEMMA OnJoinIsCall ==
    ASSUME TypeOK, NEW pc \in JoinPoints, NEW a \in Users, NEW i \in JoinRequests, Stored(joins, i)
    PROVE  OnRow(pc, a, joins, i) \in Call
BY DEF TypeOK, Row, FreeRow, Stored, OnRow, Call

-----------------------------------------------------------------------------
(* Every variable keeps its type. *)

LEMMA InitTypeOK == Init => TypeOK
BY NoUserAssumption, IdleIsCall DEF Init, TypeOK, Row

\* The first query of a request changes a table only in create.
LEMMA ArriveTypeOK ==
    ASSUME TypeOK, NEW h \in Handlers, Arrive(h)
    PROVE  TypeOK'
<1> USE DEF TypeOK
<1>1. ASSUME NEW a \in Users, NEW g \in Groups, Create(h, a, g) PROVE TypeOK'
    <2>1. call' \in [Handlers -> Call]
        BY <1>1, PlainIsCall, StartIsCall DEF Create, PlainPoints
    <2> QED BY <1>1, <2>1, NoUserAssumption DEF Create, Roles
<1>2. ASSUME UNCHANGED tables, call' \in [Handlers -> Call] PROVE TypeOK'
    BY <1>2 DEF tables
<1>3. ASSUME NEW a \in Users, NEW g \in Groups,
             UpdateName(h, a, g) \/ RequestJoin(h, a, g) \/ DeleteGroup(h, a, g)
      PROVE  TypeOK'
    BY <1>2, <1>3, PlainIsCall, StartIsCall
       DEF UpdateName, RequestJoin, DeleteGroup, PlainPoints
<1>4. ASSUME NEW a \in Users, NEW g \in Groups, NEW u \in Users, Invite(h, a, g, u)
      PROVE  TypeOK'
    BY <1>2, <1>4, PlainIsCall, StartIsCall DEF Invite, PlainPoints
<1>5. ASSUME NEW a \in Users, NEW g \in Groups, NEW u \in Users, RemoveMember(h, a, g, u)
      PROVE  TypeOK'
    BY <1>2, <1>5, StartIsCall DEF RemoveMember, Call, ReadRole
<1>6. ASSUME NEW a \in Users, NEW g \in Groups, NEW u \in Users,
             NEW to \in {"admin", "member"}, UpdateMemberRole(h, a, g, u, to)
      PROVE  TypeOK'
    BY <1>2, <1>6, StartIsCall DEF UpdateMemberRole, Call, RolePoints
<1>7. ASSUME NEW a \in Users, NEW i \in Invites, AcceptInvite(h, a, i) \/ RejectInvite(h, a, i)
      PROVE  TypeOK'
    BY <1>2, <1>7, OnInviteIsCall, StartIsCall
       DEF AcceptInvite, RejectInvite, InvitePoints, Stored
<1>8. ASSUME NEW a \in Users, NEW i \in JoinRequests,
             ApproveJoinRequest(h, a, i) \/ RejectJoinRequest(h, a, i)
      PROVE  TypeOK'
    BY <1>2, <1>8, OnJoinIsCall, StartIsCall
       DEF ApproveJoinRequest, RejectJoinRequest, JoinPoints, Stored
<1> QED BY <1>1, <1>3, <1>4, <1>5, <1>6, <1>7, <1>8 DEF Arrive

\* A handler at a point has the local values of that point.
LEMMA PlainLocals ==
    ASSUME TypeOK, NEW h \in Handlers, call[h].pc \in PlainPoints
    PROVE  call[h].g \in Groups /\ call[h].u \in Users
BY PointsOfCall DEF TypeOK

LEMMA InviteLocals ==
    ASSUME TypeOK, NEW h \in Handlers, call[h].pc \in InvitePoints
    PROVE  /\ call[h].actor \in Users /\ call[h].g \in Groups /\ call[h].u \in Users
           /\ call[h].row \in Invites
BY PointsOfCall DEF TypeOK

LEMMA JoinLocals ==
    ASSUME TypeOK, NEW h \in Handlers, call[h].pc \in JoinPoints
    PROVE  /\ call[h].actor \in Users /\ call[h].g \in Groups /\ call[h].u \in Users
           /\ call[h].row \in JoinRequests
BY PointsOfCall DEF TypeOK

LEMMA RoleLocals ==
    ASSUME TypeOK, NEW h \in Handlers, call[h].pc \in RolePoints
    PROVE  /\ call[h].actor \in Users /\ call[h].g \in Groups /\ call[h].u \in Users
           /\ call[h].to \in {"admin", "member"}
BY PointsOfCall DEF TypeOK

LEMMA RemoveLocals ==
    ASSUME TypeOK, NEW h \in Handlers, call[h].pc = "remove.read"
    PROVE  /\ call[h].actor \in Users /\ call[h].g \in Groups /\ call[h].u \in Users
           /\ call[h].actorRole \in ReadRole /\ call[h].targetRole \in ReadRole
BY PointsOfCall DEF TypeOK

\* An update of a stored row gives a row.
LEMMA SetStatusIsRow ==
    ASSUME NEW I, NEW t \in [I -> Row], NEW i \in I, Stored(t, i),
           NEW st \in {"accepted", "rejected"}
    PROVE  SetStatus(t, i, st) \in [I -> Row]
BY DEF Row, FreeRow, Stored, SetStatus

LEMMA CascadeIsRow ==
    ASSUME NEW I, NEW t \in [I -> Row], NEW g \in Groups
    PROVE  Cascade(t, g) \in [I -> Row]
BY DEF Row, FreeRow, Stored, Cascade

\* Steps that only move a handler on.
CheckStep(h) ==
    \/ UpdateNameCommit(h)
    \/ InviteCheckMember(h) \/ InviteCheckPending(h)
    \/ RequestJoinCheckMember(h) \/ RequestJoinCheckPending(h)
    \/ ApproveCheckRole(h) \/ ApproveCheckMember(h) \/ RejectCheckRole(h)
    \/ UpdateRoleCheckTarget(h)
    \/ RemoveReadActor(h) \/ RemoveReadTarget(h) \/ RemoveCheck(h)
    \/ DeleteAnnounce(h)

\* Steps that write to a table.
WriteStep(h) ==
    \/ InviteCreate(h) \/ RequestJoinCreate(h)
    \/ ApproveCommit(h) \/ RejectCommit(h) \/ AcceptCommit(h) \/ RefuseCommit(h)
    \/ UpdateRoleCommit(h) \/ RemoveCommit(h) \/ DeleteCommit(h)

LEMMA AdvanceSteps == \A h : Advance(h) <=> CheckStep(h) \/ WriteStep(h)
BY DEF Advance, CheckStep, WriteStep

LEMMA CheckTables == ASSUME NEW h, CheckStep(h) PROVE UNCHANGED tables
BY DEF CheckStep, UpdateNameCommit, InviteCheckMember, InviteCheckPending,
       RequestJoinCheckMember, RequestJoinCheckPending, ApproveCheckRole,
       ApproveCheckMember, RejectCheckRole, UpdateRoleCheckTarget, RemoveReadActor,
       RemoveReadTarget, RemoveCheck, DeleteAnnounce

LEMMA CheckTypeOK ==
    ASSUME TypeOK, NEW h \in Handlers, CheckStep(h)
    PROVE  TypeOK'
<1> USE DEF TypeOK
<1>1. SUFFICES call' \in [Handlers -> Call]
    BY CheckTables DEF tables
<1>2. CASE UpdateNameCommit(h) \/ InviteCheckMember(h) \/ InviteCheckPending(h)
           \/ RequestJoinCheckMember(h) \/ RequestJoinCheckPending(h) \/ DeleteAnnounce(h)
    BY <1>2, GotoIsCall DEF UpdateNameCommit, InviteCheckMember, InviteCheckPending,
       RequestJoinCheckMember, RequestJoinCheckPending, DeleteAnnounce, At, PlainPoints
<1>3. CASE ApproveCheckRole(h) \/ ApproveCheckMember(h) \/ RejectCheckRole(h)
    BY <1>3, GotoIsCall DEF ApproveCheckRole, ApproveCheckMember, RejectCheckRole, At, JoinPoints
<1>4. CASE UpdateRoleCheckTarget(h)
    BY <1>4, GotoIsCall DEF UpdateRoleCheckTarget, At, RolePoints
<1>5. CASE RemoveReadActor(h)
    <2>1. role[call[h].g][call[h].actor] \in ReadRole
        BY <1>5, RemoveLocals DEF RemoveReadActor, At, ReadRole
    <2>2. [call[h] EXCEPT !.actorRole = role[call[h].g][call[h].actor]] \in Call
        BY <1>5, <2>1, PointsOfCall DEF RemoveReadActor, At, Call
    <2> QED BY <1>5, <2>2 DEF RemoveReadActor
<1>6. CASE RemoveReadTarget(h)
    <2>1. role[call[h].g][call[h].u] \in ReadRole
        BY <1>6, RemoveLocals DEF RemoveReadTarget, At, ReadRole
    <2>2. [call[h] EXCEPT !.targetRole = role[call[h].g][call[h].u]] \in Call
        BY <1>6, <2>1, PointsOfCall DEF RemoveReadTarget, At, Call
    <2> QED BY <1>6, <2>2 DEF RemoveReadTarget
<1>7. CASE RemoveCheck(h)
    <2>1. Plain("remove.delete", call[h].g, call[h].u) \in Call
        BY <1>7, RemoveLocals, PlainIsCall DEF RemoveCheck, At, PlainPoints
    <2> QED BY <1>7, <2>1 DEF RemoveCheck
<1> QED BY <1>2, <1>3, <1>4, <1>5, <1>6, <1>7 DEF CheckStep

LEMMA WriteTypeOK ==
    ASSUME TypeOK, NEW h \in Handlers, WriteStep(h)
    PROVE  TypeOK'
<1> USE DEF TypeOK
<1>1. CASE InviteCreate(h)
    <2>1. call' \in [Handlers -> Call]
        BY <1>1, GotoIsCall DEF InviteCreate, At, PlainPoints
    <2>2. NewRow(call[h].g, call[h].u) \in Row
        BY <1>1, PlainLocals DEF InviteCreate, At, PlainPoints, NewRow, Row
    <2> QED BY <1>1, <2>1, <2>2 DEF InviteCreate
<1>2. CASE RequestJoinCreate(h)
    <2>1. call' \in [Handlers -> Call]
        BY <1>2, GotoIsCall DEF RequestJoinCreate, At, PlainPoints
    <2>2. NewRow(call[h].g, call[h].u) \in Row
        BY <1>2, PlainLocals DEF RequestJoinCreate, At, PlainPoints, NewRow, Row
    <2> QED BY <1>2, <2>1, <2>2 DEF RequestJoinCreate
<1>3. CASE ApproveCommit(h)
    <2>1. call' \in [Handlers -> Call]
        BY <1>3, GotoIsCall DEF ApproveCommit, At, JoinPoints
    <2>2. call[h].g \in Groups /\ call[h].u \in Users /\ call[h].row \in JoinRequests
        BY <1>3, JoinLocals DEF ApproveCommit, At, JoinPoints
    <2>3. SetStatus(joins, call[h].row, "accepted") \in [JoinRequests -> Row]
        BY <1>3, <2>2, SetStatusIsRow DEF ApproveCommit, Updatable
    <2> QED BY <1>3, <2>1, <2>2, <2>3 DEF ApproveCommit, Roles
<1>4. CASE RejectCommit(h)
    <2>1. call' \in [Handlers -> Call]
        BY <1>4, GotoIsCall DEF RejectCommit, At, JoinPoints
    <2>2. call[h].row \in JoinRequests
        BY <1>4, JoinLocals DEF RejectCommit, At, JoinPoints
    <2>3. SetStatus(joins, call[h].row, "rejected") \in [JoinRequests -> Row]
        BY <1>4, <2>2, SetStatusIsRow DEF RejectCommit, Updatable
    <2> QED BY <1>4, <2>1, <2>3 DEF RejectCommit
<1>5. CASE AcceptCommit(h)
    <2>1. call' \in [Handlers -> Call]
        BY <1>5, GotoIsCall DEF AcceptCommit, At, InvitePoints
    <2>2. call[h].g \in Groups /\ call[h].u \in Users /\ call[h].row \in Invites
        BY <1>5, InviteLocals DEF AcceptCommit, At, InvitePoints
    <2>3. SetStatus(invites, call[h].row, "accepted") \in [Invites -> Row]
        BY <1>5, <2>2, SetStatusIsRow DEF AcceptCommit, Updatable
    <2> QED BY <1>5, <2>1, <2>2, <2>3 DEF AcceptCommit, UpsertRole, Roles
<1>6. CASE RefuseCommit(h)
    <2>1. call' \in [Handlers -> Call]
        BY <1>6, ReturnIsCall DEF RefuseCommit
    <2>2. call[h].row \in Invites
        BY <1>6, InviteLocals DEF RefuseCommit, At, InvitePoints
    <2>3. SetStatus(invites, call[h].row, "rejected") \in [Invites -> Row]
        BY <1>6, <2>2, SetStatusIsRow DEF RefuseCommit, Updatable
    <2> QED BY <1>6, <2>1, <2>3 DEF RefuseCommit
<1>7. CASE UpdateRoleCommit(h)
    <2>1. call' \in [Handlers -> Call]
        BY <1>7, GotoIsCall DEF UpdateRoleCommit, At, RolePoints
    <2>2. call[h].g \in Groups /\ call[h].u \in Users /\ call[h].to \in {"admin", "member"}
        BY <1>7, RoleLocals DEF UpdateRoleCommit, At, RolePoints
    <2> QED BY <1>7, <2>1, <2>2 DEF UpdateRoleCommit, Roles
<1>8. CASE RemoveCommit(h)
    <2>1. call' \in [Handlers -> Call]
        BY <1>8, GotoIsCall DEF RemoveCommit, At, PlainPoints
    <2>2. call[h].g \in Groups /\ call[h].u \in Users
        BY <1>8, PlainLocals DEF RemoveCommit, At, PlainPoints
    <2> QED BY <1>8, <2>1, <2>2 DEF RemoveCommit
<1>9. CASE DeleteCommit(h)
    <2>1. call' \in [Handlers -> Call]
        BY <1>9, ReturnIsCall DEF DeleteCommit
    <2>2. call[h].g \in Groups
        BY <1>9, PlainLocals DEF DeleteCommit, At, PlainPoints
    <2>3. invites' \in [Invites -> Row] /\ joins' \in [JoinRequests -> Row]
        BY <1>9, <2>2, CascadeIsRow DEF DeleteCommit
    <2> QED BY <1>9, <2>1, <2>2, <2>3 DEF DeleteCommit
<1> QED BY <1>1, <1>2, <1>3, <1>4, <1>5, <1>6, <1>7, <1>8, <1>9 DEF WriteStep

LEMMA NextTypeOK == TypeOK /\ [Next]_vars => TypeOK'
<1> SUFFICES ASSUME TypeOK, [Next]_vars PROVE TypeOK'
    OBVIOUS
<1>1. ASSUME NEW h \in Handlers, Notify(h) \/ Throw(h) PROVE TypeOK'
    BY <1>1, ReturnIsCall DEF Notify, Throw, TypeOK, tables
<1>2. CASE Crash
    BY <1>2, IdleIsCall DEF Crash, TypeOK, tables
<1>3. CASE UNCHANGED vars
    BY <1>3 DEF vars, TypeOK
<1> QED BY <1>1, <1>2, <1>3, ArriveTypeOK, CheckTypeOK, WriteTypeOK, AdvanceSteps DEF Next

\* Every reachable state of the group tables and handlers is well typed.
THEOREM TypeCorrect == Spec => []TypeOK
BY InitTypeOK, NextTypeOK, PTL DEF Spec

-----------------------------------------------------------------------------
(* The owner of a live group keeps its one membership with role owner.      *)
(* OwnerIsMember is not inductive: a handler between its check of the       *)
(* target's role and its write relies on a row it read earlier.  What stays *)
(* true of that target is that it is not, and can no longer become, the     *)
(* owner: owner_id is written by create alone.                              *)

NeverOwner(g, u) == status[g] # "unused" /\ owner[g] # u

RolesMatchOwners ==
    \A g \in Groups, u \in Users :
        /\ role[g][u] = "owner" <=> (status[g] = "live" /\ owner[g] = u)
        /\ role[g][u] # "none" => status[g] = "live"

TargetsAreNotOwners ==
    \A h \in Handlers :
        /\ call[h].pc \in {"role.update", "remove.delete"} => NeverOwner(call[h].g, call[h].u)
        /\ call[h].pc = "remove.read" /\ call[h].targetRole \in {"admin", "member"} =>
                NeverOwner(call[h].g, call[h].u)

OwnerInv == TypeOK /\ RolesMatchOwners /\ TargetsAreNotOwners

LEMMA InitOwnerInv == Init => OwnerInv
BY InitTypeOK, NoUserAssumption DEF Init, OwnerInv, RolesMatchOwners, TargetsAreNotOwners, Idle

LEMMA RestrictedRoles ==
    ASSUME OwnerInv, NEW g \in Groups, NEW u \in Users, role[g][u] \in {"admin", "member"}
    PROVE  NeverOwner(g, u)
BY DEF OwnerInv, RolesMatchOwners, NeverOwner

\* Where no table changes, only a handler that passes a check on its target
\* needs an argument.
LEMMA SameTablesOwnerInv ==
    ASSUME OwnerInv, TypeOK', UNCHANGED tables, TargetsAreNotOwners'
    PROVE  OwnerInv'
BY DEF OwnerInv, RolesMatchOwners, tables

LEMMA ArriveOwnerInv ==
    ASSUME OwnerInv, NEW h \in Handlers, Arrive(h)
    PROVE  OwnerInv'
<1>1. TypeOK'
    BY ArriveTypeOK DEF OwnerInv
<1>2. ASSUME NEW a \in Users, NEW g \in Groups, Create(h, a, g) PROVE OwnerInv'
    <2>1. \A x \in Groups, v \in Users : NeverOwner(x, v) => NeverOwner(x, v)'
        BY <1>2 DEF Create, NeverOwner, OwnerInv, TypeOK
    <2>2. TargetsAreNotOwners'
        BY <1>2, <2>1, PlainLocals, RoleLocals, RemoveLocals
           DEF Create, Start, Plain, OwnerInv, TypeOK, TargetsAreNotOwners, PlainPoints, RolePoints
    <2>3. RolesMatchOwners'
        BY <1>2, NoUserAssumption DEF Create, OwnerInv, TypeOK, RolesMatchOwners
    <2> QED BY <1>1, <2>2, <2>3 DEF OwnerInv
<1>3. ASSUME UNCHANGED tables, NEW c, Start(h, c),
             c.pc \notin {"role.update", "remove.delete"},
             c.pc = "remove.read" => c.targetRole = "unread"
      PROVE  OwnerInv'
    <2>1. TargetsAreNotOwners'
        BY <1>3 DEF Start, tables, OwnerInv, TypeOK, TargetsAreNotOwners, NeverOwner
    <2> QED BY <1>1, <1>3, <2>1, SameTablesOwnerInv
<1>4. ASSUME NEW a \in Users, NEW g \in Groups,
             UpdateName(h, a, g) \/ RequestJoin(h, a, g) \/ DeleteGroup(h, a, g)
      PROVE  OwnerInv'
    BY <1>3, <1>4 DEF UpdateName, RequestJoin, DeleteGroup, Plain
<1>5. ASSUME NEW a \in Users, NEW g \in Groups, NEW u \in Users,
             Invite(h, a, g, u) \/ RemoveMember(h, a, g, u)
      PROVE  OwnerInv'
    BY <1>3, <1>5 DEF Invite, RemoveMember, Plain
<1>6. ASSUME NEW a \in Users, NEW g \in Groups, NEW u \in Users,
             NEW to \in {"admin", "member"}, UpdateMemberRole(h, a, g, u, to)
      PROVE  OwnerInv'
    BY <1>3, <1>6 DEF UpdateMemberRole
<1>7. ASSUME NEW a \in Users, NEW i \in Invites, AcceptInvite(h, a, i) \/ RejectInvite(h, a, i)
      PROVE  OwnerInv'
    BY <1>3, <1>7 DEF AcceptInvite, RejectInvite, OnRow
<1>8. ASSUME NEW a \in Users, NEW i \in JoinRequests,
             ApproveJoinRequest(h, a, i) \/ RejectJoinRequest(h, a, i)
      PROVE  OwnerInv'
    BY <1>3, <1>8 DEF ApproveJoinRequest, RejectJoinRequest, OnRow
<1> QED BY <1>2, <1>4, <1>5, <1>6, <1>7, <1>8 DEF Arrive

LEMMA CheckOwnerInv ==
    ASSUME OwnerInv, NEW h \in Handlers, CheckStep(h)
    PROVE  OwnerInv'
<1>1. TypeOK' /\ UNCHANGED tables
    BY CheckTypeOK, CheckTables DEF OwnerInv
<1> SUFFICES TargetsAreNotOwners'
    BY <1>1, SameTablesOwnerInv
<1> USE DEF OwnerInv, TypeOK, TargetsAreNotOwners
<1>2. \A x \in Groups, v \in Users : NeverOwner(x, v)' <=> NeverOwner(x, v)
    BY <1>1 DEF tables, NeverOwner
<1>3. ASSUME NEW pc, Goto(h, pc), pc \notin {"role.update", "remove.delete", "remove.read"}
      PROVE  TargetsAreNotOwners'
    BY <1>1, <1>3 DEF Goto, tables, NeverOwner
<1>4. CASE UpdateNameCommit(h) \/ InviteCheckMember(h) \/ InviteCheckPending(h)
           \/ RequestJoinCheckMember(h) \/ RequestJoinCheckPending(h) \/ DeleteAnnounce(h)
    BY <1>3, <1>4 DEF UpdateNameCommit, InviteCheckMember, InviteCheckPending,
       RequestJoinCheckMember, RequestJoinCheckPending, DeleteAnnounce
<1>5. CASE ApproveCheckRole(h) \/ ApproveCheckMember(h) \/ RejectCheckRole(h)
    BY <1>3, <1>5 DEF ApproveCheckRole, ApproveCheckMember, RejectCheckRole
<1>6. CASE UpdateRoleCheckTarget(h)
    <2>1. NeverOwner(call[h].g, call[h].u)
        BY <1>6, RoleLocals, RestrictedRoles
           DEF UpdateRoleCheckTarget, At, RolePoints, RoleMayChange
    <2> QED BY <1>1, <1>6, <2>1 DEF UpdateRoleCheckTarget, Goto, tables, NeverOwner
<1>7. CASE RemoveReadActor(h)
    BY <1>1, <1>7 DEF RemoveReadActor, At, tables, NeverOwner
<1>8. CASE RemoveReadTarget(h)
    <2>1. role[call[h].g][call[h].u] \in {"admin", "member"} => NeverOwner(call[h].g, call[h].u)
        BY <1>8, RemoveLocals, RestrictedRoles DEF RemoveReadTarget, At
    <2> QED BY <1>1, <1>8, <2>1 DEF RemoveReadTarget, At, tables, NeverOwner
<1>9. CASE RemoveCheck(h)
    <2>1. NeverOwner(call[h].g, call[h].u)
        BY <1>9 DEF RemoveCheck, At, MayRemove
    <2> QED BY <1>1, <1>9, <2>1 DEF RemoveCheck, Plain, tables, NeverOwner
<1> QED BY <1>4, <1>5, <1>6, <1>7, <1>8, <1>9 DEF CheckStep

LEMMA WriteOwnerInv ==
    ASSUME OwnerInv, NEW h \in Handlers, WriteStep(h)
    PROVE  OwnerInv'
<1>1. TypeOK'
    BY WriteTypeOK DEF OwnerInv
<1> SUFFICES RolesMatchOwners' /\ TargetsAreNotOwners'
    BY <1>1 DEF OwnerInv
<1> USE DEF OwnerInv, TypeOK
\* The handler moves on to a point without obligations.
<1>2. ASSUME UNCHANGED <<status, owner>>, NEW pc,
             Goto(h, pc), pc \notin {"role.update", "remove.delete", "remove.read"}
      PROVE  TargetsAreNotOwners'
    BY <1>2 DEF Goto, TargetsAreNotOwners, NeverOwner
<1>3. CASE InviteCreate(h) \/ RequestJoinCreate(h) \/ RejectCommit(h)
    BY <1>2, <1>3 DEF InviteCreate, RequestJoinCreate, RejectCommit, RolesMatchOwners
<1>4. CASE RefuseCommit(h)
    <2>1. TargetsAreNotOwners'
        BY <1>4 DEF RefuseCommit, Return, Idle, TargetsAreNotOwners, NeverOwner
    <2> QED BY <1>4, <2>1 DEF RefuseCommit, RolesMatchOwners
<1>5. CASE ApproveCommit(h)
    <2>1. call[h].g \in Groups /\ call[h].u \in Users
        BY <1>5, JoinLocals DEF ApproveCommit, At, JoinPoints
    <2>2. RolesMatchOwners'
        BY <1>5, <2>1 DEF ApproveCommit, IsMember, RolesMatchOwners
    <2> QED BY <1>2, <1>5, <2>2 DEF ApproveCommit
<1>6. CASE AcceptCommit(h)
    <2>1. call[h].g \in Groups /\ call[h].u \in Users
        BY <1>6, InviteLocals DEF AcceptCommit, At, InvitePoints
    <2>2. RolesMatchOwners'
        BY <1>6, <2>1 DEF AcceptCommit, UpsertRole, RolesMatchOwners
    <2> QED BY <1>2, <1>6, <2>2 DEF AcceptCommit
<1>7. CASE UpdateRoleCommit(h)
    <2>1. call[h].g \in Groups /\ call[h].u \in Users /\ call[h].to \in {"admin", "member"}
        BY <1>7, RoleLocals DEF UpdateRoleCommit, At, RolePoints
    <2>2. NeverOwner(call[h].g, call[h].u)
        BY <1>7 DEF UpdateRoleCommit, At, TargetsAreNotOwners
    <2>3. RolesMatchOwners'
        BY <1>7, <2>1, <2>2 DEF UpdateRoleCommit, IsMember, NeverOwner, RolesMatchOwners
    <2> QED BY <1>2, <1>7, <2>3 DEF UpdateRoleCommit
<1>8. CASE RemoveCommit(h)
    <2>1. call[h].g \in Groups /\ call[h].u \in Users
        BY <1>8, PlainLocals DEF RemoveCommit, At, PlainPoints
    <2>2. NeverOwner(call[h].g, call[h].u)
        BY <1>8 DEF RemoveCommit, At, TargetsAreNotOwners
    <2>3. RolesMatchOwners'
        BY <1>8, <2>1, <2>2 DEF RemoveCommit, NeverOwner, RolesMatchOwners
    <2> QED BY <1>2, <1>8, <2>3 DEF RemoveCommit
<1>9. CASE DeleteCommit(h)
    <2>1. call[h].g \in Groups
        BY <1>9, PlainLocals DEF DeleteCommit, At, PlainPoints
    <2>2. \A x \in Groups, v \in Users : NeverOwner(x, v) => NeverOwner(x, v)'
        BY <1>9, <2>1, NoUserAssumption DEF DeleteCommit, NeverOwner
    <2>3. TargetsAreNotOwners'
        BY <1>9, <2>2, PlainLocals, RoleLocals, RemoveLocals
           DEF DeleteCommit, Return, Idle, TargetsAreNotOwners, PlainPoints, RolePoints
    <2>4. RolesMatchOwners'
        BY <1>9, <2>1, NoUserAssumption DEF DeleteCommit, RolesMatchOwners
    <2> QED BY <2>3, <2>4
<1> QED BY <1>3, <1>4, <1>5, <1>6, <1>7, <1>8, <1>9 DEF WriteStep

LEMMA NextOwnerInv == OwnerInv /\ [Next]_vars => OwnerInv'
<1> SUFFICES ASSUME OwnerInv, [Next]_vars PROVE OwnerInv'
    OBVIOUS
<1>1. TypeOK'
    BY NextTypeOK DEF OwnerInv
<1> USE DEF OwnerInv, TypeOK, TargetsAreNotOwners, NeverOwner, tables
<1>2. ASSUME NEW h \in Handlers, Notify(h) PROVE OwnerInv'
    BY <1>1, <1>2, SameTablesOwnerInv DEF Notify, Return, Idle
<1>3. ASSUME NEW h \in Handlers, Throw(h) PROVE OwnerInv'
    BY <1>1, <1>3, SameTablesOwnerInv DEF Throw, Return, Idle
<1>4. CASE Crash
    BY <1>1, <1>4, SameTablesOwnerInv DEF Crash, Idle
<1>5. CASE UNCHANGED vars
    BY <1>1, <1>5, SameTablesOwnerInv DEF vars
<1> QED BY <1>2, <1>3, <1>4, <1>5, ArriveOwnerInv, CheckOwnerInv, WriteOwnerInv, AdvanceSteps
        DEF Next

\* No interleaving of the handlers takes the owner's membership away, demotes
\* it, or makes a second owner.
THEOREM OwnerStaysMember == Spec => []OwnerIsMember
<1>1. OwnerInv => OwnerIsMember
    BY DEF OwnerInv, RolesMatchOwners, OwnerIsMember
<1> QED BY <1>1, InitOwnerInv, NextOwnerInv, PTL DEF Spec

-----------------------------------------------------------------------------
(* The rows.  First what an insert, an update and a cascade do to one table. *)

\* The table after NewRow(g, u) is stored as row i.
Inserted(t, i, g, u) == [t EXCEPT ![i] = NewRow(g, u)]

LEMMA InsertFacts ==
    ASSUME NEW I, NEW t \in [I -> Row], NEW i \in I, t[i] = FreeRow,
           NEW g \in Groups, NEW u \in Users
    PROVE  /\ OneRowPerStatusIn(t) /\ ~HasRow(t, g, u, "pending") =>
                OneRowPerStatusIn(Inserted(t, i, g, u))
           /\ \A x, v : Answered(t, x, v) => Answered(Inserted(t, i, g, u), x, v)
           /\ \A j \in I : t[j] # FreeRow => Inserted(t, i, g, u)[j] = t[j]
           /\ \A j \in I : Stored(Inserted(t, i, g, u), j) =>
                \/ Stored(t, j) /\ Inserted(t, i, g, u)[j] = t[j]
                \/ Inserted(t, i, g, u)[j].g = g
<1> DEFINE n == Inserted(t, i, g, u)
<1>1. n[i] = NewRow(g, u) /\ DOMAIN n = I /\ \A j \in I \ {i} : n[j] = t[j]
    BY DEF Inserted
<1>2. ASSUME OneRowPerStatusIn(t), ~HasRow(t, g, u, "pending") PROVE OneRowPerStatusIn(n)
    BY <1>1, <1>2 DEF OneRowPerStatusIn, HasRow, NewRow, Stored
<1>3. ASSUME NEW x, NEW v, Answered(t, x, v) PROVE Answered(n, x, v)
    BY <1>1, <1>3 DEF Answered, HasRow, FreeRow
<1>4. \A j \in I : Stored(n, j) => (Stored(t, j) /\ n[j] = t[j]) \/ n[j].g = g
    BY <1>1 DEF Stored, NewRow
<1> QED BY <1>1, <1>2, <1>3, <1>4

LEMMA SetStatusFacts ==
    ASSUME NEW I, NEW t \in [I -> Row], NEW i \in I, NEW st \in {"accepted", "rejected"},
           Updatable(t, i, st)
    PROVE  /\ OneRowPerStatusIn(t) => OneRowPerStatusIn(SetStatus(t, i, st))
           /\ \A x, v : Answered(t, x, v) => Answered(SetStatus(t, i, st), x, v)
           /\ HasRow(SetStatus(t, i, st), t[i].g, t[i].u, st)
           /\ \A j \in I : t[j] # FreeRow =>
                /\ SetStatus(t, i, st)[j] # FreeRow
                /\ SetStatus(t, i, st)[j].g = t[j].g
                /\ SetStatus(t, i, st)[j].u = t[j].u
           /\ \A j \in I : Stored(SetStatus(t, i, st), j) =>
                Stored(t, j) /\ SetStatus(t, i, st)[j].g = t[j].g
<1> DEFINE n == SetStatus(t, i, st)
<1>1. /\ DOMAIN n = I /\ DOMAIN t = I
      /\ \A j \in I \ {i} : n[j] = t[j]
      /\ n[i].st = st /\ n[i].g = t[i].g /\ n[i].u = t[i].u
      /\ Stored(t, i)
    BY DEF SetStatus, Updatable, Row, FreeRow, Stored
<1>2. ASSUME OneRowPerStatusIn(t) PROVE OneRowPerStatusIn(n)
    BY <1>1, <1>2 DEF OneRowPerStatusIn, Stored, Updatable
<1>3. ASSUME NEW x, NEW v, Answered(t, x, v) PROVE Answered(n, x, v)
    BY <1>1, <1>3 DEF Answered, HasRow
<1>4. HasRow(n, t[i].g, t[i].u, st)
    BY <1>1 DEF HasRow
<1>5. n[i] # FreeRow
    BY <1>1 DEF FreeRow
<1>6. \A j \in I : Stored(n, j) => Stored(t, j) /\ n[j].g = t[j].g
    BY <1>1 DEF Stored
<1> QED BY <1>1, <1>2, <1>3, <1>4, <1>5, <1>6

LEMMA CascadeFacts ==
    ASSUME NEW I, NEW t \in [I -> Row], NEW g \in Groups
    PROVE  /\ OneRowPerStatusIn(t) => OneRowPerStatusIn(Cascade(t, g))
           /\ \A x, v : x # g /\ Answered(t, x, v) => Answered(Cascade(t, g), x, v)
           /\ \A j \in I : t[j] # FreeRow =>
                /\ Cascade(t, g)[j] # FreeRow
                /\ Cascade(t, g)[j].g = t[j].g
                /\ Cascade(t, g)[j].u = t[j].u
           /\ \A j \in I : Stored(Cascade(t, g), j) =>
                Stored(t, j) /\ Cascade(t, g)[j] = t[j] /\ t[j].g # g
<1> DEFINE n == Cascade(t, g)
<1>1. /\ DOMAIN n = I /\ DOMAIN t = I
      /\ \A j \in I : Stored(t, j) /\ t[j].g = g =>
            n[j].st = "deleted" /\ n[j].g = t[j].g /\ n[j].u = t[j].u
      /\ \A j \in I : ~(Stored(t, j) /\ t[j].g = g) => n[j] = t[j]
    BY DEF Cascade, Row, FreeRow, Stored
<1>2. \A j \in I : Stored(n, j) => Stored(t, j) /\ n[j] = t[j] /\ t[j].g # g
    BY <1>1 DEF Stored
<1>3. ASSUME OneRowPerStatusIn(t) PROVE OneRowPerStatusIn(n)
    BY <1>1, <1>2, <1>3 DEF OneRowPerStatusIn, Stored
<1>4. ASSUME NEW x, NEW v, x # g, Answered(t, x, v) PROVE Answered(n, x, v)
    BY <1>1, <1>4 DEF Answered, HasRow
<1>5. \A j \in I : t[j] # FreeRow => n[j] # FreeRow
    BY <1>1 DEF FreeRow
<1> QED BY <1>1, <1>2, <1>3, <1>4, <1>5 DEF Stored

-----------------------------------------------------------------------------
(* What holds of the rows and of the handlers that answer them.  A handler   *)
(* keeps the group and the user of the row it has read; rows never change    *)
(* theirs, so a late answer still admits the user the row names.             *)

CallsMatchRows ==
    \A h \in Handlers :
        /\ call[h].pc \in InvitePoints =>
            /\ invites[call[h].row] # FreeRow
            /\ invites[call[h].row].g = call[h].g /\ invites[call[h].row].u = call[h].u
        /\ call[h].pc \in JoinPoints =>
            /\ joins[call[h].row] # FreeRow
            /\ joins[call[h].row].g = call[h].g /\ joins[call[h].row].u = call[h].u

RowsOfLiveGroups ==
    /\ \A i \in Invites : Stored(invites, i) => status[invites[i].g] = "live"
    /\ \A i \in JoinRequests : Stored(joins, i) => status[joins[i].g] = "live"

RowsInv ==
    /\ OwnerInv
    /\ CallsMatchRows
    /\ RowsOfLiveGroups
    /\ OneRowPerStatus
    /\ MembershipHasOrigin

LEMMA InitRowsInv == Init => RowsInv
BY InitOwnerInv DEF Init, RowsInv, CallsMatchRows, RowsOfLiveGroups, OneRowPerStatus,
   OneRowPerStatusIn, MembershipHasOrigin, Idle, FreeRow, Stored, InvitePoints, JoinPoints

LEMMA SameTablesRowsInv ==
    ASSUME RowsInv, OwnerInv', UNCHANGED tables, CallsMatchRows'
    PROVE  RowsInv'
BY DEF RowsInv, RowsOfLiveGroups, OneRowPerStatus, OneRowPerStatusIn, MembershipHasOrigin,
   Answered, HasRow, Stored, tables

LEMMA ArriveRowsInv ==
    ASSUME RowsInv, NEW h \in Handlers, Arrive(h)
    PROVE  RowsInv'
<1>1. OwnerInv'
    BY ArriveOwnerInv DEF RowsInv
<1> USE DEF RowsInv, OwnerInv, TypeOK
<1>2. ASSUME NEW a \in Users, NEW g \in Groups, Create(h, a, g) PROVE RowsInv'
    <2>1. CallsMatchRows'
        BY <1>2 DEF Create, Start, Plain, CallsMatchRows, InvitePoints, JoinPoints
    <2>2. RowsOfLiveGroups'
        BY <1>2 DEF Create, RowsOfLiveGroups, Row, FreeRow, Stored
    <2>3. OneRowPerStatus' /\ MembershipHasOrigin'
        BY <1>2 DEF Create, OneRowPerStatus, OneRowPerStatusIn, MembershipHasOrigin, Answered,
           HasRow, Stored
    <2> QED BY <1>1, <2>1, <2>2, <2>3
<1>3. ASSUME UNCHANGED tables, NEW c, Start(h, c), c.pc \notin InvitePoints \cup JoinPoints
      PROVE  RowsInv'
    <2>1. CallsMatchRows'
        BY <1>3 DEF Start, tables, CallsMatchRows
    <2> QED BY <1>1, <1>3, <2>1, SameTablesRowsInv
<1>4. ASSUME NEW a \in Users, NEW g \in Groups,
             UpdateName(h, a, g) \/ RequestJoin(h, a, g) \/ DeleteGroup(h, a, g)
      PROVE  RowsInv'
    BY <1>3, <1>4 DEF UpdateName, RequestJoin, DeleteGroup, Plain, InvitePoints, JoinPoints
<1>5. ASSUME NEW a \in Users, NEW g \in Groups, NEW u \in Users,
             Invite(h, a, g, u) \/ RemoveMember(h, a, g, u)
      PROVE  RowsInv'
    BY <1>3, <1>5 DEF Invite, RemoveMember, Plain, InvitePoints, JoinPoints
<1>6. ASSUME NEW a \in Users, NEW g \in Groups, NEW u \in Users,
             NEW to \in {"admin", "member"}, UpdateMemberRole(h, a, g, u, to)
      PROVE  RowsInv'
    BY <1>3, <1>6 DEF UpdateMemberRole, InvitePoints, JoinPoints
<1>7. ASSUME NEW a \in Users, NEW i \in Invites, AcceptInvite(h, a, i) \/ RejectInvite(h, a, i)
      PROVE  RowsInv'
    <2>1. UNCHANGED tables /\ invites[i] # FreeRow
        BY <1>7 DEF AcceptInvite, RejectInvite, FreeRow
    <2>2. CallsMatchRows'
        BY <1>7, <2>1 DEF AcceptInvite, RejectInvite, Start, OnRow, CallsMatchRows, tables,
           InvitePoints, JoinPoints
    <2> QED BY <1>1, <2>1, <2>2, SameTablesRowsInv
<1>8. ASSUME NEW a \in Users, NEW i \in JoinRequests,
             ApproveJoinRequest(h, a, i) \/ RejectJoinRequest(h, a, i)
      PROVE  RowsInv'
    <2>1. UNCHANGED tables /\ joins[i] # FreeRow
        BY <1>8 DEF ApproveJoinRequest, RejectJoinRequest, FreeRow
    <2>2. CallsMatchRows'
        BY <1>8, <2>1 DEF ApproveJoinRequest, RejectJoinRequest, Start, OnRow, CallsMatchRows,
           tables, InvitePoints, JoinPoints
    <2> QED BY <1>1, <2>1, <2>2, SameTablesRowsInv
<1> QED BY <1>2, <1>4, <1>5, <1>6, <1>7, <1>8 DEF Arrive

LEMMA CheckRowsInv ==
    ASSUME RowsInv, NEW h \in Handlers, CheckStep(h)
    PROVE  RowsInv'
<1>1. OwnerInv' /\ UNCHANGED tables
    BY CheckOwnerInv, CheckTables DEF RowsInv
<1> SUFFICES CallsMatchRows'
    BY <1>1, SameTablesRowsInv
<1> USE DEF RowsInv, OwnerInv, TypeOK, CallsMatchRows, tables
<1>a. ASSUME NEW pc, Goto(h, pc), pc \notin InvitePoints \cup JoinPoints PROVE CallsMatchRows'
    BY <1>1, <1>a DEF Goto
<1>b. ASSUME NEW pc, Goto(h, pc), call[h].pc \in JoinPoints, pc \notin InvitePoints
      PROVE  CallsMatchRows'
    BY <1>1, <1>b DEF Goto
<1>2. CASE UpdateNameCommit(h) \/ InviteCheckMember(h) \/ InviteCheckPending(h)
           \/ RequestJoinCheckMember(h) \/ RequestJoinCheckPending(h) \/ DeleteAnnounce(h)
           \/ UpdateRoleCheckTarget(h)
    BY <1>a, <1>2 DEF UpdateNameCommit, InviteCheckMember, InviteCheckPending,
       RequestJoinCheckMember, RequestJoinCheckPending, DeleteAnnounce,
       UpdateRoleCheckTarget, InvitePoints, JoinPoints
<1>3. CASE ApproveCheckRole(h) \/ ApproveCheckMember(h) \/ RejectCheckRole(h)
    BY <1>b, <1>3 DEF ApproveCheckRole, ApproveCheckMember, RejectCheckRole, At,
       InvitePoints, JoinPoints
<1>4. CASE RemoveReadActor(h) \/ RemoveReadTarget(h) \/ RemoveCheck(h)
    <2>1. call'[h].pc \in {"remove.read", "remove.delete"}
        BY <1>4, PointsOfCall DEF RemoveReadActor, RemoveReadTarget, RemoveCheck, At, Plain
    <2>2. \A k \in Handlers \ {h} : call'[k] = call[k]
        BY <1>4 DEF RemoveReadActor, RemoveReadTarget, RemoveCheck
    <2>3. call'[h].pc \notin InvitePoints \cup JoinPoints
        BY <2>1 DEF InvitePoints, JoinPoints
    <2> QED BY <1>1, <2>2, <2>3
<1> QED BY <1>2, <1>3, <1>4 DEF CheckStep

\* A table only gains rows, and its rows keep their group and user.
KeepsRows(t, n) ==
    \A i \in DOMAIN t : t[i] # FreeRow => n[i] # FreeRow /\ n[i].g = t[i].g /\ n[i].u = t[i].u

LEMMA WriterMatchesRows ==
    ASSUME RowsInv, NEW h \in Handlers, KeepsRows(invites, invites'), KeepsRows(joins, joins'),
           NEW pc,
           \/ Return(h)
           \/ Goto(h, pc) /\ pc \notin InvitePoints \cup JoinPoints
           \/ Goto(h, pc) /\ call[h].pc \in InvitePoints /\ pc \notin JoinPoints
           \/ Goto(h, pc) /\ call[h].pc \in JoinPoints /\ pc \notin InvitePoints
    PROVE  CallsMatchRows'
<1> USE DEF RowsInv, OwnerInv, TypeOK, CallsMatchRows
<1>1. ASSUME NEW k \in Handlers, k # h
      PROVE  /\ call'[k].pc \in InvitePoints =>
                /\ invites'[call'[k].row] # FreeRow
                /\ invites'[call'[k].row].g = call'[k].g /\ invites'[call'[k].row].u = call'[k].u
             /\ call'[k].pc \in JoinPoints =>
                /\ joins'[call'[k].row] # FreeRow
                /\ joins'[call'[k].row].g = call'[k].g /\ joins'[call'[k].row].u = call'[k].u
    <2>1. call'[k] = call[k]
        BY <1>1 DEF Goto, Return
    <2> QED BY <2>1, InviteLocals, JoinLocals DEF KeepsRows
<1>2. /\ call'[h].pc \in InvitePoints =>
            /\ invites'[call'[h].row] # FreeRow
            /\ invites'[call'[h].row].g = call'[h].g /\ invites'[call'[h].row].u = call'[h].u
      /\ call'[h].pc \in JoinPoints =>
            /\ joins'[call'[h].row] # FreeRow
            /\ joins'[call'[h].row].g = call'[h].g /\ joins'[call'[h].row].u = call'[h].u
    <2>1. CASE Return(h)
        BY <2>1 DEF Return, Idle, InvitePoints, JoinPoints
    <2>2. CASE Goto(h, pc) /\ pc \notin InvitePoints \cup JoinPoints
        BY <2>2 DEF Goto
    <2>3. CASE Goto(h, pc) /\ call[h].pc \in InvitePoints /\ pc \notin JoinPoints
        BY <2>3, InviteLocals DEF Goto, KeepsRows
    <2>4. CASE Goto(h, pc) /\ call[h].pc \in JoinPoints /\ pc \notin InvitePoints
        BY <2>4, JoinLocals DEF Goto, KeepsRows
    <2> QED BY <2>1, <2>2, <2>3, <2>4
<1> QED BY <1>1, <1>2

\* Writes to one table that leave the others alone.
LEMMA InviteCreateRowsInv ==
    ASSUME RowsInv, NEW h \in Handlers, InviteCreate(h)
    PROVE  CallsMatchRows' /\ RowsOfLiveGroups' /\ OneRowPerStatus' /\ MembershipHasOrigin'
<1> USE DEF RowsInv, OwnerInv, TypeOK
<1>1. call[h].g \in Groups /\ call[h].u \in Users
    BY PlainLocals DEF InviteCreate, At, PlainPoints
<1>2. PICK i \in Invites : invites[i] = FreeRow /\
            invites' = Inserted(invites, i, call[h].g, call[h].u)
    BY DEF InviteCreate, Inserted
<1>3. /\ OneRowPerStatusIn(invites) /\ ~HasRow(invites, call[h].g, call[h].u, "pending") =>
            OneRowPerStatusIn(invites')
      /\ \A x, v : Answered(invites, x, v) => Answered(invites', x, v)
      /\ \A j \in Invites : invites[j] # FreeRow => invites'[j] = invites[j]
      /\ \A j \in Invites : Stored(invites', j) =>
            (Stored(invites, j) /\ invites'[j] = invites[j]) \/ invites'[j].g = call[h].g
    BY <1>1, <1>2, InsertFacts
<1>4. UNCHANGED <<status, owner, role, joins>> /\ InsertPending(invites, h)
      /\ Goto(h, "invite.notify")
    BY DEF InviteCreate
<1>5. CallsMatchRows'
    <2>1. KeepsRows(invites, invites') /\ KeepsRows(joins, joins')
        BY <1>3, <1>4 DEF KeepsRows
    <2> QED BY <1>4, <2>1, WriterMatchesRows DEF InvitePoints, JoinPoints
<1>6. RowsOfLiveGroups'
    BY <1>3, <1>4 DEF RowsOfLiveGroups, InsertPending, Stored
<1>7. OneRowPerStatus'
    BY <1>3, <1>4 DEF OneRowPerStatus, InsertPending
<1>8. MembershipHasOrigin'
    BY <1>3, <1>4 DEF MembershipHasOrigin
<1> QED BY <1>5, <1>6, <1>7, <1>8

LEMMA RequestJoinCreateRowsInv ==
    ASSUME RowsInv, NEW h \in Handlers, RequestJoinCreate(h)
    PROVE  CallsMatchRows' /\ RowsOfLiveGroups' /\ OneRowPerStatus' /\ MembershipHasOrigin'
<1> USE DEF RowsInv, OwnerInv, TypeOK
<1>1. call[h].g \in Groups /\ call[h].u \in Users
    BY PlainLocals DEF RequestJoinCreate, At, PlainPoints
<1>2. PICK i \in JoinRequests : joins[i] = FreeRow /\
            joins' = Inserted(joins, i, call[h].g, call[h].u)
    BY DEF RequestJoinCreate, Inserted
<1>3. /\ OneRowPerStatusIn(joins) /\ ~HasRow(joins, call[h].g, call[h].u, "pending") =>
            OneRowPerStatusIn(joins')
      /\ \A x, v : Answered(joins, x, v) => Answered(joins', x, v)
      /\ \A j \in JoinRequests : joins[j] # FreeRow => joins'[j] = joins[j]
      /\ \A j \in JoinRequests : Stored(joins', j) =>
            (Stored(joins, j) /\ joins'[j] = joins[j]) \/ joins'[j].g = call[h].g
    BY <1>1, <1>2, InsertFacts
<1>4. UNCHANGED <<status, owner, role, invites>> /\ InsertPending(joins, h)
      /\ Goto(h, "join.notify")
    BY DEF RequestJoinCreate
<1>5. CallsMatchRows'
    <2>1. KeepsRows(invites, invites') /\ KeepsRows(joins, joins')
        BY <1>3, <1>4 DEF KeepsRows
    <2> QED BY <1>4, <2>1, WriterMatchesRows DEF InvitePoints, JoinPoints
<1>6. RowsOfLiveGroups'
    BY <1>3, <1>4 DEF RowsOfLiveGroups, InsertPending, Stored
<1>7. OneRowPerStatus'
    BY <1>3, <1>4 DEF OneRowPerStatus, InsertPending
<1>8. MembershipHasOrigin'
    BY <1>3, <1>4 DEF MembershipHasOrigin
<1> QED BY <1>5, <1>6, <1>7, <1>8

LEMMA ApproveCommitRowsInv ==
    ASSUME RowsInv, NEW h \in Handlers, ApproveCommit(h)
    PROVE  CallsMatchRows' /\ RowsOfLiveGroups' /\ OneRowPerStatus' /\ MembershipHasOrigin'
<1> USE DEF RowsInv, OwnerInv, TypeOK
<1>1. /\ call[h].g \in Groups /\ call[h].u \in Users /\ call[h].row \in JoinRequests
      /\ call[h].pc \in JoinPoints
    BY JoinLocals DEF ApproveCommit, At, JoinPoints
<1>2. joins[call[h].row].g = call[h].g /\ joins[call[h].row].u = call[h].u
    BY <1>1 DEF CallsMatchRows
<1>3. joins' = SetStatus(joins, call[h].row, "accepted") /\ Updatable(joins, call[h].row, "accepted")
    BY DEF ApproveCommit
<1>4. /\ OneRowPerStatusIn(joins) => OneRowPerStatusIn(joins')
      /\ \A x, v : Answered(joins, x, v) => Answered(joins', x, v)
      /\ HasRow(joins', call[h].g, call[h].u, "accepted")
      /\ KeepsRows(joins, joins')
      /\ \A j \in JoinRequests : Stored(joins', j) => Stored(joins, j) /\ joins'[j].g = joins[j].g
    BY <1>1, <1>2, <1>3, SetStatusFacts DEF KeepsRows
<1>5. UNCHANGED <<status, owner, invites>>
    BY DEF ApproveCommit
<1>6. CallsMatchRows'
    <2>1. KeepsRows(invites, invites')
        BY <1>5 DEF KeepsRows
    <2> QED BY <1>1, <1>4, <2>1, WriterMatchesRows DEF ApproveCommit, InvitePoints, JoinPoints
<1>7. RowsOfLiveGroups'
    BY <1>4, <1>5 DEF RowsOfLiveGroups, Stored
<1>8. OneRowPerStatus'
    BY <1>4, <1>5 DEF OneRowPerStatus
<1>9. MembershipHasOrigin'
    <2>1. Answered(joins', call[h].g, call[h].u)
        BY <1>4 DEF Answered
    <2>2. \A g \in Groups, u \in Users :
            role'[g][u] = role[g][u] \/ (g = call[h].g /\ u = call[h].u)
        BY <1>1 DEF ApproveCommit
    <2> QED BY <1>4, <1>5, <2>1, <2>2 DEF MembershipHasOrigin
<1> QED BY <1>6, <1>7, <1>8, <1>9

LEMMA RejectCommitRowsInv ==
    ASSUME RowsInv, NEW h \in Handlers, RejectCommit(h)
    PROVE  CallsMatchRows' /\ RowsOfLiveGroups' /\ OneRowPerStatus' /\ MembershipHasOrigin'
<1> USE DEF RowsInv, OwnerInv, TypeOK
<1>1. /\ call[h].g \in Groups /\ call[h].u \in Users /\ call[h].row \in JoinRequests
      /\ call[h].pc \in JoinPoints
    BY JoinLocals DEF RejectCommit, At, JoinPoints
<1>2. joins[call[h].row].g = call[h].g /\ joins[call[h].row].u = call[h].u
    BY <1>1 DEF CallsMatchRows
<1>3. joins' = SetStatus(joins, call[h].row, "rejected") /\ Updatable(joins, call[h].row, "rejected")
    BY DEF RejectCommit
<1>4. /\ OneRowPerStatusIn(joins) => OneRowPerStatusIn(joins')
      /\ \A x, v : Answered(joins, x, v) => Answered(joins', x, v)
      /\ HasRow(joins', call[h].g, call[h].u, "rejected")
      /\ KeepsRows(joins, joins')
      /\ \A j \in JoinRequests : Stored(joins', j) => Stored(joins, j) /\ joins'[j].g = joins[j].g
    BY <1>1, <1>2, <1>3, SetStatusFacts DEF KeepsRows
<1>5. UNCHANGED <<status, owner, invites>>
    BY DEF RejectCommit
<1>6. CallsMatchRows'
    <2>1. KeepsRows(invites, invites')
        BY <1>5 DEF KeepsRows
    <2> QED BY <1>1, <1>4, <2>1, WriterMatchesRows DEF RejectCommit, InvitePoints, JoinPoints
<1>7. RowsOfLiveGroups'
    BY <1>4, <1>5 DEF RowsOfLiveGroups, Stored
<1>8. OneRowPerStatus'
    BY <1>4, <1>5 DEF OneRowPerStatus
<1>9. MembershipHasOrigin'
    BY <1>4, <1>5 DEF RejectCommit, MembershipHasOrigin
<1> QED BY <1>6, <1>7, <1>8, <1>9

LEMMA AcceptCommitRowsInv ==
    ASSUME RowsInv, NEW h \in Handlers, AcceptCommit(h)
    PROVE  CallsMatchRows' /\ RowsOfLiveGroups' /\ OneRowPerStatus' /\ MembershipHasOrigin'
<1> USE DEF RowsInv, OwnerInv, TypeOK
<1>1. /\ call[h].g \in Groups /\ call[h].u \in Users /\ call[h].row \in Invites
      /\ call[h].pc \in InvitePoints
    BY InviteLocals DEF AcceptCommit, At, InvitePoints
<1>2. invites[call[h].row].g = call[h].g /\ invites[call[h].row].u = call[h].u
    BY <1>1 DEF CallsMatchRows
<1>3. invites' = SetStatus(invites, call[h].row, "accepted") /\ Updatable(invites, call[h].row, "accepted")
    BY DEF AcceptCommit
<1>4. /\ OneRowPerStatusIn(invites) => OneRowPerStatusIn(invites')
      /\ \A x, v : Answered(invites, x, v) => Answered(invites', x, v)
      /\ HasRow(invites', call[h].g, call[h].u, "accepted")
      /\ KeepsRows(invites, invites')
      /\ \A j \in Invites : Stored(invites', j) => Stored(invites, j) /\ invites'[j].g = invites[j].g
    BY <1>1, <1>2, <1>3, SetStatusFacts DEF KeepsRows
<1>5. UNCHANGED <<status, owner, joins>>
    BY DEF AcceptCommit
<1>6. CallsMatchRows'
    <2>1. KeepsRows(joins, joins')
        BY <1>5 DEF KeepsRows
    <2> QED BY <1>1, <1>4, <2>1, WriterMatchesRows DEF AcceptCommit, InvitePoints, JoinPoints
<1>7. RowsOfLiveGroups'
    BY <1>4, <1>5 DEF RowsOfLiveGroups, Stored
<1>8. OneRowPerStatus'
    BY <1>4, <1>5 DEF OneRowPerStatus
<1>9. MembershipHasOrigin'
    <2>1. Answered(invites', call[h].g, call[h].u)
        BY <1>4 DEF Answered
    <2>2. \A g \in Groups, u \in Users :
            role'[g][u] = role[g][u] \/ (g = call[h].g /\ u = call[h].u)
        BY <1>1 DEF AcceptCommit
    <2> QED BY <1>4, <1>5, <2>1, <2>2 DEF MembershipHasOrigin
<1> QED BY <1>6, <1>7, <1>8, <1>9

LEMMA RefuseCommitRowsInv ==
    ASSUME RowsInv, NEW h \in Handlers, RefuseCommit(h)
    PROVE  CallsMatchRows' /\ RowsOfLiveGroups' /\ OneRowPerStatus' /\ MembershipHasOrigin'
<1> USE DEF RowsInv, OwnerInv, TypeOK
<1>1. /\ call[h].g \in Groups /\ call[h].u \in Users /\ call[h].row \in Invites
      /\ call[h].pc \in InvitePoints
    BY InviteLocals DEF RefuseCommit, At, InvitePoints
<1>2. invites[call[h].row].g = call[h].g /\ invites[call[h].row].u = call[h].u
    BY <1>1 DEF CallsMatchRows
<1>3. invites' = SetStatus(invites, call[h].row, "rejected") /\ Updatable(invites, call[h].row, "rejected")
    BY DEF RefuseCommit
<1>4. /\ OneRowPerStatusIn(invites) => OneRowPerStatusIn(invites')
      /\ \A x, v : Answered(invites, x, v) => Answered(invites', x, v)
      /\ HasRow(invites', call[h].g, call[h].u, "rejected")
      /\ KeepsRows(invites, invites')
      /\ \A j \in Invites : Stored(invites', j) => Stored(invites, j) /\ invites'[j].g = invites[j].g
    BY <1>1, <1>2, <1>3, SetStatusFacts DEF KeepsRows
<1>5. UNCHANGED <<status, owner, joins>>
    BY DEF RefuseCommit
<1>6. CallsMatchRows'
    <2>1. KeepsRows(joins, joins')
        BY <1>5 DEF KeepsRows
    <2> QED BY <1>1, <1>4, <2>1, WriterMatchesRows DEF RefuseCommit, InvitePoints, JoinPoints
<1>7. RowsOfLiveGroups'
    BY <1>4, <1>5 DEF RowsOfLiveGroups, Stored
<1>8. OneRowPerStatus'
    BY <1>4, <1>5 DEF OneRowPerStatus
<1>9. MembershipHasOrigin'
    BY <1>4, <1>5 DEF RefuseCommit, MembershipHasOrigin
<1> QED BY <1>6, <1>7, <1>8, <1>9

LEMMA DeleteCommitRowsInv ==
    ASSUME RowsInv, NEW h \in Handlers, DeleteCommit(h)
    PROVE  CallsMatchRows' /\ RowsOfLiveGroups' /\ OneRowPerStatus' /\ MembershipHasOrigin'
<1> USE DEF RowsInv, OwnerInv, TypeOK
<1>1. call[h].g \in Groups
    BY PlainLocals DEF DeleteCommit, At, PlainPoints
<1>2. /\ OneRowPerStatus => OneRowPerStatus'
      /\ KeepsRows(invites, invites') /\ KeepsRows(joins, joins')
      /\ \A x, v : x # call[h].g =>
            /\ Answered(invites, x, v) => Answered(invites', x, v)
            /\ Answered(joins, x, v) => Answered(joins', x, v)
      /\ \A j \in Invites : Stored(invites', j) =>
            Stored(invites, j) /\ invites'[j] = invites[j] /\ invites[j].g # call[h].g
      /\ \A j \in JoinRequests : Stored(joins', j) =>
            Stored(joins, j) /\ joins'[j] = joins[j] /\ joins[j].g # call[h].g
    <2>1. invites' = Cascade(invites, call[h].g) /\ joins' = Cascade(joins, call[h].g)
        BY DEF DeleteCommit
    <2> QED BY <1>1, <2>1, CascadeFacts DEF OneRowPerStatus, KeepsRows
<1>3. CallsMatchRows'
    BY <1>2, WriterMatchesRows DEF DeleteCommit
<1>4. RowsOfLiveGroups'
    <2>1. \A x \in Groups : x # call[h].g => status'[x] = status[x]
        BY DEF DeleteCommit
    <2>2. (\A j \in Invites : Stored(invites, j) => invites[j].g \in Groups)
          /\ (\A j \in JoinRequests : Stored(joins, j) => joins[j].g \in Groups)
        BY DEF Stored, Row, FreeRow
    <2> QED BY <1>2, <2>1, <2>2 DEF RowsOfLiveGroups
<1>5. MembershipHasOrigin'
    <2>1. \A x \in Groups, v \in Users : x # call[h].g => role'[x][v] = role[x][v]
        BY DEF DeleteCommit
    <2>2. \A v \in Users : role'[call[h].g][v] = "none"
        BY <1>1 DEF DeleteCommit
    <2> QED BY <1>2, <2>1, <2>2 DEF MembershipHasOrigin
<1> QED BY <1>2, <1>3, <1>4, <1>5

\* Writes to memberships alone.
LEMMA RoleWriteRowsInv ==
    ASSUME RowsInv, NEW h \in Handlers, UpdateRoleCommit(h) \/ RemoveCommit(h)
    PROVE  CallsMatchRows' /\ RowsOfLiveGroups' /\ OneRowPerStatus' /\ MembershipHasOrigin'
<1> USE DEF RowsInv, OwnerInv, TypeOK
<1>1. UNCHANGED <<status, owner, invites, joins>>
    BY DEF UpdateRoleCommit, RemoveCommit
<1>2. CallsMatchRows'
    <2>1. KeepsRows(invites, invites') /\ KeepsRows(joins, joins')
        BY <1>1 DEF KeepsRows
    <2>2. Goto(h, "role.notify") \/ Goto(h, "remove.notify")
        BY DEF UpdateRoleCommit, RemoveCommit
    <2>3. {"role.notify", "remove.notify"} \cap (InvitePoints \cup JoinPoints) = {}
        BY DEF InvitePoints, JoinPoints
    <2> QED BY <2>1, <2>2, <2>3, WriterMatchesRows
<1>3. RowsOfLiveGroups' /\ OneRowPerStatus'
    BY <1>1 DEF RowsOfLiveGroups, OneRowPerStatus, OneRowPerStatusIn, Stored
<1>4. MembershipHasOrigin'
    <2>1. CASE UpdateRoleCommit(h)
        <3>1. call[h].g \in Groups /\ call[h].u \in Users
            BY <2>1, RoleLocals DEF UpdateRoleCommit, At, RolePoints
        <3>2. role[call[h].g][call[h].u] \in {"admin", "member"}
            <4>1. NeverOwner(call[h].g, call[h].u)
                BY <2>1 DEF UpdateRoleCommit, At, TargetsAreNotOwners
            <4> QED BY <2>1, <3>1, <4>1
                    DEF UpdateRoleCommit, IsMember, NeverOwner, RolesMatchOwners, Roles
        <3>3. Answered(invites', call[h].g, call[h].u) \/ Answered(joins', call[h].g, call[h].u)
            BY <1>1, <3>1, <3>2 DEF MembershipHasOrigin
        <3>4. \A g \in Groups, u \in Users :
                role'[g][u] = role[g][u] \/ (g = call[h].g /\ u = call[h].u)
            BY <2>1, <3>1 DEF UpdateRoleCommit
        <3> QED BY <1>1, <3>3, <3>4 DEF MembershipHasOrigin
    <2>2. CASE RemoveCommit(h)
        BY <1>1, <2>2 DEF RemoveCommit, MembershipHasOrigin, Answered, HasRow
    <2> QED BY <2>1, <2>2
<1> QED BY <1>2, <1>3, <1>4

LEMMA NextRowsInv == RowsInv /\ [Next]_vars => RowsInv'
<1> SUFFICES ASSUME RowsInv, [Next]_vars PROVE RowsInv'
    OBVIOUS
<1>1. OwnerInv'
    BY NextOwnerInv DEF RowsInv
<1>2. ASSUME NEW h \in Handlers, WriteStep(h) PROVE RowsInv'
    BY <1>1, <1>2, InviteCreateRowsInv, RequestJoinCreateRowsInv, ApproveCommitRowsInv,
       RejectCommitRowsInv, AcceptCommitRowsInv, RefuseCommitRowsInv, DeleteCommitRowsInv,
       RoleWriteRowsInv DEF WriteStep, RowsInv
<1>3. ASSUME NEW h \in Handlers, Notify(h) \/ Throw(h) PROVE RowsInv'
    <2>1. UNCHANGED tables /\ CallsMatchRows'
        BY <1>3 DEF Notify, Throw, Return, Idle, tables, RowsInv, OwnerInv, TypeOK,
           CallsMatchRows, InvitePoints, JoinPoints
    <2> QED BY <1>1, <2>1, SameTablesRowsInv
<1>4. CASE Crash
    <2>1. UNCHANGED tables /\ CallsMatchRows'
        BY <1>4 DEF Crash, Idle, CallsMatchRows, InvitePoints, JoinPoints
    <2> QED BY <1>1, <2>1, SameTablesRowsInv
<1>5. CASE UNCHANGED vars
    BY <1>1, <1>5, SameTablesRowsInv DEF vars, tables, RowsInv, CallsMatchRows
<1> QED BY <1>2, <1>3, <1>4, <1>5, ArriveRowsInv, CheckRowsInv, AdvanceSteps DEF Next

\* A late handler adds nothing to a deleted group.
THEOREM NothingIsOrphaned == Spec => []NothingOutlivesGroup
<1>1. RowsInv => NothingOutlivesGroup
    BY DEF RowsInv, OwnerInv, RolesMatchOwners, RowsOfLiveGroups, NothingOutlivesGroup
<1> QED BY <1>1, InitRowsInv, NextRowsInv, PTL DEF Spec

\* Two handlers that both found no pending row never both store one.
THEOREM RowsAreUnique == Spec => []OneRowPerStatus
<1>1. RowsInv => OneRowPerStatus
    BY DEF RowsInv
<1> QED BY <1>1, InitRowsInv, NextRowsInv, PTL DEF Spec

\* Whatever answers race, a member other than the owner was invited or applied,
\* and was answered.
THEOREM MembersHaveOrigin == Spec => []MembershipHasOrigin
<1>1. RowsInv => MembershipHasOrigin
    BY DEF RowsInv
<1> QED BY <1>1, InitRowsInv, NextRowsInv, PTL DEF Spec

-----------------------------------------------------------------------------
(* An answer and the admission it grants are one step.  Only a created       *)
(* group, an approval and an acceptance write a membership where there was   *)
(* none, or a status "accepted".                                             *)

EntryHasAnswer ==
    \A g \in Groups, u \in Users : Admitted(g, u) =>
        HasRow(invites', g, u, "accepted") \/ HasRow(joins', g, u, "accepted")

InviteHasEntry ==
    \A i \in Invites : TurnsAccepted(invites, i) =>
        role'[invites'[i].g][invites'[i].u] # "none"

JoinHasEntry ==
    \A i \in JoinRequests : TurnsAccepted(joins, i) =>
        role'[joins'[i].g][joins'[i].u] # "none"

AnswerHasEntry == InviteHasEntry /\ JoinHasEntry

LEMMA SameTablesTogether == ASSUME UNCHANGED tables PROVE EntryHasAnswer /\ AnswerHasEntry
BY DEF tables, EntryHasAnswer, AnswerHasEntry, InviteHasEntry, JoinHasEntry,
   Admitted, TurnsAccepted

\* A step that admits nobody and accepts nothing.
LEMMA NobodyEnters ==
    ASSUME \A g \in Groups, u \in Users : ~Admitted(g, u),
           \A i \in Invites : ~TurnsAccepted(invites, i),
           \A i \in JoinRequests : ~TurnsAccepted(joins, i)
    PROVE  EntryHasAnswer /\ AnswerHasEntry
BY DEF EntryHasAnswer, AnswerHasEntry, InviteHasEntry, JoinHasEntry

LEMMA CreateTogether ==
    ASSUME TypeOK, NEW h \in Handlers, NEW a \in Users, NEW g \in Groups, Create(h, a, g)
    PROVE  EntryHasAnswer /\ AnswerHasEntry
<1>1. \A x \in Groups, u \in Users : role'[x][u] = role[x][u] \/ role'[x][u] = "owner"
    BY DEF Create, TypeOK
<1>2. \A x \in Groups, u \in Users : ~Admitted(x, u)
    BY <1>1 DEF Admitted
<1>3. UNCHANGED <<invites, joins>>
    BY DEF Create
<1> QED BY <1>2, <1>3, NobodyEnters DEF TurnsAccepted

LEMMA ArriveTogether ==
    ASSUME TypeOK, NEW h \in Handlers, Arrive(h)
    PROVE  EntryHasAnswer /\ AnswerHasEntry
<1>1. ASSUME NEW a \in Users, NEW g \in Groups, Create(h, a, g)
      PROVE  EntryHasAnswer /\ AnswerHasEntry
    BY <1>1, CreateTogether
<1>2. \/ \E a \in Users, g \in Groups : Create(h, a, g)
      \/ UNCHANGED tables
    BY DEF Arrive, UpdateName, RequestJoin, DeleteGroup, Invite, RemoveMember,
       UpdateMemberRole, AcceptInvite, RejectInvite, ApproveJoinRequest, RejectJoinRequest
<1> QED BY <1>1, <1>2, SameTablesTogether

\* What setting one row to "accepted" does to the others.
LEMMA OnlyThatRow ==
    ASSUME NEW I, NEW t \in [I -> Row], NEW i \in I, NEW st \in {"accepted", "rejected"},
           NEW j \in I, t[j].st # "accepted", SetStatus(t, i, st)[j].st = "accepted"
    PROVE  j = i /\ st = "accepted"
BY DEF SetStatus, Row, FreeRow

LEMMA ApproveTogether ==
    ASSUME RowsInv, NEW h \in Handlers, ApproveCommit(h)
    PROVE  EntryHasAnswer /\ AnswerHasEntry
<1> DEFINE g == call[h].g  u == call[h].u  r == call[h].row
<1>0. TypeOK
    BY DEF RowsInv, OwnerInv
<1>1. g \in Groups /\ u \in Users /\ r \in JoinRequests /\ call[h].pc \in JoinPoints
    BY <1>0, JoinLocals DEF ApproveCommit, At, JoinPoints
<1>2. joins[r].g = g /\ joins[r].u = u
    BY <1>1 DEF RowsInv, CallsMatchRows
<1>3. joins \in [JoinRequests -> Row] /\ role \in [Groups -> [Users -> Roles \cup {"none"}]]
    BY <1>0 DEF TypeOK
<1>4. /\ Updatable(joins, r, "accepted") /\ joins' = SetStatus(joins, r, "accepted")
      /\ role' = [role EXCEPT ![g][u] = "member"]
      /\ UNCHANGED invites
    BY DEF ApproveCommit
<1> HIDE DEF g, u, r
<1>5. HasRow(joins', g, u, "accepted") /\ joins[r] # FreeRow
    BY <1>1, <1>2, <1>3, <1>4, SetStatusFacts DEF Updatable, Stored, FreeRow
<1>6. joins'[r].g = g /\ joins'[r].u = u
    BY <1>1, <1>2, <1>3, <1>4, <1>5, SetStatusFacts
<1>7. /\ role'[g][u] = "member"
      /\ \A x \in Groups, v \in Users : role'[x][v] = role[x][v] \/ (x = g /\ v = u)
    BY <1>1, <1>3, <1>4
<1>8. EntryHasAnswer
    BY <1>5, <1>7 DEF EntryHasAnswer, Admitted
<1>9. \A i \in JoinRequests : TurnsAccepted(joins, i) => i = r
    BY <1>1, <1>3, <1>4, OnlyThatRow DEF TurnsAccepted
<1> QED BY <1>4, <1>6, <1>7, <1>8, <1>9 DEF AnswerHasEntry, InviteHasEntry, JoinHasEntry, TurnsAccepted

LEMMA AcceptTogether ==
    ASSUME RowsInv, NEW h \in Handlers, AcceptCommit(h)
    PROVE  EntryHasAnswer /\ AnswerHasEntry
<1> DEFINE g == call[h].g  u == call[h].u  r == call[h].row
<1>0. TypeOK
    BY DEF RowsInv, OwnerInv
<1>1. g \in Groups /\ u \in Users /\ r \in Invites /\ call[h].pc \in InvitePoints
    BY <1>0, InviteLocals DEF AcceptCommit, At, InvitePoints
<1>2. invites[r].g = g /\ invites[r].u = u
    BY <1>1 DEF RowsInv, CallsMatchRows
<1>3. invites \in [Invites -> Row] /\ role \in [Groups -> [Users -> Roles \cup {"none"}]]
    BY <1>0 DEF TypeOK
<1>4. /\ Updatable(invites, r, "accepted") /\ invites' = SetStatus(invites, r, "accepted")
      /\ role' = [role EXCEPT ![g][u] = UpsertRole(role[g][u])]
      /\ UNCHANGED joins
    BY DEF AcceptCommit
<1> HIDE DEF g, u, r
<1>5. HasRow(invites', g, u, "accepted") /\ invites[r] # FreeRow
    BY <1>1, <1>2, <1>3, <1>4, SetStatusFacts DEF Updatable, Stored, FreeRow
<1>6. invites'[r].g = g /\ invites'[r].u = u
    BY <1>1, <1>2, <1>3, <1>4, <1>5, SetStatusFacts
<1>7. /\ role'[g][u] # "none"
      /\ \A x \in Groups, v \in Users : role'[x][v] = role[x][v] \/ (x = g /\ v = u)
    BY <1>1, <1>3, <1>4 DEF UpsertRole, Roles
<1>8. EntryHasAnswer
    BY <1>5, <1>7 DEF EntryHasAnswer, Admitted
<1>9. \A i \in Invites : TurnsAccepted(invites, i) => i = r
    BY <1>1, <1>3, <1>4, OnlyThatRow DEF TurnsAccepted
<1> QED BY <1>4, <1>6, <1>7, <1>8, <1>9 DEF AnswerHasEntry, InviteHasEntry, JoinHasEntry, TurnsAccepted

\* The other writes.
LEMMA OtherWritesTogether ==
    ASSUME RowsInv, NEW h \in Handlers,
           \/ InviteCreate(h) \/ RequestJoinCreate(h) \/ RejectCommit(h) \/ RefuseCommit(h)
           \/ UpdateRoleCommit(h) \/ RemoveCommit(h) \/ DeleteCommit(h)
    PROVE  EntryHasAnswer /\ AnswerHasEntry
<1>0. /\ TypeOK
      /\ invites \in [Invites -> Row] /\ joins \in [JoinRequests -> Row]
      /\ role \in [Groups -> [Users -> Roles \cup {"none"}]]
    BY DEF RowsInv, OwnerInv, TypeOK
<1>1. ASSUME NEW g \in Groups, NEW u \in Users PROVE ~Admitted(g, u)
    <2>1. CASE UpdateRoleCommit(h)
        <3>1. call[h].g \in Groups /\ call[h].u \in Users
            BY <1>0, <2>1, RoleLocals DEF UpdateRoleCommit, At, RolePoints
        <3> QED BY <1>0, <2>1, <3>1 DEF UpdateRoleCommit, IsMember, Admitted
    <2>2. CASE RemoveCommit(h) \/ DeleteCommit(h)
        BY <1>0, <2>2 DEF RemoveCommit, DeleteCommit, Admitted
    <2> QED BY <2>1, <2>2
            DEF InviteCreate, RequestJoinCreate, RejectCommit, RefuseCommit, Admitted
<1>2. ASSUME NEW i \in Invites PROVE ~TurnsAccepted(invites, i)
    <2>1. CASE InviteCreate(h)
        BY <1>0, <2>1 DEF InviteCreate, NewRow, TurnsAccepted
    <2>2. CASE RefuseCommit(h)
        <3>1. call[h].row \in Invites
            BY <1>0, <2>2, InviteLocals DEF RefuseCommit, At, InvitePoints
        <3> QED BY <1>0, <2>2, <3>1, OnlyThatRow DEF RefuseCommit, TurnsAccepted
    <2>3. CASE DeleteCommit(h)
        BY <1>0, <2>3 DEF DeleteCommit, Cascade, Row, FreeRow, TurnsAccepted
    <2> QED BY <2>1, <2>2, <2>3
            DEF RequestJoinCreate, RejectCommit, UpdateRoleCommit, RemoveCommit, TurnsAccepted
<1>3. ASSUME NEW i \in JoinRequests PROVE ~TurnsAccepted(joins, i)
    <2>1. CASE RequestJoinCreate(h)
        BY <1>0, <2>1 DEF RequestJoinCreate, NewRow, TurnsAccepted
    <2>2. CASE RejectCommit(h)
        <3>1. call[h].row \in JoinRequests
            BY <1>0, <2>2, JoinLocals DEF RejectCommit, At, JoinPoints
        <3> QED BY <1>0, <2>2, <3>1, OnlyThatRow DEF RejectCommit, TurnsAccepted
    <2>3. CASE DeleteCommit(h)
        BY <1>0, <2>3 DEF DeleteCommit, Cascade, Row, FreeRow, TurnsAccepted
    <2> QED BY <2>1, <2>2, <2>3
            DEF InviteCreate, RefuseCommit, UpdateRoleCommit, RemoveCommit, TurnsAccepted
<1> QED BY <1>1, <1>2, <1>3, NobodyEnters

LEMMA StepTogether ==
    ASSUME RowsInv, [Next]_vars
    PROVE  EntryHasAnswer /\ AnswerHasEntry
<1>1. TypeOK
    BY DEF RowsInv, OwnerInv
<1>2. ASSUME NEW h \in Handlers, Notify(h) \/ Throw(h) \/ CheckStep(h) PROVE UNCHANGED tables
    BY <1>2, CheckTables DEF Notify, Throw
<1>3. ASSUME Crash \/ UNCHANGED vars PROVE UNCHANGED tables
    BY <1>3 DEF Crash, vars, tables
<1>4. ASSUME NEW h \in Handlers, WriteStep(h) PROVE EntryHasAnswer /\ AnswerHasEntry
    BY <1>4, ApproveTogether, AcceptTogether, OtherWritesTogether DEF WriteStep
<1> QED BY <1>1, <1>2, <1>3, <1>4, ArriveTogether, AdvanceSteps, SameTablesTogether DEF Next

\* Whatever handlers overlap, fail or are cut off by a crash: nobody enters a
\* group but with a row that is accepted in the same step, and no row is
\* accepted without its user being in the group after the same step.
THEOREM AnswersAdmit == Spec => AnswerAndAdmissionTogether
<1> DEFINE A == /\ EntryHasAnswer
                /\ InviteHasEntry
                /\ JoinHasEntry
<1>1. RowsInv /\ [Next]_vars => [A]_vars
    BY StepTogether DEF AnswerHasEntry
<1> HIDE DEF A
<1>2. Spec => [][A]_vars
    BY <1>1, InitRowsInv, NextRowsInv, PTL DEF Spec
<1> QED BY <1>2 DEF A, EntryHasAnswer, InviteHasEntry, JoinHasEntry, AnswerAndAdmissionTogether

-----------------------------------------------------------------------------
(* GroupService implements Membership.  First the pairs of one table.        *)

LEMMA PairsAreOfRows ==
    ASSUME NEW t, NEW S
    PROVE  \A x : x \in PairsOf(t, S) <=>
                \E i \in DOMAIN t : t[i].st \in S /\ x = <<t[i].g, t[i].u>>
BY DEF PairsOf

LEMMA InsertPairs ==
    ASSUME NEW I, NEW t \in [I -> Row], NEW i \in I, t[i] = FreeRow,
           NEW g \in Groups, NEW u \in Users
    PROVE  /\ PairsOf(Inserted(t, i, g, u), Asked) = PairsOf(t, Asked) \cup {<<g, u>>}
           /\ PairsOf(Inserted(t, i, g, u), Settled) = PairsOf(t, Settled)
<1> DEFINE n == Inserted(t, i, g, u)
<1>1. /\ DOMAIN n = I /\ DOMAIN t = I
      /\ n[i].st = "pending" /\ n[i].g = g /\ n[i].u = u
      /\ t[i].st = "free" /\ \A j \in I : j # i => n[j] = t[j]
    BY DEF Inserted, NewRow, FreeRow
<1> HIDE DEF n
<1>2. PairsOf(n, Asked) = PairsOf(t, Asked) \cup {<<g, u>>}
    BY <1>1 DEF PairsOf, Asked
<1>3. PairsOf(n, Settled) = PairsOf(t, Settled)
    BY <1>1 DEF PairsOf, Settled
<1> QED BY <1>2, <1>3 DEF n

LEMMA SetStatusPairs ==
    ASSUME NEW I, NEW t \in [I -> Row], NEW i \in I, NEW st \in Settled, Updatable(t, i, st)
    PROVE  /\ PairsOf(SetStatus(t, i, st), Asked) = PairsOf(t, Asked)
           /\ <<t[i].g, t[i].u>> \in PairsOf(t, Asked)
           /\ PairsOf(SetStatus(t, i, st), Settled) = PairsOf(t, Settled) \cup {<<t[i].g, t[i].u>>}
<1> DEFINE n == SetStatus(t, i, st)
<1>1. /\ DOMAIN n = I /\ DOMAIN t = I
      /\ n[i].st = st /\ n[i].g = t[i].g /\ n[i].u = t[i].u
      /\ t[i].st \in Asked /\ \A j \in I : j # i => n[j] = t[j]
    BY DEF SetStatus, Updatable, Stored, Row, FreeRow, Asked
<1> HIDE DEF n
<1>2. PairsOf(n, Asked) = PairsOf(t, Asked)
    BY <1>1 DEF PairsOf, Asked, Settled
<1>3. <<t[i].g, t[i].u>> \in PairsOf(t, Asked)
    BY <1>1 DEF PairsOf
<1>4. PairsOf(n, Settled) = PairsOf(t, Settled) \cup {<<t[i].g, t[i].u>>}
    BY <1>1 DEF PairsOf, Settled
<1> QED BY <1>2, <1>3, <1>4 DEF n

LEMMA CascadePairs ==
    ASSUME NEW I, NEW t \in [I -> Row], NEW g \in Groups, NEW S \in {Asked, Settled}
    PROVE  PairsOf(Cascade(t, g), S) = PairsOf(t, S) \ Promise!Of(g)
<1> DEFINE n == Cascade(t, g)
<1>1. /\ DOMAIN n = I /\ DOMAIN t = I
      /\ \A j \in I : n[j].st \in S => t[j].st \in S /\ t[j].g # g /\ n[j] = t[j]
      /\ \A j \in I : t[j].st \in S => t[j].g \in Groups /\ t[j].u \in Users
      /\ \A j \in I : t[j].st \in S /\ t[j].g # g => n[j] = t[j]
    BY DEF Cascade, Row, FreeRow, Stored, Asked, Settled
<1> HIDE DEF n
<1>2. \A j \in I : t[j].st \in S =>
            (t[j].g = g <=> <<t[j].g, t[j].u>> \in Promise!Of(g))
    <2>1. \A y, z : <<y, z>> \in Promise!Of(g) <=> y = g /\ z \in Users
        BY DEF Promise!Of
    <2> QED BY <1>1, <2>1
<1>3. PairsOf(n, S) \subseteq PairsOf(t, S) \ Promise!Of(g)
    <2> SUFFICES ASSUME NEW x \in PairsOf(n, S) PROVE x \in PairsOf(t, S) \ Promise!Of(g)
        OBVIOUS
    <2>1. PICK j \in I : n[j].st \in S /\ x = <<n[j].g, n[j].u>>
        BY <1>1, PairsAreOfRows
    <2>2. t[j].st \in S /\ t[j].g # g /\ x = <<t[j].g, t[j].u>>
        BY <1>1, <2>1
    <2> QED BY <1>1, <1>2, <2>2, PairsAreOfRows
<1>4. PairsOf(t, S) \ Promise!Of(g) \subseteq PairsOf(n, S)
    <2> SUFFICES ASSUME NEW x \in PairsOf(t, S), x \notin Promise!Of(g) PROVE x \in PairsOf(n, S)
        OBVIOUS
    <2>1. PICK j \in I : t[j].st \in S /\ x = <<t[j].g, t[j].u>>
        BY <1>1, PairsAreOfRows
    <2>2. t[j].g # g
        BY <1>2, <2>1
    <2>3. n[j] = t[j]
        BY <1>1, <2>1, <2>2
    <2> QED BY <1>1, <2>1, <2>3, PairsAreOfRows
<1> QED BY <1>3, <1>4 DEF n

(* Then the steps. *)

LEMMA SameTablesPromise ==
    ASSUME UNCHANGED tables
    PROVE  UNCHANGED Promise!membership
BY DEF tables, Promise!membership, PairsIn, PairsOf

LEMMA PromiseFound ==
    ASSUME NEW h, NEW a \in Users, NEW g \in Groups, Create(h, a, g)
    PROVE  Promise!Next
<1>1. Promise!Found(g, a)
    BY DEF Create, Promise!Found, PairsIn, PairsOf
<1> QED BY <1>1 DEF Promise!Next

LEMMA PromiseCall ==
    ASSUME RowsInv, NEW h \in Handlers, InviteCreate(h) \/ RequestJoinCreate(h)
    PROVE  Promise!Next
<1> DEFINE g == call[h].g  u == call[h].u
<1>0. TypeOK
    BY DEF RowsInv, OwnerInv
<1>1. g \in Groups /\ u \in Users
    BY <1>0, PlainLocals DEF InviteCreate, RequestJoinCreate, At, PlainPoints
<1>2. status[g] = "live" /\ UNCHANGED <<status, owner, role>>
    BY DEF InviteCreate, RequestJoinCreate, InsertPending
<1>3. /\ PairsIn(Asked)' = PairsIn(Asked) \cup {<<g, u>>}
      /\ PairsIn(Settled)' = PairsIn(Settled)
    <2>1. CASE InviteCreate(h)
        <3>1. PICK i \in Invites : invites[i] = FreeRow /\ invites' = Inserted(invites, i, g, u)
            BY <2>1 DEF InviteCreate, Inserted
        <3>2. UNCHANGED joins
            BY <2>1 DEF InviteCreate
        <3> QED BY <1>0, <1>1, <3>1, <3>2, InsertPairs DEF TypeOK, PairsIn
    <2>2. CASE RequestJoinCreate(h)
        <3>1. PICK i \in JoinRequests : joins[i] = FreeRow /\ joins' = Inserted(joins, i, g, u)
            BY <2>2 DEF RequestJoinCreate, Inserted
        <3>2. UNCHANGED invites
            BY <2>2 DEF RequestJoinCreate
        <3> QED BY <1>0, <1>1, <3>1, <3>2, InsertPairs DEF TypeOK, PairsIn
    <2> QED BY <2>1, <2>2
<1> HIDE DEF g, u
<1>4. Promise!Call(g, u)
    BY <1>1, <1>2, <1>3 DEF Promise!Call
<1> QED BY <1>1, <1>4 DEF Promise!Next

\* The commit of an answer, to an invitation or to a request.
LEMMA InviteAnswered ==
    ASSUME RowsInv, NEW h \in Handlers, NEW st \in Settled, call[h].pc \in InvitePoints,
           Updatable(invites, call[h].row, st), invites' = SetStatus(invites, call[h].row, st),
           UNCHANGED <<status, owner, joins>>
    PROVE  /\ call[h].g \in Groups /\ call[h].u \in Users
           /\ Promise!Answered(call[h].g, call[h].u)
<1> DEFINE g == call[h].g  u == call[h].u  i == call[h].row
<1>0. TypeOK
    BY DEF RowsInv, OwnerInv
<1>1. g \in Groups /\ u \in Users /\ i \in Invites
    BY <1>0, InviteLocals
<1>2. invites[i].g = g /\ invites[i].u = u
    BY DEF RowsInv, CallsMatchRows
<1>3. status[g] = "live"
    BY <1>1, <1>2 DEF Updatable, RowsInv, RowsOfLiveGroups
<1>4. /\ <<g, u>> \in PairsIn(Asked) /\ PairsIn(Asked)' = PairsIn(Asked)
      /\ PairsIn(Settled)' = PairsIn(Settled) \cup {<<g, u>>}
    BY <1>0, <1>1, <1>2, SetStatusPairs DEF TypeOK, PairsIn
<1> QED BY <1>1, <1>3, <1>4 DEF Promise!Answered

LEMMA JoinAnswered ==
    ASSUME RowsInv, NEW h \in Handlers, NEW st \in Settled, call[h].pc \in JoinPoints,
           Updatable(joins, call[h].row, st), joins' = SetStatus(joins, call[h].row, st),
           UNCHANGED <<status, owner, invites>>
    PROVE  /\ call[h].g \in Groups /\ call[h].u \in Users
           /\ Promise!Answered(call[h].g, call[h].u)
<1> DEFINE g == call[h].g  u == call[h].u  i == call[h].row
<1>0. TypeOK
    BY DEF RowsInv, OwnerInv
<1>1. g \in Groups /\ u \in Users /\ i \in JoinRequests
    BY <1>0, JoinLocals
<1>2. joins[i].g = g /\ joins[i].u = u
    BY DEF RowsInv, CallsMatchRows
<1>3. status[g] = "live"
    BY <1>1, <1>2 DEF Updatable, RowsInv, RowsOfLiveGroups
<1>4. /\ <<g, u>> \in PairsIn(Asked) /\ PairsIn(Asked)' = PairsIn(Asked)
      /\ PairsIn(Settled)' = PairsIn(Settled) \cup {<<g, u>>}
    BY <1>0, <1>1, <1>2, SetStatusPairs DEF TypeOK, PairsIn
<1> QED BY <1>1, <1>3, <1>4 DEF Promise!Answered

LEMMA PromiseAdmit ==
    ASSUME RowsInv, NEW h \in Handlers, ApproveCommit(h) \/ AcceptCommit(h)
    PROVE  Promise!Next
<1> DEFINE g == call[h].g  u == call[h].u
<1>1. g \in Groups /\ u \in Users /\ Promise!Answered(g, u)
    <2>1. CASE ApproveCommit(h)
        BY <2>1, JoinAnswered DEF ApproveCommit, At, JoinPoints, Settled
    <2>2. CASE AcceptCommit(h)
        BY <2>2, InviteAnswered DEF AcceptCommit, At, InvitePoints, Settled
    <2> QED BY <2>1, <2>2
<1>2. role \in [Groups -> [Users -> Roles \cup {"none"}]]
    BY DEF RowsInv, OwnerInv, TypeOK
<1>3. role' = [role EXCEPT ![g][u] = UpsertRole(role[g][u])]
    BY DEF ApproveCommit, AcceptCommit, IsMember, UpsertRole
<1> HIDE DEF g, u
<1>4. CASE role[g][u] = "none"
    <2>1. Promise!Admit(g, u)
        BY <1>1, <1>3, <1>4 DEF Promise!Admit, UpsertRole
    <2> QED BY <1>1, <2>1 DEF Promise!Next
<1>5. CASE role[g][u] # "none"
    <2>1. role' = role
        BY <1>1, <1>2, <1>3, <1>5 DEF UpsertRole
    <2>2. Promise!Settle(g, u)
        BY <1>1, <2>1 DEF Promise!Settle
    <2> QED BY <1>1, <2>2 DEF Promise!Next
<1> QED BY <1>4, <1>5

LEMMA PromiseSettle ==
    ASSUME RowsInv, NEW h \in Handlers, RejectCommit(h) \/ RefuseCommit(h)
    PROVE  Promise!Next
<1> DEFINE g == call[h].g  u == call[h].u
<1>1. g \in Groups /\ u \in Users /\ Promise!Answered(g, u)
    <2>1. CASE RejectCommit(h)
        BY <2>1, JoinAnswered DEF RejectCommit, At, JoinPoints, Settled
    <2>2. CASE RefuseCommit(h)
        BY <2>2, InviteAnswered DEF RefuseCommit, At, InvitePoints, Settled
    <2> QED BY <2>1, <2>2
<1>2. UNCHANGED role
    BY DEF RejectCommit, RefuseCommit
<1> HIDE DEF g, u
<1>3. Promise!Settle(g, u)
    BY <1>1, <1>2 DEF Promise!Settle
<1> QED BY <1>1, <1>3 DEF Promise!Next

\* The target is not the owner, whatever happened since its role was read.
LEMMA PromiseRoles ==
    ASSUME RowsInv, NEW h \in Handlers, UpdateRoleCommit(h) \/ RemoveCommit(h)
    PROVE  Promise!Next
<1> DEFINE g == call[h].g  u == call[h].u
<1>0. TypeOK
    BY DEF RowsInv, OwnerInv
<1>1. g \in Groups /\ u \in Users /\ (UpdateRoleCommit(h) => call[h].to \in {"admin", "member"})
    BY <1>0, RoleLocals, PlainLocals
       DEF UpdateRoleCommit, RemoveCommit, At, RolePoints, PlainPoints
<1>2. NeverOwner(g, u) /\ role[g][u] # "none"
    BY DEF UpdateRoleCommit, RemoveCommit, At, IsMember, RowsInv, OwnerInv, TargetsAreNotOwners
<1>3. role[g][u] \in {"admin", "member"}
    BY <1>0, <1>1, <1>2 DEF TypeOK, Roles, NeverOwner, RowsInv, OwnerInv, RolesMatchOwners
<1>4. UNCHANGED <<status, owner, PairsIn(Asked), PairsIn(Settled)>>
    BY DEF UpdateRoleCommit, RemoveCommit, PairsIn, PairsOf
<1>5. \/ \E r \in {"admin", "member"} : role' = [role EXCEPT ![g][u] = r]
      \/ role' = [role EXCEPT ![g][u] = "none"]
    BY <1>1 DEF UpdateRoleCommit, RemoveCommit
<1> HIDE DEF g, u
<1>6. Promise!SetRole(g, u) \/ Promise!Leave(g, u)
    BY <1>3, <1>4, <1>5 DEF Promise!SetRole, Promise!Leave
<1> QED BY <1>1, <1>6 DEF Promise!Next

LEMMA PromiseDissolve ==
    ASSUME RowsInv, NEW h \in Handlers, DeleteCommit(h)
    PROVE  Promise!Next
<1> DEFINE g == call[h].g
<1>0. TypeOK
    BY DEF RowsInv, OwnerInv
<1>1. g \in Groups
    BY <1>0, PlainLocals DEF DeleteCommit, At, PlainPoints
<1>2. invites' = Cascade(invites, g) /\ joins' = Cascade(joins, g)
    BY DEF DeleteCommit
<1>3. /\ PairsIn(Asked)' = PairsIn(Asked) \ Promise!Of(g)
      /\ PairsIn(Settled)' = PairsIn(Settled) \ Promise!Of(g)
    BY <1>0, <1>1, <1>2, CascadePairs DEF TypeOK, PairsIn
<1>4. Promise!Dissolve(g)
    BY <1>3 DEF DeleteCommit, Promise!Dissolve
<1> QED BY <1>1, <1>4 DEF Promise!Next

LEMMA PromiseStep == RowsInv /\ [Next]_vars => [Promise!Next]_(Promise!membership)
<1> SUFFICES ASSUME RowsInv, [Next]_vars
             PROVE  Promise!Next \/ UNCHANGED Promise!membership
    OBVIOUS
<1>1. ASSUME NEW h \in Handlers, Arrive(h) PROVE Promise!Next \/ UNCHANGED tables
    <2>1. \/ \E a \in Users, g \in Groups : Create(h, a, g)
          \/ UNCHANGED tables
        BY <1>1 DEF Arrive, UpdateName, RequestJoin, DeleteGroup, Invite, RemoveMember,
           UpdateMemberRole, AcceptInvite, RejectInvite, ApproveJoinRequest, RejectJoinRequest
    <2> QED BY <2>1, PromiseFound
<1>2. ASSUME NEW h \in Handlers, Notify(h) \/ Throw(h) \/ CheckStep(h) PROVE UNCHANGED tables
    BY <1>2, CheckTables DEF Notify, Throw
<1>3. ASSUME Crash \/ UNCHANGED vars PROVE UNCHANGED tables
    BY <1>3 DEF Crash, vars, tables
<1>4. ASSUME NEW h \in Handlers, WriteStep(h) PROVE Promise!Next
    BY <1>4, PromiseCall, PromiseAdmit, PromiseSettle, PromiseRoles, PromiseDissolve
       DEF WriteStep
<1> QED BY <1>1, <1>2, <1>3, <1>4, AdvanceSteps, SameTablesPromise DEF Next

LEMMA PromiseInit == Init => Promise!Init
BY DEF Init, Promise!Init, PairsIn, PairsOf, Asked, Settled, FreeRow

\* The service keeps the promise of Membership, for any number of users,
\* groups, rows and overlapping handlers.
THEOREM MembershipIsKept == Spec => MembershipKept
BY InitRowsInv, NextRowsInv, PromiseInit, PromiseStep, PTL
   DEF Spec, MembershipKept, Promise!Spec

=============================================================================

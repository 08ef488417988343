------------------------ MODULE GroupRealtimeProofs ------------------------
(***************************************************************************)
(* Proofs about GroupRealtime, for any sets of users, groups, handlers and *)
(* connections.                                                            *)
(***************************************************************************)
EXTENDS GroupRealtime, GroupServiceProofs

-----------------------------------------------------------------------------
(* Every step of the composition is a step of GroupService or leaves it     *)
(* alone, so what is proved of GroupService holds here.                     *)

LEMMA StepIsServiceStep == [RNext]_rvars => [Next]_vars
BY DEF RNext, rvars, Continue, NotifyRooms, Next

\* The composition implements GroupService.
THEOREM RealtimeImplementsService == RSpec => Spec
<1>1. RInit => Init
    BY DEF RInit
<1> QED BY <1>1, StepIsServiceStep, PTL DEF RSpec, Spec

\* So it implements Membership: connections and rooms change nothing of what
\* the service promises.
THEOREM RealtimeKeepsMembership == RSpec => MembershipKept
BY RealtimeImplementsService, MembershipIsKept

-----------------------------------------------------------------------------
(* RoomCoverage is not inductive: a connection whose memberships have been  *)
(* read but whose rooms are not yet joined must be covered as well, by the  *)
(* list it has read.                                                        *)

Reaches(s) == sock[s].rooms \cup sock[s].toJoin

CoverInv ==
    /\ TypeOK
    /\ RTypeOK
    /\ \A s \in Sockets : sock[s].at \in {"listed", "ready"} =>
        \A g \in Groups : IsMember(sock[s].user, g) =>
            g \in Reaches(s) \/ JoinInFlight(g, sock[s].user)
    /\ \A s \in Sockets : sock[s].at = "ready" => sock[s].toJoin = {}

\* What a handler does before its notify point keeps every admission in
\* flight and puts every new member in flight.
LEMMA JoinsStayInFlight ==
    ASSUME TypeOK, NEW h \in Handlers, Arrive(h) \/ Advance(h), NEW g, NEW u, JoinInFlight(g, u)
    PROVE  JoinInFlight(g, u)'
<1>1. call[h].pc \notin JoiningPoints
    BY DEF Arrive, Create, UpdateName, RequestJoin, DeleteGroup, Invite, RemoveMember,
       UpdateMemberRole, AcceptInvite, RejectInvite, ApproveJoinRequest, RejectJoinRequest,
       Start, Idle, Advance, UpdateNameCommit, InviteCheckMember, InviteCheckPending,
       InviteCreate, RequestJoinCheckMember, RequestJoinCheckPending, RequestJoinCreate,
       ApproveCheckRole, ApproveCheckMember, ApproveCommit, RejectCheckRole, RejectCommit,
       AcceptCommit, RefuseCommit, UpdateRoleCheckTarget, UpdateRoleCommit, RemoveReadActor,
       RemoveReadTarget, RemoveCheck, RemoveCommit, DeleteAnnounce, DeleteCommit, At,
       JoiningPoints
<1>2. \A k \in Handlers \ {h} : call'[k] = call[k]
    BY DEF Arrive, Create, UpdateName, RequestJoin, DeleteGroup, Invite, RemoveMember,
       UpdateMemberRole, AcceptInvite, RejectInvite, ApproveJoinRequest, RejectJoinRequest,
       Start, Advance, UpdateNameCommit, InviteCheckMember, InviteCheckPending,
       InviteCreate, RequestJoinCheckMember, RequestJoinCheckPending, RequestJoinCreate,
       ApproveCheckRole, ApproveCheckMember, ApproveCommit, RejectCheckRole, RejectCommit,
       AcceptCommit, RefuseCommit, UpdateRoleCheckTarget, UpdateRoleCommit, RemoveReadActor,
       RemoveReadTarget, RemoveCheck, RemoveCommit, DeleteAnnounce, DeleteCommit, Goto, Return,
       TypeOK
<1> QED BY <1>1, <1>2 DEF JoinInFlight

LEMMA NewMembersAreInFlight ==
    ASSUME TypeOK, NEW h \in Handlers, Arrive(h) \/ Advance(h),
           NEW g \in Groups, NEW u \in Users, IsMember(u, g)'
    PROVE  IsMember(u, g) \/ JoinInFlight(g, u)'
<1> USE DEF TypeOK
<1>1. CASE UNCHANGED role
    BY <1>1 DEF IsMember
<1>2. ASSUME NEW a \in Users, NEW x \in Groups, Create(h, a, x)
      PROVE  IsMember(u, g) \/ JoinInFlight(g, u)'
    BY <1>2 DEF Create, Start, Plain, IsMember, JoinInFlight, JoiningPoints
<1>3. CASE ApproveCommit(h)
    BY <1>3, JoinLocals
       DEF ApproveCommit, At, Goto, JoinPoints, IsMember, JoinInFlight, JoiningPoints
<1>4. CASE AcceptCommit(h)
    BY <1>4, InviteLocals
       DEF AcceptCommit, At, Goto, InvitePoints, IsMember, JoinInFlight, JoiningPoints
<1>5. CASE UpdateRoleCommit(h)
    BY <1>5, RoleLocals DEF UpdateRoleCommit, At, RolePoints, IsMember
<1>6. CASE RemoveCommit(h) \/ DeleteCommit(h)
    BY <1>6, PlainLocals DEF RemoveCommit, DeleteCommit, At, PlainPoints, IsMember
<1>7. CASE CheckStep(h)
    BY <1>1, <1>7, CheckTables DEF tables
<1>8. ASSUME Arrive(h), \A a \in Users, x \in Groups : ~Create(h, a, x) PROVE UNCHANGED role
    BY <1>8 DEF Arrive, UpdateName, RequestJoin, DeleteGroup, Invite, RemoveMember,
       UpdateMemberRole, AcceptInvite, RejectInvite, ApproveJoinRequest, RejectJoinRequest, tables
<1>9. CASE InviteCreate(h) \/ RequestJoinCreate(h) \/ RejectCommit(h) \/ RefuseCommit(h)
    BY <1>1, <1>9 DEF InviteCreate, RequestJoinCreate, RejectCommit, RefuseCommit
<1> QED BY <1>1, <1>2, <1>3, <1>4, <1>5, <1>6, <1>7, <1>8, <1>9, AdvanceSteps DEF WriteStep

LEMMA InitCoverInv == RInit => CoverInv
BY InitTypeOK DEF RInit, CoverInv, RTypeOK, Socket, Off

LEMMA HandlerCoverInv ==
    ASSUME CoverInv, NEW h \in Handlers, Arrive(h) \/ Advance(h), UNCHANGED sock
    PROVE  CoverInv'
<1>1. TypeOK'
    BY ArriveTypeOK, CheckTypeOK, WriteTypeOK, AdvanceSteps DEF CoverInv
<1>2. ASSUME NEW s \in Sockets, sock[s].at \in {"listed", "ready"}, NEW g \in Groups,
             IsMember(sock[s].user, g)'
      PROVE  g \in Reaches(s) \/ JoinInFlight(g, sock[s].user)'
    <2>1. sock[s].user \in Users
        BY <1>2 DEF CoverInv, RTypeOK, Socket, Off
    <2>2. IsMember(sock[s].user, g) \/ JoinInFlight(g, sock[s].user)'
        BY <1>2, <2>1, NewMembersAreInFlight DEF CoverInv
    <2> QED BY <1>2, <2>2, JoinsStayInFlight DEF CoverInv
<1> QED BY <1>1, <1>2 DEF CoverInv, RTypeOK, Reaches, IsMember, JoinInFlight

\* joinUserSocketsToGroup reaches the connections whose handshake is under way
\* as well: they are in the user's room before their memberships are read.
LEMMA NotifyCoverInv ==
    ASSUME CoverInv, NEW h \in Handlers, NotifyRooms(h)
    PROVE  CoverInv'
<1> DEFINE g0 == call[h].g
           u0 == call[h].u
<1>1. TypeOK' /\ UNCHANGED tables
    BY NextTypeOK DEF CoverInv, NotifyRooms, Notify, Next
<1>2. \A k \in Handlers \ {h} : call'[k] = call[k]
    BY DEF CoverInv, TypeOK, NotifyRooms, Notify, Return
<1>3. CASE call[h].pc \notin JoiningPoints
    <2>1. UNCHANGED sock
        BY <1>3 DEF NotifyRooms
    <2>2. \A g, u : JoinInFlight(g, u) => JoinInFlight(g, u)'
        BY <1>2, <1>3 DEF JoinInFlight
    <2>3. \A u, g : IsMember(u, g)' <=> IsMember(u, g)
        BY <1>1 DEF tables, IsMember
    <2> QED BY <1>1, <2>1, <2>2, <2>3 DEF CoverInv, RTypeOK, Reaches
<1>4. CASE call[h].pc \in JoiningPoints
    <2>1. SocketsJoin(u0, g0)
        BY <1>4 DEF NotifyRooms
    <2>2. g0 \in Groups
        BY <1>4, PlainLocals, InviteLocals, JoinLocals
           DEF CoverInv, JoiningPoints, PlainPoints, InvitePoints, JoinPoints
    <2>3. \A g, u : JoinInFlight(g, u) => JoinInFlight(g, u)' \/ (g = g0 /\ u = u0)
        BY <1>2 DEF JoinInFlight
    <2>4. \A u, g : IsMember(u, g)' <=> IsMember(u, g)
        BY <1>1 DEF tables, IsMember
    <2>5. ASSUME NEW s \in Sockets, ~InUserRoom(s, u0) PROVE sock'[s] = sock[s]
        BY <2>1, <2>5 DEF SocketsJoin
    <2>6. ASSUME NEW s \in Sockets, InUserRoom(s, u0)
          PROVE  /\ sock'[s] \in Socket
                 /\ sock'[s].at = sock[s].at /\ sock'[s].user = u0
                 /\ sock'[s].toJoin = sock[s].toJoin /\ sock'[s].rooms = sock[s].rooms \cup {g0}
        <3>1. sock'[s] = [sock[s] EXCEPT !.rooms = @ \cup {g0}]
            BY <2>1, <2>6 DEF SocketsJoin
        <3>2. sock[s] \in Socket /\ sock[s] # Off /\ sock[s].user = u0
            BY <2>6 DEF InUserRoom, CoverInv, RTypeOK
        <3> QED BY <2>2, <3>1, <3>2 DEF Socket
    <2>7. RTypeOK'
        <3>1. \A s \in Sockets : sock'[s] \in Socket
            BY <2>5, <2>6 DEF CoverInv, RTypeOK
        <3> QED BY <2>1, <3>1 DEF SocketsJoin, RTypeOK
    <2>8. ASSUME NEW s \in Sockets, sock'[s].at \in {"listed", "ready"},
                 NEW g \in Groups, IsMember(sock'[s].user, g)
          PROVE  \/ g \in sock'[s].rooms \cup sock'[s].toJoin
                 \/ \E k \in Handlers : /\ call'[k].pc \in JoiningPoints
                                        /\ call'[k].g = g /\ call'[k].u = sock'[s].user
        <3>1. CASE InUserRoom(s, u0)
            <4>1. sock[s].at = sock'[s].at /\ sock[s].user = u0 /\ sock'[s].user = u0
                BY <2>6, <3>1 DEF InUserRoom
            <4>2. g \in Reaches(s) \/ JoinInFlight(g, u0)
                BY <2>8, <4>1 DEF CoverInv
            <4>3. sock'[s].rooms \cup sock'[s].toJoin = Reaches(s) \cup {g0}
                BY <2>6, <3>1 DEF Reaches
            <4>4. JoinInFlight(g, u0) /\ g # g0 =>
                    \E k \in Handlers : /\ call'[k].pc \in JoiningPoints
                                        /\ call'[k].g = g /\ call'[k].u = u0
                BY <1>2 DEF JoinInFlight
            <4> QED BY <4>1, <4>2, <4>3, <4>4
        <3>2. CASE ~InUserRoom(s, u0)
            <4>1. sock'[s] = sock[s] /\ sock[s].user # u0
                BY <2>5, <2>8, <3>2 DEF InUserRoom, Off
            <4>2. g \in Reaches(s) \/ JoinInFlight(g, sock[s].user)
                BY <2>8, <4>1 DEF CoverInv
            <4> QED BY <2>3, <4>1, <4>2 DEF JoinInFlight, Reaches
        <3> QED BY <3>1, <3>2
    <2>9. \A s \in Sockets : sock'[s].at = "ready" => sock'[s].toJoin = {}
        BY <2>5, <2>6 DEF CoverInv
    <2>10. \A u, g : role'[g][u] # "none" <=> IsMember(u, g)
        BY <1>1 DEF tables, IsMember
    <2> QED BY <1>1, <2>7, <2>8, <2>9, <2>10 DEF CoverInv, Reaches, JoinInFlight, IsMember
<1> QED BY <1>3, <1>4

LEMMA SocketCoverInv ==
    ASSUME CoverInv, NEW s \in Sockets, UNCHANGED vars,
           (\E u \in Users : Connect(s, u)) \/ Handshake(s) \/ Disconnect(s)
    PROVE  CoverInv'
<1>1. /\ TypeOK'
      /\ \A u, g : IsMember(u, g)' <=> IsMember(u, g)
      /\ \A g, u : JoinInFlight(g, u)' <=> JoinInFlight(g, u)
    BY DEF CoverInv, vars, TypeOK, IsMember, JoinInFlight
<1>2. \A k \in Sockets \ {s} : sock'[k] = sock[k]
    BY DEF Connect, Handshake, ListMemberships, JoinRooms, Disconnect, CoverInv, RTypeOK
<1>3. SUFFICES /\ sock'[s] \in Socket
               /\ sock'[s].at \in {"listed", "ready"} =>
                    \A g \in Groups : IsMember(sock'[s].user, g) =>
                        g \in Reaches(s)' \/ JoinInFlight(g, sock'[s].user)
               /\ sock'[s].at = "ready" => sock'[s].toJoin = {}
    <2>1. RTypeOK'
        BY <1>2, <1>3 DEF Connect, Handshake, ListMemberships, JoinRooms, Disconnect,
           CoverInv, RTypeOK
    <2> QED BY <1>1, <1>2, <1>3, <2>1 DEF CoverInv, Reaches
<1> USE DEF CoverInv, RTypeOK
<1>4. ASSUME NEW u \in Users, Connect(s, u)
      PROVE  sock'[s] \in Socket /\ sock'[s].at = "joined"
    BY <1>4 DEF Connect, Socket
<1>5. CASE ListMemberships(s)
    <2>1. /\ sock'[s].at = "listed" /\ sock'[s].user = sock[s].user
          /\ sock'[s].toJoin = GroupsOf(sock[s].user)
          /\ sock'[s] \in Socket
        <3>1. sock[s] \in Socket \ {Off}
            BY <1>5 DEF ListMemberships, Off
        <3>2. sock'[s] = [sock[s] EXCEPT !.at = "listed", !.toJoin = GroupsOf(sock[s].user)]
            BY <1>5 DEF ListMemberships
        <3>3. GroupsOf(sock[s].user) \in SUBSET Groups
            BY DEF GroupsOf
        <3> QED BY <3>1, <3>2, <3>3 DEF Socket
    <2> QED BY <2>1 DEF GroupsOf, Reaches
<1>6. CASE JoinRooms(s)
    <2>1. /\ sock'[s].at = "ready" /\ sock'[s].user = sock[s].user
          /\ sock'[s].rooms = Reaches(s) /\ sock'[s].toJoin = {}
          /\ sock'[s] \in Socket
        <3>1. sock[s] \in Socket \ {Off}
            BY <1>6 DEF JoinRooms, Off
        <3>2. sock'[s] = [sock[s] EXCEPT !.at = "ready", !.toJoin = {}, !.rooms = Reaches(s)]
            BY <1>6 DEF JoinRooms, Reaches
        <3> QED BY <3>1, <3>2 DEF Socket, Reaches
    <2> QED BY <1>6, <2>1 DEF JoinRooms, Reaches
<1>7. CASE Disconnect(s)
    BY <1>7 DEF Disconnect, Socket, Off
<1> QED BY <1>4, <1>5, <1>6, <1>7 DEF Handshake

LEMMA NextCoverInv == LoseReplies = FALSE /\ CoverInv /\ [RNext]_rvars => CoverInv'
<1> SUFFICES ASSUME LoseReplies = FALSE, CoverInv, [RNext]_rvars PROVE CoverInv'
    OBVIOUS
<1>1. TypeOK'
    BY StepIsServiceStep, NextTypeOK DEF CoverInv
<1>2. ASSUME NEW h \in Handlers, Throw(h), call[h].pc \notin JoiningPoints, UNCHANGED sock
      PROVE  CoverInv'
    <2>1. \A k \in Handlers \ {h} : call'[k] = call[k]
        BY <1>2 DEF Throw, Return, CoverInv, TypeOK
    <2>2. \A g, u : JoinInFlight(g, u) => JoinInFlight(g, u)'
        BY <1>2, <2>1 DEF JoinInFlight
    <2>3. \A u, g : IsMember(u, g)' <=> IsMember(u, g)
        BY <1>2 DEF Throw, tables, IsMember
    <2> QED BY <1>1, <1>2, <2>2, <2>3 DEF CoverInv, RTypeOK, Reaches
<1>3. ASSUME sock' = [s \in Sockets |-> Off] PROVE CoverInv'
    BY <1>1, <1>3 DEF CoverInv, RTypeOK, Socket, Off
<1>4. CASE UNCHANGED rvars
    BY <1>1, <1>4 DEF rvars, vars, CoverInv, RTypeOK, Reaches, IsMember, JoinInFlight
<1> QED BY <1>2, <1>3, <1>4, HandlerCoverInv, NotifyCoverInv, SocketCoverInv
        DEF RNext, Continue

\* However handshakes and admissions overlap, a connection whose handshake is
\* over is in the room of every group of its user, or is about to be put
\* there, provided no reply to a committed write is lost.
THEOREM ConnectionsAreCovered == LoseReplies = FALSE => (RSpec => []RoomCoverage)
<1>1. CoverInv => RoomCoverage
    BY DEF CoverInv, RoomCoverage, Covered, Reaches
<1> SUFFICES ASSUME LoseReplies = FALSE PROVE RSpec => []RoomCoverage
    OBVIOUS
<1>2. CoverInv /\ [RNext]_rvars => CoverInv'
    BY NextCoverInv
<1> QED BY <1>1, <1>2, InitCoverInv, PTL DEF RSpec

-----------------------------------------------------------------------------
(* RoomsEarned says nothing of a list that was read and not yet joined, nor  *)
(* of a handler that is about to put a user's connections into a room; both  *)
(* name somebody entitled to the room, and an entitlement lasts: an answered *)
(* row stays answered, and the owner stays, as long as the group lives.      *)

Entitled(g, u) ==
    \/ status[g] = "deleted"
    \/ status[g] = "live" /\ (u = owner[g] \/ Answered(invites, g, u) \/ Answered(joins, g, u))

LEMMA MembersAreEntitled ==
    ASSUME RowsInv, NEW g \in Groups, NEW u \in Users, IsMember(u, g)
    PROVE  Entitled(g, u)
BY DEF RowsInv, OwnerInv, RolesMatchOwners, TypeOK, Roles, MembershipHasOrigin, IsMember, Entitled

LEMMA MembersAreEntitledNext ==
    ASSUME RowsInv', NEW g \in Groups, NEW u \in Users, IsMember(u, g)'
    PROVE  Entitled(g, u)'
BY DEF RowsInv, OwnerInv, RolesMatchOwners, TypeOK, Roles, MembershipHasOrigin, IsMember, Entitled

LEMMA SameTablesEntitled ==
    ASSUME UNCHANGED tables, NEW g, NEW u, Entitled(g, u)
    PROVE  Entitled(g, u)'
BY DEF tables, Entitled, Answered, HasRow

\* No step takes an answer or an owner from a group that stays.
LEMMA WriteKeepsAnswers ==
    ASSUME RowsInv, NEW h \in Handlers, WriteStep(h), NEW g \in Groups, NEW u,
           ~(DeleteCommit(h) /\ g = call[h].g)
    PROVE  /\ status'[g] = status[g] /\ owner'[g] = owner[g]
           /\ Answered(invites, g, u) => Answered(invites', g, u)
           /\ Answered(joins, g, u) => Answered(joins', g, u)
<1> USE DEF RowsInv, OwnerInv, TypeOK
<1>1. ASSUME UNCHANGED <<status, owner>>,
             \/ invites' = invites
             \/ \A x, v : Answered(invites, x, v) => Answered(invites', x, v),
             \/ joins' = joins
             \/ \A x, v : Answered(joins, x, v) => Answered(joins', x, v)
      PROVE  /\ status'[g] = status[g] /\ owner'[g] = owner[g]
             /\ Answered(invites, g, u) => Answered(invites', g, u)
             /\ Answered(joins, g, u) => Answered(joins', g, u)
    BY <1>1
<1>2. CASE InviteCreate(h)
    <2>1. call[h].g \in Groups /\ call[h].u \in Users
        BY <1>2, PlainLocals DEF InviteCreate, At, PlainPoints
    <2>2. PICK i \in Invites :
            invites[i] = FreeRow /\ invites' = Inserted(invites, i, call[h].g, call[h].u)
        BY <1>2 DEF InviteCreate, Inserted
    <2>3. \A x, v : Answered(invites, x, v) => Answered(invites', x, v)
        BY <2>1, <2>2, InsertFacts
    <2> QED BY <1>1, <1>2, <2>3 DEF InviteCreate
<1>3. CASE RequestJoinCreate(h)
    <2>1. call[h].g \in Groups /\ call[h].u \in Users
        BY <1>3, PlainLocals DEF RequestJoinCreate, At, PlainPoints
    <2>2. PICK i \in JoinRequests :
            joins[i] = FreeRow /\ joins' = Inserted(joins, i, call[h].g, call[h].u)
        BY <1>3 DEF RequestJoinCreate, Inserted
    <2>3. \A x, v : Answered(joins, x, v) => Answered(joins', x, v)
        BY <2>1, <2>2, InsertFacts
    <2> QED BY <1>1, <1>3, <2>3 DEF RequestJoinCreate
<1>4. CASE ApproveCommit(h) \/ RejectCommit(h)
    <2>1. call[h].row \in JoinRequests
        BY <1>4, JoinLocals DEF ApproveCommit, RejectCommit, At, JoinPoints
    <2>2. PICK st \in {"accepted", "rejected"} :
            Updatable(joins, call[h].row, st) /\ joins' = SetStatus(joins, call[h].row, st)
        BY <1>4 DEF ApproveCommit, RejectCommit
    <2>3. \A x, v : Answered(joins, x, v) => Answered(joins', x, v)
        BY <2>1, <2>2, SetStatusFacts
    <2> QED BY <1>1, <1>4, <2>3 DEF ApproveCommit, RejectCommit
<1>5. CASE AcceptCommit(h) \/ RefuseCommit(h)
    <2>1. call[h].row \in Invites
        BY <1>5, InviteLocals DEF AcceptCommit, RefuseCommit, At, InvitePoints
    <2>2. PICK st \in {"accepted", "rejected"} :
            Updatable(invites, call[h].row, st) /\ invites' = SetStatus(invites, call[h].row, st)
        BY <1>5 DEF AcceptCommit, RefuseCommit
    <2>3. \A x, v : Answered(invites, x, v) => Answered(invites', x, v)
        BY <2>1, <2>2, SetStatusFacts
    <2> QED BY <1>1, <1>5, <2>3 DEF AcceptCommit, RefuseCommit
<1>6. CASE UpdateRoleCommit(h) \/ RemoveCommit(h)
    BY <1>1, <1>6 DEF UpdateRoleCommit, RemoveCommit
<1>7. CASE DeleteCommit(h)
    <2>1. call[h].g \in Groups /\ g # call[h].g
        BY <1>7, PlainLocals DEF DeleteCommit, At, PlainPoints
    <2>2. invites' = Cascade(invites, call[h].g) /\ joins' = Cascade(joins, call[h].g)
        BY <1>7 DEF DeleteCommit
    <2>3. /\ Answered(invites, g, u) => Answered(invites', g, u)
          /\ Answered(joins, g, u) => Answered(joins', g, u)
        BY <2>1, <2>2, CascadeFacts
    <2>4. status'[g] = status[g] /\ owner'[g] = owner[g]
        BY <1>7, <2>1 DEF DeleteCommit
    <2> QED BY <2>3, <2>4
<1> QED BY <1>2, <1>3, <1>4, <1>5, <1>6, <1>7 DEF WriteStep

LEMMA EntitlementLasts ==
    ASSUME RowsInv, [Next]_vars, NEW g \in Groups, NEW u, Entitled(g, u)
    PROVE  Entitled(g, u)'
<1>1. CASE UNCHANGED tables
    BY <1>1, SameTablesEntitled
<1>2. ASSUME NEW h \in Handlers, Arrive(h), ~UNCHANGED tables PROVE Entitled(g, u)'
    <2>1. PICK a \in Users, x \in Groups : Create(h, a, x)
        BY <1>2 DEF Arrive, UpdateName, RequestJoin, DeleteGroup, Invite, RemoveMember,
           UpdateMemberRole, AcceptInvite, RejectInvite, ApproveJoinRequest, RejectJoinRequest
    <2>2. g # x
        BY <2>1 DEF Create, Entitled
    <2>3. /\ status'[g] = status[g] /\ owner'[g] = owner[g]
          /\ invites' = invites /\ joins' = joins
        BY <2>1, <2>2 DEF Create, RowsInv, OwnerInv, TypeOK
    <2> QED BY <2>3 DEF Entitled, Answered, HasRow
<1>3. ASSUME NEW h \in Handlers, WriteStep(h) PROVE Entitled(g, u)'
    <2>1. CASE DeleteCommit(h) /\ g = call[h].g
        BY <2>1 DEF DeleteCommit, Entitled, RowsInv, OwnerInv, TypeOK
    <2>2. CASE ~(DeleteCommit(h) /\ g = call[h].g)
        BY <1>3, <2>2, WriteKeepsAnswers DEF Entitled
    <2> QED BY <2>1, <2>2
<1>4. ASSUME NEW h \in Handlers, CheckStep(h) \/ Notify(h) \/ Throw(h) PROVE UNCHANGED tables
    BY <1>4, CheckTables DEF Notify, Throw
<1>5. Crash \/ UNCHANGED vars => UNCHANGED tables
    BY DEF Crash, vars, tables
<1> QED BY <1>1, <1>2, <1>3, <1>4, <1>5, AdvanceSteps DEF Next

AdmittersEntitled ==
    \A h \in Handlers : call[h].pc \in JoiningPoints => Entitled(call[h].g, call[h].u)

EarnInv ==
    /\ RowsInv
    /\ RTypeOK
    /\ AdmittersEntitled
    /\ \A s \in Sockets : sock[s] # Off => \A g \in Reaches(s) : Entitled(g, sock[s].user)

LEMMA InitEarnInv == RInit => EarnInv
BY InitRowsInv DEF RInit, Init, EarnInv, RTypeOK, Socket, Off, AdmittersEntitled, Idle,
   JoiningPoints

\* A handler gets to such a point by a write that makes its user a member.
LEMMA NextAdmittersEntitled ==
    ASSUME RowsInv, RowsInv', AdmittersEntitled, [Next]_vars
    PROVE  AdmittersEntitled'
<1>0. TypeOK /\ TypeOK'
    BY DEF RowsInv, OwnerInv
<1> SUFFICES ASSUME NEW k \in Handlers, call'[k].pc \in JoiningPoints
             PROVE  Entitled(call[k].g, call[k].u)'
    BY DEF AdmittersEntitled
<1>1. call'[k] \in Call /\ call'[k].g \in Groups /\ call'[k].u \in Users
    <2>1. call'[k] \in Call
        BY <1>0 DEF TypeOK
    <2> QED BY <2>1, PointsOfCall DEF JoiningPoints, PlainPoints, InvitePoints, JoinPoints
<1>2. CASE call'[k] = call[k]
    BY <1>1, <1>2, EntitlementLasts DEF AdmittersEntitled
<1>3. ASSUME NEW h \in Handlers, Arrive(h) \/ Advance(h), call'[k] # call[k]
      PROVE  IsMember(call[k].u, call[k].g)'
    <2>1. k = h
        BY <1>0, <1>3 DEF TypeOK, Arrive, Create, UpdateName, RequestJoin, DeleteGroup,
           Invite, RemoveMember,
           UpdateMemberRole, AcceptInvite, RejectInvite, ApproveJoinRequest, RejectJoinRequest,
           Start, Advance, UpdateNameCommit, InviteCheckMember, InviteCheckPending,
           InviteCreate, RequestJoinCheckMember, RequestJoinCheckPending, RequestJoinCreate,
           ApproveCheckRole, ApproveCheckMember, ApproveCommit, RejectCheckRole, RejectCommit,
           AcceptCommit, RefuseCommit, UpdateRoleCheckTarget, UpdateRoleCommit, RemoveReadActor,
           RemoveReadTarget, RemoveCheck, RemoveCommit, DeleteAnnounce, DeleteCommit, Goto, Return
    <2>2. ASSUME Arrive(h) PROVE \E a \in Users, x \in Groups : Create(h, a, x)
        BY <1>0, <2>1, <2>2 DEF TypeOK, Arrive, UpdateName, RequestJoin, DeleteGroup,
           Invite, RemoveMember,
           UpdateMemberRole, AcceptInvite, RejectInvite, ApproveJoinRequest, RejectJoinRequest,
           Start, Plain, OnRow, JoiningPoints
    <2>3. ASSUME NEW a \in Users, NEW x \in Groups, Create(h, a, x)
          PROVE  IsMember(call[k].u, call[k].g)'
        BY <1>0, <2>1, <2>3 DEF TypeOK, Create, Start, Plain, IsMember
    <2>4. ASSUME Advance(h) PROVE ApproveCommit(h) \/ AcceptCommit(h)
        <3>1. \A pc : Goto(h, pc) => pc \in JoiningPoints
            BY <1>0, <2>1 DEF TypeOK, Call, Goto
        <3>2. ~Return(h)
            BY <1>0, <2>1 DEF TypeOK, Return, Idle, JoiningPoints
        <3>3. CASE CheckStep(h)
            <4>1. ~RemoveReadActor(h) /\ ~RemoveReadTarget(h)
                <5>1. ASSUME At(h, "remove.read")
                      PROVE  call[h] \in [pc : {"remove.read"}, actor : Users, g : Groups,
                                u : Users, actorRole : ReadRole, targetRole : ReadRole]
                    BY <1>0, <5>1, PointsOfCall DEF TypeOK, At
                <5>2. ASSUME RemoveReadActor(h) PROVE call'[h].pc = "remove.read"
                    <6>1. At(h, "remove.read")
                        BY <5>2 DEF RemoveReadActor
                    <6>2. PICK r : call'[h] = [call[h] EXCEPT !.actorRole = r]
                        BY <1>0, <5>2 DEF TypeOK, RemoveReadActor
                    <6> QED BY <5>1, <6>1, <6>2
                <5>3. ASSUME RemoveReadTarget(h) PROVE call'[h].pc = "remove.read"
                    <6>1. At(h, "remove.read")
                        BY <5>3 DEF RemoveReadTarget
                    <6>2. PICK r : call'[h] = [call[h] EXCEPT !.targetRole = r]
                        BY <1>0, <5>3 DEF TypeOK, RemoveReadTarget
                    <6> QED BY <5>1, <6>1, <6>2
                <5> QED BY <2>1, <5>2, <5>3 DEF JoiningPoints
            <4>2. ~RemoveCheck(h)
                BY <1>0, <2>1 DEF TypeOK, RemoveCheck, Plain, JoiningPoints
            <4> QED BY <3>1, <3>2, <3>3, <4>1, <4>2 DEF CheckStep, UpdateNameCommit,
               InviteCheckMember,
               InviteCheckPending, RequestJoinCheckMember, RequestJoinCheckPending,
               ApproveCheckRole, ApproveCheckMember, RejectCheckRole, UpdateRoleCheckTarget,
               DeleteAnnounce, JoiningPoints
        <3>4. CASE WriteStep(h)
            BY <3>1, <3>2, <3>4 DEF WriteStep, InviteCreate, RequestJoinCreate, RejectCommit,
               RefuseCommit, UpdateRoleCommit, RemoveCommit, DeleteCommit, JoiningPoints
        <3> QED BY <2>4, <3>3, <3>4, AdvanceSteps
    <2>5. CASE ApproveCommit(h)
        BY <1>0, <2>1, <2>5, JoinLocals DEF TypeOK, ApproveCommit, At, JoinPoints, Goto, IsMember
    <2>6. CASE AcceptCommit(h)
        BY <1>0, <2>1, <2>6, InviteLocals
           DEF TypeOK, AcceptCommit, UpsertRole, At, InvitePoints, Goto, IsMember
    <2> QED BY <1>3, <2>2, <2>3, <2>4, <2>5, <2>6
<1>4. ASSUME NEW h \in Handlers, Notify(h) \/ Throw(h) PROVE call'[k] = call[k]
    BY <1>0, <1>4 DEF TypeOK, Notify, Throw, Return, Idle, JoiningPoints
<1>5. Crash \/ UNCHANGED vars => call'[k] = call[k]
    BY DEF Crash, Idle, JoiningPoints, vars
<1> QED BY <1>1, <1>2, <1>3, <1>4, <1>5, MembersAreEntitledNext DEF Next


\* Rooms are entered from a list of memberships, or by a handler that admitted.
LEMMA SocketMoves ==
    ASSUME TypeOK, RTypeOK, [RNext]_rvars
    PROVE  /\ RTypeOK'
           /\ \A s \in Sockets : sock'[s] # Off =>
                \A g \in Reaches(s)' :
                    /\ sock[s] # Off
                    /\ sock'[s].user = sock[s].user
                    /\ \/ g \in Reaches(s)
                       \/ IsMember(sock[s].user, g)
                       \/ JoinInFlight(g, sock[s].user)
<1> USE DEF RTypeOK
<1>1. CASE UNCHANGED sock
    BY <1>1 DEF Reaches
<1>2. CASE sock' = [s \in Sockets |-> Off]
    BY <1>2 DEF Socket
<1>3. ASSUME NEW h \in Handlers, call[h].pc \in JoiningPoints, SocketsJoin(call[h].u, call[h].g)
      PROVE  /\ RTypeOK'
             /\ \A s \in Sockets : sock'[s] # Off =>
                  \A g \in Reaches(s)' :
                      /\ sock[s] # Off
                      /\ sock'[s].user = sock[s].user
                      /\ g \in Reaches(s) \/ JoinInFlight(g, sock[s].user)
    <2> DEFINE u0 == call[h].u
               g0 == call[h].g
    <2>1. g0 \in Groups
        BY <1>3, PlainLocals, InviteLocals, JoinLocals
           DEF JoiningPoints, PlainPoints, InvitePoints, JoinPoints
    <2>2. JoinInFlight(g0, u0)
        BY <1>3 DEF JoinInFlight
    <2>3. ASSUME NEW s \in Sockets
          PROVE  /\ sock'[s] \in Socket
                 /\ \/ sock'[s] = sock[s]
                    \/ /\ sock[s] # Off /\ sock[s].user = u0 /\ sock'[s].user = u0
                       /\ sock'[s].rooms = sock[s].rooms \cup {g0}
                       /\ sock'[s].toJoin = sock[s].toJoin
        <3>1. CASE InUserRoom(s, u0)
            <4>1. sock'[s] = [sock[s] EXCEPT !.rooms = @ \cup {g0}]
                BY <1>3, <3>1 DEF SocketsJoin
            <4>2. sock[s] \in Socket /\ sock[s] # Off /\ sock[s].user = u0
                BY <3>1 DEF InUserRoom
            <4> QED BY <2>1, <4>1, <4>2 DEF Socket
        <3>2. CASE ~InUserRoom(s, u0)
            BY <1>3, <3>2 DEF SocketsJoin
        <3> QED BY <3>1, <3>2
    <2>4. RTypeOK'
        BY <1>3, <2>3 DEF SocketsJoin
    <2>5. ASSUME NEW s \in Sockets, sock'[s] # Off, NEW g \in Reaches(s)'
          PROVE  /\ sock[s] # Off
                 /\ sock'[s].user = sock[s].user
                 /\ g \in Reaches(s) \/ JoinInFlight(g, sock[s].user)
        BY <2>2, <2>3, <2>5 DEF Reaches
    <2> QED BY <2>4, <2>5
<1>4. ASSUME NEW s \in Sockets, (\E u \in Users : Connect(s, u)) \/ Handshake(s) \/ Disconnect(s)
      PROVE  /\ RTypeOK'
             /\ \A k \in Sockets : sock'[k] # Off =>
                  \A g \in Reaches(k)' :
                      /\ sock[k] # Off
                      /\ sock'[k].user = sock[k].user
                      /\ g \in Reaches(k) \/ IsMember(sock[k].user, g)
    <2>1. sock' = [sock EXCEPT ![s] = sock'[s]] /\ \A k \in Sockets \ {s} : sock'[k] = sock[k]
        BY <1>4 DEF Connect, Handshake, ListMemberships, JoinRooms, Disconnect
    <2>2. SUFFICES /\ sock'[s] \in Socket
                   /\ sock'[s] # Off => \A g \in Reaches(s)' :
                        /\ sock[s] # Off
                        /\ sock'[s].user = sock[s].user
                        /\ g \in Reaches(s) \/ IsMember(sock[s].user, g)
        BY <2>1 DEF Reaches
    <2>3. ASSUME NEW u \in Users, Connect(s, u)
          PROVE  sock'[s] \in Socket /\ Reaches(s)' = {}
        BY <2>3 DEF Connect, Socket, Reaches
    <2>4. CASE ListMemberships(s)
        <3>1. sock[s] \in Socket \ {Off}
            BY <2>4 DEF ListMemberships, Off
        <3>2. sock'[s] = [sock[s] EXCEPT !.at = "listed", !.toJoin = GroupsOf(sock[s].user)]
            BY <2>4 DEF ListMemberships
        <3>3. GroupsOf(sock[s].user) \in SUBSET Groups
            BY DEF GroupsOf
        <3>4. /\ sock'[s].user = sock[s].user /\ sock'[s].rooms = sock[s].rooms
              /\ sock'[s].toJoin = GroupsOf(sock[s].user) /\ sock'[s] \in Socket
            BY <3>1, <3>2, <3>3 DEF Socket
        <3> QED BY <3>1, <3>4 DEF GroupsOf, Reaches
    <2>5. CASE JoinRooms(s)
        <3> DEFINE r == sock[s]
                   R == Reaches(s)
        <3>1. sock[s] \in Socket \ {Off}
            BY <2>5 DEF JoinRooms, Off
        <3>2. sock'[s] = [r EXCEPT !.at = "ready", !.toJoin = {}, !.rooms = R]
            BY <2>5 DEF JoinRooms, Reaches
        <3>3. /\ r \in [at : {"joined", "listed", "ready"}, user : Users,
                         toJoin : SUBSET Groups, rooms : SUBSET Groups]
              /\ R \in SUBSET Groups
            BY <3>1 DEF Socket, Reaches
        <3> HIDE DEF r, R
        <3>4. /\ sock'[s].user = r.user /\ sock'[s].rooms = R
              /\ sock'[s].toJoin = {} /\ sock'[s] \in Socket
            BY <3>2, <3>3 DEF Socket
        <3> QED BY <3>1, <3>4 DEF r, R, Reaches
    <2>6. CASE Disconnect(s)
        BY <2>6 DEF Disconnect, Socket
    <2> QED BY <1>4, <2>3, <2>4, <2>5, <2>6 DEF Handshake
<1> QED BY <1>1, <1>2, <1>3, <1>4 DEF RNext, Continue, NotifyRooms, rvars

LEMMA NextEarnInv == EarnInv /\ [RNext]_rvars => EarnInv'
<1> SUFFICES ASSUME EarnInv, [RNext]_rvars PROVE EarnInv'
    OBVIOUS
<1>1. RowsInv /\ RowsInv' /\ TypeOK /\ RTypeOK /\ AdmittersEntitled /\ [Next]_vars
    BY StepIsServiceStep, NextRowsInv DEF EarnInv, RowsInv, OwnerInv
<1>2. RTypeOK' /\ AdmittersEntitled'
    BY <1>1, SocketMoves, NextAdmittersEntitled
<1>3. ASSUME NEW s \in Sockets, sock'[s] # Off, NEW g \in Reaches(s)'
      PROVE  Entitled(g, sock[s].user)'
    <2>1. /\ sock[s] # Off
          /\ sock'[s].user = sock[s].user
          /\ g \in Reaches(s) \/ IsMember(sock[s].user, g) \/ JoinInFlight(g, sock[s].user)
        BY <1>1, <1>3, SocketMoves
    <2>2. g \in Groups /\ sock[s].user \in Users
        <3>1. sock'[s] \in Socket \ {Off} /\ sock[s] \in Socket \ {Off}
            BY <1>1, <1>2, <1>3, <2>1 DEF RTypeOK
        <3> QED BY <1>3, <3>1 DEF Socket, Reaches
    <2>3. Entitled(g, sock[s].user)
        BY <1>1, <2>1, <2>2, MembersAreEntitled DEF EarnInv, AdmittersEntitled, JoinInFlight
    <2> DEFINE u == sock[s].user
    <2>4. \A v : Entitled(g, v) => Entitled(g, v)'
        BY <1>1, <2>2, EntitlementLasts
    <2>5. sock'[s].user = u
        BY <2>1
    <2> QED BY <2>3, <2>4, <2>5 DEF Entitled, Answered, HasRow
<1> QED BY <1>1, <1>2, <1>3 DEF EarnInv

\* Every state of the composition has its types, whatever fails: connections
\* hold users and groups only.
THEOREM RealtimeTypeCorrect == RSpec => []RTypeOK
<1>1. EarnInv => RTypeOK
    BY DEF EarnInv
<1> QED BY <1>1, InitEarnInv, NextEarnInv, PTL DEF RSpec

\* Nobody listens to a live group they were not let into, however handshakes,
\* answers, removals and lost replies overlap.
THEOREM RoomsAreEarned == RSpec => []RoomsEarned
<1>1. EarnInv => RoomsEarned
    BY DEF EarnInv, RoomsEarned, Entitled, Reaches, RTypeOK, Socket
<1> QED BY <1>1, InitEarnInv, NextEarnInv, PTL DEF RSpec

=============================================================================

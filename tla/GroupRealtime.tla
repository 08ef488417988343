---------------------------- MODULE GroupRealtime ----------------------------
(***************************************************************************)
(* Group rooms: the handshake of apps/api/src/modules/realtime/            *)
(* realtime.gateway.ts (handleConnection, handleDisconnect) and            *)
(* joinUserSocketsToGroup of realtime-events.service.ts, composed with the *)
(* handlers of GroupService that call it after their write.                *)
(*                                                                         *)
(* `sock[s]` is one connection as the server sees it.  A room is a set of  *)
(* sockets; here each socket has the set of groups whose room it is in.    *)
(* The adapter is Socket.IO's in-memory one: join and socketsJoin take     *)
(* effect at the call.                                                     *)
(***************************************************************************)
EXTENDS GroupService

CONSTANTS
    Sockets,        \* slots for connections
    LoseReplies     \* may the reply to a committed write be lost?

ASSUME LoseRepliesAssumption == LoseReplies \in BOOLEAN

VARIABLE sock

rvars == <<vars, sock>>

\* joined: in the user's room; listed: memberships read; ready: rooms joined.
Off == [at |-> "off"]
Socket == {Off} \cup
    [at : {"joined", "listed", "ready"}, user : Users,
     toJoin : SUBSET Groups, rooms : SUBSET Groups]

-----------------------------------------------------------------------------
(* handleConnection *)

\* The token is verified and the socket joins userRoom.  A socket without a
\* valid token is closed and never gets this far.
Connect(s, u) ==
    /\ sock[s] = Off
    /\ sock' = [sock EXCEPT ![s] =
                  [at |-> "joined", user |-> u, toJoin |-> {}, rooms |-> {}]]

GroupsOfRows(u) == {<<g, role[g][u]>> : g \in {x \in Groups : IsMember(u, x)}}
GroupsOfAnyone(u) == {g \in Groups : status[g] = "live"}
GroupsOf(u) == {g \in Groups : IsMember(u, g)}

ListMemberships(s) ==
    /\ sock[s].at = "joined"
    /\ sock' = [sock EXCEPT ![s].at = "listed", ![s].toJoin = GroupsOf(sock[s].user)]

JoinRooms(s) ==
    /\ sock[s].at = "listed"
    /\ sock' = [sock EXCEPT ![s].at = "ready", ![s].toJoin = {},
                            ![s].rooms = @ \cup sock[s].toJoin]

\* The connection ends, or the handshake fails and the server closes it:
\* Socket.IO takes the socket out of all rooms.
Disconnect(s) ==
    /\ sock[s] # Off
    /\ sock' = [sock EXCEPT ![s] = Off]

-----------------------------------------------------------------------------
(* joinUserSocketsToGroup *)

InUserRoomWhenReady(s, u) == sock[s].at = "ready" /\ sock[s].user = u
InUserRoom(s, u) == sock[s] # Off /\ sock[s].user = u

SocketsJoin(u, g) ==
    sock' = [s \in Sockets |-> IF InUserRoom(s, u)
                               THEN [sock[s] EXCEPT !.rooms = @ \cup {g}] ELSE sock[s]]

\* The handlers that bring a user into a group: create, acceptInvite, approve.
JoiningPoints == {"create.notify", "accept.notify", "approve.notify"}

NotifyRooms(h) ==
    /\ Notify(h)
    /\ \/ call[h].pc \in JoiningPoints /\ SocketsJoin(call[h].u, call[h].g)
       \/ call[h].pc \notin JoiningPoints /\ UNCHANGED sock

-----------------------------------------------------------------------------
RInit == Init /\ sock = [s \in Sockets |-> Off]

Handshake(s) == ListMemberships(s) \/ JoinRooms(s)

\* A step of handler h after its first query.
Continue(h) ==
    \/ NotifyRooms(h)
    \/ Advance(h) /\ UNCHANGED sock
    \/ /\ call[h].pc \in JoiningPoints => LoseReplies
       /\ Throw(h)
       /\ UNCHANGED sock

RNext ==
    \/ \E h \in Handlers : Arrive(h) /\ UNCHANGED sock
    \/ \E h \in Handlers : Continue(h)
    \/ \E s \in Sockets :
        /\ (\E u \in Users : Connect(s, u)) \/ Handshake(s) \/ Disconnect(s)
        /\ UNCHANGED vars
    \/ Crash /\ sock' = [s \in Sockets |-> Off]

RSpec == RInit /\ [][RNext]_rvars

\* A request that was taken up is answered (the database replies or fails),
\* and so is a handshake; nobody has to connect or to send a request.
RFairSpec ==
    /\ RSpec
    /\ \A h \in Handlers : WF_rvars(Continue(h))
    /\ \A s \in Sockets : WF_rvars(Handshake(s) /\ UNCHANGED vars)

-----------------------------------------------------------------------------
(* Properties. *)

\* Every connection has its type.
RTypeOK == sock \in [Sockets -> Socket]

\* An admission whose handler has yet to call joinUserSocketsToGroup.
JoinInFlight(g, u) ==
    \E h \in Handlers : call[h].pc \in JoiningPoints /\ call[h].g = g /\ call[h].u = u

\* A handshake and an admission that overlap never both miss each other: once
\* its handshake is over, a connection is in the room of every group its user
\* is in, or a handler that has just committed is about to put it there.  It
\* rests on the user's room being joined before the memberships are read
\* (gateway 72-77) and on socketsJoin coming after the commit.
Covered(s) ==
    \A g \in Groups : IsMember(sock[s].user, g) =>
        g \in sock[s].rooms \/ JoinInFlight(g, sock[s].user)
RoomCoverage == \A s \in Sockets : sock[s].at = "ready" => Covered(s)

\* Nobody listens to a group they were never admitted to: the user of a
\* connection in a live group's room is its owner, or has an answered
\* invitation or join request for it.
RoomsEarned ==
    \A s \in Sockets : sock[s] # Off =>
        \A g \in sock[s].rooms :
            \/ status[g] # "live"
            \/ sock[s].user = owner[g]
            \/ Answered(invites, g, sock[s].user)
            \/ Answered(joins, g, sock[s].user)

\* A member who is connected gets into the group's room, unless the connection
\* or the membership ends first: no interleaving leaves a member connected and
\* deaf to the group for good.
MembersGetRooms ==
    \A s \in Sockets, g \in Groups :
        (sock[s] # Off /\ IsMember(sock[s].user, g))
            ~> (sock[s] = Off \/ ~IsMember(sock[s].user, g) \/ g \in sock[s].rooms)

\* GroupChatPage.tsx:378 tells a member who leaves that no new message of the
\* group will be received any more: with no request in progress, a connection
\* is only in the rooms of its user's groups.
LeaversHearNothing ==
    (\A h \in Handlers : call[h] = Idle) =>
        \A s \in Sockets : sock[s].at = "ready" =>
            \A g \in sock[s].rooms : status[g] = "live" => IsMember(sock[s].user, g)

=============================================================================

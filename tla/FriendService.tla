---------------------------- MODULE FriendService ----------------------------
(***************************************************************************)
(* Friendship: apps/api/src/modules/friends/friends.service.ts over the    *)
(* tables friend_requests and friendships.                                 *)
(*                                                                         *)
(* As in GroupService a handler is a sequence of awaited queries, each one *)
(* atomic step of the database; a failed check, a failed query and an      *)
(* aborted transaction all end the handler (Throw).                        *)
(*                                                                         *)
(* Users are numbers, in the order localeCompare gives their ids, so that  *)
(* sortFriendPair is modelled by what it does.                             *)
(***************************************************************************)
EXTENDS Naturals

CONSTANTS
    Users,          \* accounts, ordered
    Requests,       \* ids a row of friend_requests may get
    Friendships,    \* ids a row of friendships may get
    Handlers        \* slots for requests being handled at the same time

ASSUME UsersAssumption == Users \subseteq Nat

VARIABLES
    requests,       \* friend_requests
    friendships,    \* friendships
    call            \* the handlers

tables == <<requests, friendships>>
vars == <<requests, friendships, call>>

-----------------------------------------------------------------------------
(* The tables. *)

FreeRow == [st |-> "free"]
RequestRow == {FreeRow} \cup
    [st : {"pending", "accepted", "rejected"}, from : Users, to : Users]
FriendshipRow == {FreeRow} \cup [st : {"live", "removed"}, a : Users, b : Users]

UnsortedPair(u, v) == <<u, v>>
SortFriendPair(u, v) == IF u < v THEN <<u, v>> ELSE <<v, u>>

\* Row f is the friendship of u and v: what findUnique on the pair returns.
IsFriendshipOf(f, u, v) ==
    /\ friendships[f].st = "live"
    /\ <<friendships[f].a, friendships[f].b>> = SortFriendPair(u, v)
AreFriends(u, v) == \E f \in Friendships : IsFriendshipOf(f, u, v)

HasRequest(u, v, st) ==
    \E i \in Requests : requests[i].st = st /\ requests[i].from = u /\ requests[i].to = v

\* An update of row i to status st: the unique index (requester, addressee,
\* status) has no other row like it.  Requests are never deleted.
Updatable(i, st) ==
    \A j \in Requests \ {i} : requests[j].st = st =>
        ~(requests[j].from = requests[i].from /\ requests[j].to = requests[i].to)

\* update({ where: { id }, data: { status } }): whatever the status was.
AnswerOutsideEnum(i, st) == requests' = [requests EXCEPT ![i].st = "closed"]
Answer(i, st) == requests' = [requests EXCEPT ![i].st = st]

-----------------------------------------------------------------------------
(* The handlers. *)

Idle == [pc |-> "idle"]

Call == {Idle}
    \cup [pc : {"request.pending", "request.create", "request.notify", "remove.notify"},
          u : Users, v : Users]
    \cup [pc : {"accept.commit", "accept.notify", "reject.commit"}, u : Users, row : Requests]
    \cup [pc : {"remove.commit"}, u : Users, v : Users, f : Friendships]

Start(h, c) == call[h] = Idle /\ call' = [call EXCEPT ![h] = c]
At(h, pc) == call[h].pc = pc
Goto(h, pc) == call' = [call EXCEPT ![h].pc = pc]
Return(h) == call' = [call EXCEPT ![h] = Idle]

\* A check, a query or a transaction of h fails, or its reply is lost.
Throw(h) ==
    /\ call[h] # Idle
    /\ Return(h)
    /\ UNCHANGED tables

\* The emits and the response.
Notify(h) ==
    /\ call[h].pc \in {"request.notify", "accept.notify", "remove.notify"}
    /\ Return(h)
    /\ UNCHANGED tables

\* The API process stops; the database stays.
Crash ==
    /\ call' = [h \in Handlers |-> Idle]
    /\ UNCHANGED tables

-----------------------------------------------------------------------------
(* createRequest: not to oneself, not to a friend, and not while a request  *)
(* is pending in either direction.                                          *)

CreateRequest(h, u, v) ==
    /\ u # v
    /\ ~AreFriends(u, v)
    /\ Start(h, [pc |-> "request.pending", u |-> u, v |-> v])
    /\ UNCHANGED tables

RequestCheckPending(h) ==
    /\ At(h, "request.pending")
    /\ ~HasRequest(call[h].u, call[h].v, "pending")
    /\ ~HasRequest(call[h].v, call[h].u, "pending")
    /\ Goto(h, "request.create")
    /\ UNCHANGED tables

IndexIgnored(u, v) == TRUE
IndexAllowsPending(u, v) == ~HasRequest(u, v, "pending")

RequestCreate(h) ==
    LET c == call[h] IN
    /\ At(h, "request.create")
    /\ IndexAllowsPending(c.u, c.v)
    /\ \E i \in Requests :
        /\ requests[i] = FreeRow
        /\ requests' = [requests EXCEPT ![i] = [st |-> "pending", from |-> c.u, to |-> c.v]]
    /\ Goto(h, "request.notify")
    /\ UNCHANGED friendships

-----------------------------------------------------------------------------
(* accept and reject: the addressee's own pending request. *)

OwnPending(i, u) == requests[i].st = "pending" /\ requests[i].to = u

OnRequest(pc, u, i) == [pc |-> pc, u |-> u, row |-> i]

Accept(h, u, i) ==
    /\ OwnPending(i, u)
    /\ Start(h, OnRequest("accept.commit", u, i))
    /\ UNCHANGED tables

\* friendship.upsert with an empty update.
UpsertSkipped(u, v) == UNCHANGED friendships
UpsertFriendship(u, v) ==
    \/ AreFriends(u, v) /\ UNCHANGED friendships
    \/ /\ ~AreFriends(u, v)
       /\ \E f \in Friendships :
            /\ friendships[f] = FreeRow
            /\ friendships' = [friendships EXCEPT ![f] =
                    [st |-> "live", a |-> SortFriendPair(u, v)[1], b |-> SortFriendPair(u, v)[2]]]

AcceptCommit(h) ==
    LET c == call[h] IN
    /\ At(h, "accept.commit")
    /\ Updatable(c.row, "accepted")
    /\ UpsertFriendship(requests[c.row].from, requests[c.row].to)
    /\ Answer(c.row, "accepted")
    /\ Goto(h, "accept.notify")

Reject(h, u, i) ==
    /\ OwnPending(i, u)
    /\ Start(h, OnRequest("reject.commit", u, i))
    /\ UNCHANGED tables

RejectCommit(h) ==
    LET c == call[h] IN
    /\ At(h, "reject.commit")
    /\ Updatable(c.row, "rejected")
    /\ Answer(c.row, "rejected")
    /\ Return(h)
    /\ UNCHANGED friendships

-----------------------------------------------------------------------------
(* remove: the row is found by the pair and deleted by its id. *)

Remove(h, u, v, f) ==
    /\ IsFriendshipOf(f, u, v)
    /\ Start(h, [pc |-> "remove.commit", u |-> u, v |-> v, f |-> f])
    /\ UNCHANGED tables

RemoveCommit(h) ==
    LET c == call[h] IN
    /\ At(h, "remove.commit")
    /\ friendships[c.f].st = "live"
    /\ friendships' = [friendships EXCEPT ![c.f].st = "removed"]
    /\ call' = [call EXCEPT ![h] = [pc |-> "remove.notify", u |-> c.u, v |-> c.v]]
    /\ UNCHANGED requests

-----------------------------------------------------------------------------
Init ==
    /\ requests = [i \in Requests |-> FreeRow]
    /\ friendships = [f \in Friendships |-> FreeRow]
    /\ call = [h \in Handlers |-> Idle]

Arrive(h) ==
    \E u \in Users :
        \/ \E v \in Users : CreateRequest(h, u, v)
        \/ \E i \in Requests : Accept(h, u, i) \/ Reject(h, u, i)
        \/ \E v \in Users, f \in Friendships : Remove(h, u, v, f)

Advance(h) ==
    \/ RequestCheckPending(h) \/ RequestCreate(h)
    \/ AcceptCommit(h) \/ RejectCommit(h)
    \/ RemoveCommit(h)

Next ==
    \/ \E h \in Handlers : Arrive(h) \/ Advance(h) \/ Notify(h) \/ Throw(h)
    \/ Crash

Spec == Init /\ [][Next]_vars

-----------------------------------------------------------------------------
(* Properties. *)

\* Every variable has its type.
TypeOK ==
    /\ requests \in [Requests -> RequestRow]
    /\ friendships \in [Friendships -> FriendshipRow]
    /\ call \in [Handlers -> Call]

\* Two users share at most one friendship row, whoever asked whom and however
\* acceptances of crossing requests overlap: removing it ends the friendship.
OneFriendshipPerPair ==
    \A f, g \in Friendships :
        f # g /\ friendships[f].st = "live" /\ friendships[g].st = "live" =>
            {friendships[f].a, friendships[f].b} # {friendships[g].a, friendships[g].b}

\* Nobody becomes a friend unasked: behind every friendship is a request
\* between the two that its addressee has answered, even when an acceptance
\* and a rejection of it overlapped.
Asked(u, v) == HasRequest(u, v, "accepted") \/ HasRequest(u, v, "rejected")
FriendshipHasRequest ==
    \A f \in Friendships : friendships[f].st = "live" =>
        \/ Asked(friendships[f].a, friendships[f].b)
        \/ Asked(friendships[f].b, friendships[f].a)

\* createRequest looks for a pending request and then inserts one: two of the
\* same requester never both succeed.
OneRequestPerDirection ==
    \A i, j \in Requests :
        i # j /\ requests[i] # FreeRow /\ requests[j].st = requests[i].st =>
            ~(requests[i].from = requests[j].from /\ requests[i].to = requests[j].to)

\* The transaction of accept is whole: a request turns accepted in the step
\* that makes (or finds) the friendship of its two users.
AcceptedMeansFriends ==
    [][\A i \in Requests :
        requests[i].st # "accepted" /\ requests'[i].st = "accepted" =>
            \E f \in Friendships :
                /\ friendships'[f].st = "live"
                /\ {friendships'[f].a, friendships'[f].b} =
                        {requests'[i].from, requests'[i].to}]_vars

(* FriendService implements Friendship: however checks, answers and removals *)
(* of several handlers overlap, each step of the tables is one whole step of *)
(* it, or none.                                                              *)
RequestPair(i) == <<requests[i].from, requests[i].to>>
AskedPairs == {RequestPair(i) : i \in {j \in Requests : requests[j] # FreeRow}}
AnsweredPairs ==
    {RequestPair(i) : i \in {j \in Requests : requests[j].st \in {"accepted", "rejected"}}}
AcceptedPairs == {RequestPair(i) : i \in {j \in Requests : requests[j].st = "accepted"}}
FriendPairs ==
    {{friendships[f].a, friendships[f].b} :
        f \in {g \in Friendships : friendships[g].st = "live"}}

Promise == INSTANCE Friendship
    WITH asked <- AskedPairs, answered <- AnsweredPairs, accepted <- AcceptedPairs,
         friends <- FriendPairs
FriendsByConsent == Promise!Spec

\* The addressee checked when a request is read still stands when it is
\* answered: only a handler of the addressee changes its status.
OnlyAddresseeAnswers ==
    [][\A i \in Requests :
        requests[i].st # requests'[i].st /\ requests[i] # FreeRow =>
            \E h \in Handlers : call[h] # call'[h] /\ call[h].u = requests[i].to]_vars

=============================================================================

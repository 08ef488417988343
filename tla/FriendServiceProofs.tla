------------------------- MODULE FriendServiceProofs -------------------------
(***************************************************************************)
(* Proofs about FriendService, for any set of users, rows and handlers.    *)
(***************************************************************************)
EXTENDS FriendService, TLAPS

-----------------------------------------------------------------------------
(* What the handlers' shorthands do to the types. *)

PairPoints == {"request.pending", "request.create", "request.notify", "remove.notify"}
RowPoints == {"accept.commit", "accept.notify", "reject.commit"}

LEMMA IdleIsCall == Idle \in Call
BY DEF Idle, Call

LEMMA PointsOfCall ==
    ASSUME NEW c \in Call
    PROVE  /\ c.pc \in PairPoints => c \in [pc : PairPoints, u : Users, v : Users]
           /\ c.pc \in RowPoints => c \in [pc : RowPoints, u : Users, row : Requests]
           /\ c.pc = "remove.commit" =>
                c \in [pc : {"remove.commit"}, u : Users, v : Users, f : Friendships]
BY DEF Call, Idle, PairPoints, RowPoints

LEMMA StartIsCall ==
    ASSUME call \in [Handlers -> Call], NEW h \in Handlers, NEW c \in Call, Start(h, c)
    PROVE  call' \in [Handlers -> Call]
BY DEF Start

LEMMA ReturnIsCall ==
    ASSUME call \in [Handlers -> Call], NEW h \in Handlers, Return(h)
    PROVE  call' \in [Handlers -> Call]
BY IdleIsCall DEF Return

LEMMA GotoIsCall ==
    ASSUME call \in [Handlers -> Call], NEW h \in Handlers, NEW pc, Goto(h, pc),
           \/ call[h].pc \in PairPoints /\ pc \in PairPoints
           \/ call[h].pc \in RowPoints /\ pc \in RowPoints
    PROVE  /\ call' \in [Handlers -> Call]
           /\ call'[h].pc = pc
           /\ \A k \in Handlers \ {h} : call'[k] = call[k]
<1> DEFINE c == [call[h] EXCEPT !.pc = pc]
<1>1. c \in Call /\ c.pc = pc
    BY PointsOfCall DEF Call, PairPoints, RowPoints
<1>2. call' = [call EXCEPT ![h] = c]
    BY DEF Goto
<1> QED BY <1>1, <1>2

-----------------------------------------------------------------------------
(* sortFriendPair: the result is ordered, and it does not depend on who is   *)
(* named first, so that an unordered pair has one key.                       *)

LEMMA SortedPair ==
    ASSUME NEW u \in Users, NEW v \in Users
    PROVE  /\ SortFriendPair(u, v) = SortFriendPair(v, u)
           /\ SortFriendPair(u, v)[1] \in Users /\ SortFriendPair(u, v)[2] \in Users
           /\ SortFriendPair(u, v)[1] <= SortFriendPair(u, v)[2]
           /\ {SortFriendPair(u, v)[1], SortFriendPair(u, v)[2]} = {u, v}
BY UsersAssumption DEF SortFriendPair

-----------------------------------------------------------------------------
(* Types. *)

LEMMA InitTypeOK == Init => TypeOK
BY IdleIsCall DEF Init, TypeOK, RequestRow, FriendshipRow

LEMMA ArriveTypeOK ==
    ASSUME TypeOK, NEW h \in Handlers, Arrive(h)
    PROVE  TypeOK' /\ UNCHANGED tables
<1> USE DEF TypeOK
<1>1. ASSUME UNCHANGED tables, call' \in [Handlers -> Call] PROVE TypeOK' /\ UNCHANGED tables
    BY <1>1 DEF tables
<1>2. ASSUME NEW u \in Users, NEW v \in Users, CreateRequest(h, u, v)
      PROVE  TypeOK' /\ UNCHANGED tables
    BY <1>1, <1>2, StartIsCall DEF CreateRequest, Call
<1>3. ASSUME NEW u \in Users, NEW i \in Requests, Accept(h, u, i) \/ Reject(h, u, i)
      PROVE  TypeOK' /\ UNCHANGED tables
    BY <1>1, <1>3, StartIsCall DEF Accept, Reject, OnRequest, Call
<1>4. ASSUME NEW u \in Users, NEW v \in Users, NEW f \in Friendships, Remove(h, u, v, f)
      PROVE  TypeOK' /\ UNCHANGED tables
    BY <1>1, <1>4, StartIsCall DEF Remove, Call
<1> QED BY <1>2, <1>3, <1>4 DEF Arrive

-----------------------------------------------------------------------------
(* The invariant.  A handler that has read a request answers it later by id  *)
(* alone: what stays true meanwhile is that the row is there, between the    *)
(* same two users, and addressed to the acting user.  Every live friendship  *)
(* is stored under the sorted pair, which makes the unique index on the pair *)
(* an index on unordered pairs.                                              *)

AnswersOwnRow ==
    \A h \in Handlers :
        call[h].pc \in {"accept.commit", "reject.commit"} =>
            /\ requests[call[h].row] # FreeRow
            /\ requests[call[h].row].to = call[h].u

PairsSorted ==
    \A f \in Friendships : friendships[f].st = "live" => friendships[f].a <= friendships[f].b

FriendsInv ==
    /\ TypeOK
    /\ AnswersOwnRow
    /\ PairsSorted
    /\ OneFriendshipPerPair
    /\ OneRequestPerDirection
    /\ FriendshipHasRequest

LEMMA InitFriendsInv == Init => FriendsInv
BY InitTypeOK DEF Init, FriendsInv, AnswersOwnRow, PairsSorted, OneFriendshipPerPair,
   OneRequestPerDirection, FriendshipHasRequest, FreeRow, Idle

LEMMA SameTables ==
    ASSUME FriendsInv, TypeOK', AnswersOwnRow', UNCHANGED tables
    PROVE  FriendsInv'
BY DEF FriendsInv, PairsSorted, OneFriendshipPerPair, OneRequestPerDirection,
   FriendshipHasRequest, Asked, HasRequest, tables

LEMMA ArriveFriendsInv ==
    ASSUME FriendsInv, NEW h \in Handlers, Arrive(h)
    PROVE  FriendsInv'
<1> USE DEF FriendsInv
<1>1. TypeOK' /\ UNCHANGED tables
    BY ArriveTypeOK
<1>2. AnswersOwnRow'
    <2>1. ASSUME NEW c, Start(h, c),
                 c.pc \in {"accept.commit", "reject.commit"} =>
                    requests[c.row] # FreeRow /\ requests[c.row].to = c.u
          PROVE  AnswersOwnRow'
        BY <1>1, <2>1 DEF Start, AnswersOwnRow, tables, TypeOK
    <2>2. ASSUME NEW u \in Users, NEW v \in Users, CreateRequest(h, u, v) PROVE AnswersOwnRow'
        BY <2>1, <2>2 DEF CreateRequest
    <2>3. ASSUME NEW u \in Users, NEW i \in Requests, Accept(h, u, i) \/ Reject(h, u, i)
          PROVE  AnswersOwnRow'
        BY <2>1, <2>3 DEF Accept, Reject, OwnPending, OnRequest, FreeRow
    <2>4. ASSUME NEW u \in Users, NEW v \in Users, NEW f \in Friendships, Remove(h, u, v, f)
          PROVE  AnswersOwnRow'
        BY <2>1, <2>4 DEF Remove
    <2> QED BY <2>2, <2>3, <2>4 DEF Arrive
<1> QED BY <1>1, <1>2, SameTables

\* A step of one handler that keeps the addressee of every request.
LEMMA OthersAnswerOwnRow ==
    ASSUME TypeOK, AnswersOwnRow, NEW h \in Handlers,
           \A k \in Handlers \ {h} : call'[k] = call[k],
           call'[h].pc \notin {"accept.commit", "reject.commit"},
           \A i \in Requests : requests[i] # FreeRow =>
                requests'[i] # FreeRow /\ requests'[i].to = requests[i].to
    PROVE  AnswersOwnRow'
<1> SUFFICES ASSUME NEW k \in Handlers, call'[k].pc \in {"accept.commit", "reject.commit"}
             PROVE  /\ requests'[call'[k].row] # FreeRow
                    /\ requests'[call'[k].row].to = call'[k].u
    BY DEF AnswersOwnRow
<1>1. call'[k] = call[k]
    OBVIOUS
<1>2. call[k].row \in Requests
    BY <1>1, PointsOfCall DEF TypeOK, RowPoints
<1> QED BY <1>1, <1>2 DEF AnswersOwnRow

LEMMA RequestCheckPendingInv ==
    ASSUME FriendsInv, NEW h \in Handlers, RequestCheckPending(h)
    PROVE  FriendsInv'
<1>1. /\ call' \in [Handlers -> Call]
      /\ call'[h].pc = "request.create"
      /\ \A k \in Handlers \ {h} : call'[k] = call[k]
    BY GotoIsCall DEF RequestCheckPending, FriendsInv, TypeOK, At, PairPoints
<1>2. TypeOK'
    BY <1>1 DEF RequestCheckPending, FriendsInv, TypeOK, tables
<1>3. AnswersOwnRow'
    BY <1>1, OthersAnswerOwnRow DEF RequestCheckPending, FriendsInv, tables
<1> QED BY <1>2, <1>3, SameTables DEF RequestCheckPending

LEMMA RequestCreateInv ==
    ASSUME FriendsInv, NEW h \in Handlers, RequestCreate(h)
    PROVE  FriendsInv'
<1> USE DEF FriendsInv
<1> DEFINE c == call[h]
<1>1. c.u \in Users /\ c.v \in Users
    BY PointsOfCall DEF RequestCreate, At, TypeOK, PairPoints
<1>2. PICK i \in Requests :
        /\ requests[i] = FreeRow
        /\ requests' = [requests EXCEPT ![i] = [st |-> "pending", from |-> c.u, to |-> c.v]]
    BY DEF RequestCreate
<1>3. UNCHANGED friendships /\ Goto(h, "request.notify") /\ ~HasRequest(c.u, c.v, "pending")
    BY DEF RequestCreate, IndexAllowsPending
<1>10. /\ call' \in [Handlers -> Call]
       /\ call'[h].pc = "request.notify"
       /\ \A k \in Handlers \ {h} : call'[k] = call[k]
    BY <1>3, GotoIsCall DEF RequestCreate, At, TypeOK, PairPoints
<1>4. TypeOK'
    BY <1>1, <1>2, <1>3, <1>10 DEF TypeOK, RequestRow
<1>5. \A j \in Requests : j # i => requests'[j] = requests[j]
    BY <1>2 DEF TypeOK
<1>6. requests'[i] = [st |-> "pending", from |-> c.u, to |-> c.v]
    BY <1>2 DEF TypeOK
<1>7. AnswersOwnRow'
    BY <1>2, <1>5, <1>10, OthersAnswerOwnRow
<1>8. OneRequestPerDirection'
    <2> SUFFICES ASSUME NEW j \in Requests, NEW k \in Requests, j # k, requests'[j] # FreeRow,
                        requests'[j].st = requests'[k].st,
                        requests'[j].from = requests'[k].from, requests'[j].to = requests'[k].to
                 PROVE  FALSE
        BY DEF OneRequestPerDirection
    <2>1. CASE j = i
        BY <1>3, <1>5, <1>6, <2>1 DEF HasRequest
    <2>2. CASE k = i
        BY <1>3, <1>5, <1>6, <2>2 DEF HasRequest
    <2>3. CASE j # i /\ k # i
        BY <1>5, <2>3 DEF OneRequestPerDirection
    <2> QED BY <2>1, <2>2, <2>3
<1>9. FriendshipHasRequest'
    <2>1. \A u, v : Asked(u, v) => Asked(u, v)'
        BY <1>2, <1>5 DEF Asked, HasRequest, FreeRow
    <2> QED BY <1>3, <2>1 DEF FriendshipHasRequest
<1> QED BY <1>3, <1>4, <1>7, <1>8, <1>9 DEF PairsSorted, OneFriendshipPerPair

\* An update of a request's status keeps the index and what was answered.
LEMMA AnswerFacts ==
    ASSUME TypeOK, OneRequestPerDirection, NEW i \in Requests, requests[i] # FreeRow,
           NEW st \in {"accepted", "rejected"}, Updatable(i, st), Answer(i, st)
    PROVE  /\ requests' \in [Requests -> RequestRow]
           /\ OneRequestPerDirection'
           /\ \A j \in Requests : requests[j] # FreeRow =>
                requests'[j] # FreeRow /\ requests'[j].to = requests[j].to
           /\ \A u, v : Asked(u, v) => Asked(u, v)'
           /\ \E j \in Requests : /\ requests'[j].st = st
                                 /\ requests'[j].from = requests[i].from
                                 /\ requests'[j].to = requests[i].to
<1>1. \A j \in Requests : j # i => requests'[j] = requests[j]
    BY DEF Answer, TypeOK
<1>2. requests[i] \in [st : {"pending", "accepted", "rejected"}, from : Users, to : Users]
    BY DEF TypeOK, RequestRow
<1>3. /\ requests'[i] = [st |-> st, from |-> requests[i].from, to |-> requests[i].to]
      /\ requests' \in [Requests -> RequestRow]
    BY <1>2 DEF Answer, TypeOK, RequestRow
<1>4. OneRequestPerDirection'
    <2> SUFFICES ASSUME NEW j \in Requests, NEW k \in Requests, j # k, requests'[j] # FreeRow,
                        requests'[j].st = requests'[k].st,
                        requests'[j].from = requests'[k].from, requests'[j].to = requests'[k].to
                 PROVE  FALSE
        BY DEF OneRequestPerDirection
    <2>1. CASE j = i
        BY <1>1, <1>3, <2>1 DEF Updatable
    <2>2. CASE k = i
        BY <1>1, <1>3, <2>2 DEF Updatable
    <2>3. CASE j # i /\ k # i
        BY <1>1, <2>3 DEF OneRequestPerDirection
    <2> QED BY <2>1, <2>2, <2>3
<1>5. \A u, v : Asked(u, v) => Asked(u, v)'
    <2> SUFFICES ASSUME NEW u, NEW v, NEW j \in Requests,
                        requests[j].st \in {"accepted", "rejected"},
                        requests[j].from = u, requests[j].to = v
                 PROVE  /\ requests'[j].st \in {"accepted", "rejected"}
                        /\ requests'[j].from = u /\ requests'[j].to = v
        BY DEF Asked, HasRequest
    <2>1. CASE j = i
        BY <1>3, <2>1
    <2>2. CASE j # i
        BY <1>1, <2>2
    <2> QED BY <2>1, <2>2
<1> QED BY <1>1, <1>3, <1>4, <1>5 DEF FreeRow

LEMMA AcceptCommitInv ==
    ASSUME FriendsInv, NEW h \in Handlers, AcceptCommit(h)
    PROVE  FriendsInv'
<1> USE DEF FriendsInv
<1>1. PICK i \in Requests : i = call[h].row /\ requests[i] # FreeRow
    BY PointsOfCall DEF AcceptCommit, At, TypeOK, RowPoints, AnswersOwnRow
<1>8. PICK u \in Users, v \in Users : u = requests[i].from /\ v = requests[i].to
    BY <1>1 DEF TypeOK, RequestRow
<1>2. Updatable(i, "accepted") /\ Answer(i, "accepted") /\ UpsertFriendship(u, v)
      /\ Goto(h, "accept.notify")
    BY <1>1, <1>8 DEF AcceptCommit
<1>3. /\ requests' \in [Requests -> RequestRow]
      /\ OneRequestPerDirection'
      /\ \A j \in Requests : requests[j] # FreeRow =>
            requests'[j] # FreeRow /\ requests'[j].to = requests[j].to
      /\ \A x, y : Asked(x, y) => Asked(x, y)'
      /\ HasRequest(u, v, "accepted")'
    BY <1>1, <1>2, <1>8, AnswerFacts DEF HasRequest
<1>4. /\ call' \in [Handlers -> Call]
      /\ call'[h].pc = "accept.notify"
      /\ \A k \in Handlers \ {h} : call'[k] = call[k]
    BY <1>2, GotoIsCall DEF AcceptCommit, At, TypeOK, RowPoints
<1>5. AnswersOwnRow'
    BY <1>3, <1>4, OthersAnswerOwnRow
<1>6. CASE UNCHANGED friendships
    BY <1>3, <1>4, <1>5, <1>6
       DEF TypeOK, PairsSorted, OneFriendshipPerPair, FriendshipHasRequest
<1>7. CASE ~AreFriends(u, v) /\ friendships' # friendships
    <2> DEFINE p == SortFriendPair(u, v)
    <2>1. PICK f \in Friendships :
            /\ friendships[f] = FreeRow
            /\ friendships' = [friendships EXCEPT ![f] = [st |-> "live", a |-> p[1], b |-> p[2]]]
        BY <1>2, <1>7 DEF UpsertFriendship
    <2>2. p[1] \in Users /\ p[2] \in Users /\ p[1] <= p[2] /\ p = <<p[1], p[2]>>
          /\ (p = <<u, v>> \/ p = <<v, u>>)
        BY SortedPair DEF SortFriendPair
    <2>3. /\ friendships'[f] = [st |-> "live", a |-> p[1], b |-> p[2]]
          /\ \A g \in Friendships : g # f => friendships'[g] = friendships[g]
        BY <2>1 DEF TypeOK
    <2>4. TypeOK'
        BY <1>3, <1>4, <2>1, <2>2 DEF TypeOK, FriendshipRow
    <2>5. PairsSorted'
        BY <2>2, <2>3 DEF PairsSorted
    <2>6. OneFriendshipPerPair'
        <3>1. ASSUME NEW g \in Friendships, g # f, friendships[g].st = "live"
              PROVE  {friendships[g].a, friendships[g].b} # {p[1], p[2]}
            <4>1. friendships[g] \in [st : {"live", "removed"}, a : Users, b : Users]
                BY <3>1 DEF TypeOK, FriendshipRow, FreeRow
            <4>2. <<friendships[g].a, friendships[g].b>> # p
                BY <1>7, <3>1 DEF AreFriends, IsFriendshipOf
            <4>3. friendships[g].a <= friendships[g].b
                BY <3>1 DEF PairsSorted
            <4> DEFINE x == friendships[g].a
            <4> DEFINE y == friendships[g].b
            <4>4. x \in Nat /\ y \in Nat /\ p[1] \in Nat /\ p[2] \in Nat
                BY <2>2, <4>1, UsersAssumption
            <4>5. x # p[1] \/ y # p[2]
                BY <2>2, <4>2
            <4> HIDE DEF x, y, p
            <4>6. {x, y} # {p[1], p[2]}
                BY <2>2, <4>3, <4>4, <4>5 DEF x, y
            <4> QED BY <4>6 DEF x, y, p
        <3> SUFFICES ASSUME NEW g \in Friendships, NEW k \in Friendships, g # k,
                            friendships'[g].st = "live", friendships'[k].st = "live"
                     PROVE  {friendships'[g].a, friendships'[g].b} #
                                {friendships'[k].a, friendships'[k].b}
            BY DEF OneFriendshipPerPair
        <3>2. CASE g = f
            BY <2>3, <3>1, <3>2
        <3>3. CASE k = f
            BY <2>3, <3>1, <3>3
        <3>4. CASE g # f /\ k # f
            BY <2>3, <3>4 DEF OneFriendshipPerPair
        <3> QED BY <3>2, <3>3, <3>4
    <2>7. FriendshipHasRequest'
        <3> SUFFICES ASSUME NEW g \in Friendships, friendships'[g].st = "live",
                            NEW x, NEW y, x = friendships'[g].a, y = friendships'[g].b
                     PROVE  Asked(x, y)' \/ Asked(y, x)'
            BY DEF FriendshipHasRequest, Asked, HasRequest
        <3>1. CASE g = f
            BY <1>3, <2>2, <2>3, <3>1 DEF Asked
        <3>2. CASE g # f
            BY <1>3, <2>3, <3>2 DEF FriendshipHasRequest
        <3> QED BY <3>1, <3>2
    <2> QED BY <1>3, <1>5, <2>4, <2>5, <2>6, <2>7
<1> QED BY <1>2, <1>6, <1>7 DEF UpsertFriendship

LEMMA RejectCommitInv ==
    ASSUME FriendsInv, NEW h \in Handlers, RejectCommit(h)
    PROVE  FriendsInv'
<1> USE DEF FriendsInv
<1> DEFINE i == call[h].row
<1>1. i \in Requests /\ requests[i] # FreeRow
    BY PointsOfCall DEF RejectCommit, At, TypeOK, RowPoints, AnswersOwnRow
<1>2. Updatable(i, "rejected") /\ Answer(i, "rejected") /\ Return(h) /\ UNCHANGED friendships
    BY DEF RejectCommit
<1>3. /\ requests' \in [Requests -> RequestRow]
      /\ OneRequestPerDirection'
      /\ \A j \in Requests : requests[j] # FreeRow =>
            requests'[j] # FreeRow /\ requests'[j].to = requests[j].to
      /\ \A x, y : Asked(x, y) => Asked(x, y)'
    BY <1>1, <1>2, AnswerFacts
<1>4. call' \in [Handlers -> Call]
    BY <1>2, ReturnIsCall DEF TypeOK
<1>5. AnswersOwnRow'
    BY <1>2, <1>3, OthersAnswerOwnRow DEF Return, Idle, TypeOK
<1> QED BY <1>2, <1>3, <1>4, <1>5
        DEF TypeOK, PairsSorted, OneFriendshipPerPair, FriendshipHasRequest

LEMMA RemoveCommitInv ==
    ASSUME FriendsInv, NEW h \in Handlers, RemoveCommit(h)
    PROVE  FriendsInv'
<1> USE DEF FriendsInv
<1> DEFINE c == call[h]
<1> DEFINE done == [pc |-> "remove.notify", u |-> c.u, v |-> c.v]
<1>1. c.f \in Friendships /\ c.u \in Users /\ c.v \in Users
    BY PointsOfCall DEF RemoveCommit, At, TypeOK
<1>2. /\ friendships' = [friendships EXCEPT ![c.f].st = "removed"]
      /\ call' = [call EXCEPT ![h] = done]
      /\ friendships[c.f].st = "live"
      /\ UNCHANGED requests
    BY DEF RemoveCommit
<1>3. TypeOK'
    <2>1. done \in Call
        BY <1>1 DEF Call
    <2>2. friendships[c.f] \in [st : {"live", "removed"}, a : Users, b : Users]
        BY <1>1, <1>2 DEF TypeOK, FriendshipRow, FreeRow
    <2> QED BY <1>2, <2>1, <2>2 DEF TypeOK, FriendshipRow
<1>4. AnswersOwnRow'
    BY <1>2, OthersAnswerOwnRow DEF TypeOK
<1>5. \A g \in Friendships : friendships'[g].st = "live" =>
            friendships[g].st = "live" /\ friendships'[g] = friendships[g]
    BY <1>1, <1>2 DEF TypeOK
<1>6. PairsSorted' /\ OneFriendshipPerPair'
    BY <1>5 DEF PairsSorted, OneFriendshipPerPair
<1>7. OneRequestPerDirection' /\ FriendshipHasRequest'
    BY <1>2, <1>5 DEF OneRequestPerDirection, FriendshipHasRequest, Asked, HasRequest
<1> QED BY <1>3, <1>4, <1>6, <1>7

LEMMA NextFriendsInv == FriendsInv /\ [Next]_vars => FriendsInv'
<1> SUFFICES ASSUME FriendsInv, [Next]_vars PROVE FriendsInv'
    OBVIOUS
<1>1. ASSUME NEW h \in Handlers, Advance(h) PROVE FriendsInv'
    BY <1>1, RequestCheckPendingInv, RequestCreateInv, AcceptCommitInv, RejectCommitInv,
       RemoveCommitInv DEF Advance
<1>2. ASSUME NEW h \in Handlers, Notify(h) \/ Throw(h) PROVE FriendsInv'
    <2>1. UNCHANGED tables /\ Return(h)
        BY <1>2 DEF Notify, Throw
    <2>2. TypeOK'
        BY <2>1, ReturnIsCall DEF FriendsInv, TypeOK, tables
    <2>3. AnswersOwnRow'
        BY <2>1, OthersAnswerOwnRow DEF FriendsInv, Return, Idle, tables, TypeOK
    <2> QED BY <2>1, <2>2, <2>3, SameTables
<1>3. CASE Crash
    <2>1. TypeOK' /\ AnswersOwnRow'
        BY <1>3, IdleIsCall DEF Crash, FriendsInv, TypeOK, AnswersOwnRow, Idle, tables
    <2> QED BY <1>3, <2>1, SameTables DEF Crash
<1>4. CASE UNCHANGED vars
    <2>1. TypeOK' /\ AnswersOwnRow'
        BY <1>4 DEF vars, FriendsInv, TypeOK, AnswersOwnRow
    <2> QED BY <1>4, <2>1, SameTables DEF vars, tables
<1> QED BY <1>1, <1>2, <1>3, <1>4, ArriveFriendsInv DEF Next

-----------------------------------------------------------------------------
\* The tables of friends and their handlers are well typed.
THEOREM TypeCorrect == Spec => []TypeOK
<1>1. FriendsInv => TypeOK
    BY DEF FriendsInv
<1> QED BY <1>1, InitFriendsInv, NextFriendsInv, PTL DEF Spec

\* However acceptances of crossing requests overlap, a pair has one friendship.
THEOREM PairsAreFriendsOnce == Spec => []OneFriendshipPerPair
<1>1. FriendsInv => OneFriendshipPerPair
    BY DEF FriendsInv
<1> QED BY <1>1, InitFriendsInv, NextFriendsInv, PTL DEF Spec

\* Two checks that both found no pending request store at most one.
THEOREM RequestsAreUnique == Spec => []OneRequestPerDirection
<1>1. FriendsInv => OneRequestPerDirection
    BY DEF FriendsInv
<1> QED BY <1>1, InitFriendsInv, NextFriendsInv, PTL DEF Spec

\* Behind every friendship is a request that was answered, whatever answers raced.
THEOREM NobodyIsFriendUnasked == Spec => []FriendshipHasRequest
<1>1. FriendsInv => FriendshipHasRequest
    BY DEF FriendsInv
<1> QED BY <1>1, InitFriendsInv, NextFriendsInv, PTL DEF Spec

-----------------------------------------------------------------------------
(* What a step does to a request: only the two answers change its status.    *)

LEMMA WhoWrites ==
    ASSUME FriendsInv, [Next]_vars, requests' # requests
    PROVE  \E h \in Handlers : RequestCreate(h) \/ AcceptCommit(h) \/ RejectCommit(h)
<1>1. ASSUME NEW h \in Handlers, Arrive(h) PROVE FALSE
    BY <1>1, ArriveTypeOK DEF tables, FriendsInv
<1>2. ASSUME NEW h \in Handlers, Advance(h)
      PROVE  RequestCreate(h) \/ AcceptCommit(h) \/ RejectCommit(h)
    BY <1>2 DEF Advance, RequestCheckPending, RemoveCommit, tables
<1> QED BY <1>1, <1>2 DEF Next, Notify, Throw, Crash, vars, tables

LEMMA WhoAnswers ==
    ASSUME FriendsInv, [Next]_vars, NEW i \in Requests,
           requests[i] # FreeRow, requests'[i].st # requests[i].st
    PROVE  \E h \in Handlers :
            call[h].row = i /\ (AcceptCommit(h) \/ (RejectCommit(h) /\ requests'[i].st = "rejected"))
<1> USE DEF FriendsInv
<1>1. PICK h \in Handlers : RequestCreate(h) \/ AcceptCommit(h) \/ RejectCommit(h)
    BY WhoWrites
<1>2. ~RequestCreate(h)
    BY DEF RequestCreate, TypeOK
<1>3. call[h].row \in Requests
    BY <1>1, <1>2, PointsOfCall DEF AcceptCommit, RejectCommit, At, TypeOK, RowPoints
<1>4. call[h].row = i
    BY <1>1, <1>2, <1>3 DEF AcceptCommit, RejectCommit, Answer, TypeOK
<1>5. RejectCommit(h) => requests'[i].st = "rejected"
    <2>1. requests[i] \in [st : {"pending", "accepted", "rejected"}, from : Users, to : Users]
        BY DEF TypeOK, RequestRow
    <2> QED BY <1>4, <2>1 DEF RejectCommit, Answer, TypeOK
<1> QED BY <1>1, <1>2, <1>4, <1>5

\* The transaction of accept is whole for every interleaving: the step that
\* accepts a request leaves its two users friends.
THEOREM AcceptanceIsWhole == Spec => AcceptedMeansFriends
<1> DEFINE Whole(i) ==
        requests[i].st # "accepted" /\ requests'[i].st = "accepted" =>
            \E f \in Friendships :
                /\ friendships'[f].st = "live"
                /\ {friendships'[f].a, friendships'[f].b} = {requests'[i].from, requests'[i].to}
<1>1. ASSUME FriendsInv, [Next]_vars, NEW i \in Requests PROVE Whole(i)
    <2> SUFFICES ASSUME requests[i].st # "accepted", requests'[i].st = "accepted"
                 PROVE  \E f \in Friendships :
                            /\ friendships'[f].st = "live"
                            /\ {friendships'[f].a, friendships'[f].b} =
                                    {requests'[i].from, requests'[i].to}
        OBVIOUS
    <2>1. requests[i] # FreeRow
        <3> SUFFICES ASSUME requests[i] = FreeRow PROVE FALSE
            OBVIOUS
        <3>1. PICK h \in Handlers : RequestCreate(h) \/ AcceptCommit(h) \/ RejectCommit(h)
            BY <1>1, WhoWrites
        <3>2. CASE RequestCreate(h)
            BY <1>1, <3>2 DEF RequestCreate, FriendsInv, TypeOK
        <3>3. CASE AcceptCommit(h) \/ RejectCommit(h)
            <4>1. call[h].row \in Requests /\ requests[call[h].row] # FreeRow
                BY <1>1, <3>3, PointsOfCall
                   DEF AcceptCommit, RejectCommit, At, FriendsInv, TypeOK, RowPoints, AnswersOwnRow
            <4> QED BY <1>1, <3>3, <4>1
                    DEF AcceptCommit, RejectCommit, Answer, FriendsInv, TypeOK
        <3> QED BY <3>1, <3>2, <3>3
    <2>2. PICK h \in Handlers : call[h].row = i /\ AcceptCommit(h)
        BY <1>1, <2>1, WhoAnswers
    <2>3. PICK u \in Users, v \in Users : u = requests[i].from /\ v = requests[i].to
        BY <1>1, <2>1 DEF FriendsInv, TypeOK, RequestRow
    <2>4. requests'[i].from = u /\ requests'[i].to = v
        <3>1. requests[i] \in [st : {"pending", "accepted", "rejected"}, from : Users, to : Users]
            BY <1>1, <2>1 DEF FriendsInv, TypeOK, RequestRow
        <3> QED BY <1>1, <2>2, <2>3, <3>1 DEF AcceptCommit, Answer, FriendsInv, TypeOK
    <2>5. UpsertFriendship(u, v)
        BY <2>2, <2>3 DEF AcceptCommit
    <2>6. CASE AreFriends(u, v) /\ UNCHANGED friendships
        BY <1>1, <2>4, <2>6, SortedPair DEF AreFriends, IsFriendshipOf, SortFriendPair
    <2>7. CASE ~AreFriends(u, v)
        <3> DEFINE p == SortFriendPair(u, v)
        <3>1. PICK f \in Friendships :
                friendships' = [friendships EXCEPT ![f] = [st |-> "live", a |-> p[1], b |-> p[2]]]
            BY <2>5, <2>7 DEF UpsertFriendship
        <3>2. friendships'[f] = [st |-> "live", a |-> p[1], b |-> p[2]]
            BY <1>1, <3>1 DEF FriendsInv, TypeOK
        <3>3. {p[1], p[2]} = {u, v}
            BY SortedPair
        <3> QED BY <2>4, <3>2, <3>3
    <2> QED BY <2>5, <2>6, <2>7 DEF UpsertFriendship
<1>2. FriendsInv /\ [Next]_vars =>
        [\A i \in Requests : Whole(i)]_vars
    BY <1>1
<1> HIDE DEF Whole
<1>3. Spec => [][\A i \in Requests : Whole(i)]_vars
    BY <1>2, InitFriendsInv, NextFriendsInv, PTL DEF Spec
<1> QED BY <1>3 DEF Whole, AcceptedMeansFriends

\* The check of the addressee outlives the queries after it: whoever answers a
\* request is its addressee, for every interleaving.
THEOREM AddresseesAnswer == Spec => OnlyAddresseeAnswers
<1> DEFINE ByAddressee(i) ==
        requests[i].st # requests'[i].st /\ requests[i] # FreeRow =>
            \E h \in Handlers : call[h] # call'[h] /\ call[h].u = requests[i].to
<1>1. ASSUME FriendsInv, [Next]_vars, NEW i \in Requests PROVE ByAddressee(i)
    <2> SUFFICES ASSUME requests[i].st # requests'[i].st, requests[i] # FreeRow
                 PROVE  \E h \in Handlers : call[h] # call'[h] /\ call[h].u = requests[i].to
        OBVIOUS
    <2>1. PICK h \in Handlers : call[h].row = i /\ (AcceptCommit(h) \/ RejectCommit(h))
        BY <1>1, WhoAnswers
    <2>2. call[h].u = requests[i].to
        BY <1>1, <2>1 DEF AcceptCommit, RejectCommit, At, FriendsInv, AnswersOwnRow
    <2>3. CASE AcceptCommit(h)
        <3>1. call[h].pc = "accept.commit" /\ call'[h].pc = "accept.notify"
            BY <1>1, <2>3, GotoIsCall DEF AcceptCommit, At, FriendsInv, TypeOK, RowPoints
        <3> QED BY <2>2, <3>1
    <2>4. CASE RejectCommit(h)
        BY <1>1, <2>2, <2>4 DEF RejectCommit, At, Return, Idle, FriendsInv, TypeOK
    <2> QED BY <2>1, <2>3, <2>4
<1>2. FriendsInv /\ [Next]_vars => [\A i \in Requests : ByAddressee(i)]_vars
    BY <1>1
<1> HIDE DEF ByAddressee
<1>3. Spec => [][\A i \in Requests : ByAddressee(i)]_vars
    BY <1>2, InitFriendsInv, NextFriendsInv, PTL DEF Spec
<1> QED BY <1>3 DEF ByAddressee, OnlyAddresseeAnswers

-----------------------------------------------------------------------------
(* FriendService implements Friendship.  Each write of a handler is one of   *)
(* its steps, at the moment of the write, whatever the handler has read.     *)

\* Who asks is checked first: nobody asks oneself.
AsksAnother ==
    \A h \in Handlers :
        call[h].pc \in {"request.pending", "request.create"} => call[h].u # call[h].v

LEMMA InitAsksAnother == Init => AsksAnother
BY DEF Init, AsksAnother, Idle

LEMMA NextAsksAnother == TypeOK /\ AsksAnother /\ [Next]_vars => AsksAnother'
<1> SUFFICES ASSUME TypeOK, AsksAnother, [Next]_vars PROVE AsksAnother'
    OBVIOUS
<1> DEFINE Asking == {"request.pending", "request.create"}
<1>1. ASSUME NEW h \in Handlers, \A k \in Handlers \ {h} : call'[k] = call[k],
             call'[h].pc \in Asking => call'[h].u # call'[h].v
      PROVE  AsksAnother'
    BY <1>1 DEF AsksAnother
<1>2. ASSUME NEW h \in Handlers, NEW c, Start(h, c), c.pc \in Asking => c.u # c.v
      PROVE  AsksAnother'
    BY <1>1, <1>2 DEF Start, TypeOK
<1>3. ASSUME NEW h \in Handlers, Arrive(h) PROVE AsksAnother'
    <2>1. ASSUME NEW u \in Users, NEW v \in Users, CreateRequest(h, u, v) PROVE AsksAnother'
        BY <1>2, <2>1 DEF CreateRequest
    <2>2. ASSUME NEW u \in Users, NEW i \in Requests, Accept(h, u, i) \/ Reject(h, u, i)
          PROVE  AsksAnother'
        BY <1>2, <2>2 DEF Accept, Reject, OnRequest
    <2>3. ASSUME NEW u \in Users, NEW v \in Users, NEW f \in Friendships, Remove(h, u, v, f)
          PROVE  AsksAnother'
        BY <1>2, <2>3 DEF Remove
    <2> QED BY <1>3, <2>1, <2>2, <2>3 DEF Arrive
<1>4. ASSUME NEW h \in Handlers, RequestCheckPending(h) PROVE AsksAnother'
    <2>1. call[h].pc = "request.pending" /\ call[h].u # call[h].v
        BY <1>4 DEF RequestCheckPending, At, AsksAnother
    <2>2. call[h] \in [pc : PairPoints, u : Users, v : Users]
        BY <2>1, PointsOfCall DEF TypeOK, PairPoints
    <2>3. call' = [call EXCEPT ![h].pc = "request.create"]
        BY <1>4 DEF RequestCheckPending, Goto
    <2>4. call'[h].u = call[h].u /\ call'[h].v = call[h].v
        BY <2>2, <2>3 DEF TypeOK
    <2> QED BY <1>1, <2>1, <2>3, <2>4 DEF TypeOK
<1>5. ASSUME NEW h \in Handlers, NEW pc \in {"request.notify", "accept.notify"}, Goto(h, pc),
             call[h].pc \in PairPoints \/ call[h].pc \in RowPoints,
             call[h].pc \in PairPoints <=> pc \in PairPoints
      PROVE  AsksAnother'
    <2>1. call'[h].pc = pc /\ \A k \in Handlers \ {h} : call'[k] = call[k]
        BY <1>5, GotoIsCall DEF TypeOK, PairPoints, RowPoints
    <2> QED BY <1>1, <2>1
<1>6. ASSUME NEW h \in Handlers, RequestCreate(h) \/ AcceptCommit(h) PROVE AsksAnother'
    BY <1>5, <1>6 DEF RequestCreate, AcceptCommit, At, PairPoints, RowPoints
<1>7. ASSUME NEW h \in Handlers, RejectCommit(h) \/ Notify(h) \/ Throw(h) PROVE AsksAnother'
    BY <1>1, <1>7 DEF RejectCommit, Notify, Throw, Return, Idle, TypeOK
<1>8. ASSUME NEW h \in Handlers, RemoveCommit(h) PROVE AsksAnother'
    BY <1>1, <1>8 DEF RemoveCommit, TypeOK
<1>9. CASE Crash
    BY <1>9 DEF Crash, Idle, AsksAnother
<1>10. CASE UNCHANGED vars
    BY <1>10 DEF vars, AsksAnother
<1> QED BY <1>3, <1>4, <1>6, <1>7, <1>8, <1>9, <1>10 DEF Next, Advance

LEMMA SamePairs ==
    /\ UNCHANGED requests => UNCHANGED <<AskedPairs, AnsweredPairs, AcceptedPairs>>
    /\ UNCHANGED friendships => UNCHANGED FriendPairs
BY DEF AskedPairs, AnsweredPairs, AcceptedPairs, RequestPair, FriendPairs

LEMMA PromiseAsk ==
    ASSUME FriendsInv, AsksAnother, NEW h \in Handlers, RequestCreate(h)
    PROVE  Promise!Next
<1> DEFINE u == call[h].u  v == call[h].v
<1>1. u \in Users /\ v \in Users /\ u # v
    BY PointsOfCall DEF RequestCreate, At, FriendsInv, TypeOK, PairPoints, AsksAnother
<1>2. PICK i \in Requests :
        /\ requests[i] = FreeRow
        /\ requests' = [requests EXCEPT ![i] = [st |-> "pending", from |-> u, to |-> v]]
    BY DEF RequestCreate
<1> HIDE DEF u, v
<1>3. /\ requests'[i] = [st |-> "pending", from |-> u, to |-> v]
      /\ \A j \in Requests : j # i => requests'[j] = requests[j]
    BY <1>2 DEF FriendsInv, TypeOK
<1>4. /\ requests'[i] # FreeRow /\ requests'[i].st \notin {"accepted", "rejected"}
      /\ requests[i].st \notin {"accepted", "rejected"}
    BY <1>2, <1>3 DEF FreeRow
<1>5. /\ RequestPair(i)' = <<u, v>>
      /\ \A j \in Requests : j # i => RequestPair(j)' = RequestPair(j)
    BY <1>3 DEF RequestPair
<1>6. AskedPairs' = AskedPairs \cup {<<u, v>>}
    BY <1>2, <1>3, <1>4, <1>5 DEF AskedPairs
<1>7. AnsweredPairs' = AnsweredPairs /\ AcceptedPairs' = AcceptedPairs
    BY <1>3, <1>4, <1>5 DEF AnsweredPairs, AcceptedPairs
<1>8. UNCHANGED FriendPairs
    BY SamePairs DEF RequestCreate
<1>9. Promise!Ask(u, v)
    BY <1>1, <1>6, <1>7, <1>8 DEF Promise!Ask
<1> QED BY <1>1, <1>9 DEF Promise!Next

\* What an answer to row i does to the pairs.
LEMMA PairsOfAnswer ==
    ASSUME FriendsInv, NEW i \in Requests, requests[i] # FreeRow,
           NEW st \in {"accepted", "rejected"}, Answer(i, st)
    PROVE  /\ requests[i].from \in Users /\ requests[i].to \in Users
           /\ RequestPair(i) \in AskedPairs /\ AskedPairs' = AskedPairs
           /\ AnsweredPairs' = AnsweredPairs \cup {RequestPair(i)}
           /\ st = "accepted" => AcceptedPairs' = AcceptedPairs \cup {RequestPair(i)}
           /\ st = "rejected" =>
                AcceptedPairs' \in {AcceptedPairs, AcceptedPairs \ {RequestPair(i)}}
<1>1. requests[i] \in [st : {"pending", "accepted", "rejected"}, from : Users, to : Users]
    BY DEF FriendsInv, TypeOK, RequestRow
<1>2. /\ requests'[i] = [st |-> st, from |-> requests[i].from, to |-> requests[i].to]
      /\ \A j \in Requests : j # i => requests'[j] = requests[j]
    BY <1>1 DEF Answer, FriendsInv, TypeOK
<1>3. \A j \in Requests : RequestPair(j)' = RequestPair(j)
    BY <1>2 DEF RequestPair
<1>4. requests'[i] # FreeRow /\ requests'[i].st = st
    BY <1>2 DEF FreeRow
<1>5. RequestPair(i) \in AskedPairs /\ AskedPairs' = AskedPairs
    BY <1>2, <1>3, <1>4 DEF AskedPairs
<1>6. AnsweredPairs' = AnsweredPairs \cup {RequestPair(i)}
    BY <1>2, <1>3, <1>4 DEF AnsweredPairs
<1>7. ASSUME st = "accepted" PROVE AcceptedPairs' = AcceptedPairs \cup {RequestPair(i)}
    BY <1>2, <1>3, <1>4, <1>7 DEF AcceptedPairs
<1>8. ASSUME st = "rejected", requests[i].st # "accepted" PROVE AcceptedPairs' = AcceptedPairs
    BY <1>2, <1>3, <1>4, <1>8 DEF AcceptedPairs
<1>9. ASSUME st = "rejected", requests[i].st = "accepted"
      PROVE  AcceptedPairs' = AcceptedPairs \ {RequestPair(i)}
    <2>1. ASSUME NEW j \in Requests, j # i, requests[j].st = "accepted"
          PROVE  RequestPair(j) # RequestPair(i)
        BY <1>9, <2>1 DEF FriendsInv, OneRequestPerDirection, RequestPair, FreeRow
    <2> QED BY <1>2, <1>3, <1>4, <1>9, <2>1 DEF AcceptedPairs
<1> QED BY <1>1, <1>5, <1>6, <1>7, <1>8, <1>9

LEMMA AnsweredRowIsStored ==
    ASSUME FriendsInv, NEW h \in Handlers, AcceptCommit(h) \/ RejectCommit(h)
    PROVE  call[h].row \in Requests /\ requests[call[h].row] # FreeRow
<1>1. call[h].pc \in {"accept.commit", "reject.commit"}
    BY DEF AcceptCommit, RejectCommit, At
<1> QED BY <1>1, PointsOfCall DEF FriendsInv, TypeOK, RowPoints, AnswersOwnRow

\* upsert: the pair is a friendship afterwards, and nothing else changes.
LEMMA UpsertAddsPair ==
    ASSUME FriendsInv, NEW u \in Users, NEW v \in Users, UpsertFriendship(u, v)
    PROVE  FriendPairs' = FriendPairs \cup {{u, v}}
<1> DEFINE p == SortFriendPair(u, v)
<1>0. {p[1], p[2]} = {u, v}
    BY SortedPair
<1>1. CASE AreFriends(u, v) /\ UNCHANGED friendships
    <2>1. PICK f \in Friendships : IsFriendshipOf(f, u, v)
        BY <1>1 DEF AreFriends
    <2>2. friendships[f].st = "live" /\ friendships[f].a = p[1] /\ friendships[f].b = p[2]
        BY <2>1 DEF IsFriendshipOf, SortFriendPair
    <2>3. {u, v} \in FriendPairs
        BY <1>0, <2>2 DEF FriendPairs
    <2> QED BY <1>1, <2>3, SamePairs
<1>2. CASE ~AreFriends(u, v)
    <2>1. PICK f \in Friendships :
            /\ friendships[f] = FreeRow
            /\ friendships' = [friendships EXCEPT ![f] = [st |-> "live", a |-> p[1], b |-> p[2]]]
        BY <1>2 DEF UpsertFriendship
    <2> HIDE DEF p
    <2>2. /\ friendships'[f] = [st |-> "live", a |-> p[1], b |-> p[2]]
          /\ \A g \in Friendships : g # f => friendships'[g] = friendships[g]
          /\ friendships[f].st # "live"
        BY <2>1 DEF FriendsInv, TypeOK, FreeRow
    <2>3. friendships'[f].st = "live" /\ {friendships'[f].a, friendships'[f].b} = {u, v}
        BY <1>0, <2>2
    <2> QED BY <2>2, <2>3 DEF FriendPairs
<1> QED BY <1>1, <1>2 DEF UpsertFriendship

LEMMA PromiseAccept ==
    ASSUME FriendsInv, NEW h \in Handlers, AcceptCommit(h)
    PROVE  Promise!Next
<1> DEFINE i == call[h].row  u == requests[i].from  v == requests[i].to
<1>1. i \in Requests /\ requests[i] # FreeRow
    BY AnsweredRowIsStored
<1>2. Answer(i, "accepted") /\ UpsertFriendship(u, v) /\ RequestPair(i) = <<u, v>>
    BY DEF AcceptCommit, RequestPair
<1> HIDE DEF i
<1>3. /\ u \in Users /\ v \in Users
      /\ <<u, v>> \in AskedPairs /\ AskedPairs' = AskedPairs
      /\ AnsweredPairs' = AnsweredPairs \cup {<<u, v>>}
      /\ AcceptedPairs' = AcceptedPairs \cup {<<u, v>>}
    BY <1>1, <1>2, PairsOfAnswer
<1>4. FriendPairs' = FriendPairs \cup {{u, v}}
    BY <1>2, <1>3, UpsertAddsPair
<1>5. Promise!Accept(u, v)
    BY <1>3, <1>4 DEF Promise!Accept
<1> QED BY <1>3, <1>5 DEF Promise!Next

LEMMA PromiseReject ==
    ASSUME FriendsInv, NEW h \in Handlers, RejectCommit(h)
    PROVE  Promise!Next
<1> DEFINE i == call[h].row  u == requests[i].from  v == requests[i].to
<1>1. i \in Requests /\ requests[i] # FreeRow
    BY AnsweredRowIsStored
<1>2. Answer(i, "rejected") /\ UNCHANGED friendships /\ RequestPair(i) = <<u, v>>
    BY DEF RejectCommit, RequestPair
<1> HIDE DEF i
<1>3. /\ u \in Users /\ v \in Users
      /\ <<u, v>> \in AskedPairs /\ AskedPairs' = AskedPairs
      /\ AnsweredPairs' = AnsweredPairs \cup {<<u, v>>}
      /\ AcceptedPairs' \in {AcceptedPairs, AcceptedPairs \ {<<u, v>>}}
    BY <1>1, <1>2, PairsOfAnswer
<1>4. UNCHANGED FriendPairs
    BY <1>2, SamePairs
<1>5. Promise!Reject(u, v)
    BY <1>3, <1>4 DEF Promise!Reject
<1> QED BY <1>3, <1>5 DEF Promise!Next

\* The row that is deleted is the only friendship of its pair.
LEMMA PromisePart ==
    ASSUME FriendsInv, NEW h \in Handlers, RemoveCommit(h)
    PROVE  Promise!Next
<1> DEFINE f == call[h].f  u == friendships[f].a  v == friendships[f].b
<1>1. f \in Friendships
    BY PointsOfCall DEF RemoveCommit, At, FriendsInv, TypeOK
<1>2. /\ friendships[f].st = "live"
      /\ friendships' = [friendships EXCEPT ![f].st = "removed"]
      /\ UNCHANGED requests
    BY DEF RemoveCommit
<1> HIDE DEF f
<1>3. friendships[f] \in [st : {"live", "removed"}, a : Users, b : Users]
    BY <1>1, <1>2 DEF FriendsInv, TypeOK, FriendshipRow, FreeRow
<1>4. /\ friendships'[f].st = "removed"
      /\ \A g \in Friendships : g # f => friendships'[g] = friendships[g]
    BY <1>1, <1>2, <1>3 DEF FriendsInv, TypeOK
<1>5. \A g \in Friendships : g # f /\ friendships[g].st = "live" =>
            {friendships[g].a, friendships[g].b} # {u, v}
    BY <1>1, <1>2 DEF FriendsInv, OneFriendshipPerPair
<1>6. {u, v} \in FriendPairs
    BY <1>1, <1>2 DEF FriendPairs
<1>7. FriendPairs' = FriendPairs \ {{u, v}}
    <2>1. ASSUME NEW x \in FriendPairs' PROVE x \in FriendPairs /\ x # {u, v}
        <3>1. PICK g \in Friendships :
                friendships'[g].st = "live" /\ x = {friendships'[g].a, friendships'[g].b}
            BY <2>1 DEF FriendPairs
        <3>2. g # f
            BY <1>4, <3>1
        <3>3. friendships[g].st = "live" /\ x = {friendships[g].a, friendships[g].b}
            BY <1>4, <3>1, <3>2
        <3> QED BY <1>5, <3>2, <3>3 DEF FriendPairs
    <2>2. ASSUME NEW x \in FriendPairs, x # {u, v} PROVE x \in FriendPairs'
        <3>1. PICK g \in Friendships :
                friendships[g].st = "live" /\ x = {friendships[g].a, friendships[g].b}
            BY <2>2 DEF FriendPairs
        <3>2. friendships'[g] = friendships[g]
            BY <1>4, <2>2, <3>1
        <3> QED BY <3>1, <3>2 DEF FriendPairs
    <2> QED BY <2>1, <2>2
<1>8. UNCHANGED <<AskedPairs, AnsweredPairs, AcceptedPairs>>
    BY <1>2, SamePairs
<1>9. Promise!Part(u, v)
    BY <1>6, <1>7, <1>8 DEF Promise!Part
<1> QED BY <1>3, <1>9 DEF Promise!Next

LEMMA PromiseStep ==
    FriendsInv /\ AsksAnother /\ [Next]_vars => [Promise!Next]_(Promise!friendship)
<1> SUFFICES ASSUME FriendsInv, AsksAnother, [Next]_vars
             PROVE  \/ Promise!Next
                    \/ UNCHANGED <<AskedPairs, AnsweredPairs, AcceptedPairs, FriendPairs>>
    BY DEF Promise!friendship
<1>1. UNCHANGED tables => UNCHANGED <<AskedPairs, AnsweredPairs, AcceptedPairs, FriendPairs>>
    BY SamePairs DEF tables
<1>2. ASSUME NEW h \in Handlers, Arrive(h) PROVE UNCHANGED tables
    BY <1>2, ArriveTypeOK DEF FriendsInv
<1>3. ASSUME NEW h \in Handlers, Advance(h) PROVE Promise!Next \/ UNCHANGED tables
    BY <1>3, PromiseAsk, PromiseAccept, PromiseReject, PromisePart
       DEF Advance, RequestCheckPending
<1>4. ASSUME NEW h \in Handlers, Notify(h) \/ Throw(h) PROVE UNCHANGED tables
    BY <1>4 DEF Notify, Throw
<1>5. Crash \/ UNCHANGED vars => UNCHANGED tables
    BY DEF Crash, vars, tables
<1> QED BY <1>1, <1>2, <1>3, <1>4, <1>5 DEF Next

LEMMA PromiseInit == Init => Promise!Init
BY DEF Init, Promise!Init, AskedPairs, AnsweredPairs, AcceptedPairs, FriendPairs, FreeRow

\* The service keeps the promise of Friendship, for every interleaving of its
\* handlers and every failure.
THEOREM ConsentIsKept == Spec => FriendsByConsent
<1>1. FriendsInv => TypeOK
    BY DEF FriendsInv
<1> QED BY <1>1, InitFriendsInv, NextFriendsInv, InitAsksAnother, NextAsksAnother, PromiseInit,
       PromiseStep, PTL DEF Spec, FriendsByConsent, Promise!Spec

=============================================================================

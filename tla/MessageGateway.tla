---------------------------- MODULE MessageGateway ----------------------------
(***************************************************************************)
(* One conversation as the server sees it: the message:send and            *)
(* message:recall handlers of apps/api/src/modules/realtime/               *)
(* realtime.gateway.ts, the table encrypted_messages behind                *)
(* modules/messages/messages.service.ts, and the Socket.IO connections in  *)
(* between.                                                                *)
(*                                                                         *)
(* A handler is a sequence of awaited queries (check, write) that ends in  *)
(* a synchronous emit; handlers of different packets interleave, also when *)
(* they come from one connection.  What a client receives is a queue per   *)
(* connection, lost when the connection is cut; what it emits is a packet  *)
(* that Socket.IO holds back until the connection is up, and that is lost  *)
(* when the page closes, the wire is cut, or the packet gets to the server *)
(* before the token is verified ("Unauthorized socket").                   *)
(*                                                                         *)
(* Who may write is the friendship of the two users (Direct) or the        *)
(* membership of the group; FriendService and GroupService say how it      *)
(* changes, here it just does.  A group always has its owner, so one with  *)
(* no members is one that was deleted.  That a connected member of a group *)
(* gets into its room is what GroupRealtime shows.                         *)
(***************************************************************************)
EXTENDS Sequences

CONSTANTS
    Users,          \* the accounts of the conversation
    Clients,        \* browsers
    UserOf,         \* the account a browser is logged in to
    Messages,       \* clientMessageIds
    Composer,       \* the browser a message is written in
    Direct          \* a direct conversation, or a group's

ASSUME ClientsAssumption ==
    /\ UserOf \in [Clients -> Users]
    /\ Composer \in [Messages -> Clients]
    /\ Direct \in BOOLEAN

VARIABLES
    writers,        \* friends of each other, or members of the group
    row,            \* encrypted_messages by client_message_id
    send,           \* a message's message:send, from the click to the emit
    recall,         \* a client's message:recall of a message
    conn,           \* connections
    hears,          \* is the connection in the room messages are emitted to?
    inbox           \* events emitted to a connection and not handled yet

handlers == <<send, recall>>
wire == <<conn, hears, inbox>>
gvars == <<writers, row, send, recall, conn, hears, inbox>>

Author(m) == UserOf[Composer[m]]

-----------------------------------------------------------------------------
(* Connections. *)

\* A page opens its socket.
Open(k) ==
    /\ conn[k] = "off"
    /\ conn' = [conn EXCEPT ![k] = "opening"]
    /\ UNCHANGED <<writers, row, handlers, hears, inbox>>

\* The token is verified and the socket joins its user's room, the room
\* direct messages are emitted to.
Identify(k) ==
    /\ conn[k] = "opening"
    /\ conn' = [conn EXCEPT ![k] = "on"]
    /\ hears' = [hears EXCEPT ![k] = Direct]
    /\ UNCHANGED <<writers, row, handlers, inbox>>

\* The handshake goes on to the group's room, or whoever admits the user puts
\* their connections there, a step after the membership.
JoinGroupRoom(k) ==
    /\ conn[k] = "on" /\ ~hears[k]
    /\ UserOf[k] \in writers
    /\ hears' = [hears EXCEPT ![k] = TRUE]
    /\ UNCHANGED <<writers, row, handlers, conn, inbox>>

\* The connection of each client in K ends; what was queued for it is lost.
Cut(K) ==
    /\ hears' = [k \in Clients |-> hears[k] /\ k \notin K]
    /\ inbox' = [k \in Clients |-> IF k \in K THEN <<>> ELSE inbox[k]]

\* The connection breaks; the client tries again.
Drop(k) ==
    /\ conn[k] = "on"
    /\ conn' = [conn EXCEPT ![k] = "opening"]
    /\ Cut({k})
    /\ UNCHANGED <<writers, row, handlers>>

\* The page closes, or the user logs out.
Close(k) ==
    /\ conn[k] # "off"
    /\ conn' = [conn EXCEPT ![k] = "off"]
    /\ Cut({k})
    /\ UNCHANGED <<writers, row, handlers>>

\* The client handles the next event.
Take(k) ==
    /\ inbox[k] # <<>>
    /\ inbox' = [inbox EXCEPT ![k] = Tail(@)]
    /\ UNCHANGED <<writers, row, handlers, conn, hears>>

Event(kind, m) == [kind |-> kind, m |-> m]

\* server.to(...).emit: to every connection in the room.
Emit(e) ==
    inbox' = [k \in Clients |-> IF hears[k] THEN Append(inbox[k], e) ELSE inbox[k]]

-----------------------------------------------------------------------------
(* Friendship and membership. *)

GroupGone == ~Direct /\ writers = {}

Kept(m) == row[m]
Removed(m) == IF row[m] = "stored" THEN "removed" ELSE row[m]

Admit(u) ==
    /\ u \notin writers /\ ~GroupGone
    /\ writers' = IF Direct THEN Users ELSE writers \cup {u}
    /\ UNCHANGED <<row, handlers, wire>>

Expel(u) ==
    /\ u \in writers /\ (Direct \/ writers # {u})
    /\ writers' = IF Direct THEN {} ELSE writers \ {u}
    /\ UNCHANGED <<row, handlers, wire>>

\* The group is deleted, with its memberships and messages (onDelete: Cascade).
Dissolve ==
    /\ ~Direct /\ ~GroupGone
    /\ writers' = {}
    /\ row' = [m \in Messages |-> Removed(m)]
    /\ UNCHANGED <<handlers, wire>>

-----------------------------------------------------------------------------
(* message:send *)

SendTo(m, pc) == send' = [send EXCEPT ![m] = pc]

Send(m) ==
    /\ send[m] = "new" /\ conn[Composer[m]] # "off"
    /\ SendTo(m, "packet")
    /\ UNCHANGED <<writers, row, recall, wire>>

ReceiveSend(m) ==
    /\ send[m] = "packet" /\ conn[Composer[m]] = "on"
    /\ SendTo(m, "check")
    /\ UNCHANGED <<writers, row, recall, wire>>

EmitUnstored == "emit"
NoSuchPoint == "checked"
AfterSendCheck == "store"

\* Otherwise message:error, which no client handles.
SendCheck(m) ==
    /\ send[m] = "check" /\ Author(m) \in writers
    /\ SendTo(m, AfterSendCheck)
    /\ UNCHANGED <<writers, row, recall, wire>>

\* A foreign key refuses a message of a group that is gone.
SendStore(m) ==
    /\ send[m] = "store" /\ ~GroupGone
    /\ row' = [row EXCEPT ![m] = "stored"]
    /\ SendTo(m, "emit")
    /\ UNCHANGED <<writers, recall, wire>>

SendEmit(m) ==
    /\ send[m] = "emit"
    /\ Emit(Event("new", m))
    /\ SendTo(m, "done")
    /\ UNCHANGED <<writers, row, recall, conn, hears>>

Handling == {"check", "store", "remove", "emit"}

\* The check fails, a query fails or its reply is lost, or the packet is.
SendFail(m) ==
    /\ \/ send[m] \in Handling
       \/ send[m] = "packet" /\ conn[Composer[m]] # "on"
    /\ SendTo(m, "failed")
    /\ UNCHANGED <<writers, row, recall, wire>>

-----------------------------------------------------------------------------
(* message:recall *)

RecallTo(k, m, pc) == recall' = [recall EXCEPT ![k][m] = pc]

\* The author recalls a message it sees, which is one that was stored.  A
\* recall that went through is not repeated (bound).
Recall(k, m) ==
    /\ conn[k] # "off" /\ recall[k][m] \in {"none", "failed"}
    /\ UserOf[k] = Author(m) /\ row[m] # "absent"
    /\ RecallTo(k, m, "packet")
    /\ UNCHANGED <<writers, row, send, wire>>

ReceiveRecall(k, m) ==
    /\ recall[k][m] = "packet" /\ conn[k] = "on"
    /\ RecallTo(k, m, "check")
    /\ UNCHANGED <<writers, row, send, wire>>

RecallCheck(k, m) ==
    /\ recall[k][m] = "check" /\ UserOf[k] \in writers
    /\ RecallTo(k, m, "remove")
    /\ UNCHANGED <<writers, row, send, wire>>

\* deleteMany: none or one row.
RecallRemove(k, m) ==
    /\ recall[k][m] = "remove"
    /\ row' = [row EXCEPT ![m] = Removed(m)]
    /\ RecallTo(k, m, "emit")
    /\ UNCHANGED <<writers, send, wire>>

RecallEmit(k, m) ==
    /\ recall[k][m] = "emit"
    /\ Emit(Event("recalled", m))
    /\ RecallTo(k, m, "done")
    /\ UNCHANGED <<writers, row, send, conn, hears>>

RecallFail(k, m) ==
    /\ \/ recall[k][m] \in Handling
       \/ recall[k][m] = "packet" /\ conn[k] # "on"
    /\ RecallTo(k, m, "failed")
    /\ UNCHANGED <<writers, row, send, wire>>

-----------------------------------------------------------------------------
(* The API process stops: its handlers and connections are gone, the tables *)
(* stay, and the clients connect again.                                     *)

Stopped(pc) == IF pc \in Handling THEN "failed" ELSE pc

Crash ==
    /\ send' = [m \in Messages |-> Stopped(send[m])]
    /\ recall' = [k \in Clients |-> [m \in Messages |-> Stopped(recall[k][m])]]
    /\ conn' = [k \in Clients |-> IF conn[k] = "off" THEN "off" ELSE "opening"]
    /\ Cut(Clients)
    /\ UNCHANGED <<writers, row>>

-----------------------------------------------------------------------------
GInit ==
    /\ writers = Users
    /\ row = [m \in Messages |-> "absent"]
    /\ send = [m \in Messages |-> "new"]
    /\ recall = [k \in Clients |-> [m \in Messages |-> "none"]]
    /\ conn = [k \in Clients |-> "off"]
    /\ hears = [k \in Clients |-> FALSE]
    /\ inbox = [k \in Clients |-> <<>>]

\* A step of the server for a packet it has, or the failure of one.
HandleSend(m) == SendCheck(m) \/ SendStore(m) \/ SendEmit(m) \/ SendFail(m)
HandleRecall(k, m) ==
    RecallCheck(k, m) \/ RecallRemove(k, m) \/ RecallEmit(k, m) \/ RecallFail(k, m)

\* What happens without the browser's code.
Server ==
    \/ \E k \in Clients : Identify(k) \/ JoinGroupRoom(k) \/ Drop(k)
    \/ \E u \in Users : Admit(u) \/ Expel(u)
    \/ Dissolve
    \/ \E m \in Messages : ReceiveSend(m) \/ HandleSend(m)
    \/ \E k \in Clients, m \in Messages : ReceiveRecall(k, m) \/ HandleRecall(k, m)
    \/ Crash

GNext ==
    \/ Server
    \/ \E k \in Clients : Open(k) \/ Close(k) \/ Take(k)
    \/ \E m \in Messages : Send(m) \/ \E k \in Clients : Recall(k, m)

GSpec == GInit /\ [][GNext]_gvars

-----------------------------------------------------------------------------
(* Properties. *)

\* Every variable has its type.
SendPoints == {"new", "packet", "check", "store", "emit", "done", "failed"}
RecallPoints == {"none", "packet", "check", "remove", "emit", "done", "failed"}
GTypeOK ==
    /\ writers \in SUBSET Users
    /\ row \in [Messages -> {"absent", "stored", "removed"}]
    /\ send \in [Messages -> SendPoints]
    /\ recall \in [Clients -> [Messages -> RecallPoints]]
    /\ conn \in [Clients -> {"off", "opening", "on"}]
    /\ hears \in [Clients -> BOOLEAN]
    /\ inbox \in [Clients -> Seq([kind : {"new", "recalled"}, m : Messages])]

\* A message reaches a connection only after it is in the table, so that a
\* crash never leaves one user with a message the other cannot sync: store is
\* awaited before the emit (gateway 172-173, 220-221).
EmittedIsStored ==
    \A k \in Clients : \A i \in DOMAIN inbox[k] : row[inbox[k][i].m] # "absent"

\* A recall is announced, or over, only when the message is out of the table,
\* and it never comes back there: nobody who syncs later gets a recalled
\* message, whatever handlers of the same message overlap.
RecallIsFinal ==
    \A k \in Clients, m \in Messages :
        recall[k][m] \in {"emit", "done"} => row[m] = "removed"

\* The gateway implements MessageLife, which says both of the above and more:
\* whatever handlers overlap, fail or are cut off, a message is stored, then
\* announced, once, and a recall takes it out of the table before it is
\* announced, as the end of its group does, and for good.
Told == {m \in Messages : send[m] = "done"}
OnTheWay ==
    {x \in Clients \X [kind : {"new", "recalled"}, m : Messages] :
        \E i \in DOMAIN inbox[x[1]] : inbox[x[1]][i] = x[2]}

Life == INSTANCE MessageLife WITH life <- row, told <- Told, way <- OnTheWay
MessagesLive == Life!Spec

=============================================================================

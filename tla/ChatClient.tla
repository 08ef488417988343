------------------------------ MODULE ChatClient ------------------------------
(***************************************************************************)
(* The browsers of one conversation, on top of MessageGateway: the session *)
(* of apps/web/src/state/AuthContext.tsx (offline sync, socket handlers),  *)
(* what it keeps in localStorage (storage/localMessages.ts, storage/       *)
(* unreadConversations.ts) and the chat page (pages/ChatPage.tsx, and      *)
(* pages/GroupChatPage.tsx, which does the same for a group).              *)
(*                                                                         *)
(* localStorage survives the page; what the page shows is a copy made when *)
(* it opened and changed by its own handlers.  A socket event is handled   *)
(* by the session first and by the open chat page after it, both on        *)
(* localStorage, in one synchronous run.                                   *)
(***************************************************************************)
EXTENDS MessageGateway, Integers, FiniteSets

ASSUME MessagesAssumption == IsFiniteSet(Messages)

VARIABLES
    local,          \* localStorage: messages
    notice,         \* localStorage: recall notices, "anchored" at the time
                    \* of the message they replace or "plain"
    unread,         \* localStorage: unread count of the conversation
    chat,           \* is the chat page open?
    view,           \* the page's messages
    shown,          \* the page's notices
    sync,           \* the session's listMessages call
    got             \* its answer

stored == <<local, notice, unread>>
page == <<chat, view, shown>>
syncing == <<sync, got>>
cvars == <<writers, row, send, recall, conn, hears, inbox,
           local, notice, unread, chat, view, shown, sync, got>>

NoNotice == [m \in Messages |-> "none"]
Foreign(k, M) == {m \in M : Author(m) # UserOf[k]}

\* appendLocalMessage, and the filters of the page.
AppendedForeign(k, M) == local[k] \cup Foreign(k, M)
Appended(k, M) == local[k] \cup M
StillShown(k, m) == view[k]
Unshown(k, m) == view[k] \ {m}

\* appendLocalRecallNotice keeps the first notice of a message.
NoticedTwice(n, kind) == IF n = "none" THEN kind ELSE "twice"
Noticed(n, kind) == IF n = "none" THEN kind ELSE n

-----------------------------------------------------------------------------
(* The session. *)

\* A page with a token, or a login: it connects and syncs, at once.
OpenApp(k) ==
    /\ Open(k)
    /\ sync' = [sync EXCEPT ![k] = "asked"]
    /\ UNCHANGED <<got, stored, page>>

\* listForUser: what is stored now and the user may see.
Listed(k) ==
    {m \in Messages : row[m] = "stored" /\ (Direct \/ UserOf[k] \in writers)}

ListMessages(k) ==
    /\ sync[k] = "asked"
    /\ sync' = [sync EXCEPT ![k] = "answered"]
    /\ got' = [got EXCEPT ![k] = Listed(k)]
    /\ UNCHANGED <<gvars, stored, page>>

\* Tried again at the next login only.
SyncFail(k) ==
    /\ sync[k] \in {"asked", "answered"}
    /\ sync' = [sync EXCEPT ![k] = "failed"]
    /\ got' = [got EXCEPT ![k] = {}]
    /\ UNCHANGED <<gvars, stored, page>>

UnseenOnceAppended(k) == {}
Unseen(k) == Foreign(k, got[k] \ local[k])

\* The answer goes to localStorage; an open chat page does not look there
\* again.
SyncApply(k) ==
    /\ sync[k] = "answered"
    /\ local' = [local EXCEPT ![k] = Appended(k, got[k])]
    /\ unread' = [unread EXCEPT ![k] = @ + Cardinality(Unseen(k))]
    /\ sync' = [sync EXCEPT ![k] = "done"]
    /\ got' = [got EXCEPT ![k] = {}]
    /\ UNCHANGED <<gvars, notice, page>>

\* The page closes or the user logs out: only localStorage is left.
CloseApp(k) ==
    /\ Close(k)
    /\ sync' = [sync EXCEPT ![k] = "idle"]
    /\ got' = [got EXCEPT ![k] = {}]
    /\ chat' = [chat EXCEPT ![k] = FALSE]
    /\ view' = [view EXCEPT ![k] = {}]
    /\ shown' = [shown EXCEPT ![k] = NoNotice]
    /\ UNCHANGED stored

-----------------------------------------------------------------------------
(* The chat page. *)

OpenChat(k) ==
    /\ conn[k] # "off" /\ ~chat[k]
    /\ chat' = [chat EXCEPT ![k] = TRUE]
    /\ view' = [view EXCEPT ![k] = local[k]]
    /\ shown' = [shown EXCEPT ![k] = notice[k]]
    /\ unread' = [unread EXCEPT ![k] = 0]
    /\ UNCHANGED <<gvars, local, notice, syncing>>

LeaveChat(k) ==
    /\ chat[k]
    /\ chat' = [chat EXCEPT ![k] = FALSE]
    /\ view' = [view EXCEPT ![k] = {}]
    /\ shown' = [shown EXCEPT ![k] = NoNotice]
    /\ UNCHANGED <<gvars, stored, syncing>>

\* Nothing is shown before the server sends the message back.
SendMessage(m) ==
    /\ chat[Composer[m]]
    /\ Send(m)
    /\ UNCHANGED <<stored, page, syncing>>

\* Recall is offered on the user's own messages.
MayRecallUnseen(k, m) == chat[k] /\ UserOf[k] = Author(m)
MayRecall(k, m) == chat[k] /\ m \in view[k] /\ UserOf[k] = Author(m)

\* The message is gone from the author's screen at once, whatever becomes of
\* the packet.  It has a sentAt, so the notice is anchored.
RecallMessage(k, m) ==
    /\ MayRecall(k, m)
    /\ recall[k][m] \in {"none", "failed"}
    /\ RecallTo(k, m, "packet")
    /\ local' = [local EXCEPT ![k] = @ \ {m}]
    /\ notice' = [notice EXCEPT ![k][m] = Noticed(@, "anchored")]
    /\ view' = [view EXCEPT ![k] = Unshown(k, m)]
    /\ shown' = [shown EXCEPT ![k][m] = Noticed(@, "anchored")]
    /\ UNCHANGED <<writers, row, send, wire, unread, chat, syncing>>

-----------------------------------------------------------------------------
(* Socket events: handleMessage and handleMessageRecalled of AuthContext,   *)
(* then handleNewMessage and handleMessageRecalled of the page.             *)

Counted(k, m) == Cardinality(Foreign(k, {m}))

DeliverNew(k, m) ==
    /\ local' = [local EXCEPT ![k] = Appended(k, {m})]
    /\ unread' = [unread EXCEPT ![k] = IF chat[k] THEN 0 ELSE @ + Counted(k, m)]
    /\ view' = [view EXCEPT ![k] = IF chat[k] THEN @ \cup {m} ELSE @]
    /\ UNCHANGED <<notice, chat, shown, syncing>>

\* When the page looks for the message, to take its time for the notice, the
\* session has already removed it.
DeliverRecalled(k, m) ==
    /\ local' = [local EXCEPT ![k] = @ \ {m}]
    /\ notice' = [notice EXCEPT ![k][m] =
                    Noticed(@, IF m \in local[k] THEN "anchored" ELSE "plain")]
    /\ view' = [view EXCEPT ![k] = Unshown(k, m)]
    /\ shown' = [shown EXCEPT ![k][m] = IF chat[k] THEN Noticed(@, "plain") ELSE @]
    /\ UNCHANGED <<unread, chat, syncing>>

Deliver(k) ==
    /\ Take(k)
    /\ LET e == Head(inbox[k])
       IN  \/ e.kind = "new" /\ DeliverNew(k, e.m)
           \/ e.kind = "recalled" /\ DeliverRecalled(k, e.m)

-----------------------------------------------------------------------------
CInit ==
    /\ GInit
    /\ local = [k \in Clients |-> {}]
    /\ notice = [k \in Clients |-> NoNotice]
    /\ unread = [k \in Clients |-> 0]
    /\ chat = [k \in Clients |-> FALSE]
    /\ view = [k \in Clients |-> {}]
    /\ shown = [k \in Clients |-> NoNotice]
    /\ sync = [k \in Clients |-> "idle"]
    /\ got = [k \in Clients |-> {}]

Sync(k) == ListMessages(k) \/ SyncApply(k) \/ SyncFail(k)

CNext ==
    \/ Server /\ UNCHANGED <<stored, page, syncing>>
    \/ \E k \in Clients :
        \/ OpenApp(k) \/ CloseApp(k) \/ OpenChat(k) \/ LeaveChat(k)
        \/ Sync(k) \/ Deliver(k)
    \/ \E m \in Messages : SendMessage(m) \/ \E k \in Clients : RecallMessage(k, m)

CSpec == CInit /\ [][CNext]_cvars

\* A call is answered or fails, and a browser gets round to its events.
CFairSpec ==
    /\ CSpec
    /\ \A k \in Clients : WF_cvars(Sync(k)) /\ WF_cvars(Deliver(k))

-----------------------------------------------------------------------------
(* Properties. *)

\* Every variable has its type.
Notices == [Messages -> {"none", "plain", "anchored"}]
CTypeOK ==
    /\ GTypeOK
    /\ local \in [Clients -> SUBSET Messages]
    /\ notice \in [Clients -> Notices]
    /\ unread \in [Clients -> Nat]
    /\ chat \in [Clients -> BOOLEAN]
    /\ view \in [Clients -> SUBSET Messages]
    /\ shown \in [Clients -> Notices]
    /\ sync \in [Clients -> {"idle", "asked", "answered", "failed", "done"}]
    /\ got \in [Clients -> SUBSET Messages]

\* What a browser has or is about to have was stored by the server first: no
\* message exists in some browsers only, and a recall always names a row.
LocalIsStored ==
    \A k \in Clients : \A m \in local[k] \cup view[k] \cup got[k] : row[m] # "absent"

\* The chat page never shows what a reload would not: its messages and its
\* notices are in localStorage too, whatever sync and recalls did meanwhile.
ScreenSurvivesReload ==
    \A k \in Clients :
        /\ view[k] \subseteq local[k]
        /\ \A m \in Messages : shown[k][m] # "none" => notice[k][m] # "none"

\* A message of somebody else that gets to the browser while its chat is
\* closed, by sync or by event, raises the badge.
ArrivalsRaiseBadge ==
    [][\A k \in Clients :
        LET arrived == Foreign(k, local'[k] \ local[k])
        IN  ~chat[k] /\ ~chat'[k] =>
                unread'[k] >= unread[k] + Cardinality(arrived)]_cvars

\* What is stored when a session asks gets to its browser, unless the sync
\* fails, the page closes or the message is recalled before the answer.
SyncArrives ==
    \A k \in Clients, m \in Messages :
        sync[k] = "asked" /\ m \in Listed(k)
            ~> m \in local[k] \/ m \notin Listed(k) \/ sync[k] \in {"failed", "idle"}

\* A message queued for a connection gets to its browser, unless the
\* connection is cut.
Queued(k, m) == \E i \in DOMAIN inbox[k] : inbox[k][i] = Event("new", m)
EventsArrive ==
    \A k \in Clients, m \in Messages :
        Queued(k, m) ~> m \in local[k] \/ conn[k] # "on"

(* Statements of the code that the interleavings refute. *)

\* "removes a recalled message from offline sync" (messages.service.test.ts:
\* 68): a message that is out of the table, and that the browser knows to be
\* recalled, is not among its messages; nor is word of the recall still on its
\* way.
RecalledStaysGone ==
    \A k \in Clients, m \in Messages :
        /\ row[m] = "removed" /\ notice[k][m] # "none"
        /\ \A c \in Clients : recall[c][m] # "emit"
        /\ Event("recalled", m) \notin {inbox[k][i] : i \in DOMAIN inbox[k]}
        => m \notin local[k]

=============================================================================

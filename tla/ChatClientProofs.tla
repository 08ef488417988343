-------------------------- MODULE ChatClientProofs --------------------------
(***************************************************************************)
(* Proofs about MessageGateway, for any sets of users, browsers and        *)
(* messages, any authorship and both kinds of conversation; and about      *)
(* ChatClient: the browsers' code drives the gateway as MessageGateway     *)
(* says it is driven, so what is proved there holds with real clients, and *)
(* what the browsers keep is backed by the table.                          *)
(***************************************************************************)
EXTENDS ChatClient, SequenceTheorems, FiniteSetTheorems, TLAPS

(* The gateway. *)

\* A packet that is being sent has no row until it is stored, and is emitted
\* with one; a recall names a row.  With that a store cannot undo a recall.
SendOrder ==
    \A m \in Messages :
        /\ send[m] \in {"new", "packet", "check", "store"} => row[m] = "absent"
        /\ send[m] \in {"emit", "done"} => row[m] # "absent"

RecallHasRow ==
    \A k \in Clients, m \in Messages : recall[k][m] # "none" => row[m] # "absent"

GInv == GTypeOK /\ SendOrder /\ RecallHasRow /\ EmittedIsStored /\ RecallIsFinal

AnyEvent == [kind : {"new", "recalled"}, m : Messages]

-----------------------------------------------------------------------------
(* The queues. *)

\* Every event of a queue is well typed and names a stored row.
Delivers(q) == q \in Seq(AnyEvent) /\ \A i \in DOMAIN q : row[q[i].m] # "absent"

LEMMA EventsNameMessages ==
    ASSUME NEW q \in Seq(AnyEvent), NEW i \in DOMAIN q
    PROVE  q[i].m \in Messages
<1>1. q[i] \in AnyEvent
    OBVIOUS
<1> QED BY <1>1 DEF AnyEvent

LEMMA QueuesDeliver ==
    ASSUME GInv, NEW k \in Clients
    PROVE  Delivers(inbox[k])
BY DEF GInv, GTypeOK, EmittedIsStored, Delivers, AnyEvent

LEMMA EmptyDelivers == Delivers(<<>>)
BY DEF Delivers

LEMMA TailDelivers ==
    ASSUME NEW q, q # <<>>, Delivers(q)
    PROVE  Delivers(Tail(q))
<1>1. /\ Tail(q) \in Seq(AnyEvent) /\ Len(Tail(q)) = Len(q) - 1
      /\ \A i \in 1 .. Len(Tail(q)) : Tail(q)[i] = q[i + 1]
    BY HeadTailProperties DEF Delivers
<1>2. \A i \in DOMAIN Tail(q) : i + 1 \in DOMAIN q
    BY <1>1 DEF Delivers
<1> QED BY <1>1, <1>2 DEF Delivers

LEMMA AppendDelivers ==
    ASSUME NEW q, Delivers(q), NEW kind \in {"new", "recalled"}, NEW m \in Messages,
           row[m] # "absent"
    PROVE  Delivers(Append(q, Event(kind, m)))
<1> DEFINE e == Event(kind, m)
<1>1. e \in AnyEvent /\ e.m = m
    BY DEF Event, AnyEvent
<1>2. /\ Append(q, e) \in Seq(AnyEvent) /\ Len(Append(q, e)) = Len(q) + 1
      /\ \A i \in 1 .. Len(q) : Append(q, e)[i] = q[i]
      /\ Append(q, e)[Len(q) + 1] = e
    BY <1>1, AppendProperties DEF Delivers
<1> HIDE DEF e
<1>3. ASSUME NEW i \in DOMAIN Append(q, e) PROVE row[Append(q, e)[i].m] # "absent"
    <2>1. i \in 1 .. Len(q) \/ i = Len(q) + 1
        BY <1>2 DEF Delivers
    <2> QED BY <1>1, <1>2, <2>1 DEF Delivers
<1> QED BY <1>2, <1>3 DEF Delivers, e

\* Rows never go back to absent, so a queue stays deliverable.
LEMMA RowsStay ==
    ASSUME NEW q, Delivers(q),
           \A m \in Messages : row[m] # "absent" => row'[m] # "absent"
    PROVE  Delivers(q)'
<1>1. \A i \in DOMAIN q : q[i].m \in Messages
    BY EventsNameMessages DEF Delivers
<1> QED BY <1>1 DEF Delivers

\* What a step has to say of its queues.
LEMMA QueuesStep ==
    ASSUME GInv, inbox' = [k \in Clients |-> inbox'[k]],
           \A m \in Messages : row[m] # "absent" => row'[m] # "absent",
           \A k \in Clients : Delivers(inbox'[k])
    PROVE  inbox' \in [Clients -> Seq(AnyEvent)] /\ EmittedIsStored'
<1> DEFINE q == inbox'
<1>1. \A k \in Clients : q[k] \in Seq(AnyEvent)
    BY DEF Delivers
<1>2. \A k \in Clients : \A i \in DOMAIN q[k] : q[k][i].m \in Messages
    BY <1>1, EventsNameMessages
<1>3. \A k \in Clients : \A i \in DOMAIN q[k] : row[q[k][i].m] # "absent"
    BY DEF Delivers
<1> QED BY <1>1, <1>2, <1>3 DEF EmittedIsStored

LEMMA QuietStep ==
    ASSUME GInv, UNCHANGED inbox,
           \A m \in Messages : row[m] # "absent" => row'[m] # "absent"
    PROVE  inbox' \in [Clients -> Seq(AnyEvent)] /\ EmittedIsStored'
<1>1. \A k \in Clients : Delivers(inbox'[k])
    BY QueuesDeliver
<1>2. inbox' = [k \in Clients |-> inbox'[k]]
    BY DEF GInv, GTypeOK
<1> QED BY <1>1, <1>2, QueuesStep

LEMMA CutStep ==
    ASSUME GInv, NEW K, Cut(K), UNCHANGED row
    PROVE  /\ hears' \in [Clients -> BOOLEAN]
           /\ inbox' \in [Clients -> Seq(AnyEvent)] /\ EmittedIsStored'
<1>1. \A k \in Clients : inbox'[k] = <<>> \/ inbox'[k] = inbox[k]
    BY DEF Cut
<1>2. \A k \in Clients : Delivers(inbox'[k])
    BY <1>1, QueuesDeliver, EmptyDelivers
<1>3. inbox' = [k \in Clients |-> inbox'[k]]
    BY DEF Cut
<1> QED BY <1>2, <1>3, QueuesStep DEF Cut

LEMMA TakeStep ==
    ASSUME GInv, NEW k \in Clients, Take(k)
    PROVE  inbox' \in [Clients -> Seq(AnyEvent)] /\ EmittedIsStored'
<1>1. inbox[k] # <<>> /\ inbox' = [inbox EXCEPT ![k] = Tail(inbox[k])] /\ UNCHANGED row
    BY DEF Take
<1>2. \A c \in Clients : Delivers(inbox'[c])
    BY <1>1, QueuesDeliver, TailDelivers DEF GInv, GTypeOK
<1>3. inbox' = [c \in Clients |-> inbox'[c]]
    BY <1>1 DEF GInv, GTypeOK
<1> QED BY <1>1, <1>2, <1>3, QueuesStep

LEMMA EmitStep ==
    ASSUME GInv, NEW kind \in {"new", "recalled"}, NEW m \in Messages, row[m] # "absent",
           Emit(Event(kind, m)), UNCHANGED row
    PROVE  inbox' \in [Clients -> Seq(AnyEvent)] /\ EmittedIsStored'
<1>1. \A k \in Clients :
        inbox'[k] = inbox[k] \/ inbox'[k] = Append(inbox[k], Event(kind, m))
    BY DEF Emit
<1>2. \A k \in Clients : Delivers(inbox'[k])
    BY <1>1, QueuesDeliver, AppendDelivers
<1>3. inbox' = [k \in Clients |-> inbox'[k]]
    BY DEF Emit
<1> QED BY <1>2, <1>3, QueuesStep

-----------------------------------------------------------------------------
(* The rest of the state: one case per action. *)

LEMMA InitGInv == GInit => GInv
BY DEF GInit, GInv, GTypeOK, SendOrder, RecallHasRow, EmittedIsStored, RecallIsFinal,
   SendPoints, RecallPoints

\* Everything GInv says but for the queues.
HandlersInv == SendOrder /\ RecallHasRow /\ RecallIsFinal

LEMMA ConnectionStep ==
    ASSUME GInv, NEW k \in Clients,
           Open(k) \/ Identify(k) \/ JoinGroupRoom(k) \/ Drop(k) \/ Close(k) \/ Take(k)
    PROVE  GInv'
<1>1. UNCHANGED <<writers, row, handlers>>
    BY DEF Open, Identify, JoinGroupRoom, Drop, Close, Take
<1>2. HandlersInv'
    BY <1>1 DEF GInv, HandlersInv, SendOrder, RecallHasRow, RecallIsFinal, handlers
<1>3. inbox' \in [Clients -> Seq(AnyEvent)] /\ EmittedIsStored'
    BY <1>1, QuietStep, CutStep, TakeStep
       DEF Open, Identify, JoinGroupRoom, Drop, Close
<1>4. hears' \in [Clients -> BOOLEAN]
    BY CutStep, ClientsAssumption
       DEF GInv, GTypeOK, Open, Identify, JoinGroupRoom, Drop, Close, Take
<1>5. conn' \in [Clients -> {"off", "opening", "on"}]
    BY DEF GInv, GTypeOK, Open, Identify, JoinGroupRoom, Drop, Close, Take
<1> QED BY <1>1, <1>2, <1>3, <1>4, <1>5
       DEF GInv, GTypeOK, HandlersInv, handlers, AnyEvent

LEMMA WritersStep ==
    ASSUME GInv, NEW u \in Users, Admit(u) \/ Expel(u)
    PROVE  GInv'
<1>1. UNCHANGED <<row, handlers, conn, inbox>>
    BY DEF Admit, Expel, wire
<1>2. HandlersInv'
    BY <1>1 DEF GInv, HandlersInv, SendOrder, RecallHasRow, RecallIsFinal, handlers
<1>3. inbox' \in [Clients -> Seq(AnyEvent)] /\ EmittedIsStored'
    BY <1>1, QuietStep
<1>4. hears' \in [Clients -> BOOLEAN]
    BY DEF GInv, GTypeOK, Admit, Expel, wire
<1>5. writers' \in SUBSET Users
    BY DEF GInv, GTypeOK, Admit, Expel
<1> QED BY <1>1, <1>2, <1>3, <1>4, <1>5
       DEF GInv, GTypeOK, HandlersInv, handlers, AnyEvent

LEMMA DissolveStep ==
    ASSUME GInv, Dissolve
    PROVE  GInv'
<1>1. \A m \in Messages :
        /\ row[m] = "absent" <=> row'[m] = "absent"
        /\ row[m] = "removed" => row'[m] = "removed"
    BY DEF GInv, GTypeOK, Dissolve, Removed
<1>2. UNCHANGED <<send, recall, conn, hears, inbox>> /\ writers' = {}
    BY DEF Dissolve, handlers, wire
<1>3. row' \in [Messages -> {"absent", "stored", "removed"}]
    BY DEF GInv, GTypeOK, Dissolve, Removed
<1>4. HandlersInv'
    BY <1>1, <1>2 DEF GInv, HandlersInv, SendOrder, RecallHasRow, RecallIsFinal
<1>5. inbox' \in [Clients -> Seq(AnyEvent)] /\ EmittedIsStored'
    BY <1>1, <1>2, QuietStep
<1> QED BY <1>2, <1>3, <1>4, <1>5 DEF GInv, GTypeOK, HandlersInv, AnyEvent

LEMMA SendStep ==
    ASSUME GInv, NEW m \in Messages, Send(m) \/ ReceiveSend(m) \/ HandleSend(m)
    PROVE  GInv'
<1> USE DEF HandleSend, SendTo, Handling
<1>1. UNCHANGED <<writers, recall, conn, hears>>
    BY DEF Send, ReceiveSend, SendCheck, SendStore, SendEmit, SendFail, wire
<1>2. row' \in [Messages -> {"absent", "stored", "removed"}] /\ send' \in [Messages -> SendPoints]
    BY DEF GInv, GTypeOK, Send, ReceiveSend, SendCheck, SendStore, SendEmit, SendFail,
       SendPoints, AfterSendCheck
<1>3. SendOrder'
    BY DEF GInv, GTypeOK, SendOrder, Send, ReceiveSend, SendCheck, SendStore, SendEmit,
       SendFail, AfterSendCheck
<1>4. \A x \in Messages : row[x] # "absent" => row'[x] = row[x]
    BY DEF GInv, GTypeOK, SendOrder, Send, ReceiveSend, SendCheck, SendStore, SendEmit, SendFail
<1>5. RecallHasRow' /\ RecallIsFinal'
    BY <1>1, <1>4 DEF GInv, RecallHasRow, RecallIsFinal
<1>6. inbox' \in [Clients -> Seq(AnyEvent)] /\ EmittedIsStored'
    <2>1. CASE SendEmit(m)
        BY <2>1, EmitStep DEF SendEmit, GInv, SendOrder
    <2>2. CASE ~SendEmit(m)
        BY <2>2, <1>4, QuietStep DEF Send, ReceiveSend, SendCheck, SendStore, SendFail, wire
    <2> QED BY <2>1, <2>2
<1> QED BY <1>1, <1>2, <1>3, <1>5, <1>6 DEF GInv, GTypeOK, AnyEvent

LEMMA RecallStep ==
    ASSUME GInv, NEW k \in Clients, NEW m \in Messages,
           Recall(k, m) \/ ReceiveRecall(k, m) \/ HandleRecall(k, m)
    PROVE  GInv'
<1> USE DEF HandleRecall, RecallTo, Handling
<1>1. UNCHANGED <<writers, send, conn, hears>>
    BY DEF Recall, ReceiveRecall, RecallCheck, RecallRemove, RecallEmit, RecallFail, wire
<1>2. row' \in [Messages -> {"absent", "stored", "removed"}]
    BY DEF GInv, GTypeOK, Recall, ReceiveRecall, RecallCheck, RecallRemove, RecallEmit,
       RecallFail, Removed
<1>3. PICK pc \in RecallPoints \ {"none"} : recall' = [recall EXCEPT ![k][m] = pc]
    BY DEF Recall, ReceiveRecall, RecallCheck, RecallRemove, RecallEmit, RecallFail,
       RecallPoints
<1>4. recall' \in [Clients -> [Messages -> RecallPoints]]
    BY <1>3 DEF GInv, GTypeOK
<1>5. row[m] # "absent"
    BY DEF GInv, GTypeOK, RecallHasRow, Recall, ReceiveRecall, RecallCheck, RecallRemove,
       RecallEmit, RecallFail
<1>6. \A x \in Messages :
        /\ row[x] # "absent" <=> row'[x] # "absent"
        /\ row[x] = "removed" => row'[x] = "removed"
    BY DEF GInv, GTypeOK, Recall, ReceiveRecall, RecallCheck, RecallRemove, RecallEmit,
       RecallFail, Removed
<1>7. SendOrder' /\ RecallHasRow'
    BY <1>1, <1>2, <1>3, <1>5, <1>6 DEF GInv, GTypeOK, SendOrder, RecallHasRow
<1>8. recall'[k][m] \in {"emit", "done"} => row'[m] = "removed"
    BY <1>5 DEF GInv, GTypeOK, RecallIsFinal, Recall, ReceiveRecall, RecallCheck,
       RecallRemove, RecallEmit, RecallFail, Removed
<1>9. RecallIsFinal'
    <2> SUFFICES ASSUME NEW c \in Clients, NEW x \in Messages,
                        recall'[c][x] \in {"emit", "done"}
                 PROVE  row'[x] = "removed"
        BY DEF RecallIsFinal
    <2>1. CASE c = k /\ x = m
        BY <2>1, <1>8
    <2>2. CASE c # k \/ x # m
        BY <2>2, <1>3, <1>6 DEF GInv, GTypeOK, RecallIsFinal
    <2> QED BY <2>1, <2>2
<1>10. inbox' \in [Clients -> Seq(AnyEvent)] /\ EmittedIsStored'
    <2>1. CASE RecallEmit(k, m)
        BY <2>1, <1>5, EmitStep DEF RecallEmit
    <2>2. CASE ~RecallEmit(k, m)
        BY <2>2, <1>6, QuietStep DEF Recall, ReceiveRecall, RecallCheck, RecallRemove,
           RecallFail, wire
    <2> QED BY <2>1, <2>2
<1> QED BY <1>1, <1>2, <1>4, <1>7, <1>9, <1>10 DEF GInv, GTypeOK, AnyEvent

LEMMA CrashStep ==
    ASSUME GInv, Crash
    PROVE  GInv'
<1>1. UNCHANGED <<writers, row>>
    BY DEF Crash
<1>2. /\ \A m \in Messages : send'[m] = send[m] \/ send'[m] = "failed"
      /\ \A k \in Clients, m \in Messages :
            recall'[k][m] = recall[k][m] \/ (recall[k][m] # "none" /\ recall'[k][m] = "failed")
    BY DEF Crash, Stopped, Handling
<1>3. /\ send' \in [Messages -> SendPoints]
      /\ recall' \in [Clients -> [Messages -> RecallPoints]]
      /\ conn' \in [Clients -> {"off", "opening", "on"}]
    BY DEF Crash, Stopped, GInv, GTypeOK, SendPoints, RecallPoints
<1>4. SendOrder' /\ RecallHasRow' /\ RecallIsFinal'
    BY <1>1, <1>2 DEF GInv, SendOrder, RecallHasRow, RecallIsFinal
<1>5. /\ hears' \in [Clients -> BOOLEAN]
      /\ inbox' \in [Clients -> Seq(AnyEvent)] /\ EmittedIsStored'
    BY CutStep DEF Crash
<1> QED BY <1>1, <1>3, <1>4, <1>5 DEF GInv, GTypeOK, AnyEvent

LEMMA NextGInv == GInv /\ [GNext]_gvars => GInv'
<1> SUFFICES ASSUME GInv, [GNext]_gvars PROVE GInv'
    OBVIOUS
<1>1. CASE UNCHANGED gvars
    BY <1>1 DEF GInv, GTypeOK, SendOrder, RecallHasRow, EmittedIsStored, RecallIsFinal, gvars
<1> QED BY <1>1, ConnectionStep, WritersStep, DissolveStep, SendStep, RecallStep, CrashStep
       DEF GNext, Server

THEOREM GatewayInvariant == GSpec => []GInv
BY InitGInv, NextGInv, PTL DEF GSpec

-----------------------------------------------------------------------------
(* The gateway's theorems. *)

\* Every variable has its type.
THEOREM GatewayTypeCorrect == GSpec => []GTypeOK
BY GatewayInvariant, PTL DEF GInv

\* No event names a message that is not in the table, or was not there: a
\* sender's friends and groups never see what a crash of the API could lose.
THEOREM NothingEmittedUnstored == GSpec => []EmittedIsStored
BY GatewayInvariant, PTL DEF GInv

\* Once a recall is announced its message is out of the table for good, for
\* any number of handlers of the same message, recalls of it and crashes.
THEOREM RecallsAreFinal == GSpec => []RecallIsFinal
BY GatewayInvariant, PTL DEF GInv

-----------------------------------------------------------------------------
(* The gateway implements MessageLife. *)

LEMMA WayIsOfQueues ==
    \A k, e : <<k, e>> \in OnTheWay <=>
        k \in Clients /\ e \in AnyEvent /\ \E i \in DOMAIN inbox[k] : inbox[k][i] = e
BY DEF OnTheWay, AnyEvent

\* Nothing of a new queue is new.
LEMMA WayFades ==
    ASSUME GInv, UNCHANGED row, Told' = Told,
           \A k \in Clients : \A i \in DOMAIN inbox'[k] :
                \E j \in DOMAIN inbox[k] : inbox[k][j] = inbox'[k][i]
    PROVE  Life!Next
<1>1. OnTheWay' \subseteq OnTheWay
    BY DEF OnTheWay
<1> QED BY <1>1 DEF Life!Next, Life!Fade

LEMMA QuietFades ==
    ASSUME GInv, UNCHANGED <<row, inbox>>, Told' = Told
    PROVE  Life!Next
BY WayFades

LEMMA CutFades ==
    ASSUME GInv, NEW K, Cut(K), UNCHANGED row, Told' = Told
    PROVE  Life!Next
<1>1. \A k \in Clients : inbox'[k] = <<>> \/ inbox'[k] = inbox[k]
    BY DEF Cut
<1> QED BY <1>1, WayFades

LEMMA TakeFades ==
    ASSUME GInv, NEW k \in Clients, Take(k)
    PROVE  Life!Next
<1>1. inbox[k] # <<>> /\ inbox' = [inbox EXCEPT ![k] = Tail(inbox[k])] /\ UNCHANGED <<row, send>>
    BY DEF Take, handlers
<1>2. inbox[k] \in Seq(AnyEvent)
    BY DEF GInv, GTypeOK, AnyEvent
<1>3. \A i \in DOMAIN Tail(inbox[k]) :
            i + 1 \in DOMAIN inbox[k] /\ Tail(inbox[k])[i] = inbox[k][i + 1]
    BY <1>1, <1>2, HeadTailProperties
<1>4. \A c \in Clients : \A i \in DOMAIN inbox'[c] :
            \E j \in DOMAIN inbox[c] : inbox[c][j] = inbox'[c][i]
    BY <1>1, <1>3 DEF GInv, GTypeOK
<1> QED BY <1>1, <1>4, WayFades DEF Told

LEMMA AppendHolds ==
    ASSUME NEW S, NEW q \in Seq(S), NEW e \in S, NEW x
    PROVE  (\E i \in DOMAIN Append(q, e) : Append(q, e)[i] = x) <=>
                (\E i \in DOMAIN q : q[i] = x) \/ x = e
<1> DEFINE r == Append(q, e)
<1>1. /\ Len(q) \in Nat /\ DOMAIN q = 1 .. Len(q)
      /\ r \in Seq(S) /\ Len(r) = Len(q) + 1
      /\ \A i \in 1 .. Len(q) : r[i] = q[i]
      /\ r[Len(q) + 1] = e
    BY AppendProperties, LenProperties
<1>2. DOMAIN r = 1 .. (Len(q) + 1)
    BY <1>1, LenProperties
<1> HIDE DEF r
<1>3. ASSUME NEW i \in DOMAIN r, r[i] = x PROVE (\E j \in DOMAIN q : q[j] = x) \/ x = e
    BY <1>1, <1>2, <1>3
<1>4. ASSUME NEW j \in DOMAIN q, q[j] = x PROVE \E i \in DOMAIN r : r[i] = x
    BY <1>1, <1>2, <1>4
<1>5. x = e => \E i \in DOMAIN r : r[i] = x
    BY <1>1, <1>2
<1> QED BY <1>3, <1>4, <1>5 DEF r

\* An emit puts its event on the way to the connections of the room.
LEMMA EmitIsSaid ==
    ASSUME GInv, NEW kind \in {"new", "recalled"}, NEW m \in Messages, Emit(Event(kind, m))
    PROVE  \E K \in SUBSET Clients : Life!Say(K, kind, m)
<1> DEFINE e == Event(kind, m)  K == {k \in Clients : hears[k]}
<1>1. e \in AnyEvent /\ e = [kind |-> kind, m |-> m]
    BY DEF Event, AnyEvent
<1>2. \A k \in K : inbox'[k] = Append(inbox[k], e)
    BY DEF Emit
<1>3. \A k \in Clients \ K : inbox'[k] = inbox[k]
    BY DEF Emit
<1> HIDE DEF e
<1>4. \A k \in Clients : inbox[k] \in Seq(AnyEvent)
    BY DEF GInv, GTypeOK, AnyEvent
<1>5. ASSUME NEW k \in K, NEW x \in AnyEvent
      PROVE  <<k, x>> \in OnTheWay' <=> <<k, x>> \in OnTheWay \/ x = e
    <2>1. (\E i \in DOMAIN inbox'[k] : inbox'[k][i] = x) <=>
            (\E i \in DOMAIN inbox[k] : inbox[k][i] = x) \/ x = e
        BY <1>1, <1>2, <1>4, AppendHolds
    <2> QED BY <2>1, WayIsOfQueues DEF OnTheWay, AnyEvent
<1>6. ASSUME NEW k \in Clients \ K, NEW x \in AnyEvent
      PROVE  <<k, x>> \in OnTheWay' <=> <<k, x>> \in OnTheWay
    BY <1>3 DEF OnTheWay, AnyEvent
<1>7. OnTheWay' \subseteq Clients \X AnyEvent /\ OnTheWay \subseteq Clients \X AnyEvent
    BY DEF OnTheWay, AnyEvent
<1>8. OnTheWay' = OnTheWay \cup {<<k, e>> : k \in K}
    <2> DEFINE said == {<<k, e>> : k \in K}
    <2>1. \A k \in Clients, x \in AnyEvent : <<k, x>> \in said <=> k \in K /\ x = e
        OBVIOUS
    <2>2. said \subseteq Clients \X AnyEvent
        BY <1>1
    <2> HIDE DEF said, K
    <2>3. ASSUME NEW k \in Clients, NEW x \in AnyEvent
          PROVE  <<k, x>> \in OnTheWay' <=> <<k, x>> \in OnTheWay \/ <<k, x>> \in said
        <3>1. CASE k \in K
            BY <1>5, <2>1, <3>1
        <3>2. CASE k \notin K
            BY <1>6, <2>1, <3>2
        <3> QED BY <3>1, <3>2
    <2> QED BY <1>7, <2>2, <2>3 DEF said
<1> QED BY <1>1, <1>8 DEF Life!Say

LEMMA ToldBySend ==
    ASSUME GInv, NEW m \in Messages, NEW pc, send' = [send EXCEPT ![m] = pc], send[m] # "done"
    PROVE  Told' = IF pc = "done" THEN Told \cup {m} ELSE Told
BY DEF Told, GInv, GTypeOK

LEMMA LifeSend ==
    ASSUME GInv, NEW m \in Messages, Send(m) \/ ReceiveSend(m) \/ HandleSend(m)
    PROVE  Life!Next
<1> USE DEF SendTo
<1>1. CASE SendStore(m)
    <2>1. row[m] = "absent" /\ row' = [row EXCEPT ![m] = "stored"] /\ UNCHANGED inbox
        BY <1>1 DEF SendStore, wire, GInv, SendOrder
    <2>2. Told' = Told
        <3>1. send[m] = "store" /\ send' = [send EXCEPT ![m] = "emit"]
            BY <1>1 DEF SendStore
        <3> QED BY <3>1 DEF Told, GInv, GTypeOK
    <2>3. Life!Store(m)
        BY <2>1, <2>2 DEF Life!Store, OnTheWay
    <2> QED BY <2>3 DEF Life!Next
<1>2. CASE SendEmit(m)
    <2>1. send[m] = "emit" /\ row[m] # "absent" /\ UNCHANGED row /\ m \notin Told
        BY <1>2 DEF SendEmit, GInv, SendOrder, Told
    <2>2. Told' = Told \cup {m}
        BY <1>2, <2>1, ToldBySend DEF SendEmit
    <2>3. PICK K \in SUBSET Clients : Life!Say(K, "new", m)
        BY <1>2, EmitIsSaid DEF SendEmit
    <2>4. Life!Tell(m, K)
        BY <2>1, <2>2, <2>3 DEF Life!Tell
    <2> QED BY <2>4 DEF Life!Next
<1>3. CASE Send(m) \/ ReceiveSend(m) \/ SendCheck(m) \/ SendFail(m)
    <2>1. UNCHANGED <<row, inbox>>
        BY <1>3 DEF Send, ReceiveSend, SendCheck, SendFail, wire
    <2>2. Told' = Told
        BY <1>3, ToldBySend
           DEF Send, ReceiveSend, SendCheck, SendFail, Handling, AfterSendCheck
    <2> QED BY <2>1, <2>2, QuietFades
<1> QED BY <1>1, <1>2, <1>3 DEF HandleSend

LEMMA LifeRecall ==
    ASSUME GInv, NEW k \in Clients, NEW m \in Messages,
           Recall(k, m) \/ ReceiveRecall(k, m) \/ HandleRecall(k, m)
    PROVE  Life!Next
<1>1. UNCHANGED send /\ Told' = Told
    BY DEF Recall, ReceiveRecall, HandleRecall, RecallCheck, RecallRemove, RecallEmit,
       RecallFail, Told
<1>2. CASE RecallRemove(k, m)
    <2>1. row' = [row EXCEPT ![m] = Removed(m)] /\ UNCHANGED inbox
        BY <1>2 DEF RecallRemove, wire
    <2>2. CASE row[m] = "stored"
        <3>1. Life!TakeBack({m})
            BY <1>1, <2>1, <2>2 DEF Life!TakeBack, Removed, OnTheWay, GInv, GTypeOK
        <3> QED BY <3>1 DEF Life!Next
    <2>3. CASE row[m] # "stored"
        BY <1>1, <2>1, <2>3, QuietFades DEF Removed, GInv, GTypeOK
    <2> QED BY <2>2, <2>3
<1>3. CASE RecallEmit(k, m)
    <2>1. row[m] = "removed" /\ UNCHANGED row
        BY <1>3 DEF RecallEmit, GInv, RecallIsFinal
    <2>2. PICK K \in SUBSET Clients : Life!Say(K, "recalled", m)
        BY <1>3, EmitIsSaid DEF RecallEmit
    <2>3. Life!TellRecall(m, K)
        BY <1>1, <2>1, <2>2 DEF Life!TellRecall
    <2> QED BY <2>3 DEF Life!Next
<1>4. CASE Recall(k, m) \/ ReceiveRecall(k, m) \/ RecallCheck(k, m) \/ RecallFail(k, m)
    BY <1>1, <1>4, QuietFades
       DEF Recall, ReceiveRecall, RecallCheck, RecallFail, wire
<1> QED BY <1>2, <1>3, <1>4 DEF HandleRecall

LEMMA LifeDissolve == ASSUME GInv, Dissolve PROVE Life!Next
<1> DEFINE M == {m \in Messages : row[m] = "stored"}
<1>1. row' = [m \in Messages |-> IF m \in M THEN "removed" ELSE row[m]]
    BY DEF Dissolve, Removed
<1>2. UNCHANGED <<send, inbox>>
    BY DEF Dissolve, handlers, wire
<1>3. Life!TakeBack(M)
    BY <1>1, <1>2 DEF Life!TakeBack, Told, OnTheWay
<1> QED BY <1>3 DEF Life!Next

LEMMA LifeStep == GInv /\ [GNext]_gvars => [Life!Next]_(Life!messages)
<1> SUFFICES ASSUME GInv, [GNext]_gvars PROVE Life!Next
    OBVIOUS
<1>1. ASSUME UNCHANGED send PROVE Told' = Told
    BY <1>1 DEF Told
<1>2. ASSUME NEW k \in Clients, Open(k) \/ Identify(k) \/ JoinGroupRoom(k) PROVE Life!Next
    BY <1>1, <1>2, QuietFades DEF Open, Identify, JoinGroupRoom, handlers
<1>3. ASSUME NEW k \in Clients, Drop(k) \/ Close(k) PROVE Life!Next
    BY <1>1, <1>3, CutFades DEF Drop, Close, handlers
<1>4. ASSUME NEW u \in Users, Admit(u) \/ Expel(u) PROVE Life!Next
    BY <1>1, <1>4, QuietFades DEF Admit, Expel, handlers, wire
<1>5. CASE Crash
    <2>1. Told' = Told
        BY <1>5 DEF Crash, Stopped, Handling, Told
    <2> QED BY <1>5, <2>1, CutFades DEF Crash
<1>6. CASE UNCHANGED gvars
    BY <1>1, <1>6, QuietFades DEF gvars
<1> QED BY <1>2, <1>3, <1>4, <1>5, <1>6, TakeFades, LifeSend, LifeRecall, LifeDissolve
       DEF GNext, Server

LEMMA LifeInit == GInit => Life!Init
BY DEF GInit, Life!Init, Told, OnTheWay

\* The gateway keeps the promise of MessageLife, for any number of users,
\* browsers and messages.
THEOREM MessagesLiveAsPromised == GSpec => MessagesLive
BY GatewayInvariant, LifeInit, LifeStep, PTL DEF GSpec, MessagesLive, Life!Spec

-----------------------------------------------------------------------------
(* The clients. *)

\* A chat page is part of an open page, which has its socket.
ChatIsConnected == \A k \in Clients : chat[k] => conn[k] # "off"

CInv == GInv /\ CTypeOK /\ ChatIsConnected /\ LocalIsStored /\ ScreenSurvivesReload

-----------------------------------------------------------------------------
(* Every step is a step of the gateway or leaves it alone.  For a recall it  *)
(* takes the invariant: that the page shows a message means it has a row.    *)

LEMMA RecallNamesRow ==
    ASSUME CInv, NEW k \in Clients, NEW m \in Messages, RecallMessage(k, m)
    PROVE  Recall(k, m)
BY DEF CInv, ChatIsConnected, LocalIsStored, RecallMessage, MayRecall, Recall

LEMMA StepIsGatewayStep ==
    ASSUME CInv, [CNext]_cvars
    PROVE  [GNext]_gvars
<1>1. CASE UNCHANGED cvars
    BY <1>1 DEF cvars, gvars
<1>2. CASE Server
    BY <1>2 DEF GNext
<1>3. ASSUME NEW k \in Clients,
             OpenApp(k) \/ CloseApp(k) \/ OpenChat(k) \/ LeaveChat(k) \/ Sync(k) \/ Deliver(k)
      PROVE  [GNext]_gvars
    BY <1>3 DEF OpenApp, CloseApp, OpenChat, LeaveChat, Sync, ListMessages, SyncApply,
       SyncFail, Deliver, GNext
<1>4. ASSUME NEW m \in Messages, SendMessage(m) PROVE GNext
    BY <1>4 DEF SendMessage, GNext
<1>5. ASSUME NEW k \in Clients, NEW m \in Messages, RecallMessage(k, m) PROVE GNext
    BY <1>5, RecallNamesRow DEF GNext
<1> QED BY <1>1, <1>2, <1>3, <1>4, <1>5 DEF CNext

LEMMA RowsGrow ==
    ASSUME GInv, [GNext]_gvars, NEW m \in Messages, row[m] # "absent"
    PROVE  row'[m] # "absent"
<1>1. CASE UNCHANGED row
    BY <1>1
<1>2. ASSUME NEW x \in Messages, SendStore(x) PROVE row'[m] # "absent"
    BY <1>2 DEF SendStore, GInv, GTypeOK
<1>3. ASSUME NEW k \in Clients, NEW x \in Messages, RecallRemove(k, x)
      PROVE  row'[m] # "absent"
    BY <1>3 DEF RecallRemove, Removed, GInv, GTypeOK
<1>4. ASSUME NEW x \in Messages, Send(x) \/ ReceiveSend(x) \/ HandleSend(x), ~SendStore(x)
      PROVE  UNCHANGED row
    BY <1>4 DEF Send, ReceiveSend, HandleSend, SendCheck, SendEmit, SendFail
<1>5. ASSUME NEW k \in Clients, NEW x \in Messages,
             Recall(k, x) \/ ReceiveRecall(k, x) \/ HandleRecall(k, x), ~RecallRemove(k, x)
      PROVE  UNCHANGED row
    BY <1>5 DEF Recall, ReceiveRecall, HandleRecall, RecallCheck, RecallEmit, RecallFail
<1>6. ASSUME NEW k \in Clients,
             Open(k) \/ Identify(k) \/ JoinGroupRoom(k) \/ Drop(k) \/ Close(k) \/ Take(k)
      PROVE  UNCHANGED row
    BY <1>6 DEF Open, Identify, JoinGroupRoom, Drop, Close, Take
<1>7. ASSUME NEW u \in Users, Admit(u) \/ Expel(u) PROVE UNCHANGED row
    BY <1>7 DEF Admit, Expel
<1>8. Crash \/ UNCHANGED gvars => UNCHANGED row
    BY DEF Crash, gvars
<1>9. Dissolve => row'[m] # "absent"
    BY DEF Dissolve, Removed
<1> QED BY <1>1, <1>2, <1>3, <1>4, <1>5, <1>6, <1>7, <1>8, <1>9 DEF GNext, Server

-----------------------------------------------------------------------------
(* The browsers' own state. *)

LEMMA InitCInv == CInit => CInv
BY InitGInv DEF CInit, GInit, CInv, GInv, CTypeOK, ChatIsConnected, LocalIsStored,
   ScreenSurvivesReload, NoNotice, Notices

\* The server does not touch the browsers; none of its steps closes a page.
LEMMA ServerStep ==
    ASSUME CInv, Server, UNCHANGED <<stored, page, syncing>>, GInv'
    PROVE  CInv'
<1>1. \A k \in Clients : conn[k] # "off" => conn'[k] # "off"
    BY DEF Server, CInv, GInv, GTypeOK, Identify, JoinGroupRoom, Drop, Admit, Expel,
       Dissolve, ReceiveSend, HandleSend, SendCheck, SendStore, SendEmit, SendFail, ReceiveRecall,
       HandleRecall, RecallCheck, RecallRemove, RecallEmit, RecallFail, Crash, wire
<1>2. \A m \in Messages : row[m] # "absent" => row'[m] # "absent"
    BY RowsGrow DEF CInv, GNext
<1>3. ChatIsConnected'
    BY <1>1 DEF CInv, ChatIsConnected, page
<1>4. LocalIsStored'
    BY <1>2 DEF CInv, CTypeOK, LocalIsStored, stored, page, syncing
<1> QED BY <1>3, <1>4 DEF CInv, GInv, CTypeOK, ScreenSurvivesReload, stored, page, syncing

LEMMA UnseenIsFinite ==
    ASSUME NEW k \in Clients, NEW M \in SUBSET Messages
    PROVE  Cardinality(Foreign(k, M)) \in Nat
<1>1. Foreign(k, M) \subseteq Messages
    BY DEF Foreign
<1> QED BY <1>1, MessagesAssumption, FS_Subset, FS_CardinalityType

LEMMA SessionStep ==
    ASSUME CInv, NEW k \in Clients,
           OpenApp(k) \/ CloseApp(k) \/ OpenChat(k) \/ LeaveChat(k) \/ Sync(k), GInv'
    PROVE  CInv'
<1> USE DEF CInv, CTypeOK, ChatIsConnected, LocalIsStored, ScreenSurvivesReload,
        stored, page, syncing
<1>0. conn = [c \in Clients |-> conn[c]]
    BY DEF GInv, GTypeOK
<1>1. CASE OpenApp(k)
    <2>1. \A c \in Clients : conn[c] # "off" => conn'[c] # "off"
        BY <1>1, <1>0 DEF OpenApp, Open
    <2> QED BY <1>1, <2>1 DEF OpenApp, Open, GInv
<1>2. CASE CloseApp(k)
    <2>1. \A c \in Clients \ {k} : conn'[c] = conn[c]
        BY <1>2, <1>0 DEF CloseApp, Close
    <2> QED BY <1>2, <2>1 DEF CloseApp, Close, GInv, NoNotice, Notices
<1>3. CASE OpenChat(k)
    BY <1>3 DEF OpenChat, gvars, GInv, Notices
<1>4. CASE LeaveChat(k)
    BY <1>4 DEF LeaveChat, gvars, GInv, NoNotice, Notices
<1>5. CASE ListMessages(k)
    BY <1>5 DEF ListMessages, Listed, gvars, GInv
<1>6. CASE SyncApply(k)
    <2>1. Cardinality(Unseen(k)) \in Nat
        BY UnseenIsFinite DEF Unseen
    <2>2. unread[k] + Cardinality(Unseen(k)) \in Nat
        BY <2>1
    <2>3. unread' \in [Clients -> Nat]
        BY <1>6, <2>2 DEF SyncApply
    <2>4. local' \in [Clients -> SUBSET Messages] /\ got' \in [Clients -> SUBSET Messages]
        BY <1>6 DEF SyncApply, Appended
    <2>5. \A c \in Clients : local'[c] \subseteq local[c] \cup got[c] /\ local[c] \subseteq local'[c]
        BY <1>6 DEF SyncApply, Appended
    <2>6. /\ sync' \in [Clients -> {"idle", "asked", "answered", "failed", "done"}]
          /\ \A c \in Clients : got'[c] \subseteq got[c]
          /\ UNCHANGED <<row, conn, notice, chat, view, shown>>
        BY <1>6 DEF SyncApply, gvars
    <2> QED BY <2>3, <2>4, <2>5, <2>6 DEF GInv
<1>7. CASE SyncFail(k)
    BY <1>7 DEF SyncFail, gvars, GInv
<1> QED BY <1>1, <1>2, <1>3, <1>4, <1>5, <1>6, <1>7 DEF Sync

LEMMA SendMessageStep ==
    ASSUME CInv, NEW m \in Messages, SendMessage(m), GInv'
    PROVE  CInv'
BY DEF SendMessage, Send, wire, CInv, GInv, CTypeOK, ChatIsConnected, LocalIsStored,
   ScreenSurvivesReload, stored, page, syncing

LEMMA NoticedTwoKinds ==
    ASSUME NEW n \in {"none", "plain", "anchored"}, NEW kind \in {"plain", "anchored"}
    PROVE  /\ Noticed(n, kind) \in {"plain", "anchored"}
           /\ n # "none" => Noticed(n, kind) = n
BY DEF Noticed

LEMMA NoticeKinds ==
    ASSUME NEW F \in [Clients -> Notices], NEW k \in Clients, NEW m \in Messages
    PROVE  F[k][m] \in {"none", "plain", "anchored"}
BY DEF Notices

LEMMA NoticePut ==
    ASSUME NEW F \in [Clients -> Notices], NEW k \in Clients, NEW m \in Messages,
           NEW v \in {"none", "plain", "anchored"}
    PROVE  [F EXCEPT ![k][m] = v] \in [Clients -> Notices]
BY DEF Notices

LEMMA RecallMessageStep ==
    ASSUME CInv, NEW k \in Clients, NEW m \in Messages, RecallMessage(k, m), GInv'
    PROVE  CInv'
<1> USE DEF CInv, RecallMessage, Unshown, wire, syncing
<1>1. /\ notice' = [notice EXCEPT ![k] = [notice[k] EXCEPT ![m] = Noticed(notice[k][m], "anchored")]]
      /\ shown' = [shown EXCEPT ![k] = [shown[k] EXCEPT ![m] = Noticed(shown[k][m], "anchored")]]
    OBVIOUS
<1>2. /\ Noticed(notice[k][m], "anchored") \in {"plain", "anchored"}
      /\ Noticed(shown[k][m], "anchored") \in {"plain", "anchored"}
    <2>1. notice \in [Clients -> Notices] /\ shown \in [Clients -> Notices]
        BY DEF CTypeOK
    <2> HIDE DEF CInv, RecallMessage
    <2> QED BY <2>1, NoticeKinds, NoticedTwoKinds
<1>3. notice' \in [Clients -> Notices] /\ shown' \in [Clients -> Notices]
    BY <1>1, <1>2 DEF CTypeOK, Notices
<1>4. /\ local' \in [Clients -> SUBSET Messages] /\ view' \in [Clients -> SUBSET Messages]
      /\ UNCHANGED <<unread, chat, sync, got>>
    BY DEF CTypeOK
<1>5. CTypeOK'
    <2> HIDE DEF RecallMessage
    <2> QED BY <1>3, <1>4 DEF CTypeOK, GInv
<1>6. LocalIsStored' /\ ChatIsConnected'
    BY DEF CTypeOK, LocalIsStored, ChatIsConnected
<1>7. \A c \in Clients : view'[c] \subseteq local'[c]
    BY DEF CTypeOK, ScreenSurvivesReload
<1>8. ASSUME NEW c \in Clients, NEW x \in Messages, shown'[c][x] # "none"
      PROVE  notice'[c][x] # "none"
    <2>1. CASE c = k /\ x = m
        BY <2>1, <1>1, <1>2 DEF CTypeOK, Notices
    <2>2. CASE c # k \/ x # m
        BY <2>2, <1>1, <1>8 DEF CTypeOK, Notices, ScreenSurvivesReload
    <2> QED BY <2>1, <2>2
<1>9. ScreenSurvivesReload'
    BY <1>7, <1>8 DEF ScreenSurvivesReload
<1> QED BY <1>5, <1>6, <1>9

\* The head of a queue names a stored row.
LEMMA HeadIsStored ==
    ASSUME GInv, NEW k \in Clients, inbox[k] # <<>>
    PROVE  Head(inbox[k]).m \in Messages /\ row[Head(inbox[k]).m] # "absent"
<1>1. inbox[k] \in Seq(AnyEvent) /\ Delivers(inbox[k])
    BY QueuesDeliver DEF Delivers
<1>2. 1 \in DOMAIN inbox[k] /\ Head(inbox[k]) = inbox[k][1]
    BY <1>1
<1> QED BY <1>1, <1>2, EventsNameMessages DEF Delivers

LEMMA DeliverStep ==
    ASSUME CInv, NEW k \in Clients, Deliver(k), GInv'
    PROVE  CInv'
<1> DEFINE m == Head(inbox[k]).m
<1>1. m \in Messages /\ row[m] # "absent"
    BY HeadIsStored DEF CInv, Deliver, Take
<1>2. UNCHANGED <<row, conn>> /\ (DeliverNew(k, m) \/ DeliverRecalled(k, m))
    BY DEF Deliver, Take
<1> HIDE DEF m
<1>3. ChatIsConnected'
    BY <1>2 DEF CInv, ChatIsConnected, DeliverNew, DeliverRecalled
<1>4. CASE DeliverNew(k, m)
    <2>1. Counted(k, m) \in Nat
        BY <1>1, UnseenIsFinite DEF Counted
    <2>2. unread[k] + Counted(k, m) \in Nat
        BY <2>1 DEF CInv, CTypeOK
    <2>3. unread' \in [Clients -> Nat]
        BY <1>4, <2>2 DEF CInv, CTypeOK, DeliverNew
    <2>4. CTypeOK'
        BY <1>1, <1>4, <2>3 DEF CInv, CTypeOK, GInv, DeliverNew, Appended, syncing
    <2>5. LocalIsStored' /\ ScreenSurvivesReload'
        BY <1>1, <1>2, <1>4 DEF CInv, CTypeOK, LocalIsStored, ScreenSurvivesReload, DeliverNew,
           Appended, syncing
    <2> QED BY <1>3, <2>4, <2>5 DEF CInv
<1>5. CASE DeliverRecalled(k, m)
    <2> DEFINE w == IF m \in local[k] THEN "anchored" ELSE "plain"
               s == IF chat[k] THEN Noticed(shown[k][m], "plain") ELSE shown[k][m]
    <2>1. notice \in [Clients -> Notices] /\ shown \in [Clients -> Notices]
        BY DEF CInv, CTypeOK
    <2>2. notice' = [notice EXCEPT ![k][m] = Noticed(notice[k][m], w)]
        BY <1>5 DEF DeliverRecalled
    <2>3. shown' = [shown EXCEPT ![k][m] = s]
        BY <1>5 DEF DeliverRecalled
    <2>4. Noticed(notice[k][m], w) \in {"none", "plain", "anchored"}
        BY <1>1, <2>1, NoticeKinds, NoticedTwoKinds
    <2>5. s \in {"none", "plain", "anchored"}
        BY <1>1, <2>1, NoticeKinds, NoticedTwoKinds
    <2> HIDE DEF w, s
    <2>6. notice' \in [Clients -> Notices]
        BY <1>1, <2>1, <2>2, <2>4, NoticePut
    <2>7. shown' \in [Clients -> Notices]
        BY <1>1, <2>1, <2>3, <2>5, NoticePut
    <2>8. /\ local' \in [Clients -> SUBSET Messages] /\ view' \in [Clients -> SUBSET Messages]
          /\ UNCHANGED <<unread, chat, sync, got>>
        BY <1>5 DEF CInv, CTypeOK, DeliverRecalled, Unshown, syncing
    <2>9. CTypeOK'
        BY <2>6, <2>7, <2>8 DEF CInv, CTypeOK, GInv
    <2>10. LocalIsStored'
        BY <1>1, <1>2, <1>5 DEF CInv, CTypeOK, LocalIsStored, DeliverRecalled, Unshown, syncing
    <2>11. ScreenSurvivesReload'
        BY <1>1, <1>5, NoticedTwoKinds
           DEF CInv, CTypeOK, ScreenSurvivesReload, DeliverRecalled, Unshown, Notices
    <2> QED BY <1>3, <2>9, <2>10, <2>11 DEF CInv
<1> QED BY <1>2, <1>4, <1>5

LEMMA NextCInv == CInv /\ [CNext]_cvars => CInv'
<1> SUFFICES ASSUME CInv, [CNext]_cvars PROVE CInv'
    OBVIOUS
<1>1. GInv'
    BY StepIsGatewayStep, NextGInv DEF CInv
<1>2. CASE UNCHANGED cvars
    BY <1>1, <1>2 DEF CInv, GInv, CTypeOK, ChatIsConnected, LocalIsStored,
       ScreenSurvivesReload, cvars
<1> QED BY <1>1, <1>2, ServerStep, SessionStep, SendMessageStep, RecallMessageStep,
       DeliverStep DEF CNext

THEOREM ChatInvariant == CSpec => []CInv
BY InitCInv, NextCInv, PTL DEF CSpec

-----------------------------------------------------------------------------
(* The clients' theorems. *)

\* Every variable has its type.
THEOREM ChatTypeCorrect == CSpec => []CTypeOK
BY ChatInvariant, PTL DEF CInv

\* Whatever a browser stores, shows or is about to store is, or was, a row of
\* the table.
THEOREM BrowsersHoldStoredMessages == CSpec => []LocalIsStored
BY ChatInvariant, PTL DEF CInv

\* A reload of the page loses nothing it showed.
THEOREM NothingShownIsLost == CSpec => []ScreenSurvivesReload
BY ChatInvariant, PTL DEF CInv

\* The browsers implement the clients of MessageGateway: they never recall a
\* message that has no row.
THEOREM ChatImplementsGateway == CSpec => GSpec
<1>1. CInit => GInit
    BY DEF CInit
<1>2. CInv /\ [CNext]_cvars => [GNext]_gvars
    BY StepIsGatewayStep
<1> QED BY <1>1, <1>2, ChatInvariant, PTL DEF CSpec, GSpec

\* So recalls are final for them as well.
THEOREM ChatRecallsAreFinal == CSpec => []RecallIsFinal
BY ChatImplementsGateway, RecallsAreFinal

\* With real clients, too, a message is stored, announced once and taken back
\* for good: the browsers' code cannot break what MessageLife promises.
THEOREM ChatMessagesLive == CSpec => MessagesLive
BY ChatImplementsGateway, MessagesLiveAsPromised

-----------------------------------------------------------------------------
(* The badge.  Only an answered sync and a delivered message add to what a   *)
(* browser has, and both count what they add that is not its own.            *)

Badge(k) ==
    LET arrived == Foreign(k, local'[k] \ local[k])
    IN  ~chat[k] /\ ~chat'[k] =>
            unread'[k] >= unread[k] + Cardinality(arrived)

LEMMA NothingArrives ==
    ASSUME CTypeOK, NEW k \in Clients, local'[k] \subseteq local[k],
           ~chat[k] /\ ~chat'[k] => unread'[k] = unread[k]
    PROVE  Badge(k)
<1>1. Foreign(k, local'[k] \ local[k]) = {}
    BY DEF Foreign
<1>2. Cardinality(Foreign(k, local'[k] \ local[k])) = 0
    BY <1>1, FS_EmptySet
<1>3. unread[k] \in Nat
    BY DEF CTypeOK
<1> QED BY <1>2, <1>3 DEF Badge

LEMMA SyncCounts ==
    ASSUME CTypeOK, NEW c \in Clients, SyncApply(c), NEW k \in Clients
    PROVE  Badge(k)
<1>1. CASE k = c
    <2>1. local'[k] \ local[k] = got[k] \ local[k]
        BY <1>1 DEF SyncApply, Appended, CTypeOK
    <2>2. unread'[k] = unread[k] + Cardinality(Foreign(k, got[k] \ local[k]))
        BY <1>1 DEF SyncApply, Unseen, CTypeOK
    <2>3. got[k] \ local[k] \in SUBSET Messages /\ unread[k] \in Nat
        BY DEF CTypeOK
    <2>4. Cardinality(Foreign(k, got[k] \ local[k])) \in Nat
        BY <2>3, UnseenIsFinite
    <2>5. unread'[k] >= unread[k] + Cardinality(Foreign(k, got[k] \ local[k]))
        BY <2>2, <2>3, <2>4
    <2> QED BY <2>1, <2>5, Zenon DEF Badge
<1>2. CASE k # c
    <2>1. local'[k] = local[k] /\ unread'[k] = unread[k]
        BY <1>2 DEF SyncApply, CTypeOK
    <2> QED BY <2>1, NothingArrives
<1> QED BY <1>1, <1>2

LEMMA DeliveryCounts ==
    ASSUME CTypeOK, NEW c \in Clients, NEW m \in Messages, DeliverNew(c, m),
           NEW k \in Clients
    PROVE  Badge(k)
<1>1. CASE k = c /\ ~chat[k]
    <2> DEFINE arrived == Foreign(k, local'[k] \ local[k])
    <2>1. arrived \subseteq Foreign(k, {m})
        BY <1>1 DEF DeliverNew, Appended, CTypeOK, Foreign
    <2>2. unread'[k] = unread[k] + Cardinality(Foreign(k, {m}))
        BY <1>1 DEF DeliverNew, Counted, CTypeOK
    <2>3. IsFiniteSet(Foreign(k, {m}))
        <3>1. Foreign(k, {m}) \subseteq Messages
            BY DEF Foreign
        <3> QED BY <3>1, MessagesAssumption, FS_Subset
    <2>4. /\ Cardinality(arrived) \in Nat /\ Cardinality(Foreign(k, {m})) \in Nat
          /\ Cardinality(arrived) <= Cardinality(Foreign(k, {m}))
        BY <2>1, <2>3, FS_Subset, FS_CardinalityType
    <2>5. unread[k] \in Nat
        BY DEF CTypeOK
    <2> QED BY <2>2, <2>4, <2>5 DEF Badge
<1>2. CASE k = c /\ chat[k]
    BY <1>2 DEF Badge
<1>3. CASE k # c
    <2>1. local'[k] = local[k] /\ unread'[k] = unread[k]
        BY <1>3 DEF DeliverNew, CTypeOK
    <2> QED BY <2>1, NothingArrives
<1> QED BY <1>1, <1>2, <1>3

LEMMA StepCounts ==
    ASSUME CInv, [CNext]_cvars, NEW k \in Clients
    PROVE  Badge(k)
<1>0. CTypeOK
    BY DEF CInv
<1>1. CASE UNCHANGED <<local, unread>>
    BY <1>0, <1>1, NothingArrives
<1>2. Server /\ UNCHANGED <<stored, page, syncing>> => UNCHANGED <<local, unread>>
    BY DEF stored
<1>3. UNCHANGED cvars => UNCHANGED <<local, unread>>
    BY DEF cvars
<1>4. ASSUME NEW c \in Clients,
             \/ OpenApp(c) \/ CloseApp(c) \/ LeaveChat(c) \/ ListMessages(c) \/ SyncFail(c)
      PROVE  UNCHANGED <<local, unread>>
    BY <1>4 DEF OpenApp, CloseApp, LeaveChat, ListMessages, SyncFail, stored
<1>5. ASSUME NEW m \in Messages, SendMessage(m) PROVE UNCHANGED <<local, unread>>
    BY <1>5 DEF SendMessage, stored
<1>6. ASSUME NEW c \in Clients, OpenChat(c) PROVE Badge(k)
    <2>1. /\ local'[k] = local[k]
          /\ k = c => chat'[k]
          /\ k # c => unread'[k] = unread[k]
        BY <1>0, <1>6 DEF OpenChat, CTypeOK
    <2> QED BY <1>0, <2>1, NothingArrives
<1>7. ASSUME NEW c \in Clients, NEW m \in Messages,
             RecallMessage(c, m) \/ DeliverRecalled(c, m)
      PROVE  Badge(k)
    <2>1. local'[k] \subseteq local[k] /\ unread' = unread
        BY <1>0, <1>7 DEF RecallMessage, DeliverRecalled, CTypeOK
    <2> QED BY <1>0, <2>1, NothingArrives
<1>8. ASSUME NEW c \in Clients, Deliver(c) PROVE Badge(k)
    <2>1. PICK m \in Messages : DeliverNew(c, m) \/ DeliverRecalled(c, m)
        BY <1>8, HeadIsStored DEF CInv, Deliver, Take
    <2> QED BY <1>0, <1>7, <2>1, DeliveryCounts
<1>9. ASSUME NEW c \in Clients, Sync(c) PROVE Badge(k)
    BY <1>0, <1>1, <1>4, <1>9, SyncCounts DEF Sync
<1> QED BY <1>1, <1>2, <1>3, <1>4, <1>5, <1>6, <1>7, <1>8, <1>9 DEF CNext

\* However events, syncs, recalls and page changes interleave, the badge of a
\* closed chat rises by every message of others that gets to the browser.
THEOREM ArrivalsAreCounted == CSpec => ArrivalsRaiseBadge
<1>1. CInv /\ [CNext]_cvars => [\A k \in Clients : Badge(k)]_cvars
    BY StepCounts
<1> DEFINE A == \A k \in Clients : Badge(k)
<1> HIDE DEF A
<1>2. CSpec => [][A]_cvars
    BY <1>1, InitCInv, NextCInv, PTL DEF CSpec, A
<1> QED BY <1>2 DEF A, Badge, ArrivalsRaiseBadge

-----------------------------------------------------------------------------
(* What is on its way to a browser.  That it gets there in the end is        *)
(* EventsArrive and SyncArrives, for fair browsers; that no step of anybody  *)
(* loses it meanwhile needs no fairness.                                     *)

KeepsQueued(k, m) ==
    Queued(k, m) => Queued(k, m)' \/ m \in local'[k] \/ conn'[k] # "on"

LEMMA SameQueueKeeps ==
    ASSUME NEW k \in Clients, NEW m \in Messages, inbox'[k] = inbox[k]
    PROVE  KeepsQueued(k, m)
BY DEF KeepsQueued, Queued

LEMMA EmitKeeps ==
    ASSUME GInv, NEW kind \in {"new", "recalled"}, NEW x \in Messages, Emit(Event(kind, x)),
           NEW k \in Clients, NEW m \in Messages
    PROVE  KeepsQueued(k, m)
<1>1. Event(kind, x) \in AnyEvent /\ inbox[k] \in Seq(AnyEvent)
    BY DEF Event, AnyEvent, GInv, GTypeOK
<1>2. inbox'[k] = inbox[k] \/ inbox'[k] = Append(inbox[k], Event(kind, x))
    BY DEF Emit
<1>3. CASE inbox'[k] = Append(inbox[k], Event(kind, x))
    <2>1. Queued(k, m) => Queued(k, m)'
        BY <1>1, <1>3, AppendHolds DEF Queued
    <2> QED BY <2>1 DEF KeepsQueued
<1> QED BY <1>2, <1>3, SameQueueKeeps

LEMMA ServerKeeps ==
    ASSUME GInv, Server, NEW k \in Clients, NEW m \in Messages
    PROVE  KeepsQueued(k, m)
<1>1. ASSUME NEW c \in Clients, Drop(c) PROVE KeepsQueued(k, m)
    <2>1. conn'[k] # "on" \/ inbox'[k] = inbox[k]
        BY <1>1 DEF Drop, Cut, GInv, GTypeOK
    <2> QED BY <2>1, SameQueueKeeps DEF KeepsQueued
<1>2. CASE Crash
    BY <1>2 DEF Crash, KeepsQueued
<1>3. ASSUME NEW x \in Messages, SendEmit(x) PROVE KeepsQueued(k, m)
    BY <1>3, EmitKeeps DEF SendEmit
<1>4. ASSUME NEW c \in Clients, NEW x \in Messages, RecallEmit(c, x) PROVE KeepsQueued(k, m)
    BY <1>4, EmitKeeps DEF RecallEmit
<1>5. ASSUME NEW c \in Clients, Identify(c) \/ JoinGroupRoom(c) PROVE UNCHANGED inbox
    BY <1>5 DEF Identify, JoinGroupRoom
<1>6. Dissolve \/ (\E u \in Users : Admit(u) \/ Expel(u)) => UNCHANGED inbox
    BY DEF Admit, Expel, Dissolve, wire
<1>7. ASSUME NEW x \in Messages, ReceiveSend(x) \/ SendCheck(x) \/ SendStore(x) \/ SendFail(x)
      PROVE  UNCHANGED inbox
    BY <1>7 DEF ReceiveSend, SendCheck, SendStore, SendFail, wire
<1>8. ASSUME NEW c \in Clients, NEW x \in Messages,
             ReceiveRecall(c, x) \/ RecallCheck(c, x) \/ RecallRemove(c, x) \/ RecallFail(c, x)
      PROVE  UNCHANGED inbox
    BY <1>8 DEF ReceiveRecall, RecallCheck, RecallRemove, RecallFail, wire
<1> QED BY <1>1, <1>2, <1>3, <1>4, <1>5, <1>6, <1>7, <1>8, SameQueueKeeps
        DEF Server, HandleSend, HandleRecall

\* An event leaves the queue at its head, and is then in the browser.
LEMMA DeliverKeeps ==
    ASSUME CInv, NEW c \in Clients, Deliver(c), NEW k \in Clients, NEW m \in Messages
    PROVE  KeepsQueued(k, m)
<1>1. inbox[c] # <<>> /\ inbox' = [inbox EXCEPT ![c] = Tail(inbox[c])]
    BY DEF Deliver, Take
<1>2. inbox \in [Clients -> Seq(AnyEvent)] /\ local \in [Clients -> SUBSET Messages]
    BY DEF CInv, GInv, GTypeOK, CTypeOK, AnyEvent
<1>3. CASE k # c
    BY <1>1, <1>2, <1>3, SameQueueKeeps
<1>4. ASSUME k = c, NEW i \in DOMAIN inbox[k], inbox[k][i] = Event("new", m)
      PROVE  Queued(k, m)' \/ m \in local'[k]
    <2>1. CASE i = 1
        <3>1. Head(inbox[c]).kind = "new" /\ Head(inbox[c]).m = m
            BY <1>2, <1>4, <2>1 DEF Event
        <3>2. DeliverNew(c, m)
            BY <3>1 DEF Deliver
        <3> QED BY <1>2, <1>4, <3>2 DEF DeliverNew, Appended
    <2>2. CASE i # 1
        <3> DEFINE t == Tail(inbox[c])
        <3>1. inbox[c] \in Seq(AnyEvent) /\ i \in 1 .. Len(inbox[c])
            BY <1>2, <1>4, LenProperties
        <3>2. /\ t \in Seq(AnyEvent) /\ Len(t) = Len(inbox[c]) - 1
              /\ \A j \in 1 .. Len(t) : t[j] = inbox[c][j + 1]
            BY <1>1, <3>1, HeadTailProperties
        <3>3. Len(inbox[c]) \in Nat /\ DOMAIN t = 1 .. Len(t)
            BY <3>1, <3>2, LenProperties
        <3> HIDE DEF t
        <3>4. i - 1 \in DOMAIN t /\ t[i - 1] = inbox[c][(i - 1) + 1] /\ (i - 1) + 1 = i
            BY <2>2, <3>1, <3>2, <3>3
        <3>5. inbox'[k] = t
            BY <1>1, <1>2, <1>4 DEF t
        <3> QED BY <1>4, <3>4, <3>5 DEF Queued, Event
    <2> QED BY <2>1, <2>2
<1> QED BY <1>3, <1>4 DEF KeepsQueued, Queued

LEMMA StepKeepsQueued ==
    ASSUME CInv, [CNext]_cvars, NEW k \in Clients, NEW m \in Messages
    PROVE  KeepsQueued(k, m)
<1>1. ASSUME NEW c \in Clients, CloseApp(c) PROVE KeepsQueued(k, m)
    <2>1. conn'[k] # "on" \/ inbox'[k] = inbox[k]
        BY <1>1 DEF CloseApp, Close, Cut, CInv, GInv, GTypeOK
    <2> QED BY <2>1, SameQueueKeeps DEF KeepsQueued
<1>2. ASSUME NEW c \in Clients, OpenApp(c) \/ OpenChat(c) \/ LeaveChat(c) \/ Sync(c)
      PROVE  UNCHANGED inbox
    BY <1>2 DEF OpenApp, Open, OpenChat, LeaveChat, Sync, ListMessages, SyncApply, SyncFail,
       gvars
<1>3. ASSUME NEW x \in Messages,
             SendMessage(x) \/ \E c \in Clients : RecallMessage(c, x)
      PROVE  UNCHANGED inbox
    BY <1>3 DEF SendMessage, Send, RecallMessage, wire
<1>4. UNCHANGED cvars => UNCHANGED inbox
    BY DEF cvars
<1>5. GInv
    BY DEF CInv
<1> QED BY <1>1, <1>2, <1>3, <1>4, <1>5, SameQueueKeeps, ServerKeeps, DeliverKeeps DEF CNext

\* A message that was emitted to a connection stays queued until it is in the
\* browser's localStorage or the connection ends: the safety half of
\* EventsArrive.
THEOREM QueuedMessagesAreNotLost ==
    CSpec => [][\A k \in Clients, m \in Messages :
                Queued(k, m) => Queued(k, m)' \/ m \in local'[k] \/ conn'[k] # "on"]_cvars
<1> DEFINE A == \A k \in Clients, m \in Messages : KeepsQueued(k, m)
<1>1. CInv /\ [CNext]_cvars => [A]_cvars
    BY StepKeepsQueued
<1> HIDE DEF A
<1>2. CSpec => [][A]_cvars
    BY <1>1, InitCInv, NextCInv, PTL DEF CSpec
<1> QED BY <1>2 DEF A, KeepsQueued

\* The sync of k will bring m: it has been asked for while m was stored, or has
\* been answered with m.
Synced(k, m) ==
    \/ sync[k] = "asked" /\ m \in Listed(k)
    \/ sync[k] = "answered" /\ m \in got[k]

KeepsSynced(k, m) ==
    Synced(k, m) =>
        \/ Synced(k, m)'
        \/ m \in local'[k]
        \/ sync'[k] = "asked" /\ m \notin Listed(k)'
        \/ sync'[k] \in {"failed", "idle"}

LEMMA StepKeepsSynced ==
    ASSUME CInv, [CNext]_cvars, NEW k \in Clients, NEW m \in Messages
    PROVE  KeepsSynced(k, m)
<1>1. CTypeOK
    BY DEF CInv
<1>2. CASE UNCHANGED <<sync, got>>
    BY <1>2 DEF KeepsSynced, Synced
<1>3. ASSUME NEW c \in Clients, ListMessages(c) PROVE KeepsSynced(k, m)
    <2>1. CASE c = k
        BY <1>1, <1>3, <2>1 DEF ListMessages, KeepsSynced, Synced, CTypeOK
    <2>2. CASE c # k
        <3>1. sync'[k] = sync[k] /\ got'[k] = got[k]
            BY <1>1, <1>3, <2>2 DEF ListMessages, CTypeOK
        <3> QED BY <3>1 DEF KeepsSynced, Synced
    <2> QED BY <2>1, <2>2
<1>4. ASSUME NEW c \in Clients, SyncApply(c) \/ SyncFail(c) \/ CloseApp(c)
      PROVE  KeepsSynced(k, m)
    <2>1. CASE c = k
        BY <1>1, <1>4, <2>1
           DEF SyncApply, SyncFail, CloseApp, Appended, KeepsSynced, Synced, CTypeOK
    <2>2. CASE c # k
        <3>1. sync'[k] = sync[k] /\ got'[k] = got[k]
            BY <1>1, <1>4, <2>2 DEF SyncApply, SyncFail, CloseApp, CTypeOK
        <3> QED BY <3>1 DEF KeepsSynced, Synced
    <2> QED BY <2>1, <2>2
<1>5. ASSUME NEW c \in Clients, OpenApp(c) PROVE KeepsSynced(k, m)
    <2>1. got' = got /\ sync' = [sync EXCEPT ![c] = "asked"]
        BY <1>5 DEF OpenApp
    <2>2. sync'[k] = "asked" \/ sync'[k] = sync[k]
        BY <1>1, <2>1 DEF CTypeOK
    <2> QED BY <2>1, <2>2 DEF KeepsSynced, Synced
<1>6. ASSUME NEW c \in Clients, OpenChat(c) \/ LeaveChat(c) PROVE UNCHANGED <<sync, got>>
    BY <1>6 DEF OpenChat, LeaveChat, syncing
<1>7. ASSUME NEW c \in Clients, Deliver(c) PROVE UNCHANGED <<sync, got>>
    BY <1>7 DEF Deliver, DeliverNew, DeliverRecalled, syncing
<1>8. ASSUME NEW x \in Messages,
             SendMessage(x) \/ \E c \in Clients : RecallMessage(c, x)
      PROVE  UNCHANGED <<sync, got>>
    BY <1>8 DEF SendMessage, RecallMessage, syncing
<1>9. UNCHANGED syncing \/ UNCHANGED cvars => UNCHANGED <<sync, got>>
    BY DEF cvars, syncing
<1> QED BY <1>2, <1>3, <1>4, <1>5, <1>6, <1>7, <1>8, <1>9 DEF CNext, Sync

\* A message that was stored when the session asked is on its way until it is
\* in localStorage, unless the sync fails, the page closes, or the message is
\* recalled, or the user is no longer let in, before the server answers: the
\* safety half of SyncArrives.
THEOREM SyncedMessagesAreNotLost ==
    CSpec => [][\A k \in Clients, m \in Messages :
                Synced(k, m) =>
                    \/ Synced(k, m)'
                    \/ m \in local'[k]
                    \/ sync'[k] = "asked" /\ m \notin Listed(k)'
                    \/ sync'[k] \in {"failed", "idle"}]_cvars
<1> DEFINE A == \A k \in Clients, m \in Messages : KeepsSynced(k, m)
<1>1. CInv /\ [CNext]_cvars => [A]_cvars
    BY StepKeepsSynced
<1> HIDE DEF A
<1>2. CSpec => [][A]_cvars
    BY <1>1, InitCInv, NextCInv, PTL DEF CSpec
<1> QED BY <1>2 DEF A, KeepsSynced

=============================================================================

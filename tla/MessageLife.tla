------------------------------ MODULE MessageLife ------------------------------
(***************************************************************************)
(* What the message gateway promises, without packets, handlers, rooms or  *)
(* connections: a message is stored before anybody is told of it, is told  *)
(* at most once, is taken back for good, alone or with its group, and a    *)
(* recall is told of a message that was taken back and of no other.  Whoever is told may never hear.   *)
(***************************************************************************)
CONSTANTS
    Clients,
    Messages

VARIABLES
    life,           \* a message is "absent", "stored" or "removed"
    told,           \* the messages that were announced
    way             \* <<k, e>>: event e is on its way to client k

messages == <<life, told, way>>

Say(K, kind, m) == way' = way \cup {<<k, [kind |-> kind, m |-> m]>> : k \in K}

Store(m) ==
    /\ life[m] = "absent"
    /\ life' = [life EXCEPT ![m] = "stored"]
    /\ UNCHANGED <<told, way>>

Tell(m, K) ==
    /\ life[m] # "absent" /\ m \notin told
    /\ told' = told \cup {m}
    /\ Say(K, "new", m)
    /\ UNCHANGED life

\* One message when it is recalled, all of a group that is deleted.
TakeBack(M) ==
    /\ \A m \in M : life[m] = "stored"
    /\ life' = [m \in Messages |-> IF m \in M THEN "removed" ELSE life[m]]
    /\ UNCHANGED <<told, way>>

TellRecall(m, K) ==
    /\ life[m] = "removed"
    /\ Say(K, "recalled", m)
    /\ UNCHANGED <<life, told>>

\* Events are heard, or lost with their connection.
Fade ==
    /\ way' \subseteq way
    /\ UNCHANGED <<life, told>>

Init ==
    /\ life = [m \in Messages |-> "absent"]
    /\ told = {}
    /\ way = {}

Next ==
    \/ \E m \in Messages :
        \/ Store(m)
        \/ \E K \in SUBSET Clients : Tell(m, K) \/ TellRecall(m, K)
    \/ \E M \in SUBSET Messages : TakeBack(M)
    \/ Fade

Spec == Init /\ [][Next]_messages

=============================================================================

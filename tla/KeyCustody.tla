------------------------------ MODULE KeyCustody ------------------------------
(***************************************************************************)
(* What the application promises about identity keys, without passwords,   *)
(* pages or calls: an account has one key for ever, the browser that made  *)
(* it is the first to hold it, another browser gets it from a backup only, *)
(* and who holds it never loses it.                                        *)
(***************************************************************************)
CONSTANTS
    Users,
    Browsers,
    Keys,
    NoKey

VARIABLES
    identity,       \* the key an account is registered with, or NoKey
    holders,        \* the browsers that hold the key of an account
    carried         \* the accounts there is a backup file of

custody == <<identity, holders, carried>>

Register(u, k) ==
    /\ identity[u] = NoKey
    /\ identity' = [identity EXCEPT ![u] = k]
    /\ UNCHANGED <<holders, carried>>

\* The first copy: the browser that generated the key.
Keep(u, b) ==
    /\ identity[u] # NoKey
    /\ holders[u] = {}
    /\ holders' = [holders EXCEPT ![u] = {b}]
    /\ UNCHANGED <<identity, carried>>

Export(u) ==
    /\ holders[u] # {}
    /\ carried' = carried \cup {u}
    /\ UNCHANGED <<identity, holders>>

Import(u, b) ==
    /\ u \in carried
    /\ holders' = [holders EXCEPT ![u] = @ \cup {b}]
    /\ UNCHANGED <<identity, carried>>

Init ==
    /\ identity = [u \in Users |-> NoKey]
    /\ holders = [u \in Users |-> {}]
    /\ carried = {}

Next ==
    \E u \in Users :
        \/ \E k \in Keys : Register(u, k)
        \/ \E b \in Browsers : Keep(u, b) \/ Import(u, b)
        \/ Export(u)

Spec == Init /\ [][Next]_custody

=============================================================================

--------------------------- MODULE GroupPageProofs ---------------------------
(***************************************************************************)
(* Proofs about GroupPage, for any groups, any of them with a key that     *)
(* does not open, any roles the answers show, and any number of commands   *)
(* in flight.                                                              *)
(***************************************************************************)
EXTENDS GroupPage, TLAPS

\* The groups that answers still to come can put on the page.  Leaving and
\* deleting only navigate.
Outstanding ==
    loads \cup asks \cup unwraps \cup {c.group : c \in {d \in pending : d.kind # "quit"}}

\* A page that is gone holds nothing and waits for nothing.
GoneIsEmpty ==
    route = None =>
        /\ shown = None /\ role = "none" /\ groupKey = None /\ listed = None
        /\ Outstanding = {} /\ visited = {}

\* A role is that in the group shown.
RoleIsShown == role # "none" => shown # None

AtVisited == route # None => route \in visited

\* A page that was at one group only has it alone, and waits for it alone.
OneGroupOnly ==
    visited = {route} => {shown, groupKey, listed} \cup Outstanding \subseteq {route, None}

\* Such a page has the key, or it is being unwrapped, once the private key is
\* there and the group is shown.
KeyOnItsWay ==
    /\ route # None /\ visited = {route} /\ shown = route
    /\ role # "none" /\ unlocked /\ route \notin Broken
    => route \in unwraps \/ groupKey = route

PageInv ==
    TypeOK /\ GoneIsEmpty /\ RoleIsShown /\ AtVisited /\ OneGroupOnly /\ KeyOnItsWay

-----------------------------------------------------------------------------
LEMMA CommandGroups == ASSUME NEW c \in Commands PROVE c.group \in Groups
BY DEF Commands

LEMMA InitPageInv == Init => PageInv
BY PageAssumption DEF Init, PageInv, TypeOK, GoneIsEmpty, RoleIsShown, AtVisited, OneGroupOnly, KeyOnItsWay,
   Outstanding, Roles

\* A page that stays where it is, and gets or waits for nothing new but of
\* groups it had or waited for already, or of its own.
LEMMA StaysPage ==
    ASSUME PageInv, TypeOK', route # None, UNCHANGED <<route, visited>>,
           {shown', groupKey', listed'} \cup Outstanding'
                \subseteq {shown, groupKey, listed} \cup Outstanding \cup {route, None},
           RoleIsShown', KeyOnItsWay'
    PROVE  PageInv'
BY DEF PageInv, GoneIsEmpty, AtVisited, OneGroupOnly

LEMMA UnmountPage ==
    ASSUME PageInv, NEW commands, commands \subseteq pending, Unmount(commands),
           UNCHANGED unlocked
    PROVE  PageInv'
<1>1. TypeOK'
    BY DEF PageInv, TypeOK, Roles, Unmount
<1>2. Outstanding' = {}
    BY DEF Unmount, Outstanding
<1>3. GoneIsEmpty' /\ RoleIsShown' /\ AtVisited' /\ OneGroupOnly' /\ KeyOnItsWay'
    BY <1>2 DEF Unmount, GoneIsEmpty, RoleIsShown, AtVisited, OneGroupOnly, KeyOnItsWay
<1> QED BY <1>1, <1>3 DEF PageInv

LEMMA MountPage ==
    ASSUME PageInv, NEW g \in Groups, Mount(g)
    PROVE  PageInv'
<1>1. /\ shown = None /\ role = "none" /\ groupKey = None /\ listed = None
      /\ Outstanding = {} /\ g # None
    BY PageAssumption DEF PageInv, GoneIsEmpty, Mount
<1>2. TypeOK'
    BY DEF PageInv, TypeOK, Mount
<1>3. Outstanding' = {g}
    BY <1>1 DEF Mount, Outstanding
<1> QED BY <1>1, <1>2, <1>3
        DEF Mount, PageInv, GoneIsEmpty, RoleIsShown, AtVisited, OneGroupOnly, KeyOnItsWay

\* The page has been at two groups now.
LEMMA SwitchPage ==
    ASSUME PageInv, NEW g \in Groups, Switch(g)
    PROVE  PageInv'
<1>1. route \in visited /\ route # g /\ g # None
    BY PageAssumption DEF PageInv, AtVisited, Switch
<1>2. /\ route' = g /\ visited' = visited \cup {g} /\ loads' = loads \cup {g}
      /\ asks' \subseteq asks \cup {g} /\ listed' \in {listed, None}
      /\ UNCHANGED <<unlocked, shown, role, groupKey, unwraps, pending>>
    <2>1. RequestsEffect(g, shown, role)
        BY DEF Switch
    <2>2. asks' \subseteq asks \cup {g} /\ listed' \in {listed, None}
        BY <2>1 DEF RequestsEffect
    <2> QED BY <2>2 DEF Switch
<1>3. TypeOK'
    BY <1>2 DEF PageInv, TypeOK
<1>4. visited' # {route'} /\ route' \in visited' /\ route' # None
    BY <1>1, <1>2
<1>5. RoleIsShown'
    BY <1>2 DEF PageInv, RoleIsShown
<1> QED BY <1>3, <1>4, <1>5 DEF PageInv, GoneIsEmpty, AtVisited, OneGroupOnly,
       KeyOnItsWay

LEMMA UnlockPage ==
    ASSUME PageInv, Unlock
    PROVE  PageInv'
<1>1. \/ /\ role # "none" /\ unwraps' = unwraps \cup {shown} /\ groupKey' = groupKey
      \/ /\ role = "none" /\ groupKey' = None /\ unwraps' = unwraps
    BY DEF Unlock, KeyEffect
<1>2. TypeOK'
    <2>1. role # "none" => shown \in Groups
        BY DEF PageInv, TypeOK, RoleIsShown
    <2>2. unwraps' \subseteq Groups /\ groupKey' \in Groups \cup {None}
        BY <1>1, <2>1 DEF PageInv, TypeOK
    <2>3. unlocked' = TRUE /\ UNCHANGED <<route, shown, role, listed, loads, asks, pending, visited>>
        BY DEF Unlock
    <2> QED BY <2>2, <2>3 DEF PageInv, TypeOK
<1>3. CASE route = None
    <2>1. UNCHANGED <<route, shown, role, groupKey, listed, visited>> /\ Outstanding' = Outstanding
        BY <1>1, <1>3 DEF PageInv, GoneIsEmpty, Unlock, Outstanding
    <2> QED BY <1>2, <1>3, <2>1
            DEF PageInv, GoneIsEmpty, RoleIsShown, AtVisited, OneGroupOnly, KeyOnItsWay
<1>4. CASE route # None
    <2>1. RoleIsShown' /\ KeyOnItsWay'
        BY <1>1, <1>4 DEF PageInv, RoleIsShown, Unlock, KeyOnItsWay
    <2>2. {shown', groupKey', listed'} \cup Outstanding'
            \subseteq {shown, groupKey, listed} \cup Outstanding \cup {route, None}
        BY <1>1 DEF Unlock, Outstanding
    <2> QED BY <1>2, <1>4, <2>1, <2>2, StaysPage DEF Unlock
<1> QED BY <1>3, <1>4

\* A group that is put on the page: one that was awaited.
LEMMA SetGroupFacts ==
    ASSUME PageInv, NEW g \in Groups, SetGroup(g), unlocked' = unlocked,
           route' = route, visited' = visited
    PROVE  /\ shown' = g /\ role' \in Roles
           /\ groupKey' \in {groupKey, None} /\ listed' \in {listed, None}
           /\ asks' = asks \/ (asks' = asks \cup {g})
           /\ unwraps' = unwraps \/ (unwraps' = unwraps \cup {g})
           /\ RoleIsShown' /\ KeyOnItsWay'
<1>1. PICK as \in Roles :
        /\ shown' = g /\ role' = as
        /\ RequestsEffect(route, g, as)
        /\ IF role = "none" /\ as = "none" THEN UNCHANGED <<groupKey, unwraps>>
                                           ELSE KeyEffect(g, as, unlocked)
    BY DEF SetGroup
<1>2. /\ asks' = asks \/ asks' = asks \cup {g}
      /\ listed' = listed \/ listed' = None
    <2>1. CanManage(route, g, as) => route = g
        BY DEF CanManage
    <2> QED BY <1>1, <2>1 DEF RequestsEffect
<1>3. \/ unlocked /\ as # "none" /\ unwraps' = unwraps \cup {g} /\ groupKey' = groupKey
      \/ ~(unlocked /\ as # "none") /\ groupKey' \in {groupKey, None} /\ unwraps' = unwraps
    <2>1. CASE role = "none" /\ as = "none"
        BY <1>1, <2>1
    <2>2. CASE ~(role = "none" /\ as = "none")
        <3>1. KeyEffect(g, as, unlocked)
            BY <1>1, <2>2
        <3> QED BY <3>1 DEF KeyEffect
    <2> QED BY <2>1, <2>2
<1>4. RoleIsShown' /\ KeyOnItsWay'
    BY <1>1, <1>3, PageAssumption DEF RoleIsShown, KeyOnItsWay
<1> QED BY <1>1, <1>2, <1>3, <1>4

LEMMA LoadPage ==
    ASSUME PageInv, NEW g \in Groups, LoadAnswered(g)
    PROVE  PageInv'
<1>1. g \in Outstanding /\ route # None
    BY DEF LoadAnswered, Outstanding, PageInv, GoneIsEmpty
<1>2. SetGroup(g) /\ loads' \subseteq loads
      /\ UNCHANGED <<route, unlocked, pending, visited>>
    BY DEF LoadAnswered, Answered
<1>3. /\ shown' = g /\ role' \in Roles
      /\ groupKey' \in {groupKey, None} /\ listed' \in {listed, None}
      /\ asks' = asks \/ (asks' = asks \cup {g})
      /\ unwraps' = unwraps \/ (unwraps' = unwraps \cup {g})
      /\ RoleIsShown' /\ KeyOnItsWay'
    BY <1>2, SetGroupFacts
<1>4. TypeOK'
    BY <1>2, <1>3 DEF PageInv, TypeOK
<1>5. {shown', groupKey', listed'} \cup Outstanding'
        \subseteq {shown, groupKey, listed} \cup Outstanding \cup {route, None}
    BY <1>1, <1>2, <1>3 DEF Outstanding
<1> QED BY <1>1, <1>2, <1>3, <1>4, <1>5, StaysPage

LEMMA EditedPage ==
    ASSUME PageInv, NEW c \in pending, Edited(c), UNCHANGED unlocked
    PROVE  PageInv'
<1> DEFINE g == c.group
<1>1. g \in Groups /\ g \in Outstanding /\ route # None
    BY CommandGroups DEF Edited, Outstanding, PageInv, GoneIsEmpty, TypeOK
<1>2. SetGroup(g) /\ pending' \subseteq pending /\ UNCHANGED <<route, loads, visited>>
    BY DEF Edited, Answered
<1> HIDE DEF g
<1>3. /\ shown' = g /\ role' \in Roles
      /\ groupKey' \in {groupKey, None} /\ listed' \in {listed, None}
      /\ asks' = asks \/ (asks' = asks \cup {g})
      /\ unwraps' = unwraps \/ (unwraps' = unwraps \cup {g})
      /\ RoleIsShown' /\ KeyOnItsWay'
    BY <1>1, <1>2, SetGroupFacts
<1>4. TypeOK'
    BY <1>1, <1>2, <1>3 DEF PageInv, TypeOK
<1>5. {shown', groupKey', listed'} \cup Outstanding'
        \subseteq {shown, groupKey, listed} \cup Outstanding \cup {route, None}
    BY <1>1, <1>2, <1>3 DEF Outstanding
<1> QED BY <1>1, <1>2, <1>3, <1>4, <1>5, StaysPage

LEMMA ReloadedPage ==
    ASSUME PageInv, NEW c \in pending, Reloaded(c), UNCHANGED unlocked
    PROVE  PageInv'
<1> DEFINE g == c.group
<1>1. g \in Groups /\ g \in Outstanding /\ route # None
    BY CommandGroups DEF Reloaded, Outstanding, PageInv, GoneIsEmpty, TypeOK
<1>2. /\ loads' \subseteq loads \cup {g} /\ asks' \subseteq asks \cup {g}
      /\ pending' \subseteq pending
      /\ UNCHANGED <<route, shown, role, groupKey, listed, unwraps, visited>>
    BY DEF Reloaded, Answered
<1> HIDE DEF g
<1>3. TypeOK'
    BY <1>1, <1>2 DEF PageInv, TypeOK
<1>4. RoleIsShown' /\ KeyOnItsWay'
    BY <1>2 DEF PageInv, RoleIsShown, KeyOnItsWay
<1>5. {shown', groupKey', listed'} \cup Outstanding'
        \subseteq {shown, groupKey, listed} \cup Outstanding \cup {route, None}
    BY <1>1, <1>2 DEF Outstanding
<1> QED BY <1>1, <1>2, <1>3, <1>4, <1>5, StaysPage

\* An answer that does not reload: none of these can come to a page that is
\* gone but the refusal of a command that leaves.
LEMMA AnswerPage ==
    ASSUME PageInv, NEW g \in Groups,
           RequestsAnswered(g) \/ RequestsFail(g) \/ LoadFails(g) \/ Unwrapped(g)
    PROVE  PageInv'
<1>1. g \in Outstanding /\ route # None
    BY DEF RequestsAnswered, RequestsFail, LoadFails, Unwrapped, Outstanding, PageInv, GoneIsEmpty
<1>2. /\ listed' \in {listed, g} /\ groupKey' \in {groupKey, g, None}
      /\ loads' \subseteq loads /\ asks' \subseteq asks /\ unwraps' \subseteq unwraps
      /\ UNCHANGED <<route, unlocked, shown, role, pending, visited>>
    BY DEF RequestsAnswered, RequestsFail, LoadFails, Unwrapped, Answered
<1>3. TypeOK'
    BY <1>2 DEF PageInv, TypeOK
<1>4. RoleIsShown' /\ KeyOnItsWay'
    <2>0. RoleIsShown'
        BY <1>2 DEF PageInv, RoleIsShown
    <2>1. CASE Unwrapped(g)
        <3>1. ASSUME visited = {route} PROVE g = route
            BY <1>1, <3>1, PageAssumption DEF PageInv, OneGroupOnly
        <3> QED BY <1>2, <2>0, <2>1, <3>1 DEF Unwrapped, KeyOnItsWay, PageInv
    <2>2. CASE UNCHANGED <<unwraps, groupKey>>
        BY <1>2, <2>0, <2>2 DEF PageInv, KeyOnItsWay
    <2> QED BY <2>0, <2>1, <2>2 DEF RequestsAnswered, RequestsFail, LoadFails
<1>5. {shown', groupKey', listed'} \cup Outstanding'
        \subseteq {shown, groupKey, listed} \cup Outstanding \cup {route, None}
    BY <1>1, <1>2 DEF Outstanding
<1> QED BY <1>1, <1>2, <1>3, <1>4, <1>5, StaysPage

LEMMA HearUpdatePage == ASSUME PageInv, HearUpdate PROVE PageInv'
<1>1. /\ route # None
      /\ loads' = loads \cup {route} /\ asks' \subseteq asks \cup {route}
      /\ UNCHANGED <<route, unlocked, shown, role, groupKey, listed, unwraps, pending, visited>>
    BY DEF HearUpdate
<1>2. TypeOK'
    BY <1>1 DEF PageInv, TypeOK
<1>3. RoleIsShown' /\ KeyOnItsWay'
    BY <1>1 DEF PageInv, RoleIsShown, KeyOnItsWay
<1>4. {shown', groupKey', listed'} \cup Outstanding'
        \subseteq {shown, groupKey, listed} \cup Outstanding \cup {route, None}
    BY <1>1 DEF Outstanding
<1> QED BY <1>1, <1>2, <1>3, <1>4, StaysPage

\* A command is given on a page, and names its group or the one that is shown.
LEMMA CommandPage ==
    ASSUME PageInv, NEW kind \in {"edit", "remove", "approve", "reject", "quit"},
           NEW g \in Groups, g \in {route, shown}, Command(kind, g)
    PROVE  PageInv'
<1>1. route # None
    BY PageAssumption DEF PageInv, GoneIsEmpty
<1>2. /\ pending' = pending \cup {[kind |-> kind, group |-> g]}
      /\ UNCHANGED <<route, unlocked, shown, role, groupKey, listed, loads, asks, unwraps,
                     visited>>
    BY DEF Command
<1>3. [kind |-> kind, group |-> g] \in Commands
    BY DEF Commands
<1>4. TypeOK'
    BY <1>2, <1>3 DEF PageInv, TypeOK
<1>5. RoleIsShown' /\ KeyOnItsWay'
    BY <1>2 DEF PageInv, RoleIsShown, KeyOnItsWay
<1>6. Outstanding' \subseteq Outstanding \cup {g}
    BY <1>2 DEF Outstanding
<1> QED BY <1>1, <1>2, <1>4, <1>5, <1>6, StaysPage

LEMMA CommandsPage ==
    ASSUME PageInv,
           Rename \/ SetRole \/ RemoveMember \/ Approve \/ Reject \/ DeleteOrLeave
    PROVE  PageInv'
<1>1. role # "none" => shown \in Groups /\ route \in Groups
    BY DEF PageInv, TypeOK, RoleIsShown, GoneIsEmpty
<1>2. CASE Rename
    BY <1>2, CommandPage DEF Rename
<1>3. CASE SetRole \/ RemoveMember
    BY <1>1, <1>3, CommandPage DEF SetRole, RemoveMember
<1>4. CASE Approve \/ Reject
    <2>1. route \in Groups
        BY <1>4, PageAssumption DEF Approve, Reject, PageInv, GoneIsEmpty, TypeOK
    <2> QED BY <1>4, <2>1, CommandPage DEF Approve, Reject
<1>5. CASE DeleteOrLeave
    BY <1>1, <1>5, CommandPage DEF DeleteOrLeave
<1> QED BY <1>2, <1>3, <1>4, <1>5

\* Steps that show nothing and ask for nothing.
LEMMA QuietPage ==
    ASSUME PageInv, pending' \subseteq pending,
           UNCHANGED <<route, unlocked, shown, role, groupKey, listed, loads, asks, unwraps,
                       visited>>
    PROVE  PageInv'
<1>1. TypeOK' /\ RoleIsShown' /\ KeyOnItsWay' /\ AtVisited'
    BY DEF PageInv, TypeOK, RoleIsShown, KeyOnItsWay, AtVisited
<1>2. Outstanding' \subseteq Outstanding
    BY DEF Outstanding
<1>3. GoneIsEmpty' /\ OneGroupOnly'
    BY <1>2 DEF PageInv, GoneIsEmpty, OneGroupOnly
<1> QED BY <1>1, <1>3 DEF PageInv

LEMMA NextPageInv == PageInv /\ [Next]_vars => PageInv'
<1> SUFFICES ASSUME PageInv, [Next]_vars PROVE PageInv'
    OBVIOUS
<1>1. CASE UNCHANGED vars
    BY <1>1, QuietPage DEF vars, answers
<1>2. CASE Leave
    BY <1>2, UnmountPage DEF Leave
<1>3. ASSUME NEW c \in pending, Done(c) PROVE PageInv'
    <2>1. CASE Gone(c)
        BY <1>3, <2>1, UnmountPage DEF Done, Gone, Answered
    <2> QED BY <1>3, <2>1, EditedPage, ReloadedPage DEF Done
<1>4. ASSUME NEW c \in pending, Refused(c) PROVE PageInv'
    BY <1>4, QuietPage DEF Refused, Answered
<1> QED BY <1>1, <1>2, <1>3, <1>4, MountPage, SwitchPage, LoadPage, AnswerPage,
       UnlockPage, HearUpdatePage, CommandsPage DEF Next

THEOREM PageInvariant == Spec => []PageInv
BY InitPageInv, NextPageInv, PTL DEF Spec

-----------------------------------------------------------------------------
(* The theorems. *)

\* Every variable has its type.
THEOREM PageTypeCorrect == Spec => []TypeOK
BY PageInvariant, PTL DEF PageInv

\* A page that was opened anew for its group has nothing of another, whatever
\* requests of earlier pages, renames, updates and commands are in flight.
THEOREM PagesDoNotMix == Spec => []OneGroupNoMixUp
<1>1. PageInv => OneGroupNoMixUp
    BY DEF PageInv, OneGroupOnly, OneGroupNoMixUp
<1> QED BY <1>1, PageInvariant, PTL

\* A page that was at no other group never loses its key: shown with a private
\* key it has the key of its group or is unwrapping it, unless it does not open.
THEOREM OwnKeyOnItsWay == Spec => []KeyOnItsWay
BY PageInvariant, PTL DEF PageInv

-----------------------------------------------------------------------------
(* What OwnKeyArrives rests on: a key that is awaited stays awaited until it *)
(* is there.  That it is unwrapped in the end is fairness.                   *)

LEMMA AwaitedIsUnwrapping ==
    ASSUME PageInv, NEW g \in Groups, AwaitsKey(g)
    PROVE  g \in unwraps
BY PageAssumption DEF AwaitsKey, PageInv, KeyOnItsWay

KeepsAwaiting(g) == AwaitsKey(g) => AwaitsKey(g)' \/ groupKey' = g \/ route' # g

\* The page stays, and waits for nothing of another group.
LEMMA StillAwaits ==
    ASSUME NEW g \in Groups, AwaitsKey(g), g \in unwraps', unwraps' \subseteq {g},
           route' = route, shown' = g, unlocked' = unlocked, loads' \subseteq {g},
           {c.group : c \in pending'} \subseteq {g}
    PROVE  AwaitsKey(g)'
BY DEF AwaitsKey

LEMMA SetGroupAwaits ==
    ASSUME PageInv, NEW g \in Groups, AwaitsKey(g), SetGroup(g), loads' \subseteq {g},
           {c.group : c \in pending'} \subseteq {g}, UNCHANGED <<route, unlocked>>
    PROVE  AwaitsKey(g)'
<1>1. shown' = g /\ unwraps' \in {unwraps, unwraps \cup {g}}
    <2>1. PICK as \in Roles :
            /\ shown' = g
            /\ IF role = "none" /\ as = "none" THEN UNCHANGED <<groupKey, unwraps>>
                                               ELSE KeyEffect(g, as, unlocked)
        BY DEF SetGroup
    <2> QED BY <2>1 DEF KeyEffect
<1>2. g \in unwraps
    BY AwaitedIsUnwrapping
<1> QED BY <1>1, <1>2, StillAwaits DEF AwaitsKey

LEMMA CommandAwaits ==
    ASSUME PageInv, NEW g \in Groups, AwaitsKey(g),
           Rename \/ SetRole \/ RemoveMember \/ Approve \/ Reject \/ DeleteOrLeave
    PROVE  AwaitsKey(g)'
<1>1. shown = g /\ route = g
    BY DEF AwaitsKey
<1>2. PICK kind : Command(kind, g)
    BY <1>1 DEF Rename, SetRole, RemoveMember, Approve, Reject, DeleteOrLeave
<1>3. {c.group : c \in pending'} \subseteq {g}
    BY <1>2 DEF Command, AwaitsKey
<1>4. g \in unwraps
    BY AwaitedIsUnwrapping
<1> QED BY <1>1, <1>2, <1>3, <1>4, StillAwaits DEF Command, AwaitsKey

LEMMA AnswersAwait ==
    ASSUME PageInv, NEW g \in Groups, AwaitsKey(g), NEW x \in Groups,
           \/ LoadAnswered(x) \/ LoadFails(x) \/ RequestsAnswered(x) \/ RequestsFail(x)
           \/ Unwrapped(x)
    PROVE  AwaitsKey(g)' \/ groupKey' = g
<1>1. g \in unwraps
    BY AwaitedIsUnwrapping
<1>2. CASE LoadAnswered(x)
    <2>1. x = g
        BY <1>2 DEF LoadAnswered, AwaitsKey
    <2>2. loads' \subseteq {g} /\ {c.group : c \in pending'} \subseteq {g}
        BY <1>2 DEF LoadAnswered, Answered, AwaitsKey
    <2> QED BY <1>2, <2>1, <2>2, SetGroupAwaits DEF LoadAnswered
<1>3. CASE Unwrapped(x)
    BY <1>3 DEF Unwrapped, AwaitsKey
<1>4. CASE LoadFails(x) \/ RequestsAnswered(x) \/ RequestsFail(x)
    <2>1. /\ loads' \subseteq loads
          /\ UNCHANGED <<route, shown, unlocked, unwraps, pending>>
        BY <1>4 DEF LoadFails, RequestsAnswered, RequestsFail, Answered
    <2> QED BY <1>1, <2>1, StillAwaits DEF AwaitsKey
<1> QED BY <1>2, <1>3, <1>4

LEMMA DoneAwaits ==
    ASSUME PageInv, NEW g \in Groups, AwaitsKey(g), NEW c \in pending, Done(c)
    PROVE  AwaitsKey(g)' \/ route' # g
<1>1. g \in unwraps /\ c.group = g /\ unlocked' = unlocked
    BY AwaitedIsUnwrapping DEF AwaitsKey, Done
<1>2. CASE Edited(c)
    <2>1. /\ loads' \subseteq {g} /\ {d.group : d \in pending'} \subseteq {g}
          /\ SetGroup(g) /\ UNCHANGED route
        BY <1>1, <1>2 DEF Edited, Answered, AwaitsKey
    <2> QED BY <1>1, <2>1, SetGroupAwaits
<1>3. CASE Reloaded(c)
    <2>1. /\ loads' \subseteq {g} /\ {d.group : d \in pending'} \subseteq {g}
          /\ UNCHANGED <<route, shown, unwraps>>
        BY <1>1, <1>3 DEF Reloaded, Answered, AwaitsKey
    <2> QED BY <1>1, <2>1, StillAwaits DEF AwaitsKey
<1>4. CASE Gone(c)
    BY <1>4, PageAssumption DEF Gone, Unmount
<1> QED BY <1>2, <1>3, <1>4 DEF Done

LEMMA StepAwaits == PageInv /\ [Next]_vars => \A g \in Groups : KeepsAwaiting(g)
<1> SUFFICES ASSUME PageInv, [Next]_vars, NEW g \in Groups, AwaitsKey(g)
             PROVE  AwaitsKey(g)' \/ groupKey' = g \/ route' # g
    BY DEF KeepsAwaiting
<1>1. g \in unwraps /\ route = g /\ g # None
    BY AwaitedIsUnwrapping, PageAssumption DEF AwaitsKey
<1>2. ASSUME UNCHANGED <<route, shown, unlocked, unwraps>>, loads' \subseteq {g},
             pending' \subseteq pending
      PROVE  AwaitsKey(g)'
    BY <1>1, <1>2, StillAwaits DEF AwaitsKey
<1>3. CASE UNCHANGED vars \/ \E c \in pending : Refused(c)
    <2>1. loads' = loads /\ pending' \subseteq pending
          /\ UNCHANGED <<route, shown, unlocked, unwraps>>
        BY <1>3 DEF vars, answers, Refused, Answered
    <2> QED BY <1>2, <2>1 DEF AwaitsKey
<1>4. CASE HearUpdate
    BY <1>1, <1>2, <1>4 DEF HearUpdate, AwaitsKey
<1>5. CASE Leave \/ \E x \in Groups : Switch(x) \/ Mount(x)
    BY <1>1, <1>5 DEF Leave, Unmount, Switch, Mount
<1>6. ~Unlock
    BY DEF Unlock, AwaitsKey
<1> QED BY <1>3, <1>4, <1>5, <1>6, AnswersAwait, CommandAwaits, DoneAwaits DEF Next

\* Whatever is answered, heard, renamed or refused meanwhile: the key of a page
\* that nothing of another group can reach any more is awaited until it is there
\* or the page is left.
THEOREM AwaitedKeyIsNotLost ==
    Spec => [][\A g \in Groups :
                AwaitsKey(g) => AwaitsKey(g)' \/ groupKey' = g \/ route' # g]_vars
<1> DEFINE A == \A g \in Groups : KeepsAwaiting(g)
<1>1. PageInv /\ [Next]_vars => [A]_vars
    BY StepAwaits
<1> HIDE DEF A
<1>2. Spec => [][A]_vars
    BY <1>1, InitPageInv, NextPageInv, PTL DEF Spec
<1> QED BY <1>2 DEF A, KeepsAwaiting

=============================================================================

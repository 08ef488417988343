# EncryptedChat in TLA+

This directory is a verification development beside the EncryptedChat
repository: a NestJS API with PostgreSQL (through Prisma) and Socket.IO, and a
React client that encrypts in the browser. The modules model the state that
several requests, connections or browsers share, and how it changes one
database query, one socket event or one synchronous run of browser code at a
time. Cryptography, layout and wording are left out; a payload is opaque.

    tlc -config Groups.cfg MCGroupService.tla     # model-check one run
    tlapm GroupServiceProofs.tla                  # check the proofs

`PROJECT.json` lists the components, the runs, the source lines behind each
definition, the findings, the hazards and the theorems.

## 1. The system

| Component | State | Operations | Interacts with | Hard | Correct when |
|---|---|---|---|---|---|
| Group membership (`groups.service.ts`) | tables groups, group_members, group_invites, group_join_requests | create, updateName, invite, requestJoin, approve/rejectJoinRequest, accept/rejectInvite, updateMemberRole, removeMember, deleteGroup | the controllers call it; it tells the realtime service after a write | each handler is a chain of awaited queries, and other handlers run in between; unique indexes; cascades; lost replies | one owner, who stays a member; every other member was let in by an answer; an answer and an admission are one; nothing outlives a group |
| Friendships (`friends.service.ts`) | tables friend_requests, friendships | createRequest, accept, reject, remove | as above; gateway and files read it | crossing requests, double answers, removals | one friendship per pair, and none that nobody asked for; one open request per pair; an answer is final |
| Handshake and rooms (`realtime.gateway.ts`, `realtime-events.service.ts`) | connections and their rooms | handleConnection, handleDisconnect, joinUserSocketsToGroup, emits | reads memberships while the group handlers change them | two chains that may miss each other | a connected member gets into the room; nobody else does |
| Message gateway and store (`realtime.gateway.ts`, `messages.service.ts`) | table encrypted_messages; packets and events on the wire | message:send, message:recall, listForUser | browsers, friendship and membership | check, then write, then emit; crashes, lost packets, reconnects; recalls from two browsers | what is delivered is stored; what is recalled stays out |
| Client session (`AuthContext.tsx`) | token, user, socket, private key, unread counts, online users | login, logout, offline sync, socket handlers | HTTP and socket of the API, localStorage | the sync and socket events carry the same message in either order | every stored message gets to the browser once, and a recall is kept |
| Local stores (`localMessages.ts`, `unreadConversations.ts`) | localStorage: messages, recall notices, unread counts | append, remove, count, clear | the session and the chat pages write them, one after the other | survives the page that wrote it | screen and store agree |
| Chat pages (`ChatPage.tsx`, `GroupChatPage.tsx`) | a copy of the conversation on the screen | open, leave, send, recall, socket handlers | as above | the copy and localStorage are changed by different handlers | a reload shows what was shown |
| Presence (gateway, `AuthContext.tsx`, `groupPresence.ts`) | the client's list of online users | online/offline events per connection | all connections | several connections of a user; no snapshot | a user with a connection is online |
| Lists (`routes.tsx`, `FriendsPage.tsx`, `GroupsPage.tsx`) | friends, groups, requests on the screen | reload on every event | HTTP and socket | answers out of order; an event before the change | lists end up as the tables are |
| Identity keys (`AuthContext.tsx`, `privateKeyStore.ts`, `privateKeyBackup.ts`, `users.service.ts`) | IndexedDB, localStorage, password hash, public key, a tab's memory | register, login, unlock, change password, back up, restore, refresh, log out | two stores with no transaction between them, several tabs and browsers | a page that closes half-way; answers that come after the account changed | an account keeps its first key, who holds it never loses it, and every copy opens with a password the server accepted |
| Accounts and tokens (`auth.service.ts`, `users.service.ts`) | table users | register, login, search, update | all | check-then-insert on unique columns | names and uids are unique |
| Files (`files.service.ts`) | upload directory and table encrypted_files | upload, download | friendship and membership | file before row | no row without its file; who may read is the scope's |
| Composer (`ChatComposer.tsx`, `composerMessages.ts`, `sendMessage` of the pages) | draft, images, `sending`, the calls of sendMessage | edit, send, upload one image after the other, emit | uploads, the page that is switched meanwhile | the page, the draft and the membership change under a call | a message that is sent shows all of its images to whom it is for |
| Rendering (the decrypting effect of both pages) | what is on the screen, object URLs | runs again on every input, downloads, cleans up | messages, key, downloads | runs overlap, none is stopped | the screen at rest is current and its images work |
| Group page (`GroupChatPage.tsx`, `groupPermissions.ts`) | view, group key, join requests | load, unwrap, edit, remove, approve, reject, leave | the group's endpoints and events | one mounted page for all groups, late answers | nothing of another group; the key arrives |
| Encryption, user interface, HTTP client, deployment | none shared | | | | |

## 2. The modules

| Module | Models | Built on |
|---|---|---|
| `Membership` | what the API promises about group members, abstractly | |
| `GroupService` | group membership | `Membership` (instance) |
| `GroupRealtime` | handshake and group rooms, composed with the group handlers | `GroupService` |
| `Friendship` | what the API promises about friends, abstractly | |
| `FriendService` | friend requests and friendships | `Friendship` (instance) |
| `MessageLife` | what becomes of a message, abstractly | |
| `MessageGateway` | messages of one conversation at the server and on the wire | `MessageLife` (instance) |
| `ChatClient` | browsers of that conversation, composed with the gateway | `MessageGateway` |
| `KeyCustody` | what the application promises about identity keys, abstractly | |
| `IdentityKeys` | accounts, key records, sessions and tabs | `KeyCustody` (instance) |
| `EncryptedFiles` | uploads, the files and their rows, access | |
| `MessageSending` | composer and sendMessage, composed with the uploads | `EncryptedFiles` |
| `MessageRendering` | the effect that decrypts and shows a conversation | |
| `GroupPage` | what the page of a group loads and commands | |
| `MC...` | instances for TLC | the module of that name |
| `...Proofs` | theorems and proofs (those of `MessageGateway` are in `ChatClientProofs`) | the module of that name |

Four abstract specifications say what a component promises without its queries,
handlers, rows and failures, each in a handful of atomic steps. The component
implements it under a mapping that reads the tables only, so every interleaving of
handlers must come out as whole steps of it:

- `GroupService` implements `Membership` (property `MembershipKept` of run
  `GroupRooms`, theorem `MembershipIsKept`): a group is founded with its owner,
  everybody else enters as a plain member in the very step that answers them,
  only the founder is ever owner, and a deleted group is empty for good. The
  mapping keeps status, owner and roles, and takes an invitation or join request
  of any status for a call, one that is accepted or rejected for an answer.
- `FriendService` implements `Friendship` (property `FriendsByConsent` of run
  `Friends`, theorem `ConsentIsKept`): two users become friends in the step in
  which one accepts what the other asked, and part as a whole. A late no may come
  after a yes, as the code has it, and then takes no friend away. The mapping
  takes the pairs of the request rows, by status, and of the live friendships; an
  `upsert` that finds its row and an answer given again are stutters, or an
  `Accept` that changes nothing. It implies
  `FriendshipHasRequest` and `AcceptedMeansFriends`, which say two parts of it in
  plain words and are theorems of their own.
- `MessageGateway` implements `MessageLife` (property `MessagesLive` of run
  `Gateway`, theorem `MessagesLiveAsPromised`): a message is stored before anybody
  is told, told at most once, taken back for good, alone or with its group,
  and a recall is told of a message taken back only. The mapping keeps the rows, takes a message for told
  when its send is done, and forgets order and number of the events on the way to
  a browser. It implies `EmittedIsStored`, a theorem of its own.
- `IdentityKeys` implements `KeyCustody` (property `KeysInCustody` of run `Keys`,
  theorem `CustodyKept`). The mapping forgets passwords, tabs and calls: the key
  an account is registered with, the browsers whose record has that very key,
  the accounts there is a backup of. A record with another key than the
  account's does not count as holding, so an operation that overwrites a key is
  a step `KeyCustody` does not have.

The modules that compose implement the ones they are built on:

- `GroupRealtime` implements `GroupService` (theorem
  `RealtimeImplementsService`), so the theorems of the service hold with
  sockets, `MembershipKept` among them (`RealtimeKeepsMembership`).
- `ChatClient` implements `MessageGateway` (theorem `ChatImplementsGateway`, and
  property `GSpec` of run `Chat`): the gateway's specification lets a client
  recall any message that has a row, and the client's code, which recalls what it
  has on the screen, never goes beyond it. So messages live as promised with
  real browsers too (`ChatMessagesLive`).
- `MessageSending` implements `EncryptedFiles` (theorem
  `SendingImplementsFiles`): the composer drives the uploads as any client may,
  and `RowHasFile` needs nothing of the composer.

### State and actions

**Handlers.** In `GroupService` and `FriendService`, `call[h]` is a request being
handled: `pc` is the query it is waiting for, named after the handler
(`accept.commit`), with the values it has already read. Each awaited query is an
action (`InviteCheckMember`, `InviteCheckPending`, `InviteCreate`); the first one
is the arrival of the request (`Invite`). Two checks on what one query read are
conjuncts of one guard. A `$transaction` is one action: its statements commit or
roll back together. All ways to end early (a check that fails, an error of the
database, a reply that is lost after the commit) have the same effect, none, and
are one action, `Throw`. `Crash` ends all handlers and keeps the tables. The
synchronous code between two queries belongs to the query before it or after
it, since Node runs it without a break. PostgreSQL's default isolation lets a
check read what another handler is about to change: that is what the separate
steps say. A unique index is a guard of the insert or update it may refuse
(`Updatable`, `IndexAllowsPending`), a cascade part of the delete (`Cascade`).

**Sockets.** `GroupRealtime.sock[s]` is a connection: the user it belongs to,
the memberships it has read, the rooms it is in. `NotifyRooms` is the
synchronous end of a handler, where the sockets of a new member join.

**Messages.** `MessageGateway.row[m]` is the row of a message, `send[m]` and
`recall[k][m]` where its packets and their handlers are, `inbox[k]` the events
on their way to a browser. `Admit` and `Expel` change friendship or membership
while handlers run, and `Dissolve` deletes the group, its memberships and, by
the cascade, its messages; what they may do is left wide open here, it is the
other modules' subject. Entering the room is a step of its own after the
admission (`JoinGroupRoom`). A store is an insert: the other branch of the
`upsert` (`messages.service.ts:18`) needs a client message id that is used again,
and the pages draw a random UUID for every message. A broken connection loses its events; a packet is kept by the
client until the connection is up and may be lost with it (`SendFail`).

**Browsers.** `ChatClient` has localStorage (`local`, `notice`, `unread`), the
chat page (`chat`, `view`, `shown`) and the sync (`sync`, `got`). An event is
handled by the session's handler and then by the page's: one action, `Deliver`,
with the combined effect in the code's order.

**Keys.** `IdentityKeys` has the table users (`account`), IndexedDB (`store`) and
the session in localStorage for each browser, and for each tab the state of
`AuthProvider` (`page`). `call[c]` is an operation: its page, what it has read,
and the await it is at. `Logout` and `Reload` come between any two steps; an
operation goes on after a logout, as its promise does, and ends with the page it
was started in (`Finish`, `RefreshSet` write to the tab they belong to). A
password is a value, encryption a record of key and password that opens with
that password only. Passwords once given to an account are kept in a history
variable (`accepted`), which no guard reads.

**Files and composer.** `upload[f]` is a request to store file `f`: access
check, file, row, with `AccessChanges` in between. In `MessageSending` the draft
is whether it has text and which images; `send[s]` is a call of sendMessage with
the conversation its closure was made for. `Go` changes the address; `here` says
whether the composer that waits for the call is still mounted.

**Rendering.** `inputs` is what the effect depends on, `task[n]` its n-th run.
`Change` is one commit of React: cleanup of the run before, effect of the next;
it happens also when an input is replaced by an equal object.
`Show` is the end of a run; one that was superseded still downloads and makes
object URLs, and shows nothing.

**Group page.** Views, lists and keys are named by the group they are of, so that
a mix-up is a state. The server is not followed: every answer may show the
person in any role, or in none. Of several outstanding requests of one kind and
group the model keeps one, whose answer may leave it outstanding (`Answered`), so
any number of answers can come. Effects that depend on what a step changes are part of the
step (`RequestsEffect`, `KeyEffect`). Commands wait in `pending` for their late
answer (`Done`, `Refused`).

## 3. The runs

All runs end on their own: the state spaces are finite because ids of rows,
messages and handler slots are. `CHECK_DEADLOCK FALSE` throughout: when no id is
left and nobody sends a request the system may rest.

| Run | Question | Instance |
|---|---|---|
| `Groups` | Do races of roles, removals, answers and cascades keep one owner, let nobody in without an answer, and leave no double row and no row of a deleted group? | 3 users, 1 group, 2 invitations, 1 join request, 2 handlers |
| `GroupRooms` | Do handshake and admission meet, so that a connected member ends up in the room and nobody else does? Is `Membership` implemented? | 2 users, 1 group, 1 invitation, 2 handlers, 1 connection, fair |
| `Friends` | Do crossing requests, double answers and removals keep friendships unique, and is `Friendship` implemented: no friends without a yes to a question? | 2 users, 4 requests, 2 friendships, 3 handlers |
| `Gateway` | Does a recall last, also when the group is deleted, and is `MessageLife` implemented: is what is delivered stored, once? | group; 2 users, 3 browsers, 1 message |
| `Chat` | Do screen, localStorage and table agree, does what sync or the socket brings arrive, and is `MessageGateway` implemented? | direct; 2 browsers, 1 message, fair |
| `Keys` | Do all copies of a key open, is a key in memory always stored, is `KeyCustody` implemented? | 1 account, 2 browsers with a tab each, 2 passwords, 2 keys, 2 operations |
| `Sending` | Does a sent message show its images to whom it is for, has every row its file, does every send end? | 1 send, 2 images, 2 groups and 1 friend, fair |
| `Rendering` | Is the screen at rest current, do its images work, does it come to rest? | 2 messages, 3 runs, fair |
| `Page` | Does a page opened anew stay free of other groups, and does its key arrive? | 2 groups (one with a broken key), any roles, 2 commands, fair |

**Bounds.** The races of the handlers are races of two: every check-then-act pair
needs one handler to get in between another's two queries. Two slots give every
pair of handlers, in every order, repeatedly; three users give an owner, an
administrator and a third; a second invitation gives the second insert. In
`Friends` a third handler adds a removal to two crossing answers, and four
requests let the pair ask, part and ask again. Rows of different groups, and
messages, never meet in a guard, so one group and one message suffice; one
message has three kinds of handler in flight (its send, and a recall from each
of the author's browsers). One connection suffices for rooms: the invariants
speak of one connection and connections do not change each other. `GroupRooms`
has no join requests, since an approval enters rooms as an acceptance does;
`Groups` runs approvals, and `RoomsEarned` is proved for both. `MembershipKept` is
a property of the small `GroupRooms` for the time it takes; it holds on the
instance of `Groups` too (2.8 million states), approvals and a third user
included, and is proved for every instance.

`Keys`: two browsers are the least that a backup connects, two passwords the
least a change has, two operations the least that overlap, and a second key is
what a registration must not put in the place of the first. With two accounts
and one operation at a time (2.6 million states) the properties hold as well,
and answers that come after the account of a tab changed are in it. `Sending`:
calls share only access and file ids that are their own; an instance with two
calls (1 image, 1 group; 330,000 states) has the second send while a first one
waits. `Rendering`: a run meets its successor and that one's successor; the
message whose download is late and one whose is not. `Page`: a direct switch
needs two groups, one of them with a key that fails; each answer may make
the person a manager, a member or nobody. With two healthy groups (369,768
states) the properties hold as well.

Symmetry is used for safety only (in `Keys` the refinement is a safety property
of the form Init and [Next], which symmetry preserves as the mapping treats
accounts, keys and passwords alike). The theorems have no bounds.

A recall that went through is not repeated from the same browser (guard of
`Recall`); it would delete no row and emit the same event.

**Fairness.** `RFairSpec` is fair to handlers that run and to handshakes that
started: a query is answered or fails, and Node runs what is ready. Nobody has
to connect, send a request or stay. `CFairSpec` is fair to the sync (the call is
answered or fails) and to a browser's events (the event loop).
`MessageSending.FairSpec` is fair to the steps of sendMessage: a request is
answered or fails. `MessageRendering.FairSpec` is fair to the runs of the effect:
a download is answered or fails. `GroupPage.FairSpec` is fair to the unwrapping
of a key only, a promise of Web Crypto that settles; no request has to be
answered. The escapes in the properties (`Disconnect`, a closed page, a failed
sync, changed inputs, another address) are what the code does not promise.

### What the code does otherwise

Runs marked `violation` refute a statement of the repository by what its code
does; the findings of `PROJECT.json` quote it.

| Run | What happens |
|---|---|
| `GroupInviteStuck` | who left a group and is invited again cannot accept: the index covers the old, accepted row |
| `GroupLeaver` | the connection of a member who left stays in the room |
| `ChatRecallBack` | a sync that listed a message before its recall brings it back next to its notice |

The same models contain, without a run of their own (see the notes of the
hazards in `PROJECT.json`):

- Groups: a second answer to an invitation overwrites the first
  (`groups.service.ts:276`); a removal that read the target's role before a
  promotion removes an administrator (`groups.service.ts:363`).
- Friends: two users who ask each other at once leave two pending requests
  (`friends.service.ts:42`); friends who part and ask again in the same direction
  cannot accept (`friends.service.ts:101`); an acceptance that read the request
  pending revives a friendship that was refused or removed since
  (`friends.service.ts:90`).
- Messages: a message is stored after the friendship ended
  (`realtime.gateway.ts:172`); a delivered message stays on the server, which
  README.md:63 says keeps no history; an open page places a recall notice by the
  time of the recall, a reload by the time of the message (`ChatPage.tsx:87`); a
  message that comes by sync and by socket counts twice (`AuthContext.tsx:279`);
  a message stored after the sync's query and emitted before the socket is in its
  room, or while it is cut, gets to the browser at the next login only
  (`AuthContext.tsx:265`).
- Keys: a password change whose page closes before the record is put back leaves
  a record under the old password, which still opens with it
  (`AuthContext.tsx:160`); a registration whose page closes leaves an account
  whose key nobody has (`AuthContext.tsx:93`); an operation that ends after a
  logout or a change of account puts its key into the page it finds
  (`AuthContext.tsx:140`). `updatePublicKey` of the API (`users.service.ts:28`) has no caller and is not
  an action: with it an account could change its key, and `KeysInCustody` would
  not hold.
- Composer: the draft is cleared whether or not the message was sent
  (`ChatComposer.tsx:88`); Enter on the remove button of an image starts a second
  send of the same draft (`ChatComposer.tsx:156`); a failed upload leaves the
  earlier files on the server.
- Rendering: a download that ends after the cleanup of its run makes an object
  URL that nobody revokes (`GroupChatPage.tsx:220`).
- Group page: after going from one group straight to another, a late answer puts
  the first group's view, key or join requests into the page of the second
  (`GroupChatPage.tsx:113`, `:582`); a late answer to leaving or deleting a group
  takes the person away from whatever page they are at.

## 4. The proofs

For every finite or infinite set of users, rows, handlers, connections,
browsers, tabs, keys, images and calls. Assumptions: the values that stand for
nothing are none of the others (`NoUserAssumption`, `KeysAssumption`,
`FilesAssumption`, `SendsAssumption`, `PageAssumption`); browsers and messages have an account and
an author (`ClientsAssumption`); a conversation has finitely many messages
(`MessagesAssumption`, needed for the unread count); file ids are drawn apart
(`SendsAssumption`); the number of runs of an effect is any natural number
(`RenderingAssumption`); in `FriendService`, users are numbers, which stands for
the order `sortFriendPair` compares ids by.

| Module | Theorems | Argument |
|---|---|---|
| `GroupServiceProofs` | `TypeCorrect`, `OwnerStaysMember`, `NothingIsOrphaned`, `RowsAreUnique`, `MembersHaveOrigin`, `AnswersAdmit`, `MembershipIsKept` | Types first, with the values a handler holds at each point. The owner: a handler between its check and its write still names a target that is not the owner, as the owner never changes. Rows: what a late handler is about to insert names a group that was live, and the insert's guard looks again. Origin: an answer and its admission are one step, and no answer makes a row unanswered. `Membership`: each write of a handler is shown to be one of its steps, from what a late handler still holds (a live group, a target that is not the owner, an invited user); deletes that find nothing, and writes of the same value, are stutters. |
| `GroupRealtimeProofs` | `RealtimeImplementsService`, `RealtimeKeepsMembership`, `ConnectionsAreCovered`, `RealtimeTypeCorrect`, `RoomsAreEarned` | Each step is a step of the service or leaves it alone. Coverage is not inductive: the list a handshake has read must count as well as the rooms it is in, and a handler between commit and `socketsJoin` covers its user; it holds if no reply to a committed write is lost. Rooms: `EarnInv` says the same of lists read and of handlers about to announce an admission as of rooms, and `EntitlementLasts` that no write takes an answer or an owner from a group that lives; it holds with lost replies too. |
| `FriendServiceProofs` | `TypeCorrect`, `PairsAreFriendsOnce`, `RequestsAreUnique`, `NobodyIsFriendUnasked`, `AcceptanceIsWhole`, `AddresseesAnswer`, `ConsentIsKept` | `FriendsInv` adds that an answering handler holds a request of its own user, that pairs are stored sorted, and that a request never changes its two users. `Friendship`: the pair of a row is fixed once it is used, so that an answer moves one pair between the sets and leaves the others, unless another row of the same pair keeps it there. |
| `ChatClientProofs`, of `MessageGateway` | `GatewayTypeCorrect`, `NothingEmittedUnstored`, `RecallsAreFinal`, `MessagesLiveAsPromised` | `GInv` adds that a send before its insert has no row (`SendOrder`) and that a recall names a row (`RecallHasRow`): together they say that no insert can follow a recall's delete, nor that of the group. For `MessageLife`, what an emit appends to some queues is what `Say` adds for those browsers; whatever shortens a queue is `Fade`. |
| `ChatClientProofs`, of `ChatClient` | `ChatTypeCorrect`, `BrowsersHoldStoredMessages`, `NothingShownIsLost`, `ChatImplementsGateway`, `ChatRecallsAreFinal`, `ChatMessagesLive`, `ArrivalsAreCounted`, `QueuedMessagesAreNotLost`, `SyncedMessagesAreNotLost` | `CInv` adds that a chat page has a socket. A message on the screen has a row because it came by an event, which names a row, or by a sync, which listed one; that is what the gateway asks of a recall. The badge: only an answered sync and a delivered event add to what a browser has, and the count of what it adds is at least the number of messages that are not its own. |
| `IdentityKeysProofs` | `TypeCorrect`, `CopiesOpen`, `ReadyKeysSurvive`, `CustodyKept` | `IInv` adds what an operation carries at each await: a key it is about to put into a page is in its browser's IndexedDB, one it is about to store belongs to its account, a password it is about to encrypt under was accepted. The refinement then needs that a stored key is its account's, so that storing again changes no holder. |
| `MessageSendingProofs` | `SendingTypeCorrect`, `RowsHaveFiles`, `SentMessagesShow`, `SendingImplementsFiles` | `FInv`: an upload that is past its file has it on disk, one that is done has its row, addressed as it was asked; neither is undone but with the group. `CallsInv`: a call's uploaded images are done uploads to the call's conversation, and what was sent was uploaded whole; a deleted group has no members left to show anything to. |
| `MessageRenderingProofs` | `RenderingTypeCorrect`, `ScreensAreCurrent`, `ImagesWork` | `TaskFits`: the latest run works with the page's present inputs, each of its messages is either awaited or has a view, and a decrypted view has its object URL; other runs touch neither. |
| `GroupPageProofs` | `PageTypeCorrect`, `PagesDoNotMix`, `OwnKeyOnItsWay`, `AwaitedKeyIsNotLost` | `OneGroupNoMixUp` speaks of what a page opened anew shows and is not inductive: what its answers still to come can put there must be of its group as well (`OneGroupOnly`), and a page that is gone waits for nothing, as the next one starts with what it leaves (`GoneIsEmpty`). A role is that in a group on the screen (`RoleIsShown`), so that unwrapping names it. `KeyOnItsWay`: such a page with a private key has its group key or is unwrapping it. |

Every safety invariant and action property of the runs is a theorem, for all
constants (`RoomCoverage` where no reply to a committed write is lost). Only
model-checked are the liveness properties (`MembersGetRooms`, `SyncArrives`,
`EventsArrive`, `SendingEnds`, `ScreenSettles`, `OwnKeyArrives`): liveness under
fairness needs ENABLED, which is beyond the prover. What must
eventually come is proved not to be lost meanwhile, by any step but the escapes
the property names: `AwaitedKeyIsNotLost` for `OwnKeyArrives`,
`QueuedMessagesAreNotLost` for `EventsArrive`, `SyncedMessagesAreNotLost` for
`SyncArrives`, and `ConnectionsAreCovered`, an invariant, for `MembersGetRooms`.
That the step which ends the waiting is taken is the fairness, and TLC's. No module
uses recursive definitions.

## 5. Not modelled, and the plan

Left out for good: cryptography and encodings, layout and forms, formatting of
names, times and mentions, routing and DTO validation, deployment. They share no
state that several parties change.

Presence (`realtime.gateway.ts:89`, `groupPresence.ts`) is not modelled: there is
no count of a user's connections and no snapshot for who connects, so that no
relation between the client's list and the connections holds after a second
connection closes, and no line of the repository claims one. The lists
(`routes.tsx`, `FriendsPage.tsx`, `GroupsPage.tsx`) are not either: every event
reloads whole lists, the last answer wins, nothing is computed from them but what
is shown, and the code promises nothing of their order.

Left out of the modelled parts: names, codes, avatars and timestamps (but for
whether a recall notice has the message's time), sizes and lengths, the age of
wrapped group keys; conversations do not interact in `ChatClient`, so there is
one, and a browser has one account there (two accounts of one browser share
localStorage keys, a hazard on the list); the loading of a friend by `ChatPage`
and its profile panel.

Next, in this order:

1. Two accounts of one browser in `ChatClient`.
2. `ListViews`: reloads on events composed with `GroupService`'s writes, with
   `deleteGroup` announcing early, should the code come to order its answers.
3. An abstract specification of what a room hears, for `GroupRealtime`.

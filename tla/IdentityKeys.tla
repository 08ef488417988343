----------------------------- MODULE IdentityKeys -----------------------------
(***************************************************************************)
(* Accounts and identity keys: the table users (auth.service.ts,           *)
(* users.service.ts), and in each browser IndexedDB with the encrypted     *)
(* private keys, localStorage with the session, and the pages that have    *)
(* AuthProvider's state in memory (AuthContext.tsx).  There is no          *)
(* transaction between the server and a browser: every await is a step,    *)
(* and a page may be closed at each of them.                               *)
(*                                                                         *)
(* A record or backup file is the private key `key` encrypted under the    *)
(* password `pw`; decrypting it with another password throws.              *)
(***************************************************************************)
CONSTANTS
    Users,          \* names of accounts; one account has a name
    NoUser,
    Browsers,
    Pages,          \* tabs
    NoPage,
    BrowserOf,      \* the browser a tab is open in
    Passwords,
    NoPassword,
    Keys,           \* key pairs that may be generated
    NoKey,
    Calls           \* slots for operations in progress

ASSUME KeysAssumption ==
    /\ NoUser \notin Users /\ NoPage \notin Pages /\ NoKey \notin Keys
    /\ NoPassword \notin Passwords
    /\ BrowserOf \in [Pages -> Browsers]

VARIABLES
    account,        \* table users
    accepted,       \* every password an account was ever given: a history
    store,          \* IndexedDB: the record of each account in each browser
    session,        \* localStorage: the token and the user
    page,           \* the state of each tab
    backups,        \* backup files people have saved
    call            \* operations in progress

vars == <<account, accepted, store, session, page, backups, call>>

-----------------------------------------------------------------------------
(* Data. *)

NoRecord == [st |-> "none"]
Encrypt(k, pw) == [st |-> "kept", key |-> k, pw |-> pw]
Record == {NoRecord} \cup [st : {"kept"}, key : Keys, pw : Passwords]

NoAccount == [st |-> "free"]
Account == {NoAccount} \cup [st : {"live"}, key : Keys, pw : Passwords]

Backup == [user : Users, key : Keys, pw : Passwords]

Session == [token : Users \cup {NoUser}, user : Users \cup {NoUser}]
SignedOut == [token |-> NoUser, user |-> NoUser]
SignedIn(u) == [token |-> u, user |-> u]

Page == [token : Users \cup {NoUser}, user : Users \cup {NoUser},
         key : Keys \cup {NoKey}, status : {"locked", "ready", "missing"}]
Locked(s) == [token |-> s.token, user |-> s.user, key |-> NoKey, status |-> "locked"]

-----------------------------------------------------------------------------
(* Operations. *)

Idle == [pc |-> "idle"]

RegisterPoints == {"register.check", "register.create", "register.save", "register.finish"}
LoginPoints == {"login.find", "login.reply", "login.record"}
UpdatePoints == {"update.record", "update.find", "update.write", "update.save"}
OtherPoints == {"unlock.record", "import.save", "finish", "refresh.get", "refresh.set"}
Points == RegisterPoints \cup LoginPoints \cup UpdatePoints \cup OtherPoints

Call == {Idle} \cup
    [pc : Points, page : Pages \cup {NoPage}, token : Users, user : Users,
     pw : Passwords \cup {NoPassword}, new : Passwords \cup {NoPassword}, key : Keys \cup {NoKey}]

Start(c, pc, p, t, u, pw, new, k) ==
    /\ call[c] = Idle
    /\ call' = [call EXCEPT ![c] = [pc |-> pc, page |-> p, token |-> t, user |-> u,
                                    pw |-> pw, new |-> new, key |-> k]]
At(c, pc) == call[c].pc = pc
Goto(c, pc) == call' = [call EXCEPT ![c].pc = pc]
Unlocked(c, pc, k) == call' = [call EXCEPT ![c].pc = pc, ![c].key = k]
Finishing(c, k) ==
    call' = [call EXCEPT ![c] = [@ EXCEPT !.pc = "finish", !.key = k,
                                          !.pw = NoPassword, !.new = NoPassword]]
Return(c) == call' = [call EXCEPT ![c] = Idle]

\* A check or a decryption fails, the network or the API does, a reply is lost.
Throw(c) ==
    /\ call[c] # Idle
    /\ Return(c)
    /\ UNCHANGED <<account, accepted, store, session, page, backups>>

\* The rest of an operation runs in the tab that began it, if it is still open.
InPage(c, pc) == At(c, pc) /\ call[c].page # NoPage
RecordOf(c) == store[BrowserOf[call[c].page]][call[c].user]
Opens(r, pw) == r # NoRecord /\ r.pw = pw

SaveRecord(c, k, pw) ==
    store' = [store EXCEPT ![BrowserOf[call[c].page]][call[c].user] = Encrypt(k, pw)]

\* The forms are behind the login, and their operations ask for the user.
InApp(p) == page[p].token # NoUser /\ page[p].user # NoUser

\* storeSession: React state and localStorage together.
StoreSession(c, newPage) ==
    /\ page' = [page EXCEPT ![call[c].page] = newPage]
    /\ session' = [session EXCEPT ![BrowserOf[call[c].page]] = SignedIn(call[c].user)]

\* setPrivateKey and setPrivateKeyStatus("ready").
SetKey(pg, k) == [pg EXCEPT !.key = k, !.status = "ready"]
SetMissingUnnamed(pg) == [pg EXCEPT !.status = "absent"]
SetMissing(pg) == [pg EXCEPT !.status = "missing"]

Finish(c) ==
    /\ InPage(c, "finish")
    /\ page' = [page EXCEPT ![call[c].page] = SetKey(@, call[c].key)]
    /\ Return(c)
    /\ UNCHANGED <<account, accepted, store, session, backups>>

-----------------------------------------------------------------------------
(* register: the key pair first, then the account, then IndexedDB. *)

KeyInUse(k) ==
    \/ \E u \in Users : account[u] # NoAccount /\ account[u].key = k
    \/ \E c \in Calls : call[c] # Idle /\ call[c].key = k

Register(c, p, u, pw, k) ==
    /\ ~KeyInUse(k)
    /\ Start(c, "register.check", p, u, u, pw, NoPassword, k)
    /\ UNCHANGED <<account, accepted, store, session, page, backups>>

RegisterCheck(c) ==
    /\ At(c, "register.check")
    /\ account[call[c].user] = NoAccount
    /\ Goto(c, "register.create")
    /\ UNCHANGED <<account, accepted, store, session, page, backups>>

\* user.create: the unique index on username.
UsernameUnchecked(u) == u \in Users
UsernameFree(u) == account[u] = NoAccount

RegisterCreate(c) ==
    LET o == call[c] IN
    /\ At(c, "register.create")
    /\ UsernameFree(o.user)
    /\ account' = [account EXCEPT ![o.user] = [st |-> "live", key |-> o.key, pw |-> o.pw]]
    /\ accepted' = accepted \cup {o.pw}
    /\ Goto(c, "register.save")
    /\ UNCHANGED <<store, session, page, backups>>

RegisterSaveSkipped(c) ==
    /\ InPage(c, "register.save")
    /\ Goto(c, "register.finish")
    /\ UNCHANGED <<account, accepted, store, session, page, backups>>

RegisterSave(c) ==
    /\ InPage(c, "register.save")
    /\ SaveRecord(c, call[c].key, call[c].pw)
    /\ Goto(c, "register.finish")
    /\ UNCHANGED <<account, accepted, session, page, backups>>

RegisterFinish(c) ==
    /\ InPage(c, "register.finish")
    /\ StoreSession(c, SetKey(Locked(SignedIn(call[c].user)), call[c].key))
    /\ Return(c)
    /\ UNCHANGED <<account, accepted, store, backups>>

-----------------------------------------------------------------------------
(* login: the session is stored before the key is looked for, and the key   *)
(* of an account that was signed in before stays until another replaces it. *)

Login(c, p, u, pw) ==
    /\ Start(c, "login.find", p, u, u, pw, NoPassword, NoKey)
    /\ UNCHANGED <<account, accepted, store, session, page, backups>>

PasswordMatches(u, pw) == account[u] # NoAccount /\ account[u].pw = pw

LoginFind(c) ==
    /\ At(c, "login.find")
    /\ PasswordMatches(call[c].user, call[c].pw)
    /\ Goto(c, "login.reply")
    /\ UNCHANGED <<account, accepted, store, session, page, backups>>

LoginReply(c) ==
    /\ InPage(c, "login.reply")
    /\ StoreSession(c, [page[call[c].page] EXCEPT !.token = call[c].user, !.user = call[c].user])
    /\ Goto(c, "login.record")
    /\ UNCHANGED <<account, accepted, store, backups>>

LoginRecord(c) ==
    /\ InPage(c, "login.record")
    /\ \/ /\ RecordOf(c) = NoRecord
          /\ page' = [page EXCEPT ![call[c].page] = SetMissing([@ EXCEPT !.key = NoKey])]
          /\ Return(c)
       \/ /\ Opens(RecordOf(c), call[c].pw)
          /\ Finishing(c, RecordOf(c).key)
          /\ UNCHANGED page
    /\ UNCHANGED <<account, accepted, store, session, backups>>

-----------------------------------------------------------------------------
(* unlockPrivateKey, from the prompt that a locked key shows; its dialog    *)
(* stays open when the record turns out to be missing.                      *)

Unlock(c, p, pw) ==
    /\ InApp(p)
    /\ page[p].status # "ready"
    /\ Start(c, "unlock.record", p, page[p].token, page[p].user, pw, NoPassword, NoKey)
    /\ UNCHANGED <<account, accepted, store, session, page, backups>>

UnlockRecord(c) ==
    /\ InPage(c, "unlock.record")
    /\ \/ /\ RecordOf(c) = NoRecord
          /\ page' = [page EXCEPT ![call[c].page] = SetMissing(@)]
          /\ Return(c)
       \/ /\ Opens(RecordOf(c), call[c].pw)
          /\ Finishing(c, RecordOf(c).key)
          /\ UNCHANGED page
    /\ UNCHANGED <<account, accepted, store, session, backups>>

-----------------------------------------------------------------------------
(* updatePassword: open the record, change the password at the server, then *)
(* put the record back under the new one.                                   *)

UpdatePassword(c, p, pw, new) ==
    /\ InApp(p)
    /\ Start(c, "update.record", p, page[p].token, page[p].user, pw, new, NoKey)
    /\ UNCHANGED <<account, accepted, store, session, page, backups>>

UpdateRecordSavesFirst(c) ==
    /\ InPage(c, "update.record")
    /\ Opens(RecordOf(c), call[c].pw)
    /\ SaveRecord(c, RecordOf(c).key, call[c].new)
    /\ Unlocked(c, "update.find", RecordOf(c).key)
    /\ UNCHANGED <<account, accepted, session, page, backups>>

UpdateRecord(c) ==
    /\ InPage(c, "update.record")
    /\ Opens(RecordOf(c), call[c].pw)
    /\ Unlocked(c, "update.find", RecordOf(c).key)
    /\ UNCHANGED <<account, accepted, store, session, page, backups>>

\* users.service.ts: the hash is read and compared in one query, the new one
\* written in another.
UpdateFind(c) ==
    /\ At(c, "update.find")
    /\ PasswordMatches(call[c].token, call[c].pw)
    /\ Goto(c, "update.write")
    /\ UNCHANGED <<account, accepted, store, session, page, backups>>

UpdateWrite(c) ==
    LET o == call[c] IN
    /\ At(c, "update.write")
    /\ account' = [account EXCEPT ![o.token].pw = o.new]
    /\ accepted' = accepted \cup {o.new}
    /\ Goto(c, "update.save")
    /\ UNCHANGED <<store, session, page, backups>>

UpdateSave(c) ==
    /\ InPage(c, "update.save")
    /\ SaveRecord(c, call[c].key, call[c].new)
    /\ Finishing(c, call[c].key)
    /\ UNCHANGED <<account, accepted, session, page, backups>>

-----------------------------------------------------------------------------
(* Backup files: exported from one browser, imported into another. *)

BackupOf(u, r) == [user |-> u, key |-> r.key, pw |-> r.pw]

ExportBackup(p) ==
    LET u == page[p].user
        r == store[BrowserOf[p]][u] IN
    /\ InApp(p)
    /\ r # NoRecord
    /\ backups' = backups \cup {BackupOf(u, r)}
    /\ UNCHANGED <<account, accepted, store, session, page, call>>

\* parsePrivateKeyBackup(text, user.id): a file of another account throws.
BelongsTo(f, u) == f.user = u
\* publicKeysMatch: the user in memory carries the account's public key.
BackupFits(f, u) == BelongsTo(f, u) /\ account[u] # NoAccount /\ f.key = account[u].key

ImportBackup(c, p, f) ==
    /\ InApp(p)
    /\ BackupFits(f, page[p].user)
    /\ Start(c, "import.save", p, page[p].token, page[p].user, f.pw, NoPassword, f.key)
    /\ UNCHANGED <<account, accepted, store, session, page, backups>>

ImportSave(c) ==
    /\ InPage(c, "import.save")
    /\ SaveRecord(c, call[c].key, call[c].pw)
    /\ Finishing(c, call[c].key)
    /\ UNCHANGED <<account, accepted, session, page, backups>>

-----------------------------------------------------------------------------
(* refreshMe, logout, and closing or reloading a tab. *)

Refresh(c, p) ==
    /\ page[p].token # NoUser
    /\ Start(c, "refresh.get", p, page[p].token, page[p].token, NoPassword, NoPassword, NoKey)
    /\ UNCHANGED <<account, accepted, store, session, page, backups>>

RefreshGet(c) ==
    /\ At(c, "refresh.get")
    /\ account[call[c].token] # NoAccount
    /\ Goto(c, "refresh.set")
    /\ UNCHANGED <<account, accepted, store, session, page, backups>>

RefreshSet(c) ==
    LET p == call[c].page IN
    /\ InPage(c, "refresh.set")
    /\ page' = [page EXCEPT ![p].user = call[c].user]
    /\ session' = [session EXCEPT ![BrowserOf[p]].user = call[c].user]
    /\ Return(c)
    /\ UNCHANGED <<account, accepted, store, backups>>

Logout(p) ==
    /\ page[p].token # NoUser
    /\ page' = [page EXCEPT ![p] = Locked(SignedOut)]
    /\ session' = [session EXCEPT ![BrowserOf[p]] = SignedOut]
    /\ UNCHANGED <<account, accepted, store, backups, call>>

\* The tab starts again from localStorage.  What the server is doing for it
\* goes on; nobody waits for the answer.
Reload(p) ==
    /\ page' = [page EXCEPT ![p] = Locked(session[BrowserOf[p]])]
    /\ call' = [c \in Calls |-> IF call[c] # Idle /\ call[c].page = p
                                THEN [call[c] EXCEPT !.page = NoPage] ELSE call[c]]
    /\ UNCHANGED <<account, accepted, store, session, backups>>

-----------------------------------------------------------------------------
Init ==
    /\ account = [u \in Users |-> NoAccount]
    /\ accepted = {}
    /\ store = [b \in Browsers |-> [u \in Users |-> NoRecord]]
    /\ session = [b \in Browsers |-> SignedOut]
    /\ page = [p \in Pages |-> Locked(SignedOut)]
    /\ backups = {}
    /\ call = [c \in Calls |-> Idle]

Begin(c) ==
    \E p \in Pages :
        \/ \E u \in Users, pw \in Passwords :
                (\E k \in Keys : Register(c, p, u, pw, k)) \/ Login(c, p, u, pw)
        \/ \E pw \in Passwords : Unlock(c, p, pw)
        \/ \E pw, new \in Passwords : UpdatePassword(c, p, pw, new)
        \/ \E f \in backups : ImportBackup(c, p, f)
        \/ Refresh(c, p)

Advance(c) ==
    \/ RegisterCheck(c) \/ RegisterCreate(c) \/ RegisterSave(c) \/ RegisterFinish(c)
    \/ LoginFind(c) \/ LoginReply(c) \/ LoginRecord(c)
    \/ UnlockRecord(c)
    \/ UpdateRecord(c) \/ UpdateFind(c) \/ UpdateWrite(c) \/ UpdateSave(c)
    \/ ImportSave(c)
    \/ RefreshGet(c) \/ RefreshSet(c)
    \/ Finish(c)

Next ==
    \/ \E c \in Calls : Begin(c) \/ Advance(c) \/ Throw(c)
    \/ \E p \in Pages : ExportBackup(p) \/ Logout(p) \/ Reload(p)

Spec == Init /\ [][Next]_vars

-----------------------------------------------------------------------------
(* Properties. *)

\* Every variable has its type.
TypeOK ==
    /\ account \in [Users -> Account]
    /\ accepted \subseteq Passwords
    /\ store \in [Browsers -> [Users -> Record]]
    /\ session \in [Browsers -> Session]
    /\ page \in [Pages -> Page]
    /\ backups \subseteq Backup
    /\ call \in [Calls -> Call]

\* A copy of a private key, in IndexedDB or in a backup file, opens with a
\* password the server has accepted: a password change that fails, is given up
\* half-way or crosses another one never leaves a key under a password that
\* nobody ever signed in with.
EveryCopyOpens ==
    /\ \A b \in Browsers, u \in Users :
            store[b][u] # NoRecord => store[b][u].pw \in accepted
    /\ \A f \in backups : f.pw \in accepted

\* A key in the memory of a tab is in IndexedDB of that browser too, whatever
\* operations overlap: closing the tab does not lose the last copy of a key
\* that messages may already have been encrypted for.
ReadyKeysAreStored ==
    \A p \in Pages : page[p].key # NoKey =>
        \E u \in Users :
            /\ store[BrowserOf[p]][u] # NoRecord
            /\ store[BrowserOf[p]][u].key = page[p].key

\* The custody of keys that KeyCustody describes: an account never gets a
\* second key, a browser holds a key it made or imported, and keeps it.
Holders(u) == {b \in Browsers : store[b][u] # NoRecord /\ account[u] # NoAccount
                                /\ store[b][u].key = account[u].key}
Custody == INSTANCE KeyCustody WITH
    identity <- [u \in Users |-> IF account[u] = NoAccount THEN NoKey ELSE account[u].key],
    holders <- [u \in Users |-> Holders(u)],
    carried <- {f.user : f \in backups}
KeysInCustody == Custody!Spec

=============================================================================

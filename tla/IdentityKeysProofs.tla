-------------------------- MODULE IdentityKeysProofs --------------------------
(***************************************************************************)
(* Proofs about IdentityKeys.  The inductive invariant says what a record, *)
(* a backup file and every operation in progress know: the key they carry  *)
(* is the key of the account, a password they will encrypt with has been   *)
(* accepted, and a registration that is about to store its key is the only *)
(* one of its account and the first to store it.                           *)
(***************************************************************************)
EXTENDS IdentityKeys, TLAPS

Live(u) == account[u] # NoAccount
Kept(u) == \E b \in Browsers : store[b][u] # NoRecord

\* Operations that carry the key of their account.
Carrying == {"register.save", "register.finish", "import.save", "update.find", "update.write",
             "update.save", "finish"}
\* Operations whose browser has the record already.
Backed == {"register.finish", "update.find", "update.write", "update.save", "finish"}

RecordsRight ==
    \A b \in Browsers, u \in Users : store[b][u] # NoRecord =>
        Live(u) /\ store[b][u].key = account[u].key /\ store[b][u].pw \in accepted

BackupsRight ==
    \A f \in backups :
        Live(f.user) /\ f.key = account[f.user].key /\ f.pw \in accepted /\ Kept(f.user)

CallFits(o) ==
    /\ o.pc \in RegisterPoints => o.key \in Keys /\ o.pw \in Passwords
    /\ o.pc \in UpdatePoints => o.new \in Passwords
    /\ o.pc \in Carrying => Live(o.user) /\ o.key = account[o.user].key
    /\ o.pc \in Backed /\ o.page # NoPage => store[BrowserOf[o.page]][o.user] # NoRecord
    /\ o.pc = "register.save" => o.pw \in accepted
    /\ o.pc = "update.write" => Live(o.token)
    /\ o.pc = "update.save" => o.new \in accepted
    /\ o.pc = "import.save" => /\ o.pw \in accepted
                               /\ Kept(o.user)
                               /\ \E f \in backups : f.user = o.user

CallsRight == \A c \in Calls : call[c] # Idle => CallFits(call[c])

FirstToKeep ==
    \A c \in Calls : At(c, "register.save") =>
        /\ ~Kept(call[c].user)
        /\ \A d \in Calls : At(d, "register.save") /\ call[d].user = call[c].user => d = c

IInv == TypeOK /\ RecordsRight /\ BackupsRight /\ CallsRight /\ FirstToKeep /\ ReadyKeysAreStored

-----------------------------------------------------------------------------
(* Records. *)

LEMMA RecordFacts ==
    ASSUME NEW r \in Record
    PROVE  /\ r # NoRecord => r.key \in Keys /\ r.pw \in Passwords /\ r.st = "kept"
           /\ NoRecord \in Record
  BY DEF Record, NoRecord

LEMMA EncryptFacts ==
    ASSUME NEW k \in Keys, NEW pw \in Passwords
    PROVE  /\ Encrypt(k, pw) \in Record /\ Encrypt(k, pw) # NoRecord
           /\ Encrypt(k, pw).key = k /\ Encrypt(k, pw).pw = pw
  BY DEF Encrypt, Record, NoRecord

LEMMA AccountFacts ==
    ASSUME NEW a \in Account
    PROVE  a # NoAccount => a.key \in Keys /\ a.pw \in Passwords /\ a.st = "live"
  BY DEF Account, NoAccount

LEMMA CallFacts ==
    ASSUME NEW o \in Call
    PROVE  o # Idle => /\ o.pc \in Points /\ o.page \in Pages \cup {NoPage}
                       /\ o.token \in Users /\ o.user \in Users
                       /\ o.pw \in Passwords \cup {NoPassword}
                       /\ o.new \in Passwords \cup {NoPassword}
                       /\ o.key \in Keys \cup {NoKey}
  BY DEF Call, Idle

\* A new call, and a call with some fields changed, is a call.
LEMMA CallTypes ==
    /\ Idle \in Call /\ Idle.pc = "idle" /\ "idle" \notin Points
    /\ \A o \in Call : o # Idle =>
        /\ \A pc \in Points, k \in Keys \cup {NoKey} :
            /\ [o EXCEPT !.pc = pc] \in Call
            /\ [o EXCEPT !.pc = pc, !.key = k] \in Call
            /\ [o EXCEPT !.pc = "finish", !.key = k, !.pw = NoPassword, !.new = NoPassword] \in Call
        /\ [o EXCEPT !.page = NoPage] \in Call
  <1>1. "idle" \notin Points
    BY DEF Points, RegisterPoints, LoginPoints, UpdatePoints, OtherPoints
  <1>2. Idle \in Call /\ Idle.pc = "idle"
    BY DEF Call, Idle
  <1>3. "finish" \in Points
    BY DEF Points, OtherPoints
  <1>4. ASSUME NEW o \in Call, o # Idle
        PROVE  /\ \A pc \in Points, k \in Keys \cup {NoKey} :
                    /\ [o EXCEPT !.pc = pc] \in Call
                    /\ [o EXCEPT !.pc = pc, !.key = k] \in Call
                    /\ [o EXCEPT !.pc = "finish", !.key = k, !.pw = NoPassword, !.new = NoPassword] \in Call
               /\ [o EXCEPT !.page = NoPage] \in Call
    BY <1>3, <1>4 DEF Call
  <1> QED
    BY <1>1, <1>2, <1>4

LEMMA InitHolds == Init => IInv
  <1> SUFFICES ASSUME Init PROVE IInv
    OBVIOUS
  <1>1. TypeOK
    BY CallTypes DEF Init, TypeOK, Account, Record, NoAccount, NoRecord, Session, SignedOut, Page, Locked
  <1>2. RecordsRight /\ BackupsRight /\ CallsRight
    BY DEF Init, RecordsRight, BackupsRight, CallsRight
  <1>3. FirstToKeep
    BY DEF Init, FirstToKeep, At, Idle
  <1>4. ReadyKeysAreStored
    BY DEF Init, ReadyKeysAreStored, Locked, SignedOut
  <1> QED
    BY <1>1, <1>2, <1>3, <1>4 DEF IInv

-----------------------------------------------------------------------------
(* Steps that write neither the server nor a store: one operation begins,  *)
(* goes on or ends, and perhaps its tab changes.                           *)

LEMMA Quiet ==
    ASSUME IInv, NEW c \in Calls,
           UNCHANGED <<account, accepted, store, backups>>,
           \A d \in Calls : d # c => call'[d] = call[d],
           TypeOK', ReadyKeysAreStored',
           (call[c] # Idle => CallFits(call[c]))',
           ~At(c, "register.save")'
    PROVE  IInv'
  <1> USE DEF IInv
  <1>1. RecordsRight' /\ BackupsRight'
    BY DEF RecordsRight, BackupsRight, Live, Kept
  <1>2. CallsRight'
    BY DEF CallsRight, CallFits, Live, Kept
  <1>3. FirstToKeep'
    BY DEF FirstToKeep, At, Kept
  <1> QED
    BY <1>1, <1>2, <1>3

\* A tab that takes no key it did not have keeps ReadyKeysAreStored.
LEMMA NoNewKey ==
    ASSUME ReadyKeysAreStored, UNCHANGED store,
           \A p \in Pages : page'[p].key \in {page[p].key, NoKey}
    PROVE  ReadyKeysAreStored'
  BY DEF ReadyKeysAreStored

\* A tab may take the key of a record of its browser.
LEMMA StoredKey ==
    ASSUME IInv, UNCHANGED store, NEW q \in Pages, NEW u \in Users,
           store[BrowserOf[q]][u] # NoRecord, page'[q].key = store[BrowserOf[q]][u].key,
           \A p \in Pages : p # q => page'[p] = page[p]
    PROVE  ReadyKeysAreStored'
  BY DEF IInv, ReadyKeysAreStored

\* What an operation in progress is, once it is known to be one.
LEMMA Running ==
    ASSUME IInv, NEW c \in Calls, call[c].pc \in Points
    PROVE  /\ call[c] # Idle /\ call[c] \in Call /\ CallFits(call[c])
           /\ call[c].page # NoPage =>
                /\ call[c].page \in Pages /\ BrowserOf[call[c].page] \in Browsers
                /\ page[call[c].page] \in Page /\ RecordOf(c) \in Record
  <1>1. call[c] \in Call /\ call[c] # Idle
    BY CallTypes DEF IInv, TypeOK
  <1>2. CallFits(call[c])
    BY <1>1 DEF IInv, CallsRight
  <1>3. call[c].user \in Users /\ (call[c].page # NoPage => call[c].page \in Pages)
    BY <1>1, CallFacts
  <1> QED
    BY <1>1, <1>2, <1>3, KeysAssumption DEF IInv, TypeOK, RecordOf

LEMMA PointNames ==
    /\ \A pc \in {"register.check", "register.create", "register.save", "register.finish",
                  "login.find", "login.reply", "login.record", "update.record", "update.find",
                  "update.write", "update.save", "unlock.record", "import.save", "finish",
                  "refresh.get", "refresh.set"} : pc \in Points
  BY DEF Points, RegisterPoints, LoginPoints, UpdatePoints, OtherPoints

LEMMA Starts ==
    ASSUME IInv, NEW c \in Calls, NEW pc \in Points, NEW p \in Pages, NEW t \in Users,
           NEW u \in Users, NEW pw \in Passwords \cup {NoPassword},
           NEW new \in Passwords \cup {NoPassword}, NEW k \in Keys \cup {NoKey},
           Start(c, pc, p, t, u, pw, new, k),
           UNCHANGED <<account, accepted, store, session, page, backups>>,
           pc # "register.save",
           CallFits([pc |-> pc, page |-> p, token |-> t, user |-> u, pw |-> pw, new |-> new, key |-> k])
    PROVE  IInv'
  <1> DEFINE o == [pc |-> pc, page |-> p, token |-> t, user |-> u, pw |-> pw, new |-> new, key |-> k]
  <1>1. o \in Call
    BY DEF Call
  <1>2. call' = [call EXCEPT ![c] = o]
    BY DEF Start
  <1>3. call \in [Calls -> Call]
    BY DEF IInv, TypeOK
  <1>4. call' \in [Calls -> Call] /\ call'[c] = o /\ \A d \in Calls : d # c => call'[d] = call[d]
    BY <1>1, <1>2, <1>3
  <1>5. TypeOK'
    BY <1>4 DEF IInv, TypeOK
  <1>6. ReadyKeysAreStored'
    BY DEF IInv, ReadyKeysAreStored
  <1>7. (call[c] # Idle => CallFits(call[c]))'
    BY <1>4 DEF CallFits, Live, Kept
  <1>8. ~At(c, "register.save")'
    BY <1>4 DEF At
  <1> QED
    BY <1>4, <1>5, <1>6, <1>7, <1>8, Quiet

LEMMA BeginHolds == ASSUME IInv, NEW c \in Calls, Begin(c) PROVE IInv'
  <1>1. PICK p \in Pages :
        \/ \E u \in Users, pw \in Passwords :
                (\E k \in Keys : Register(c, p, u, pw, k)) \/ Login(c, p, u, pw)
        \/ \E pw \in Passwords : Unlock(c, p, pw)
        \/ \E pw, new \in Passwords : UpdatePassword(c, p, pw, new)
        \/ \E f \in backups : ImportBackup(c, p, f)
        \/ Refresh(c, p)
    BY DEF Begin
  <1>2. page[p].token \in Users \cup {NoUser} /\ page[p].user \in Users \cup {NoUser}
    BY DEF IInv, TypeOK, Page
  <1> USE PointNames
  <1>3. ASSUME NEW u \in Users, NEW pw \in Passwords, NEW k \in Keys, Register(c, p, u, pw, k)
        PROVE  IInv'
    BY <1>3, Starts DEF Register, CallFits, RegisterPoints, UpdatePoints, Carrying, Backed
  <1>4. ASSUME NEW u \in Users, NEW pw \in Passwords, Login(c, p, u, pw) PROVE IInv'
    BY <1>4, Starts DEF Login, CallFits, RegisterPoints, UpdatePoints, Carrying, Backed
  <1>5. ASSUME NEW pw \in Passwords, Unlock(c, p, pw) PROVE IInv'
    BY <1>2, <1>5, Starts DEF Unlock, InApp, CallFits, RegisterPoints, UpdatePoints, Carrying, Backed
  <1>6. ASSUME NEW pw \in Passwords, NEW new \in Passwords, UpdatePassword(c, p, pw, new) PROVE IInv'
    BY <1>2, <1>6, Starts DEF UpdatePassword, InApp, CallFits, RegisterPoints, UpdatePoints, Carrying, Backed
  <1>7. ASSUME NEW f \in backups, ImportBackup(c, p, f) PROVE IInv'
    <2>1. f.user = page[p].user /\ f.key = account[f.user].key /\ f.pw \in accepted
          /\ f.user \in Users /\ f.key \in Keys /\ f.pw \in Passwords /\ Live(f.user) /\ Kept(f.user)
      BY <1>7 DEF ImportBackup, BackupFits, BelongsTo, IInv, BackupsRight, TypeOK, Backup
    <2> QED
      BY <1>2, <1>7, <2>1, Starts
         DEF ImportBackup, InApp, CallFits, RegisterPoints, UpdatePoints, Carrying, Backed
  <1>8. ASSUME Refresh(c, p) PROVE IInv'
    BY <1>2, <1>8, Starts DEF Refresh, CallFits, RegisterPoints, UpdatePoints, Carrying, Backed
  <1> QED
    BY <1>1, <1>3, <1>4, <1>5, <1>6, <1>7, <1>8

\* An operation that ends: Throw, a missing record, or its last step.
LEMMA Ends ==
    ASSUME IInv, NEW c \in Calls, Return(c), UNCHANGED <<account, accepted, store, backups>>,
           page' \in [Pages -> Page], session' \in [Browsers -> Session], ReadyKeysAreStored'
    PROVE  IInv'
  <1>1. call' \in [Calls -> Call] /\ call'[c] = Idle /\ \A d \in Calls : d # c => call'[d] = call[d]
    BY CallTypes DEF IInv, TypeOK, Return
  <1>2. TypeOK'
    BY <1>1 DEF IInv, TypeOK
  <1>3. ~At(c, "register.save")'
    BY <1>1, CallTypes DEF At, Idle
  <1> QED
    BY <1>1, <1>2, <1>3, Quiet

\* An operation that goes on with the same data.
LEMMA Continues ==
    ASSUME IInv, NEW c \in Calls, NEW pc \in Points, call[c].pc \in Points, Goto(c, pc),
           UNCHANGED <<account, accepted, store, backups>>, pc # "register.save",
           CallFits([call[c] EXCEPT !.pc = pc]),
           page' \in [Pages -> Page], session' \in [Browsers -> Session], ReadyKeysAreStored'
    PROVE  IInv'
  <1>1. call[c] \in Call /\ call[c] # Idle
    BY Running
  <1>2. [call[c] EXCEPT !.pc = pc] \in Call /\ [call[c] EXCEPT !.pc = pc].pc = pc
    <2>1. [call[c] EXCEPT !.pc = pc] \in Call
      BY <1>1, CallTypes
    <2> QED
      BY <1>1, <2>1 DEF Call, Idle
  <1>3. call' = [call EXCEPT ![c] = [call[c] EXCEPT !.pc = pc]] /\ call \in [Calls -> Call]
    BY DEF Goto, IInv, TypeOK
  <1>4. call' \in [Calls -> Call] /\ call'[c] = [call[c] EXCEPT !.pc = pc]
        /\ \A d \in Calls : d # c => call'[d] = call[d]
    BY <1>2, <1>3
  <1>5. TypeOK'
    BY <1>4 DEF IInv, TypeOK
  <1>6. (call[c] # Idle => CallFits(call[c]))'
    BY <1>4 DEF CallFits, Live, Kept
  <1>7. ~At(c, "register.save")'
    BY <1>2, <1>4 DEF At
  <1> QED
    BY <1>4, <1>5, <1>6, <1>7, Quiet

\* An operation of a tab that has found the record of its account.
LEMMA Opened ==
    ASSUME IInv, NEW c \in Calls, call[c].pc \in Points, call[c].page # NoPage,
           RecordOf(c) # NoRecord
    PROVE  /\ RecordOf(c) = store[BrowserOf[call[c].page]][call[c].user]
           /\ RecordOf(c).key \in Keys /\ Live(call[c].user)
           /\ RecordOf(c).key = account[call[c].user].key
  <1>1. call[c] \in Call /\ call[c] # Idle /\ BrowserOf[call[c].page] \in Browsers /\ RecordOf(c) \in Record
    BY Running
  <1>2. call[c].user \in Users
    BY <1>1, CallFacts
  <1> QED
    BY <1>1, <1>2, RecordFacts DEF IInv, RecordsRight, RecordOf

\* It goes on to put the key it found, or carries, into the memory of its tab.
LEMMA GoesToFinish ==
    ASSUME IInv, NEW c \in Calls, call[c].pc \in Points, call[c].page # NoPage,
           RecordOf(c) # NoRecord, Finishing(c, RecordOf(c).key),
           UNCHANGED <<account, accepted, store, session, page, backups>>
    PROVE  IInv'
  <1> DEFINE o == [call[c] EXCEPT !.pc = "finish", !.key = RecordOf(c).key,
                                  !.pw = NoPassword, !.new = NoPassword]
  <1>1. call[c] \in Call /\ call[c] # Idle
    BY Running
  <1>2. o \in Call
    BY <1>1, Opened, CallTypes, PointNames
  <1>3. o.pc = "finish" /\ o.key = RecordOf(c).key /\ o.user = call[c].user /\ o.page = call[c].page
    BY <1>1 DEF Call, Idle
  <1>4. call' \in [Calls -> Call] /\ call'[c] = o /\ \A d \in Calls : d # c => call'[d] = call[d]
    BY <1>2 DEF Finishing, IInv, TypeOK
  <1>5. TypeOK'
    BY <1>4 DEF IInv, TypeOK
  <1>6. (call[c] # Idle => CallFits(call[c]))'
    <2> HIDE DEF o
    <2>1. CallFits(o)
      BY <1>3, Opened DEF CallFits, RegisterPoints, UpdatePoints, Carrying, Backed, RecordOf
    <2> QED
      BY <1>4, <2>1 DEF CallFits, Live, Kept
  <1>7. ~At(c, "register.save")'
    BY <1>3, <1>4 DEF At
  <1>8. ReadyKeysAreStored'
    BY DEF IInv, ReadyKeysAreStored
  <1> QED
    BY <1>4, <1>5, <1>6, <1>7, <1>8, Quiet

LEMMA QuietAdvance ==
    ASSUME IInv, NEW c \in Calls,
           \/ RegisterCheck(c) \/ RegisterFinish(c) \/ LoginFind(c) \/ LoginReply(c) \/ LoginRecord(c)
           \/ UnlockRecord(c) \/ UpdateRecord(c) \/ UpdateFind(c)
           \/ RefreshGet(c) \/ RefreshSet(c) \/ Finish(c) \/ Throw(c)
    PROVE  IInv'
  <1> USE PointNames
  <1>1. page \in [Pages -> Page] /\ session \in [Browsers -> Session] /\ ReadyKeysAreStored
    BY DEF IInv, TypeOK
  <1>2. ASSUME UNCHANGED <<page, store>> PROVE ReadyKeysAreStored'
    BY <1>1, <1>2 DEF ReadyKeysAreStored
  <1>3. CASE RegisterCheck(c)
    <2>1. CallFits([call[c] EXCEPT !.pc = "register.create"])
      BY <1>3, Running, CallFacts
         DEF RegisterCheck, At, CallFits, Call, Idle, RegisterPoints, UpdatePoints, Carrying, Backed
    <2> QED
      BY <1>1, <1>2, <1>3, <2>1, Continues DEF RegisterCheck, At
  <1>4. CASE LoginFind(c)
    <2>1. CallFits([call[c] EXCEPT !.pc = "login.reply"])
      BY <1>4, Running, CallFacts
         DEF LoginFind, At, CallFits, Call, Idle, RegisterPoints, UpdatePoints, Carrying, Backed
    <2> QED
      BY <1>1, <1>2, <1>4, <2>1, Continues DEF LoginFind, At
  <1>5. CASE UpdateFind(c)
    <2>1. CallFits([call[c] EXCEPT !.pc = "update.write"])
      BY <1>5, Running, CallFacts
         DEF UpdateFind, At, PasswordMatches, CallFits, Call, Idle, Live,
             RegisterPoints, UpdatePoints, Carrying, Backed
    <2> QED
      BY <1>1, <1>2, <1>5, <2>1, Continues DEF UpdateFind, At
  <1>6. CASE RefreshGet(c)
    <2>1. CallFits([call[c] EXCEPT !.pc = "refresh.set"])
      BY <1>6, Running, CallFacts
         DEF RefreshGet, At, CallFits, Call, Idle, RegisterPoints, UpdatePoints, Carrying, Backed
    <2> QED
      BY <1>1, <1>2, <1>6, <2>1, Continues DEF RefreshGet, At
  <1>7. CASE RegisterFinish(c)
    <2> DEFINE p == call[c].page
               u == call[c].user
    <2>1. call[c] \in Call /\ CallFits(call[c]) /\ p \in Pages /\ BrowserOf[p] \in Browsers
          /\ u \in Users /\ call[c].key \in Keys
      BY <1>7, Running, CallFacts DEF RegisterFinish, InPage, At, CallFits, RegisterPoints
    <2>2. /\ page' = [page EXCEPT ![p] = SetKey(Locked(SignedIn(u)), call[c].key)]
          /\ session' = [session EXCEPT ![BrowserOf[p]] = SignedIn(u)]
      BY <1>7 DEF RegisterFinish, StoreSession
    <2>3. page' \in [Pages -> Page] /\ session' \in [Browsers -> Session]
      BY <1>1, <2>1, <2>2 DEF Page, Session, SetKey, Locked, SignedIn
    <2>4. store[BrowserOf[p]][u] # NoRecord /\ store[BrowserOf[p]][u].key = call[c].key
      BY <1>7, <2>1 DEF RegisterFinish, InPage, At, CallFits, Backed, Carrying, IInv, RecordsRight
    <2>5. ReadyKeysAreStored'
      BY <1>1, <1>7, <2>1, <2>2, <2>4, StoredKey DEF RegisterFinish, SetKey, Locked, SignedIn
    <2> QED
      BY <1>7, <2>3, <2>5, Ends DEF RegisterFinish
  <1>8. CASE LoginReply(c)
    <2> DEFINE p == call[c].page
    <2>1. call[c] \in Call /\ call[c] # Idle /\ p \in Pages /\ BrowserOf[p] \in Browsers
          /\ call[c].user \in Users /\ page[p] \in Page
      BY <1>8, Running, CallFacts DEF LoginReply, InPage, At
    <2>2. /\ page' = [page EXCEPT ![p] = [page[p] EXCEPT !.token = call[c].user, !.user = call[c].user]]
          /\ session' = [session EXCEPT ![BrowserOf[p]] = SignedIn(call[c].user)]
      BY <1>8 DEF LoginReply, StoreSession
    <2>3. page' \in [Pages -> Page] /\ session' \in [Browsers -> Session]
      BY <1>1, <2>1, <2>2 DEF Page, Session, SignedIn
    <2>4. \A q \in Pages : page'[q].key \in {page[q].key, NoKey}
      BY <1>1, <2>1, <2>2 DEF Page
    <2>5. CallFits([call[c] EXCEPT !.pc = "login.record"])
      BY <1>8, <2>1, CallFacts DEF LoginReply, InPage, At, CallFits, Call, Idle,
         RegisterPoints, UpdatePoints, Carrying, Backed
    <2> QED
      BY <1>1, <1>8, <2>3, <2>4, <2>5, NoNewKey, Continues DEF LoginReply, InPage, At
  <1>9. CASE LoginRecord(c) \/ UnlockRecord(c)
    <2>1. call[c].pc \in Points /\ call[c].page # NoPage /\ call[c].page \in Pages
          /\ page[call[c].page] \in Page /\ UNCHANGED <<account, accepted, store, session, backups>>
      BY <1>9, Running DEF LoginRecord, UnlockRecord, InPage, At
    <2> DEFINE pg == page[call[c].page]
               dropped == [pg EXCEPT !.key = NoKey]
    <2>0. /\ SetMissing(pg) \in Page /\ SetMissing(pg).key = pg.key
          /\ SetMissing(dropped) \in Page /\ SetMissing(dropped).key = NoKey
      <3>1. dropped \in Page /\ dropped.key = NoKey
        BY <2>1 DEF Page
      <3> HIDE DEF dropped
      <3> QED
        BY <2>1, <3>1 DEF Page, SetMissing
    <2>2. ASSUME Return(c), \/ page' = [page EXCEPT ![call[c].page] = SetMissing(pg)]
                            \/ page' = [page EXCEPT ![call[c].page] = SetMissing(dropped)]
          PROVE  IInv'
      <3> HIDE DEF dropped
      <3>1. page' \in [Pages -> Page] /\ \A q \in Pages : page'[q].key \in {page[q].key, NoKey}
        BY <1>1, <2>1, <2>0, <2>2
      <3> QED
        BY <1>1, <2>1, <2>2, <3>1, NoNewKey, Ends
    <2>3. ASSUME RecordOf(c) # NoRecord, Finishing(c, RecordOf(c).key), UNCHANGED page PROVE IInv'
      BY <2>1, <2>3, GoesToFinish
    <2> QED
      BY <1>9, <2>2, <2>3 DEF LoginRecord, UnlockRecord, Opens
  <1>10. CASE UpdateRecord(c)
    <2> DEFINE o == [call[c] EXCEPT !.pc = "update.find", !.key = RecordOf(c).key]
    <2>1. call[c] \in Call /\ call[c] # Idle /\ call[c].pc = "update.record" /\ call[c].page # NoPage
          /\ RecordOf(c) # NoRecord /\ CallFits(call[c])
      BY <1>10, Running DEF UpdateRecord, InPage, At, Opens
    <2>2. RecordOf(c) = store[BrowserOf[call[c].page]][call[c].user] /\ RecordOf(c).key \in Keys
          /\ Live(call[c].user) /\ RecordOf(c).key = account[call[c].user].key
      BY <2>1, Opened
    <2>3. o \in Call
      BY <2>1, <2>2, CallTypes
    <2>4. o.pc = "update.find" /\ o.key = RecordOf(c).key /\ o.user = call[c].user
          /\ o.page = call[c].page /\ o.new = call[c].new
      BY <2>1 DEF Call, Idle
    <2>5. call' \in [Calls -> Call] /\ call'[c] = o /\ \A d \in Calls : d # c => call'[d] = call[d]
      BY <1>10, <2>3 DEF UpdateRecord, Unlocked, IInv, TypeOK
    <2> HIDE DEF o
    <2>6. CallFits(o)
      BY <2>1, <2>2, <2>4 DEF CallFits, RegisterPoints, UpdatePoints, Carrying, Backed
    <2>7. (call[c] # Idle => CallFits(call[c]))'
      BY <1>10, <2>5, <2>6 DEF UpdateRecord, CallFits, Live, Kept
    <2>8. TypeOK' /\ ReadyKeysAreStored' /\ ~At(c, "register.save")'
      BY <1>2, <1>10, <2>4, <2>5 DEF UpdateRecord, IInv, TypeOK, At
    <2> QED
      BY <1>10, <2>5, <2>7, <2>8, Quiet DEF UpdateRecord
  <1>11. CASE RefreshSet(c)
    <2> DEFINE p == call[c].page
    <2>1. p \in Pages /\ BrowserOf[p] \in Browsers /\ call[c].user \in Users /\ page[p] \in Page
      BY <1>11, Running, CallFacts DEF RefreshSet, InPage, At
    <2>2. page' \in [Pages -> Page] /\ session' \in [Browsers -> Session]
          /\ \A q \in Pages : page'[q].key \in {page[q].key, NoKey}
      BY <1>1, <1>11, <2>1 DEF RefreshSet, Page, Session
    <2> QED
      BY <1>1, <1>11, <2>2, NoNewKey, Ends DEF RefreshSet
  <1>12. CASE Finish(c)
    <2> DEFINE p == call[c].page
               u == call[c].user
    <2>1. call[c] \in Call /\ CallFits(call[c]) /\ p \in Pages /\ BrowserOf[p] \in Browsers
          /\ u \in Users /\ page[p] \in Page
      BY <1>12, Running, CallFacts DEF Finish, InPage, At
    <2>2. store[BrowserOf[p]][u] # NoRecord /\ store[BrowserOf[p]][u].key = call[c].key
      BY <1>12, <2>1 DEF Finish, InPage, At, CallFits, Backed, Carrying, IInv, RecordsRight
    <2>3. call[c].key \in Keys
      BY <2>1, <2>2, RecordFacts DEF IInv, TypeOK
    <2>4. page' = [page EXCEPT ![p] = SetKey(page[p], call[c].key)]
      BY <1>12 DEF Finish
    <2>5. page' \in [Pages -> Page] /\ page'[p].key = call[c].key
          /\ \A q \in Pages : q # p => page'[q] = page[q]
      BY <1>1, <2>1, <2>3, <2>4 DEF Page, SetKey
    <2>6. ReadyKeysAreStored'
      BY <1>12, <2>1, <2>2, <2>5, StoredKey DEF Finish
    <2> QED
      BY <1>1, <1>12, <2>5, <2>6, Ends DEF Finish
  <1>13. CASE Throw(c)
    BY <1>1, <1>2, <1>13, Ends DEF Throw
  <1> QED
    BY <1>3, <1>4, <1>5, <1>6, <1>7, <1>8, <1>9, <1>10, <1>11, <1>12, <1>13

-----------------------------------------------------------------------------
(* Steps that write the server, a store or a backup file.  All of them only *)
(* add: no account, key, accepted password, record or file is ever lost.    *)

Grows ==
    /\ \A u \in Users : Live(u) => Live(u)' /\ account'[u].key = account[u].key
    /\ accepted \subseteq accepted'
    /\ \A b \in Browsers, u \in Users :
            store[b][u] # NoRecord => (store[b][u] # NoRecord)'
    /\ backups \subseteq backups'

\* What the other operations know stays true when one of them moves.
LEMMA OthersFit ==
    ASSUME IInv, Grows, NEW c \in Calls, NEW d \in Calls, d # c, call'[d] = call[d], call[d] # Idle
    PROVE  CallFits(call[d])'
  <1>1. call[d] \in Call /\ CallFits(call[d])
    BY DEF IInv, TypeOK, CallsRight
  <1>2. call[d].user \in Users /\ call[d].token \in Users
        /\ (call[d].page # NoPage => BrowserOf[call[d].page] \in Browsers)
    BY <1>1, CallFacts, KeysAssumption
  <1>3. (\E b \in Browsers : store[b][call[d].user] # NoRecord)
        => (\E b \in Browsers : store'[b][call[d].user] # NoRecord)
    BY <1>2 DEF Grows
  <1>4. CallFits(call[d])' <=>
            /\ call[d].pc \in RegisterPoints => call[d].key \in Keys /\ call[d].pw \in Passwords
            /\ call[d].pc \in UpdatePoints => call[d].new \in Passwords
            /\ call[d].pc \in Carrying => account'[call[d].user] # NoAccount
                                          /\ call[d].key = account'[call[d].user].key
            /\ call[d].pc \in Backed /\ call[d].page # NoPage =>
                    store'[BrowserOf[call[d].page]][call[d].user] # NoRecord
            /\ call[d].pc = "register.save" => call[d].pw \in accepted'
            /\ call[d].pc = "update.write" => account'[call[d].token] # NoAccount
            /\ call[d].pc = "update.save" => call[d].new \in accepted'
            /\ call[d].pc = "import.save" =>
                    /\ call[d].pw \in accepted'
                    /\ \E b \in Browsers : store'[b][call[d].user] # NoRecord
                    /\ \E f \in backups' : f.user = call[d].user
    BY DEF CallFits, Live, Kept
  <1>5. (account[call[d].user] # NoAccount => account'[call[d].user] # NoAccount
            /\ account'[call[d].user].key = account[call[d].user].key)
        /\ (account[call[d].token] # NoAccount => account'[call[d].token] # NoAccount)
    BY <1>2 DEF Grows, Live
  <1>6. accepted \subseteq accepted' /\ backups \subseteq backups'
        /\ (call[d].page # NoPage /\ store[BrowserOf[call[d].page]][call[d].user] # NoRecord
                => store'[BrowserOf[call[d].page]][call[d].user] # NoRecord)
    BY <1>2 DEF Grows
  <1> QED
    BY <1>1, <1>3, <1>4, <1>5, <1>6 DEF CallFits, Live, Kept

LEMMA RegisterCreateHolds == ASSUME IInv, NEW c \in Calls, RegisterCreate(c) PROVE IInv'
  <1> USE PointNames
  <1> DEFINE o == call[c]
             n == [o EXCEPT !.pc = "register.save"]
             u == o.user
  <1>1. o \in Call /\ o # Idle /\ u \in Users /\ o.key \in Keys /\ o.pw \in Passwords
        /\ account[u] = NoAccount
    BY Running, CallFacts DEF RegisterCreate, At, CallFits, RegisterPoints, UsernameFree
  <1>2. n \in Call
    BY <1>1, CallTypes
  <1>3. n.pc = "register.save" /\ n.key = o.key /\ n.user = u /\ n.pw = o.pw /\ n # Idle
    BY <1>1 DEF Call, Idle
  <1>4. /\ account' = [account EXCEPT ![u] = [st |-> "live", key |-> o.key, pw |-> o.pw]]
        /\ accepted' = accepted \cup {o.pw}
        /\ UNCHANGED <<store, session, page, backups>>
    BY DEF RegisterCreate
  <1>5. call' \in [Calls -> Call] /\ call'[c] = n /\ \A d \in Calls : d # c => call'[d] = call[d]
    BY <1>2 DEF RegisterCreate, Goto, IInv, TypeOK
  <1> HIDE DEF n
  <1>6. account \in [Users -> Account] /\ account' \in [Users -> Account]
        /\ account'[u] # NoAccount /\ account'[u].key = o.key
        /\ \A v \in Users : v # u => account'[v] = account[v]
    BY <1>1, <1>4 DEF IInv, TypeOK, Account, NoAccount
  <1>7. TypeOK'
    BY <1>1, <1>4, <1>5, <1>6 DEF IInv, TypeOK
  <1>8. Grows
    BY <1>1, <1>4, <1>6 DEF Grows, Live
  <1>9. ~Kept(u) /\ \A d \in Calls : At(d, "register.save") => call[d].user # u
    <2>1. ~Kept(u)
      BY <1>1 DEF IInv, RecordsRight, Kept, Live
    <2>2. ASSUME NEW d \in Calls, At(d, "register.save") PROVE call[d].user # u
      BY <1>1, <2>2, Running DEF At, CallFits, Carrying, Live
    <2> QED
      BY <2>1, <2>2
  <1>10. RecordsRight'
    BY <1>4, <1>6, <1>8 DEF IInv, RecordsRight, Grows
  <1>11. BackupsRight'
    BY <1>4, <1>8 DEF IInv, TypeOK, Backup, BackupsRight, Grows, Kept
  <1>12. CallsRight'
    <2>1. CallFits(call[c])'
      BY <1>1, <1>3, <1>4, <1>5, <1>6
         DEF CallFits, RegisterPoints, UpdatePoints, Carrying, Backed, Live
    <2>2. ASSUME NEW d \in Calls, d # c, call'[d] # Idle PROVE CallFits(call[d])'
      BY <1>5, <1>8, <2>2, OthersFit
    <2> QED
      BY <2>1, <2>2 DEF CallsRight
  <1>13. FirstToKeep'
    BY <1>3, <1>4, <1>5, <1>9 DEF IInv, FirstToKeep, At, Kept
  <1>14. ReadyKeysAreStored'
    BY <1>4 DEF IInv, ReadyKeysAreStored
  <1> QED
    BY <1>7, <1>10, <1>11, <1>12, <1>13, <1>14 DEF IInv

LEMMA UpdateWriteHolds == ASSUME IInv, NEW c \in Calls, UpdateWrite(c) PROVE IInv'
  <1> USE PointNames
  <1> DEFINE o == call[c]
             n == [o EXCEPT !.pc = "update.save"]
  <1>1. o \in Call /\ o # Idle /\ o.user \in Users /\ o.token \in Users /\ o.new \in Passwords
        /\ account[o.token] # NoAccount /\ CallFits(o) /\ o.pc = "update.write"
    BY Running, CallFacts DEF UpdateWrite, At, CallFits, UpdatePoints, Live
  <1>2. n \in Call
    BY <1>1, CallTypes
  <1>3. n.pc = "update.save" /\ n.key = o.key /\ n.user = o.user /\ n.new = o.new
        /\ n.page = o.page /\ n.token = o.token
    BY <1>1 DEF Call, Idle
  <1>4. /\ account' = [account EXCEPT ![o.token].pw = o.new]
        /\ accepted' = accepted \cup {o.new}
        /\ UNCHANGED <<store, session, page, backups>>
    BY DEF UpdateWrite
  <1>5. call' \in [Calls -> Call] /\ call'[c] = n /\ \A d \in Calls : d # c => call'[d] = call[d]
    BY <1>2 DEF UpdateWrite, Goto, IInv, TypeOK
  <1> HIDE DEF n
  <1>6. account' \in [Users -> Account] /\ Grows
    <2>1. account \in [Users -> Account] /\ account[o.token] \in [st : {"live"}, key : Keys, pw : Passwords]
      BY <1>1 DEF IInv, TypeOK, Account
    <2>2. account' \in [Users -> Account] /\ \A u \in Users : account[u] # NoAccount =>
            account'[u] # NoAccount /\ account'[u].key = account[u].key
      BY <1>1, <1>4, <2>1 DEF Account, NoAccount
    <2> QED
      BY <1>4, <2>2 DEF Grows, Live
  <1>7. TypeOK'
    BY <1>1, <1>4, <1>5, <1>6 DEF IInv, TypeOK
  <1>8. RecordsRight'
    BY <1>4, <1>6 DEF IInv, RecordsRight, Grows
  <1>9. BackupsRight'
    BY <1>4, <1>6 DEF IInv, TypeOK, Backup, BackupsRight, Grows, Kept
  <1>10. CallsRight'
    <2>1. (account[o.user] # NoAccount => account'[o.user] # NoAccount
            /\ account'[o.user].key = account[o.user].key) /\ o.new \in accepted'
      BY <1>1, <1>4, <1>6 DEF Grows, Live
    <2>2. CallFits(call[c])'
      BY <1>1, <1>3, <1>4, <1>5, <2>1
         DEF CallFits, RegisterPoints, UpdatePoints, Carrying, Backed, Live
    <2>3. ASSUME NEW d \in Calls, d # c, call'[d] # Idle PROVE CallFits(call[d])'
      BY <1>5, <1>6, <2>3, OthersFit
    <2> QED
      BY <2>2, <2>3 DEF CallsRight
  <1>11. FirstToKeep'
    BY <1>3, <1>4, <1>5 DEF IInv, FirstToKeep, At, Kept
  <1>12. ReadyKeysAreStored'
    BY <1>4 DEF IInv, ReadyKeysAreStored
  <1> QED
    BY <1>7, <1>8, <1>9, <1>10, <1>11, <1>12 DEF IInv

\* A record is written under the key of its account, by the one registration
\* that may be the first or for an account that has a record already.
LEMMA Saves ==
    ASSUME IInv, NEW c \in Calls, call[c].pc \in Points, call[c].page # NoPage,
           call[c].pc \in Carrying,
           Kept(call[c].user) \/ At(c, "register.save"),
           NEW pw \in accepted, SaveRecord(c, call[c].key, pw),
           UNCHANGED <<account, accepted, session, page, backups>>,
           call' \in [Calls -> Call], \A d \in Calls : d # c => call'[d] = call[d],
           call'[c].pc \in {"register.finish", "finish"},
           call'[c].page = call[c].page, call'[c].user = call[c].user, call'[c].key = call[c].key,
           call'[c].pc = "register.finish" => call'[c].pw \in Passwords
    PROVE  IInv'
  <1> DEFINE u == call[c].user
             b == BrowserOf[call[c].page]
             k == call[c].key
  <1>1. b \in Browsers /\ u \in Users /\ Live(u) /\ k = account[u].key /\ k \in Keys /\ pw \in Passwords
    BY Running, CallFacts, AccountFacts DEF CallFits, Live, IInv, TypeOK
  <1>2. store' = [store EXCEPT ![b][u] = Encrypt(k, pw)] /\ store \in [Browsers -> [Users -> Record]]
    BY DEF SaveRecord, IInv, TypeOK
  <1>3. Encrypt(k, pw) \in Record /\ Encrypt(k, pw) # NoRecord
        /\ Encrypt(k, pw).key = k /\ Encrypt(k, pw).pw = pw
    BY <1>1, EncryptFacts
  <1>4. /\ store' \in [Browsers -> [Users -> Record]]
        /\ store'[b][u] = Encrypt(k, pw)
        /\ \A a \in Browsers, v \in Users : ~(a = b /\ v = u) => store'[a][v] = store[a][v]
    BY <1>1, <1>2, <1>3
  <1> HIDE DEF b, u, k
  <1>5. TypeOK'
    BY <1>4 DEF IInv, TypeOK
  <1>6. Grows
    BY <1>3, <1>4 DEF Grows, Live
  <1>7. RecordsRight'
    BY <1>1, <1>3, <1>4 DEF IInv, RecordsRight, Live
  <1>8. BackupsRight'
    BY <1>6 DEF IInv, TypeOK, Backup, BackupsRight, Grows, Kept, Live
  <1>9. CallsRight'
    <2>1. CallFits(call[c])'
      BY <1>1, <1>3, <1>4 DEF CallFits, RegisterPoints, UpdatePoints, Carrying, Backed, Live, u, b, k
    <2>2. ASSUME NEW d \in Calls, d # c, call'[d] # Idle PROVE CallFits(call[d])'
      BY <1>6, <2>2, OthersFit
    <2> QED
      BY <2>1, <2>2 DEF CallsRight
  <1>10. FirstToKeep'
    <2>1. ASSUME NEW d \in Calls, At(d, "register.save")'
          PROVE  d # c /\ At(d, "register.save") /\ call'[d] = call[d] /\ call[d].user # u
      BY <2>1 DEF At, IInv, FirstToKeep, u
    <2>2. ASSUME NEW d \in Calls, At(d, "register.save")'
          PROVE  call[d].user \in Users /\ ~Kept(call[d].user)'
      <3>1. call[d].user \in Users /\ ~Kept(call[d].user)
        BY <2>1, <2>2, Running, CallFacts, PointNames DEF At, IInv, FirstToKeep
      <3> QED
        BY <1>4, <2>1, <2>2, <3>1 DEF Kept
    <2> QED
      BY <2>1, <2>2 DEF IInv, FirstToKeep, At
  <1>11. ReadyKeysAreStored'
    <2> SUFFICES ASSUME NEW p \in Pages, page'[p].key # NoKey
                 PROVE  \E v \in Users : store'[BrowserOf[p]][v] # NoRecord
                                         /\ store'[BrowserOf[p]][v].key = page'[p].key
      BY DEF ReadyKeysAreStored
    <2>1. PICK v \in Users : store[BrowserOf[p]][v] # NoRecord /\ store[BrowserOf[p]][v].key = page[p].key
      BY DEF IInv, ReadyKeysAreStored
    <2>2. BrowserOf[p] \in Browsers /\ store[BrowserOf[p]][v].key = account[v].key
      BY <2>1, KeysAssumption DEF IInv, RecordsRight
    <2>3. CASE BrowserOf[p] = b /\ v = u
      BY <1>1, <1>3, <1>4, <2>1, <2>2, <2>3
    <2>4. CASE ~(BrowserOf[p] = b /\ v = u)
      BY <1>4, <2>1, <2>2, <2>4
    <2> QED
      BY <2>3, <2>4
  <1> QED
    BY <1>5, <1>7, <1>8, <1>9, <1>10, <1>11 DEF IInv

LEMMA FinishingFacts ==
    ASSUME IInv, NEW c \in Calls, call[c].pc \in Points, Finishing(c, call[c].key)
    PROVE  /\ call' \in [Calls -> Call] /\ \A d \in Calls : d # c => call'[d] = call[d]
           /\ call'[c].pc = "finish" /\ call'[c].page = call[c].page
           /\ call'[c].user = call[c].user /\ call'[c].key = call[c].key
  <1> DEFINE n == [call[c] EXCEPT !.pc = "finish", !.key = call[c].key, !.pw = NoPassword, !.new = NoPassword]
  <1>1. call[c] \in Call /\ call[c] # Idle /\ call[c].key \in Keys \cup {NoKey}
    BY Running, CallFacts
  <1>2. n \in Call
    BY <1>1, CallTypes, PointNames
  <1>3. n.pc = "finish" /\ n.page = call[c].page /\ n.user = call[c].user /\ n.key = call[c].key
    BY <1>1 DEF Call, Idle
  <1>4. call' = [call EXCEPT ![c] = n] /\ call \in [Calls -> Call]
    BY DEF Finishing, IInv, TypeOK
  <1> HIDE DEF n
  <1> QED
    BY <1>2, <1>3, <1>4

LEMMA SavingHolds ==
    ASSUME IInv, NEW c \in Calls, RegisterSave(c) \/ UpdateSave(c) \/ ImportSave(c)
    PROVE  IInv'
  <1> USE PointNames
  <1>1. CASE RegisterSave(c)
    <2> DEFINE n == [call[c] EXCEPT !.pc = "register.finish"]
    <2>1. call[c] \in Call /\ call[c] # Idle /\ call[c].pc = "register.save" /\ call[c].page # NoPage
          /\ call[c].pw \in accepted /\ call[c].pw \in Passwords
      BY <1>1, Running DEF RegisterSave, InPage, At, CallFits, RegisterPoints
    <2>2. n \in Call
      BY <2>1, CallTypes
    <2>3. n.pc = "register.finish" /\ n.page = call[c].page /\ n.user = call[c].user
          /\ n.key = call[c].key /\ n.pw = call[c].pw
      BY <2>1 DEF Call, Idle
    <2>4. call' = [call EXCEPT ![c] = n] /\ call \in [Calls -> Call]
      BY <1>1 DEF RegisterSave, Goto, IInv, TypeOK
    <2> HIDE DEF n
    <2>5. call' \in [Calls -> Call] /\ call'[c] = n /\ \A d \in Calls : d # c => call'[d] = call[d]
      BY <2>2, <2>4
    <2> QED
      BY <1>1, <2>1, <2>3, <2>5, Saves DEF RegisterSave, At, Carrying
  <1>2. CASE UpdateSave(c)
    <2>1. call[c] \in Call /\ call[c].pc = "update.save" /\ call[c].page # NoPage
          /\ call[c].new \in accepted /\ Kept(call[c].user)
      BY <1>2, Running DEF UpdateSave, InPage, At, CallFits, Backed, Kept
    <2> QED
      BY <1>2, <2>1, FinishingFacts, Saves DEF UpdateSave, Carrying
  <1>3. CASE ImportSave(c)
    <2>1. call[c] \in Call /\ call[c].pc = "import.save" /\ call[c].page # NoPage
          /\ call[c].pw \in accepted /\ Kept(call[c].user)
      BY <1>3, Running DEF ImportSave, InPage, At, CallFits
    <2> QED
      BY <1>3, <2>1, FinishingFacts, Saves DEF ImportSave, Carrying
  <1> QED
    BY <1>1, <1>2, <1>3

LEMMA PageStepsHold ==
    ASSUME IInv, NEW p \in Pages, ExportBackup(p) \/ Logout(p) \/ Reload(p)
    PROVE  IInv'
  <1>1. page \in [Pages -> Page] /\ session \in [Browsers -> Session] /\ call \in [Calls -> Call]
        /\ BrowserOf[p] \in Browsers /\ page[p] \in Page
    BY KeysAssumption DEF IInv, TypeOK
  <1>2. CASE ExportBackup(p)
    <2> DEFINE u == page[p].user
               r == store[BrowserOf[p]][u]
    <2>1. u \in Users /\ r # NoRecord /\ r \in Record /\ backups' = backups \cup {BackupOf(u, r)}
          /\ UNCHANGED <<account, accepted, store, session, page, call>>
      BY <1>1, <1>2 DEF ExportBackup, InApp, Page, IInv, TypeOK
    <2>2. r.key \in Keys /\ r.pw \in Passwords /\ Live(u) /\ r.key = account[u].key
          /\ r.pw \in accepted /\ Kept(u)
      BY <1>1, <2>1, RecordFacts DEF IInv, RecordsRight, Kept
    <2>3. TypeOK'
      BY <2>1, <2>2 DEF IInv, TypeOK, Backup, BackupOf
    <2>4. BackupsRight'
      BY <2>1, <2>2 DEF IInv, BackupsRight, BackupOf, Live, Kept
    <2>5. CallsRight'
      BY <2>1 DEF IInv, CallsRight, CallFits, Live, Kept
    <2> QED
      BY <2>1, <2>3, <2>4, <2>5
         DEF IInv, RecordsRight, Live, FirstToKeep, At, Kept, ReadyKeysAreStored
  <1>3. CASE Logout(p)
    <2>1. page' \in [Pages -> Page] /\ session' \in [Browsers -> Session]
          /\ \A q \in Pages : page'[q].key \in {page[q].key, NoKey}
          /\ UNCHANGED <<account, accepted, store, backups, call>>
      BY <1>1, <1>3 DEF Logout, Locked, SignedOut, Page, Session
    <2>2. TypeOK' /\ ReadyKeysAreStored'
      BY <2>1, NoNewKey DEF IInv, TypeOK
    <2> QED
      BY <2>1, <2>2 DEF IInv, RecordsRight, BackupsRight, CallsRight, CallFits, Live, Kept, FirstToKeep, At
  <1>4. CASE Reload(p)
    <2>1. /\ page' \in [Pages -> Page]
          /\ \A q \in Pages : page'[q].key \in {page[q].key, NoKey}
          /\ UNCHANGED <<account, accepted, store, session, backups>>
      BY <1>1, <1>4 DEF Reload, Locked, Page, Session
    <2>2. /\ call' \in [Calls -> Call]
          /\ \A c \in Calls : call'[c] \in {call[c], [call[c] EXCEPT !.page = NoPage]}
          /\ \A c \in Calls : call'[c] # call[c] => call[c] # Idle
      BY <1>1, <1>4, CallTypes DEF Reload
    <2>3. ASSUME NEW c \in Calls, call'[c] # Idle
          PROVE  /\ call[c] # Idle /\ call[c] \in Call /\ call'[c].pc = call[c].pc
                 /\ call'[c].user = call[c].user /\ call'[c].token = call[c].token
                 /\ call'[c].key = call[c].key /\ call'[c].pw = call[c].pw /\ call'[c].new = call[c].new
                 /\ call'[c].page \in {call[c].page, NoPage}
      BY <1>1, <2>2, <2>3 DEF Call, Idle
    <2>4. TypeOK' /\ ReadyKeysAreStored'
      BY <2>1, <2>2, NoNewKey DEF IInv, TypeOK
    <2>5. CallsRight'
      <3> SUFFICES ASSUME NEW c \in Calls, call'[c] # Idle PROVE CallFits(call[c])'
        BY DEF CallsRight
      <3>1. CallFits(call[c])
        BY <2>3 DEF IInv, CallsRight
      <3> QED
        BY <2>1, <2>3, <3>1 DEF CallFits, Live, Kept
    <2>6. FirstToKeep'
      <3>1. \A c \in Calls : At(c, "register.save")' => At(c, "register.save") /\ call'[c].user = call[c].user
        BY <2>3 DEF At, Idle
      <3> QED
        BY <2>1, <3>1 DEF IInv, FirstToKeep, Kept
    <2> QED
      BY <2>1, <2>4, <2>5, <2>6 DEF IInv, RecordsRight, BackupsRight, Live, Kept
  <1> QED
    BY <1>2, <1>3, <1>4

LEMMA StepHolds == IInv /\ [Next]_vars => IInv'
  <1> SUFFICES ASSUME IInv, [Next]_vars PROVE IInv'
    OBVIOUS
  <1>1. ASSUME NEW c \in Calls, Begin(c) \/ Advance(c) \/ Throw(c) PROVE IInv'
    BY <1>1, BeginHolds, QuietAdvance, RegisterCreateHolds, UpdateWriteHolds, SavingHolds DEF Advance
  <1>2. ASSUME NEW p \in Pages, ExportBackup(p) \/ Logout(p) \/ Reload(p) PROVE IInv'
    BY <1>2, PageStepsHold
  <1>3. CASE UNCHANGED vars
    BY <1>3 DEF vars, IInv, TypeOK, RecordsRight, BackupsRight, CallsRight, CallFits, Live, Kept,
       FirstToKeep, At, ReadyKeysAreStored
  <1> QED
    BY <1>1, <1>2, <1>3 DEF Next

LEMMA Invariance == Spec => []IInv
  <1> QED
    BY InitHolds, StepHolds, PTL DEF Spec

\* Every variable has its type in every reachable state.
THEOREM TypeCorrect == Spec => []TypeOK
  <1>1. IInv => TypeOK
    BY DEF IInv
  <1> QED
    BY <1>1, Invariance, PTL

\* A copy of a private key opens with a password the server has accepted.
THEOREM CopiesOpen == Spec => []EveryCopyOpens
  <1>1. IInv => EveryCopyOpens
    BY DEF IInv, RecordsRight, BackupsRight, EveryCopyOpens
  <1> QED
    BY <1>1, Invariance, PTL

\* A key in the memory of a tab is in IndexedDB of its browser.
THEOREM ReadyKeysSurvive == Spec => []ReadyKeysAreStored
  <1>1. IInv => ReadyKeysAreStored
    BY DEF IInv
  <1> QED
    BY <1>1, Invariance, PTL

-----------------------------------------------------------------------------
(* The operations implement KeyCustody. *)

Identity == [u \in Users |-> IF account[u] = NoAccount THEN NoKey ELSE account[u].key]
HeldBy == [u \in Users |-> Holders(u)]
Carried == {f.user : f \in backups}

\* Every record of an account has its key.
LEMMA HoldersAreRecords ==
    ASSUME IInv, NEW u \in Users
    PROVE  Holders(u) = {b \in Browsers : store[b][u] # NoRecord}
  BY DEF IInv, RecordsRight, Holders, Live

LEMMA HoldersAreRecordsNext ==
    ASSUME IInv', NEW u \in Users
    PROVE  Holders(u)' = {b \in Browsers : store'[b][u] # NoRecord}
  BY DEF IInv, RecordsRight, Holders, Live

\* A step that leaves accounts, records and files alone is a stutter.
LEMMA Stutters ==
    ASSUME UNCHANGED <<account, store, backups>>
    PROVE  UNCHANGED <<Identity, HeldBy, Carried>>
  BY DEF Identity, HeldBy, Carried, Holders

\* A step that writes one record adds its browser to the holders of its account.
LEMMA OneMoreHolder ==
    ASSUME IInv, IInv', NEW b \in Browsers, NEW u \in Users, NEW k \in Keys, NEW pw \in Passwords,
           store' = [store EXCEPT ![b][u] = Encrypt(k, pw)]
    PROVE  HeldBy' = [HeldBy EXCEPT ![u] = @ \cup {b}]
  <1>1. store \in [Browsers -> [Users -> Record]] /\ Encrypt(k, pw) # NoRecord
    BY EncryptFacts DEF IInv, TypeOK
  <1>2. \A v \in Users : Holders(v)' = IF v = u THEN Holders(v) \cup {b} ELSE Holders(v)
    <2> SUFFICES ASSUME NEW v \in Users
                 PROVE  Holders(v)' = IF v = u THEN Holders(v) \cup {b} ELSE Holders(v)
      OBVIOUS
    <2>1. Holders(v) = {a \in Browsers : store[a][v] # NoRecord}
          /\ Holders(v)' = {a \in Browsers : store'[a][v] # NoRecord}
      BY HoldersAreRecords, HoldersAreRecordsNext
    <2> QED
      BY <1>1, <2>1
  <1> QED
    BY <1>2 DEF HeldBy

LEMMA CustodyInit == Init => Custody!Init
  BY DEF Init, Custody!Init, Holders, NoAccount

LEMMA CustodyRegister ==
    ASSUME IInv, IInv', NEW c \in Calls, RegisterCreate(c)
    PROVE  Custody!Next
  <1> USE PointNames
  <1> DEFINE u == call[c].user
             k == call[c].key
  <1>1. u \in Users /\ k \in Keys /\ account[u] = NoAccount
        /\ account' = [account EXCEPT ![u] = [st |-> "live", key |-> k, pw |-> call[c].pw]]
        /\ UNCHANGED <<store, backups>>
    BY Running, CallFacts DEF RegisterCreate, At, CallFits, RegisterPoints, UsernameFree
  <1>2. account \in [Users -> Account]
    BY DEF IInv, TypeOK
  <1>3. Identity[u] = NoKey /\ Identity' = [Identity EXCEPT ![u] = k]
    BY <1>1, <1>2 DEF Identity, NoAccount
  <1>4. UNCHANGED <<HeldBy, Carried>>
    BY <1>1, HoldersAreRecords, HoldersAreRecordsNext DEF HeldBy, Carried
  <1>5. Custody!Register(u, k)
    BY <1>3, <1>4 DEF Custody!Register, Identity, HeldBy, Carried
  <1>6. PICK v \in Users, m \in Keys : v = u /\ m = k
    BY <1>1
  <1>7. Custody!Register(v, m)
    BY <1>5, <1>6 DEF Custody!Register
  <1> QED
    BY <1>7 DEF Custody!Next

LEMMA CustodyKeep ==
    ASSUME IInv, IInv', NEW c \in Calls, RegisterSave(c)
    PROVE  Custody!Next
  <1> USE PointNames
  <1> DEFINE u == call[c].user
             b == BrowserOf[call[c].page]
  <1>1. u \in Users /\ b \in Browsers /\ Live(u) /\ call[c].key = account[u].key
        /\ call[c].key \in Keys /\ call[c].pw \in Passwords /\ ~Kept(u)
        /\ store' = [store EXCEPT ![b][u] = Encrypt(call[c].key, call[c].pw)]
        /\ UNCHANGED <<account, backups>>
    BY Running, CallFacts
       DEF RegisterSave, SaveRecord, InPage, At, CallFits, RegisterPoints, Carrying, IInv, FirstToKeep
  <1>2. HeldBy' = [HeldBy EXCEPT ![u] = @ \cup {b}]
    BY <1>1, OneMoreHolder
  <1>3. HeldBy[u] = {} /\ HeldBy \in [Users -> SUBSET Browsers]
    BY <1>1, HoldersAreRecords DEF HeldBy, Kept
  <1>4. HeldBy' = [HeldBy EXCEPT ![u] = {b}]
    BY <1>1, <1>2, <1>3
  <1>5. Identity[u] # NoKey /\ UNCHANGED <<Identity, Carried>>
    BY <1>1, KeysAssumption DEF Identity, Carried, Live
  <1>6. Custody!Keep(u, b)
    BY <1>3, <1>4, <1>5 DEF Custody!Keep, Identity, HeldBy, Carried
  <1> QED
    BY <1>1, <1>6 DEF Custody!Next

LEMMA CustodyImport ==
    ASSUME IInv, IInv', NEW c \in Calls, ImportSave(c)
    PROVE  Custody!Next
  <1> USE PointNames
  <1> DEFINE u == call[c].user
             b == BrowserOf[call[c].page]
  <1>1. u \in Users /\ b \in Browsers /\ call[c].key = account[u].key /\ Live(u)
        /\ call[c].pw \in accepted /\ u \in Carried
        /\ store' = [store EXCEPT ![b][u] = Encrypt(call[c].key, call[c].pw)]
        /\ UNCHANGED <<account, backups>>
    BY Running, CallFacts DEF ImportSave, SaveRecord, InPage, At, CallFits, Carrying, Carried
  <1>2. call[c].key \in Keys /\ call[c].pw \in Passwords
    BY <1>1, AccountFacts DEF IInv, TypeOK, Live
  <1>3. HeldBy' = [HeldBy EXCEPT ![u] = @ \cup {b}]
    BY <1>1, <1>2, OneMoreHolder
  <1>4. UNCHANGED <<Identity, Carried>>
    BY <1>1 DEF Identity, Carried
  <1>5. Custody!Import(u, b)
    BY <1>1, <1>3, <1>4 DEF Custody!Import, Identity, HeldBy, Carried
  <1> QED
    BY <1>1, <1>5 DEF Custody!Next

LEMMA CustodyExport ==
    ASSUME IInv, IInv', NEW p \in Pages, ExportBackup(p)
    PROVE  Custody!Next
  <1> DEFINE u == page[p].user
  <1>1. u \in Users /\ BrowserOf[p] \in Browsers /\ store[BrowserOf[p]][u] # NoRecord
        /\ backups' = backups \cup {BackupOf(u, store[BrowserOf[p]][u])}
        /\ UNCHANGED <<account, store>>
    BY KeysAssumption DEF ExportBackup, InApp, IInv, TypeOK, Page
  <1>2. HeldBy[u] # {}
    BY <1>1, HoldersAreRecords DEF HeldBy
  <1>3. Carried' = Carried \cup {u}
    <2> DEFINE f == BackupOf(u, store[BrowserOf[p]][u])
    <2>1. f.user = u
      BY DEF BackupOf
    <2>2. backups' = backups \cup {f}
      BY <1>1
    <2> HIDE DEF f
    <2> QED
      BY <2>1, <2>2 DEF Carried
  <1>4. UNCHANGED <<Identity, HeldBy>>
    BY <1>1 DEF Identity, HeldBy, Holders
  <1>5. Custody!Export(u)
    BY <1>2, <1>3, <1>4 DEF Custody!Export, Identity, HeldBy, Carried
  <1>6. PICK v \in Users : v = u
    BY <1>1
  <1>7. Custody!Export(v)
    BY <1>5, <1>6 DEF Custody!Export
  <1> QED
    BY <1>7 DEF Custody!Next

\* A password change writes a password and a record that was there.
LEMMA CustodyUpdate ==
    ASSUME IInv, IInv', NEW c \in Calls, UpdateWrite(c) \/ UpdateSave(c)
    PROVE  UNCHANGED <<Identity, HeldBy, Carried>>
  <1> USE PointNames
  <1>1. CASE UpdateWrite(c)
    <2>1. account \in [Users -> Account] /\ call[c].token \in Users
          /\ account[call[c].token] \in [st : {"live"}, key : Keys, pw : Passwords]
          /\ account' = [account EXCEPT ![call[c].token].pw = call[c].new]
          /\ UNCHANGED <<store, backups>>
      BY <1>1, Running, CallFacts DEF UpdateWrite, At, CallFits, Live, IInv, TypeOK, Account
    <2>2. \A u \in Users : (account'[u] = NoAccount <=> account[u] = NoAccount)
                           /\ (account[u] # NoAccount => account'[u].key = account[u].key)
      BY <2>1 DEF Account, NoAccount
    <2>3. UNCHANGED Identity
      BY <2>2 DEF Identity
    <2>4. UNCHANGED HeldBy
      BY <2>1, HoldersAreRecords, HoldersAreRecordsNext DEF HeldBy
    <2> QED
      BY <2>1, <2>3, <2>4 DEF Carried
  <1>2. CASE UpdateSave(c)
    <2> DEFINE u == call[c].user
               b == BrowserOf[call[c].page]
    <2>1. u \in Users /\ b \in Browsers /\ store[b][u] # NoRecord /\ Live(u)
          /\ call[c].key = account[u].key /\ call[c].new \in Passwords
          /\ store' = [store EXCEPT ![b][u] = Encrypt(call[c].key, call[c].new)]
          /\ UNCHANGED <<account, backups>>
      BY <1>2, Running, CallFacts
         DEF UpdateSave, SaveRecord, InPage, At, CallFits, UpdatePoints, Carrying, Backed
    <2>2. call[c].key \in Keys
      BY <2>1, AccountFacts DEF IInv, TypeOK, Live
    <2>3. HeldBy' = [HeldBy EXCEPT ![u] = @ \cup {b}]
      BY <2>1, <2>2, OneMoreHolder
    <2>4. b \in HeldBy[u]
      BY <2>1, HoldersAreRecords DEF HeldBy
    <2>5. HeldBy[u] \cup {b} = HeldBy[u] /\ HeldBy = [v \in Users |-> HeldBy[v]]
      BY <2>4 DEF HeldBy
    <2>6. UNCHANGED HeldBy
      BY <2>1, <2>3, <2>5
    <2> QED
      BY <2>1, <2>6 DEF Identity, Carried
  <1> QED
    BY <1>1, <1>2

LEMMA CustodyStep == IInv /\ IInv' /\ [Next]_vars => [Custody!Next]_(Custody!custody)
  <1> SUFFICES ASSUME IInv, IInv', [Next]_vars
               PROVE  Custody!Next \/ UNCHANGED <<Identity, HeldBy, Carried>>
    BY DEF Custody!custody, Identity, HeldBy, Carried
  <1>1. ASSUME NEW c \in Calls, Begin(c) \/ Throw(c) PROVE UNCHANGED <<account, store, backups>>
    BY <1>1 DEF Begin, Register, Login, Unlock, UpdatePassword, ImportBackup, Refresh, Throw
  <1>2. ASSUME NEW c \in Calls, Advance(c),
               ~RegisterCreate(c), ~RegisterSave(c), ~ImportSave(c), ~UpdateWrite(c), ~UpdateSave(c)
        PROVE  UNCHANGED <<account, store, backups>>
    BY <1>2 DEF Advance, RegisterCheck, RegisterFinish, LoginFind, LoginReply, LoginRecord,
       UnlockRecord, UpdateRecord, UpdateFind, RefreshGet, RefreshSet, Finish
  <1>3. ASSUME NEW p \in Pages, Logout(p) \/ Reload(p) PROVE UNCHANGED <<account, store, backups>>
    BY <1>3 DEF Logout, Reload
  <1>4. CASE UNCHANGED vars
    BY <1>4, Stutters DEF vars
  <1> QED
    BY <1>1, <1>2, <1>3, <1>4, Stutters, CustodyRegister, CustodyKeep, CustodyImport, CustodyExport,
       CustodyUpdate DEF Next

\* Identity keys are in the custody that KeyCustody describes.
THEOREM CustodyKept == Spec => KeysInCustody
  <1> QED
    BY CustodyInit, CustodyStep, Invariance, PTL DEF Spec, KeysInCustody, Custody!Spec

=============================================================================

------------------------- MODULE MessageSendingProofs -------------------------
(***************************************************************************)
(* Proofs about EncryptedFiles and MessageSending, for any people, groups, *)
(* images and number of messages being sent.                               *)
(***************************************************************************)
EXTENDS MessageSending, TLAPS

-----------------------------------------------------------------------------
(* The server.  What was written stays, and a file whose upload was        *)
(* answered is addressed as it was asked, unless its group is gone.        *)

Placed == \A f \in Files : upload[f].pc \in {"create", "done"} => f \in disk

Addressed ==
    \A f \in Files : upload[f].pc = "done" =>
        \/ row[f] = upload[f].to
        \/ upload[f].to \in Groups /\ ~Live(upload[f].to)

FInv == FTypeOK /\ Placed /\ RowHasFile /\ Addressed

\* An upload that has an addressee.
Named(r) == r.pc \in {"check", "write", "create", "done"}

\* What the server does to uploads it is asked for.
Handled(f) ==
    /\ upload[f] = NotAsked => upload'[f] = NotAsked
    /\ Named(upload[f]) =>
        \/ upload'[f] = Failed
        \/ Named(upload'[f]) /\ upload'[f].to = upload[f].to
    /\ upload[f].pc = "done" => upload'[f] = upload[f]
    /\ Named(upload'[f]) => Named(upload[f])

LEMMA UploadKinds ==
    ASSUME FTypeOK, NEW f \in Files
    PROVE  \/ upload[f] = NotAsked
           \/ upload[f] = Failed
           \/ /\ Named(upload[f]) /\ upload[f].to \in Conversations
              /\ upload[f] = [pc |-> upload[f].pc, to |-> upload[f].to]
BY DEF FTypeOK, Upload, Named

LEMMA NamedIsAsked ==
    /\ ~Named(NotAsked) /\ ~Named(Failed) /\ Failed # NotAsked
    /\ NotAsked.pc = "none" /\ Failed.pc = "failed"
    /\ NotAsked \in Upload /\ Failed \in Upload
BY DEF Named, NotAsked, Failed, Upload

LEMMA ProceedKeeps ==
    ASSUME FInv, NEW f \in Files,
           NEW from \in {"check", "write", "create"}, NEW to \in {"write", "create", "done"},
           Proceed(f, from, to)
    PROVE  /\ upload' \in [Files -> Upload]
           /\ upload'[f].pc = to /\ upload'[f].to = upload[f].to
           /\ upload[f].to \in Conversations
           /\ \A g \in Files \ {f} : upload'[g] = upload[g]
           /\ \A g \in Files : Handled(g)
<1>1. upload[f].pc = from /\ upload[f] = [pc |-> from, to |-> upload[f].to]
      /\ upload[f].to \in Conversations
    BY UploadKinds, NamedIsAsked DEF Proceed, FInv
<1> DEFINE new == [pc |-> to, to |-> upload[f].to]
<1>2. [upload[f] EXCEPT !.pc = to] = new
    BY <1>1
<1>3. upload' = [upload EXCEPT ![f] = new]
    BY <1>2 DEF Proceed
<1>4. new \in Upload /\ new.pc = to /\ new.to = upload[f].to /\ Named(new)
    BY <1>1 DEF Upload, Named
<1> HIDE DEF new
<1>5. upload \in [Files -> Upload]
    BY DEF FInv, FTypeOK
<1>6. upload'[f] = new /\ \A g \in Files \ {f} : upload'[g] = upload[g]
    BY <1>3, <1>5
<1>7. Handled(f)
    BY <1>1, <1>4, <1>6, NamedIsAsked DEF Handled, Named
<1>8. ASSUME NEW g \in Files \ {f} PROVE Handled(g)
    BY <1>6, <1>8 DEF Handled
<1> QED BY <1>1, <1>3, <1>4, <1>5, <1>6, <1>7, <1>8

LEMMA InitFInv == FInit => FInv
<1> SUFFICES ASSUME FInit PROVE FInv
    OBVIOUS
<1>1. FTypeOK
    BY NamedIsAsked DEF FInit, FTypeOK, Users
<1> QED BY <1>1, NamedIsAsked DEF FInit, FInv, Placed, RowHasFile, Addressed

LEMMA SaveFInv ==
    ASSUME FInv, NEW f \in Files, NEW c \in Conversations, SaveEncryptedFile(f, c)
    PROVE  FInv'
<1> DEFINE new == [pc |-> "check", to |-> c]
<1>1. new \in Upload /\ new.pc = "check"
    BY DEF Upload
<1>2. upload' = [upload EXCEPT ![f] = new] /\ UNCHANGED <<members, friends, disk, row>>
    BY DEF SaveEncryptedFile
<1> HIDE DEF new
<1>3. upload \in [Files -> Upload]
    BY DEF FInv, FTypeOK
<1>4. FTypeOK'
    BY <1>1, <1>2, <1>3 DEF FInv, FTypeOK
<1>5. \A g \in Files : upload'[g] = upload[g] \/ upload'[g].pc = "check"
    BY <1>1, <1>2, <1>3
<1> QED BY <1>2, <1>4, <1>5 DEF FInv, Placed, RowHasFile, Addressed, Live

LEMMA HandleStep ==
    ASSUME FInv, NEW f \in Files, Handle(f)
    PROVE  FInv' /\ \A g \in Files : Handled(g)
<1>0. FTypeOK /\ Placed /\ RowHasFile /\ Addressed
    BY DEF FInv
<1>1. CASE AssertWriteAccess(f)
    <2>1. Proceed(f, "check", "write") /\ UNCHANGED <<members, friends, disk, row>>
        BY <1>1 DEF AssertWriteAccess
    <2>2. FTypeOK'
        BY <1>0, <2>1, ProceedKeeps DEF FTypeOK
    <2>3. Placed' /\ RowHasFile' /\ Addressed'
        BY <1>0, <2>1, ProceedKeeps DEF Placed, RowHasFile, Addressed, Live
    <2> QED BY <2>1, <2>2, <2>3, ProceedKeeps DEF FInv
<1>2. CASE WriteFile(f)
    <2>1. /\ Proceed(f, "write", "create") /\ UNCHANGED <<members, friends, row>>
          /\ disk' = disk \cup {f}
        BY <1>2 DEF WriteFile
    <2>2. FTypeOK'
        BY <1>0, <2>1, ProceedKeeps DEF FTypeOK
    <2>3. Placed' /\ RowHasFile' /\ Addressed'
        BY <1>0, <2>1, ProceedKeeps DEF Placed, RowHasFile, Addressed, Live
    <2> QED BY <2>1, <2>2, <2>3, ProceedKeeps DEF FInv
<1>3. CASE CreateRow(f)
    <2>1. /\ Proceed(f, "create", "done") /\ UNCHANGED <<members, friends, disk>>
          /\ row' = [row EXCEPT ![f] = upload[f].to]
        BY <1>3 DEF CreateRow
    <2>2. f \in disk /\ upload[f].to \in Conversations
        BY <1>0, <2>1, ProceedKeeps DEF Placed, Proceed
    <2>3. row'[f] = upload[f].to /\ \A g \in Files \ {f} : row'[g] = row[g]
        BY <1>0, <2>1 DEF FTypeOK
    <2>4. FTypeOK'
        BY <1>0, <2>1, <2>2, ProceedKeeps DEF FTypeOK
    <2>5. Placed' /\ RowHasFile'
        BY <1>0, <2>1, <2>2, <2>3, ProceedKeeps DEF Placed, RowHasFile
    <2>6. Addressed'
        BY <1>0, <2>1, <2>3, ProceedKeeps DEF Addressed, Live
    <2> QED BY <2>1, <2>4, <2>5, <2>6, ProceedKeeps DEF FInv
<1>4. CASE Throw(f)
    <2>1. upload' = [upload EXCEPT ![f] = Failed] /\ UNCHANGED <<members, friends, disk, row>>
          /\ upload[f].pc \in {"check", "write", "create"}
        BY <1>4 DEF Throw
    <2>2. upload'[f] = Failed /\ \A g \in Files \ {f} : upload'[g] = upload[g]
        BY <1>0, <2>1 DEF FTypeOK
    <2>3. FTypeOK'
        BY <1>0, <2>1, NamedIsAsked DEF FTypeOK
    <2>4. Placed' /\ RowHasFile' /\ Addressed'
        BY <1>0, <2>1, <2>2, NamedIsAsked DEF Placed, RowHasFile, Addressed, Live
    <2>5. Handled(f)
        BY <2>1, <2>2, NamedIsAsked DEF Handled
    <2>6. \A g \in Files \ {f} : Handled(g)
        BY <2>2 DEF Handled
    <2> QED BY <2>3, <2>4, <2>5, <2>6 DEF FInv
<1> QED BY <1>1, <1>2, <1>3, <1>4 DEF Handle

LEMMA AccessStep ==
    ASSUME FInv, AccessChanges
    PROVE  FInv' /\ UNCHANGED upload
<1>0. FTypeOK /\ Placed /\ RowHasFile /\ Addressed
    BY DEF FInv
<1>1. CASE \E u \in Others : Befriend(u) \/ Unfriend(u)
    <2>1. UNCHANGED <<members, disk, row, upload>> /\ friends' \subseteq Others
        BY <1>0, <1>1 DEF Befriend, Unfriend, FTypeOK
    <2> QED BY <1>0, <2>1 DEF FInv, FTypeOK, Placed, RowHasFile, Addressed, Live
<1>2. CASE \E u \in Users, g \in Groups : Admit(u, g) \/ Remove(u, g)
    <2>1. PICK u \in Users, g \in Groups : Admit(u, g) \/ Remove(u, g)
        BY <1>2
    <2>2. /\ UNCHANGED <<friends, disk, row, upload>>
          /\ members' \in [Groups -> SUBSET Users]
          /\ \A h \in Groups : members[h] = {} => members'[h] = {}
        BY <1>0, <2>1 DEF Admit, Remove, Live, FTypeOK
    <2> QED BY <1>0, <2>2 DEF FInv, FTypeOK, Placed, RowHasFile, Addressed, Live
<1>3. CASE \E g \in Groups : DeleteGroup(g)
    <2>1. PICK g \in Groups : DeleteGroup(g)
        BY <1>3
    <2>2. /\ UNCHANGED <<friends, disk, upload>>
          /\ members' \in [Groups -> SUBSET Users]
          /\ members'[g] = {}
          /\ \A h \in Groups : members[h] = {} => members'[h] = {}
        BY <1>0, <2>1 DEF DeleteGroup, FTypeOK
    <2>3. /\ row' \in [Files -> Conversations \cup {NoRow}]
          /\ \A f \in Files : row'[f] = IF row[f] = g THEN NoRow ELSE row[f]
        BY <1>0, <2>1 DEF DeleteGroup, FTypeOK
    <2>4. FTypeOK'
        BY <1>0, <2>2, <2>3 DEF FTypeOK
    <2>5. Placed' /\ RowHasFile'
        BY <1>0, <2>2, <2>3 DEF Placed, RowHasFile
    <2>6. Addressed'
        BY <1>0, <2>2, <2>3 DEF Addressed, Live
    <2> QED BY <2>2, <2>4, <2>5, <2>6 DEF FInv
<1> QED BY <1>1, <1>2, <1>3 DEF AccessChanges

LEMMA FileStep ==
    ASSUME FInv, [FNext]_fvars
    PROVE  FInv'
<1>1. CASE UNCHANGED fvars
    BY <1>1 DEF fvars, FInv, FTypeOK, Placed, RowHasFile, Addressed, Live
<1>2. CASE FNext
    BY <1>2, SaveFInv, HandleStep, AccessStep DEF FNext
<1> QED BY <1>1, <1>2

-----------------------------------------------------------------------------
(* The composer.  Every upload that has an addressee has it from the call  *)
(* of sendMessage it belongs to; what a call counts as uploaded, and all   *)
(* of a sent message, was answered.                                        *)

UploadsFollow ==
    \A s \in Sends, i \in Images :
        /\ send[s] = Unused => upload[FileOf(s, i)] = NotAsked
        /\ send[s].pc \in {"open", "sent"} /\ Named(upload[FileOf(s, i)]) =>
                upload[FileOf(s, i)].to = send[s].to

CountedAreDone ==
    \A s \in Sends : send[s].pc = "open" =>
        \A i \in send[s].uploaded : upload[FileOf(s, i)].pc = "done"

SentAreDone ==
    \A s \in Sends : send[s].pc = "sent" =>
        \A i \in send[s].images : upload[FileOf(s, i)].pc = "done"

CallsInv == UploadsFollow /\ CountedAreDone /\ SentAreDone

SInv == STypeOK /\ FInv /\ CallsInv

LEMMA FilesOfCalls ==
    /\ \A s \in Sends, i \in Images : FileOf(s, i) \in Files
    /\ \A s, t \in Sends, i, j \in Images : FileOf(s, i) = FileOf(t, j) => s = t /\ i = j
    /\ \A f \in Files : \E s \in Sends, i \in Images : f = FileOf(s, i)
BY SendsAssumption DEF FileOf

\* The calls in progress.
OpenSend == [pc : {"open"}, to : Conversations, images : SUBSET Images,
             uploaded : SUBSET Images, here : BOOLEAN]

LEMMA SendKinds ==
    ASSUME send \in [Sends -> Send], NEW s \in Sends
    PROVE  /\ send[s].pc \in {"unused", "failed", "open", "sent"}
           /\ send[s].pc = "unused" => send[s] = Unused
           /\ send[s].pc = "open" =>
                /\ send[s].to \in Conversations /\ send[s].images \subseteq Images
                /\ send[s].uploaded \subseteq Images /\ send[s].here \in BOOLEAN
                /\ send[s] \in OpenSend
           /\ send[s].pc = "sent" =>
                send[s].to \in Conversations /\ send[s].images \subseteq Images
<1>1. send[s] \in Send
    OBVIOUS
<1> QED BY <1>1 DEF Send, Unused, Failed, OpenSend

LEMMA KindsDiffer ==
    /\ Unused.pc = "unused" /\ Failed.pc = "failed"
    /\ Unused \in Send /\ Failed \in Send
    /\ \A c \in Conversations, S \in SUBSET Images :
        /\ Open(c, S) \in Send /\ Open(c, S).pc = "open" /\ Open(c, S).to = c
        /\ Open(c, S).uploaded = {} /\ Open(c, S).images = S
        /\ Sent(c, S) \in Send /\ Sent(c, S).pc = "sent" /\ Sent(c, S).to = c
        /\ Sent(c, S).images = S
BY DEF Unused, Failed, Send, Open, Sent

LEMMA InitSInv == Init => SInv
<1> SUFFICES ASSUME Init PROVE SInv
    OBVIOUS
<1>1. FInv
    BY InitFInv DEF Init
<1>2. STypeOK
    BY <1>1, KindsDiffer DEF Init, STypeOK, FInv, Draft, Empty
<1>3. CallsInv
    BY NamedIsAsked, FilesOfCalls, KindsDiffer
       DEF Init, FInit, CallsInv, UploadsFollow, CountedAreDone, SentAreDone
<1> QED BY <1>1, <1>2, <1>3 DEF SInv

\* The calls keep their uploads when the server does something.
LEMMA ServerStep ==
    ASSUME SInv, UNCHANGED cvars, FInv', \A f \in Files : Handled(f)
    PROVE  SInv'
<1>1. STypeOK'
    BY DEF SInv, STypeOK, FInv, cvars
<1>2. UploadsFollow'
    BY FilesOfCalls DEF SInv, CallsInv, UploadsFollow, Handled, cvars, Named, Failed
<1>3. CountedAreDone'
    <2> SUFFICES ASSUME NEW s \in Sends, send[s].pc = "open", NEW i \in send[s].uploaded
                 PROVE  upload'[FileOf(s, i)].pc = "done"
        BY DEF CountedAreDone, cvars
    <2>1. i \in Images
        BY SendKinds DEF SInv, STypeOK
    <2> QED BY <2>1, FilesOfCalls DEF SInv, CallsInv, CountedAreDone, Handled
<1>4. SentAreDone'
    <2> SUFFICES ASSUME NEW s \in Sends, send[s].pc = "sent", NEW i \in send[s].images
                 PROVE  upload'[FileOf(s, i)].pc = "done"
        BY DEF SentAreDone, cvars
    <2>1. i \in Images
        BY SendKinds DEF SInv, STypeOK
    <2> QED BY <2>1, FilesOfCalls DEF SInv, CallsInv, SentAreDone, Handled
<1> QED BY <1>1, <1>2, <1>3, <1>4 DEF SInv, CallsInv

\* What is left to show when the files stay as they are.
LEMMA ClientStep ==
    ASSUME SInv, UNCHANGED fvars, CallsInv',
           route' \in Conversations \cup {Nowhere}, ready' \in BOOLEAN, draft' \in Draft,
           sending' \in BOOLEAN, send' \in [Sends -> Send]
    PROVE  SInv'
<1>1. FInv'
    BY FileStep DEF SInv
<1> QED BY <1>1 DEF SInv, STypeOK, FInv

LEMMA CallsStay ==
    ASSUME SInv, UNCHANGED <<upload, send>>
    PROVE  CallsInv'
BY DEF SInv, CallsInv, UploadsFollow, CountedAreDone, SentAreDone

LEMMA GoStep ==
    ASSUME SInv, NEW c \in Conversations \cup {Nowhere}, Go(c)
    PROVE  SInv'
<1> DEFINE left(s) == [send[s] EXCEPT !.here = FALSE]
<1>1. /\ UNCHANGED fvars /\ route' = c /\ ready' = FALSE /\ draft' = Empty /\ sending' = FALSE
      /\ send' = [s \in Sends |-> IF send[s].pc = "open" THEN left(s) ELSE send[s]]
    BY DEF Go
<1>2. send \in [Sends -> Send] /\ UNCHANGED upload
    BY <1>1 DEF SInv, STypeOK, fvars
<1>3. ASSUME NEW s \in Sends, send[s].pc = "open"
      PROVE  /\ left(s) \in Send /\ left(s).pc = "open" /\ left(s).to = send[s].to
             /\ left(s).uploaded = send[s].uploaded
    <2>1. send[s] \in OpenSend
        BY <1>2, <1>3, SendKinds
    <2>2. ASSUME NEW r \in OpenSend
          PROVE  LET l == [r EXCEPT !.here = FALSE]
                 IN  l \in OpenSend /\ l.pc = "open" /\ l.to = r.to /\ l.uploaded = r.uploaded
        BY DEF OpenSend
    <2> QED BY <2>1, <2>2 DEF Send, OpenSend
<1> HIDE DEF left
<1>4. \A s \in Sends : send'[s] = IF send[s].pc = "open" THEN left(s) ELSE send[s]
    BY <1>1
<1>5. send' \in [Sends -> Send]
    BY <1>1, <1>2, <1>3
<1>6. CallsInv'
    BY <1>2, <1>3, <1>4, KindsDiffer
       DEF SInv, CallsInv, UploadsFollow, CountedAreDone, SentAreDone
<1>7. draft' \in Draft
    BY <1>1 DEF Draft, Empty
<1> QED BY <1>1, <1>5, <1>6, <1>7, ClientStep

LEMMA EditStep ==
    ASSUME SInv,
           \/ \E c \in Conversations \cup {Nowhere} : GoOn(c)
           \/ ReadyChanges \/ InsertText \/ SendNothing
           \/ \E i \in Images : InsertDraftImage(i) \/ RemoveDraftImage(i)
    PROVE  SInv'
<1>0. route \in Conversations \cup {Nowhere} /\ ready \in BOOLEAN /\ draft \in Draft
      /\ sending \in BOOLEAN /\ send \in [Sends -> Send]
    BY DEF SInv, STypeOK
<1>1. UNCHANGED <<send, fvars>>
    BY DEF GoOn, ReadyChanges, InsertText, SendNothing, InsertDraftImage, RemoveDraftImage
<1>2. route' \in Conversations \cup {Nowhere} /\ ready' \in BOOLEAN /\ sending' \in BOOLEAN
    BY <1>0 DEF GoOn, ReadyChanges, InsertText, SendNothing, InsertDraftImage, RemoveDraftImage
<1>3. draft' \in Draft
    <2>1. ASSUME NEW d \in Draft
          PROVE  /\ [d EXCEPT !.text = TRUE] \in Draft
                 /\ \A i \in Images : [d EXCEPT !.images = @ \cup {i}] \in Draft
                 /\ \A i \in Images : [d EXCEPT !.images = @ \ {i}] \in Draft
        BY DEF Draft
    <2>2. Empty \in Draft
        BY DEF Empty, Draft
    <2>3. \/ UNCHANGED draft \/ draft' = Empty
          \/ draft' = [draft EXCEPT !.text = TRUE]
          \/ \E i \in Images : draft' = [draft EXCEPT !.images = @ \cup {i}]
          \/ \E i \in Images : draft' = [draft EXCEPT !.images = @ \ {i}]
        BY DEF GoOn, ReadyChanges, InsertText, SendNothing, InsertDraftImage, RemoveDraftImage
    <2> QED BY <1>0, <2>1, <2>2, <2>3
<1>4. CallsInv'
    BY <1>1, CallsStay DEF fvars
<1> QED BY <1>0, <1>1, <1>2, <1>3, <1>4, ClientStep

LEMMA SendDraftStep ==
    ASSUME SInv, NEW s \in Sends, SendDraft(s)
    PROVE  SInv'
<1> DEFINE new == Open(route, draft.images)
<1>1. /\ send[s] = Unused /\ sending' = TRUE /\ send' = [send EXCEPT ![s] = new]
      /\ UNCHANGED <<route, ready, draft, fvars>>
    BY DEF SendDraft
<1>2. route # Nowhere
    BY DEF SendDraft, MaySend
<1>3. route \in Conversations /\ draft.images \subseteq Images /\ send \in [Sends -> Send]
    BY <1>2 DEF SInv, STypeOK, Draft
<1>4. new \in Send /\ new.pc = "open" /\ new.to = route /\ new.uploaded = {}
    BY <1>3, KindsDiffer
<1> HIDE DEF new
<1>5. send'[s] = new /\ \A t \in Sends \ {s} : send'[t] = send[t]
    BY <1>1, <1>3
<1>6. \A i \in Images : ~Named(upload[FileOf(s, i)])
    BY <1>1, NamedIsAsked DEF SInv, CallsInv, UploadsFollow
<1>7. CallsInv'
    BY <1>1, <1>4, <1>5, <1>6, KindsDiffer
       DEF SInv, CallsInv, UploadsFollow, CountedAreDone, SentAreDone, fvars
<1>8. send' \in [Sends -> Send]
    BY <1>1, <1>3, <1>4
<1> QED BY <1>1, <1>3, <1>7, <1>8, ClientStep DEF SInv, STypeOK

LEMMA UploadImageStep ==
    ASSUME SInv, NEW s \in Sends, NEW i \in Images, UploadImage(s, i)
    PROVE  SInv'
<1> DEFINE new == [pc |-> "check", to |-> send[s].to]
<1>1. /\ send[s].pc = "open" /\ i \in Missing(s)
      /\ SaveEncryptedFile(FileOf(s, i), send[s].to) /\ UNCHANGED cvars
    BY DEF UploadImage
<1>2. send \in [Sends -> Send] /\ upload \in [Files -> Upload]
    BY DEF SInv, STypeOK, FTypeOK
<1>3. send[s].to \in Conversations /\ FileOf(s, i) \in Files
    BY <1>1, <1>2, SendKinds, FilesOfCalls
<1>4. FInv'
    BY <1>1, <1>3, SaveFInv DEF SInv
<1>5. upload[FileOf(s, i)] = NotAsked /\ upload' = [upload EXCEPT ![FileOf(s, i)] = new]
    BY <1>1 DEF SaveEncryptedFile
<1>6. new.to = send[s].to
    OBVIOUS
<1> HIDE DEF new
<1>7. /\ upload'[FileOf(s, i)] = new
      /\ \A f \in Files \ {FileOf(s, i)} : upload'[f] = upload[f]
    BY <1>2, <1>3, <1>5
<1>8. UNCHANGED send
    BY <1>1 DEF cvars
<1>9. UploadsFollow'
    <2> SUFFICES ASSUME NEW t \in Sends, NEW j \in Images
                 PROVE  /\ send[t] = Unused => upload'[FileOf(t, j)] = NotAsked
                        /\ send[t].pc \in {"open", "sent"} /\ Named(upload'[FileOf(t, j)]) =>
                            upload'[FileOf(t, j)].to = send[t].to
        BY <1>8 DEF UploadsFollow, Named
    <2>1. CASE t = s /\ j = i
        BY <1>1, <1>6, <1>7, <2>1, KindsDiffer
    <2>2. CASE ~(t = s /\ j = i)
        <3>1. FileOf(t, j) \in Files \ {FileOf(s, i)}
            BY <2>2, FilesOfCalls
        <3> QED BY <1>7, <3>1 DEF SInv, CallsInv, UploadsFollow
    <2> QED BY <2>1, <2>2
<1>10. ASSUME NEW t \in Sends, NEW j \in Images, upload[FileOf(t, j)].pc = "done"
       PROVE  upload'[FileOf(t, j)].pc = "done"
    <2>1. FileOf(t, j) # FileOf(s, i)
        BY <1>5, <1>10, NamedIsAsked
    <2> QED BY <1>7, <1>10, <2>1, FilesOfCalls
<1>11. CountedAreDone' /\ SentAreDone'
    BY <1>2, <1>8, <1>10, SendKinds DEF SInv, CallsInv, CountedAreDone, SentAreDone
<1>12. STypeOK'
    BY <1>1, <1>4 DEF SInv, STypeOK, FInv, cvars
<1> QED BY <1>4, <1>9, <1>11, <1>12 DEF SInv, CallsInv

LEMMA UploadAnsweredStep ==
    ASSUME SInv, NEW s \in Sends, NEW i \in Images, UploadAnswered(s, i)
    PROVE  SInv'
<1> DEFINE new == [send[s] EXCEPT !.uploaded = @ \cup {i}]
           to == send[s].to
           uploaded == send[s].uploaded
<1>1. /\ send[s].pc = "open" /\ upload[FileOf(s, i)].pc = "done"
      /\ send' = [send EXCEPT ![s] = new]
      /\ UNCHANGED <<route, ready, draft, sending, fvars>>
    BY DEF UploadAnswered
<1>2. send \in [Sends -> Send]
    BY DEF SInv, STypeOK
<1>3. ASSUME NEW r \in OpenSend
      PROVE  LET n == [r EXCEPT !.uploaded = @ \cup {i}]
             IN  n \in OpenSend /\ n.pc = "open" /\ n.to = r.to /\ n.uploaded = r.uploaded \cup {i}
    BY DEF OpenSend
<1>4. new \in Send /\ new.pc = "open" /\ new.to = to /\ new.uploaded = uploaded \cup {i}
    <2>1. send[s] \in OpenSend
        BY <1>1, <1>2, SendKinds
    <2> QED BY <1>3, <2>1 DEF Send, OpenSend
<1> HIDE DEF new
<1>5. send'[s] = new /\ \A t \in Sends \ {s} : send'[t] = send[t]
    BY <1>1, <1>2
<1>6. send' \in [Sends -> Send] /\ UNCHANGED upload
    BY <1>1, <1>2, <1>4 DEF fvars
<1>7. UploadsFollow'
    BY <1>1, <1>4, <1>5, <1>6, KindsDiffer DEF SInv, CallsInv, UploadsFollow, Named
<1>8. CountedAreDone' /\ SentAreDone'
    BY <1>1, <1>4, <1>5, <1>6 DEF SInv, CallsInv, CountedAreDone, SentAreDone
<1> QED BY <1>1, <1>6, <1>7, <1>8, ClientStep DEF SInv, STypeOK, CallsInv

\* What an end of a call leaves behind.
LEMMA EndStep ==
    ASSUME SInv, NEW s \in Sends, NEW end \in Send, End(s, end),
           \/ end = Failed
           \/ end.pc = "sent" /\ end.to = send[s].to /\ end.images = send[s].images
              /\ send[s].pc = "open" /\ Missing(s) = {}
    PROVE  SInv'
<1>1. send' = [send EXCEPT ![s] = end] /\ UNCHANGED <<route, ready, fvars>>
      /\ (draft' = Empty \/ UNCHANGED draft) /\ (sending' = FALSE \/ UNCHANGED sending)
    BY DEF End
<1>2. send \in [Sends -> Send]
    BY DEF SInv, STypeOK
<1>3. send'[s] = end /\ \A t \in Sends \ {s} : send'[t] = send[t]
    BY <1>1, <1>2
<1>4. send' \in [Sends -> Send] /\ UNCHANGED upload
    BY <1>1, <1>2 DEF fvars
<1>5. ASSUME end = Failed PROVE CallsInv'
    BY <1>3, <1>4, <1>5, KindsDiffer
       DEF SInv, CallsInv, UploadsFollow, CountedAreDone, SentAreDone
<1>6. ASSUME end.pc = "sent", end.to = send[s].to, end.images = send[s].images,
             send[s].pc = "open", Missing(s) = {}
      PROVE  CallsInv'
    <2>1. \A i \in end.images : upload[FileOf(s, i)].pc = "done"
        BY <1>6 DEF Missing, SInv, CallsInv, CountedAreDone
    <2>2. UploadsFollow'
        BY <1>3, <1>4, <1>6, KindsDiffer DEF SInv, CallsInv, UploadsFollow, Named
    <2>3. CountedAreDone' /\ SentAreDone'
        BY <1>3, <1>4, <1>6, <2>1 DEF SInv, CallsInv, CountedAreDone, SentAreDone
    <2> QED BY <2>2, <2>3 DEF CallsInv
<1>7. draft' \in Draft /\ sending' \in BOOLEAN
    <2>1. Empty \in Draft
        BY DEF Empty, Draft
    <2> QED BY <1>1, <2>1 DEF SInv, STypeOK
<1> QED BY <1>1, <1>4, <1>5, <1>6, <1>7, ClientStep DEF SInv, STypeOK, CallsInv

LEMMA NextSInv == SInv /\ [Next]_vars => SInv'
<1> SUFFICES ASSUME SInv, [Next]_vars PROVE SInv'
    OBVIOUS
<1>1. CASE UNCHANGED vars
    <2>1. CallsInv'
        BY <1>1, CallsStay DEF vars, fvars, cvars
    <2> QED BY <1>1, <2>1, ClientStep DEF vars, cvars, SInv, STypeOK
<1>2. ASSUME NEW c \in Conversations \cup {Nowhere}, Go(c) PROVE SInv'
    BY <1>2, GoStep
<1>3. CASE \/ \E c \in Conversations \cup {Nowhere} : GoOn(c)
           \/ ReadyChanges \/ InsertText \/ SendNothing
           \/ \E i \in Images : InsertDraftImage(i) \/ RemoveDraftImage(i)
    BY <1>3, EditStep
<1>4. ASSUME NEW s \in Sends, SendDraft(s) PROVE SInv'
    BY <1>4, SendDraftStep
<1>5. ASSUME NEW s \in Sends, Sending(s) PROVE SInv'
    <2>1. CASE \E i \in Images : UploadImage(s, i) \/ UploadAnswered(s, i)
        BY <2>1, UploadImageStep, UploadAnsweredStep
    <2>2. CASE Emit(s)
        <3>1. send[s].to \in Conversations /\ send[s].images \subseteq Images
            BY <2>2, SendKinds DEF Emit, SInv, STypeOK
        <3> QED BY <2>2, <3>1, KindsDiffer, EndStep DEF Emit
    <2>3. CASE SendFails(s)
        BY <2>3, KindsDiffer, EndStep DEF SendFails
    <2> QED BY <1>5, <2>1, <2>2, <2>3 DEF Sending
<1>6. ASSUME NEW f \in Files, Handle(f), UNCHANGED cvars PROVE SInv'
    BY <1>6, HandleStep, ServerStep DEF SInv
<1>7. CASE AccessChanges /\ UNCHANGED cvars
    <2>1. FInv' /\ UNCHANGED upload
        BY <1>7, AccessStep DEF SInv
    <2>2. \A f \in Files : Handled(f)
        BY <2>1 DEF Handled
    <2> QED BY <1>7, <2>1, <2>2, ServerStep
<1> QED BY <1>1, <1>2, <1>3, <1>4, <1>5, <1>6, <1>7 DEF Next

THEOREM SendingInvariant == Spec => []SInv
BY InitSInv, NextSInv, PTL DEF Spec

-----------------------------------------------------------------------------
(* The theorems. *)

\* Every variable has its type.
THEOREM SendingTypeCorrect == Spec => []STypeOK
BY SendingInvariant, PTL DEF SInv

\* A row of encrypted_files never names a file that is not on the disk.
THEOREM RowsHaveFiles == Spec => []RowHasFile
BY SendingInvariant, PTL DEF SInv, FInv

\* Whoever a sent message is addressed to can open all of its images.
THEOREM SentMessagesShow == Spec => []SentImagesOpen
<1>1. SInv => SentImagesOpen
    <2> SUFFICES ASSUME SInv, NEW s \in Sends, send[s].pc = "sent",
                        NEW u \in Recipients(send[s].to), NEW i \in send[s].images
                 PROVE  Opens(u, FileOf(s, i))
        BY DEF SentImagesOpen, Shows
    <2> DEFINE f == FileOf(s, i)
               c == send[s].to
    <2>1. c \in Conversations /\ i \in Images /\ f \in Files
        BY SendKinds, FilesOfCalls DEF SInv, STypeOK
    <2>2. upload[f].pc = "done" /\ upload[f].to = c
        BY <2>1 DEF SInv, CallsInv, SentAreDone, UploadsFollow, Named
    <2>3. row[f] = c \/ (c \in Groups /\ members[c] = {})
        BY <2>1, <2>2 DEF SInv, FInv, Addressed, Live
    <2>4. row[f] = c
        BY <2>3 DEF Recipients
    <2>5. f \in disk /\ c # NoRow
        BY <2>1, <2>2, FilesAssumption DEF SInv, FInv, Placed
    <2> QED BY <2>1, <2>4, <2>5 DEF Opens, MayRead, Recipients
<1> QED BY <1>1, SendingInvariant, PTL

\* The composer uses the server as EncryptedFiles says, and nothing but that.
THEOREM SendingImplementsFiles == Spec => FSpec
<1>1. Init => FInit
    BY DEF Init
<1>2. SInv /\ [Next]_vars => [FNext]_fvars
    <2> SUFFICES ASSUME SInv, [Next]_vars PROVE FNext \/ UNCHANGED fvars
        OBVIOUS
    <2>1. ASSUME NEW s \in Sends, NEW i \in Images, UploadImage(s, i) PROVE FNext
        <3>1. FileOf(s, i) \in Files /\ send[s].to \in Conversations
            BY <2>1, FilesOfCalls, SendKinds DEF UploadImage, SInv, STypeOK
        <3> QED BY <2>1, <3>1 DEF UploadImage, FNext
    <2>2. CASE UNCHANGED vars
        BY <2>2 DEF vars
    <2>3. ASSUME NEW s \in Sends, Sending(s) PROVE FNext \/ UNCHANGED fvars
        BY <2>1, <2>3 DEF Sending, UploadAnswered, Emit, SendFails, End
    <2>4. CASE \/ \E c \in Conversations \cup {Nowhere} : GoOn(c) \/ Go(c)
               \/ ReadyChanges \/ InsertText \/ SendNothing
               \/ \E i \in Images : InsertDraftImage(i) \/ RemoveDraftImage(i)
               \/ \E s \in Sends : SendDraft(s)
        BY <2>4 DEF GoOn, Go, ReadyChanges, InsertText, SendNothing, InsertDraftImage,
           RemoveDraftImage, SendDraft
    <2>5. ASSUME (\E f \in Files : Handle(f)) \/ AccessChanges PROVE FNext
        BY <2>5 DEF FNext
    <2> QED BY <2>2, <2>3, <2>4, <2>5 DEF Next
<1> QED BY <1>1, <1>2, SendingInvariant, PTL DEF Spec, FSpec

=============================================================================

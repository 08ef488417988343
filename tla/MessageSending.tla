---------------------------- MODULE MessageSending ----------------------------
(***************************************************************************)
(* The composer of the chat pages (ChatComposer.tsx), the preparation of a *)
(* message with its images (composerMessages.ts) and sendMessage of        *)
(* ChatPage.tsx and GroupChatPage.tsx, composed with the uploads of        *)
(* EncryptedFiles.  A draft is whether it has text, and its images; images *)
(* are uploaded one after the other, and the message that is emitted names *)
(* their files.                                                            *)
(*                                                                         *)
(* The page stays mounted, with its composer, when the address changes     *)
(* between two groups or two friends, and is another one when it changes   *)
(* between a friend and a group; a sendMessage that waits for an upload    *)
(* goes on in both cases, for the conversation it was called for.          *)
(***************************************************************************)
EXTENDS EncryptedFiles

CONSTANTS
    Images,
    Sends,          \* calls of sendMessage
    Nowhere         \* no chat page is open

ASSUME SendsAssumption ==
    /\ Files = Sends \X Images
    /\ Nowhere \notin Conversations

VARIABLES
    route,          \* the conversation in the address
    ready,          \* not disabled: socket, and group key or friend, are there
    draft,          \* the editor
    sending,        \* the composer's state of that name
    send            \* the calls of sendMessage

cvars == <<route, ready, draft, sending, send>>
vars == <<fvars, cvars>>

Empty == [text |-> FALSE, images |-> {}]
Draft == [text : BOOLEAN, images : SUBSET Images]

Unused == [pc |-> "unused"]

\* A bug: a call that does not know where it is going.
OpenUnaddressed(c, images) ==
    [pc |-> "open", to |-> Nowhere, images |-> images, uploaded |-> {}, here |-> TRUE]

Open(c, images) ==
    [pc |-> "open", to |-> c, images |-> images, uploaded |-> {}, here |-> TRUE]
Sent(c, images) == [pc |-> "sent", to |-> c, images |-> images]

Send == {Unused, Failed}
    \cup [pc : {"open"}, to : Conversations, images : SUBSET Images,
          uploaded : SUBSET Images, here : BOOLEAN]
    \cup [pc : {"sent"}, to : Conversations, images : SUBSET Images]

STypeOK ==
    /\ FTypeOK
    /\ route \in Conversations \cup {Nowhere}
    /\ ready \in BOOLEAN
    /\ draft \in Draft
    /\ sending \in BOOLEAN
    /\ send \in [Sends -> Send]

Init ==
    /\ FInit
    /\ route = Nowhere
    /\ ready = FALSE
    /\ draft = Empty
    /\ sending = FALSE
    /\ send = [s \in Sends |-> Unused]

-----------------------------------------------------------------------------
(* The page. *)

SamePage(c, d) == {c, d} \subseteq Groups \/ {c, d} \subseteq Others

\* Between two groups or two friends the composer stays as it is.
GoOn(c) ==
    /\ c # route /\ SamePage(route, c)
    /\ route' = c
    /\ UNCHANGED <<ready, draft, sending, send, fvars>>

\* Otherwise the composer is unmounted and a new one, if any, starts empty.
Go(c) ==
    /\ c # route /\ ~SamePage(route, c)
    /\ route' = c
    /\ ready' = FALSE /\ draft' = Empty /\ sending' = FALSE
    /\ send' = [s \in Sends |->
                    IF send[s].pc = "open" THEN [send[s] EXCEPT !.here = FALSE] ELSE send[s]]
    /\ UNCHANGED fvars

\* Socket and group key, or list of friends, come and go.
ReadyChanges ==
    /\ route # Nowhere
    /\ ready' = ~ready
    /\ UNCHANGED <<route, draft, sending, send, fvars>>

-----------------------------------------------------------------------------
(* The editor. *)

\* Typing and emoji wait for the editor to be enabled; the effect that
\* inserts a mention or a quotation does not.
InsertText ==
    /\ route # Nowhere
    /\ draft' = [draft EXCEPT !.text = TRUE]
    /\ UNCHANGED <<route, ready, sending, send, fvars>>

\* Pasting waits for the editor to be enabled; a file dialog that was opened
\* before does not.
InsertDraftImage(i) ==
    /\ route # Nowhere
    /\ draft' = [draft EXCEPT !.images = @ \cup {i}]
    /\ UNCHANGED <<route, ready, sending, send, fvars>>

\* The button on the image works whenever it is shown.
RemoveDraftImage(i) ==
    /\ i \in draft.images
    /\ draft' = [draft EXCEPT !.images = @ \ {i}]
    /\ UNCHANGED <<route, ready, sending, send, fvars>>

-----------------------------------------------------------------------------
(* Sending. *)

\* The button and the editor are disabled while a message is sent or nothing
\* is ready; Enter on the button of an image is not, and sendDraft does not
\* look at either itself.
MaySend ==
    /\ route # Nowhere /\ draft # Empty
    /\ (ready /\ ~sending) \/ draft.images # {}

\* The images as they are now go to the conversation of now.
SendDraft(s) ==
    /\ send[s] = Unused
    /\ MaySend /\ ready
    /\ sending' = TRUE
    /\ send' = [send EXCEPT ![s] = Open(route, draft.images)]
    /\ UNCHANGED <<route, ready, draft, fvars>>

\* sendMessage returns at once when nothing is ready, and the draft goes.
SendNothing ==
    /\ MaySend /\ ~ready
    /\ draft' = Empty /\ sending' = FALSE
    /\ UNCHANGED <<route, ready, send, fvars>>

Missing(s) == send[s].images \ send[s].uploaded

\* An image is encrypted under a key of its own: it has a new file in each call.
FileOf(s, i) == <<s, i>>

Asked(s) == \E i \in Missing(s) : upload[FileOf(s, i)] # NotAsked

\* A bug: the upload is addressed to the conversation shown now.
UploadWhereShown(s, i) ==
    /\ send[s].pc = "open"
    /\ i \in Missing(s)
    /\ ~Asked(s)
    /\ route # Nowhere
    /\ SaveEncryptedFile(FileOf(s, i), route)
    /\ UNCHANGED cvars

\* uploadImage of the next part, once the one before it was answered.
UploadImage(s, i) ==
    /\ send[s].pc = "open"
    /\ i \in Missing(s)
    /\ ~Asked(s)
    /\ SaveEncryptedFile(FileOf(s, i), send[s].to)
    /\ UNCHANGED cvars

UploadAnswered(s, i) ==
    /\ send[s].pc = "open"
    /\ i \in Missing(s)
    /\ upload[FileOf(s, i)].pc = "done"
    /\ send' = [send EXCEPT ![s].uploaded = @ \cup {i}]
    /\ UNCHANGED <<route, ready, draft, sending, fvars>>

\* A bug: the composer is enabled again only when the draft was sent.
EndOnlySent(s, end) ==
    /\ send' = [send EXCEPT ![s] = end]
    /\ IF send[s].here /\ end # Failed THEN draft' = Empty /\ sending' = FALSE
                                        ELSE UNCHANGED <<draft, sending>>
    /\ UNCHANGED <<route, ready, fvars>>

\* The end of sendDraft, sent or not: the page has caught the error, so the
\* editor is cleared either way, whatever is in it by now.
End(s, end) ==
    /\ send' = [send EXCEPT ![s] = end]
    /\ IF send[s].here THEN draft' = Empty /\ sending' = FALSE
                       ELSE UNCHANGED <<draft, sending>>
    /\ UNCHANGED <<route, ready, fvars>>

\* Every image has its file: the envelope is encrypted and emitted.
Emit(s) ==
    /\ send[s].pc = "open"
    /\ Missing(s) = {}
    /\ End(s, Sent(send[s].to, send[s].images))

\* An upload or its answer is lost, or is an error; whatever else throws.
SendFails(s) ==
    /\ send[s].pc = "open"
    /\ End(s, Failed)

-----------------------------------------------------------------------------
Sending(s) ==
    \/ \E i \in Images : UploadImage(s, i) \/ UploadAnswered(s, i)
    \/ Emit(s)
    \/ SendFails(s)

Next ==
    \/ \E c \in Conversations \cup {Nowhere} : GoOn(c) \/ Go(c)
    \/ ReadyChanges
    \/ InsertText
    \/ \E i \in Images : InsertDraftImage(i) \/ RemoveDraftImage(i)
    \/ SendNothing
    \/ \E s \in Sends : SendDraft(s) \/ Sending(s)
    \/ \E f \in Files : Handle(f) /\ UNCHANGED cvars
    \/ AccessChanges /\ UNCHANGED cvars

Spec == Init /\ [][Next]_vars

\* A call of sendMessage goes on: its requests are answered or fail.
FairSpec == Spec /\ \A s \in Sends : WF_vars(Sending(s))

-----------------------------------------------------------------------------
\* Whom a message is encrypted for, besides its sender.
Recipients(c) == IF c \in Groups THEN members[c] ELSE {c}

\* renderPlainMessage: the message is shown if all of its images are.
Shows(u, s) == \A i \in send[s].images : Opens(u, FileOf(s, i))

(* Everyone a message is addressed to can open every image its sender had  *)
(* put in, whatever page the sender went to while the images were being    *)
(* uploaded and whoever joined since: the files are all there, and are     *)
(* addressed to the conversation of the message.                           *)
SentImagesOpen ==
    \A s \in Sends : send[s].pc = "sent" =>
        \A u \in Recipients(send[s].to) : Shows(u, s)

(* The composer that is disabled while it sends is enabled again, or left, *)
(* whatever becomes of the uploads.                                        *)
SendingEnds == sending ~> ~sending

=============================================================================

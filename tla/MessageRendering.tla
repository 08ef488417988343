--------------------------- MODULE MessageRendering ---------------------------
(***************************************************************************)
(* How a chat page (GroupChatPage.tsx, and ChatPage.tsx in the same words) *)
(* turns envelopes into what is on the screen: an effect that runs again   *)
(* on every change of its inputs, decrypts each message and downloads its  *)
(* image, and shows the list when all of them are done.  Runs overlap:     *)
(* nothing stops the downloads of one that was superseded.  An image is    *)
(* shown through an object URL, which the cleanup of its run revokes.      *)
(***************************************************************************)
EXTENDS Naturals

CONSTANTS
    Messages,       \* messages with an image
    MaxRuns         \* bounds the changes a page sees

ASSUME RenderingAssumption == MaxRuns \in Nat

Runs == 0 .. MaxRuns

VARIABLES
    inputs,         \* what the effect depends on
    latest,         \* the run of the effect that is not cancelled
    task,           \* each run: what it was started with and how far it is
    rendered,       \* what is on the screen
    urls            \* object URLs that work, named by run and message

vars == <<inputs, latest, task, rendered, urls>>

\* The page is open and has its friend or group; there is a key; envelopes.
Inputs == [open : BOOLEAN, key : BOOLEAN, envelopes : SUBSET Messages]
Closed == [open |-> FALSE, key |-> FALSE, envelopes |-> {}]

Views == {"none", "encrypted", "failed", "decrypted"}
Rendered == [Messages -> Views]
Nothing == [m \in Messages |-> "none"]

\* A run: the messages whose image it awaits, and the views it has.
Task == [pc : {"unused", "rendering", "over"}, todo : SUBSET Messages, views : Rendered]

TypeOK ==
    /\ inputs \in Inputs
    /\ latest \in Runs
    /\ task \in [Runs -> Task]
    /\ rendered \in Rendered
    /\ urls \subseteq Runs \X Messages

Unused == [pc |-> "unused", todo |-> {}, views |-> Nothing]
Over == [pc |-> "over", todo |-> {}, views |-> Nothing]

Init ==
    /\ inputs = Closed
    /\ latest = 0
    /\ task = [n \in Runs |-> IF n = 0 THEN Over ELSE Unused]
    /\ rendered = Nothing
    /\ urls = {}

-----------------------------------------------------------------------------
\* A bug: the list has only what is being awaited.
StartedUnviewed(i) ==
    [pc |-> "rendering",
     todo |-> IF i.key THEN i.envelopes ELSE {},
     views |-> [m \in i.envelopes |-> IF i.key THEN "none" ELSE "encrypted"]]

\* Without a key every envelope is shown as one; otherwise images are awaited.
Started(i) ==
    [pc |-> "rendering",
     todo |-> IF i.key THEN i.envelopes ELSE {},
     views |-> [m \in Messages |->
                    IF m \in i.envelopes /\ ~i.key THEN "encrypted" ELSE "none"]]

\* The cleanup revokes the URLs the run has made so far.
Revoked(n) == {u \in urls : u[1] = n}

\* An input changes or is replaced by an equal object, or the page is closed:
\* the run is cancelled, its cleanup runs, and the effect runs again.  Without
\* a friend or group there is nothing to await.
Change(i) ==
    /\ latest < MaxRuns
    /\ inputs' = i
    /\ latest' = latest + 1
    /\ urls' = urls \ Revoked(latest)
    /\ IF i.open
       THEN /\ task' = [task EXCEPT ![latest + 1] = Started(i)]
            /\ UNCHANGED rendered
       ELSE /\ task' = [task EXCEPT ![latest + 1] = Over]
            /\ rendered' = Nothing

Settle(n, m, view) ==
    /\ task[n].pc = "rendering" /\ m \in task[n].todo
    /\ task' = [task EXCEPT ![n].todo = @ \ {m}, ![n].views[m] = view]
    /\ UNCHANGED <<inputs, latest, rendered>>

\* The image is there and decrypted; whether the run is cancelled is not asked.
ImageArrives(n, m) ==
    /\ Settle(n, m, "decrypted")
    /\ urls' = urls \cup {<<n, m>>}

\* A bug: nobody catches the error of an image, and its run ends without a result.
FailUncaught(n, m) ==
    /\ task[n].pc = "rendering" /\ m \in task[n].todo
    /\ task' = [task EXCEPT ![n].pc = "over"]
    /\ UNCHANGED <<inputs, latest, rendered, urls>>

\* The download or the decryption fails, which the view of the message says.
ImageFails(n, m) ==
    /\ Settle(n, m, "failed")
    /\ UNCHANGED urls

\* A bug: the result of a cancelled run is shown.
ShowAnyway(n) ==
    /\ task[n].pc = "rendering" /\ task[n].todo = {}
    /\ task' = [task EXCEPT ![n].pc = "over"]
    /\ rendered' = task[n].views
    /\ UNCHANGED <<inputs, latest, urls>>

\* A bug: a run that was cancelled revokes what the page has.
ShowAndCleanUp(n) ==
    /\ task[n].pc = "rendering" /\ task[n].todo = {}
    /\ task' = [task EXCEPT ![n].pc = "over"]
    /\ IF n = latest THEN rendered' = task[n].views /\ UNCHANGED urls
                     ELSE urls' = {} /\ UNCHANGED rendered
    /\ UNCHANGED <<inputs, latest>>

\* All views are there: they are shown, unless the run was cancelled.
Show(n) ==
    /\ task[n].pc = "rendering" /\ task[n].todo = {}
    /\ task' = [task EXCEPT ![n].pc = "over"]
    /\ rendered' = IF n = latest THEN task[n].views ELSE rendered
    /\ UNCHANGED <<inputs, latest, urls>>

Go(n) == Show(n) \/ \E m \in Messages : ImageArrives(n, m) \/ ImageFails(n, m)

Next ==
    \/ \E i \in Inputs : Change(i)
    \/ \E n \in Runs : Go(n)

Spec == Init /\ [][Next]_vars

\* Downloads are answered or fail.
FairSpec == Spec /\ \A n \in Runs : WF_vars(Go(n))

-----------------------------------------------------------------------------
Rendering == task[latest].pc = "rendering"

Expected(m) ==
    IF ~inputs.open \/ m \notin inputs.envelopes THEN {"none"}
    ELSE IF inputs.key THEN {"decrypted", "failed"} ELSE {"encrypted"}

Current == \A m \in Messages : rendered[m] \in Expected(m)

(* When the effect has come to rest, the screen shows the page as it is:    *)
(* the messages of the conversation that is open, none of one left before   *)
(* and none recalled since, and none decrypted that has no key any more,    *)
(* however late the downloads of earlier runs are.                          *)
ScreenIsCurrent == ~Rendering => Current

(* And the images it shows are there: no cleanup of another run takes the   *)
(* URL of an image on the screen.                                           *)
ShownImagesWork ==
    ~Rendering => \A m \in Messages :
        rendered[m] = "decrypted" => <<latest, m>> \in urls

(* Everything gets to the screen, or the inputs change: a message that      *)
(* cannot be decrypted or downloaded does not keep the others from it.      *)
ScreenSettles == \A n \in Runs : (latest = n) ~> (latest # n \/ (~Rendering /\ Current))

=============================================================================

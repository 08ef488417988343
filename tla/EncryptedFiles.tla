---------------------------- MODULE EncryptedFiles ----------------------------
(***************************************************************************)
(* Encrypted image files at the server (files.service.ts): the upload      *)
(* directory, the table encrypted_files, and the uploads of one person     *)
(* being handled.  Uploads check friendship or membership, write the file  *)
(* and insert its row, with an await after each; friendships, memberships  *)
(* and groups change in between.  What is in a file, and the key and hash  *)
(* that travel beside it, are opaque.                                      *)
(***************************************************************************)
CONSTANTS
    Me,             \* who uploads
    Others,         \* the other users
    Groups,
    Files,          \* ids that randomUUID may draw, one for each upload
    NoRow

Users == {Me} \cup Others

\* Who or what a message and its files are addressed to.
Conversations == Groups \cup Others

ASSUME FilesAssumption ==
    /\ Me \notin Others /\ Groups \cap Others = {}
    /\ NoRow \notin Conversations

VARIABLES
    members,        \* table group_members; a group without any is deleted
    friends,        \* those whose friendship with Me has a row
    disk,           \* the files in the upload directory
    row,            \* table encrypted_files: what each file is addressed to
    upload          \* the requests of Me to POST /files/encrypted

access == <<members, friends>>
fvars == <<members, friends, disk, row, upload>>

NotAsked == [pc |-> "none"]
Failed == [pc |-> "failed"]
Upload == {NotAsked, Failed} \cup
    [pc : {"check", "write", "create", "done"}, to : Conversations]

FTypeOK ==
    /\ members \in [Groups -> SUBSET Users]
    /\ friends \subseteq Others
    /\ disk \subseteq Files
    /\ row \in [Files -> Conversations \cup {NoRow}]
    /\ upload \in [Files -> Upload]

FInit ==
    /\ members = [g \in Groups |-> Users]
    /\ friends = Others
    /\ disk = {}
    /\ row = [f \in Files |-> NoRow]
    /\ upload = [f \in Files |-> NotAsked]

-----------------------------------------------------------------------------
(* Access. *)

Live(g) == members[g] # {}

\* assertWriteAccess: direct files go to friends, group files to one's groups.
MayWrite(c) == IF c \in Groups THEN Me \in members[c] ELSE c \in friends

\* assertReadAccess: the owner, the friend addressed, or the group's members.
MayRead(u, f) ==
    \/ u = Me
    \/ row[f] = u
    \/ row[f] \in Groups /\ u \in members[row[f]]

\* openEncryptedFile: a row, access, and a file to stream.
Opens(u, f) == row[f] # NoRow /\ MayRead(u, f) /\ f \in disk

-----------------------------------------------------------------------------
(* Uploads. *)

Proceed(f, from, to) ==
    /\ upload[f].pc = from
    /\ upload' = [upload EXCEPT ![f].pc = to]

\* The request arrives.
SaveEncryptedFile(f, c) ==
    /\ upload[f] = NotAsked
    /\ upload' = [upload EXCEPT ![f] = [pc |-> "check", to |-> c]]
    /\ UNCHANGED <<members, friends, disk, row>>

AssertWriteAccess(f) ==
    /\ Proceed(f, "check", "write")
    /\ MayWrite(upload[f].to)
    /\ UNCHANGED <<members, friends, disk, row>>

\* A bug: the row is inserted first.
WriteRowFirst(f) ==
    /\ Proceed(f, "write", "create")
    /\ row' = [row EXCEPT ![f] = upload[f].to]
    /\ UNCHANGED <<members, friends, disk>>

WriteFile(f) ==
    /\ Proceed(f, "write", "create")
    /\ disk' = disk \cup {f}
    /\ UNCHANGED <<members, friends, row>>

\* The foreign key refuses a row of a group that is gone.
CreateRow(f) ==
    /\ Proceed(f, "create", "done")
    /\ upload[f].to \in Groups => Live(upload[f].to)
    /\ row' = [row EXCEPT ![f] = upload[f].to]
    /\ UNCHANGED <<members, friends, disk>>

\* Access is refused, the disk is full, a query fails, the server restarts:
\* what was done so far stays, and nobody cleans it up.
Throw(f) ==
    /\ upload[f].pc \in {"check", "write", "create"}
    /\ upload' = [upload EXCEPT ![f] = Failed]
    /\ UNCHANGED <<members, friends, disk, row>>

-----------------------------------------------------------------------------
(* What other handlers do to friendships, memberships and groups. *)

Befriend(u) ==
    /\ friends' = friends \cup {u}
    /\ UNCHANGED <<members, disk, row, upload>>

Unfriend(u) ==
    /\ friends' = friends \ {u}
    /\ UNCHANGED <<members, disk, row, upload>>

Admit(u, g) ==
    /\ Live(g)
    /\ members' = [members EXCEPT ![g] = @ \cup {u}]
    /\ UNCHANGED <<friends, disk, row, upload>>

\* The owner stays: somebody is left.
Remove(u, g) ==
    /\ members[g] # {u}
    /\ members' = [members EXCEPT ![g] = @ \ {u}]
    /\ UNCHANGED <<friends, disk, row, upload>>

\* Rows go with the group, files stay.
DeleteGroup(g) ==
    /\ Live(g)
    /\ members' = [members EXCEPT ![g] = {}]
    /\ row' = [f \in Files |-> IF row[f] = g THEN NoRow ELSE row[f]]
    /\ UNCHANGED <<friends, disk, upload>>

AccessChanges ==
    \/ \E u \in Others : Befriend(u) \/ Unfriend(u)
    \/ \E g \in Groups : DeleteGroup(g)
    \/ \E u \in Users, g \in Groups : Admit(u, g) \/ Remove(u, g)

Handle(f) == AssertWriteAccess(f) \/ WriteFile(f) \/ CreateRow(f) \/ Throw(f)

FNext ==
    \/ \E f \in Files, c \in Conversations : SaveEncryptedFile(f, c)
    \/ \E f \in Files : Handle(f)
    \/ AccessChanges

FSpec == FInit /\ [][FNext]_fvars

-----------------------------------------------------------------------------
(* The file is written before its row is inserted, so that whatever fails  *)
(* or is deleted in between, a row never names a file that is not there    *)
(* (openEncryptedFile streams it without looking).                         *)
RowHasFile == \A f \in Files : row[f] # NoRow => f \in disk

=============================================================================

------------------------------ MODULE Migration ------------------------------
(***************************************************************************)
(* Encrypting the file of a plain text project in place:                   *)
(* MigratePlaintextToEncrypted (internal/db/encryption.go), called by      *)
(* EncryptProjectAtRest (internal/desktop/app_projects.go), which does not *)
(* hold the application's lock for it.                                     *)
(*                                                                         *)
(* One project, the three names it has in its folder, and the calls that   *)
(* encrypt it, each a sequence of file operations any of which can fail,   *)
(* or be the last before the process dies.  Names refer to files: a call   *)
(* that opened a file keeps it when the name is removed or replaced.  The  *)
(* copy that becomes the backup has a name no other call uses until it is  *)
(* renamed, so it is kept with the call.                                   *)
(***************************************************************************)
EXTENDS FiniteSets, Naturals

CONSTANTS
    Calls,        \* the processes, or bound calls, that may encrypt the project
    MaxRunning,   \* bound: how many of them at once
    Files,        \* files of the folder (bound)
    NoFile        \* no file has that name

ASSUME FilesAssumption == NoFile \notin Files
ASSUME CallsAssumption == IsFiniteSet(Calls) /\ MaxRunning \in Nat

VARIABLES
    content,      \* what each file holds
    path,         \* the file named <project>.pmforge
    tmp,          \* ... .encrypted.tmp
    bak,          \* ... .pre-encryption.bak
    call          \* where each call is

vars == <<content, path, tmp, bak, call>>

\* legacy: the project, in plain text, in an older schema; plain: ... in the
\* current schema; empty: a new file; part: an export that is not finished;
\* blank: an encrypted database without the project's data; cipher: the
\* project, encrypted.
Content == {"legacy", "plain", "empty", "part", "blank", "cipher"}

PlainText == {"legacy", "plain"}
Whole == {"legacy", "plain", "cipher"}

\* attached is the file a call exports to; copy what its copy of the source
\* holds; published says that the copy is the backup now; returned is what the
\* previous use of the call came to.
Call ==
    [at        : {"idle", "clear", "open", "attach", "export", "exporting",
                  "verify", "copy", "rename", "publish"},
     attached  : Files \cup {NoFile},
     copy      : Content \cup {"none"},
     published : BOOLEAN,
     returned  : {"none", "encrypted", "error", "crashed"}]

Idle(result) ==
    [at |-> "idle", attached |-> NoFile, copy |-> "none", published |-> FALSE,
     returned |-> result]

Running == {c \in Calls : call[c].at # "idle"}

InUse == {path, tmp, bak} \cup {call[c].attached : c \in Calls}

Free == Files \ InUse

\* The file that opening a name gives: the one it has, or a new one.
Opening(name) == IF name = NoFile THEN Free ELSE {name}

Init ==
    \E f \in Files :
        /\ content \in {[g \in Files |-> IF g = f THEN p ELSE "empty"] : p \in PlainText}
        /\ path = f
        /\ tmp = NoFile /\ bak = NoFile
        /\ call = [c \in Calls |-> Idle("none")]

Step(c, from, to) ==
    /\ call[c].at = from
    /\ call' = [call EXCEPT ![c].at = to]

-----------------------------------------------------------------------------
(* The steps of a call                                                      *)

\* IsEncryptedFile, and the check that there is no backup yet.
Check(c) ==
    /\ Cardinality(Running) < MaxRunning
    /\ content[path] \in PlainText
    /\ bak = NoFile
    /\ call[c].at = "idle"
    /\ call' = [call EXCEPT ![c] = [Idle("none") EXCEPT !.at = "clear"]]
    /\ UNCHANGED <<content, path, tmp, bak>>

\* removeSQLiteFileSet of a temporary file left behind by a process that died.
ClearTemp(c) ==
    /\ Step(c, "clear", "open")
    /\ tmp' = NoFile
    /\ UNCHANGED <<content, path, bak>>

\* InitDB of the source, which brings its schema up to date.
OpenSource(c) ==
    /\ Step(c, "open", "attach")
    /\ content[path] \in PlainText
    /\ content' = [content EXCEPT ![path] = "plain"]
    /\ UNCHANGED <<path, tmp, bak>>

\* ATTACH creates the file if there is none.
Attach(c) ==
    /\ call[c].at = "attach"
    /\ \E f \in Opening(tmp) :
        /\ call' = [call EXCEPT ![c].at = "export", ![c].attached = f]
        /\ content' = [content EXCEPT ![f] = IF tmp = NoFile THEN "empty" ELSE @]
        /\ tmp' = f
    /\ UNCHANGED <<path, bak>>

\* sqlcipher_export creates the tables, which fails if there are some ...
StartExport(c) ==
    /\ Step(c, "export", "exporting")
    /\ content[call[c].attached] = "empty"
    /\ content' = [content EXCEPT ![call[c].attached] = "part"]
    /\ UNCHANGED <<path, tmp, bak>>

\* ... and copies the rows; then DETACH, and Close of the source.
FinishExport(c) ==
    /\ call[c].at = "exporting"
    /\ content[call[c].attached] = "part"
    /\ content' = [content EXCEPT ![call[c].attached] = "cipher"]
    /\ call' = [call EXCEPT ![c].at = "verify", ![c].attached = NoFile]
    /\ UNCHANGED <<path, tmp, bak>>

\* InitEncryptedDB and requireEncryptedIntegrity: opening a name that does
\* not exist, or an empty or unfinished database, creates the missing
\* tables, and the result is a database in good order.
Verify(c) ==
    /\ Step(c, "verify", "copy")
    /\ \E f \in Opening(tmp) :
        /\ tmp' = f
        /\ content' = [content EXCEPT ![f] = IF f = tmp /\ @ = "cipher" THEN @ ELSE "blank"]
    /\ UNCHANGED <<path, bak>>

\* Mutant: the encrypted database is published before there is a backup.
CopyBackupPublishing(c) ==
    /\ call[c].at = "copy"
    /\ tmp # NoFile
    /\ path' = tmp
    /\ tmp' = NoFile
    /\ call' = [call EXCEPT ![c].at = "rename", ![c].copy = content[path]]
    /\ UNCHANGED <<content, bak>>

\* createPrivatePlaintextBackup, of whatever has the source's name by now.
CopyBackup(c) ==
    /\ call[c].at = "copy"
    /\ call' = [call EXCEPT ![c].at = "rename", ![c].copy = content[path]]
    /\ UNCHANGED <<content, path, tmp, bak>>

\* os.Rename replaces a backup that appeared since the check.
RenameBackup(c) ==
    /\ call[c].at = "rename"
    /\ \E f \in Free : bak' = f /\ content' = [content EXCEPT ![f] = call[c].copy]
    /\ call' = [call EXCEPT ![c].at = "publish", ![c].copy = "none", ![c].published = TRUE]
    /\ UNCHANGED <<path, tmp>>

\* replaceExistingFile: one rename, and nothing that can fail after it.
Publish(c) ==
    /\ call[c].at = "publish"
    /\ tmp # NoFile
    /\ path' = tmp
    /\ tmp' = NoFile
    /\ call' = [call EXCEPT ![c] = Idle("encrypted")]
    /\ UNCHANGED <<content, bak>>

\* Mutant: the backup of a publication that failed stays.
FailKeepingBackup(c) ==
    /\ call[c].at # "idle"
    /\ tmp' = IF call[c].at = "clear" THEN tmp ELSE NoFile
    /\ call' = [call EXCEPT ![c] = Idle("error")]
    /\ UNCHANGED <<content, path, bak>>

\* A step fails.  Once the temporary file has been cleared, the deferred
\* function removes what the call may have made.
Fail(c) ==
    /\ call[c].at # "idle"
    /\ tmp' = IF call[c].at = "clear" THEN tmp ELSE NoFile
    /\ bak' = IF call[c].published THEN NoFile ELSE bak
    /\ call' = [call EXCEPT ![c] = Idle("error")]
    /\ UNCHANGED <<content, path>>

-----------------------------------------------------------------------------
(* The environment                                                          *)

\* The process dies: nothing is cleaned up.
Crash(c) ==
    /\ call[c].at # "idle"
    /\ call' = [call EXCEPT ![c] = Idle("crashed")]
    /\ UNCHANGED <<content, path, tmp, bak>>

\* The user, who can open the project, removes the backup by hand.
RemoveBackup ==
    /\ bak # NoFile
    /\ Running = {}
    /\ content[path] \in Whole
    /\ bak' = NoFile
    /\ UNCHANGED <<content, path, tmp, call>>

-----------------------------------------------------------------------------

Next ==
    \/ \E c \in Calls :
        \/ Check(c)
        \/ ClearTemp(c)
        \/ OpenSource(c)
        \/ Attach(c)
        \/ StartExport(c)
        \/ FinishExport(c)
        \/ Verify(c)
        \/ CopyBackup(c)
        \/ RenameBackup(c)
        \/ Publish(c)
        \/ Fail(c)
        \/ Crash(c)
    \/ RemoveBackup

Spec == Init /\ [][Next]_vars

-----------------------------------------------------------------------------
(* Properties                                                               *)

\* The type of the files, names and calls; a call exports to a file only
\* while it is exporting, and has either a private copy or a backup to remove.
TypeOK ==
    /\ content \in [Files -> Content]
    /\ path \in Files
    /\ {tmp, bak} \subseteq Files \cup {NoFile}
    /\ call \in [Calls -> Call]
    /\ \A c \in Calls :
        /\ call[c].attached # NoFile <=> call[c].at \in {"export", "exporting"}
        /\ call[c].copy # "none" <=> call[c].at = "rename"
        /\ call[c].published <=> call[c].at = "publish"

\* The project is never lost: whatever fails, dies or runs at the same time,
\* one of the files with a name holds all of it ("retains an independent,
\* schema-migrated plaintext backup", MigratePlaintextToEncrypted).
ProjectSurvives ==
    \E f \in {path, tmp, bak} \ {NoFile} : content[f] \in Whole

\* A call that returns an error leaves the readable source where it was,
\* and neither a backup nor a temporary file that would be in the way of the
\* next attempt (the deferred function of MigratePlaintextToEncrypted).
FailureLeavesSource ==
    [][\A c \in Calls : call[c].at # "idle" /\ call'[c].returned = "error" =>
          /\ path' = path /\ content'[path] \in PlainText
          /\ bak' = NoFile
          /\ call[c].at # "clear" => tmp' = NoFile]_vars

Atomic ==
    INSTANCE EncryptionAtRest WITH
        project <- IF content[path] \in PlainText THEN "plain"
                   ELSE IF content[path] = "cipher" THEN "encrypted" ELSE "lost",
        backup <- content[path] = "cipher" /\ bak # NoFile /\ content[bak] = "plain"

\* Encrypting is atomic across failures and crashes: the project changes
\* from plain text to encrypted in one step, whole before and after it, with a
\* plain text backup in the current schema (replaceExistingFile as the only
\* operation that publishes).
EncryptsAtomically == Atomic!Spec

=============================================================================

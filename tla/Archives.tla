------------------------------ MODULE Archives ------------------------------
(***************************************************************************)
(* Backup archives: SecureArchive (admin/workflow.go, db/backup.go) and    *)
(* the restore of one as a new project (db/backup_restore.go,              *)
(* app_projects.go).                                                       *)
(*                                                                         *)
(* The archive is named after the second of the call and its temporary     *)
(* files after the archive, so calls of one second meet on the same paths: *)
(* Callers are such calls.  A path holds the file some call created; the   *)
(* call goes on writing its own file after the path has been given to      *)
(* another.  Contents are versions; a digest is the version it was taken   *)
(* of.                                                                     *)
(***************************************************************************)
EXTENDS Integers, FiniteSets

CONSTANTS
    Callers,     \* calls of SecureArchive for one archive path
    Overlap,     \* whether they may run beside each other
    None,
    MaxEdits,    \* bound: versions of the project
    MaxCerts,    \* bound: versions of the signing certificate
    MaxCrashes   \* bound: process ends

ArchivesAssumption ==
    /\ Overlap \in BOOLEAN /\ MaxEdits \in Nat /\ MaxCerts \in Nat /\ MaxCrashes \in Nat
    /\ None \notin Callers \cup Nat

VARIABLES
    live,       \* the committed version of the project
    intact,     \* integrity_check of the project says ok
    cert,       \* the certificate file: its version, or None
    snapshot,   \* what lies at the path of the temporary snapshot
    building,   \* whose file lies at the path of the temporary archive
    archive,    \* whose file lies at the path of the archive
    file,       \* the archive file each call writes
    pc,
    basis,      \* the version of the project when the call began
    restore,    \* the restore of the archive as a new project
    certs,      \* versions of the certificate so far
    crashes

source == <<live, intact, cert, certs>>
vars == <<source, snapshot, building, archive, file, pc, basis, restore, crashes>>

Versions == 0 .. MaxEdits
Certs == 0 .. MaxCerts

\* Entries of an archive and the digests of its manifest; whole once its
\* central directory is written.
Empty == [project |-> None, cert |-> None, projectSum |-> None, certSum |-> None, whole |-> FALSE]
NoRestore == [step |-> "none", folder |-> FALSE, project |-> None, named |-> FALSE]

Init ==
    /\ live = 0 /\ intact = TRUE /\ cert = 0 /\ certs = 0
    /\ snapshot = None /\ building = None /\ archive = None
    /\ file = [c \in Callers |-> Empty]
    /\ pc = [c \in Callers |-> "idle"]
    /\ basis = [c \in Callers |-> 0]
    /\ restore = NoRestore /\ crashes = 0

-----------------------------------------------------------------------------
(* The world outside the call                                               *)

Edit ==
    /\ live < MaxEdits /\ intact
    /\ live' = live + 1
    /\ UNCHANGED <<intact, cert, certs, snapshot, building, archive, file, pc, basis, restore, crashes>>

Damage ==
    /\ intact /\ intact' = FALSE
    /\ UNCHANGED <<live, cert, certs, snapshot, building, archive, file, pc, basis, restore, crashes>>

\* The certificate is renewed, removed or put back by the user.
ChangeCert ==
    /\ \/ certs < MaxCerts /\ certs' = certs + 1 /\ cert' = certs'
       \/ cert # None /\ cert' = None /\ UNCHANGED certs
    /\ UNCHANGED <<live, intact, snapshot, building, archive, file, pc, basis, restore, crashes>>

-----------------------------------------------------------------------------
(* CreateArchivalBundle                                                     *)

Running == {c \in Callers : pc[c] \notin {"idle", "done", "failed", "gone"}}

Goto(c, step) == pc' = [pc EXCEPT ![c] = step]

\* Integrity gate; a stale snapshot is removed, a new one taken.
TakeSnapshot(c) ==
    /\ pc[c] = "idle" /\ (Overlap \/ Running = {})
    /\ basis' = [basis EXCEPT ![c] = live]
    /\ IF intact THEN snapshot' = live /\ Goto(c, "open")
       ELSE UNCHANGED snapshot /\ Goto(c, "failed")
    /\ UNCHANGED <<source, building, archive, file, restore, crashes>>

\* A stale temporary archive is removed and the call's own one created.
OpenArchive(c) ==
    /\ pc[c] = "open"
    /\ building' = c
    /\ file' = [file EXCEPT ![c] = Empty]
    /\ Goto(c, "project")
    /\ UNCHANGED <<source, snapshot, archive, basis, restore, crashes>>

AddProject(c) ==
    /\ pc[c] = "project" /\ snapshot # None
    /\ file' = [file EXCEPT ![c].project = snapshot]
    /\ Goto(c, "cert")
    /\ UNCHANGED <<source, snapshot, building, archive, basis, restore, crashes>>

\* A certificate that is not there is left out silently.
AddCert(c) ==
    /\ pc[c] = "cert"
    /\ file' = [file EXCEPT ![c].cert = cert]
    /\ Goto(c, "manifest")
    /\ UNCHANGED <<source, snapshot, building, archive, basis, restore, crashes>>

\* The digests are taken of the files, not of the entries written.
WriteManifest(c) ==
    /\ pc[c] = "manifest" /\ snapshot # None
    /\ file' = [file EXCEPT ![c].projectSum = snapshot, ![c].certSum = cert]
    /\ Goto(c, "close")
    /\ UNCHANGED <<source, snapshot, building, archive, basis, restore, crashes>>

CloseArchive(c) ==
    /\ pc[c] = "close"
    /\ file' = [file EXCEPT ![c].whole = TRUE]
    /\ Goto(c, "publish")
    /\ UNCHANGED <<source, snapshot, building, archive, basis, restore, crashes>>

PublishEarly(c) ==
    /\ pc[c] \in {"close", "publish"} /\ building # None
    /\ archive' = building /\ building' = None
    /\ snapshot' = None
    /\ Goto(c, "audit")
    /\ UNCHANGED <<source, file, basis, restore, crashes>>

\* Renames what lies at the temporary path; then the snapshot goes.
Publish(c) ==
    /\ pc[c] = "publish" /\ building # None
    /\ archive' = building /\ building' = None
    /\ snapshot' = None
    /\ Goto(c, "audit")
    /\ UNCHANGED <<source, file, basis, restore, crashes>>

\* A step fails, or finds a temporary file gone: both temporary files are
\* removed, whoever wrote them.
Fail(c) ==
    /\ pc[c] \in {"open", "project", "cert", "manifest", "close", "publish"}
    /\ snapshot' = None
    /\ building' = IF pc[c] = "open" THEN building ELSE None
    /\ Goto(c, "failed")
    /\ UNCHANGED <<source, archive, file, basis, restore, crashes>>

\* SecureArchive: an archive the log could not record is removed.
Audit(c) ==
    /\ pc[c] = "audit"
    /\ \/ Goto(c, "done") /\ UNCHANGED archive
       \/ Goto(c, "failed") /\ archive' = None
    /\ UNCHANGED <<source, snapshot, building, file, basis, restore, crashes>>

\* The archive file changes where it is stored.
Alter ==
    /\ archive # None /\ archive \notin Running
    /\ \E v \in Versions : file' = [file EXCEPT ![archive].project = v]
    /\ UNCHANGED <<source, snapshot, building, archive, pc, basis, restore, crashes>>

-----------------------------------------------------------------------------
(* restoreProjectArchiveFrom                                                *)

\* The archive opens, every entry has its digest, and they agree.
Accepted(f) ==
    /\ f.whole
    /\ f.projectSum = f.project
    /\ f.cert # None => f.certSum = f.cert

\* A folder is reserved, the archive checked, the project extracted to a
\* temporary name and renamed.
Extract ==
    /\ restore.step = "none" /\ archive # None
    /\ IF Accepted(file[archive])
       THEN restore' = [restore EXCEPT !.step = "extracted", !.folder = TRUE,
                                       !.project = file[archive].project]
       ELSE restore' = [restore EXCEPT !.step = "refused"]
    /\ UNCHANGED <<source, snapshot, building, archive, file, pc, basis, crashes>>

\* It opens with the key of the account, is intact and has the identity of
\* the manifest: it gets its new name.  Else its folder is removed.
Adopt ==
    /\ restore.step = "extracted"
    /\ \/ restore' = [restore EXCEPT !.step = "restored", !.named = TRUE]
       \/ restore' = [restore EXCEPT !.step = "refused", !.folder = FALSE, !.project = None]
    /\ UNCHANGED <<source, snapshot, building, archive, file, pc, basis, crashes>>

-----------------------------------------------------------------------------

\* The process ends; the temporary files stay for the next one.
Crash ==
    /\ crashes < MaxCrashes
    /\ crashes' = crashes + 1
    /\ pc' = [c \in Callers |-> IF c \in Running THEN "gone" ELSE pc[c]]
    /\ restore' = NoRestore
    /\ UNCHANGED <<source, snapshot, building, archive, file, basis>>

Next ==
    \/ Edit \/ Damage \/ ChangeCert
    \/ \E c \in Callers :
        \/ TakeSnapshot(c) \/ OpenArchive(c) \/ AddProject(c) \/ AddCert(c)
        \/ WriteManifest(c) \/ CloseArchive(c) \/ Publish(c) \/ Fail(c) \/ Audit(c)
    \/ Alter \/ Extract \/ Adopt
    \/ Crash

Spec == Init /\ [][Next]_vars

-----------------------------------------------------------------------------
(* Properties                                                               *)

(* Types, and a restored project is one of the project's versions. *)
TypeOK ==
    /\ live \in Versions /\ cert \in Certs \cup {None} /\ snapshot \in Versions \cup {None}
    /\ building \in Callers \cup {None} /\ archive \in Callers \cup {None}
    /\ \A c \in Callers : file[c].project \in Versions \cup {None}
    /\ restore.step \in {"none", "extracted", "restored", "refused"}
    /\ restore.step = "restored" => restore.project \in Versions /\ restore.folder /\ restore.named

(* backup.go publishes with a rename only after the central directory is
   written: whatever crash or failure, what lies at the archive's path is a
   whole archive with its project. *)
PublishedWhole ==
    archive # None => file[archive].whole /\ file[archive].project # None

(* A call that succeeded backed up at least what was committed when it was
   made: a snapshot left by a process that ended is never bundled. *)
BackupCurrent ==
    \A c \in Callers : pc[c] = "done" => file[c].projectSum >= basis[c]

(* What restore adopts is what some backup took its digest of, also when the
   archive was altered where it is stored. *)
RestoredAsRecorded ==
    restore.step \in {"extracted", "restored"} =>
        \E c \in Callers : file[c].projectSum = restore.project

(* The manifest "records exactly when and how the bundle was produced"
   (backup.go): the digests of a published archive are those of its entries,
   so restore does not refuse what backup called done. *)
ManifestDescribesEntries ==
    \A c \in Callers : pc[c] = "done" /\ archive = c => Accepted(file[c])

=============================================================================

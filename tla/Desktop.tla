------------------------------- MODULE Desktop -------------------------------
(***************************************************************************)
(* The session of a running GoPMgr (internal/desktop): who is signed in,   *)
(* the project and the administrator access that are open, and the calls   *)
(* from the frontend, which run concurrently.  A call holds App.mu only    *)
(* for single reads and writes of this state; in between it checks         *)
(* passwords, reads and writes files, and records deletions.               *)
(*                                                                         *)
(* The key that opens an account's files is named by the account, as are   *)
(* its folder and the one project followed in it.  The system database and *)
(* the project databases are external here: what they answer is a choice.  *)
(***************************************************************************)
EXTENDS Naturals, FiniteSets

CONSTANTS
    Accounts,
    Admins,       \* the accounts that are administrators
    Coded,        \* the accounts with unused recovery codes
    Flat,         \* the accounts whose project is not in a folder of its own
    Nobody,       \* no account
    Calls,        \* bound: the calls that run at the same time
    MaxEpoch,     \* bound: sign-ins and sign-outs of a process
    MaxDeletions  \* bound: deletions requested by an account

ASSUME NobodyAssumption == Nobody \notin Accounts
ASSUME SubsetsAssumption == Admins \cup Coded \cup Flat \subseteq Accounts
ASSUME BoundsAssumption == MaxEpoch \in Nat /\ MaxDeletions \in Nat

VARIABLES
    app,          \* App, guarded by App.mu
    call,         \* the calls
    deleting,     \* the calls that hold projectDeletionMu
    file,         \* the project file in each account's folder
    log           \* each account's deletion log, and how often its project was removed

vars == <<app, call, deleting, file, log>>

Someone == Accounts \cup {Nobody}

App ==
    [user     : Someone,
     epoch    : 0 .. MaxEpoch,
     db       : Someone,          \* whose project is open
     dbPath   : Someone,
     pending  : Someone,          \* pendingCodes, of whom
     accepted : Someone,          \* noCodesAcceptedFor
     access   : Someone,          \* whose data an administrator has open ...
     since    : 0 .. MaxEpoch,    \* ... since the session of that epoch
     view     : BOOLEAN]          \* ... with a project copy

\* user and epoch are the sessionRef a call captured, key whose key it holds,
\* target whose data it is about.
Call ==
    [op     : {"none", "login", "first", "open", "create", "codes", "prepare",
               "encrypt", "delete", "access", "view", "check"},
     at     : {"idle", "work", "close", "key", "record", "remove", "removed",
               "failed", "stop", "publish"},
     user   : Someone,
     epoch  : 0 .. MaxEpoch,
     key    : Someone,
     target : Someone]

Idle == [op |-> "none", at |-> "idle", user |-> Nobody, epoch |-> 0,
         key |-> Nobody, target |-> Nobody]

Begun(op, at, target) ==
    [op |-> op, at |-> at, user |-> app.user, epoch |-> app.epoch,
     key |-> Nobody, target |-> target]

At(c, op, at) == call[c].op = op /\ call[c].at = at

Begin(c, op, at, target) ==
    /\ call[c].at = "idle"
    /\ call' = [call EXCEPT ![c] = Begun(op, at, target)]

Continue(c, at) == call' = [call EXCEPT ![c].at = at]

Return(c) == call' = [call EXCEPT ![c] = Idle]

-----------------------------------------------------------------------------
(* Changing the session                                                     *)

\* stopAdminAccessLocked.
WithoutAccess(a) == [a EXCEPT !.access = Nobody, !.since = 0, !.view = FALSE]

\* CloseProject.
WithoutProject(a) == [a EXCEPT !.db = Nobody, !.dbPath = Nobody]

\* Mutant: signing out leaves the prepared codes.
ClearedKeepingCodes(a) ==
    [WithoutAccess(WithoutProject(a)) EXCEPT
        !.user = Nobody, !.accepted = Nobody, !.epoch = @ + 1]

\* clearSessionLocked.
Cleared(a) ==
    [WithoutAccess(WithoutProject(a)) EXCEPT
        !.user = Nobody, !.pending = Nobody, !.accepted = Nobody, !.epoch = @ + 1]

\* setSessionLocked.
SignedIn(a, u) == [Cleared(a) EXCEPT !.user = u]

\* sessionDEKLocked: the key of the session that the call captured, or none.
SessionKey(c) == IF call[c].epoch = app.epoch THEN app.user ELSE Nobody

SameSession(c) == call[c].epoch = app.epoch

NewApp ==
    [user |-> Nobody, epoch |-> 0, db |-> Nobody, dbPath |-> Nobody,
     pending |-> Nobody, accepted |-> Nobody, access |-> Nobody, since |-> 0,
     view |-> FALSE]

Init ==
    /\ app = NewApp
    /\ call = [c \in Calls |-> Idle]
    /\ deleting = {}
    /\ file = [u \in Accounts |-> "project"]
    /\ log = [u \in Accounts |-> [requested |-> 0, deleted |-> 0, removals |-> 0]]

-----------------------------------------------------------------------------
(* Signing in and out                                                       *)

\* Login captures the session; then SignIn checks the password.
LoginBegin(c, u) ==
    /\ Begin(c, "login", "publish", u)
    /\ UNCHANGED <<app, deleting, file, log>>

\* Mutant: a late sign-in replaces the session there is.
LoginPublishLate(c) ==
    /\ At(c, "login", "publish")
    /\ app.epoch < MaxEpoch
    /\ app' = IF app.db = Nobody THEN SignedIn(app, call[c].target) ELSE app
    /\ Return(c)
    /\ UNCHANGED <<deleting, file, log>>

\* The session is published unless it changed or a project is open.
LoginPublish(c) ==
    /\ At(c, "login", "publish")
    /\ app.epoch < MaxEpoch
    /\ app' = IF SameSession(c) /\ app.db = Nobody
              THEN SignedIn(app, call[c].target) ELSE app
    /\ Return(c)
    /\ UNCHANGED <<deleting, file, log>>

\* The password is wrong, the account is disabled or, for a first account,
\* there is another one already.
Refuse(c) ==
    /\ call[c].op \in {"login", "first", "prepare"}
    /\ Return(c)
    /\ UNCHANGED <<app, deleting, file, log>>

\* CreateAccount of the first account, by nobody.
FirstBegin(c, u) ==
    /\ app.user = Nobody
    /\ Begin(c, "first", "publish", u)
    /\ UNCHANGED <<app, deleting, file, log>>

FirstPublish(c) ==
    /\ At(c, "first", "publish")
    /\ app.epoch < MaxEpoch
    /\ app' = IF SameSession(c) THEN SignedIn(app, call[c].target) ELSE app
    /\ Return(c)
    /\ UNCHANGED <<deleting, file, log>>

Logout ==
    /\ app.epoch < MaxEpoch
    /\ app' = Cleared(app)
    /\ UNCHANGED <<call, deleting, file, log>>

-----------------------------------------------------------------------------
(* Projects                                                                 *)

\* OpenProject checks the path (projectPathFor) before it takes the lock.
OpenBegin(c) ==
    /\ app.user # Nobody
    /\ file[app.user] # "none"
    /\ Begin(c, "open", "work", app.user)
    /\ UNCHANGED <<app, deleting, file, log>>

\* Under the lock: the open project is closed first.  Opening a file that is
\* gone creates it, where its folder is still there; a file without a
\* project, a failed audit check and a damaged file end the call with no
\* project open, and dbPath as it was.
OpenFinish(c) ==
    LET u == call[c].user
        closed == [app EXCEPT !.db = Nobody]
    IN  /\ At(c, "open", "work")
        /\ \/ SessionKey(c) = Nobody /\ UNCHANGED <<app, file>>
           \/ /\ SessionKey(c) # Nobody
              /\ file[u] = "project"
              /\ app' = [app EXCEPT !.db = u, !.dbPath = u]
              /\ UNCHANGED file
           \/ /\ SessionKey(c) # Nobody
              /\ app' = closed
              /\ file' \in {file} \cup (IF file[u] = "none" /\ u \in Flat
                                        THEN {[file EXCEPT ![u] = "empty"]} ELSE {})
        /\ Return(c)
        /\ UNCHANGED <<deleting, log>>

CloseProject ==
    /\ app' = IF app.db # Nobody THEN WithoutProject(app) ELSE app
    /\ UNCHANGED <<call, deleting, file, log>>

\* RepairAndSwap, all of it under the lock: the project stays open, on
\* another file or not, or is closed.
RepairAndSwap ==
    /\ app.db # Nobody
    /\ app' \in {app, WithoutProject(app)}
    /\ UNCHANGED <<call, deleting, file, log>>

\* encryptionReadiness.
EncryptionReady(u) == u \in Coded \/ app.accepted = u

AcceptWithoutCodes ==
    /\ app.user # Nobody
    /\ app' = [app EXCEPT !.accepted = app.user]
    /\ UNCHANGED <<call, deleting, file, log>>

\* CreateProject.
CreateBegin(c) ==
    /\ app.user # Nobody
    /\ EncryptionReady(app.user)
    /\ Begin(c, "create", "key", app.user)
    /\ UNCHANGED <<app, deleting, file, log>>

\* EncryptProjectAtRest: an open project is closed when the key is taken.
EncryptBegin(c) ==
    /\ app.user # Nobody
    /\ file[app.user] # "none"
    /\ EncryptionReady(app.user)
    /\ Begin(c, "encrypt", "key", app.user)
    /\ UNCHANGED <<app, deleting, file, log>>

\* IssueRecoveryCodes.
CodesBegin(c) ==
    /\ app.user # Nobody
    /\ Begin(c, "codes", "key", app.user)
    /\ UNCHANGED <<app, deleting, file, log>>

\* Mutant: whatever session there is now gives its key.
TakeKeyThatIs(c) ==
    /\ call[c].at = "key" /\ call[c].op # "delete"
    /\ IF app.user = Nobody THEN Return(c)
       ELSE call' = [call EXCEPT ![c].at = "work", ![c].key = app.user]
    /\ UNCHANGED <<app, deleting, file, log>>

\* sessionDEK, in every call that works with the session's key.
TakeKey(c) ==
    /\ call[c].at = "key" /\ call[c].op # "delete"
    /\ IF SessionKey(c) = Nobody THEN Return(c)
       ELSE call' = [call EXCEPT ![c].at = "work", ![c].key = SessionKey(c)]
    /\ app' = IF /\ call[c].op = "encrypt" /\ SessionKey(c) # Nobody
                 /\ app.db # Nobody /\ app.dbPath = call[c].target
              THEN WithoutProject(app) ELSE app
    /\ UNCHANGED <<deleting, file, log>>

\* The work with the key, which may outlive the session: a new project, which
\* gets a folder of its own beside the one followed here, new codes, or the
\* encrypted project (module Migration).
WorkWithKey(c) ==
    /\ call[c].at = "work" /\ call[c].op \in {"create", "encrypt", "codes"}
    /\ Return(c)
    /\ UNCHANGED <<app, deleting, file, log>>

-----------------------------------------------------------------------------
(* Deleting a project                                                       *)

\* Mutant: deletions are not serialised.
DeleteBeginAtOnce(c) ==
    /\ app.user # Nobody
    /\ file[app.user] # "none"
    /\ log[app.user].requested < MaxDeletions
    /\ Begin(c, "delete", "work", app.user)
    /\ deleting' = deleting \cup {c}
    /\ UNCHANGED <<app, file, log>>

\* projectDeletionMu, and the check of the path.
DeleteBegin(c) ==
    /\ deleting = {}
    /\ app.user # Nobody
    /\ file[app.user] # "none"
    /\ log[app.user].requested < MaxDeletions
    /\ Begin(c, "delete", "work", app.user)
    /\ deleting' = {c}
    /\ UNCHANGED <<app, file, log>>

\* The read of dbPath, and CloseProject, which closes what is open by then.
DeleteLook(c) ==
    /\ At(c, "delete", "work")
    /\ Continue(c, IF app.dbPath = call[c].target THEN "close" ELSE "key")
    /\ UNCHANGED <<app, deleting, file, log>>

DeleteClose(c) ==
    /\ At(c, "delete", "close")
    /\ app' = IF app.db # Nobody THEN WithoutProject(app) ELSE app
    /\ Continue(c, "key")
    /\ UNCHANGED <<deleting, file, log>>

\* Ends the call and releases projectDeletionMu.
DeleteReturn(c) == Return(c) /\ deleting' = deleting \ {c}

\* projectDeletionRequest reads the project with the session's key ...
DeleteRead(c) ==
    /\ At(c, "delete", "key")
    /\ \/ /\ SessionKey(c) # Nobody /\ file[call[c].target] # "none"
          /\ call' = [call EXCEPT ![c].at = "record", ![c].key = SessionKey(c)]
          /\ UNCHANGED deleting
       \/ DeleteReturn(c)
    /\ UNCHANGED <<app, file, log>>

\* ... and openDeletionLog and Requested write the log with it; no record, no
\* deletion.
DeleteRecord(c) ==
    /\ At(c, "delete", "record")
    /\ \/ /\ SessionKey(c) # Nobody
          /\ log' = [log EXCEPT ![call[c].target].requested = @ + 1]
          /\ call' = [call EXCEPT ![c].at = "remove", ![c].key = SessionKey(c)]
          /\ UNCHANGED deleting
       \/ DeleteReturn(c) /\ UNCHANGED log
    /\ UNCHANGED <<app, file>>

\* removeProjectFiles: removing what is gone is no failure.
DeleteRemove(c) ==
    LET u == call[c].target IN
    /\ At(c, "delete", "remove")
    /\ \/ /\ file' = [file EXCEPT ![u] = "none"]
          /\ log' = IF file[u] = "none" THEN log ELSE [log EXCEPT ![u].removals = @ + 1]
          /\ Continue(c, "removed")
       \/ Continue(c, "failed") /\ UNCHANGED <<file, log>>
    /\ UNCHANGED <<app, deleting>>

\* Deleted or Failed, unless writing the log fails.
DeleteOutcome(c) ==
    /\ call[c].op = "delete" /\ call[c].at \in {"removed", "failed"}
    /\ log' \in {log} \cup (IF call[c].at = "removed"
                            THEN {[log EXCEPT ![call[c].target].deleted = @ + 1]} ELSE {})
    /\ DeleteReturn(c)
    /\ UNCHANGED <<app, file>>

-----------------------------------------------------------------------------
(* Recovery codes in App Settings                                           *)

PrepareBegin(c) ==
    /\ app.user # Nobody
    /\ Begin(c, "prepare", "publish", app.user)
    /\ UNCHANGED <<app, deleting, file, log>>

PreparePublish(c) ==
    /\ At(c, "prepare", "publish")
    /\ app' = IF SameSession(c) THEN [app EXCEPT !.pending = call[c].user] ELSE app
    /\ Return(c)
    /\ UNCHANGED <<deleting, file, log>>

\* ConfirmRecoveryCodes takes the codes, and stores them if they are the
\* user's (module Credentials); DiscardRecoveryCodes drops them.
TakeCodes ==
    /\ app.pending # Nobody
    /\ app' = [app EXCEPT !.pending = Nobody]
    /\ UNCHANGED <<call, deleting, file, log>>

-----------------------------------------------------------------------------
(* Administrator access                                                     *)

\* AdminOpenUserData.
AccessBegin(c, u) ==
    /\ app.user \in Admins \ {u}
    /\ Begin(c, "access", "key", u)
    /\ UNCHANGED <<app, deleting, file, log>>

\* OpenUserForAdmin gives the target's key, or refuses.
AccessOpen(c) ==
    /\ At(c, "access", "work")
    /\ \/ call' = [call EXCEPT ![c].at = "stop", ![c].key = Nobody]
       \/ Return(c)
    /\ UNCHANGED <<app, deleting, file, log>>

\* The access there is stops, whoever's it is by now.
AccessStop(c) ==
    /\ At(c, "access", "stop")
    /\ app' = WithoutAccess(app)
    /\ Continue(c, "publish")
    /\ UNCHANGED <<deleting, file, log>>

AccessPublish(c) ==
    /\ At(c, "access", "publish")
    /\ app' = IF SameSession(c)
              THEN [WithoutAccess(app) EXCEPT !.access = call[c].target,
                                              !.since = call[c].epoch]
              ELSE app
    /\ Return(c)
    /\ UNCHANGED <<deleting, file, log>>

\* AdminViewUserProject and AdminListUserProjects: checkAccessCaller asks the
\* system database whether the user may, and ends the access if not.
CheckBegin(c) ==
    /\ app.user \in Admins
    /\ Begin(c, "check", "work", Nobody)
    /\ UNCHANGED <<app, deleting, file, log>>

CheckFails(c) ==
    /\ At(c, "check", "work")
    /\ app' = WithoutAccess(app)
    /\ Return(c)
    /\ UNCHANGED <<deleting, file, log>>

\* openAccess, and the copy of the project.
ViewOpen(c) ==
    /\ At(c, "check", "work")
    /\ \/ /\ app.access # Nobody /\ app.since = app.epoch
          /\ call' = [call EXCEPT ![c].op = "view", ![c].at = "publish",
                                  ![c].target = app.access]
       \/ Return(c)
    /\ UNCHANGED <<app, deleting, file, log>>

ViewPublish(c) ==
    /\ At(c, "view", "publish")
    /\ app' = IF /\ app.access = call[c].target
                 /\ app.since = call[c].epoch /\ SameSession(c)
              THEN [app EXCEPT !.view = TRUE] ELSE app
    /\ Return(c)
    /\ UNCHANGED <<deleting, file, log>>

AdminStopUserData ==
    /\ app.access # Nobody
    /\ app' = WithoutAccess(app)
    /\ UNCHANGED <<call, deleting, file, log>>

-----------------------------------------------------------------------------

\* The process ends, in whatever state its calls are, and is started again.
Restart ==
    /\ app' = NewApp
    /\ call' = [c \in Calls |-> Idle]
    /\ deleting' = {}
    /\ UNCHANGED <<file, log>>

Next ==
    \/ \E c \in Calls, u \in Accounts :
        \/ LoginBegin(c, u)
        \/ FirstBegin(c, u)
        \/ AccessBegin(c, u)
    \/ \E c \in Calls :
        \/ LoginPublish(c) \/ FirstPublish(c) \/ Refuse(c)
        \/ OpenBegin(c) \/ OpenFinish(c)
        \/ CreateBegin(c) \/ EncryptBegin(c) \/ CodesBegin(c)
        \/ TakeKey(c) \/ WorkWithKey(c)
        \/ DeleteBegin(c) \/ DeleteLook(c) \/ DeleteClose(c) \/ DeleteRead(c)
        \/ DeleteRecord(c) \/ DeleteRemove(c) \/ DeleteOutcome(c)
        \/ PrepareBegin(c) \/ PreparePublish(c)
        \/ AccessOpen(c) \/ AccessStop(c) \/ AccessPublish(c)
        \/ CheckBegin(c) \/ CheckFails(c) \/ ViewOpen(c) \/ ViewPublish(c)
    \/ Logout \/ CloseProject \/ RepairAndSwap \/ AcceptWithoutCodes \/ TakeCodes
    \/ AdminStopUserData
    \/ Restart

Spec == Init /\ [][Next]_vars

-----------------------------------------------------------------------------
(* Properties                                                               *)

\* The type of the state; a sign-out takes the project and the access with it,
\* and calls that delete hold the lock.
TypeOK ==
    /\ app \in App
    /\ call \in [Calls -> Call]
    /\ deleting = {c \in Calls : call[c].op = "delete"}
    /\ file \in [Accounts -> {"project", "empty", "none"}]
    /\ log \in [Accounts -> [requested : Nat, deleted : Nat, removals : Nat]]

\* One account's name, folder or path is never paired with another account's
\* key, whatever signs out or in between the two reads (sessionDEK).
KeyFitsFolder ==
    \A c \in Calls : call[c].key \in {Nobody, call[c].user}

\* What is open or prepared belongs to who is signed in now: the project, the
\* prepared codes, the choice to go without codes and the administrator access
\* (setSessionLocked, clearSessionLocked, and the checks of the epoch).
SessionCoherent ==
    /\ {app.db, app.pending, app.accepted} \subseteq {Nobody, app.user}
    /\ app.access # Nobody => app.since = app.epoch /\ app.user \in Admins \ {app.access}
    /\ app.view => app.access # Nobody

\* A step of a call that began before the session changed.
LateStep(c) ==
    /\ call[c].at # "idle" /\ call'[c] # call[c]
    /\ call[c].epoch # app.epoch
    /\ app'.epoch >= app.epoch

\* A call that began before a sign-out or another sign-in never publishes
\* anything after it: no session, project, codes or access ("a sign-out or
\* another sign-in that finished meanwhile is never overtaken by a late
\* completion", session_state.go).
LateCallsPublishNothing ==
    [][\A c \in Calls : LateStep(c) =>
          app' \in {app, WithoutProject(app), WithoutAccess(app)}]_vars

\* The deletion log is right however calls interleave and wherever the process
\* ends: nothing is removed without a request, and nothing is recorded as
\* deleted more often than it was removed (DeleteProject's comment).
DeletionsRecorded ==
    \A u \in Accounts :
        /\ log[u].deleted <= log[u].removals
        /\ log[u].removals <= log[u].requested

\* The open project's file is never removed ("it is closed first so we never
\* unlink an in-use database", DeleteProject).
OpenProjectKept == app.db # Nobody => file[app.db] = "project"

\* Opening never leaves an empty project behind ("a stale path must stop here
\* rather than leave an empty, uninitialised project behind",
\* confineProjectPath).
NoEmptyProject == \A u \in Accounts : file[u] # "empty"

\* A late call stays within the account it started for: it changes nothing
\* for another account that is signed in now (session_state.go).
LateCallsStayInAccount ==
    [][\A c \in Calls : LateStep(c) /\ call[c].user # app.user => app' = app]_vars

=============================================================================

------------------------------- MODULE Repair --------------------------------
(***************************************************************************)
(* Checking an open project for damage and repairing it: CheckOpenProject, *)
(* DismissOpenProjectCheck and RepairAndSwap (desktop/app_documents.go)    *)
(* over InformativeSelfHeal and SwapInEncryptedSnapshot (db/repair.go),    *)
(* and the --repair command line (desktop/app.go).                         *)
(*                                                                         *)
(* One project and the three names it has in its folder.  RepairAndSwap    *)
(* holds App.mu throughout, but it is several file operations: each can    *)
(* fail, and the process can end between two of them.  CheckOpenProject    *)
(* reads the handle, checks it without the lock and stores what it found   *)
(* under the lock again.                                                   *)
(***************************************************************************)
EXTENDS Naturals

CONSTANTS
    MaxVersion,   \* bound: commits to the project
    MaxHandles    \* bound: times the project is opened

BoundsAssumption == MaxVersion \in Nat \ {0} /\ MaxHandles \in Nat \ {0}

VARIABLES
    live,         \* <project>
    bak,          \* <project>.bak
    corrupt,      \* <project>.corrupt
    committed,    \* ghost: the version of the last commit
    hurt,         \* ghost: the file was damaged since this handle was opened
    handle,       \* a.db: 0, or which opening of the project it is
    open,         \* a.db answers: it is not a handle that was closed
    opened,       \* handles given out so far
    openCheck,    \* a.openCheck
    checker,      \* the CheckOpenProject call in flight
    repair        \* where RepairAndSwap is

files == <<live, bak, corrupt>>
ghosts == <<committed, hurt>>
vars == <<live, bak, corrupt, committed, hurt, handle, open, opened, openCheck,
          checker, repair>>

\* A file: the version of the project it holds, and whether integrity_check
\* passes.  Version 0 is no file.
File == [v : 0 .. MaxVersion, ok : BOOLEAN]
NoFile == [v |-> 0, ok |-> FALSE]

NoCheck == [h |-> 0, damaged |-> FALSE, dismissed |-> FALSE]

\* A snapshot that was cut short is a file that does not pass.
Torn == [v |-> 1, ok |-> FALSE]

Phases == {"idle", "heal", "swap", "close", "move", "publish", "reopen", "recover"}

TypeOK ==
    /\ live \in File /\ bak \in File /\ corrupt \in File
    /\ committed \in 1 .. MaxVersion /\ hurt \in BOOLEAN
    /\ handle \in 0 .. MaxHandles /\ open \in BOOLEAN /\ opened \in 0 .. MaxHandles
    /\ openCheck \in [h : 0 .. MaxHandles, damaged : BOOLEAN, dismissed : BOOLEAN]
    /\ checker \in [at : {"idle", "check", "store"}, h : 0 .. MaxHandles, damaged : BOOLEAN]
    /\ repair \in Phases

\* The mutex: no other call of App changes or reads the handle mid-swap.
Unlocked == repair = "idle"

Init ==
    /\ live = [v |-> 1, ok |-> TRUE] /\ bak = NoFile /\ corrupt = NoFile
    /\ committed = 1 /\ hurt = FALSE
    /\ handle = 0 /\ open = FALSE /\ opened = 0
    /\ openCheck = NoCheck
    /\ checker = [at |-> "idle", h |-> 0, damaged |-> FALSE]
    /\ repair = "idle"

-----------------------------------------------------------------------------
(* The project is opened, edited, damaged, closed                           *)

\* A fresh handle on the file at <project>.
Reopened ==
    /\ opened < MaxHandles
    /\ opened' = opened + 1 /\ handle' = opened + 1 /\ open' = TRUE
    /\ hurt' = ~live.ok

\* OpenProject: confineProjectPath refuses a path without a file; an open
\* project is closed first; a file that does not open leaves none open.
OpenProject ==
    /\ Unlocked
    /\ live # NoFile
    /\ \/ Reopened
       \/ ~live.ok /\ handle' = 0 /\ open' = FALSE /\ UNCHANGED <<opened, hurt>>
    /\ UNCHANGED <<files, committed, openCheck, checker, repair>>

CloseProject ==
    /\ Unlocked /\ handle # 0
    /\ handle' = 0 /\ open' = FALSE
    /\ UNCHANGED <<files, ghosts, opened, openCheck, checker, repair>>

\* Any bound call that commits to the open project; it may rewrite the page
\* that was bad.
Edit ==
    /\ Unlocked /\ handle # 0 /\ open
    /\ committed < MaxVersion
    /\ committed' = committed + 1
    /\ live' \in {[v |-> committed + 1, ok |-> ok] : ok \in {live.ok, TRUE}}
    /\ UNCHANGED <<bak, corrupt, hurt, handle, open, opened, openCheck, checker, repair>>

\* A page of the file goes bad.
Damage ==
    /\ Unlocked /\ live # NoFile
    /\ live' = [live EXCEPT !.ok = FALSE]
    /\ hurt' = TRUE
    /\ UNCHANGED <<bak, corrupt, committed, handle, open, opened, openCheck, checker, repair>>

-----------------------------------------------------------------------------
(* CheckOpenProject                                                         *)

\* The handle is read; a result for it is returned as it is.
CheckBegin ==
    /\ Unlocked /\ checker.at = "idle"
    /\ handle # 0 /\ openCheck.h # handle
    /\ checker' = [at |-> "check", h |-> handle, damaged |-> FALSE]
    /\ UNCHANGED <<files, ghosts, handle, open, opened, openCheck, repair>>

\* CheckIntegrity without the lock.  On a handle that was closed since it is
\* an error, which counts as damage.
CheckRun ==
    /\ checker.at = "check"
    /\ checker' = [checker EXCEPT !.at = "store",
                                  !.damaged = ~(open /\ checker.h = handle /\ live.ok)]
    /\ UNCHANGED <<files, ghosts, handle, open, opened, openCheck, repair>>

CheckStore ==
    /\ Unlocked /\ checker.at = "store"
    /\ openCheck' = IF handle = checker.h
                    THEN [h |-> handle, damaged |-> checker.damaged, dismissed |-> FALSE]
                    ELSE openCheck
    /\ checker' = [checker EXCEPT !.at = "idle"]
    /\ UNCHANGED <<files, ghosts, handle, open, opened, repair>>

DismissOpenProjectCheck ==
    /\ Unlocked
    /\ openCheck.h # 0 /\ openCheck.h = handle /\ ~openCheck.dismissed
    /\ openCheck' = [openCheck EXCEPT !.dismissed = TRUE]
    /\ UNCHANGED <<files, ghosts, handle, open, opened, checker, repair>>

-----------------------------------------------------------------------------
(* InformativeSelfHeal, in RepairAndSwap and from the command line          *)

RepairHealthySwapping ==
    /\ Unlocked /\ handle # 0 /\ open
    /\ live.ok
    /\ openCheck' = NoCheck
    /\ repair' = "swap"
    /\ UNCHANGED <<files, ghosts, handle, open, opened, checker>>

\* Nothing is wrong: nothing is written, and a .bak of an earlier run stays
\* where it is.
RepairHealthy ==
    /\ Unlocked /\ handle # 0 /\ open
    /\ live.ok
    /\ openCheck' = NoCheck
    /\ UNCHANGED <<files, ghosts, handle, open, opened, checker, repair>>

\* Damage is found; the .bak of an earlier run is removed.
RepairBegin ==
    /\ Unlocked /\ handle # 0 /\ open
    /\ ~live.ok
    /\ bak' = NoFile
    /\ repair' = "heal"
    /\ UNCHANGED <<live, corrupt, ghosts, handle, open, opened, openCheck, checker>>

\* VACUUM INTO copies what can be read, and the copy may not pass either; or
\* it fails, and may leave part of a file.
WriteSnapshot ==
    /\ repair = "heal"
    /\ \/ /\ \E ok \in BOOLEAN : bak' = [v |-> live.v, ok |-> ok]
          /\ repair' = "swap"
       \/ /\ bak' \in {NoFile, Torn}
          /\ repair' = "idle"
    /\ UNCHANGED <<live, corrupt, ghosts, handle, open, opened, openCheck, checker>>

\* --repair, run beside the application: it stops after the snapshot.
HeadlessRepair ==
    /\ Unlocked /\ live # NoFile /\ ~live.ok
    /\ bak' \in {[v |-> live.v, ok |-> TRUE], [v |-> live.v, ok |-> FALSE], NoFile, Torn}
    /\ UNCHANGED <<live, corrupt, ghosts, handle, open, opened, openCheck, checker, repair>>

-----------------------------------------------------------------------------
(* SwapInEncryptedSnapshot, and the same steps of SwapInSnapshot            *)

\* The snapshot is there and passes; the damaged file of an earlier swap goes.
\* Any of it can fail, and the handle still answers.
SwapCheck ==
    /\ repair = "swap"
    /\ \/ bak.ok /\ corrupt' = NoFile /\ repair' = "close"
       \/ repair' = "recover" /\ UNCHANGED corrupt
    /\ UNCHANGED <<live, bak, ghosts, handle, open, opened, openCheck, checker>>

CloseLive ==
    /\ repair = "close"
    /\ open' = FALSE
    /\ repair' \in {"move", "recover"}
    /\ UNCHANGED <<files, ghosts, handle, opened, openCheck, checker>>

MoveLive ==
    /\ repair = "move"
    /\ \/ corrupt' = live /\ live' = NoFile /\ repair' = "publish"
       \/ repair' = "recover" /\ UNCHANGED <<live, corrupt>>
    /\ UNCHANGED <<bak, ghosts, handle, open, opened, openCheck, checker>>

\* The rename of the snapshot, or its rollback, or neither.
Publish ==
    /\ repair = "publish"
    /\ \/ live' = bak /\ bak' = NoFile /\ repair' = "reopen" /\ UNCHANGED corrupt
       \/ live' = corrupt /\ corrupt' = NoFile /\ repair' = "recover" /\ UNCHANGED bak
       \/ repair' = "recover" /\ UNCHANGED <<live, bak, corrupt>>
    /\ UNCHANGED <<ghosts, handle, open, opened, openCheck, checker>>

Reopen ==
    /\ repair = "reopen"
    /\ \/ Reopened /\ repair' = "idle"
       \/ repair' = "recover" /\ UNCHANGED <<handle, open, opened, hurt>>
    /\ UNCHANGED <<files, committed, openCheck, checker>>

\* recoverFromFailedSwapLocked: a handle that answers is kept; otherwise the
\* file at <project> is opened again, or, when there is none or it does not
\* open, the project is closed.
Recover ==
    /\ repair = "recover"
    /\ repair' = "idle"
    /\ \/ open /\ UNCHANGED <<handle, open, opened, hurt>>
       \/ ~open /\ live # NoFile /\ Reopened
       \/ ~open /\ handle' = 0 /\ open' = FALSE /\ UNCHANGED <<opened, hurt>>
    /\ UNCHANGED <<files, committed, openCheck, checker>>

\* The process ends; the next one starts without an open project.
Crash ==
    /\ handle # 0
    /\ handle' = 0 /\ open' = FALSE
    /\ openCheck' = NoCheck
    /\ checker' = [at |-> "idle", h |-> 0, damaged |-> FALSE]
    /\ repair' = "idle"
    /\ UNCHANGED <<files, ghosts, opened>>

RepairStep ==
    RepairBegin \/ WriteSnapshot \/ SwapCheck \/ CloseLive \/ MoveLive \/ Publish
        \/ Reopen \/ Recover

Next ==
    \/ OpenProject \/ CloseProject \/ Edit \/ Damage
    \/ CheckBegin \/ CheckRun \/ CheckStore \/ DismissOpenProjectCheck
    \/ RepairHealthy \/ RepairStep \/ HeadlessRepair
    \/ Crash

Spec == Init /\ [][Next]_vars

-----------------------------------------------------------------------------
(* Properties                                                               *)

\* A project that can be opened holds the last commit: whatever is left in the
\* folder by earlier repairs, by the command line or by a crash, no older copy
\* of the project takes its place (the comment of RepairAndSwap: "swapping it
\* over a healthy database would silently roll the project back").
NoSilentRollback == live # NoFile => live.v = committed

\* Wherever a repair fails or the process ends, the last commit is in the
\* project file or beside it as the .corrupt file.
LastCommitKept ==
    \/ live.v = committed
    \/ corrupt.v = committed

\* RepairAndSwap returns with a project open on a handle that answers, or with
\* none: never on a handle it has closed.
HandleAnswers == Unlocked /\ handle # 0 => open /\ live # NoFile

\* A damage notice kept for the open project is about it: its file has been
\* damaged since it was opened.  A result read from
\* a handle that was closed, swapped out or reopened since is never shown as
\* the result of the file that is open now.
DamageNoticeTrue ==
    Unlocked /\ handle # 0 /\ openCheck.h = handle /\ openCheck.damaged => hurt

\* RepairAndSwap puts only a copy that passed the check in place of the
\* project.
OnlyCheckedSwappedIn == repair = "publish" /\ repair' = "reopen" => live'.ok

\* There is a project at its path whenever no repair is running: the comment of
\* SwapInSnapshot says that the user "is never left without any database at
\* all" and that the live file is replaced atomically.
ProjectAtPath == Unlocked => live # NoFile
=============================================================================

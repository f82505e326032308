----------------------------- MODULE CloseGuard -----------------------------
(***************************************************************************)
(* Closing the window while an editor holds unsaved work: the Go side's    *)
(* veto and one-shot permit, and the frontend's controller, navigation     *)
(* dialog and save coordinator that it asks.                               *)
(*                                                                         *)
(* The frontend runs one event at a time; saves, calls of the Go side and  *)
(* its answers come as later events.  Versions of the editor's content are *)
(* numbers; 0 is the version the editor was opened with.                   *)
(***************************************************************************)
EXTENDS Naturals

CONSTANTS MaxEdits, MaxCloses     \* bounds: edits typed, closes asked for by the user

CloseBounds == MaxEdits \in Nat /\ MaxCloses \in Nat

VARIABLES content, last, stored,  \* the editor's content, its baseline, what is stored
          saving,                 \* the save in flight: [version, by], by "none" when none is
          discarded,              \* the version the user discarded
          view,                   \* "editor" or "other"
          nav,                    \* [pending, saving]: the dialog of unsaved changes
          ctl,                    \* NativeCloseController: [resolving, awaiting, locked]
          call,                   \* CompleteNativeClose: "none", "requested", "quitting", "done"
          guard,                  \* the Go side: [ready, permit]
          quits,                  \* quit requests whose OnBeforeClose has yet to run
          events,                 \* "app:before-close" events not yet delivered
          closes,                 \* closes the user asked for
          ended                   \* "no", "unguarded" or "guarded"

editor == <<content, last, stored, saving, discarded>>
front == <<view, nav, ctl>>
goside == <<call, guard, quits, events, closes, ended>>
vars == <<editor, front, goside>>

NoSave == [version |-> 0, by |-> "none"]
Running == ended = "no"

(***************************************************************************)
(* autosave.                                                               *)
(***************************************************************************)
Registered == view = "editor"
hasDirty == Registered /\ (saving # NoSave \/ content # last)

\* The version that becomes the baseline when a save of v succeeds.
Baseline(v) == v

SavedAllM(ok, v) == ok

\* saveAll's answer once its save has returned: content must not have moved meanwhile.
SavedAll(ok, v) == ok /\ content = v

Init ==
  /\ content = 0 /\ last = 0 /\ stored = 0 /\ saving = NoSave /\ discarded = 0
  /\ view = "editor"
  /\ nav = [pending |-> "none", saving |-> FALSE]
  /\ ctl = [resolving |-> FALSE, awaiting |-> FALSE, locked |-> FALSE]
  /\ call = "none"
  /\ guard = [ready |-> FALSE, permit |-> FALSE]
  /\ quits = 0 /\ events = 0 /\ closes = 0
  /\ ended = "no"

\* The user types, also while the dialog is up; a locked page takes no input.
Type ==
  /\ Running /\ Registered /\ ~ctl.locked
  /\ content < MaxEdits
  /\ content' = content + 1
  /\ UNCHANGED <<last, stored, saving, discarded, front, goside>>

\* The heartbeat finds an editor that has changed and is not being saved.
tick ==
  /\ Running /\ Registered
  /\ saving = NoSave /\ content # last
  /\ saving' = [version |-> content, by |-> "tick"]
  /\ UNCHANGED <<content, last, stored, discarded, front, goside>>

\* What follows a navigation that may go on: the view changes, or the page is locked
\* and the Go side is asked to close.
Finish(target) ==
  IF target = "close"
  THEN /\ ctl' = [ctl EXCEPT !.resolving = TRUE, !.awaiting = FALSE, !.locked = TRUE]
       /\ call' = "requested"
       /\ UNCHANGED view
  ELSE /\ view' = "other"
       /\ UNCHANGED <<ctl, call>>

\* A save returns.  If it was the dialog's, the navigation goes on or stays with an error.
saveEntry(ok) ==
  /\ Running
  /\ saving # NoSave
  /\ saving' = NoSave
  /\ stored' = IF ok THEN saving.version ELSE stored
  /\ last' = IF ok /\ Registered THEN Baseline(saving.version) ELSE last
  /\ IF saving.by = "tick" THEN UNCHANGED <<nav, view, ctl, call>>
     ELSE IF SavedAll(ok, saving.version)
     THEN nav' = [pending |-> "none", saving |-> FALSE] /\ Finish(nav.pending)
     ELSE nav' = [nav EXCEPT !.saving = FALSE] /\ UNCHANGED <<view, ctl, call>>
  /\ UNCHANGED <<content, discarded, guard, quits, events, closes, ended>>

(***************************************************************************)
(* Navigation.                                                             *)
(***************************************************************************)
requestNavigation(target) ==
  IF hasDirty
  THEN /\ nav' = [nav EXCEPT !.pending = target]
       /\ ctl' = IF target = "close"
                 THEN [ctl EXCEPT !.resolving = TRUE, !.awaiting = TRUE] ELSE ctl
       /\ UNCHANGED <<view, call>>
  ELSE Finish(target) /\ UNCHANGED nav

\* A menu item or a link.
goto ==
  /\ Running
  /\ Registered
  /\ nav.pending = "none" /\ ~nav.saving
  /\ requestNavigation("goto")
  /\ UNCHANGED <<editor, guard, quits, events, closes, ended>>

\* "Save and continue": refused at once while a timed save is in flight.
saveAndContinueNavigation ==
  /\ Running
  /\ nav.pending # "none" /\ ~nav.saving
  /\ IF saving # NoSave THEN UNCHANGED <<saving, nav, view, ctl, call>>
     ELSE IF content # last
     THEN /\ saving' = [version |-> content, by |-> "dialog"]
          /\ nav' = [nav EXCEPT !.saving = TRUE]
          /\ UNCHANGED <<view, ctl, call>>
     ELSE /\ nav' = [nav EXCEPT !.pending = "none"]
          /\ Finish(nav.pending)
          /\ UNCHANGED saving
  /\ UNCHANGED <<content, last, stored, discarded, guard, quits, events, closes, ended>>

discardAndContinueNavigation ==
  /\ Running
  /\ nav.pending # "none" /\ ~nav.saving
  /\ last' = content /\ discarded' = content
  /\ nav' = [nav EXCEPT !.pending = "none"]
  /\ Finish(nav.pending)
  /\ UNCHANGED <<content, stored, saving, guard, quits, events, closes, ended>>

\* NativeCloseController.cancel: only a close that waits for the choice is given up.
Cancelled == IF ctl.awaiting THEN [ctl EXCEPT !.awaiting = FALSE, !.resolving = FALSE] ELSE ctl

cancel ==
  /\ Running
  /\ nav.pending # "none" /\ ~nav.saving
  /\ nav' = [nav EXCEPT !.pending = "none"]
  /\ ctl' = Cancelled
  /\ UNCHANGED <<editor, view, goside>>

\* The event is delivered; it is dropped while a close or another navigation is pending.
request ==
  /\ Running
  /\ events > 0
  /\ events' = events - 1
  /\ IF ctl.resolving \/ nav.pending # "none" THEN UNCHANGED <<front, call>>
     ELSE requestNavigation("close")
  /\ UNCHANGED <<editor, guard, quits, closes, ended>>

(***************************************************************************)
(* The Go side.                                                            *)
(***************************************************************************)
\* The frontend enables the guard once, after it listens for the event.
EnableNativeCloseGuard ==
  /\ Running
  /\ ~guard.ready
  /\ guard' = [ready |-> TRUE, permit |-> FALSE]
  /\ UNCHANGED <<editor, front, call, quits, events, closes, ended>>

\* The permit is granted and the lock released before Quit is called.
completeNativeClose ==
  /\ Running
  /\ call = "requested"
  /\ guard.ready
  /\ guard' = [guard EXCEPT !.permit = TRUE]
  /\ call' = "quitting"
  /\ UNCHANGED <<editor, front, quits, events, closes, ended>>

Asked(n) == n + 1

Quit ==
  /\ Running
  /\ call = "quitting"
  /\ call' = "done"
  /\ quits' = Asked(quits)
  /\ UNCHANGED <<editor, front, guard, events, closes, ended>>

\* The close button, the menu's Quit, or the keyboard.
NativeClose ==
  /\ Running
  /\ closes < MaxCloses
  /\ closes' = closes + 1
  /\ quits' = quits + 1
  /\ UNCHANGED <<editor, front, call, guard, events, ended>>

Taken(n) == n - 1

shouldPreventNativeClose == guard.ready /\ ~guard.permit

\* OnBeforeClose, in a goroutine of its own: closes, or vetoes and asks the frontend.
beforeClose ==
  /\ Running
  /\ quits > 0
  /\ quits' = Taken(quits)
  /\ guard' = [guard EXCEPT !.permit = FALSE]
  /\ IF shouldPreventNativeClose THEN events' = events + 1 /\ UNCHANGED ended
     ELSE ended' = (IF guard.ready THEN "guarded" ELSE "unguarded") /\ UNCHANGED events
  /\ UNCHANGED <<editor, front, call, closes>>

Next ==
  \/ Type \/ tick \/ (\E ok \in BOOLEAN : saveEntry(ok))
  \/ goto \/ saveAndContinueNavigation \/ discardAndContinueNavigation \/ cancel \/ request
  \/ EnableNativeCloseGuard \/ completeNativeClose \/ Quit \/ NativeClose \/ beforeClose

\* The bridge delivers calls, and the window toolkit runs OnBeforeClose.
Fairness == WF_vars(completeNativeClose) /\ WF_vars(Quit) /\ WF_vars(beforeClose)

Spec == Init /\ [][Next]_vars /\ Fairness

-----------------------------------------------------------------------------
\* Versions, flags and queues are within their bounds; no quit request is dispatched twice.
TypeOK ==
  /\ {content, last, stored, discarded, saving.version} \subseteq 0 .. MaxEdits
  /\ nav.pending \in {"none", "goto", "close"}
  /\ view \in {"editor", "other"} /\ call \in {"none", "requested", "quitting", "done"}
  /\ quits + events <= MaxCloses + 1
  /\ ended \in {"no", "unguarded", "guarded"}

\* Once the guard is on, the process does not end with work that is neither stored nor
\* discarded by the user, whatever was typed while saves, the dialog or the permit were on
\* their way (shouldPreventNativeClose, saveAll, NativeCloseController.request).
NoLostWork == ended = "guarded" => content \in {stored, discarded}

\* An editor that counts as clean is stored or was discarded: a save never makes a version
\* the baseline that was typed after the save began (saveEntry).
CleanMeansStored ==
  Registered /\ content = last /\ saving = NoSave => content \in {stored, discarded}

\* The controller never drops later requests without a way out: while it resolves one, the
\* dialog is up, or the page is locked and the permit is asked for, held, or has been used.
NotTrapped ==
  /\ ctl.resolving => nav.pending = "close" \/ ctl.locked
  /\ ctl.awaiting => nav.pending = "close"
  /\ ctl.locked /\ call \in {"quitting", "done"} => guard.permit \/ ~Running

Locked == ctl.locked

\* A page that is locked for closing is closed.
CloseEnds == Locked ~> ~Running
=============================================================================

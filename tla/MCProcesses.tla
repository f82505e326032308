---- MODULE MCProcesses ----
(***************************************************************************)
(* What runs beside each other: the analytics host and its worker, the     *)
(* worker's folder, a transport job and its listeners, the evidence of the *)
(* transports, signing with a time stamp, updates and the closing of the   *)
(* window, explored in one run.  A behaviour is of one of the parts; the   *)
(* variables of the others keep the value "off".                           *)
(***************************************************************************)
EXTENDS Integers, Sequences, FiniteSets, TLC, TLAPS, FiniteSetTheorems

CONSTANT Parts   \* the parts to explore
CONSTANTS Two,       \* two names: of host processes, goroutines
          NoConn,    \* no connection
          Jobs, QueueCap, Chunks, MaxEvents, Window,  \* of the analytics host
          Bundles,   \* signing bundles
          Selected   \* scenarios of the transports
CONSTANTS Callers,   \* calls that run beside each other: exports, updates
          Names, MaxJobs, MaxChanges,   \* of the worker's folder
          Worker, Strangers, Kids, Platforms, MaxDials,  \* of the transport job
          Own, Foreign,                                  \* of the listeners
          Transports, FaultSets, RunFaultSets,           \* of the transports' evidence
          Contents, Endpoints, Policy, MaxBundle, MaxReply, MaxTokens,  \* of signing
          Versions, Current, Digests, MaxReleased,                      \* of updates
          MaxEdits, MaxCloses  \* bounds of the closing: edits typed, closes asked for

VARIABLE part    \* the part a behaviour is of: only its variables move
VARIABLES hostJob, hostLate, hostPc, outcome, want, hostLog, batches, endpoint, proc, child,
          forkSeen, waiter, reused, harmed, conn, used, stream, wire, said, receiver,
          sender, hostQueue, ack, sendErr, hostStop, uploader, sourceErr, sentChunks,
          leases, hostNext, granted
VARIABLES at, meta, altered, touched, lock, host, worker, jobs, changes
VARIABLES platform, jobPc, jobWorker, kid, attached, exited, expect, live, boot, jobEndpoint,
          listener, dialled, admitted, dials, jobUsed, session, jobBy, nilSeen,
          jobDone, jobResult
VARIABLES pipeExpect, closed, state, runner, running, failed, up, acc, pair, client,
          handle, closes, badUse, gate, accepting, pipeUsed, apc
VARIABLES evidenceT, evidenceAt, evidenceHs, evidenceLast, evidenceAll
VARIABLES req, issued, nonces
VARIABLES released, files, temps, calls, launched
VARIABLES content, last, stored, saving, discarded, view, nav, ctl, call, guard, quits,
          events, closeCloses, ended

-----------------------------------------------------------------------------
\* The jobs of the analytics host.
HostJob(kind, fault, cancel, proof, forks) ==
    [kind |-> kind, fault |-> fault, cancel |-> cancel, proof |-> proof, forks |-> forks]
SafetyJobs ==
    {HostJob("upload", "none", 1, TRUE, FALSE), HostJob("plain", "none", 0, FALSE, FALSE),
     HostJob("plain", "none", 0, TRUE, TRUE)}
    \cup {HostJob("range", f, 0, TRUE, FALSE) : f \in {"none", "kill", "crash", "cancel"}}
    \cup {HostJob("stream", "none", 0, TRUE, FALSE)}
LiveJobs == {HostJob("upload", "none", 1, TRUE, FALSE), HostJob("stream", "none", 0, TRUE, FALSE)}

\* The signing bundles: the issuing chain before the leaf, no leaf, no key, two
\* keys, an EC key, a damaged certificate, and a file that grows after it was
\* looked at.
Key(k) == [k |-> "key", key |-> k, rsa |-> TRUE]
Cert(k) == [k |-> "cert", key |-> k, parses |-> TRUE]
Bundle(blocks) == [stat |-> 1, read |-> 1, blocks |-> blocks]
MCBundles == { Bundle(<<Key(1), Cert(9), Cert(1)>>), Bundle(<<Key(1), Cert(9)>>),
               Bundle(<<Cert(1)>>), Bundle(<<Key(1), Key(2), Cert(1)>>),
               Bundle(<<[Key(1) EXCEPT !.rsa = FALSE], Cert(1)>>),
               Bundle(<<Key(1), [Cert(1) EXCEPT !.parses = FALSE]>>),
               [Bundle(<<Key(1), Cert(1)>>) EXCEPT !.read = 2] }

\* The platforms of a transport job: Windows, Unix, and one that does not name
\* the peer of a connection.
MCPlatforms == {[peer |-> TRUE, suspended |-> TRUE, leave |-> FALSE],
                [peer |-> TRUE, suspended |-> FALSE, leave |-> TRUE],
                [peer |-> FALSE, suspended |-> FALSE, leave |-> FALSE]}
LivePlatforms == {p \in MCPlatforms : ~p.leave}

\* All scenarios of the transports' evidence; at most two faults in a job and one
\* in each of several jobs.
MCTransports == <<"npipe", "uds">>
Scenarios == INSTANCE Evidence WITH
    Selected <- {}, FaultSets <- {}, RunFaultSets <- {},
    t <- 0, at <- 0, hs <- 0, last <- 0, all <- 0
MCSelected == {Scenarios!PerTransport[i] : i \in DOMAIN Scenarios!PerTransport}
              \cup {Scenarios!PerOS[i] : i \in DOMAIN Scenarios!PerOS}
MCRunFaultSets == {{}} \cup {{f} : f \in Scenarios!Faults}
MCFaultSets == {F \cup G : F, G \in MCRunFaultSets}

\* The watch of the worker's exit works (waitid, kqueue).
Host == INSTANCE AnalyticsHost WITH
    WatchMayFail <- FALSE, job <- hostJob, late <- hostLate, pc <- hostPc,
    log <- hostLog, queue <- hostQueue, stop <- hostStop, next <- hostNext
Folder == INSTANCE WorkerContainer WITH Hosts <- Two
Job == INSTANCE TransportJob WITH
    pc <- jobPc, worker <- jobWorker, endpoint <- jobEndpoint, used <- jobUsed,
    by <- jobBy, done <- jobDone, result <- jobResult
Pipes == INSTANCE PipeListeners WITH
    Acceptors <- Two, expect <- pipeExpect, used <- pipeUsed
Evidence == INSTANCE Evidence WITH
    t <- evidenceT, at <- evidenceAt, hs <- evidenceHs, last <- evidenceLast,
    all <- evidenceAll
Signing == INSTANCE Signing WITH Requests <- Callers
Update == INSTANCE Update WITH Calls <- Callers
Close == INSTANCE CloseGuard WITH closes <- closeCloses

ASSUME PartsAssumption ==
       /\ Host!BoundsAssumption /\ Folder!BoundsAssumption
       /\ Job!TransportAssumption /\ Pipes!PipeAssumption /\ Evidence!EvidenceAssumption
       /\ Update!VersionsAssumption /\ Close!CloseBounds

hostVars == <<hostJob, hostLate, hostPc, outcome, want, hostLog, batches, endpoint, proc, child,
              forkSeen, waiter, reused, harmed, conn, used, stream, wire, said,
              receiver, sender, hostQueue, ack, sendErr, hostStop, uploader, sourceErr,
              sentChunks, leases, hostNext, granted>>
folderVars == <<at, meta, altered, touched, lock, host, worker, jobs, changes>>
jobVars == <<platform, jobPc, jobWorker, kid, attached, exited, expect, live, boot, jobEndpoint,
             listener, dialled, admitted, dials, jobUsed, session, jobBy, nilSeen,
             jobDone, jobResult>>
pipeVars == <<pipeExpect, closed, state, runner, running, failed, up, acc, pair,
              client, handle, closes, badUse, gate, accepting, pipeUsed, apc>>
evidenceVars == <<evidenceT, evidenceAt, evidenceHs, evidenceLast, evidenceAll>>
signingVars == <<req, issued, nonces>>
updateVars == <<released, files, temps, calls, launched>>
closeVars == <<content, last, stored, saving, discarded, view, nav, ctl, call, guard,
               quits, events, closeCloses, ended>>
vars == <<part, hostVars, folderVars, jobVars, pipeVars, evidenceVars, signingVars,
          updateVars, closeVars>>

\* The value of a variable of the parts that do not move.
Off == "off"

Init ==
    /\ part \in Parts
    /\ IF part = "host" THEN Host!Init
       ELSE hostJob = Off /\ hostLate = Off /\ hostPc = Off /\ outcome = Off /\
            want = Off /\ hostLog = Off /\ batches = Off /\ endpoint = Off /\ proc = Off /\
            child = Off /\ forkSeen = Off /\ waiter = Off /\ reused = Off /\
            harmed = Off /\ conn = Off /\ used = Off /\ stream = Off /\ wire = Off /\
            said = Off /\ receiver = Off /\ sender = Off /\ hostQueue = Off /\
            ack = Off /\ sendErr = Off /\ hostStop = Off /\ uploader = Off /\
            sourceErr = Off /\ sentChunks = Off /\ leases = Off /\ hostNext = Off /\
            granted = Off
    /\ IF part = "folder" THEN Folder!Init
       ELSE at = Off /\ meta = Off /\ altered = Off /\ touched = Off /\ lock = Off /\
            host = Off /\ worker = Off /\ jobs = Off /\ changes = Off
    /\ IF part = "job" THEN Job!Init
       ELSE platform = Off /\ jobPc = Off /\ jobWorker = Off /\ kid = Off /\ attached = Off /\
            exited = Off /\ expect = Off /\ live = Off /\ boot = Off /\
            jobEndpoint = Off /\ listener = Off /\ dialled = Off /\ admitted = Off /\
            dials = Off /\ jobUsed = Off /\ session = Off /\ jobBy = Off /\
            nilSeen = Off /\ jobDone = Off /\ jobResult = Off
    /\ IF part = "pipes" THEN Pipes!Init
       ELSE pipeExpect = Off /\ closed = Off /\ state = Off /\ runner = Off /\
            running = Off /\ failed = Off /\ up = Off /\ acc = Off /\ pair = Off /\
            client = Off /\ handle = Off /\ closes = Off /\ badUse = Off /\
            gate = Off /\ accepting = Off /\ pipeUsed = Off /\ apc = Off
    /\ IF part = "evidence" THEN Evidence!Init
       ELSE evidenceT = Off /\ evidenceAt = Off /\ evidenceHs = Off /\
            evidenceLast = Off /\ evidenceAll = Off
    /\ IF part = "signing" THEN Signing!Init
       ELSE req = Off /\ issued = Off /\ nonces = Off
    /\ IF part = "update" THEN Update!Init
       ELSE released = Off /\ files = Off /\ temps = Off /\ calls = Off /\
            launched = Off
    /\ IF part = "close" THEN Close!Init
       ELSE content = Off /\ last = Off /\ stored = Off /\ saving = Off /\
            discarded = Off /\ view = Off /\ nav = Off /\ ctl = Off /\ call = Off /\
            guard = Off /\ quits = Off /\ events = Off /\ closeCloses = Off /\
            ended = Off

Next ==
    /\ UNCHANGED part
    /\ IF part = "host" THEN Host!Next
       ELSE UNCHANGED hostVars
    /\ IF part = "folder" THEN Folder!Next ELSE UNCHANGED folderVars
    /\ IF part = "job" THEN Job!Next ELSE UNCHANGED jobVars
    /\ IF part = "pipes" THEN Pipes!Next ELSE UNCHANGED pipeVars
    /\ IF part = "evidence" THEN Evidence!Next ELSE UNCHANGED evidenceVars
    /\ IF part = "signing" THEN Signing!Next ELSE UNCHANGED signingVars
    /\ IF part = "update" THEN Update!Next ELSE UNCHANGED updateVars
    /\ IF part = "close" THEN Close!Next ELSE UNCHANGED closeVars

Spec == Init /\ [][Next]_vars

\* What the code's scheduling guarantees to go on, part by part: goroutines of
\* the host, time-outs, and the bridge that delivers calls.  Nothing is assumed
\* of the worker, of the network or of the user.
Fairness ==
    /\ WF_hostVars(part = "host" /\ Host!Driver)
    /\ WF_hostVars(part = "host" /\ Host!Tick)
    /\ WF_hostVars(part = "host" /\ Host!StreamEnds)
    /\ WF_hostVars(part = "host" /\ Host!SenderStops)
    /\ WF_hostVars(part = "host" /\ Host!ReceiverStops)
    /\ WF_hostVars(part = "host" /\ Host!WatchReturns)
    /\ WF_hostVars(part = "host" /\ Host!Reap)
    /\ WF_hostVars(part = "host" /\ Host!Upload)
    /\ WF_hostVars(part = "host" /\ Host!SentLate)
    /\ WF_hostVars(part = "host" /\ Host!Dies)
    /\ WF_jobVars(part = "job" /\ Job!Host)
    /\ WF_jobVars(part = "job" /\ (Job!Hello \/ Job!DriveEnds))
    /\ WF_jobVars(part = "job" /\ Job!Reap)
    /\ \A i \in Callers :
         /\ WF_updateVars(part = "update" /\ Update!Step(i))
         /\ WF_signingVars(part = "signing" /\ Signing!Load(i))
         /\ WF_signingVars(part = "signing" /\ Signing!Make(i))
         /\ WF_signingVars(part = "signing" /\ Signing!Timeout(i))
         /\ WF_signingVars(part = "signing" /\ Signing!Embed(i))
    /\ WF_closeVars(part = "close" /\ Close!completeNativeClose)
    /\ WF_closeVars(part = "close" /\ Close!Quit)
    /\ WF_closeVars(part = "close" /\ Close!beforeClose)

FairSpec == Spec /\ Fairness

-----------------------------------------------------------------------------
\* The analytics worker (Run, sendSource, Container): a job is completed only by
\* verified events of the launched worker, nothing of it is left when Run
\* returns, a worker that forked is never accepted, no other process is
\* signalled, a chunk in flight has its lease, and no sweep leaves the folder.
WorkersContained ==
    /\ part = "host" => /\ Host!TypeOK
                        /\ Host!CompletedGenuine
                        /\ Host!NothingLeft
                        /\ Host!ForkFailsClosed
                        /\ Host!LeaseCoversSend
                        /\ Host!OnlyTheWorkerSignalled
    /\ part = "folder" => Folder!TypeOK /\ Folder!OutsideUntouched

\* A job never starts on what an earlier job or host left in the worker's folder,
\* however hosts die and workers outlive them (Container.Do).
JobsStartOnBaseline == [][part = "folder" => Folder!JobStartsOnBaseline]_vars

\* A transport job, its listeners and the report on it (runJob, pairListener,
\* singlePipe, main): only the launched worker is served and no connection is
\* leaked or closed twice, no process or endpoint is left, the results are read
\* when they are settled, and a failed or unrun check never becomes a PASS.
TransportsHonest ==
    /\ part = "job" => /\ Job!TypeOK
                       /\ Job!OnlyTheWorkerDrives
                       /\ Job!NoOrphans
                       /\ Job!ResultsSettled
    /\ part = "pipes" => /\ Pipes!TypeOK
                         /\ Pipes!NoHalfLeaked
                         /\ Pipes!OnlyExpectedHanded
                         /\ Pipes!HandleClosedOnce
    /\ part = "evidence" => /\ Evidence!TypeOK
                            /\ Evidence!FailureStands
                            /\ Evidence!UnrunNeverPasses
                            /\ Evidence!GatedByHandshake
                            /\ Evidence!AllReported

\* Signatures and updates (SignPDF with a timestamp, DownloadAndInstall): a
\* token in a file answers this very request, a signature verifies and is not
\* quietly downgraded, "verified" means configured roots; an artifact under its
\* final name, and what is handed to the installer, is one the pipeline signed.
NothingForged ==
    /\ part = "signing" => /\ Signing!TypeOK
                           /\ Signing!TokenAnswersRequest
                           /\ Signing!TrustMeansRoots
                           /\ Signing!SignatureVerifies
                           /\ Signing!NoDowngrade
    /\ part = "update" => Update!TypeOK /\ Update!FilesVerified /\ Update!LaunchedGenuine

\* Closing the window (NativeCloseController, CompleteNativeClose, saveEntry): the
\* process does not end with work neither stored nor discarded, an editor that
\* counts as clean is stored, and a request to close is never swallowed.
NoLostWork ==
    part = "close" => /\ Close!TypeOK
                      /\ Close!NoLostWork
                      /\ Close!CleanMeansStored
                      /\ Close!NotTrapped

\* Every run of the analytics host and every transport job returns, whatever
\* the worker does (the deadlines, the grace and the kill of Run and runJob), as
\* long as nothing it started can leave its tree with the output open.
JobsReturn ==
    <>(/\ part = "host" => Host!Returned
       /\ part = "job" /\ ~Job!KidsMayLeave => Job!Returned)

Waits(i) ==
    \/ part = "update" /\ Update!Busy(i)
    \/ part = "signing" /\ Signing!Waiting(i)
    \/ part = "close" /\ Close!Locked

Settled(i) ==
    /\ part = "update" => ~Update!Busy(i)
    /\ part = "signing" => Signing!Ended(i)
    /\ part = "close" => ~Close!Running

\* Every check for an update, every installation and every export that waits for
\* a time stamp ends whatever the network does, and a page locked for closing is
\* closed (the time-outs of CheckLatest, downloadVerified and the timestamp
\* client; completeNativeClose).
CallsEnd == \A i \in Callers : Waits(i) ~> Settled(i)

\* The two names are interchangeable wherever they are used.
Symmetry == Permutations(Two)

-----------------------------------------------------------------------------
(* Proofs: the window does not close over unsaved work *)

\* What the editor and its saves hold.
CloseEditorTypes ==
    /\ content \in 0 .. MaxEdits /\ last \in 0 .. MaxEdits /\ stored \in 0 .. MaxEdits
    /\ discarded \in 0 .. MaxEdits
    /\ saving \in [version : 0 .. MaxEdits, by : {"none", "tick", "dialog"}]
    /\ view \in {"editor", "other"}

\* What the dialog, the controller and the Go side hold.
CloseGuardTypes ==
    /\ nav \in [pending : {"none", "goto", "close"}, saving : BOOLEAN]
    /\ ctl \in [resolving : BOOLEAN, awaiting : BOOLEAN, locked : BOOLEAN]
    /\ call \in {"none", "requested", "quitting", "done"}
    /\ guard \in [ready : BOOLEAN, permit : BOOLEAN]
    /\ quits \in Nat /\ events \in Nat /\ closeCloses \in Nat
    /\ ended \in {"no", "unguarded", "guarded"}

\* The requests to close and the events: one for each close the user asked for, and one
\* of the frontend's own once it has called Quit.
CloseRequests ==
    /\ closeCloses <= MaxCloses
    /\ call # "done" => quits + events <= closeCloses
    /\ quits + events <= closeCloses + 1

\* No baseline is newer than the content, and an editor that is clean, or was made clean
\* by a discard while a save runs, holds what is stored or was discarded.
CloseBaseline ==
    /\ last <= content /\ saving.version <= content
    /\ saving # Close!NoSave => saving.by # "none"
    /\ view = "editor" /\ content = last /\ saving = Close!NoSave =>
           content \in {stored, discarded}
    /\ content = last /\ saving # Close!NoSave /\ view = "editor" => content = discarded

\* The content at rest: discarded, or stored with no save on its way that could replace it.
CloseAtRest ==
    \/ content = discarded
    \/ content = stored /\ saving = Close!NoSave /\ (view = "editor" => content = last)

\* A page that is locked or left is at rest, and takes no input any more.
CloseLeft == ctl.locked \/ view = "other" => CloseAtRest

\* The one way to the permit: a lock, which comes from one close that was resolved.
CloseLocks ==
    /\ ctl.resolving => nav.pending = "close" \/ ctl.locked
    /\ ctl.awaiting <=> nav.pending = "close"
    /\ view = "other" => nav.pending = "none"
    /\ ctl.locked => ctl.resolving /\ nav.pending # "close"
    /\ ctl.locked <=> call # "none"
    /\ guard.permit => guard.ready /\ call \in {"quitting", "done"}
    /\ call \in {"quitting", "done"} => guard.permit \/ ended # "no"
    /\ ended = "guarded" => ctl.locked

\* The inductive invariant of the closing.
CloseInv ==
    /\ CloseEditorTypes /\ CloseGuardTypes /\ CloseRequests
    /\ CloseBaseline /\ CloseLeft /\ CloseLocks

LEMMA CloseInit == ASSUME Close!CloseBounds, Close!Init PROVE CloseInv
  BY DEF Close!CloseBounds, Close!Init, Close!NoSave, CloseInv, CloseEditorTypes, CloseGuardTypes,
         CloseRequests, CloseBaseline, CloseLeft, CloseAtRest, CloseLocks

\* Where a navigation that may go on leads: the content is at rest, so the view changes
\* or the page is locked.
LEMMA CloseFinish ==
  ASSUME CloseInv, NEW target \in {"none", "goto", "close"}, Close!Finish(target),
         target = "close" => nav.pending = "close" \/ ~ctl.resolving
  PROVE  /\ view' \in {"editor", "other"}
         /\ ctl' \in [resolving : BOOLEAN, awaiting : BOOLEAN, locked : BOOLEAN]
         /\ call' \in {"none", "requested", "quitting", "done"}
         /\ view = "other" => view' = "other"
         /\ view' = "other" => view = "other" \/ target # "close"
         /\ ctl.locked => ctl'.locked
         /\ ctl'.locked => ctl'.resolving
         /\ ctl'.locked <=> call' # "none"
         /\ ctl'.resolving => ctl.resolving \/ ctl'.locked
         /\ ctl'.awaiting => ctl.awaiting /\ target # "close"
         /\ \/ call' = call
            \/ call = "none" /\ call' = "requested"
<1>1. CASE target = "close"
  <2>1. /\ ctl' = [ctl EXCEPT !.resolving = TRUE, !.awaiting = FALSE, !.locked = TRUE]
        /\ call' = "requested" /\ view' = view
    BY <1>1 DEF Close!Finish
  <2>2. call = "none"  BY <1>1 DEF CloseInv, CloseLocks
  <2>3. ctl'.resolving = TRUE /\ ctl'.awaiting = FALSE /\ ctl'.locked = TRUE
    BY <2>1 DEF CloseInv, CloseGuardTypes
  <2>4. ctl' \in [resolving : BOOLEAN, awaiting : BOOLEAN, locked : BOOLEAN]
    BY <2>1 DEF CloseInv, CloseGuardTypes
  <2> QED  BY <2>1, <2>2, <2>3, <2>4 DEF CloseInv, CloseEditorTypes
<1>2. CASE target # "close"
  <2>1. view' = "other" /\ ctl' = ctl /\ call' = call  BY <1>2 DEF Close!Finish
  <2> QED  BY <1>2, <2>1 DEF CloseInv, CloseGuardTypes, CloseLocks
<1> QED  BY <1>1, <1>2

\* Typing and the heartbeat.
LEMMA CloseEdits ==
  ASSUME Close!CloseBounds, CloseInv, Close!Type \/ Close!tick
  PROVE  CloseInv'
<1>1. /\ UNCHANGED <<last, stored, discarded, view, nav, ctl, call, guard, quits, events,
                      closeCloses, ended>>
      /\ ended = "no" /\ view = "editor"
  BY DEF Close!Type, Close!tick, Close!front, Close!goside, Close!Running, Close!Registered
<1>2. CloseGuardTypes' /\ CloseRequests' /\ CloseLocks'
  BY <1>1 DEF CloseInv, CloseGuardTypes, CloseRequests, CloseLocks
<1>3. CASE Close!Type
  <2>1. /\ ~ctl.locked /\ content < MaxEdits /\ content' = content + 1 /\ saving' = saving
    BY <1>3 DEF Close!Type
  <2> QED
    BY <1>1, <1>2, <2>1
    DEF CloseInv, CloseEditorTypes, CloseBaseline, CloseLeft, Close!NoSave, Close!CloseBounds
<1>4. CASE Close!tick
  <2>1. /\ saving = Close!NoSave /\ content # last /\ content' = content
        /\ saving' = [version |-> content, by |-> "tick"]
    BY <1>4 DEF Close!tick
  <2>2. saving' # Close!NoSave /\ saving'.by = "tick" /\ saving'.version = content
    BY <2>1 DEF Close!NoSave
  <2>3. CloseEditorTypes'  BY <1>1, <2>1 DEF CloseInv, CloseEditorTypes
  <2>4. CloseBaseline'
    BY <1>1, <2>1, <2>2 DEF CloseInv, CloseEditorTypes, CloseBaseline
  <2>5. CloseLeft'
    BY <1>1, <2>1, <2>2 DEF CloseInv, CloseLeft, CloseAtRest
  <2> QED  BY <1>2, <2>3, <2>4, <2>5 DEF CloseInv
<1> QED  BY <1>3, <1>4

\* A save returns.
LEMMA CloseSaves ==
  ASSUME Close!CloseBounds, CloseInv, NEW ok \in BOOLEAN, Close!saveEntry(ok)
  PROVE  CloseInv'
<1>1. /\ UNCHANGED <<content, discarded, guard, quits, events, closeCloses, ended>>
      /\ saving # Close!NoSave /\ saving' = Close!NoSave /\ ended = "no"
      /\ stored' = IF ok THEN saving.version ELSE stored
      /\ last' = IF ok /\ view = "editor" THEN saving.version ELSE last
  BY DEF Close!saveEntry, Close!Running, Close!Registered, Close!Baseline
<1>2. \/ UNCHANGED <<nav, view, ctl, call>>
      \/ /\ ok /\ content = saving.version
         /\ nav' = [pending |-> "none", saving |-> FALSE] /\ Close!Finish(nav.pending)
      \/ nav' = [nav EXCEPT !.saving = FALSE] /\ UNCHANGED <<view, ctl, call>>
  BY DEF Close!saveEntry, Close!SavedAll
<1>3. /\ nav \in [pending : {"none", "goto", "close"}, saving : BOOLEAN]
      /\ saving.version \in 0 .. MaxEdits /\ saving.version <= content
  BY DEF CloseInv, CloseGuardTypes, CloseEditorTypes, CloseBaseline
<1>4. /\ nav' \in [pending : {"none", "goto", "close"}, saving : BOOLEAN]
      /\ \/ /\ ok /\ content = saving.version
            /\ nav'.pending = "none" /\ Close!Finish(nav.pending)
         \/ nav'.pending = nav.pending /\ UNCHANGED <<view, ctl, call>>
  <2>1. CASE nav' = nav  BY <1>2, <1>3, <2>1
  <2>2. CASE nav' = [pending |-> "none", saving |-> FALSE]  BY <1>2, <1>3, <2>2
  <2>3. CASE nav' = [nav EXCEPT !.saving = FALSE]
    <3>1. nav' \in [pending : {"none", "goto", "close"}, saving : BOOLEAN]  BY <1>3, <2>3
    <3>2. nav'.pending = nav.pending  BY <1>3, <2>3
    <3>3. nav.pending = "none" => nav'.pending = "none"  BY <3>2
    <3> QED  BY <1>2, <3>1, <3>2
  <2> QED  BY <1>2, <2>1, <2>2, <2>3
<1>5. /\ view' \in {"editor", "other"}
      /\ ctl' \in [resolving : BOOLEAN, awaiting : BOOLEAN, locked : BOOLEAN]
      /\ call' \in {"none", "requested", "quitting", "done"}
      /\ view = "other" => view' = "other"
      /\ ctl.locked => ctl'.locked
      /\ ctl'.locked => ctl'.resolving
      /\ ctl'.locked <=> call' # "none"
      /\ ctl'.resolving => ctl.resolving \/ ctl'.locked
      /\ call' = call \/ (call = "none" /\ call' = "requested")
  <2>1. CASE Close!Finish(nav.pending)
    <3>1. nav.pending \in {"none", "goto", "close"}  BY <1>3
    <3> QED  BY <2>1, <3>1, CloseFinish
  <2>2. CASE UNCHANGED <<view, ctl, call>>
    BY <2>2 DEF CloseInv, CloseEditorTypes, CloseGuardTypes, CloseLocks
  <2> QED  BY <1>4, <2>1, <2>2
<1>6. CloseEditorTypes'
  BY <1>1, <1>3, <1>5 DEF CloseInv, CloseEditorTypes, Close!NoSave, Close!CloseBounds
<1>7. CloseGuardTypes'  BY <1>1, <1>4, <1>5 DEF CloseInv, CloseGuardTypes
<1>8. CloseRequests'  BY <1>1, <1>5 DEF CloseInv, CloseRequests
<1>9. CloseBaseline'
  BY <1>1, <1>3, <1>5 DEF CloseInv, CloseBaseline, CloseEditorTypes, Close!NoSave
<1>10. CloseLeft'
  <2>1. CASE ok /\ content = saving.version
    BY <1>1, <1>5, <2>1 DEF CloseInv, CloseEditorTypes, CloseLeft, CloseAtRest
  <2>2. CASE UNCHANGED <<view, ctl, call>>
    <3>1. ctl.locked \/ view = "other" => content = discarded
      BY <1>1 DEF CloseInv, CloseLeft, CloseAtRest
    <3> QED  BY <1>1, <2>2, <3>1 DEF CloseLeft, CloseAtRest
  <2> QED  BY <1>4, <2>1, <2>2
<1>11. CloseLocks'
  <2>1. CASE nav'.pending = "none" /\ Close!Finish(nav.pending)
    <3>1. nav.pending \in {"none", "goto", "close"}  BY <1>3
    <3>2. ctl'.awaiting => ctl.awaiting /\ nav.pending # "close"
      BY <2>1, <3>1, CloseFinish
    <3>3. ~ctl'.awaiting  BY <3>2 DEF CloseInv, CloseLocks
    <3>4. ctl'.resolving => ctl'.locked
      <4>1. CASE nav.pending = "close"
        BY <1>3, <2>1, <4>1 DEF Close!Finish, CloseInv, CloseGuardTypes
      <4>2. CASE nav.pending # "close"  BY <1>5, <4>2 DEF CloseInv, CloseLocks
      <4> QED  BY <4>1, <4>2
    <3> QED  BY <1>1, <1>5, <2>1, <3>3, <3>4 DEF CloseInv, CloseLocks
  <2>2. CASE nav'.pending = nav.pending /\ UNCHANGED <<view, ctl, call>>
    BY <1>1, <2>2 DEF CloseInv, CloseLocks
  <2> QED  BY <1>4, <2>1, <2>2
<1> QED  BY <1>6, <1>7, <1>8, <1>9, <1>10, <1>11 DEF CloseInv

\* A navigation to a view or to the end is asked for.
LEMMA CloseRequested ==
  ASSUME CloseInv, NEW target \in {"goto", "close"}, Close!requestNavigation(target),
         nav.pending = "none", target = "close" => ~ctl.resolving,
         UNCHANGED <<content, last, stored, saving, discarded, guard, ended>>
  PROVE  /\ CloseEditorTypes' /\ CloseBaseline' /\ CloseLeft' /\ CloseLocks'
         /\ nav' \in [pending : {"none", "goto", "close"}, saving : BOOLEAN]
         /\ ctl' \in [resolving : BOOLEAN, awaiting : BOOLEAN, locked : BOOLEAN]
         /\ call' \in {"none", "requested", "quitting", "done"}
         /\ call' = call \/ (call = "none" /\ call' = "requested")
<1>0. nav \in [pending : {"none", "goto", "close"}, saving : BOOLEAN]
  BY DEF CloseInv, CloseGuardTypes
<1>1. CASE Close!hasDirty
  <2>1. /\ nav' = [nav EXCEPT !.pending = target] /\ view' = view /\ call' = call
        /\ ctl' = IF target = "close" THEN [ctl EXCEPT !.resolving = TRUE, !.awaiting = TRUE]
                                      ELSE ctl
    BY <1>1 DEF Close!requestNavigation
  <2>2. /\ nav' \in [pending : {"none", "goto", "close"}, saving : BOOLEAN]
        /\ nav'.pending = target
    BY <1>0, <2>1
  <2>3. /\ ctl' \in [resolving : BOOLEAN, awaiting : BOOLEAN, locked : BOOLEAN]
        /\ ctl'.locked = ctl.locked
        /\ target = "close" => ctl'.resolving = TRUE /\ ctl'.awaiting = TRUE
        /\ target # "close" => ctl' = ctl
    BY <2>1 DEF CloseInv, CloseGuardTypes
  <2>4. CloseEditorTypes' /\ CloseBaseline' /\ CloseLeft'
    BY <2>1, <2>3 DEF CloseInv, CloseEditorTypes, CloseBaseline, CloseLeft, CloseAtRest
  <2>5. view = "editor"  BY <1>1 DEF Close!hasDirty, Close!Registered
  <2>6. CloseLocks'  BY <2>1, <2>2, <2>3, <2>5 DEF CloseInv, CloseLocks
  <2> QED  BY <2>1, <2>2, <2>3, <2>4, <2>6 DEF CloseInv, CloseGuardTypes
<1>2. CASE ~Close!hasDirty
  <2>1. Close!Finish(target) /\ nav' = nav  BY <1>2 DEF Close!requestNavigation
  <2>2. CloseAtRest
    BY <1>2
    DEF Close!hasDirty, Close!Registered, CloseInv, CloseEditorTypes, CloseBaseline, CloseLeft,
        CloseAtRest
  <2>3. /\ view' \in {"editor", "other"}
        /\ ctl' \in [resolving : BOOLEAN, awaiting : BOOLEAN, locked : BOOLEAN]
        /\ call' \in {"none", "requested", "quitting", "done"}
        /\ view = "other" => view' = "other"
        /\ ctl'.locked => ctl'.resolving
        /\ ctl'.locked <=> call' # "none"
        /\ ctl'.resolving => ctl.resolving \/ ctl'.locked
        /\ ctl.locked => ctl'.locked
        /\ ctl'.awaiting => ctl.awaiting
        /\ call' = call \/ (call = "none" /\ call' = "requested")
    BY <2>1, CloseFinish
  <2>4. CloseEditorTypes' /\ CloseBaseline' /\ CloseLeft'
    BY <2>2, <2>3 DEF CloseInv, CloseEditorTypes, CloseBaseline, CloseLeft, CloseAtRest
  <2>5. CloseLocks'  BY <2>1, <2>3 DEF CloseInv, CloseLocks
  <2> QED  BY <1>0, <2>1, <2>3, <2>4, <2>5
<1> QED  BY <1>1, <1>2

\* A link, and the event of the Go side.
LEMMA CloseNavigates ==
  ASSUME Close!CloseBounds, CloseInv, Close!goto \/ Close!request
  PROVE  CloseInv'
<1>1. UNCHANGED <<content, last, stored, saving, discarded, guard, quits, closeCloses, ended>>
  BY DEF Close!goto, Close!request, Close!editor
<1>2. CASE Close!goto
  <2>1. nav.pending = "none" /\ Close!requestNavigation("goto") /\ events' = events
    BY <1>2 DEF Close!goto
  <2> QED
    BY <1>1, <2>1, CloseRequested DEF CloseInv, CloseGuardTypes, CloseRequests
<1>3. CASE Close!request
  <2>1. events > 0 /\ events' = events - 1  BY <1>3 DEF Close!request
  <2>2. CASE UNCHANGED <<view, nav, ctl, call>>
    BY <1>1, <2>1, <2>2
    DEF CloseInv, CloseEditorTypes, CloseGuardTypes, CloseRequests, CloseBaseline, CloseLeft,
        CloseAtRest, CloseLocks
  <2>3. CASE ~(ctl.resolving \/ nav.pending # "none")
    <3>1. Close!requestNavigation("close")  BY <1>3, <2>3 DEF Close!request
    <3> QED
      BY <1>1, <2>1, <2>3, <3>1, CloseRequested DEF CloseInv, CloseGuardTypes, CloseRequests
  <2> QED  BY <1>3, <2>2, <2>3 DEF Close!request, Close!front
<1> QED  BY <1>2, <1>3

\* The three answers to the dialog.
LEMMA CloseAnswers ==
  ASSUME Close!CloseBounds, CloseInv,
         \/ Close!saveAndContinueNavigation \/ Close!discardAndContinueNavigation
         \/ Close!cancel
  PROVE  CloseInv'
<1>0. /\ nav \in [pending : {"none", "goto", "close"}, saving : BOOLEAN]
      /\ nav.pending \in {"none", "goto", "close"} /\ nav.pending # "none" /\ ended = "no"
  BY DEF CloseInv, CloseGuardTypes, Close!saveAndContinueNavigation,
         Close!discardAndContinueNavigation, Close!cancel, Close!Running
<1>1. /\ UNCHANGED <<content, stored, guard, quits, events, closeCloses, ended>>
  BY DEF Close!saveAndContinueNavigation, Close!discardAndContinueNavigation, Close!cancel,
         Close!editor, Close!goside
<1>2. ASSUME nav' = [nav EXCEPT !.pending = "none"], Close!Finish(nav.pending),
             CloseAtRest', CloseEditorTypes' \/ view' \notin {"editor", "other"}, CloseBaseline'
      PROVE  CloseInv'
  <2>1. /\ view' \in {"editor", "other"}
        /\ ctl' \in [resolving : BOOLEAN, awaiting : BOOLEAN, locked : BOOLEAN]
        /\ call' \in {"none", "requested", "quitting", "done"}
        /\ ctl.locked => ctl'.locked
        /\ ctl'.locked => ctl'.resolving
        /\ ctl'.locked <=> call' # "none"
        /\ ctl'.resolving => ctl.resolving \/ ctl'.locked
        /\ ctl'.awaiting => ctl.awaiting /\ nav.pending # "close"
        /\ call' = call \/ (call = "none" /\ call' = "requested")
    BY <1>0, <1>2, CloseFinish
  <2>2. /\ nav' \in [pending : {"none", "goto", "close"}, saving : BOOLEAN]
        /\ nav'.pending = "none"
    BY <1>0, <1>2
  <2>3. ~ctl'.awaiting  BY <2>1 DEF CloseInv, CloseLocks
  <2>4. ctl'.resolving => ctl'.locked
    <3>1. CASE nav.pending = "close"
      BY <1>2, <3>1 DEF Close!Finish, CloseInv, CloseGuardTypes
    <3>2. CASE nav.pending # "close"  BY <2>1, <3>2 DEF CloseInv, CloseLocks
    <3> QED  BY <3>1, <3>2
  <2>5. CloseLocks'  BY <1>1, <2>1, <2>2, <2>3, <2>4 DEF CloseInv, CloseLocks
  <2>6. CloseLeft' /\ CloseEditorTypes'  BY <1>2, <2>1 DEF CloseLeft
  <2>7. CloseGuardTypes' /\ CloseRequests'
    BY <1>1, <2>1, <2>2 DEF CloseInv, CloseGuardTypes, CloseRequests
  <2> QED  BY <1>2, <2>5, <2>6, <2>7 DEF CloseInv
<1>3. CASE Close!saveAndContinueNavigation
  <2>1. last' = last /\ discarded' = discarded
    BY <1>3 DEF Close!saveAndContinueNavigation
  <2>2. CASE saving # Close!NoSave
    <3>1. UNCHANGED <<saving, nav, view, ctl, call>>
      BY <1>3, <2>2 DEF Close!saveAndContinueNavigation
    <3> QED
      BY <1>1, <2>1, <3>1
      DEF CloseInv, CloseEditorTypes, CloseGuardTypes, CloseRequests, CloseBaseline, CloseLeft,
          CloseAtRest, CloseLocks
  <2>3. CASE saving = Close!NoSave /\ content # last
    <3>1. /\ saving' = [version |-> content, by |-> "dialog"]
          /\ nav' = [nav EXCEPT !.saving = TRUE] /\ UNCHANGED <<view, ctl, call>>
      BY <1>3, <2>3 DEF Close!saveAndContinueNavigation
    <3>2. /\ nav' \in [pending : {"none", "goto", "close"}, saving : BOOLEAN]
          /\ nav'.pending = nav.pending
      BY <1>0, <3>1
    <3>3. saving' # Close!NoSave /\ saving'.by = "dialog" /\ saving'.version = content
      BY <3>1 DEF Close!NoSave
    <3>4. CloseEditorTypes' /\ CloseGuardTypes' /\ CloseRequests' /\ CloseLocks'
      BY <1>1, <2>1, <3>1, <3>2
      DEF CloseInv, CloseEditorTypes, CloseGuardTypes, CloseRequests, CloseLocks
    <3>5. CloseBaseline'
      BY <1>1, <2>1, <2>3, <3>1, <3>3 DEF CloseInv, CloseEditorTypes, CloseBaseline
    <3>6. CASE view = "editor"
      <4>1. ctl.locked => content = discarded
        BY <2>3, <3>6 DEF CloseInv, CloseLeft, CloseAtRest
      <4>2. CloseLeft'  BY <1>1, <2>1, <3>1, <3>6, <4>1 DEF CloseLeft, CloseAtRest
      <4> QED  BY <3>4, <3>5, <4>2 DEF CloseInv
    <3>7. view = "editor"  BY <1>0 DEF CloseInv, CloseEditorTypes, CloseLocks
    <3> QED  BY <3>6, <3>7
  <2>4. CASE saving = Close!NoSave /\ content = last
    <3>1. /\ nav' = [nav EXCEPT !.pending = "none"] /\ Close!Finish(nav.pending)
          /\ saving' = saving
      BY <1>3, <2>4 DEF Close!saveAndContinueNavigation
    <3>2. CloseAtRest /\ (content = discarded \/ (content = stored /\ content = last))
      BY <2>4 DEF CloseInv, CloseEditorTypes, CloseBaseline, CloseLeft, CloseAtRest
    <3>3. CloseAtRest'  BY <1>1, <2>1, <2>4, <3>1, <3>2 DEF CloseAtRest
    <3>4. CloseEditorTypes' \/ view' \notin {"editor", "other"}
      BY <1>1, <2>1, <3>1 DEF CloseInv, CloseEditorTypes
    <3>5. CloseBaseline'
      BY <1>1, <2>1, <2>4, <3>1, <3>2 DEF CloseInv, CloseBaseline, CloseAtRest
    <3> QED  BY <1>2, <3>1, <3>3, <3>4, <3>5
  <2> QED  BY <2>2, <2>3, <2>4
<1>4. CASE Close!discardAndContinueNavigation
  <2>1. /\ last' = content /\ discarded' = content /\ saving' = saving
        /\ nav' = [nav EXCEPT !.pending = "none"] /\ Close!Finish(nav.pending)
    BY <1>4 DEF Close!discardAndContinueNavigation
  <2>2. CloseAtRest' /\ (CloseEditorTypes' \/ view' \notin {"editor", "other"})
    BY <1>1, <2>1 DEF CloseInv, CloseEditorTypes, CloseAtRest
  <2>3. CloseBaseline'
    BY <1>1, <2>1 DEF CloseInv, CloseEditorTypes, CloseBaseline
  <2> QED  BY <1>2, <2>1, <2>2, <2>3
<1>5. CASE Close!cancel
  <2>1. /\ nav' = [nav EXCEPT !.pending = "none"] /\ ctl' = Close!Cancelled
        /\ UNCHANGED <<last, saving, discarded, view, call>>
    BY <1>5 DEF Close!cancel, Close!editor, Close!goside
  <2>2. /\ nav' \in [pending : {"none", "goto", "close"}, saving : BOOLEAN]
        /\ nav'.pending = "none"
    BY <1>0, <2>1
  <2>3. /\ ctl' \in [resolving : BOOLEAN, awaiting : BOOLEAN, locked : BOOLEAN]
        /\ ctl'.awaiting = FALSE /\ ctl'.locked = ctl.locked
        /\ ctl'.resolving = IF ctl.awaiting THEN FALSE ELSE ctl.resolving
    BY <2>1 DEF CloseInv, CloseGuardTypes, Close!Cancelled
  <2>4. ctl.awaiting => ~ctl.locked  BY DEF CloseInv, CloseLocks
  <2>5. CloseLocks'  BY <1>1, <2>1, <2>2, <2>3, <2>4 DEF CloseInv, CloseLocks
  <2> QED
    BY <1>1, <2>1, <2>2, <2>3, <2>5
    DEF CloseInv, CloseEditorTypes, CloseGuardTypes, CloseRequests, CloseBaseline, CloseLeft,
        CloseAtRest
<1> QED  BY <1>3, <1>4, <1>5

\* The Go side: the guard, the permit and the quit requests.
LEMMA CloseGoSide ==
  ASSUME Close!CloseBounds, CloseInv,
         \/ Close!EnableNativeCloseGuard \/ Close!completeNativeClose \/ Close!Quit
         \/ Close!NativeClose \/ Close!beforeClose
  PROVE  CloseInv'
<1>1. /\ UNCHANGED <<content, last, stored, saving, discarded, view, nav, ctl>>
      /\ ended = "no"
  BY DEF Close!EnableNativeCloseGuard, Close!completeNativeClose, Close!Quit,
         Close!NativeClose, Close!beforeClose, Close!editor, Close!front, Close!Running
<1>2. CloseEditorTypes' /\ CloseBaseline' /\ CloseLeft'
  BY <1>1 DEF CloseInv, CloseEditorTypes, CloseBaseline, CloseLeft, CloseAtRest
<1>3. guard \in [ready : BOOLEAN, permit : BOOLEAN]  BY DEF CloseInv, CloseGuardTypes
<1>4. CASE Close!EnableNativeCloseGuard
  <2>1. /\ ~guard.ready /\ guard' = [ready |-> TRUE, permit |-> FALSE]
        /\ UNCHANGED <<call, quits, events, closeCloses, ended>>
    BY <1>4 DEF Close!EnableNativeCloseGuard
  <2> QED
    BY <1>1, <1>2, <2>1 DEF CloseInv, CloseGuardTypes, CloseRequests, CloseLocks
<1>5. CASE Close!completeNativeClose
  <2>1. /\ call = "requested" /\ guard.ready /\ guard' = [guard EXCEPT !.permit = TRUE]
        /\ call' = "quitting" /\ UNCHANGED <<quits, events, closeCloses, ended>>
    BY <1>5 DEF Close!completeNativeClose
  <2>2. guard' \in [ready : BOOLEAN, permit : BOOLEAN] /\ guard'.permit /\ guard'.ready
    BY <1>3, <2>1
  <2> QED
    BY <1>1, <1>2, <2>1, <2>2 DEF CloseInv, CloseGuardTypes, CloseRequests, CloseLocks
<1>6. CASE Close!Quit
  <2>1. /\ call = "quitting" /\ call' = "done" /\ quits' = quits + 1
        /\ UNCHANGED <<guard, events, closeCloses, ended>>
    BY <1>6 DEF Close!Quit, Close!Asked
  <2> QED
    BY <1>1, <1>2, <2>1 DEF CloseInv, CloseGuardTypes, CloseRequests, CloseLocks
<1>7. CASE Close!NativeClose
  <2>1. /\ closeCloses < MaxCloses /\ closeCloses' = closeCloses + 1 /\ quits' = quits + 1
        /\ UNCHANGED <<call, guard, events, ended>>
    BY <1>7 DEF Close!NativeClose
  <2> QED
    BY <1>1, <1>2, <2>1
    DEF CloseInv, CloseGuardTypes, CloseRequests, CloseLocks, Close!CloseBounds
<1>8. CASE Close!beforeClose
  <2>1. /\ quits > 0 /\ quits' = quits - 1 /\ guard' = [guard EXCEPT !.permit = FALSE]
        /\ UNCHANGED <<call, closeCloses>>
        /\ IF guard.ready /\ ~guard.permit THEN events' = events + 1 /\ ended' = ended
           ELSE /\ ended' = (IF guard.ready THEN "guarded" ELSE "unguarded")
                /\ events' = events
    BY <1>8 DEF Close!beforeClose, Close!Taken, Close!shouldPreventNativeClose
  <2>2. /\ guard' \in [ready : BOOLEAN, permit : BOOLEAN]
        /\ guard'.permit = FALSE /\ guard'.ready = guard.ready
    BY <1>3, <2>1
  <2>3. CloseLocks'
    BY <1>1, <1>3, <2>1, <2>2 DEF CloseInv, CloseGuardTypes, CloseLocks
  <2> QED
    BY <1>1, <1>2, <2>1, <2>2, <2>3 DEF CloseInv, CloseGuardTypes, CloseRequests
<1> QED  BY <1>4, <1>5, <1>6, <1>7, <1>8

\* The invariant is inductive.
LEMMA CloseNext ==
  ASSUME Close!CloseBounds, CloseInv, [Close!Next]_closeVars
  PROVE  CloseInv'
<1>1. CASE UNCHANGED closeVars
  BY <1>1
  DEF closeVars, CloseInv, CloseEditorTypes, CloseGuardTypes, CloseRequests, CloseBaseline,
      CloseLeft, CloseAtRest, CloseLocks
<1>2. CASE Close!Next
  BY <1>2, CloseEdits, CloseSaves, CloseNavigates, CloseAnswers, CloseGoSide DEF Close!Next
<1> QED  BY <1>1, <1>2

\* NativeCloseController, CompleteNativeClose and saveEntry: with the guard on, the
\* process never ends over work that is neither stored nor discarded, an editor that
\* counts as clean is one or the other, and no request to close is swallowed, for any
\* number of edits and requests.
THEOREM WorkIsNeverLost == Spec => []NoLostWork
<1> DEFINE I == part = "close" => CloseInv
<1>1. Init => I  BY CloseInit, PartsAssumption DEF Init
<1>2. I /\ [Next]_vars => I'
  <2> SUFFICES ASSUME I, [Next]_vars, part' = "close" PROVE CloseInv'  OBVIOUS
  <2>1. part = "close" /\ [Close!Next]_closeVars  BY DEF Next, vars
  <2> QED  BY <2>1, CloseNext, PartsAssumption
<1>3. I => NoLostWork
  <2> SUFFICES ASSUME CloseInv
               PROVE  /\ Close!TypeOK /\ Close!NoLostWork /\ Close!CleanMeansStored
                      /\ Close!NotTrapped
    BY DEF NoLostWork
  <2>1. Close!TypeOK
    BY PartsAssumption
    DEF CloseInv, CloseEditorTypes, CloseGuardTypes, CloseRequests, Close!TypeOK,
        Close!CloseBounds
  <2>2. Close!NoLostWork  BY DEF CloseInv, CloseLocks, CloseLeft, CloseAtRest, Close!NoLostWork
  <2>3. Close!CleanMeansStored
    BY DEF CloseInv, CloseBaseline, Close!CleanMeansStored, Close!Registered
  <2>4. Close!NotTrapped
    BY DEF CloseInv, CloseGuardTypes, CloseLocks, Close!NotTrapped, Close!Running
  <2> QED  BY <2>1, <2>2, <2>3, <2>4
<1> QED  BY <1>1, <1>2, <1>3, PTL DEF Spec

-----------------------------------------------------------------------------
(* Proofs: nothing the network delivers is installed unless the pipeline signed it *)

UpdateCalls == [pc : {"idle", "fetch", "decide", "download", "verify", "launch"},
                job : {"check", "install"}, got : Update!Manifests, available : BOOLEAN]

\* The type invariant, with the types of what the calls hold.
UpdateTypes == Update!TypeOK /\ calls \in [Callers -> UpdateCalls]

\* A call past the check of its manifest holds a payload of the pipeline for this build.
UpdateHolds ==
    \A c \in Callers :
        /\ calls[c].pc \in {"decide", "download", "verify", "launch"} =>
               calls[c].got.payload \in released /\ calls[c].got.payload.fits
        /\ calls[c].pc = "decide" /\ calls[c].available =>
               calls[c].got.payload.version > Current
        /\ calls[c].pc \in {"download", "verify", "launch"} =>
               calls[c].got.payload.version > Current

\* The artifact of a version is one the pipeline signed for it.
UpdateGenuine(v) == \E p \in released : p.version = v /\ p.digest = files[v] /\ p.fits

\* What a call is about to launch is genuine, whoever put it there.
UpdateLaunches ==
    \A c \in Callers : calls[c].pc = "launch" =>
        UpdateGenuine(calls[c].got.payload.version) /\ files[calls[c].got.payload.version] \in Digests

\* The inductive invariant.
UpdateInv == UpdateTypes /\ UpdateHolds /\ Update!FilesVerified /\ UpdateLaunches /\ Update!LaunchedGenuine

\* A call that does nothing is a call.
LEMMA UpdateIdleIsCall == ASSUME Update!VersionsAssumption PROVE Update!Idle \in UpdateCalls
  BY DEF Update!VersionsAssumption, Update!Idle, UpdateCalls, Update!Manifests,
     Update!Payloads, Update!NoPayload

\* Nothing is downloaded at first.
LEMMA UpdateInit == ASSUME Update!VersionsAssumption, Update!Init PROVE UpdateInv
<1>1. UpdateTypes
  <2>1. calls \in [Callers -> UpdateCalls]  BY UpdateIdleIsCall DEF Update!Init
  <2> QED  BY <2>1 DEF Update!Init, UpdateTypes, Update!TypeOK, UpdateCalls
<1>2. \A c \in Callers : calls[c].pc = "idle"  BY DEF Update!Init, Update!Idle
<1> QED
  BY <1>1, <1>2
  DEF Update!Init, UpdateInv, UpdateHolds, Update!FilesVerified, UpdateLaunches,
      Update!LaunchedGenuine

\* What a change of one call keeps: files and log stay, and the call holds what it should.
LEMMA UpdateCallStep ==
  ASSUME Update!VersionsAssumption, UpdateInv, NEW c \in Callers, NEW x \in UpdateCalls,
         calls' = [calls EXCEPT ![c] = x], UNCHANGED <<released, files, launched>>,
         temps' \in [Callers -> Digests \cup {Update!None}],
         x.pc # "launch",
         x.pc \in {"decide", "download", "verify"} =>
             x.got.payload \in released /\ x.got.payload.fits,
         x.pc = "decide" /\ x.available => x.got.payload.version > Current,
         x.pc \in {"download", "verify"} => x.got.payload.version > Current
  PROVE  UpdateInv'
<1>1. calls' \in [Callers -> UpdateCalls]  BY DEF UpdateInv, UpdateTypes
<1>2. calls'[c] = x /\ \A d \in Callers \ {c} : calls'[d] = calls[d]
  BY DEF UpdateInv, UpdateTypes
<1>3. UpdateTypes'  BY <1>1 DEF UpdateInv, UpdateTypes, Update!TypeOK, UpdateCalls
<1>4. UpdateHolds'  BY <1>2 DEF UpdateInv, UpdateHolds
<1>5. UpdateLaunches'  BY <1>2 DEF UpdateInv, UpdateLaunches, UpdateGenuine
<1> QED
  BY <1>3, <1>4, <1>5
  DEF UpdateInv, Update!FilesVerified, Update!LaunchedGenuine, Update!Installable

\* The call is over.
LEMMA UpdateReturn ==
  ASSUME Update!VersionsAssumption, UpdateInv, NEW c \in Callers, Update!Return(c),
         UNCHANGED <<released, files, launched>>,
         temps' \in [Callers -> Digests \cup {Update!None}]
  PROVE  UpdateInv'
<1>1. Update!Idle.pc = "idle"  BY DEF Update!Idle
<1> QED  BY <1>1, UpdateIdleIsCall, UpdateCallStep DEF Update!Return

\* More may be signed; nothing that was signed is withdrawn.
LEMMA UpdatePublish ==
  ASSUME Update!VersionsAssumption, UpdateInv, NEW p \in Update!Payloads,
  Update!Publish(p) PROVE UpdateInv'
<1>1. released \subseteq released' /\ released' \subseteq Update!Payloads
  BY DEF Update!Publish, UpdateInv, UpdateTypes, Update!TypeOK
<1>2. UNCHANGED <<files, temps, calls, launched>>  BY DEF Update!Publish
<1>3. UpdateTypes'  BY <1>1, <1>2 DEF UpdateInv, UpdateTypes, Update!TypeOK
<1>4. UpdateHolds'  BY <1>1, <1>2 DEF UpdateInv, UpdateHolds
<1>5. Update!FilesVerified'  BY <1>1, <1>2 DEF UpdateInv, Update!FilesVerified
<1>6. UpdateLaunches'  BY <1>1, <1>2 DEF UpdateInv, UpdateLaunches, UpdateGenuine
<1>7. Update!LaunchedGenuine'
  BY <1>1, <1>2 DEF UpdateInv, Update!LaunchedGenuine, Update!Installable
<1> QED  BY <1>3, <1>4, <1>5, <1>6, <1>7 DEF UpdateInv

\* CheckLatest and the answer to its request.
LEMMA UpdateCheck ==
  ASSUME Update!VersionsAssumption, UpdateInv, NEW c \in Callers,
         (\E job \in {"check", "install"} : Update!CheckLatest(c,
         job)) \/ Update!Fetch(c) \/ Update!Decide(c)
  PROVE  UpdateInv'
<1>0. temps \in [Callers -> Digests \cup {Update!None}] /\ calls[c] \in UpdateCalls
  BY DEF UpdateInv, UpdateTypes, Update!TypeOK
<1>1. CASE \E job \in {"check", "install"} : Update!CheckLatest(c, job)
  <2>1. PICK job \in {"check", "install"} : Update!CheckLatest(c, job)  BY <1>1
  <2> DEFINE x == [Update!Idle EXCEPT !.pc = "fetch", !.job = job]
  <2>2. x \in UpdateCalls /\ x.pc = "fetch"  BY UpdateIdleIsCall DEF UpdateCalls
  <2>3. calls' = [calls EXCEPT ![c] = x] /\ UNCHANGED <<released, files, temps, launched>>
    BY <2>1 DEF Update!CheckLatest
  <2> HIDE DEF x
  <2> QED  BY <1>0, <2>2, <2>3, UpdateCallStep
<1>2. CASE Update!Fetch(c)
  <2>1. UNCHANGED <<released, files, temps, launched>>  BY <1>2 DEF Update!Fetch
  <2>2. CASE Update!Return(c)  BY <1>0, <2>1, <2>2, UpdateReturn
  <2>3. CASE ~Update!Return(c)
    <3>1. PICK man \in Update!Manifests :
              /\ man.signed => man.payload \in released
              /\ Update!Accepted(man)
              /\ calls' = [calls EXCEPT ![c].pc = "decide", ![c].got = man,
                                        ![c].available = Update!IsNewer(man.payload.version,
                                        Current)]
      BY <1>2, <2>3 DEF Update!Fetch
    <3> DEFINE x == [calls[c] EXCEPT !.pc = "decide", !.got = man,
                                     !.available = Update!IsNewer(man.payload.version, Current)]
    <3>2. man.payload \in released /\ man.payload.fits
      BY <3>1 DEF Update!Accepted, Update!VerifyManifest, Update!ValidatePayload
    <3>3. x \in UpdateCalls /\ x.pc = "decide" /\ x.got = man
          /\ (x.available => man.payload.version > Current)
      <4>1. Update!IsNewer(man.payload.version, Current) \in BOOLEAN  BY DEF Update!IsNewer
      <4>2. x \in UpdateCalls /\ x.pc = "decide" /\ x.got = man
            /\ x.available = Update!IsNewer(man.payload.version, Current)
        BY <1>0, <4>1 DEF UpdateCalls
      <4> QED  BY <4>2 DEF Update!IsNewer
    <3>4. calls' = [calls EXCEPT ![c] = x]  BY <3>1 DEF UpdateInv, UpdateTypes
    <3> HIDE DEF x
    <3> QED  BY <1>0, <2>1, <3>2, <3>3, <3>4, UpdateCallStep
  <2> QED  BY <2>2, <2>3
<1>3. CASE Update!Decide(c)
  <2>1. UNCHANGED <<released, files, temps, launched>>  BY <1>3 DEF Update!Decide
  <2>2. CASE Update!Return(c)  BY <1>0, <2>1, <2>2, UpdateReturn
  <2>3. CASE ~Update!Return(c)
    <3> DEFINE x == [calls[c] EXCEPT !.pc = "download"]
    <3>1. calls' = [calls EXCEPT ![c] = x] /\ calls[c].pc = "decide" /\ calls[c].available
      BY <1>3, <2>3 DEF Update!Decide
    <3>2. x \in UpdateCalls /\ x.pc = "download" /\ x.got = calls[c].got
      BY <1>0 DEF UpdateCalls
    <3>3. x.got.payload \in released /\ x.got.payload.fits /\ x.got.payload.version > Current
      BY <3>1, <3>2 DEF UpdateInv, UpdateHolds
    <3> HIDE DEF x
    <3> QED  BY <1>0, <2>1, <3>1, <3>2, <3>3, UpdateCallStep
  <2> QED  BY <2>2, <2>3
<1> QED  BY <1>1, <1>2, <1>3

\* The body arrives, or does not.
LEMMA UpdateDownload ==
  ASSUME Update!VersionsAssumption, UpdateInv, NEW c \in Callers,
  Update!Download(c) PROVE UpdateInv'
<1>0. temps \in [Callers -> Digests \cup {Update!None}] /\ calls[c] \in UpdateCalls
  BY DEF UpdateInv, UpdateTypes, Update!TypeOK
<1>1. temps' \in [Callers -> Digests \cup {Update!None}]  BY <1>0 DEF Update!Download
<1>2. UNCHANGED <<released, files, launched>> /\ calls[c].pc = "download"
  BY DEF Update!Download
<1>3. CASE Update!Return(c)  BY <1>1, <1>2, <1>3, UpdateReturn
<1>4. CASE ~Update!Return(c)
  <2> DEFINE x == [calls[c] EXCEPT !.pc = "verify"]
  <2>1. calls' = [calls EXCEPT ![c] = x]  BY <1>4 DEF Update!Download
  <2>2. x \in UpdateCalls /\ x.pc = "verify" /\ x.got = calls[c].got  BY <1>0 DEF UpdateCalls
  <2>3. x.got.payload \in released /\ x.got.payload.fits /\ x.got.payload.version > Current
    BY <1>2, <2>2 DEF UpdateInv, UpdateHolds
  <2> HIDE DEF x
  <2> QED  BY <1>1, <1>2, <2>1, <2>2, <2>3, UpdateCallStep
<1> QED  BY <1>3, <1>4

\* A file is renamed to its name only with the digest the manifest has: it is genuine
\* for its version, also for another call that is about to launch that version.
LEMMA UpdateVerify ==
  ASSUME Update!VersionsAssumption, UpdateInv, NEW c \in Callers,
  Update!Verify(c) PROVE UpdateInv'
<1> DEFINE asked == calls[c].got.payload
           v == asked.version
           x == [calls[c] EXCEPT !.pc = "launch"]
<1>0. temps \in [Callers -> Digests \cup {Update!None}] /\ calls[c] \in UpdateCalls
  BY DEF UpdateInv, UpdateTypes, Update!TypeOK
<1>1. calls[c].pc = "verify" /\ UNCHANGED <<released, launched>>  BY DEF Update!Verify
<1>2. asked \in released /\ asked.fits /\ v > Current  BY <1>1 DEF UpdateInv, UpdateHolds
<1>3. asked \in Update!Payloads /\ v \in Versions /\ asked.digest \in Digests
  BY <1>2 DEF UpdateInv, UpdateTypes, Update!TypeOK, Update!Payloads
<1>4. temps' \in [Callers -> Digests \cup {Update!None}]  BY <1>0 DEF Update!Verify
<1>5. CASE Update!Return(c) /\ UNCHANGED files  BY <1>1, <1>4, <1>5, UpdateReturn
<1>6. CASE ~(Update!Return(c) /\ UNCHANGED files)
  <2>1. /\ files' = [files EXCEPT ![v] = asked.digest] /\ calls' = [calls EXCEPT ![c] = x]
    BY <1>6 DEF Update!Verify
  <2>2. x \in UpdateCalls /\ x.pc = "launch" /\ x.got = calls[c].got  BY <1>0 DEF UpdateCalls
  <2>3. /\ calls' \in [Callers -> UpdateCalls] /\ calls'[c] = x
        /\ \A d \in Callers \ {c} : calls'[d] = calls[d]
    BY <2>1, <2>2 DEF UpdateInv, UpdateTypes
  <2>4. /\ files' \in [Versions -> Digests \cup {Update!None}] /\ files'[v] = asked.digest
        /\ \A u \in Versions \ {v} : files'[u] = files[u]
    BY <1>3, <2>1 DEF UpdateInv, UpdateTypes, Update!TypeOK
  <2>5. UpdateTypes'
    BY <1>1, <1>4, <2>3, <2>4 DEF UpdateInv, UpdateTypes, Update!TypeOK, UpdateCalls
  <2>6. UpdateHolds'  BY <1>1, <1>2, <2>2, <2>3 DEF UpdateInv, UpdateHolds
  <2>7. \E p \in released : p.version = v /\ p.digest = files'[v] /\ p.fits
    BY <1>2, <2>4
  <2>8. Update!FilesVerified'  BY <1>1, <2>4, <2>7 DEF UpdateInv, Update!FilesVerified
  <2>9. UpdateLaunches'
    <3> SUFFICES ASSUME NEW d \in Callers, calls'[d].pc = "launch"
                 PROVE  LET u == calls'[d].got.payload.version
                        IN  /\ \E p \in released : p.version = u /\ p.digest = files'[u] /\ p.fits
                            /\ files'[u] \in Digests
      BY <1>1 DEF UpdateLaunches, UpdateGenuine
    <3> DEFINE u == calls'[d].got.payload.version
    <3>1. u \in Versions  BY <2>3 DEF UpdateCalls, Update!Manifests, Update!Payloads
    <3>2. CASE u = v  BY <1>3, <2>4, <2>7, <3>2
    <3>3. CASE u # v
      <4>1. d # c  BY <2>2, <2>3, <3>3
      <4> QED
        BY <1>1, <2>3, <2>4, <3>1, <3>3, <4>1 DEF UpdateInv, UpdateLaunches, UpdateGenuine
    <3> QED  BY <3>2, <3>3
  <2>10. Update!LaunchedGenuine'
    BY <1>1 DEF UpdateInv, Update!LaunchedGenuine, Update!Installable
  <2> QED  BY <2>5, <2>6, <2>8, <2>9, <2>10 DEF UpdateInv
<1> QED  BY <1>5, <1>6

\* The installer gets what is under the name now, which is genuine and newer.
LEMMA UpdateLaunch ==
  ASSUME Update!VersionsAssumption, UpdateInv, NEW c \in Callers,
  Update!Launch(c) PROVE UpdateInv'
<1> DEFINE v == calls[c].got.payload.version
           l == [version |-> v, digest |-> files[v]]
<1>0. temps \in [Callers -> Digests \cup {Update!None}] /\ calls[c] \in UpdateCalls
  BY DEF UpdateInv, UpdateTypes, Update!TypeOK
<1>1. calls[c].pc = "launch" /\ Update!Return(c) /\ UNCHANGED <<released, files, temps>>
      /\ launched' \subseteq launched \cup {l}
  BY DEF Update!Launch
<1>2. v \in Versions /\ files[v] \in Digests /\ UpdateGenuine(v) /\ v > Current
  BY <1>0, <1>1
  DEF UpdateInv, UpdateLaunches, UpdateHolds, UpdateCalls, Update!Manifests, Update!Payloads
<1>3. \E p \in Update!Installable : p.version = l.version /\ p.digest = l.digest
  BY <1>2 DEF UpdateGenuine, Update!Installable, Update!IsNewer
<1>4. Update!LaunchedGenuine'
  BY <1>1, <1>3 DEF UpdateInv, Update!LaunchedGenuine, Update!Installable
<1>5. calls' = [calls EXCEPT ![c] = Update!Idle] /\ Update!Idle.pc = "idle"
  BY <1>1 DEF Update!Return, Update!Idle
<1>6. calls' \in [Callers -> UpdateCalls] /\ calls'[c].pc = "idle"
      /\ \A d \in Callers \ {c} : calls'[d] = calls[d]
  BY <1>5, UpdateIdleIsCall DEF UpdateInv, UpdateTypes
<1>7. UpdateTypes'  BY <1>1, <1>2, <1>6 DEF UpdateInv, UpdateTypes, Update!TypeOK, UpdateCalls
<1>8. UpdateHolds' /\ UpdateLaunches'
  BY <1>1, <1>6 DEF UpdateInv, UpdateHolds, UpdateLaunches, UpdateGenuine
<1> QED  BY <1>1, <1>4, <1>7, <1>8 DEF UpdateInv, Update!FilesVerified

\* The process ends and leaves the folder as it is.
LEMMA UpdateCrash == ASSUME Update!VersionsAssumption, UpdateInv, Update!Crash PROVE UpdateInv'
<1>1. calls' \in [Callers -> UpdateCalls] /\ \A c \in Callers : calls'[c].pc = "idle"
  BY UpdateIdleIsCall DEF Update!Crash, Update!Idle
<1>2. UNCHANGED <<released, files, temps, launched>>  BY DEF Update!Crash
<1> QED
  BY <1>1, <1>2
  DEF UpdateInv, UpdateTypes, Update!TypeOK, UpdateCalls, UpdateHolds, Update!FilesVerified,
                           UpdateLaunches, Update!LaunchedGenuine, Update!Installable

\* The invariant is inductive.
LEMMA UpdateNext ==
  ASSUME Update!VersionsAssumption, UpdateInv, [Update!Next]_updateVars
  PROVE  UpdateInv'
<1>1. CASE UNCHANGED updateVars
  BY <1>1
  DEF updateVars, UpdateInv, UpdateTypes, Update!TypeOK, UpdateHolds, Update!FilesVerified,
      UpdateLaunches,
              UpdateGenuine, Update!LaunchedGenuine, Update!Installable
<1>2. CASE Update!Next
  <2>1. CASE \E p \in Update!Payloads : Update!Publish(p)  BY <2>1, UpdatePublish
  <2>2. CASE \E c \in Callers, job \in {"check", "install"} : Update!CheckLatest(c, job)
    BY <2>2, UpdateCheck
  <2>3. CASE \E c \in Callers : Update!Step(c)
    <3>1. PICK c \in Callers : Update!Step(c)  BY <2>3
    <3> QED  BY <3>1, UpdateCheck, UpdateDownload, UpdateVerify, UpdateLaunch DEF Update!Step
  <2>4. CASE Update!Crash  BY <2>4, UpdateCrash
  <2> QED  BY <1>2, <2>1, <2>2, <2>3, <2>4 DEF Update!Next
<1> QED  BY <1>1, <1>2

-----------------------------------------------------------------------------
(* Proofs: a signature is the key's, and its token answers this very request *)

\* The signers of the bundles, what they sign, and the tokens an authority makes of it.
Signers == {Signing!Idle.signer} \cup {Signing!LoadCertificate(b).signer : b \in Bundles}
Signatures ==
    {<<>>} \cup {Signing!signDetachedPAdESCMS(cs[1], cs[2]).sig : cs \in Contents \X Signers}
Tokens == [nonce : Nat, policy : {"other", Policy}, imprint : Signatures,
           chain : {"unknown", "trusted"}, content : {"data", "TSTInfo"},
           usage : {"plain", "critical"}, timely : BOOLEAN]

\* A CMS: none, or what a key signed.
Envelopes == [content : Contents \cup {""}, cert : {si.leaf : si \in Signers} \cup {0},
              sig : Signatures, unsigned : Seq(Tokens)]

Exportings ==
    [pc : {"idle", "loaded", "waiting", "got", "done", "failed"}, signer : Signers,
     cms : Envelopes, endpoint : Endpoints \cup {"none"}, policy : {"", Policy},
     roots : BOOLEAN, nonce : Nat, token : Seq(Tokens),
     trust : {"verified", "not_evaluated"}]

\* The token was issued for this signature and this request.
Answers(tok, q) == tok \in issued /\ tok.nonce = q.nonce /\ tok.imprint = q.cms.sig

\* The signature of the key over what the file and the certificate say.
Verifies(q) ==
    q.cms.sig # <<>> =>
        /\ q.cms.sig[1] = q.cms.cert
        /\ q.cms.sig[2] = Signing!cmsSignedAttributes(q.cms.content, q.cms.cert)

\* What an export has at each of its steps.
ExportSound(q) ==
    /\ q \in Exportings /\ q.nonce <= nonces
    /\ q.signer.key = q.signer.leaf
    /\ Verifies(q)
    /\ \A i \in DOMAIN q.cms.unsigned : Answers(q.cms.unsigned[i], q)
    /\ q.cms.unsigned # <<>> => q.pc = "done" /\ (q.roots => q.trust = "verified")
    /\ q.trust = "verified" => /\ q.roots /\ q.token # <<>> /\ q.token[1].chain = "trusted"
                               /\ q.pc \in {"got", "done"}
    /\ q.pc \in {"waiting", "got"} => q.endpoint # "none"
    /\ q.pc = "got" => /\ q.token # <<>> /\ Answers(q.token[1], q)
                       /\ q.roots => q.trust = "verified"
    /\ q.pc = "done" => (q.endpoint # "none" <=> q.cms.unsigned # <<>>)

\* The inductive invariant of signing.
SigningInv ==
    /\ req \in [Callers -> Exportings] /\ issued \subseteq Tokens /\ nonces \in Nat
    /\ \A r \in Callers : ExportSound(req[r])

LEMMA NoTokens == <<>> \in Seq(Tokens)
  OBVIOUS

LEMMA NoTokenYet == ASSUME NEW s, s = <<>> PROVE DOMAIN s = {} /\ (s # <<>>) = FALSE
  OBVIOUS

\* An export that has nothing yet, or has failed, is sound.
LEMMA SigningEmpty ==
  ASSUME nonces \in Nat
  PROVE  ExportSound(Signing!Idle) /\ ExportSound([Signing!Idle EXCEPT !.pc = "failed"])
<1>1. Signing!Idle.signer \in Signers  BY DEF Signers
<1>2. Signing!NoCms \in Envelopes /\ Signing!NoCms.sig = <<>> /\ Signing!NoCms.unsigned = <<>>
  BY DEF Signing!NoCms, Envelopes, Signatures
<1>3. Signing!Idle \in Exportings  BY <1>1, <1>2 DEF Signing!Idle, Exportings
<1>4. ASSUME NEW q \in Exportings, q.pc \in {"idle", "failed"}, q.cms = Signing!NoCms,
             q.nonce = 0, q.trust = "not_evaluated", q.signer = Signing!Idle.signer
      PROVE  ExportSound(q)
  <2>1. q.signer.key = q.signer.leaf  BY <1>4 DEF Signing!Idle
  <2>2. Verifies(q)  BY <1>2, <1>4 DEF Verifies
  <2>3. (q.cms.unsigned # <<>>) = FALSE /\ DOMAIN q.cms.unsigned = {}  BY <1>2, <1>4
  <2>4. \A i \in DOMAIN q.cms.unsigned : Answers(q.cms.unsigned[i], q)  BY <2>3
  <2>5. q.nonce <= nonces  BY <1>4
  <2> QED  BY <1>4, <2>1, <2>2, <2>3, <2>4, <2>5 DEF ExportSound
<1>5. ExportSound(Signing!Idle)
  <2>1. /\ Signing!Idle.pc = "idle" /\ Signing!Idle.cms = Signing!NoCms
        /\ Signing!Idle.nonce = 0 /\ Signing!Idle.trust = "not_evaluated"
    BY DEF Signing!Idle
  <2> QED  BY <1>3, <1>4, <2>1
<1>6. ExportSound([Signing!Idle EXCEPT !.pc = "failed"])
  <2> DEFINE q == [Signing!Idle EXCEPT !.pc = "failed"]
  <2>1. q \in Exportings  BY <1>3 DEF Exportings
  <2>2. /\ q.pc = "failed" /\ q.cms = Signing!NoCms /\ q.nonce = 0
        /\ q.trust = "not_evaluated" /\ q.signer = Signing!Idle.signer
    BY DEF Signing!Idle
  <2>3. ExportSound(q)
    <3> HIDE DEF q
    <3> QED  BY <1>4, <2>1, <2>2
  <2> QED  BY <2>3
<1> QED  BY <1>5, <1>6

LEMMA SigningInit == ASSUME Signing!Init PROVE SigningInv
<1>1. req = [r \in Callers |-> Signing!Idle] /\ issued = {} /\ nonces = 0  BY DEF Signing!Init
<1>2. ExportSound(Signing!Idle)  BY <1>1, SigningEmpty
<1>3. Signing!Idle \in Exportings  BY <1>2 DEF ExportSound
<1> QED  BY <1>1, <1>2, <1>3 DEF SigningInv

\* One export changes; the tokens and nonces that were drawn stay drawn.
LEMMA SigningStep ==
  ASSUME SigningInv, NEW r \in Callers, NEW q, Signing!Set(r, q),
         issued \subseteq issued', issued' \subseteq Tokens, nonces' \in Nat, nonces <= nonces',
         ExportSound(q)'
  PROVE  SigningInv'
<1>1. q \in Exportings  BY DEF ExportSound
<1>2. /\ req' \in [Callers -> Exportings] /\ req'[r] = q
      /\ \A s \in Callers \ {r} : req'[s] = req[s]
  BY <1>1 DEF Signing!Set, SigningInv
<1>3. ASSUME NEW s \in Callers \ {r} PROVE ExportSound(req[s])'
  <2>1. ExportSound(req[s]) /\ req'[s] = req[s]  BY <1>2, <1>3 DEF SigningInv
  <2>2. req[s].nonce <= nonces'
    <3>1. req[s] \in Exportings /\ req[s].nonce <= nonces  BY <2>1 DEF ExportSound
    <3>2. req[s].nonce \in Nat  BY <3>1 DEF Exportings
    <3>3. nonces \in Nat  BY DEF SigningInv
    <3> QED  BY <3>1, <3>2, <3>3
  <2>3. Verifies(req[s])'  BY <2>1 DEF ExportSound, Verifies
  <2>4. ASSUME NEW tok, Answers(tok, req[s]) PROVE Answers(tok, req[s])'
    BY <2>1, <2>4 DEF Answers
  <2> QED  BY <2>1, <2>2, <2>3, <2>4 DEF ExportSound
<1> QED  BY <1>2, <1>3 DEF SigningInv

\* The export fails and hands back nothing.
LEMMA SigningFails ==
  ASSUME SigningInv, NEW r \in Callers, Signing!Fails(r), UNCHANGED <<issued, nonces>>
  PROVE  SigningInv'
<1> DEFINE q == [Signing!Idle EXCEPT !.pc = "failed"]
<1>1. Signing!Set(r, q)  BY DEF Signing!Fails
<1>2. nonces \in Nat /\ issued \subseteq Tokens  BY DEF SigningInv
<1>3. ExportSound(q)  BY <1>2, SigningEmpty
<1> HIDE DEF q
<1>4. ExportSound(q)'  BY <1>3 DEF ExportSound, Verifies, Answers
<1> QED  BY <1>1, <1>2, <1>4, SigningStep

\* The certificate that is taken is the one of the private key.
LEMMA SigningLeaf ==
  ASSUME NEW b, Signing!LoadCertificate(b).ok
  PROVE  Signing!LoadCertificate(b).signer.key = Signing!LoadCertificate(b).signer.leaf
<1> DEFINE p == Signing!parseP12Blocks(b.blocks)
           k == p.keys[1].key
           s == Signing!splitLeafCertificate(k, p.certs)
<1>1. /\ Signing!LoadCertificate(b) =
            [ok |-> TRUE, signer |-> [key |-> k, leaf |-> s.leaf, extra |-> s.extra]]
      /\ s.ok
  BY DEF Signing!LoadCertificate
<1>2. s.leaf = k
  <2> HIDE DEF k
  <2> QED  BY <1>1 DEF Signing!splitLeafCertificate
<1> QED  BY <1>1, <1>2

\* The bundle is loaded and the configuration taken.
LEMMA SigningLoad ==
  ASSUME SigningInv, NEW r \in Callers, Signing!Load(r)
  PROVE  SigningInv'
<1>1. UNCHANGED <<issued, nonces>> /\ req[r].pc = "idle"  BY DEF Signing!Load
<1>0. /\ nonces' \in Nat /\ nonces <= nonces'
      /\ issued \subseteq issued' /\ issued' \subseteq Tokens
  BY <1>1 DEF SigningInv
<1>2. CASE Signing!Fails(r)  BY <1>1, <1>2, SigningFails
<1>3. CASE ~Signing!Fails(r)
  <2>1. PICK b \in Bundles, e \in Endpoints, pol \in {"", Policy}, roots \in BOOLEAN :
            /\ Signing!LoadCertificate(b).ok
            /\ Signing!Set(r, [req[r] EXCEPT !.pc = "loaded",
                                             !.signer = Signing!LoadCertificate(b).signer,
                                             !.endpoint = e, !.policy = pol, !.roots = roots])
    BY <1>3 DEF Signing!Load
  <2> DEFINE si == Signing!LoadCertificate(b).signer
  <2>0. PICK q : q = [req[r] EXCEPT !.pc = "loaded", !.signer = si, !.endpoint = e,
                                    !.policy = pol, !.roots = roots]
    OBVIOUS
  <2>2. si \in Signers /\ si.key = si.leaf  BY <2>1, SigningLeaf DEF Signers
  <2>3. req[r] \in Exportings /\ ExportSound(req[r])  BY DEF SigningInv
  <2> HIDE DEF si
  <2>4. /\ q \in Exportings /\ q.pc = "loaded" /\ q.signer = si /\ q.cms = req[r].cms
        /\ q.nonce = req[r].nonce /\ q.trust = req[r].trust
    BY <2>0, <2>2, <2>3 DEF Exportings
  <2>5. req[r].cms.unsigned = <<>> /\ req[r].trust # "verified"
    BY <1>1, <2>3 DEF ExportSound
  <2>6. Verifies(q)  BY <2>3, <2>4 DEF ExportSound, Verifies
  <2>7. DOMAIN q.cms.unsigned = {} /\ q.nonce <= nonces /\ (q.cms.unsigned # <<>>) = FALSE
    <3>1. q.cms.unsigned = <<>>  BY <2>4, <2>5
    <3>2. DOMAIN q.cms.unsigned = {} /\ (q.cms.unsigned # <<>>) = FALSE
      BY <3>1, NoTokenYet
    <3>3. q.nonce <= nonces  BY <2>3, <2>4 DEF ExportSound
    <3> QED  BY <3>2, <3>3
  <2>8. ExportSound(q)  BY <2>2, <2>4, <2>5, <2>6, <2>7 DEF ExportSound
  <2>9. ExportSound(q)'  BY <1>1, <2>8 DEF ExportSound, Verifies, Answers
  <2>10. Signing!Set(r, q)  BY <2>0, <2>1 DEF si
  <2> QED  BY <1>0, <2>9, <2>10, SigningStep, Zenon
<1> QED  BY <1>2, <1>3

\* The CMS is made, and the authority is asked with a nonce of its own.
LEMMA SigningMake ==
  ASSUME SigningInv, NEW r \in Callers, Signing!Make(r)
  PROVE  SigningInv'
<1>0. nonces \in Nat /\ issued \subseteq Tokens  BY DEF SigningInv
<1>1. issued' = issued /\ req[r].pc = "loaded"  BY DEF Signing!Make
<1>2. req[r] \in Exportings /\ ExportSound(req[r])  BY DEF SigningInv
<1>3. CASE Signing!Fails(r) /\ nonces' = nonces  BY <1>1, <1>3, SigningFails
<1>4. CASE ~(Signing!Fails(r) /\ nonces' = nonces)
  <2>1. PICK c \in Contents :
            LET cms == Signing!signDetachedPAdESCMS(c, req[r].signer)
            IN  \/ /\ req[r].endpoint = "none" /\ nonces' = nonces
                   /\ Signing!Set(r, [req[r] EXCEPT !.pc = "done", !.cms = cms])
                \/ /\ req[r].endpoint # "none" /\ nonces' = nonces + 1
                   /\ Signing!Set(r, [req[r] EXCEPT !.pc = "waiting", !.cms = cms,
                                                    !.nonce = nonces + 1])
    BY <1>4 DEF Signing!Make
  <2>2. PICK cms : cms = Signing!signDetachedPAdESCMS(c, req[r].signer)  OBVIOUS
  <2>3. req[r].signer \in Signers /\ req[r].signer.key = req[r].signer.leaf
    BY <1>2 DEF ExportSound, Exportings
  <2>4. /\ cms.content = c /\ cms.cert = req[r].signer.leaf /\ cms.unsigned = <<>>
        /\ cms.sig = <<cms.cert, Signing!cmsSignedAttributes(c, cms.cert)>>
    BY <2>2, <2>3 DEF Signing!signDetachedPAdESCMS
  <2>5. cms \in Envelopes
    <3>1. <<c, req[r].signer>> \in Contents \X Signers  BY <2>3
    <3>2. cms.sig \in Signatures  BY <2>2, <3>1 DEF Signatures
    <3>3. cms.cert \in {si.leaf : si \in Signers}  BY <2>3, <2>4
    <3>4. PICK le, g : le = cms.cert /\ g = cms.sig  OBVIOUS
    <3>5. cms = [content |-> c, cert |-> le, sig |-> g, unsigned |-> <<>>]
      BY <2>2, <2>4, <3>4 DEF Signing!signDetachedPAdESCMS
    <3>6. [content |-> c, cert |-> le, sig |-> g, unsigned |-> <<>>] \in Envelopes
      <4>1. le \in {si.leaf : si \in Signers} \cup {0} /\ g \in Signatures
        BY <3>2, <3>3, <3>4
      <4>2. c \in Contents \cup {""}  OBVIOUS
      <4>3. <<>> \in Seq(Tokens)  BY NoTokens
      <4> QED  BY <4>1, <4>2, <4>3, Zenon DEF Envelopes
    <3> QED  BY <3>5, <3>6
  <2>6. req[r].trust # "verified"  BY <1>1, <1>2 DEF ExportSound
  <2>7. PICK q : /\ Signing!Set(r, q)
                 /\ q \in Exportings /\ q.cms = cms /\ q.signer = req[r].signer
                 /\ q.trust = req[r].trust /\ q.endpoint = req[r].endpoint
                 /\ q.pc = IF req[r].endpoint = "none" THEN "done" ELSE "waiting"
                 /\ q.nonce = IF req[r].endpoint = "none" THEN req[r].nonce ELSE nonces + 1
    <3>1. CASE req[r].endpoint = "none"
      <4>1. PICK q : q = [req[r] EXCEPT !.pc = "done", !.cms = cms]  OBVIOUS
      <4>2. /\ q \in Exportings /\ q.cms = cms /\ q.signer = req[r].signer
            /\ q.trust = req[r].trust /\ q.endpoint = req[r].endpoint
            /\ q.pc = "done" /\ q.nonce = req[r].nonce
        BY <1>2, <2>5, <4>1 DEF Exportings
      <4>3. Signing!Set(r, q)  BY <2>1, <2>2, <3>1, <4>1
      <4> QED  BY <3>1, <4>2, <4>3
    <3>2. CASE req[r].endpoint # "none"
      <4>0. PICK n : n = nonces + 1  OBVIOUS
      <4>1. PICK q : q = [req[r] EXCEPT !.pc = "waiting", !.cms = cms, !.nonce = n]
        OBVIOUS
      <4>2. /\ q \in Exportings /\ q.cms = cms /\ q.signer = req[r].signer
            /\ q.trust = req[r].trust /\ q.endpoint = req[r].endpoint
            /\ q.pc = "waiting" /\ q.nonce = n
        <5>1. n \in Nat  BY <1>0, <4>0
        <5> QED  BY <1>2, <2>5, <4>1, <5>1 DEF Exportings
      <4>3. Signing!Set(r, q)  BY <2>1, <2>2, <3>2, <4>0, <4>1
      <4> QED  BY <3>2, <4>0, <4>2, <4>3
    <3> QED  BY <3>1, <3>2
  <2>8. nonces' \in Nat /\ nonces <= nonces' /\ q.nonce <= nonces'
    <3>1. req[r].nonce \in Nat /\ req[r].nonce <= nonces  BY <1>2 DEF ExportSound, Exportings
    <3> QED  BY <1>0, <2>1, <2>7, <3>1
  <2>9. Verifies(q)'
    <3>1. /\ cms.sig[1] = cms.cert
          /\ cms.sig[2] = Signing!cmsSignedAttributes(cms.content, cms.cert)
      BY <2>4
    <3> QED  BY <2>7, <3>1 DEF Verifies
  <2>10. q.cms.unsigned = <<>>  BY <2>4, <2>7
  <2>11. DOMAIN q.cms.unsigned = {} /\ (q.cms.unsigned # <<>>) = FALSE  BY <2>10
  <2>12. ExportSound(q)'
    BY <2>3, <2>6, <2>7, <2>8, <2>9, <2>11 DEF ExportSound
  <2> QED  BY <1>0, <1>1, <2>7, <2>8, <2>12, SigningStep
<1> QED  BY <1>3, <1>4

\* The authority issues a token for a request it saw.
LEMMA SigningIssue ==
  ASSUME SigningInv, NEW r \in Callers, Signing!Issue(r)
  PROVE  SigningInv'
<1>1. UNCHANGED <<req, nonces>>  BY DEF Signing!Issue
<1>2. PICK flaw \in {"none", "policy", "chain", "content", "usage", "time", "imprint"} :
         issued' = issued \cup {[ nonce |-> req[r].nonce,
             policy  |-> IF flaw = "policy" THEN "other" ELSE Policy,
             imprint |-> IF flaw = "imprint" THEN <<>>
                         ELSE Signing!SignatureTimestampImprint(req[r].cms),
             chain   |-> IF flaw = "chain" THEN "unknown" ELSE "trusted",
             content |-> IF flaw = "content" THEN "data" ELSE "TSTInfo",
             usage   |-> IF flaw = "usage" THEN "plain" ELSE "critical",
             timely  |-> flaw # "time" ]}
  BY DEF Signing!Issue
<1>3. req[r] \in Exportings  BY DEF SigningInv
<1>4. req[r].nonce \in Nat /\ req[r].cms \in Envelopes  BY <1>3 DEF Exportings
<1>5. req[r].cms.sig \in Signatures /\ <<>> \in Signatures  BY <1>4 DEF Envelopes, Signatures
<1>6. issued' \subseteq Tokens
  <2>1. issued \subseteq Tokens  BY DEF SigningInv
  <2>2. Signing!SignatureTimestampImprint(req[r].cms) \in Signatures
    BY <1>5 DEF Signing!SignatureTimestampImprint
  <2> DEFINE po == IF flaw = "policy" THEN "other" ELSE Policy
             im == IF flaw = "imprint" THEN <<>>
                   ELSE Signing!SignatureTimestampImprint(req[r].cms)
             ch == IF flaw = "chain" THEN "unknown" ELSE "trusted"
             co == IF flaw = "content" THEN "data" ELSE "TSTInfo"
             us == IF flaw = "usage" THEN "plain" ELSE "critical"
             ti == flaw # "time"
             tok == [nonce |-> req[r].nonce, policy |-> po, imprint |-> im, chain |-> ch,
                     content |-> co, usage |-> us, timely |-> ti]
  <2>3. po \in {"other", Policy} /\ im \in Signatures  BY <1>5, <2>2
  <2>4. ch \in {"unknown", "trusted"} /\ co \in {"data", "TSTInfo"} /\ us \in {"plain", "critical"}
    OBVIOUS
  <2>5. ti \in BOOLEAN  OBVIOUS
  <2>6. issued' = issued \cup {tok}  BY <1>2
  <2>7. tok \in Tokens
    <3> HIDE DEF po, im, ch, co, us, ti
    <3> QED  BY <1>4, <2>3, <2>4, <2>5, Zenon DEF Tokens
  <2> HIDE DEF tok
  <2> QED  BY <2>1, <2>6, <2>7
<1>7. issued \subseteq issued'  BY <1>2
<1>8. Signing!Set(r, req[r])
  BY <1>1 DEF SigningInv, Signing!Set
<1>9. PICK q : q = req[r]  OBVIOUS
<1>10. ExportSound(q)'
  <2>1. ExportSound(q)  BY <1>9 DEF SigningInv
  <2> QED  BY <1>1, <1>7, <2>1 DEF ExportSound, Verifies, Answers
<1>11. nonces \in Nat  BY DEF SigningInv
<1> QED  BY <1>1, <1>6, <1>7, <1>8, <1>9, <1>10, <1>11, SigningStep

\* The reply: a token is taken only if it answers this request.
LEMMA SigningReceive ==
  ASSUME SigningInv, NEW r \in Callers, Signing!Receive(r)
  PROVE  SigningInv'
<1>0. nonces \in Nat /\ issued \subseteq Tokens  BY DEF SigningInv
<1>1. UNCHANGED <<issued, nonces>> /\ req[r].pc = "waiting"  BY DEF Signing!Receive
<1>2. req[r] \in Exportings /\ ExportSound(req[r])  BY DEF SigningInv
<1>3. CASE Signing!Fails(r)  BY <1>1, <1>3, SigningFails
<1>4. CASE ~Signing!Fails(r)
  <2>1. PICK reply \in Signing!Refusals \cup {Signing!Granted(<<tok>>) : tok \in issued} :
            /\ Signing!validateResponse(reply) /\ Signing!validateToken(reply.token[1], req[r])
            /\ Signing!Set(r, [req[r] EXCEPT !.pc = "got", !.token = reply.token,
                                             !.trust = Signing!trustStatus(req[r])])
    BY <1>4 DEF Signing!Receive
  <2>2. reply \notin Signing!Refusals
    <3>1. reply.token # <<>>  BY <2>1 DEF Signing!validateResponse
    <3> QED  BY <3>1 DEF Signing!Refusals, Signing!Granted
  <2>3. PICK tok \in issued : reply = Signing!Granted(<<tok>>)  BY <2>1, <2>2
  <2>4. reply.token = <<tok>>  BY <2>3 DEF Signing!Granted
  <2>5. tok \in Tokens /\ <<tok>> \in Seq(Tokens) /\ <<tok>> # <<>> /\ <<tok>>[1] = tok
    BY <1>0, <2>3
  <2>6. /\ tok.imprint = req[r].cms.sig /\ tok.nonce = req[r].nonce
        /\ req[r].roots => tok.chain = "trusted"
    BY <2>1, <2>4, <2>5
    DEF Signing!validateToken, Signing!tokenSound, Signing!SignatureTimestampImprint
  <2>7. PICK tr \in {"verified", "not_evaluated"} :
            tr = Signing!trustStatus(req[r]) /\ (req[r].roots <=> tr = "verified")
    BY DEF Signing!trustStatus
  <2>8. PICK q : q = [req[r] EXCEPT !.pc = "got", !.token = <<tok>>, !.trust = tr]  OBVIOUS
  <2>9. /\ q \in Exportings /\ q.pc = "got" /\ q.token = <<tok>> /\ q.trust = tr
        /\ q.cms = req[r].cms /\ q.signer = req[r].signer /\ q.nonce = req[r].nonce
        /\ q.endpoint = req[r].endpoint /\ q.roots = req[r].roots
    BY <1>2, <2>5, <2>8 DEF Exportings
  <2>10. Signing!Set(r, q)  BY <2>1, <2>4, <2>7, <2>8
  <2>11. Answers(q.token[1], q)'  BY <1>1, <2>3, <2>5, <2>6, <2>9 DEF Answers
  <2>12. Verifies(q)'  BY <1>2, <2>9 DEF ExportSound, Verifies
  <2>13. q.cms.unsigned = <<>>  BY <1>1, <1>2, <2>9 DEF ExportSound
  <2>14. DOMAIN q.cms.unsigned = {} /\ (q.cms.unsigned # <<>>) = FALSE  BY <2>13, NoTokenYet
  <2>15. /\ q.signer.key = q.signer.leaf /\ q.nonce <= nonces' /\ q.endpoint # "none"
    BY <1>1, <1>2, <2>9 DEF ExportSound
  <2>16. q.trust = "verified" => q.token[1].chain = "trusted" /\ q.roots /\ q.token # <<>>
    BY <2>5, <2>6, <2>7, <2>9
  <2>17. q.roots => q.trust = "verified"  BY <2>7, <2>9
  <2>18. ExportSound(q)'
    BY <2>5, <2>9, <2>11, <2>12, <2>14, <2>15, <2>16, <2>17 DEF ExportSound
  <2>19. nonces' \in Nat /\ nonces <= nonces'  BY <1>0, <1>1
  <2> QED  BY <1>0, <1>1, <2>10, <2>18, <2>19, SigningStep
<1> QED  BY <1>3, <1>4

\* The token is checked again and embedded.
LEMMA SigningEmbed ==
  ASSUME SigningInv, NEW r \in Callers, Signing!Embed(r)
  PROVE  SigningInv'
<1>0. nonces \in Nat /\ issued \subseteq Tokens  BY DEF SigningInv
<1>1. UNCHANGED <<issued, nonces>> /\ req[r].pc = "got"  BY DEF Signing!Embed
<1>2. req[r] \in Exportings /\ ExportSound(req[r])  BY DEF SigningInv
<1>3. CASE Signing!Fails(r)  BY <1>1, <1>3, SigningFails
<1>4. CASE ~Signing!Fails(r)
  <2>1. PICK tok : tok = req[r].token[1]  OBVIOUS
  <2>2. PICK cms : cms = [req[r].cms EXCEPT !.unsigned = Append(@, tok)]  OBVIOUS
  <2>3. PICK q : q = [req[r] EXCEPT !.pc = "done", !.cms = cms]  OBVIOUS
  <2>4. Signing!Set(r, q)
    BY <1>4, <2>1, <2>2, <2>3 DEF Signing!Embed, Signing!AddSignatureTimestamp
  <2>5. req[r].token # <<>> /\ Answers(tok, req[r]) /\ tok \in Tokens
    BY <1>0, <1>1, <1>2, <2>1 DEF ExportSound, Answers
  <2>6. /\ req[r].cms \in Envelopes /\ req[r].cms.unsigned = <<>>
        /\ req[r].cms.unsigned \in Seq(Tokens)
    BY <1>1, <1>2, NoTokens DEF ExportSound, Exportings
  <2>7. PICK un : un = Append(req[r].cms.unsigned, tok)  OBVIOUS
  <2>8. un \in Seq(Tokens) /\ Len(un) = 1 /\ un[1] = tok
    BY <2>5, <2>6, <2>7
  <2>9. DOMAIN un = {1} /\ un # <<>>  BY <2>8
  <2>10. /\ cms \in Envelopes /\ cms.unsigned = un /\ cms.sig = req[r].cms.sig
         /\ cms.cert = req[r].cms.cert /\ cms.content = req[r].cms.content
    BY <2>2, <2>6, <2>7, <2>8 DEF Envelopes
  <2>11. /\ q \in Exportings /\ q.pc = "done" /\ q.token = req[r].token /\ q.cms = cms
         /\ q.trust = req[r].trust /\ q.signer = req[r].signer /\ q.nonce = req[r].nonce
         /\ q.endpoint = req[r].endpoint /\ q.roots = req[r].roots
    BY <1>2, <2>3, <2>10 DEF Exportings
  <2>12. Answers(tok, q)'  BY <1>1, <2>5, <2>10, <2>11 DEF Answers
  <2>13. \A i \in DOMAIN q.cms.unsigned : Answers(q.cms.unsigned[i], q)'
    BY <2>8, <2>9, <2>10, <2>11, <2>12
  <2>14. Verifies(q)'  BY <1>2, <2>10, <2>11 DEF ExportSound, Verifies
  <2>15. /\ q.signer.key = q.signer.leaf /\ q.nonce <= nonces' /\ q.endpoint # "none"
         /\ q.roots => q.trust = "verified"
    BY <1>1, <1>2, <2>11 DEF ExportSound
  <2>16. q.trust = "verified" => q.token[1].chain = "trusted" /\ q.roots /\ q.token # <<>>
    BY <1>2, <2>11 DEF ExportSound
  <2>17. q.cms.unsigned # <<>>  BY <2>9, <2>10, <2>11
  <2>18. ExportSound(q)'
    BY <2>11, <2>13, <2>14, <2>15, <2>16, <2>17 DEF ExportSound
  <2>19. nonces' \in Nat /\ nonces <= nonces'  BY <1>0, <1>1
  <2> QED  BY <1>0, <1>1, <2>4, <2>18, <2>19, SigningStep
<1> QED  BY <1>3, <1>4

\* The invariant is inductive.
LEMMA SigningNext ==
  ASSUME SigningInv, [Signing!Next]_signingVars
  PROVE  SigningInv'
<1>1. CASE UNCHANGED signingVars
  BY <1>1 DEF signingVars, SigningInv, ExportSound, Verifies, Answers
<1>2. CASE Signing!Next
  <2>1. PICK r \in Callers :
            \/ Signing!Load(r) \/ Signing!Make(r) \/ Signing!Issue(r) \/ Signing!Receive(r)
            \/ Signing!Timeout(r) \/ Signing!Embed(r) \/ Signing!Again(r)
    BY <1>2, Zenon DEF Signing!Next
  <2>2. CASE Signing!Timeout(r)  BY <2>2, SigningFails DEF Signing!Timeout
  <2>3. CASE Signing!Again(r)
    <3>1. Signing!Set(r, Signing!Idle) /\ UNCHANGED <<issued, nonces>>
      BY <2>3 DEF Signing!Again
    <3>2. nonces \in Nat /\ issued \subseteq Tokens  BY DEF SigningInv
    <3>3. PICK q : q = Signing!Idle  OBVIOUS
    <3>4. ExportSound(q)  BY <3>2, <3>3, SigningEmpty
    <3>5. ExportSound(q)'  BY <3>1, <3>4 DEF ExportSound, Verifies, Answers
    <3> QED  BY <3>1, <3>2, <3>3, <3>5, SigningStep
  <2> QED
    BY <2>1, <2>2, <2>3, SigningLoad, SigningMake, SigningIssue, SigningReceive, SigningEmbed,
       Zenon
<1> QED  BY <1>1, <1>2

\* SignPDF with a time stamp, and DownloadAndInstall: a token in a file answers this very
\* request, whatever was cached, swapped or late; a signature verifies and is not quietly
\* downgraded, and "verified" means configured roots; an artifact under its final name,
\* and what the installer gets, is one the pipeline signed for this build, whichever calls
\* overlap and wherever the process ends.
THEOREM NothingIsForged == Spec => []NothingForged
<1> DEFINE I == /\ part = "signing" => SigningInv
                /\ part = "update" => UpdateInv
<1>1. Init => I  BY SigningInit, UpdateInit, PartsAssumption DEF Init
<1>2. I /\ [Next]_vars => I'
  <2> SUFFICES ASSUME I, [Next]_vars PROVE I'  OBVIOUS
  <2>1. ASSUME part' = "signing" PROVE SigningInv'
    <3>1. part = "signing" /\ [Signing!Next]_signingVars  BY <2>1 DEF Next, vars
    <3> QED  BY <3>1, SigningNext
  <2>2. ASSUME part' = "update" PROVE UpdateInv'
    <3>1. part = "update" /\ [Update!Next]_updateVars  BY <2>2 DEF Next, vars
    <3> QED  BY <3>1, UpdateNext, PartsAssumption
  <2> QED  BY <2>1, <2>2
<1>3. I => NothingForged
  <2>1. ASSUME SigningInv
        PROVE  /\ Signing!TypeOK /\ Signing!TokenAnswersRequest /\ Signing!TrustMeansRoots
               /\ Signing!SignatureVerifies /\ Signing!NoDowngrade
    <3>1. \A r \in Callers : ExportSound(req[r]) /\ req[r] \in Exportings /\ req[r].nonce \in Nat
      BY <2>1 DEF SigningInv, Exportings
    <3>2. Signing!TypeOK
      <4>1. nonces \in Nat  BY <2>1 DEF SigningInv
      <4>2. \A r \in Callers : req[r].nonce <= nonces /\ (req[r].pc = "got" => req[r].token # <<>>)
        BY <3>1 DEF ExportSound
      <4>3. \A r \in Callers :
                req[r].pc \in {"idle", "loaded", "waiting", "got", "done", "failed"}
        BY <3>1 DEF Exportings
      <4> QED  BY <3>1, <4>1, <4>2, <4>3 DEF Signing!TypeOK
    <3>3. Signing!TokenAnswersRequest
      BY <3>1 DEF ExportSound, Answers, Signing!TokenAnswersRequest
    <3>4. Signing!TrustMeansRoots  BY <3>1 DEF ExportSound, Signing!TrustMeansRoots
    <3>5. Signing!SignatureVerifies
      BY <3>1 DEF ExportSound, Verifies, Signing!SignatureVerifies
    <3>6. Signing!NoDowngrade  BY <3>1 DEF ExportSound, Signing!NoDowngrade
    <3> QED  BY <3>2, <3>3, <3>4, <3>5, <3>6
  <2>2. ASSUME UpdateInv PROVE Update!TypeOK /\ Update!FilesVerified /\ Update!LaunchedGenuine
    BY <2>2 DEF UpdateInv, UpdateTypes
  <2> QED  BY <2>1, <2>2 DEF NothingForged
<1> QED  BY <1>1, <1>2, <1>3, PTL DEF Spec

-----------------------------------------------------------------------------
(* Proofs: a job starts on the baseline, and no sweep leaves the folder *)

FolderHosts ==
    [pc : {"idle", "mkdir", "run", "sweep", "entry", "open", "unlink"},
     why : {"", "pre", "post", "only"}, todo : SUBSET Folder!AllNames, name : Folder!AllNames,
     st : Folder!Inodes \cup {"none"}, bad : BOOLEAN, unclean : BOOLEAN, beside : BOOLEAN]

\* No worker marks a file outside the folder, and no sweep touches one.
FolderTypes ==
    /\ at \in [Folder!AllNames -> Folder!Inodes \cup {"none"}]
    /\ meta \subseteq Folder!Inodes \ {"outside"}
    /\ touched \subseteq Folder!Inodes \ {"outside"}
    /\ lock \in Two \cup {"nobody"}
    /\ host \in [Two -> FolderHosts]
    /\ worker \in [Two -> {"none", "running", "orphan"}]

\* Only the holder of the lock works on the folder, and a worker that runs has a host.
FolderLock ==
    \A g \in Two : /\ host[g].pc # "idle" <=> lock = g
                   /\ worker[g] = "running" => host[g].pc = "run"

\* A host that took the lock with no orphan about and is on its way to a job.
FolderReady(g) ==
    /\ host[g].beside = FALSE
    /\ \/ host[g].pc = "mkdir"
       \/ host[g].pc \in {"sweep", "entry", "open", "unlink"} /\ host[g].why = "pre"

\* It is alone, and once it goes to make the job's folder the tree is the baseline.
FolderAlone ==
    \A g \in Two : FolderReady(g) => /\ \A k \in Two : worker[k] = "none"
                                     /\ host[g].pc = "mkdir" => Folder!SameTree

\* The inductive invariant of the worker's folder.
FolderInv == FolderTypes /\ FolderLock /\ FolderAlone

LEMMA FolderIdle == Folder!Idle \in FolderHosts /\ Folder!Idle.pc = "idle"
<1>1. "file" \in Folder!AllNames  BY DEF Folder!AllNames, Folder!BaseNames
<1>2. {} \in SUBSET Folder!AllNames  OBVIOUS
<1> QED  BY <1>1, <1>2 DEF Folder!Idle, FolderHosts

LEMMA FolderInit == ASSUME Folder!BoundsAssumption, Folder!Init PROVE FolderInv
<1>1. \A n \in Folder!AllNames : Folder!Baseline(n) \in Folder!Inodes \cup {"none"}
  BY DEF Folder!Baseline, Folder!Base, Folder!BaseNames, Folder!Inodes
<1>2. FolderTypes  BY <1>1, FolderIdle DEF Folder!Init, FolderTypes
<1>3. \A g \in Two : host[g].pc = "idle" /\ worker[g] = "none" /\ lock # g
  BY FolderIdle DEF Folder!Init, Folder!BoundsAssumption
<1>4. FolderLock  BY <1>3 DEF FolderLock
<1>5. FolderAlone  BY <1>3 DEF FolderAlone, FolderReady
<1> QED  BY <1>2, <1>4, <1>5 DEF FolderInv

\* The holder of the lock goes on, and changes no worker: it is ready only if it was, or
\* took the lock with everybody alone.
LEMMA FolderGoesOn ==
  ASSUME Folder!BoundsAssumption, FolderInv, NEW h \in Two, NEW q \in FolderHosts,
         host' = [host EXCEPT ![h] = q], worker' = worker,
         at' \in [Folder!AllNames -> Folder!Inodes \cup {"none"}],
         meta' \subseteq Folder!Inodes \ {"outside"},
         touched' \subseteq Folder!Inodes \ {"outside"},
         lock = h \/ (lock = "nobody" /\ host[h].pc = "idle"),
         lock' = IF q.pc = "idle" THEN "nobody" ELSE h,
         worker[h] = "running" => q.pc = "run",
         FolderReady(h)' => /\ \A k \in Two : worker[k] = "none"
                            /\ q.pc = "mkdir" => Folder!SameTree'
  PROVE  FolderInv'
<1>1. host' \in [Two -> FolderHosts] /\ host'[h] = q /\ \A g \in Two \ {h} : host'[g] = host[g]
  BY DEF FolderInv, FolderTypes
<1>2. \A g \in Two \ {h} : host[g].pc = "idle"
  BY DEF FolderInv, FolderLock, Folder!BoundsAssumption
<1>3. FolderTypes'  BY <1>1 DEF FolderInv, FolderTypes
<1>4. FolderLock'
  BY <1>1, <1>2 DEF FolderInv, FolderLock, Folder!BoundsAssumption
<1>5. FolderAlone'
  <2> SUFFICES ASSUME NEW g \in Two, FolderReady(g)'
               PROVE  /\ \A k \in Two : worker'[k] = "none"
                      /\ host'[g].pc = "mkdir" => Folder!SameTree'
    BY DEF FolderAlone
  <2>1. g = h  BY <1>1, <1>2 DEF FolderReady
  <2> QED  BY <1>1, <2>1
<1> QED  BY <1>3, <1>4, <1>5 DEF FolderInv

\* A host that begins to sweep.
LEMMA FolderSweeping ==
  ASSUME FolderInv, NEW h \in Two, NEW why \in {"pre", "post", "only"}
  PROVE  /\ Folder!Sweeping(h, why) \in FolderHosts
         /\ Folder!Sweeping(h, why).pc = "sweep" /\ Folder!Sweeping(h, why).why = why
<1>1. host[h] \in FolderHosts /\ Folder!Entries \in SUBSET Folder!AllNames
  BY DEF FolderInv, FolderTypes, Folder!Entries
<1> QED  BY <1>1 DEF Folder!Sweeping, FolderHosts

\* Do and Sweep take the lock.
LEMMA FolderTakes ==
  ASSUME Folder!BoundsAssumption, FolderInv, NEW h \in Two, Folder!Do(h) \/ Folder!SweepOnly(h)
  PROVE  FolderInv'
<1>1. /\ host[h].pc = "idle" /\ lock = "nobody" /\ lock' = h
      /\ UNCHANGED <<at, meta, altered, touched, worker>>
  BY DEF Folder!Do, Folder!SweepOnly
<1>2. /\ at' \in [Folder!AllNames -> Folder!Inodes \cup {"none"}]
      /\ meta' \subseteq Folder!Inodes \ {"outside"}
      /\ touched' \subseteq Folder!Inodes \ {"outside"} /\ worker[h] # "running"
  BY <1>1 DEF FolderInv, FolderTypes, FolderLock
<1>3. Folder!SameTree' <=> Folder!SameTree
  BY <1>1 DEF Folder!SameTree
<1>4. host[h] \in FolderHosts  BY DEF FolderInv, FolderTypes
<1>5. CASE Folder!Do(h)
  <2>1. PICK base : base = IF Folder!SameTree THEN [host[h] EXCEPT !.pc = "mkdir"]
                           ELSE Folder!Sweeping(h, "pre")
    OBVIOUS
  <2>2. base \in FolderHosts /\ base.pc \in {"mkdir", "sweep"}
        /\ (base.pc = "mkdir" => Folder!SameTree)
    BY <1>4, <2>1, FolderSweeping DEF FolderHosts
  <2>3. PICK q : q = [base EXCEPT !.beside = (Folder!Orphans # {})]  OBVIOUS
  <2>4. host' = [host EXCEPT ![h] = q]
    BY <1>5, <2>1, <2>3 DEF Folder!Do
  <2>5. (Folder!Orphans # {}) \in BOOLEAN  OBVIOUS
  <2>6. q \in FolderHosts /\ q.pc = base.pc /\ q.beside = (Folder!Orphans # {})
    BY <2>2, <2>3, <2>5 DEF FolderHosts
  <2>7. ASSUME q.beside = FALSE PROVE \A k \in Two : worker[k] = "none"
    <3>1. Folder!Orphans = {}  BY <2>6, <2>7
    <3> QED
      BY <1>1, <3>1 DEF Folder!Orphans, FolderInv, FolderTypes, FolderLock,
                        Folder!BoundsAssumption
  <2>8. host'[h] = q  BY <2>4 DEF FolderInv, FolderTypes
  <2> QED
    BY <1>1, <1>2, <1>3, <2>2, <2>4, <2>6, <2>7, <2>8, FolderGoesOn DEF FolderReady
<1>6. CASE Folder!SweepOnly(h)
  <2>1. PICK q : q = Folder!Sweeping(h, "only")  OBVIOUS
  <2>2. q \in FolderHosts /\ q.pc = "sweep" /\ q.why = "only"  BY <2>1, FolderSweeping
  <2>3. host' = [host EXCEPT ![h] = q]  BY <1>6, <2>1 DEF Folder!SweepOnly
  <2>4. host'[h] = q  BY <2>3 DEF FolderInv, FolderTypes
  <2>5. ~FolderReady(h)'  BY <2>2, <2>4 DEF FolderReady
  <2> QED  BY <1>1, <1>2, <2>2, <2>3, <2>5, FolderGoesOn
<1> QED  BY <1>5, <1>6

\* The steps of a sweep.
LEMMA FolderSweeps ==
  ASSUME Folder!BoundsAssumption, FolderInv, NEW h \in Two, Folder!SweepStep(h)
  PROVE  FolderInv'
<1>1. /\ host[h].pc \in {"sweep", "entry", "open", "unlink"}
      /\ altered' = altered /\ worker' = worker
  BY DEF Folder!SweepStep, Folder!Look, Folder!Decide, Folder!Restore, Folder!Unlink,
         Folder!SweepEnds
<1>2. lock = h /\ worker[h] # "running" /\ host[h] \in FolderHosts
  BY <1>1 DEF FolderInv, FolderTypes, FolderLock
<1>3. host[h].name \in Folder!AllNames /\ host[h].st \in Folder!Inodes \cup {"none"}
      /\ host[h].todo \subseteq Folder!AllNames
  BY <1>2 DEF FolderHosts
<1>4. /\ at \in [Folder!AllNames -> Folder!Inodes \cup {"none"}]
      /\ meta \subseteq Folder!Inodes \ {"outside"} /\ touched \subseteq Folder!Inodes \ {"outside"}
  BY DEF FolderInv, FolderTypes
\* Another step of the same sweep.
<1>5. ASSUME NEW q \in FolderHosts, host' = [host EXCEPT ![h] = q], lock' = lock,
             q.pc \in {"sweep", "entry", "open", "unlink"}, q.why = host[h].why,
             q.beside = host[h].beside,
             at' \in [Folder!AllNames -> Folder!Inodes \cup {"none"}],
             meta' \subseteq Folder!Inodes \ {"outside"},
             touched' \subseteq Folder!Inodes \ {"outside"}
      PROVE  FolderInv'
  <2>1. host'[h] = q  BY <1>5 DEF FolderInv, FolderTypes
  <2>2. FolderReady(h)' => FolderReady(h)  BY <1>1, <1>5, <2>1 DEF FolderReady
  <2>3. FolderReady(h)' => \A k \in Two : worker[k] = "none"
    BY <2>2 DEF FolderInv, FolderAlone
  <2> QED  BY <1>1, <1>2, <1>5, <2>3, FolderGoesOn
<1>6. CASE Folder!Look(h)
  <2>1. PICK n \in host[h].todo :
            host' = [host EXCEPT ![h].pc = "entry", ![h].name = n, ![h].st = at[n]]
    BY <1>6 DEF Folder!Look
  <2>2. PICK q : q = [host[h] EXCEPT !.pc = "entry", !.name = n, !.st = at[n]]  OBVIOUS
  <2>3. n \in Folder!AllNames /\ at[n] \in Folder!Inodes \cup {"none"}  BY <1>3, <1>4
  <2>4. /\ q \in FolderHosts /\ q.pc = "entry" /\ q.why = host[h].why
        /\ q.beside = host[h].beside
    BY <1>2, <2>2, <2>3 DEF FolderHosts
  <2>5. host' = [host EXCEPT ![h] = q]  BY <2>1, <2>2 DEF FolderInv, FolderTypes
  <2>6. UNCHANGED <<at, meta, touched, lock>>  BY <1>6 DEF Folder!Look
  <2> QED  BY <1>4, <1>5, <2>4, <2>5, <2>6
<1>7. ASSUME NEW bad \in BOOLEAN
      PROVE  /\ Folder!NextEntry(h, bad) \in FolderHosts
             /\ Folder!NextEntry(h, bad).pc = "sweep"
             /\ Folder!NextEntry(h, bad).why = host[h].why
             /\ Folder!NextEntry(h, bad).beside = host[h].beside
  <2>1. PICK todo : todo = host[h].todo \ {host[h].name}  OBVIOUS
  <2>2. todo \in SUBSET Folder!AllNames  BY <1>3, <2>1
  <2>3. \/ Folder!NextEntry(h, bad) = [host[h] EXCEPT !.pc = "sweep", !.todo = todo, !.bad = TRUE]
        \/ Folder!NextEntry(h, bad) = [host[h] EXCEPT !.pc = "sweep", !.todo = todo, !.bad = FALSE]
    <3>1. (host[h].bad \/ bad) = TRUE \/ (host[h].bad \/ bad) = FALSE  OBVIOUS
    <3> QED  BY <2>1, <3>1, Zenon DEF Folder!NextEntry
  <2> QED  BY <1>2, <2>2, <2>3 DEF FolderHosts
<1>8. CASE Folder!Decide(h)
  <2>1. /\ UNCHANGED <<at, lock>>
        /\ meta' \subseteq Folder!Inodes \ {"outside"}
        /\ touched' \subseteq Folder!Inodes \ {"outside"}
    <3>1. UNCHANGED <<at, lock>>  BY <1>8 DEF Folder!Decide
    <3>2. PICK n : n = host[h].name  OBVIOUS
    <3>3. \/ UNCHANGED <<meta, touched>>
          \/ /\ at[n] \in Folder!Directories
             /\ meta' = meta \ {at[n]} /\ touched' = touched \cup {at[n]}
      BY <1>8, <3>2 DEF Folder!Decide
    <3> QED  BY <1>4, <3>1, <3>3 DEF Folder!Directories, Folder!Inodes
  <2>2. \/ host' = [host EXCEPT ![h] = Folder!NextEntry(h, TRUE)]
        \/ \E to \in {"unlink", "open"} : host' = [host EXCEPT ![h].pc = to]
    BY <1>8 DEF Folder!Decide
  <2>3. CASE host' = [host EXCEPT ![h] = Folder!NextEntry(h, TRUE)]
    <3>1. PICK q : q = Folder!NextEntry(h, TRUE)  OBVIOUS
    <3>2. /\ q \in FolderHosts /\ q.pc = "sweep" /\ q.why = host[h].why
          /\ q.beside = host[h].beside
      BY <1>7, <3>1
    <3> QED  BY <1>4, <1>5, <2>1, <2>3, <3>1, <3>2
  <2>4. CASE \E to \in {"unlink", "open"} : host' = [host EXCEPT ![h].pc = to]
    <3>1. PICK to \in {"unlink", "open"} : host' = [host EXCEPT ![h].pc = to]  BY <2>4
    <3>2. PICK q : q = [host[h] EXCEPT !.pc = to]  OBVIOUS
    <3>3. /\ q \in FolderHosts /\ q.pc = to /\ q.why = host[h].why
          /\ q.beside = host[h].beside
      BY <1>2, <3>2 DEF FolderHosts
    <3>4. host' = [host EXCEPT ![h] = q]  BY <3>1, <3>2 DEF FolderInv, FolderTypes
    <3> QED  BY <1>4, <1>5, <2>1, <3>3, <3>4
  <2> QED  BY <2>2, <2>3, <2>4
<1>9. CASE Folder!Restore(h)
  <2>0. PICK n, i : n = host[h].name /\ i = at[n]  OBVIOUS
  <2>1. /\ UNCHANGED <<at, lock>>
        /\ meta' \subseteq Folder!Inodes \ {"outside"}
        /\ touched' \subseteq Folder!Inodes \ {"outside"}
    <3>1. UNCHANGED <<at, lock>>  BY <1>9 DEF Folder!Restore
    <3>2. \/ UNCHANGED <<meta, touched>>
          \/ /\ meta' = meta \ {i}
             /\ touched' = IF i \in meta THEN touched \cup {i} ELSE touched
      BY <1>9, <2>0 DEF Folder!Restore
    <3> QED  BY <1>4, <3>1, <3>2
  <2>2. \/ \E bad \in BOOLEAN : host' = [host EXCEPT ![h] = Folder!NextEntry(h, bad)]
        \/ host' = [host EXCEPT ![h] = [host[h] EXCEPT !.pc = "unlink"]]
    <3>1. CASE i # host[h].st
      <4>1. host' = [host EXCEPT ![h] = Folder!NextEntry(h, TRUE)]
        BY <1>9, <2>0, <3>1 DEF Folder!Restore
      <4> QED  BY <4>1, Zenon
    <3>2. CASE i = host[h].st
      <4>1. CASE n \in Folder!BaseNames
        <5>1. host' = [host EXCEPT ![h] = Folder!NextEntry(h, i = "baseFile" /\ altered)]
          BY <1>9, <2>0, <3>2, <4>1, Zenon DEF Folder!Restore
        <5>2. (i = "baseFile" /\ altered) \in BOOLEAN  OBVIOUS
        <5> QED  BY <5>1, <5>2, Zenon
      <4>2. CASE n \notin Folder!BaseNames
        <5>1. host' = [host EXCEPT ![h] = [host[h] EXCEPT !.pc = "unlink"]]
          BY <1>9, <2>0, <3>2, <4>2 DEF Folder!Restore
        <5> QED  BY <5>1
      <4> QED  BY <4>1, <4>2
    <3> QED  BY <3>1, <3>2
  <2>3. CASE \E bad \in BOOLEAN : host' = [host EXCEPT ![h] = Folder!NextEntry(h, bad)]
    <3>1. PICK bad \in BOOLEAN : host' = [host EXCEPT ![h] = Folder!NextEntry(h, bad)]
      BY <2>3
    <3>2. PICK q : q = Folder!NextEntry(h, bad)  OBVIOUS
    <3>3. /\ q \in FolderHosts /\ q.pc = "sweep" /\ q.why = host[h].why
          /\ q.beside = host[h].beside
      BY <1>7, <3>2, Zenon
    <3>4. host' = [host EXCEPT ![h] = q]  BY <3>1, <3>2, Zenon
    <3> QED  BY <1>4, <1>5, <2>1, <3>3, <3>4
  <2>4. CASE host' = [host EXCEPT ![h] = [host[h] EXCEPT !.pc = "unlink"]]
    <3>1. PICK q : q = [host[h] EXCEPT !.pc = "unlink"]  OBVIOUS
    <3>2. /\ q \in FolderHosts /\ q.pc = "unlink" /\ q.why = host[h].why
          /\ q.beside = host[h].beside
      BY <1>2, <3>1 DEF FolderHosts
    <3> QED  BY <1>4, <1>5, <2>1, <2>4, <3>1, <3>2
  <2> QED  BY <2>2, <2>3, <2>4
<1>10. CASE Folder!Unlink(h)
  <2>1. UNCHANGED <<meta, touched, lock>>  BY <1>10 DEF Folder!Unlink
  <2>2. at' \in [Folder!AllNames -> Folder!Inodes \cup {"none"}]
    BY <1>4, <1>10 DEF Folder!Unlink
  <2>3. PICK bad \in BOOLEAN : host' = [host EXCEPT ![h] = Folder!NextEntry(h, bad)]
    <3> DEFINE fits == /\ at[host[h].name] # "none"
                       /\ at[host[h].name] \in Folder!Directories <=>
                              host[h].st \in Folder!Directories
    <3>1. host' = [host EXCEPT ![h] = Folder!NextEntry(h, ~fits)]
      BY <1>10, Zenon DEF Folder!Unlink
    <3>2. (~fits) \in BOOLEAN  OBVIOUS
    <3> HIDE DEF fits
    <3> QED  BY <3>1, <3>2, Zenon
  <2>4. PICK q : q = Folder!NextEntry(h, bad)  OBVIOUS
  <2>5. /\ q \in FolderHosts /\ q.pc = "sweep" /\ q.why = host[h].why
        /\ q.beside = host[h].beside
    BY <1>7, <2>4, Zenon
  <2>6. host' = [host EXCEPT ![h] = q]  BY <2>3, <2>4, Zenon
  <2> QED  BY <1>4, <1>5, <2>1, <2>2, <2>5, <2>6
<1>11. CASE Folder!SweepEnds(h)
  <2>1. UNCHANGED <<at, meta, touched>> /\ host[h].pc = "sweep"  BY <1>11 DEF Folder!SweepEnds
  <2>2. Folder!SameTree' <=> Folder!SameTree  BY <1>1, <2>1 DEF Folder!SameTree
  <2>3. CASE host[h].why = "pre" /\ ~host[h].bad /\ Folder!SameTree
    <3>1. PICK q : q = [Folder!Idle EXCEPT !.pc = "mkdir", !.beside = host[h].beside]  OBVIOUS
    <3>2. host' = [host EXCEPT ![h] = q] /\ lock' = lock
      BY <1>11, <2>3, <3>1 DEF Folder!SweepEnds
    <3>3. host[h].beside \in BOOLEAN  BY <1>2 DEF FolderHosts
    <3>4. q \in FolderHosts /\ q.pc = "mkdir" /\ q.beside = host[h].beside
      BY <3>1, <3>3, FolderIdle DEF FolderHosts
    <3>5. host'[h] = q  BY <3>2 DEF FolderInv, FolderTypes
    <3>6. FolderReady(h)' => FolderReady(h)
      BY <1>1, <2>3, <3>4, <3>5 DEF FolderReady
    <3>7. FolderReady(h)' => \A k \in Two : worker[k] = "none"
      BY <3>6 DEF FolderInv, FolderAlone
    <3> QED  BY <1>1, <1>2, <1>4, <2>1, <2>2, <2>3, <3>2, <3>4, <3>7, FolderGoesOn
  <2>4. CASE ~(host[h].why = "pre" /\ ~host[h].bad /\ Folder!SameTree)
    <3>1. PICK un \in BOOLEAN : host' = [host EXCEPT ![h] = [Folder!Idle EXCEPT !.unclean = un]]
      <4> DEFINE clean == ~host[h].bad /\ Folder!SameTree
      <4>1. host' = [host EXCEPT ![h] = [Folder!Idle EXCEPT !.unclean = ~clean]]
        BY <1>11, <2>4, Zenon DEF Folder!SweepEnds
      <4>2. (~clean) \in BOOLEAN  OBVIOUS
      <4> HIDE DEF clean
      <4> QED  BY <4>1, <4>2, Zenon
    <3>2. lock' = "nobody"  BY <1>11, <2>4, Zenon DEF Folder!SweepEnds
    <3>3. PICK q : /\ q \in FolderHosts /\ q.pc = "idle" /\ host' = [host EXCEPT ![h] = q]
      <4>1. /\ [Folder!Idle EXCEPT !.unclean = TRUE] \in FolderHosts
            /\ [Folder!Idle EXCEPT !.unclean = FALSE] \in FolderHosts
            /\ [Folder!Idle EXCEPT !.unclean = TRUE].pc = "idle"
            /\ [Folder!Idle EXCEPT !.unclean = FALSE].pc = "idle"
        BY FolderIdle DEF FolderHosts
      <4> QED  BY <3>1, <4>1, Zenon
    <3>4. host'[h] = q  BY <3>3 DEF FolderInv, FolderTypes
    <3>5. ~FolderReady(h)'  BY <3>3, <3>4 DEF FolderReady
    <3> QED  BY <1>1, <1>2, <1>4, <2>1, <3>2, <3>3, <3>5, FolderGoesOn
  <2> QED  BY <2>3, <2>4
<1> QED  BY <1>6, <1>8, <1>9, <1>10, <1>11 DEF Folder!SweepStep

\* The job: its folder, its worker and its end.
LEMMA FolderJob ==
  ASSUME Folder!BoundsAssumption, FolderInv, NEW h \in Two, Folder!StartJob(h) \/ Folder!JobEnds(h)
  PROVE  FolderInv'
<1>1. /\ host[h].pc \in {"mkdir", "run"} /\ UNCHANGED <<meta, altered, touched, lock>>
  BY DEF Folder!StartJob, Folder!JobEnds
<1>2. lock = h /\ host[h] \in FolderHosts
  BY <1>1 DEF FolderInv, FolderTypes, FolderLock
<1>3. \A g \in Two \ {h} : host[g].pc = "idle"
  BY <1>2 DEF FolderInv, FolderLock
<1>4. at' \in [Folder!AllNames -> Folder!Inodes \cup {"none"}]
  <2>1. at \in [Folder!AllNames -> Folder!Inodes \cup {"none"}]  BY DEF FolderInv, FolderTypes
  <2>2. CASE at' = at  BY <2>1, <2>2
  <2>3. CASE \E n \in Names : at' = [at EXCEPT ![n] = "newDir"]
    BY <2>1, <2>3 DEF Folder!Inodes
  <2> QED  BY <2>2, <2>3 DEF Folder!StartJob, Folder!JobEnds
\* The host holds the lock at a step that is not the one before a job.
<1>5. ASSUME NEW q \in FolderHosts, host' = [host EXCEPT ![h] = q],
             q.pc = "run" \/ (q.pc = "sweep" /\ q.why = "post"),
             NEW w \in {"none", "running", "orphan"}, worker' = [worker EXCEPT ![h] = w],
             w = "running" => q.pc = "run"
      PROVE  FolderInv'
  <2>1. /\ host' \in [Two -> FolderHosts] /\ host'[h] = q
        /\ \A g \in Two \ {h} : host'[g] = host[g]
    BY <1>5 DEF FolderInv, FolderTypes
  <2>2. /\ worker' \in [Two -> {"none", "running", "orphan"}] /\ worker'[h] = w
        /\ \A g \in Two \ {h} : worker'[g] = worker[g]
    BY <1>5 DEF FolderInv, FolderTypes
  <2>3. FolderTypes'  BY <1>1, <1>4, <2>1, <2>2 DEF FolderInv, FolderTypes
  <2>4. FolderLock'
    BY <1>1, <1>2, <1>3, <1>5, <2>1, <2>2 DEF FolderInv, FolderLock
  <2>5. FolderAlone'
    BY <1>3, <1>5, <2>1 DEF FolderAlone, FolderReady
  <2> QED  BY <2>3, <2>4, <2>5 DEF FolderInv
<1>6. PICK q : q = Folder!Sweeping(h, "post")  OBVIOUS
<1>7. q \in FolderHosts /\ q.pc = "sweep" /\ q.why = "post"  BY <1>6, FolderSweeping
<1>8. CASE Folder!JobEnds(h)
  <2>1. worker' = [worker EXCEPT ![h] = "none"] /\ host' = [host EXCEPT ![h] = q]
    BY <1>6, <1>8 DEF Folder!JobEnds
  <2> QED  BY <1>5, <1>7, <2>1
<1>9. CASE Folder!StartJob(h) /\ worker' # worker
  <2>1. /\ worker' = [worker EXCEPT ![h] = "running"]
        /\ host' = [host EXCEPT ![h].pc = "run"]
    BY <1>9 DEF Folder!StartJob
  <2>2. PICK k : k = [host[h] EXCEPT !.pc = "run"]  OBVIOUS
  <2>3. k \in FolderHosts /\ k.pc = "run"  BY <1>2, <2>2 DEF FolderHosts
  <2>4. host' = [host EXCEPT ![h] = k]  BY <2>1, <2>2 DEF FolderInv, FolderTypes
  <2> QED  BY <1>5, <2>1, <2>3, <2>4
<1>10. CASE Folder!StartJob(h) /\ worker' = worker
  <2>1. CASE host' = [host EXCEPT ![h] = Folder!Sweeping(h, "post")]
    <3>1. worker[h] \in {"none", "running", "orphan"} /\ worker' = [worker EXCEPT ![h] = worker[h]]
      BY <1>10 DEF FolderInv, FolderTypes
    <3>2. worker[h] # "running"
      BY <1>10 DEF Folder!StartJob, FolderInv, FolderLock
    <3> QED  BY <1>5, <1>6, <1>7, <2>1, <3>1, <3>2
  <2>2. CASE host' # [host EXCEPT ![h] = Folder!Sweeping(h, "post")]
    <3>1. worker' = [worker EXCEPT ![h] = "running"] /\ host[h].pc = "mkdir"
      BY <1>10, <2>2 DEF Folder!StartJob
    <3>2. worker'[h] = "running"  BY <3>1 DEF FolderInv, FolderTypes
    <3> QED  BY <1>10, <3>1, <3>2 DEF FolderInv, FolderLock
  <2> QED  BY <2>1, <2>2
<1> QED  BY <1>8, <1>9, <1>10

\* What workers and the ends of hosts do: nobody is ready while a worker lives, unless an
\* orphan was about when the lock was taken.
LEMMA FolderWorld ==
  ASSUME Folder!BoundsAssumption, FolderInv, NEW h \in Two,
         Folder!WorkerChanges(h) \/ Folder!OrphanEnds(h) \/ Folder!HostDies(h)
  PROVE  FolderInv'
<1>1. CASE Folder!WorkerChanges(h)
  <2>1. UNCHANGED <<touched, lock, host, worker>> /\ worker[h] # "none"
    BY <1>1 DEF Folder!WorkerChanges
  <2>2. /\ at \in [Folder!AllNames -> Folder!Inodes \cup {"none"}]
        /\ meta \subseteq Folder!Inodes \ {"outside"}
    BY DEF FolderInv, FolderTypes
  <2>3. /\ at' \in [Folder!AllNames -> Folder!Inodes \cup {"none"}]
        /\ meta' \subseteq Folder!Inodes \ {"outside"}
    <3>1. CASE \E n \in Folder!AllNames : \E i \in (Folder!Inodes \cup {"none"}) \ {at[n]} :
                 /\ at' = [k \in Folder!AllNames |->
                              IF k = n THEN i
                              ELSE IF at[k] = i /\ i \in Folder!Directories THEN "none" ELSE at[k]]
                 /\ UNCHANGED <<meta, altered>>
      BY <2>2, <3>1
    <3>2. CASE \E i \in {at[n] : n \in Folder!Entries} \ {"outside"} :
                 meta' = meta \cup {i} /\ UNCHANGED <<at, altered>>
      BY <2>2, <3>2 DEF Folder!Entries
    <3>3. CASE UNCHANGED <<at, meta>>  BY <2>2, <3>3
    <3> QED  BY <1>1, <3>1, <3>2, <3>3 DEF Folder!WorkerChanges
  <2>4. FolderTypes'  BY <2>1, <2>3 DEF FolderInv, FolderTypes
  <2>5. \A g \in Two : ~FolderReady(g)  BY <2>1 DEF FolderInv, FolderAlone
  <2>6. FolderLock' /\ FolderAlone'
    BY <2>1, <2>5 DEF FolderInv, FolderLock, FolderAlone, FolderReady
  <2> QED  BY <2>4, <2>6 DEF FolderInv
<1>2. CASE Folder!OrphanEnds(h)
  <2>1. /\ worker' = [worker EXCEPT ![h] = "none"]
        /\ UNCHANGED <<at, meta, altered, touched, lock, host>>
    BY <1>2 DEF Folder!OrphanEnds
  <2>2. /\ worker' \in [Two -> {"none", "running", "orphan"}] /\ worker'[h] = "none"
        /\ \A g \in Two \ {h} : worker'[g] = worker[g]
    BY <2>1 DEF FolderInv, FolderTypes
  <2>3. Folder!SameTree' <=> Folder!SameTree  BY <2>1 DEF Folder!SameTree
  <2> QED
    BY <2>1, <2>2, <2>3
    DEF FolderInv, FolderTypes, FolderLock, FolderAlone, FolderReady
<1>3. CASE Folder!HostDies(h)
  <2>1. /\ lock' = IF lock = h THEN "nobody" ELSE lock
        /\ worker' = [worker EXCEPT ![h] = IF @ = "running" THEN "orphan" ELSE @]
        /\ host' = [host EXCEPT ![h] = Folder!Idle]
        /\ UNCHANGED <<at, meta, altered, touched>>
    BY <1>3 DEF Folder!HostDies
  <2>2. /\ worker' \in [Two -> {"none", "running", "orphan"}]
        /\ worker'[h] = IF worker[h] = "running" THEN "orphan" ELSE worker[h]
        /\ \A g \in Two \ {h} : worker'[g] = worker[g]
    BY <2>1 DEF FolderInv, FolderTypes
  <2>3. /\ host' \in [Two -> FolderHosts] /\ host'[h].pc = "idle"
        /\ \A g \in Two \ {h} : host'[g] = host[g]
    BY <2>1, FolderIdle DEF FolderInv, FolderTypes
  <2>4. FolderTypes'  BY <2>1, <2>2, <2>3 DEF FolderInv, FolderTypes
  <2>5. FolderLock'
    BY <2>1, <2>2, <2>3 DEF FolderInv, FolderTypes, FolderLock, Folder!BoundsAssumption
  <2>6. FolderAlone'
    <3> SUFFICES ASSUME NEW g \in Two, FolderReady(g)'
                 PROVE  /\ \A k \in Two : worker'[k] = "none"
                        /\ host'[g].pc = "mkdir" => Folder!SameTree'
      BY DEF FolderAlone
    <3>1. g # h  BY <2>3 DEF FolderReady
    <3>2. FolderReady(g) /\ host'[g] = host[g]  BY <2>3, <3>1 DEF FolderReady
    <3>3. Folder!SameTree' <=> Folder!SameTree  BY <2>1 DEF Folder!SameTree
    <3> QED  BY <2>2, <3>2, <3>3 DEF FolderInv, FolderAlone
  <2> QED  BY <2>4, <2>5, <2>6 DEF FolderInv
<1> QED  BY <1>1, <1>2, <1>3

\* The invariant is inductive.
LEMMA FolderNext ==
  ASSUME Folder!BoundsAssumption, FolderInv, [Folder!Next]_folderVars
  PROVE  FolderInv'
<1>1. CASE UNCHANGED folderVars
  BY <1>1 DEF folderVars, FolderInv, FolderTypes, FolderLock, FolderAlone, FolderReady,
              Folder!SameTree
<1>2. CASE Folder!Next
  BY <1>2, FolderTakes, FolderJob, FolderWorld, FolderSweeps DEF Folder!Next
<1> QED  BY <1>1, <1>2

\* Container.Do: a job starts on the baseline and alone, whatever earlier jobs, sweeps and
\* hosts left in the worker's folder, unless a worker that outlived its host was there
\* when the lock was taken; for any number of hosts, jobs and names.
THEOREM JobsStartClean == Spec => JobsStartOnBaseline
<1> DEFINE I == part = "folder" => FolderInv
           A == part = "folder" => Folder!JobStartsOnBaseline
<1>1. Init => I  BY FolderInit, PartsAssumption DEF Init
<1>2. I /\ [Next]_vars => I' /\ [A]_vars
  <2> SUFFICES ASSUME I, [Next]_vars, part' = "folder" \/ part = "folder"
               PROVE  FolderInv' /\ [A]_vars
    BY DEF Next, vars
  <2>1. part = "folder" /\ [Folder!Next]_folderVars /\ FolderInv  BY DEF Next, vars
  <2>2. FolderInv'  BY <2>1, FolderNext, PartsAssumption
  <2>3. CASE UNCHANGED vars  BY <2>2, <2>3
  <2>4. CASE Folder!Next
    <3> SUFFICES ASSUME NEW h \in Two, worker[h] = "none", worker'[h] = "running",
                        ~host[h].beside
                 PROVE  Folder!SameTree /\ \A g \in Two : worker[g] = "none"
      BY <2>2 DEF Folder!JobStartsOnBaseline
    <3>1. worker \in [Two -> {"none", "running", "orphan"}]  BY <2>1 DEF FolderInv, FolderTypes
    <3>2. PICK g \in Two : worker' = [worker EXCEPT ![g] = "running"] /\ host[g].pc = "mkdir"
      BY <2>4, <3>1
      DEF Folder!Next, Folder!Do, Folder!SweepOnly, Folder!StartJob, Folder!JobEnds,
          Folder!WorkerChanges, Folder!OrphanEnds, Folder!HostDies, Folder!SweepStep,
          Folder!Look, Folder!Decide, Folder!Restore, Folder!Unlink, Folder!SweepEnds
    <3>3. g = h  BY <3>1, <3>2
    <3>4. FolderReady(h)
      <4>1. host[h].beside \in BOOLEAN  BY <2>1 DEF FolderInv, FolderTypes, FolderHosts
      <4>2. host[h].beside = FALSE  BY <4>1
      <4> QED  BY <3>2, <3>3, <4>2 DEF FolderReady
    <3> QED  BY <2>1, <3>2, <3>3, <3>4 DEF FolderInv, FolderAlone
  <2> QED  BY <2>1, <2>3, <2>4 DEF Next
<1> QED  BY <1>1, <1>2, PTL DEF Spec, JobsStartOnBaseline

-----------------------------------------------------------------------------
(* Proofs: the analytics host believes, signals and leaves only what it should *)

\* Where the driver is: before the stream, in the loop over the events, after it, and past
\* the reaping of the worker.
HostEarly == {"bind", "listen", "start", "watch", "bootstrap", "await"}
HostTalking == {"loop", "rqueue", "rwait", "rdrain", "cancel"}
HostReturning == {"unserve", "join", "close", "done"}
HostAfter == {"kill", "finish", "release", "reap", "reaped"} \cup HostReturning

\* The worker is reaped by the waiter alone, which learns of its exit first; once it has, the
\* group is gone and a process the worker made is known.
HostProc ==
    /\ hostJob \in Jobs /\ hostJob \in Host!AllJobs
    /\ hostPc \in HostEarly \cup HostTalking \cup HostAfter
    /\ proc \in {"none", "running", "dying", "exited", "reaped"}
    /\ child \in {"none", "group", "away", "lost", "dead"}
    /\ waiter \in {"off", "watch", "wait", "done"}
    /\ forkSeen \in BOOLEAN /\ reused \in BOOLEAN /\ harmed \in BOOLEAN
    /\ endpoint \in BOOLEAN
    /\ hostPc \in {"bind", "listen", "start"} => proc = "none" /\ waiter = "off"
    /\ hostPc \in {"bind", "listen", "done"} => endpoint = FALSE
    /\ hostPc = "watch" => waiter = "off"
    /\ hostPc \in {"bootstrap", "await", "kill", "finish", "release", "reap", "reaped"}
                  \cup HostTalking => waiter # "off"
    /\ waiter = "off" => child = "none"
    /\ waiter = "off" /\ hostPc \in HostReturning => proc \in {"none", "reaped"}
    /\ hostPc \in HostReturning => waiter \in {"off", "done"}
    /\ waiter = "wait" => proc = "exited"
    /\ waiter = "done" => proc = "reaped"
    /\ proc = "reaped" => waiter = "done" \/ hostPc \in HostReturning
    /\ waiter \in {"wait", "done"} => child # "group" /\ (forkSeen = TRUE \/ child = "none")
    /\ outcome \in {"completed", "failed"} => hostPc \in HostAfter
    /\ outcome \in {"completed", "failed"} /\ hostPc \in HostReturning => child = "none"
    /\ hostJob.fault # "crash" => harmed = FALSE

\* What a worker may say in a job of kind k.
HostEvents(k) ==
    {e \in [seq : Nat, kind : {"hello", "batch", "completed", "failed", "empty", "oversized",
                               "readat"}, ok : BOOLEAN, claim : Nat] :
       /\ e.kind = "readat" => k = "range"
       /\ e.kind = "failed" => e.ok = TRUE}

\* The events of a log are numbered without a gap, begin with the one Hello, and are verified.
HostGenuine(s) ==
    \A i \in 1 .. Len(s) : s[i].seq = i /\ (s[i].kind = "hello" <=> i = 1) /\ s[i].ok = TRUE

HostBatches(s) == {i \in DOMAIN s : s[i].kind = "batch"}

\* What the worker said and the host believes.
HostTalk ==
    /\ hostJob \in Host!AllJobs /\ hostPc \in HostEarly \cup HostTalking \cup HostAfter
    /\ wire \in Seq(HostEvents(hostJob.kind)) /\ hostLog \in Seq(HostEvents(hostJob.kind))
    /\ said \in Nat /\ said <= MaxEvents /\ Len(hostLog) + Len(wire) <= said
    /\ want = Len(hostLog) + 1
    /\ batches \in Nat /\ batches <= Len(hostLog)
    /\ batches = Cardinality(HostBatches(hostLog))
    /\ hostPc \in HostEarly => Len(hostLog) = 0
    /\ hostPc \in HostEarly \cup HostTalking => HostGenuine(hostLog)
    /\ outcome = "completed" =>
         /\ hostPc \in HostAfter /\ HostGenuine(hostLog) /\ Len(hostLog) > 0
         /\ hostLog[Len(hostLog)].kind = "completed" /\ hostLog[Len(hostLog)].claim = batches
    /\ stream # "none" => conn = "worker" /\ hostJob.proof = TRUE
    /\ hostPc \in HostTalking \/ Len(hostLog) > 0 => stream # "none"

\* A source chunk in the queue has its lease until the sender is done with it.
HostWaiting == uploader \in {"wait", "drain"} \/ hostPc \in {"rwait", "rdrain"}

HostFlags ==
    /\ hostLate \in BOOLEAN /\ sendErr \in BOOLEAN /\ hostStop \in BOOLEAN
    /\ sourceErr \in BOOLEAN /\ granted \in BOOLEAN /\ used \in BOOLEAN
    /\ hostPc = "done" => granted = FALSE

\* Where the goroutines are.
HostIo ==
    /\ hostJob \in Host!AllJobs /\ hostPc \in HostEarly \cup HostTalking \cup HostAfter
    /\ receiver \in {"off", "on", "done"} /\ sender \in {"off", "idle", "done"}
    /\ uploader \in {"off", "read", "queue", "wait", "drain", "done"}
    /\ ack \in {"none", "ok", "err"}
    /\ want \in Nat /\ want > 0
    /\ hostPc \in HostEarly => want = 1 /\ receiver = "off" /\ sender = "off"
    /\ want = 1 => /\ uploader = "off" /\ ack = "none"
                   /\ hostPc \notin {"rqueue", "rwait", "rdrain", "cancel", "finish"}
    /\ hostPc \in {"close", "done"} =>
         receiver # "on" /\ sender # "idle" /\ uploader \in {"off", "done"}

\* A chunk that is read holds the one lease until it is sent or given up.
HostLease ==
    /\ uploader # "off" => hostJob.kind \in {"upload", "stream"}
    /\ uploader \in {"queue", "wait", "drain"} => hostJob.kind = "stream"
    /\ hostPc \in {"rqueue", "rwait", "rdrain"} => hostJob.kind = "range"
    /\ leases = IF \/ uploader \in {"queue", "wait", "drain"}
                   \/ hostPc \in {"rqueue", "rwait", "rdrain"}
                THEN 1 ELSE 0
    /\ sentChunks \in Nat /\ sentChunks <= Chunks
    /\ uploader = "off" => sentChunks = 0
    /\ uploader \in {"read", "queue", "wait"} => sentChunks < Chunks

HostSources ==
    /\ hostQueue \in Seq({"execute", "chunk", "source", "cancel", "finish"})
    /\ Len(hostQueue) <= QueueCap
    /\ want = 1 => Len(hostQueue) = 0
    /\ sender # "done" /\ uploader \in {"read", "queue"} => ack = "none"
    /\ sender # "done" /\ hostJob.kind = "range" /\ hostPc \in {"loop", "rqueue", "cancel"} =>
         ack = "none"
    /\ sender # "done" => \A i \in 1 .. Len(hostQueue) :
         hostQueue[i] = "source" =>
           /\ ack = "none" /\ HostWaiting
           /\ \A j \in 1 .. Len(hostQueue) : hostQueue[j] = "source" => i = j

\* The inductive invariant of a job of the analytics host.
HostInv == HostProc /\ HostTalk /\ HostFlags /\ HostIo /\ HostLease /\ HostSources

\* The instance counts as the library does.
LEMMA HostCount == \A S : Host!Cardinality(S) = Cardinality(S)
BY DEF Host!Cardinality, Cardinality

\* How an event that is accepted counts.
LEMMA HostBatchCount ==
  ASSUME NEW E, NEW s \in Seq(E), NEW e \in E
  PROVE  Cardinality(HostBatches(Append(s, e)))
           = Cardinality(HostBatches(s)) + IF e.kind = "batch" THEN 1 ELSE 0
<1>1. /\ Append(s, e) \in Seq(E) /\ Len(Append(s, e)) = Len(s) + 1 /\ Len(s) \in Nat
      /\ \A i \in 1 .. Len(s) : Append(s, e)[i] = s[i]
      /\ Append(s, e)[Len(s) + 1] = e
  OBVIOUS
<1>2. DOMAIN s = 1 .. Len(s) /\ DOMAIN Append(s, e) = 1 .. Len(s) + 1
  BY <1>1
<1>3. IsFiniteSet(HostBatches(s))
  <2>1. IsFiniteSet(1 .. Len(s))  BY <1>1, FS_Interval
  <2> QED  BY <2>1, <1>2, FS_Subset DEF HostBatches
<1>4. Len(s) + 1 \notin HostBatches(s)
  BY <1>1, <1>2 DEF HostBatches
<1>5. CASE e.kind = "batch"
  <2>1. HostBatches(Append(s, e)) = HostBatches(s) \cup {Len(s) + 1}
    BY <1>1, <1>2, <1>5 DEF HostBatches
  <2> QED  BY <2>1, <1>3, <1>4, <1>5, FS_AddElement
<1>6. CASE e.kind # "batch"
  <2>1. HostBatches(Append(s, e)) = HostBatches(s)
    BY <1>1, <1>2, <1>6 DEF HostBatches
  <2>2. Cardinality(HostBatches(s)) \in Nat  BY <1>3, FS_CardinalityType
  <2> QED  BY <2>1, <2>2, <1>6
<1> QED  BY <1>5, <1>6

LEMMA HostEmpty == ASSUME NEW S PROVE <<>> \in Seq(S) /\ Len(<<>>) = 0
OBVIOUS

\* A queue one longer, and one shorter.
LEMMA HostPuts ==
  ASSUME NEW C, NEW q \in Seq(C), NEW c \in C
  PROVE  /\ Append(q, c) \in Seq(C) /\ Len(q) \in Nat /\ Len(Append(q, c)) = Len(q) + 1
         /\ \A i \in 1 .. Len(q) : Append(q, c)[i] = q[i]
         /\ Append(q, c)[Len(q) + 1] = c
OBVIOUS

LEMMA HostDraws ==
  ASSUME NEW C, NEW q \in Seq(C), q # <<>>
  PROVE  /\ Tail(q) \in Seq(C) /\ Len(q) \in Nat /\ Len(q) > 0 /\ Len(Tail(q)) = Len(q) - 1
         /\ Head(q) = q[1] /\ Head(q) \in C
         /\ \A i \in 1 .. Len(q) - 1 : Tail(q)[i] = q[i + 1]
OBVIOUS

LEMMA HostInit == ASSUME Host!BoundsAssumption, Host!Init PROVE HostInv
<1>1. HostProc
  BY DEF Host!Init, Host!BoundsAssumption, HostProc, HostEarly, HostTalking, HostAfter, HostReturning
<1>2. /\ hostLog = <<>> /\ wire = <<>> /\ hostQueue = <<>> /\ batches = 0 /\ said = 0
      /\ want = 1 /\ hostPc = "bind" /\ outcome = "none" /\ stream = "none" /\ uploader = "off"
      /\ ack = "none" /\ receiver = "off" /\ sender = "off" /\ sentChunks = 0 /\ leases = 0
      /\ hostLate = FALSE /\ sendErr = FALSE /\ hostStop = FALSE /\ sourceErr = FALSE
      /\ granted = FALSE /\ used = FALSE
  BY DEF Host!Init
<1>3. hostJob \in Host!AllJobs /\ MaxEvents \in Nat /\ Chunks \in Nat /\ QueueCap \in Nat
  BY DEF Host!Init, Host!BoundsAssumption
<1>4. /\ hostLog \in Seq(HostEvents(hostJob.kind)) /\ wire \in Seq(HostEvents(hostJob.kind))
      /\ hostQueue \in Seq({"execute", "chunk", "source", "cancel", "finish"})
      /\ Len(hostLog) = 0 /\ Len(wire) = 0 /\ Len(hostQueue) = 0
  BY <1>2, HostEmpty
<1>5. batches = Cardinality(HostBatches(hostLog))
  <2>1. HostBatches(<<>>) = {}  BY DEF HostBatches
  <2>2. Cardinality(HostBatches(<<>>)) = 0  BY <2>1, FS_EmptySet
  <2> QED  BY <2>2, <1>2
<1>6. HostGenuine(hostLog)  BY <1>4 DEF HostGenuine
<1>7. HostTalk
  <2>1. /\ batches = 0 /\ said = 0 /\ want = 1 /\ hostPc = "bind" /\ outcome = "none"
        /\ stream = "none"
    BY <1>2
  <2> QED  BY <2>1, <1>3, <1>4, <1>5, <1>6 DEF HostTalk, HostEarly, HostTalking, HostAfter,
                                              HostReturning
<1>8. HostFlags /\ HostIo /\ HostLease
  <2>1. HostFlags  BY <1>2 DEF HostFlags
  <2>2. HostIo  BY <1>2, <1>3 DEF HostIo, HostEarly, HostTalking, HostAfter, HostReturning
  <2>3. HostLease  BY <1>2, <1>3 DEF HostLease
  <2> QED  BY <2>1, <2>2, <2>3
<1>9. HostSources
  BY <1>2, <1>3, <1>4 DEF HostSources
<1> QED  BY <1>1, <1>7, <1>8, <1>9 DEF HostInv

\* The event that is looked at.
LEMMA HostTakes ==
  ASSUME HostTalk, wire # <<>>
  PROVE  /\ Head(wire) \in HostEvents(hostJob.kind) /\ Tail(wire) \in Seq(HostEvents(hostJob.kind))
         /\ Len(wire) \in Nat /\ Len(wire) > 0 /\ Len(Tail(wire)) = Len(wire) - 1
<1>1. wire \in Seq(HostEvents(hostJob.kind))  BY DEF HostTalk
<1> QED  BY <1>1

\* An event that is accepted is the next one of the log.
LEMMA HostAccepts ==
  ASSUME HostTalk, hostPc \in HostTalking, wire # <<>>, Head(wire).seq = want,
         Host!Accepted, Host!Take, UNCHANGED hostJob
  PROVE  /\ hostLog' \in Seq(HostEvents(hostJob.kind)) /\ Len(hostLog') = Len(hostLog) + 1
         /\ Len(hostLog) \in Nat /\ want' = want + 1 /\ hostLog'[Len(hostLog')] = Head(wire)
         /\ batches' \in Nat /\ batches' <= Len(hostLog')
         /\ batches' = Cardinality(HostBatches(hostLog'))
         /\ wire' \in Seq(HostEvents(hostJob.kind)) /\ Len(hostLog') + Len(wire') <= said'
         /\ Head(wire).ok = TRUE /\ (Head(wire).kind = "hello" <=> want = 1) => HostGenuine(hostLog')
<1> DEFINE E == HostEvents(hostJob.kind)
<1>1. /\ hostLog \in Seq(E) /\ want = Len(hostLog) + 1 /\ batches \in Nat /\ batches <= Len(hostLog)
      /\ said \in Nat /\ Len(hostLog) + Len(wire) <= said /\ HostGenuine(hostLog)
      /\ batches = Cardinality(HostBatches(hostLog))
  BY DEF HostTalk
<1>2. /\ Head(wire) \in E /\ Tail(wire) \in Seq(E) /\ Len(wire) \in Nat /\ Len(wire) > 0
      /\ Len(Tail(wire)) = Len(wire) - 1
  BY HostTakes
<1>3. /\ hostLog' = Append(hostLog, Head(wire)) /\ want' = want + 1
      /\ batches' = IF Head(wire).kind = "batch" THEN batches + 1 ELSE batches
      /\ wire' = Tail(wire) /\ said' = said
  BY DEF Host!Accepted, Host!Take
<1>4. /\ Len(hostLog) \in Nat /\ hostLog' \in Seq(E) /\ Len(hostLog') = Len(hostLog) + 1
      /\ \A i \in 1 .. Len(hostLog) : hostLog'[i] = hostLog[i]
      /\ hostLog'[Len(hostLog) + 1] = Head(wire)
  BY <1>1, <1>2, <1>3
<1>5. batches' = Cardinality(HostBatches(hostLog'))
  <2>1. Cardinality(HostBatches(Append(hostLog, Head(wire))))
          = Cardinality(HostBatches(hostLog)) + IF Head(wire).kind = "batch" THEN 1 ELSE 0
    BY <1>1, <1>2, HostBatchCount
  <2> QED  BY <2>1, <1>1, <1>3
<1>6. ASSUME Head(wire).ok = TRUE, Head(wire).kind = "hello" <=> want = 1
      PROVE  HostGenuine(hostLog')
  BY <1>1, <1>4, <1>6 DEF HostGenuine
<1>7. /\ batches' \in Nat /\ batches' <= Len(hostLog') /\ Len(hostLog') + Len(wire') <= said'
  BY <1>1, <1>2, <1>3, <1>4
<1>8. hostLog'[Len(hostLog')] = Head(wire)  BY <1>4
<1> QED  BY <1>2, <1>3, <1>4, <1>5, <1>6, <1>7, <1>8

\* What a request of the worker to read its source may lead to.
HostReading ==
    /\ hostPc = "loop" /\ wire # <<>> /\ Head(wire).kind = "readat" /\ Head(wire).seq = want
    /\ hostJob.kind = "range" /\ Host!Take
    /\ UNCHANGED <<hostJob, hostLate, endpoint, child, forkSeen, waiter, reused, receiver,
                   sender, hostQueue, ack, sendErr, hostStop, uploader, sourceErr,
                   sentChunks, granted>>
    /\ \/ /\ hostPc' = "kill" /\ UNCHANGED <<want, hostLog, batches>>
          /\ outcome' \in {"rejected_protocol", "rejected_source"}
       \/ /\ hostPc' \in {"kill", "loop", "cancel", "rqueue"} /\ outcome' = "none"
          /\ want # 1 /\ Head(wire).ok = TRUE /\ Host!Accepted
    /\ leases' = IF hostPc' = "rqueue" THEN leases + 1 ELSE leases
    /\ \/ UNCHANGED <<proc, harmed>>
       \/ /\ hostJob.fault = "crash" /\ harmed' = (harmed \/ reused)
          /\ proc' = IF proc = "running" THEN "dying" ELSE proc

LEMMA HostReads == ASSUME HostInv, Host!ReadAtReceived PROVE HostReading
<1>1. /\ hostPc = "loop" /\ wire # <<>> /\ Head(wire).kind = "readat" /\ Head(wire).seq = want
      /\ Host!Take
      /\ UNCHANGED <<child, forkSeen, waiter, reused, receiver, sender, hostQueue, ack, sendErr,
                     hostStop, uploader, sourceErr, sentChunks, granted>>
  BY DEF Host!ReadAtReceived, Host!Arrived, Host!InOrder, Host!ioVars
<1>2. hostJob.kind = "range" /\ Head(wire).ok \in BOOLEAN
  BY <1>1, HostTakes DEF HostInv, HostEvents
<1>3. hostJob.fault \in {"none", "kill", "crash", "cancel"}
  BY DEF HostInv, HostProc, Host!AllJobs
<1> DEFINE fault == IF hostNext = 1 THEN hostJob.fault ELSE "none"
<1>4. fault \in {"none", "kill", "crash", "cancel"} /\ (fault = "crash" => hostJob.fault = "crash")
  BY <1>3
<1>5. CASE want = 1 \/ Head(wire).ok = FALSE \/ Head(wire).claim # hostNext \/ hostLate
  <2>1. /\ UNCHANGED <<hostJob, hostLate, endpoint, want, hostLog, batches, leases, proc, harmed>>
        /\ hostPc' = "kill" /\ outcome' \in {"rejected_protocol", "rejected_source"}
    BY <1>5 DEF Host!ReadAtReceived, Host!Fail, Host!End
  <2> QED  BY <1>1, <1>2, <2>1 DEF HostReading
<1>6. CASE ~(want = 1 \/ Head(wire).ok = FALSE \/ Head(wire).claim # hostNext \/ hostLate)
  <2>1. /\ Host!Accepted /\ outcome' = "none" /\ UNCHANGED <<hostJob, hostLate, endpoint>>
        /\ hostPc' = CASE fault = "kill" -> "kill" [] fault = "crash" -> "loop"
                       [] fault = "cancel" -> "cancel" [] OTHER -> "rqueue"
        /\ leases' = IF fault = "none" THEN leases + 1 ELSE leases
        /\ IF fault = "crash"
           THEN /\ proc' = IF proc = "running" THEN "dying" ELSE proc
                /\ harmed' = (harmed \/ reused)
           ELSE UNCHANGED <<proc, harmed>>
    BY <1>2, <1>6 DEF Host!ReadAtReceived, Host!AcceptAnd
  <2>2. /\ hostPc' \in {"kill", "loop", "cancel", "rqueue"}
        /\ hostPc' = "rqueue" <=> fault = "none"
    BY <1>4, <2>1
  <2> HIDE DEF fault
  <2> QED  BY <1>1, <1>2, <1>4, <1>6, <2>1, <2>2 DEF HostReading
<1> QED  BY <1>5, <1>6

\* The driver up to the stream: a step of it keeps the invariant.
LEMMA HostBegins ==
  ASSUME Host!BoundsAssumption, HostInv,
         Host!Tick \/ Host!Bind \/ Host!Listen \/ Host!StartWorker \/ Host!WatchWorker
           \/ Host!Bootstrap \/ Host!AwaitStream
  PROVE  HostInv'
<1>1. CASE Host!Tick
  <2>1. HostProc'
    BY <1>1 DEF Host!Tick, Host!hostVars, Host!procVars, Host!linkVars, Host!ioVars,
       Host!srcVars, Host!BoundsAssumption, HostInv, HostProc, HostEarly, HostTalking,
       HostAfter, HostReturning
  <2>2. HostTalk'
    BY <1>1 DEF Host!Tick, Host!hostVars, Host!procVars, Host!linkVars, Host!ioVars,
       Host!srcVars, Host!BoundsAssumption, HostInv, HostTalk, HostGenuine, HostEarly,
       HostTalking, HostAfter, HostReturning
  <2>3. HostFlags'
    BY <1>1 DEF Host!Tick, Host!hostVars, Host!procVars, Host!linkVars, Host!ioVars,
       Host!srcVars, Host!BoundsAssumption, HostInv, HostFlags, HostEarly, HostTalking,
       HostAfter, HostReturning
  <2>4. HostIo'
    BY <1>1 DEF Host!Tick, Host!hostVars, Host!procVars, Host!linkVars, Host!ioVars,
       Host!srcVars, Host!BoundsAssumption, HostInv, HostIo, HostEarly, HostTalking,
       HostAfter, HostReturning
  <2>5. HostLease'
    BY <1>1 DEF Host!Tick, Host!hostVars, Host!procVars, Host!linkVars, Host!ioVars,
       Host!srcVars, Host!BoundsAssumption, HostInv, HostLease, HostIo, HostEarly,
       HostTalking, HostAfter, HostReturning
  <2>6. HostSources'
    BY <1>1 DEF Host!Tick, Host!hostVars, Host!procVars, Host!linkVars, Host!ioVars,
       Host!srcVars, Host!BoundsAssumption, HostInv, HostSources, HostWaiting, HostIo,
       HostLease, HostEarly, HostTalking, HostAfter, HostReturning
  <2> QED  BY <2>1, <2>2, <2>3, <2>4, <2>5, <2>6 DEF HostInv
<1>2. CASE Host!Bind
  <2>1. HostProc'
    BY <1>2 DEF Host!Bind, Host!Goto, Host!End, Host!Granting, Host!hostVars,
       Host!procVars, Host!linkVars, Host!ioVars, Host!srcVars, Host!BoundsAssumption,
       HostInv, HostProc, HostEarly, HostTalking, HostAfter, HostReturning
  <2>2. HostTalk'
    BY <1>2 DEF Host!Bind, Host!Goto, Host!End, Host!Granting, Host!hostVars,
       Host!procVars, Host!linkVars, Host!ioVars, Host!srcVars, Host!BoundsAssumption,
       HostInv, HostTalk, HostGenuine, HostEarly, HostTalking, HostAfter, HostReturning
  <2>3. HostFlags'
    <3>1. granted' \in BOOLEAN /\ (hostPc' = "done" => granted' = FALSE)
      <4>1. Host!Granting = TRUE \/ Host!Granting = FALSE
        <5>1. CASE hostJob.kind \in {"stream", "range"}  BY <5>1 DEF Host!Granting
        <5>2. CASE hostJob.kind \notin {"stream", "range"}  BY <5>2 DEF Host!Granting
        <5> QED  BY <5>1, <5>2
      <4>2. \/ granted' = FALSE
            \/ granted' = Host!Granting /\ hostPc' = "listen"
        BY <1>2, Zenon DEF Host!Bind, Host!Goto
      <4> QED  BY <4>1, <4>2
    <3>2. UNCHANGED <<hostLate, sendErr, hostStop, sourceErr, used>>
      BY <1>2 DEF Host!Bind, Host!Goto, Host!End, Host!hostVars, Host!procVars,
         Host!linkVars, Host!ioVars, Host!srcVars
    <3> QED  BY <3>1, <3>2 DEF HostInv, HostFlags
  <2>4. HostIo'
    BY <1>2 DEF Host!Bind, Host!Goto, Host!End, Host!Granting, Host!hostVars,
       Host!procVars, Host!linkVars, Host!ioVars, Host!srcVars, Host!BoundsAssumption,
       HostInv, HostIo, HostEarly, HostTalking, HostAfter, HostReturning
  <2>5. HostLease'
    BY <1>2 DEF Host!Bind, Host!Goto, Host!End, Host!Granting, Host!hostVars,
       Host!procVars, Host!linkVars, Host!ioVars, Host!srcVars, Host!BoundsAssumption,
       HostInv, HostLease, HostIo, HostEarly, HostTalking, HostAfter, HostReturning
  <2>6. HostSources'
    BY <1>2 DEF Host!Bind, Host!Goto, Host!End, Host!Granting, Host!hostVars,
       Host!procVars, Host!linkVars, Host!ioVars, Host!srcVars, Host!BoundsAssumption,
       HostInv, HostSources, HostWaiting, HostIo, HostLease, HostEarly, HostTalking,
       HostAfter, HostReturning
  <2> QED  BY <2>1, <2>2, <2>3, <2>4, <2>5, <2>6 DEF HostInv
<1>3. CASE Host!Listen
  <2>1. HostProc'
    BY <1>3 DEF Host!Listen, Host!hostVars, Host!procVars, Host!linkVars, Host!ioVars,
       Host!srcVars, Host!BoundsAssumption, HostInv, HostProc, HostEarly, HostTalking,
       HostAfter, HostReturning
  <2>2. HostTalk'
    BY <1>3 DEF Host!Listen, Host!hostVars, Host!procVars, Host!linkVars, Host!ioVars,
       Host!srcVars, Host!BoundsAssumption, HostInv, HostTalk, HostGenuine, HostEarly,
       HostTalking, HostAfter, HostReturning
  <2>3. HostFlags'
    BY <1>3 DEF Host!Listen, Host!hostVars, Host!procVars, Host!linkVars, Host!ioVars,
       Host!srcVars, Host!BoundsAssumption, HostInv, HostFlags, HostEarly, HostTalking,
       HostAfter, HostReturning
  <2>4. HostIo'
    BY <1>3 DEF Host!Listen, Host!hostVars, Host!procVars, Host!linkVars, Host!ioVars,
       Host!srcVars, Host!BoundsAssumption, HostInv, HostIo, HostEarly, HostTalking,
       HostAfter, HostReturning
  <2>5. HostLease'
    BY <1>3 DEF Host!Listen, Host!hostVars, Host!procVars, Host!linkVars, Host!ioVars,
       Host!srcVars, Host!BoundsAssumption, HostInv, HostLease, HostIo, HostEarly,
       HostTalking, HostAfter, HostReturning
  <2>6. HostSources'
    BY <1>3 DEF Host!Listen, Host!hostVars, Host!procVars, Host!linkVars, Host!ioVars,
       Host!srcVars, Host!BoundsAssumption, HostInv, HostSources, HostWaiting, HostIo,
       HostLease, HostEarly, HostTalking, HostAfter, HostReturning
  <2> QED  BY <2>1, <2>2, <2>3, <2>4, <2>5, <2>6 DEF HostInv
<1>4. CASE Host!StartWorker
  <2>1. HostProc'
    BY <1>4 DEF Host!StartWorker, Host!Goto, Host!End, Host!hostVars, Host!procVars,
       Host!linkVars, Host!ioVars, Host!srcVars, Host!BoundsAssumption, HostInv, HostProc,
       HostEarly, HostTalking, HostAfter, HostReturning
  <2>2. HostTalk'
    BY <1>4 DEF Host!StartWorker, Host!Goto, Host!End, Host!hostVars, Host!procVars,
       Host!linkVars, Host!ioVars, Host!srcVars, Host!BoundsAssumption, HostInv, HostTalk,
       HostGenuine, HostEarly, HostTalking, HostAfter, HostReturning
  <2>3. HostFlags'
    BY <1>4 DEF Host!StartWorker, Host!Goto, Host!End, Host!hostVars, Host!procVars,
       Host!linkVars, Host!ioVars, Host!srcVars, Host!BoundsAssumption, HostInv,
       HostFlags, HostEarly, HostTalking, HostAfter, HostReturning
  <2>4. HostIo'
    BY <1>4 DEF Host!StartWorker, Host!Goto, Host!End, Host!hostVars, Host!procVars,
       Host!linkVars, Host!ioVars, Host!srcVars, Host!BoundsAssumption, HostInv, HostIo,
       HostEarly, HostTalking, HostAfter, HostReturning
  <2>5. HostLease'
    BY <1>4 DEF Host!StartWorker, Host!Goto, Host!End, Host!hostVars, Host!procVars,
       Host!linkVars, Host!ioVars, Host!srcVars, Host!BoundsAssumption, HostInv,
       HostLease, HostIo, HostEarly, HostTalking, HostAfter, HostReturning
  <2>6. HostSources'
    BY <1>4 DEF Host!StartWorker, Host!Goto, Host!End, Host!hostVars, Host!procVars,
       Host!linkVars, Host!ioVars, Host!srcVars, Host!BoundsAssumption, HostInv,
       HostSources, HostWaiting, HostIo, HostLease, HostEarly, HostTalking, HostAfter,
       HostReturning
  <2> QED  BY <2>1, <2>2, <2>3, <2>4, <2>5, <2>6 DEF HostInv
<1>5. CASE Host!WatchWorker
  <2>1. HostProc'
    BY <1>5 DEF Host!WatchWorker, Host!Goto, Host!End, Host!hostVars, Host!procVars,
       Host!linkVars, Host!ioVars, Host!srcVars, Host!BoundsAssumption, HostInv, HostProc,
       HostEarly, HostTalking, HostAfter, HostReturning
  <2>2. HostTalk'
    BY <1>5 DEF Host!WatchWorker, Host!Goto, Host!End, Host!hostVars, Host!procVars,
       Host!linkVars, Host!ioVars, Host!srcVars, Host!BoundsAssumption, HostInv, HostTalk,
       HostGenuine, HostEarly, HostTalking, HostAfter, HostReturning
  <2>3. HostFlags'
    BY <1>5 DEF Host!WatchWorker, Host!Goto, Host!End, Host!hostVars, Host!procVars,
       Host!linkVars, Host!ioVars, Host!srcVars, Host!BoundsAssumption, HostInv,
       HostFlags, HostEarly, HostTalking, HostAfter, HostReturning
  <2>4. HostIo'
    BY <1>5 DEF Host!WatchWorker, Host!Goto, Host!End, Host!hostVars, Host!procVars,
       Host!linkVars, Host!ioVars, Host!srcVars, Host!BoundsAssumption, HostInv, HostIo,
       HostEarly, HostTalking, HostAfter, HostReturning
  <2>5. HostLease'
    BY <1>5 DEF Host!WatchWorker, Host!Goto, Host!End, Host!hostVars, Host!procVars,
       Host!linkVars, Host!ioVars, Host!srcVars, Host!BoundsAssumption, HostInv,
       HostLease, HostIo, HostEarly, HostTalking, HostAfter, HostReturning
  <2>6. HostSources'
    BY <1>5 DEF Host!WatchWorker, Host!Goto, Host!End, Host!hostVars, Host!procVars,
       Host!linkVars, Host!ioVars, Host!srcVars, Host!BoundsAssumption, HostInv,
       HostSources, HostWaiting, HostIo, HostLease, HostEarly, HostTalking, HostAfter,
       HostReturning
  <2> QED  BY <2>1, <2>2, <2>3, <2>4, <2>5, <2>6 DEF HostInv
<1>6. CASE Host!Bootstrap
  <2>1. HostProc'
    BY <1>6 DEF Host!Bootstrap, Host!Goto, Host!End, Host!hostVars, Host!procVars,
       Host!linkVars, Host!ioVars, Host!srcVars, Host!BoundsAssumption, HostInv, HostProc,
       HostEarly, HostTalking, HostAfter, HostReturning
  <2>2. HostTalk'
    BY <1>6 DEF Host!Bootstrap, Host!Goto, Host!End, Host!hostVars, Host!procVars,
       Host!linkVars, Host!ioVars, Host!srcVars, Host!BoundsAssumption, HostInv, HostTalk,
       HostGenuine, HostEarly, HostTalking, HostAfter, HostReturning
  <2>3. HostFlags'
    BY <1>6 DEF Host!Bootstrap, Host!Goto, Host!End, Host!hostVars, Host!procVars,
       Host!linkVars, Host!ioVars, Host!srcVars, Host!BoundsAssumption, HostInv,
       HostFlags, HostEarly, HostTalking, HostAfter, HostReturning
  <2>4. HostIo'
    BY <1>6 DEF Host!Bootstrap, Host!Goto, Host!End, Host!hostVars, Host!procVars,
       Host!linkVars, Host!ioVars, Host!srcVars, Host!BoundsAssumption, HostInv, HostIo,
       HostEarly, HostTalking, HostAfter, HostReturning
  <2>5. HostLease'
    BY <1>6 DEF Host!Bootstrap, Host!Goto, Host!End, Host!hostVars, Host!procVars,
       Host!linkVars, Host!ioVars, Host!srcVars, Host!BoundsAssumption, HostInv,
       HostLease, HostIo, HostEarly, HostTalking, HostAfter, HostReturning
  <2>6. HostSources'
    BY <1>6 DEF Host!Bootstrap, Host!Goto, Host!End, Host!hostVars, Host!procVars,
       Host!linkVars, Host!ioVars, Host!srcVars, Host!BoundsAssumption, HostInv,
       HostSources, HostWaiting, HostIo, HostLease, HostEarly, HostTalking, HostAfter,
       HostReturning
  <2> QED  BY <2>1, <2>2, <2>3, <2>4, <2>5, <2>6 DEF HostInv
<1>7. CASE Host!AwaitStream
  <2>1. HostProc'
    BY <1>7 DEF Host!AwaitStream, Host!Goto, Host!End, Host!Exited, Host!hostVars,
       Host!procVars, Host!linkVars, Host!ioVars, Host!srcVars, Host!BoundsAssumption,
       HostInv, HostProc, HostEarly, HostTalking, HostAfter, HostReturning
  <2>2. HostTalk'
    BY <1>7 DEF Host!AwaitStream, Host!Goto, Host!End, Host!Exited, Host!hostVars,
       Host!procVars, Host!linkVars, Host!ioVars, Host!srcVars, Host!BoundsAssumption,
       HostInv, HostTalk, HostGenuine, HostEarly, HostTalking, HostAfter, HostReturning
  <2>3. HostFlags'
    BY <1>7 DEF Host!AwaitStream, Host!Goto, Host!End, Host!Exited, Host!hostVars,
       Host!procVars, Host!linkVars, Host!ioVars, Host!srcVars, Host!BoundsAssumption,
       HostInv, HostFlags, HostEarly, HostTalking, HostAfter, HostReturning
  <2>4. HostIo'
    BY <1>7 DEF Host!AwaitStream, Host!Goto, Host!End, Host!Exited, Host!hostVars,
       Host!procVars, Host!linkVars, Host!ioVars, Host!srcVars, Host!BoundsAssumption,
       HostInv, HostIo, HostEarly, HostTalking, HostAfter, HostReturning
  <2>5. HostLease'
    BY <1>7 DEF Host!AwaitStream, Host!Goto, Host!End, Host!Exited, Host!hostVars,
       Host!procVars, Host!linkVars, Host!ioVars, Host!srcVars, Host!BoundsAssumption,
       HostInv, HostLease, HostIo, HostEarly, HostTalking, HostAfter, HostReturning
  <2>6. HostSources'
    BY <1>7 DEF Host!AwaitStream, Host!Goto, Host!End, Host!Exited, Host!hostVars,
       Host!procVars, Host!linkVars, Host!ioVars, Host!srcVars, Host!BoundsAssumption,
       HostInv, HostSources, HostWaiting, HostIo, HostLease, HostEarly, HostTalking,
       HostAfter, HostReturning
  <2> QED  BY <2>1, <2>2, <2>3, <2>4, <2>5, <2>6 DEF HostInv
<1> QED  BY <1>1, <1>2, <1>3, <1>4, <1>5, <1>6, <1>7

\* The loop over the events.
LEMMA HostListens ==
  ASSUME Host!BoundsAssumption, HostInv,
         Host!Misnumbered \/ Host!HelloReceived \/ Host!ReadAtReceived \/
           Host!BatchReceived \/ Host!CompletedReceived \/ Host!FailedReceived \/
           Host!Unreadable \/ Host!LoopEnds
  PROVE  HostInv'
<1>1. CASE Host!Misnumbered
  <2>1. HostProc'
    BY <1>1 DEF Host!Misnumbered, Host!Fail, Host!End, Host!Take, Host!hostVars,
       Host!procVars, Host!linkVars, Host!ioVars, Host!srcVars, Host!BoundsAssumption,
       HostInv, HostProc, HostEarly, HostTalking, HostAfter, HostReturning
  <2>2. HostTalk'
    BY <1>1 DEF Host!Misnumbered, Host!Fail, Host!End, Host!Take, Host!hostVars,
       Host!procVars, Host!linkVars, Host!ioVars, Host!srcVars, Host!BoundsAssumption,
       HostInv, HostTalk, HostGenuine, HostEarly, HostTalking, HostAfter, HostReturning
  <2>3. HostFlags'
    BY <1>1 DEF Host!Misnumbered, Host!Fail, Host!End, Host!Take, Host!hostVars,
       Host!procVars, Host!linkVars, Host!ioVars, Host!srcVars, Host!BoundsAssumption,
       HostInv, HostFlags, HostEarly, HostTalking, HostAfter, HostReturning
  <2>4. HostIo'
    BY <1>1 DEF Host!Misnumbered, Host!Fail, Host!End, Host!Take, Host!hostVars,
       Host!procVars, Host!linkVars, Host!ioVars, Host!srcVars, Host!BoundsAssumption,
       HostInv, HostIo, HostEarly, HostTalking, HostAfter, HostReturning
  <2>5. HostLease'
    BY <1>1 DEF Host!Misnumbered, Host!Fail, Host!End, Host!Take, Host!hostVars,
       Host!procVars, Host!linkVars, Host!ioVars, Host!srcVars, Host!BoundsAssumption,
       HostInv, HostLease, HostIo, HostEarly, HostTalking, HostAfter, HostReturning
  <2>6. HostSources'
    BY <1>1 DEF Host!Misnumbered, Host!Fail, Host!End, Host!Take, Host!hostVars,
       Host!procVars, Host!linkVars, Host!ioVars, Host!srcVars, Host!BoundsAssumption,
       HostInv, HostSources, HostWaiting, HostIo, HostLease, HostEarly, HostTalking,
       HostAfter, HostReturning
  <2> QED  BY <2>1, <2>2, <2>3, <2>4, <2>5, <2>6 DEF HostInv
<1>2. CASE Host!HelloReceived
  <2>1. /\ hostPc = "loop" /\ wire # <<>> /\ Head(wire).seq = want /\ Host!Take
        /\ UNCHANGED <<hostJob, hostLate, endpoint, proc, child, forkSeen, waiter, reused, harmed,
                       receiver, sender, ack, sendErr, hostStop, sourceErr, sentChunks, leases,
                       granted>>
    BY <1>2 DEF Host!HelloReceived, Host!AcceptAnd, Host!Fail, Host!End, Host!Arrived,
       Host!InOrder, Host!Uploading, Host!hostVars, Host!procVars, Host!linkVars,
       Host!ioVars, Host!srcVars
  <2>2. /\ Head(wire) \in HostEvents(hostJob.kind) /\ Tail(wire) \in Seq(HostEvents(hostJob.kind))
        /\ Len(wire) \in Nat /\ Len(Tail(wire)) = Len(wire) - 1
    BY <2>1, HostTakes DEF HostInv
  <2>3. wire' = Tail(wire) /\ UNCHANGED <<conn, used, stream, said>>  BY <2>1 DEF Host!Take
  <2>4. Head(wire).ok \in BOOLEAN  BY <2>2 DEF HostEvents
  <2>5. CASE ~(want = 1 /\ Head(wire).ok = TRUE)
    <3>1. /\ hostPc' = "kill" /\ outcome' \notin {"completed", "failed"}
          /\ UNCHANGED <<want, hostLog, batches, hostQueue, uploader>>
      BY <1>2, <2>4, <2>5 DEF Host!HelloReceived, Host!AcceptAnd, Host!Fail, Host!End,
         Host!Arrived, Host!InOrder, Host!Uploading, Host!hostVars, Host!procVars,
         Host!linkVars, Host!ioVars, Host!srcVars
    <3>2. HostProc'
      BY <2>1, <2>3, <3>1 DEF HostInv, HostProc, HostEarly, HostTalking, HostAfter,
         HostReturning
    <3>3. HostTalk'
      BY <2>1, <2>3, <3>1, <2>2 DEF HostInv, HostTalk, HostEarly, HostTalking,
         HostAfter, HostReturning
    <3>4. HostFlags'
      BY <2>1, <2>3, <3>1 DEF HostInv, HostFlags, HostEarly, HostTalking, HostAfter,
         HostReturning
    <3>5. HostIo'
      BY <2>1, <2>3, <3>1 DEF HostInv, HostIo, HostEarly, HostTalking, HostAfter,
         HostReturning
    <3>6. HostLease'
      BY <2>1, <2>3, <3>1 DEF HostInv, HostLease, HostIo, HostEarly, HostTalking,
         HostAfter, HostReturning
    <3>7. HostSources'
      BY <2>1, <2>3, <3>1 DEF HostInv, HostSources, HostWaiting, HostIo, HostLease,
         HostEarly, HostTalking, HostAfter, HostReturning
    <3> QED  BY <3>2, <3>3, <3>4, <3>5, <3>6, <3>7 DEF HostInv
  <2>6. CASE want = 1 /\ Head(wire).ok = TRUE
    <3>1. /\ Host!Accepted /\ hostPc' = "loop" /\ outcome' = "none" /\ Head(wire).kind = "hello"
          /\ hostQueue' = Append(hostQueue, "execute")
          /\ \/ UNCHANGED uploader
             \/ hostJob.kind \in {"upload", "stream"} /\ uploader' = "read"
      BY <1>2, <2>4, <2>6 DEF Host!HelloReceived, Host!AcceptAnd, Host!Fail, Host!End,
         Host!Arrived, Host!InOrder, Host!Uploading, Host!hostVars, Host!procVars,
         Host!linkVars, Host!ioVars, Host!srcVars
    <3>2. /\ hostLog' \in Seq(HostEvents(hostJob.kind)) /\ Len(hostLog') = Len(hostLog) + 1
          /\ Len(hostLog) \in Nat /\ want' = want + 1 /\ hostLog'[Len(hostLog')] = Head(wire)
          /\ batches' \in Nat /\ batches' <= Len(hostLog')
          /\ batches' = Cardinality(HostBatches(hostLog'))
          /\ wire' \in Seq(HostEvents(hostJob.kind)) /\ Len(hostLog') + Len(wire') <= said'
          /\ HostGenuine(hostLog')
      BY <2>1, <2>2, <2>4, <2>6, <3>1, HostAccepts DEF HostInv, HostTalking, HostEvents
    <3>3. HostProc'
      BY <2>1, <3>1 DEF HostInv, HostProc, HostEarly, HostTalking, HostAfter, HostReturning
    <3>4. HostTalk'
      BY <2>1, <2>3, <2>6, <3>1, <3>2 DEF HostInv, HostTalk, HostEarly, HostTalking, HostAfter, HostReturning
    <3>5. HostFlags'
      BY <2>1, <2>3, <3>1 DEF HostInv, HostFlags
    <3>6. HostIo'
      BY <2>1, <3>1, <3>2, <2>6 DEF HostInv, HostIo, HostEarly, HostTalking, HostAfter, HostReturning
    <3>7. HostLease'
      BY <2>1, <3>1, <2>6 DEF HostInv, HostLease, HostIo, Host!BoundsAssumption, HostTalk
    <3>8. HostSources'
      <4>1. Len(hostQueue) = 0 /\ hostQueue \in Seq({"execute", "chunk", "source", "cancel", "finish"})
            /\ QueueCap >= 1 /\ QueueCap \in Nat /\ ack = "none"
        BY <2>6 DEF HostInv, HostSources, HostIo, Host!BoundsAssumption
      <4>2. /\ hostQueue' \in Seq({"execute", "chunk", "source", "cancel", "finish"})
            /\ Len(hostQueue') = 1 /\ hostQueue'[1] = "execute"
        BY <3>1, <4>1, HostPuts
      <4> QED  BY <2>1, <2>6, <3>2, <4>1, <4>2 DEF HostSources
    <3> QED  BY <3>3, <3>4, <3>5, <3>6, <3>7, <3>8 DEF HostInv
  <2> QED  BY <2>5, <2>6
<1>3. CASE Host!ReadAtReceived
  <2>1. HostReading  BY <1>3, HostReads
  <2>2. want \in Nat /\ (want' = want \/ (want' = want + 1 /\ want # 1))
    BY <2>1 DEF HostReading, HostInv, HostIo, Host!Accepted
  <2>3. HostProc'
    BY <2>1 DEF HostReading, HostInv, HostProc, HostEarly, HostTalking, HostAfter,
       HostReturning
  <2>4. HostFlags'
    BY <2>1 DEF HostReading, HostInv, HostFlags, Host!Take, HostEarly, HostTalking,
       HostAfter, HostReturning
  <2>5. HostIo'
    BY <2>1, <2>2 DEF HostReading, HostInv, HostIo, HostEarly, HostTalking, HostAfter,
       HostReturning
  <2>6. HostLease'
    BY <2>1 DEF HostReading, HostInv, HostLease, HostIo, HostEarly, HostTalking,
       HostAfter, HostReturning
  <2>7. HostSources'
    BY <2>1, <2>2 DEF HostReading, HostInv, HostSources, HostIo, HostLease, HostWaiting,
       HostTalk, HostEarly, HostTalking, HostAfter, HostReturning
  <2>8. HostTalk'
    <3>1. /\ Head(wire) \in HostEvents(hostJob.kind) /\ Tail(wire) \in Seq(HostEvents(hostJob.kind))
          /\ Len(wire) \in Nat /\ Len(Tail(wire)) = Len(wire) - 1
      BY <2>1, HostTakes DEF HostInv, HostReading
    <3>2. wire' = Tail(wire) /\ UNCHANGED <<hostJob, conn, used, stream, said>>
      BY <2>1 DEF Host!Take, HostReading
    <3>3. CASE hostPc' = "kill" /\ UNCHANGED <<want, hostLog, batches>> /\ outcome' # "completed"
      BY <3>1, <3>2, <3>3 DEF HostInv, HostTalk, HostEarly, HostTalking, HostAfter,
         HostReturning
    <3>4. CASE /\ hostPc' \in {"kill", "loop", "cancel", "rqueue"} /\ outcome' = "none"
               /\ want # 1 /\ Head(wire).ok = TRUE /\ Host!Accepted
      <4>1. /\ hostPc = "loop" /\ wire # <<>> /\ Head(wire).seq = want /\ Host!Take
            /\ Head(wire).kind = "readat" /\ UNCHANGED hostJob
        BY <2>1 DEF HostReading
      <4>2. /\ hostLog' \in Seq(HostEvents(hostJob.kind)) /\ Len(hostLog') = Len(hostLog) + 1
            /\ Len(hostLog) \in Nat /\ want' = want + 1 /\ batches' \in Nat
            /\ batches' <= Len(hostLog') /\ batches' = Cardinality(HostBatches(hostLog'))
            /\ wire' \in Seq(HostEvents(hostJob.kind)) /\ Len(hostLog') + Len(wire') <= said'
            /\ HostGenuine(hostLog')
        BY <3>4, <4>1, HostAccepts DEF HostInv, HostTalking
      <4> QED
        BY <3>2, <3>4, <4>1, <4>2 DEF HostInv, HostTalk, HostEarly, HostTalking,
           HostAfter, HostReturning
    <3> QED  BY <2>1, <3>3, <3>4 DEF HostReading
  <2> QED  BY <2>3, <2>4, <2>5, <2>6, <2>7, <2>8 DEF HostInv
<1>4. CASE Host!BatchReceived
  <2>1. /\ hostPc = "loop" /\ wire # <<>> /\ Head(wire).seq = want /\ Host!Take
        /\ UNCHANGED <<hostJob, hostLate, endpoint, proc, child, forkSeen, waiter, reused, harmed,
                       receiver, sender, ack, sendErr, hostStop, sourceErr, sentChunks, leases,
                       granted>>
    BY <1>4 DEF Host!BatchReceived, Host!AcceptAnd, Host!Fail, Host!End, Host!Arrived,
       Host!InOrder, Host!hostVars, Host!procVars, Host!linkVars, Host!ioVars,
       Host!srcVars
  <2>2. /\ Head(wire) \in HostEvents(hostJob.kind) /\ Tail(wire) \in Seq(HostEvents(hostJob.kind))
        /\ Len(wire) \in Nat /\ Len(Tail(wire)) = Len(wire) - 1
    BY <2>1, HostTakes DEF HostInv
  <2>3. wire' = Tail(wire) /\ UNCHANGED <<conn, used, stream, said>>  BY <2>1 DEF Host!Take
  <2>4. Head(wire).ok \in BOOLEAN  BY <2>2 DEF HostEvents
  <2>5. CASE ~(want # 1 /\ Head(wire).ok = TRUE)
    <3>1. /\ hostPc' = "kill" /\ outcome' \notin {"completed", "failed"}
          /\ UNCHANGED <<want, hostLog, batches, hostQueue, uploader>>
      BY <1>4, <2>4, <2>5 DEF Host!BatchReceived, Host!AcceptAnd, Host!Fail, Host!End,
         Host!Arrived, Host!InOrder, Host!hostVars, Host!procVars, Host!linkVars,
         Host!ioVars, Host!srcVars
    <3>2. HostProc'
      BY <2>1, <2>3, <3>1 DEF HostInv, HostProc, HostEarly, HostTalking, HostAfter,
         HostReturning
    <3>3. HostTalk'
      BY <2>1, <2>3, <3>1, <2>2 DEF HostInv, HostTalk, HostEarly, HostTalking,
         HostAfter, HostReturning
    <3>4. HostFlags'
      BY <2>1, <2>3, <3>1 DEF HostInv, HostFlags, HostEarly, HostTalking, HostAfter,
         HostReturning
    <3>5. HostIo'
      BY <2>1, <2>3, <3>1 DEF HostInv, HostIo, HostEarly, HostTalking, HostAfter,
         HostReturning
    <3>6. HostLease'
      BY <2>1, <2>3, <3>1 DEF HostInv, HostLease, HostIo, HostEarly, HostTalking,
         HostAfter, HostReturning
    <3>7. HostSources'
      BY <2>1, <2>3, <3>1 DEF HostInv, HostSources, HostWaiting, HostIo, HostLease,
         HostEarly, HostTalking, HostAfter, HostReturning
    <3> QED  BY <3>2, <3>3, <3>4, <3>5, <3>6, <3>7 DEF HostInv
  <2>6. CASE want # 1 /\ Head(wire).ok = TRUE
    <3>1. /\ Host!Accepted /\ hostPc' \in {"loop", "cancel"} /\ outcome' = "none" /\ Head(wire).kind = "batch"
          /\ UNCHANGED <<hostQueue, uploader>>
      BY <1>4, <2>4, <2>6 DEF Host!BatchReceived, Host!AcceptAnd, Host!Fail, Host!End,
         Host!Arrived, Host!InOrder, Host!hostVars, Host!procVars, Host!linkVars,
         Host!ioVars, Host!srcVars
    <3>2. /\ hostLog' \in Seq(HostEvents(hostJob.kind)) /\ Len(hostLog') = Len(hostLog) + 1
          /\ Len(hostLog) \in Nat /\ want' = want + 1 /\ hostLog'[Len(hostLog')] = Head(wire)
          /\ batches' \in Nat /\ batches' <= Len(hostLog')
          /\ batches' = Cardinality(HostBatches(hostLog'))
          /\ wire' \in Seq(HostEvents(hostJob.kind)) /\ Len(hostLog') + Len(wire') <= said'
          /\ HostGenuine(hostLog')
      BY <2>1, <2>2, <2>4, <2>6, <3>1, HostAccepts DEF HostInv, HostTalking, HostEvents
    <3>3. HostProc'
      BY <2>1, <3>1 DEF HostInv, HostProc, HostEarly, HostTalking, HostAfter, HostReturning
    <3>4. HostTalk'
      BY <2>1, <2>3, <2>6, <3>1, <3>2 DEF HostInv, HostTalk, HostEarly, HostTalking, HostAfter, HostReturning
    <3>5. HostFlags'
      BY <2>1, <2>3, <3>1 DEF HostInv, HostFlags
    <3>6. HostIo'
      BY <2>1, <3>1, <3>2, <2>6 DEF HostInv, HostIo, HostEarly, HostTalking, HostAfter, HostReturning
    <3>7. HostLease'
      BY <2>1, <3>1, <2>6 DEF HostInv, HostLease, HostIo, Host!BoundsAssumption, HostTalk
    <3>8. HostSources'
      BY <2>1, <3>1, <3>2 DEF HostInv, HostSources, HostIo, HostLease, HostWaiting, HostTalk
    <3> QED  BY <3>3, <3>4, <3>5, <3>6, <3>7, <3>8 DEF HostInv
  <2> QED  BY <2>5, <2>6
<1>5. CASE Host!CompletedReceived
  <2>1. /\ hostPc = "loop" /\ wire # <<>> /\ Head(wire).seq = want /\ Host!Take
        /\ UNCHANGED <<hostJob, hostLate, endpoint, proc, child, forkSeen, waiter, reused, harmed,
                       receiver, sender, ack, sendErr, hostStop, sourceErr, sentChunks, leases,
                       granted>>
    BY <1>5 DEF Host!CompletedReceived, Host!AcceptAnd, Host!Fail, Host!End, Host!Arrived,
       Host!InOrder, Host!hostVars, Host!procVars, Host!linkVars, Host!ioVars,
       Host!srcVars
  <2>2. /\ Head(wire) \in HostEvents(hostJob.kind) /\ Tail(wire) \in Seq(HostEvents(hostJob.kind))
        /\ Len(wire) \in Nat /\ Len(Tail(wire)) = Len(wire) - 1
    BY <2>1, HostTakes DEF HostInv
  <2>3. wire' = Tail(wire) /\ UNCHANGED <<conn, used, stream, said>>  BY <2>1 DEF Host!Take
  <2>4. Head(wire).ok \in BOOLEAN  BY <2>2 DEF HostEvents
  <2>5. CASE ~(want # 1 /\ Head(wire).claim = batches /\ Head(wire).ok = TRUE)
    <3>1. /\ hostPc' = "kill" /\ outcome' \notin {"completed", "failed"}
          /\ UNCHANGED <<want, hostLog, batches, hostQueue, uploader>>
      BY <1>5, <2>4, <2>5 DEF Host!CompletedReceived, Host!AcceptAnd, Host!Fail,
         Host!End, Host!Arrived, Host!InOrder, Host!hostVars, Host!procVars,
         Host!linkVars, Host!ioVars, Host!srcVars
    <3>2. HostProc'
      BY <2>1, <2>3, <3>1 DEF HostInv, HostProc, HostEarly, HostTalking, HostAfter,
         HostReturning
    <3>3. HostTalk'
      BY <2>1, <2>3, <3>1, <2>2 DEF HostInv, HostTalk, HostEarly, HostTalking,
         HostAfter, HostReturning
    <3>4. HostFlags'
      BY <2>1, <2>3, <3>1 DEF HostInv, HostFlags, HostEarly, HostTalking, HostAfter,
         HostReturning
    <3>5. HostIo'
      BY <2>1, <2>3, <3>1 DEF HostInv, HostIo, HostEarly, HostTalking, HostAfter,
         HostReturning
    <3>6. HostLease'
      BY <2>1, <2>3, <3>1 DEF HostInv, HostLease, HostIo, HostEarly, HostTalking,
         HostAfter, HostReturning
    <3>7. HostSources'
      BY <2>1, <2>3, <3>1 DEF HostInv, HostSources, HostWaiting, HostIo, HostLease,
         HostEarly, HostTalking, HostAfter, HostReturning
    <3> QED  BY <3>2, <3>3, <3>4, <3>5, <3>6, <3>7 DEF HostInv
  <2>6. CASE want # 1 /\ Head(wire).claim = batches /\ Head(wire).ok = TRUE
    <3>1. /\ Host!Accepted /\ hostPc' = "finish" /\ outcome' = "completed" /\ Head(wire).kind = "completed"
          /\ UNCHANGED <<hostQueue, uploader>>
      BY <1>5, <2>4, <2>6 DEF Host!CompletedReceived, Host!AcceptAnd, Host!Fail,
         Host!End, Host!Arrived, Host!InOrder, Host!hostVars, Host!procVars,
         Host!linkVars, Host!ioVars, Host!srcVars
    <3>2. /\ hostLog' \in Seq(HostEvents(hostJob.kind)) /\ Len(hostLog') = Len(hostLog) + 1
          /\ Len(hostLog) \in Nat /\ want' = want + 1 /\ hostLog'[Len(hostLog')] = Head(wire)
          /\ batches' \in Nat /\ batches' <= Len(hostLog')
          /\ batches' = Cardinality(HostBatches(hostLog'))
          /\ wire' \in Seq(HostEvents(hostJob.kind)) /\ Len(hostLog') + Len(wire') <= said'
          /\ HostGenuine(hostLog') /\ batches' = batches
      BY <2>1, <2>2, <2>4, <2>6, <3>1, HostAccepts DEF Host!Accepted, HostInv, HostTalking, HostEvents
    <3>3. HostProc'
      BY <2>1, <3>1 DEF HostInv, HostProc, HostEarly, HostTalking, HostAfter, HostReturning
    <3>4. HostTalk'
      BY <2>1, <2>3, <2>6, <3>1, <3>2 DEF HostInv, HostTalk, HostEarly, HostTalking, HostAfter, HostReturning
    <3>5. HostFlags'
      BY <2>1, <2>3, <3>1 DEF HostInv, HostFlags
    <3>6. HostIo'
      BY <2>1, <3>1, <3>2, <2>6 DEF HostInv, HostIo, HostEarly, HostTalking, HostAfter, HostReturning
    <3>7. HostLease'
      BY <2>1, <3>1, <2>6 DEF HostInv, HostLease, HostIo, Host!BoundsAssumption, HostTalk
    <3>8. HostSources'
      BY <2>1, <3>1, <3>2 DEF HostInv, HostSources, HostIo, HostLease, HostWaiting, HostTalk
    <3> QED  BY <3>3, <3>4, <3>5, <3>6, <3>7, <3>8 DEF HostInv
  <2> QED  BY <2>5, <2>6
<1>6. CASE Host!FailedReceived
  <2>1. /\ hostPc = "loop" /\ wire # <<>> /\ Head(wire).seq = want /\ Host!Take
        /\ UNCHANGED <<hostJob, hostLate, endpoint, proc, child, forkSeen, waiter, reused, harmed,
                       receiver, sender, ack, sendErr, hostStop, sourceErr, sentChunks, leases,
                       granted>>
    BY <1>6 DEF Host!FailedReceived, Host!AcceptAnd, Host!Fail, Host!End, Host!Arrived,
       Host!InOrder, Host!hostVars, Host!procVars, Host!linkVars, Host!ioVars,
       Host!srcVars
  <2>2. /\ Head(wire) \in HostEvents(hostJob.kind) /\ Tail(wire) \in Seq(HostEvents(hostJob.kind))
        /\ Len(wire) \in Nat /\ Len(Tail(wire)) = Len(wire) - 1
    BY <2>1, HostTakes DEF HostInv
  <2>3. wire' = Tail(wire) /\ UNCHANGED <<conn, used, stream, said>>  BY <2>1 DEF Host!Take
  <2>4. CASE TRUE
    <3>1. /\ Host!Accepted /\ hostPc' = "finish" /\ outcome' = "failed" /\ Head(wire).kind = "failed"
          /\ UNCHANGED <<hostQueue, uploader>>
      BY <1>6 DEF Host!FailedReceived, Host!AcceptAnd, Host!Fail, Host!End,
         Host!Arrived, Host!InOrder, Host!hostVars, Host!procVars, Host!linkVars,
         Host!ioVars, Host!srcVars
    <3>2. /\ hostLog' \in Seq(HostEvents(hostJob.kind)) /\ Len(hostLog') = Len(hostLog) + 1
          /\ Len(hostLog) \in Nat /\ want' = want + 1 /\ hostLog'[Len(hostLog')] = Head(wire)
          /\ batches' \in Nat /\ batches' <= Len(hostLog')
          /\ batches' = Cardinality(HostBatches(hostLog'))
          /\ wire' \in Seq(HostEvents(hostJob.kind)) /\ Len(hostLog') + Len(wire') <= said'
          /\ TRUE
      BY <2>1, <2>2, <3>1, HostAccepts DEF HostInv, HostTalking, HostEvents
    <3>3. HostProc'
      BY <2>1, <3>1 DEF HostInv, HostProc, HostEarly, HostTalking, HostAfter, HostReturning
    <3>4. HostTalk'
      BY <2>1, <2>3, <3>1, <3>2 DEF HostInv, HostTalk, HostEarly, HostTalking, HostAfter, HostReturning
    <3>5. HostFlags'
      BY <2>1, <2>3, <3>1 DEF HostInv, HostFlags
    <3>6. HostIo'
      BY <2>1, <3>1, <3>2 DEF HostInv, HostIo, HostEarly, HostTalking, HostAfter, HostReturning
    <3>7. HostLease'
      BY <2>1, <3>1 DEF HostInv, HostLease, HostIo, Host!BoundsAssumption, HostTalk
    <3>8. HostSources'
      BY <2>1, <3>1, <3>2 DEF HostInv, HostSources, HostIo, HostLease, HostWaiting, HostTalk
    <3> QED  BY <3>3, <3>4, <3>5, <3>6, <3>7, <3>8 DEF HostInv
  <2> QED  BY <2>4
<1>7. CASE Host!Unreadable
  <2>1. HostProc'
    BY <1>7 DEF Host!Unreadable, Host!Fail, Host!End, Host!Take, Host!Arrived,
       Host!InOrder, Host!hostVars, Host!procVars, Host!linkVars, Host!ioVars,
       Host!srcVars, Host!BoundsAssumption, HostInv, HostProc, HostEarly, HostTalking,
       HostAfter, HostReturning
  <2>2. HostTalk'
    BY <1>7 DEF Host!Unreadable, Host!Fail, Host!End, Host!Take, Host!Arrived,
       Host!InOrder, Host!hostVars, Host!procVars, Host!linkVars, Host!ioVars,
       Host!srcVars, Host!BoundsAssumption, HostInv, HostTalk, HostGenuine, HostEarly,
       HostTalking, HostAfter, HostReturning
  <2>3. HostFlags'
    BY <1>7 DEF Host!Unreadable, Host!Fail, Host!End, Host!Take, Host!Arrived,
       Host!InOrder, Host!hostVars, Host!procVars, Host!linkVars, Host!ioVars,
       Host!srcVars, Host!BoundsAssumption, HostInv, HostFlags, HostEarly, HostTalking,
       HostAfter, HostReturning
  <2>4. HostIo'
    BY <1>7 DEF Host!Unreadable, Host!Fail, Host!End, Host!Take, Host!Arrived,
       Host!InOrder, Host!hostVars, Host!procVars, Host!linkVars, Host!ioVars,
       Host!srcVars, Host!BoundsAssumption, HostInv, HostIo, HostEarly, HostTalking,
       HostAfter, HostReturning
  <2>5. HostLease'
    BY <1>7 DEF Host!Unreadable, Host!Fail, Host!End, Host!Take, Host!Arrived,
       Host!InOrder, Host!hostVars, Host!procVars, Host!linkVars, Host!ioVars,
       Host!srcVars, Host!BoundsAssumption, HostInv, HostLease, HostIo, HostEarly,
       HostTalking, HostAfter, HostReturning
  <2>6. HostSources'
    BY <1>7 DEF Host!Unreadable, Host!Fail, Host!End, Host!Take, Host!Arrived,
       Host!InOrder, Host!hostVars, Host!procVars, Host!linkVars, Host!ioVars,
       Host!srcVars, Host!BoundsAssumption, HostInv, HostSources, HostWaiting, HostIo,
       HostLease, HostEarly, HostTalking, HostAfter, HostReturning
  <2> QED  BY <2>1, <2>2, <2>3, <2>4, <2>5, <2>6 DEF HostInv
<1>8. CASE Host!LoopEnds
  <2>1. HostProc'
    BY <1>8 DEF Host!LoopEnds, Host!Fail, Host!End, Host!hostVars, Host!procVars,
       Host!linkVars, Host!ioVars, Host!srcVars, Host!BoundsAssumption, HostInv, HostProc,
       HostEarly, HostTalking, HostAfter, HostReturning
  <2>2. HostTalk'
    BY <1>8 DEF Host!LoopEnds, Host!Fail, Host!End, Host!hostVars, Host!procVars,
       Host!linkVars, Host!ioVars, Host!srcVars, Host!BoundsAssumption, HostInv, HostTalk,
       HostGenuine, HostEarly, HostTalking, HostAfter, HostReturning
  <2>3. HostFlags'
    BY <1>8 DEF Host!LoopEnds, Host!Fail, Host!End, Host!hostVars, Host!procVars,
       Host!linkVars, Host!ioVars, Host!srcVars, Host!BoundsAssumption, HostInv,
       HostFlags, HostEarly, HostTalking, HostAfter, HostReturning
  <2>4. HostIo'
    BY <1>8 DEF Host!LoopEnds, Host!Fail, Host!End, Host!hostVars, Host!procVars,
       Host!linkVars, Host!ioVars, Host!srcVars, Host!BoundsAssumption, HostInv, HostIo,
       HostEarly, HostTalking, HostAfter, HostReturning
  <2>5. HostLease'
    BY <1>8 DEF Host!LoopEnds, Host!Fail, Host!End, Host!hostVars, Host!procVars,
       Host!linkVars, Host!ioVars, Host!srcVars, Host!BoundsAssumption, HostInv,
       HostLease, HostIo, HostEarly, HostTalking, HostAfter, HostReturning
  <2>6. HostSources'
    BY <1>8 DEF Host!LoopEnds, Host!Fail, Host!End, Host!hostVars, Host!procVars,
       Host!linkVars, Host!ioVars, Host!srcVars, Host!BoundsAssumption, HostInv,
       HostSources, HostWaiting, HostIo, HostLease, HostEarly, HostTalking, HostAfter,
       HostReturning
  <2> QED  BY <2>1, <2>2, <2>3, <2>4, <2>5, <2>6 DEF HostInv
<1> QED  BY <1>1, <1>2, <1>3, <1>4, <1>5, <1>6, <1>7, <1>8

\* The answers to the worker: a chunk of the source, a Cancel.
LEMMA HostAnswers ==
  ASSUME Host!BoundsAssumption, HostInv,
         Host!ResponseQueued \/ Host!ResponseSent \/ Host!ResponseDrained \/
           Host!CancelQueued
  PROVE  HostInv'
<1>1. CASE Host!ResponseQueued
  <2>1. HostProc'
    BY <1>1 DEF Host!ResponseQueued, Host!Room, Host!Goto, Host!Fail, Host!End,
       Host!hostVars, Host!procVars, Host!linkVars, Host!ioVars, Host!srcVars,
       Host!BoundsAssumption, HostInv, HostProc, HostEarly, HostTalking, HostAfter,
       HostReturning
  <2>2. HostTalk'
    BY <1>1 DEF Host!ResponseQueued, Host!Room, Host!Goto, Host!Fail, Host!End,
       Host!hostVars, Host!procVars, Host!linkVars, Host!ioVars, Host!srcVars,
       Host!BoundsAssumption, HostInv, HostTalk, HostGenuine, HostEarly, HostTalking,
       HostAfter, HostReturning
  <2>3. HostFlags'
    BY <1>1 DEF Host!ResponseQueued, Host!Room, Host!Goto, Host!Fail, Host!End,
       Host!hostVars, Host!procVars, Host!linkVars, Host!ioVars, Host!srcVars,
       Host!BoundsAssumption, HostInv, HostFlags, HostEarly, HostTalking, HostAfter,
       HostReturning
  <2>4. HostIo'
    BY <1>1 DEF Host!ResponseQueued, Host!Room, Host!Goto, Host!Fail, Host!End,
       Host!hostVars, Host!procVars, Host!linkVars, Host!ioVars, Host!srcVars,
       Host!BoundsAssumption, HostInv, HostIo, HostEarly, HostTalking, HostAfter,
       HostReturning
  <2>5. HostLease'
    BY <1>1 DEF Host!ResponseQueued, Host!Room, Host!Goto, Host!Fail, Host!End,
       Host!hostVars, Host!procVars, Host!linkVars, Host!ioVars, Host!srcVars,
       Host!BoundsAssumption, HostInv, HostLease, HostIo, HostEarly, HostTalking,
       HostAfter, HostReturning
  <2>6. HostSources'
    <3>1. /\ hostQueue \in Seq({"execute", "chunk", "source", "cancel", "finish"})
          /\ Len(hostQueue) <= QueueCap /\ QueueCap \in Nat
      BY DEF HostInv, HostSources, Host!BoundsAssumption
    <3>2. CASE hostQueue' = Append(hostQueue, "source") /\ Host!Room
      <4>1. /\ hostQueue' \in Seq({"execute", "chunk", "source", "cancel", "finish"})
            /\ Len(hostQueue) \in Nat /\ Len(hostQueue') = Len(hostQueue) + 1
            /\ \A i \in 1 .. Len(hostQueue) : hostQueue'[i] = hostQueue[i]
            /\ hostQueue'[Len(hostQueue) + 1] = "source"
        BY <3>1, <3>2, HostPuts
      <4>2. Len(hostQueue') <= QueueCap  BY <3>1, <3>2, <4>1 DEF Host!Room
      <4>3. /\ UNCHANGED <<want, sender, hostJob, ack>>
            /\ hostPc = "rqueue" /\ hostPc' = "rwait" /\ UNCHANGED uploader
        BY <1>1, <3>1, <3>2, <4>1 DEF Host!ResponseQueued, Host!Room, Host!Goto,
           Host!Fail, Host!End, Host!hostVars, Host!procVars, Host!linkVars,
           Host!ioVars, Host!srcVars
      <4> QED
        BY <4>1, <4>2, <4>3 DEF HostInv, HostSources, HostIo, HostLease, HostWaiting
    <3>3. CASE UNCHANGED hostQueue
      BY <1>1, <3>1, <3>3, HostPuts DEF Host!ResponseQueued, Host!Room, Host!Goto,
         Host!Fail, Host!End, Host!hostVars, Host!procVars, Host!linkVars, Host!ioVars,
         Host!srcVars, HostInv, HostSources, HostIo, HostLease, HostWaiting
    <3> QED  BY <1>1, <3>2, <3>3 DEF Host!ResponseQueued, Host!Room, Host!Goto, Host!Fail, Host!End
  <2> QED  BY <2>1, <2>2, <2>3, <2>4, <2>5, <2>6 DEF HostInv
<1>2. CASE Host!ResponseSent
  <2>1. HostProc'
    BY <1>2 DEF Host!ResponseSent, Host!Goto, Host!Fail, Host!End, Host!hostVars,
       Host!procVars, Host!linkVars, Host!ioVars, Host!srcVars, Host!BoundsAssumption,
       HostInv, HostProc, HostEarly, HostTalking, HostAfter, HostReturning
  <2>2. HostTalk'
    BY <1>2 DEF Host!ResponseSent, Host!Goto, Host!Fail, Host!End, Host!hostVars,
       Host!procVars, Host!linkVars, Host!ioVars, Host!srcVars, Host!BoundsAssumption,
       HostInv, HostTalk, HostGenuine, HostEarly, HostTalking, HostAfter, HostReturning
  <2>3. HostFlags'
    BY <1>2 DEF Host!ResponseSent, Host!Goto, Host!Fail, Host!End, Host!hostVars,
       Host!procVars, Host!linkVars, Host!ioVars, Host!srcVars, Host!BoundsAssumption,
       HostInv, HostFlags, HostEarly, HostTalking, HostAfter, HostReturning
  <2>4. HostIo'
    BY <1>2 DEF Host!ResponseSent, Host!Goto, Host!Fail, Host!End, Host!hostVars,
       Host!procVars, Host!linkVars, Host!ioVars, Host!srcVars, Host!BoundsAssumption,
       HostInv, HostIo, HostEarly, HostTalking, HostAfter, HostReturning
  <2>5. HostLease'
    BY <1>2 DEF Host!ResponseSent, Host!Goto, Host!Fail, Host!End, Host!hostVars,
       Host!procVars, Host!linkVars, Host!ioVars, Host!srcVars, Host!BoundsAssumption,
       HostInv, HostLease, HostIo, HostEarly, HostTalking, HostAfter, HostReturning
  <2>6. HostSources'
    BY <1>2 DEF Host!ResponseSent, Host!Goto, Host!Fail, Host!End, Host!hostVars,
       Host!procVars, Host!linkVars, Host!ioVars, Host!srcVars, Host!BoundsAssumption,
       HostInv, HostSources, HostWaiting, HostIo, HostLease, HostEarly, HostTalking,
       HostAfter, HostReturning
  <2> QED  BY <2>1, <2>2, <2>3, <2>4, <2>5, <2>6 DEF HostInv
<1>3. CASE Host!ResponseDrained
  <2>1. HostProc'
    BY <1>3 DEF Host!ResponseDrained, Host!Fail, Host!End, Host!hostVars, Host!procVars,
       Host!linkVars, Host!ioVars, Host!srcVars, Host!BoundsAssumption, HostInv, HostProc,
       HostEarly, HostTalking, HostAfter, HostReturning
  <2>2. HostTalk'
    BY <1>3 DEF Host!ResponseDrained, Host!Fail, Host!End, Host!hostVars, Host!procVars,
       Host!linkVars, Host!ioVars, Host!srcVars, Host!BoundsAssumption, HostInv, HostTalk,
       HostGenuine, HostEarly, HostTalking, HostAfter, HostReturning
  <2>3. HostFlags'
    BY <1>3 DEF Host!ResponseDrained, Host!Fail, Host!End, Host!hostVars, Host!procVars,
       Host!linkVars, Host!ioVars, Host!srcVars, Host!BoundsAssumption, HostInv,
       HostFlags, HostEarly, HostTalking, HostAfter, HostReturning
  <2>4. HostIo'
    BY <1>3 DEF Host!ResponseDrained, Host!Fail, Host!End, Host!hostVars, Host!procVars,
       Host!linkVars, Host!ioVars, Host!srcVars, Host!BoundsAssumption, HostInv, HostIo,
       HostEarly, HostTalking, HostAfter, HostReturning
  <2>5. HostLease'
    BY <1>3 DEF Host!ResponseDrained, Host!Fail, Host!End, Host!hostVars, Host!procVars,
       Host!linkVars, Host!ioVars, Host!srcVars, Host!BoundsAssumption, HostInv,
       HostLease, HostIo, HostEarly, HostTalking, HostAfter, HostReturning
  <2>6. HostSources'
    BY <1>3 DEF Host!ResponseDrained, Host!Fail, Host!End, Host!hostVars, Host!procVars,
       Host!linkVars, Host!ioVars, Host!srcVars, Host!BoundsAssumption, HostInv,
       HostSources, HostWaiting, HostIo, HostLease, HostEarly, HostTalking, HostAfter,
       HostReturning
  <2> QED  BY <2>1, <2>2, <2>3, <2>4, <2>5, <2>6 DEF HostInv
<1>4. CASE Host!CancelQueued
  <2>1. HostProc'
    BY <1>4 DEF Host!CancelQueued, Host!Room, Host!Goto, Host!Fail, Host!End,
       Host!hostVars, Host!procVars, Host!linkVars, Host!ioVars, Host!srcVars,
       Host!BoundsAssumption, HostInv, HostProc, HostEarly, HostTalking, HostAfter,
       HostReturning
  <2>2. HostTalk'
    BY <1>4 DEF Host!CancelQueued, Host!Room, Host!Goto, Host!Fail, Host!End,
       Host!hostVars, Host!procVars, Host!linkVars, Host!ioVars, Host!srcVars,
       Host!BoundsAssumption, HostInv, HostTalk, HostGenuine, HostEarly, HostTalking,
       HostAfter, HostReturning
  <2>3. HostFlags'
    BY <1>4 DEF Host!CancelQueued, Host!Room, Host!Goto, Host!Fail, Host!End,
       Host!hostVars, Host!procVars, Host!linkVars, Host!ioVars, Host!srcVars,
       Host!BoundsAssumption, HostInv, HostFlags, HostEarly, HostTalking, HostAfter,
       HostReturning
  <2>4. HostIo'
    BY <1>4 DEF Host!CancelQueued, Host!Room, Host!Goto, Host!Fail, Host!End,
       Host!hostVars, Host!procVars, Host!linkVars, Host!ioVars, Host!srcVars,
       Host!BoundsAssumption, HostInv, HostIo, HostEarly, HostTalking, HostAfter,
       HostReturning
  <2>5. HostLease'
    BY <1>4 DEF Host!CancelQueued, Host!Room, Host!Goto, Host!Fail, Host!End,
       Host!hostVars, Host!procVars, Host!linkVars, Host!ioVars, Host!srcVars,
       Host!BoundsAssumption, HostInv, HostLease, HostIo, HostEarly, HostTalking,
       HostAfter, HostReturning
  <2>6. HostSources'
    <3>1. /\ hostQueue \in Seq({"execute", "chunk", "source", "cancel", "finish"})
          /\ Len(hostQueue) <= QueueCap /\ QueueCap \in Nat
      BY DEF HostInv, HostSources, Host!BoundsAssumption
    <3>2. CASE hostQueue' = Append(hostQueue, "cancel") /\ Host!Room
      <4>1. /\ hostQueue' \in Seq({"execute", "chunk", "source", "cancel", "finish"})
            /\ Len(hostQueue) \in Nat /\ Len(hostQueue') = Len(hostQueue) + 1
            /\ \A i \in 1 .. Len(hostQueue) : hostQueue'[i] = hostQueue[i]
            /\ hostQueue'[Len(hostQueue) + 1] = "cancel"
        BY <3>1, <3>2, HostPuts
      <4>2. Len(hostQueue') <= QueueCap  BY <3>1, <3>2, <4>1 DEF Host!Room
      <4>3. /\ UNCHANGED <<want, sender, hostJob, ack>>
            /\ hostPc = "cancel" /\ hostPc' = "loop" /\ UNCHANGED uploader
        BY <1>4, <3>1, <3>2, <4>1 DEF Host!CancelQueued, Host!Room, Host!Goto,
           Host!Fail, Host!End, Host!hostVars, Host!procVars, Host!linkVars,
           Host!ioVars, Host!srcVars
      <4> QED
        BY <4>1, <4>2, <4>3 DEF HostInv, HostSources, HostIo, HostLease, HostWaiting
    <3>3. CASE UNCHANGED hostQueue
      BY <1>4, <3>1, <3>3, HostPuts DEF Host!CancelQueued, Host!Room, Host!Goto,
         Host!Fail, Host!End, Host!hostVars, Host!procVars, Host!linkVars, Host!ioVars,
         Host!srcVars, HostInv, HostSources, HostIo, HostLease, HostWaiting
    <3> QED  BY <1>4, <3>2, <3>3 DEF Host!CancelQueued, Host!Room, Host!Goto, Host!Fail, Host!End
  <2> QED  BY <2>1, <2>2, <2>3, <2>4, <2>5, <2>6 DEF HostInv
<1> QED  BY <1>1, <1>2, <1>3, <1>4

\* The way out: the kill, the reaping and the deferred calls.
LEMMA HostReturns ==
  ASSUME Host!BoundsAssumption, HostInv,
         Host!KillWorker \/ Host!Finish \/ Host!Release \/ Host!AwaitExit \/
           Host!StopServer \/ Host!Join \/ Host!Close
  PROVE  HostInv'
<1>1. CASE Host!KillWorker
  <2>1. HostProc'
    BY <1>1 DEF Host!KillWorker, Host!KillTree, Host!Goto, Host!hostVars, Host!procVars,
       Host!linkVars, Host!ioVars, Host!srcVars, Host!BoundsAssumption, HostInv, HostProc,
       HostEarly, HostTalking, HostAfter, HostReturning
  <2>2. HostTalk'
    BY <1>1 DEF Host!KillWorker, Host!KillTree, Host!Goto, Host!hostVars, Host!procVars,
       Host!linkVars, Host!ioVars, Host!srcVars, Host!BoundsAssumption, HostInv, HostTalk,
       HostGenuine, HostEarly, HostTalking, HostAfter, HostReturning
  <2>3. HostFlags'
    BY <1>1 DEF Host!KillWorker, Host!KillTree, Host!Goto, Host!hostVars, Host!procVars,
       Host!linkVars, Host!ioVars, Host!srcVars, Host!BoundsAssumption, HostInv,
       HostFlags, HostEarly, HostTalking, HostAfter, HostReturning
  <2>4. HostIo'
    BY <1>1 DEF Host!KillWorker, Host!KillTree, Host!Goto, Host!hostVars, Host!procVars,
       Host!linkVars, Host!ioVars, Host!srcVars, Host!BoundsAssumption, HostInv, HostIo,
       HostEarly, HostTalking, HostAfter, HostReturning
  <2>5. HostLease'
    BY <1>1 DEF Host!KillWorker, Host!KillTree, Host!Goto, Host!hostVars, Host!procVars,
       Host!linkVars, Host!ioVars, Host!srcVars, Host!BoundsAssumption, HostInv,
       HostLease, HostIo, HostEarly, HostTalking, HostAfter, HostReturning
  <2>6. HostSources'
    BY <1>1 DEF Host!KillWorker, Host!KillTree, Host!Goto, Host!hostVars, Host!procVars,
       Host!linkVars, Host!ioVars, Host!srcVars, Host!BoundsAssumption, HostInv,
       HostSources, HostWaiting, HostIo, HostLease, HostEarly, HostTalking, HostAfter,
       HostReturning
  <2> QED  BY <2>1, <2>2, <2>3, <2>4, <2>5, <2>6 DEF HostInv
<1>2. CASE Host!Finish
  <2>1. HostProc'
    BY <1>2 DEF Host!Finish, Host!Room, Host!Goto, Host!hostVars, Host!procVars,
       Host!linkVars, Host!ioVars, Host!srcVars, Host!BoundsAssumption, HostInv, HostProc,
       HostEarly, HostTalking, HostAfter, HostReturning
  <2>2. HostTalk'
    BY <1>2 DEF Host!Finish, Host!Room, Host!Goto, Host!hostVars, Host!procVars,
       Host!linkVars, Host!ioVars, Host!srcVars, Host!BoundsAssumption, HostInv, HostTalk,
       HostGenuine, HostEarly, HostTalking, HostAfter, HostReturning
  <2>3. HostFlags'
    BY <1>2 DEF Host!Finish, Host!Room, Host!Goto, Host!hostVars, Host!procVars,
       Host!linkVars, Host!ioVars, Host!srcVars, Host!BoundsAssumption, HostInv,
       HostFlags, HostEarly, HostTalking, HostAfter, HostReturning
  <2>4. HostIo'
    BY <1>2 DEF Host!Finish, Host!Room, Host!Goto, Host!hostVars, Host!procVars,
       Host!linkVars, Host!ioVars, Host!srcVars, Host!BoundsAssumption, HostInv, HostIo,
       HostEarly, HostTalking, HostAfter, HostReturning
  <2>5. HostLease'
    BY <1>2 DEF Host!Finish, Host!Room, Host!Goto, Host!hostVars, Host!procVars,
       Host!linkVars, Host!ioVars, Host!srcVars, Host!BoundsAssumption, HostInv,
       HostLease, HostIo, HostEarly, HostTalking, HostAfter, HostReturning
  <2>6. HostSources'
    BY <1>2 DEF Host!Finish, Host!Room, Host!Goto, Host!hostVars, Host!procVars,
       Host!linkVars, Host!ioVars, Host!srcVars, Host!BoundsAssumption, HostInv,
       HostSources, HostWaiting, HostIo, HostLease, HostEarly, HostTalking, HostAfter,
       HostReturning
  <2> QED  BY <2>1, <2>2, <2>3, <2>4, <2>5, <2>6 DEF HostInv
<1>3. CASE Host!Release
  <2>1. HostProc'
    BY <1>3 DEF Host!Release, Host!Exited, Host!KillTree, Host!Goto, Host!hostVars,
       Host!procVars, Host!linkVars, Host!ioVars, Host!srcVars, Host!BoundsAssumption,
       HostInv, HostProc, HostEarly, HostTalking, HostAfter, HostReturning
  <2>2. HostTalk'
    BY <1>3 DEF Host!Release, Host!Exited, Host!KillTree, Host!Goto, Host!hostVars,
       Host!procVars, Host!linkVars, Host!ioVars, Host!srcVars, Host!BoundsAssumption,
       HostInv, HostTalk, HostGenuine, HostEarly, HostTalking, HostAfter, HostReturning
  <2>3. HostFlags'
    BY <1>3 DEF Host!Release, Host!Exited, Host!KillTree, Host!Goto, Host!hostVars,
       Host!procVars, Host!linkVars, Host!ioVars, Host!srcVars, Host!BoundsAssumption,
       HostInv, HostFlags, HostEarly, HostTalking, HostAfter, HostReturning
  <2>4. HostIo'
    BY <1>3 DEF Host!Release, Host!Exited, Host!KillTree, Host!Goto, Host!hostVars,
       Host!procVars, Host!linkVars, Host!ioVars, Host!srcVars, Host!BoundsAssumption,
       HostInv, HostIo, HostEarly, HostTalking, HostAfter, HostReturning
  <2>5. HostLease'
    BY <1>3 DEF Host!Release, Host!Exited, Host!KillTree, Host!Goto, Host!hostVars,
       Host!procVars, Host!linkVars, Host!ioVars, Host!srcVars, Host!BoundsAssumption,
       HostInv, HostLease, HostIo, HostEarly, HostTalking, HostAfter, HostReturning
  <2>6. HostSources'
    BY <1>3 DEF Host!Release, Host!Exited, Host!KillTree, Host!Goto, Host!hostVars,
       Host!procVars, Host!linkVars, Host!ioVars, Host!srcVars, Host!BoundsAssumption,
       HostInv, HostSources, HostWaiting, HostIo, HostLease, HostEarly, HostTalking,
       HostAfter, HostReturning
  <2> QED  BY <2>1, <2>2, <2>3, <2>4, <2>5, <2>6 DEF HostInv
<1>4. CASE Host!AwaitExit
  <2>1. HostProc'
    BY <1>4 DEF Host!AwaitExit, Host!Exited, Host!End, Host!hostVars, Host!procVars,
       Host!linkVars, Host!ioVars, Host!srcVars, Host!BoundsAssumption, HostInv, HostProc,
       HostEarly, HostTalking, HostAfter, HostReturning
  <2>2. HostTalk'
    BY <1>4 DEF Host!AwaitExit, Host!Exited, Host!End, Host!hostVars, Host!procVars,
       Host!linkVars, Host!ioVars, Host!srcVars, Host!BoundsAssumption, HostInv, HostTalk,
       HostGenuine, HostEarly, HostTalking, HostAfter, HostReturning
  <2>3. HostFlags'
    BY <1>4 DEF Host!AwaitExit, Host!Exited, Host!End, Host!hostVars, Host!procVars,
       Host!linkVars, Host!ioVars, Host!srcVars, Host!BoundsAssumption, HostInv,
       HostFlags, HostEarly, HostTalking, HostAfter, HostReturning
  <2>4. HostIo'
    BY <1>4 DEF Host!AwaitExit, Host!Exited, Host!End, Host!hostVars, Host!procVars,
       Host!linkVars, Host!ioVars, Host!srcVars, Host!BoundsAssumption, HostInv, HostIo,
       HostEarly, HostTalking, HostAfter, HostReturning
  <2>5. HostLease'
    BY <1>4 DEF Host!AwaitExit, Host!Exited, Host!End, Host!hostVars, Host!procVars,
       Host!linkVars, Host!ioVars, Host!srcVars, Host!BoundsAssumption, HostInv,
       HostLease, HostIo, HostEarly, HostTalking, HostAfter, HostReturning
  <2>6. HostSources'
    BY <1>4 DEF Host!AwaitExit, Host!Exited, Host!End, Host!hostVars, Host!procVars,
       Host!linkVars, Host!ioVars, Host!srcVars, Host!BoundsAssumption, HostInv,
       HostSources, HostWaiting, HostIo, HostLease, HostEarly, HostTalking, HostAfter,
       HostReturning
  <2> QED  BY <2>1, <2>2, <2>3, <2>4, <2>5, <2>6 DEF HostInv
<1>5. CASE Host!StopServer
  <2>1. HostProc'
    BY <1>5 DEF Host!StopServer, Host!Goto, Host!hostVars, Host!procVars, Host!linkVars,
       Host!ioVars, Host!srcVars, Host!BoundsAssumption, HostInv, HostProc, HostEarly,
       HostTalking, HostAfter, HostReturning
  <2>2. HostTalk'
    BY <1>5 DEF Host!StopServer, Host!Goto, Host!hostVars, Host!procVars, Host!linkVars,
       Host!ioVars, Host!srcVars, Host!BoundsAssumption, HostInv, HostTalk, HostGenuine,
       HostEarly, HostTalking, HostAfter, HostReturning
  <2>3. HostFlags'
    BY <1>5 DEF Host!StopServer, Host!Goto, Host!hostVars, Host!procVars, Host!linkVars,
       Host!ioVars, Host!srcVars, Host!BoundsAssumption, HostInv, HostFlags, HostEarly,
       HostTalking, HostAfter, HostReturning
  <2>4. HostIo'
    BY <1>5 DEF Host!StopServer, Host!Goto, Host!hostVars, Host!procVars, Host!linkVars,
       Host!ioVars, Host!srcVars, Host!BoundsAssumption, HostInv, HostIo, HostEarly,
       HostTalking, HostAfter, HostReturning
  <2>5. HostLease'
    BY <1>5 DEF Host!StopServer, Host!Goto, Host!hostVars, Host!procVars, Host!linkVars,
       Host!ioVars, Host!srcVars, Host!BoundsAssumption, HostInv, HostLease, HostIo,
       HostEarly, HostTalking, HostAfter, HostReturning
  <2>6. HostSources'
    BY <1>5 DEF Host!StopServer, Host!Goto, Host!hostVars, Host!procVars, Host!linkVars,
       Host!ioVars, Host!srcVars, Host!BoundsAssumption, HostInv, HostSources,
       HostWaiting, HostIo, HostLease, HostEarly, HostTalking, HostAfter, HostReturning
  <2> QED  BY <2>1, <2>2, <2>3, <2>4, <2>5, <2>6 DEF HostInv
<1>6. CASE Host!Join
  <2>1. HostProc'
    BY <1>6 DEF Host!Join, Host!Goto, Host!hostVars, Host!procVars, Host!linkVars,
       Host!ioVars, Host!srcVars, Host!BoundsAssumption, HostInv, HostProc, HostEarly,
       HostTalking, HostAfter, HostReturning
  <2>2. HostTalk'
    BY <1>6 DEF Host!Join, Host!Goto, Host!hostVars, Host!procVars, Host!linkVars,
       Host!ioVars, Host!srcVars, Host!BoundsAssumption, HostInv, HostTalk, HostGenuine,
       HostEarly, HostTalking, HostAfter, HostReturning
  <2>3. HostFlags'
    BY <1>6 DEF Host!Join, Host!Goto, Host!hostVars, Host!procVars, Host!linkVars,
       Host!ioVars, Host!srcVars, Host!BoundsAssumption, HostInv, HostFlags, HostEarly,
       HostTalking, HostAfter, HostReturning
  <2>4. HostIo'
    BY <1>6 DEF Host!Join, Host!Goto, Host!hostVars, Host!procVars, Host!linkVars,
       Host!ioVars, Host!srcVars, Host!BoundsAssumption, HostInv, HostIo, HostEarly,
       HostTalking, HostAfter, HostReturning
  <2>5. HostLease'
    BY <1>6 DEF Host!Join, Host!Goto, Host!hostVars, Host!procVars, Host!linkVars,
       Host!ioVars, Host!srcVars, Host!BoundsAssumption, HostInv, HostLease, HostIo,
       HostEarly, HostTalking, HostAfter, HostReturning
  <2>6. HostSources'
    BY <1>6 DEF Host!Join, Host!Goto, Host!hostVars, Host!procVars, Host!linkVars,
       Host!ioVars, Host!srcVars, Host!BoundsAssumption, HostInv, HostSources,
       HostWaiting, HostIo, HostLease, HostEarly, HostTalking, HostAfter, HostReturning
  <2> QED  BY <2>1, <2>2, <2>3, <2>4, <2>5, <2>6 DEF HostInv
<1>7. CASE Host!Close
  <2>1. HostProc'
    BY <1>7 DEF Host!Close, Host!hostVars, Host!procVars, Host!linkVars, Host!ioVars,
       Host!srcVars, Host!BoundsAssumption, HostInv, HostProc, HostEarly, HostTalking,
       HostAfter, HostReturning
  <2>2. HostTalk'
    BY <1>7 DEF Host!Close, Host!hostVars, Host!procVars, Host!linkVars, Host!ioVars,
       Host!srcVars, Host!BoundsAssumption, HostInv, HostTalk, HostGenuine, HostEarly,
       HostTalking, HostAfter, HostReturning
  <2>3. HostFlags'
    BY <1>7 DEF Host!Close, Host!hostVars, Host!procVars, Host!linkVars, Host!ioVars,
       Host!srcVars, Host!BoundsAssumption, HostInv, HostFlags, HostEarly, HostTalking,
       HostAfter, HostReturning
  <2>4. HostIo'
    BY <1>7 DEF Host!Close, Host!hostVars, Host!procVars, Host!linkVars, Host!ioVars,
       Host!srcVars, Host!BoundsAssumption, HostInv, HostIo, HostEarly, HostTalking,
       HostAfter, HostReturning
  <2>5. HostLease'
    BY <1>7 DEF Host!Close, Host!hostVars, Host!procVars, Host!linkVars, Host!ioVars,
       Host!srcVars, Host!BoundsAssumption, HostInv, HostLease, HostIo, HostEarly,
       HostTalking, HostAfter, HostReturning
  <2>6. HostSources'
    BY <1>7 DEF Host!Close, Host!hostVars, Host!procVars, Host!linkVars, Host!ioVars,
       Host!srcVars, Host!BoundsAssumption, HostInv, HostSources, HostWaiting, HostIo,
       HostLease, HostEarly, HostTalking, HostAfter, HostReturning
  <2> QED  BY <2>1, <2>2, <2>3, <2>4, <2>5, <2>6 DEF HostInv
<1> QED  BY <1>1, <1>2, <1>3, <1>4, <1>5, <1>6, <1>7

\* The other goroutines: waiter, receiver, sender and uploader.
LEMMA HostWorks ==
  ASSUME Host!BoundsAssumption, HostInv,
         Host!SenderStops \/ Host!ReceiverStops \/ Host!WatchReturns \/ Host!Reap \/
           Host!UploadChunk \/ Host!UploadRead \/ Host!UploadQueue \/ Host!UploadWait \/
           Host!UploadDrain \/ Host!Sent \/ Host!StreamEnds
  PROVE  HostInv'
<1>1. CASE Host!SenderStops
  <2>1. HostProc'
    BY <1>1 DEF Host!SenderStops, Host!hostVars, Host!procVars, Host!linkVars,
       Host!ioVars, Host!srcVars, Host!BoundsAssumption, HostInv, HostProc, HostEarly,
       HostTalking, HostAfter, HostReturning
  <2>2. HostTalk'
    BY <1>1 DEF Host!SenderStops, Host!hostVars, Host!procVars, Host!linkVars,
       Host!ioVars, Host!srcVars, Host!BoundsAssumption, HostInv, HostTalk, HostGenuine,
       HostEarly, HostTalking, HostAfter, HostReturning
  <2>3. HostFlags'
    BY <1>1 DEF Host!SenderStops, Host!hostVars, Host!procVars, Host!linkVars,
       Host!ioVars, Host!srcVars, Host!BoundsAssumption, HostInv, HostFlags, HostEarly,
       HostTalking, HostAfter, HostReturning
  <2>4. HostIo'
    BY <1>1 DEF Host!SenderStops, Host!hostVars, Host!procVars, Host!linkVars,
       Host!ioVars, Host!srcVars, Host!BoundsAssumption, HostInv, HostIo, HostEarly,
       HostTalking, HostAfter, HostReturning
  <2>5. HostLease'
    BY <1>1 DEF Host!SenderStops, Host!hostVars, Host!procVars, Host!linkVars,
       Host!ioVars, Host!srcVars, Host!BoundsAssumption, HostInv, HostLease, HostIo,
       HostEarly, HostTalking, HostAfter, HostReturning
  <2>6. HostSources'
    BY <1>1 DEF Host!SenderStops, Host!hostVars, Host!procVars, Host!linkVars,
       Host!ioVars, Host!srcVars, Host!BoundsAssumption, HostInv, HostSources,
       HostWaiting, HostIo, HostLease, HostEarly, HostTalking, HostAfter, HostReturning
  <2> QED  BY <2>1, <2>2, <2>3, <2>4, <2>5, <2>6 DEF HostInv
<1>2. CASE Host!ReceiverStops
  <2>1. HostProc'
    BY <1>2 DEF Host!ReceiverStops, Host!hostVars, Host!procVars, Host!linkVars,
       Host!ioVars, Host!srcVars, Host!BoundsAssumption, HostInv, HostProc, HostEarly,
       HostTalking, HostAfter, HostReturning
  <2>2. HostTalk'
    BY <1>2 DEF Host!ReceiverStops, Host!hostVars, Host!procVars, Host!linkVars,
       Host!ioVars, Host!srcVars, Host!BoundsAssumption, HostInv, HostTalk, HostGenuine,
       HostEarly, HostTalking, HostAfter, HostReturning
  <2>3. HostFlags'
    BY <1>2 DEF Host!ReceiverStops, Host!hostVars, Host!procVars, Host!linkVars,
       Host!ioVars, Host!srcVars, Host!BoundsAssumption, HostInv, HostFlags, HostEarly,
       HostTalking, HostAfter, HostReturning
  <2>4. HostIo'
    BY <1>2 DEF Host!ReceiverStops, Host!hostVars, Host!procVars, Host!linkVars,
       Host!ioVars, Host!srcVars, Host!BoundsAssumption, HostInv, HostIo, HostEarly,
       HostTalking, HostAfter, HostReturning
  <2>5. HostLease'
    BY <1>2 DEF Host!ReceiverStops, Host!hostVars, Host!procVars, Host!linkVars,
       Host!ioVars, Host!srcVars, Host!BoundsAssumption, HostInv, HostLease, HostIo,
       HostEarly, HostTalking, HostAfter, HostReturning
  <2>6. HostSources'
    BY <1>2 DEF Host!ReceiverStops, Host!hostVars, Host!procVars, Host!linkVars,
       Host!ioVars, Host!srcVars, Host!BoundsAssumption, HostInv, HostSources,
       HostWaiting, HostIo, HostLease, HostEarly, HostTalking, HostAfter, HostReturning
  <2> QED  BY <2>1, <2>2, <2>3, <2>4, <2>5, <2>6 DEF HostInv
<1>3. CASE Host!WatchReturns
  <2>1. HostProc'
    BY <1>3 DEF Host!WatchReturns, Host!hostVars, Host!procVars, Host!linkVars,
       Host!ioVars, Host!srcVars, Host!BoundsAssumption, HostInv, HostProc, HostEarly,
       HostTalking, HostAfter, HostReturning
  <2>2. HostTalk'
    BY <1>3 DEF Host!WatchReturns, Host!hostVars, Host!procVars, Host!linkVars,
       Host!ioVars, Host!srcVars, Host!BoundsAssumption, HostInv, HostTalk, HostGenuine,
       HostEarly, HostTalking, HostAfter, HostReturning
  <2>3. HostFlags'
    BY <1>3 DEF Host!WatchReturns, Host!hostVars, Host!procVars, Host!linkVars,
       Host!ioVars, Host!srcVars, Host!BoundsAssumption, HostInv, HostFlags, HostEarly,
       HostTalking, HostAfter, HostReturning
  <2>4. HostIo'
    BY <1>3 DEF Host!WatchReturns, Host!hostVars, Host!procVars, Host!linkVars,
       Host!ioVars, Host!srcVars, Host!BoundsAssumption, HostInv, HostIo, HostEarly,
       HostTalking, HostAfter, HostReturning
  <2>5. HostLease'
    BY <1>3 DEF Host!WatchReturns, Host!hostVars, Host!procVars, Host!linkVars,
       Host!ioVars, Host!srcVars, Host!BoundsAssumption, HostInv, HostLease, HostIo,
       HostEarly, HostTalking, HostAfter, HostReturning
  <2>6. HostSources'
    BY <1>3 DEF Host!WatchReturns, Host!hostVars, Host!procVars, Host!linkVars,
       Host!ioVars, Host!srcVars, Host!BoundsAssumption, HostInv, HostSources,
       HostWaiting, HostIo, HostLease, HostEarly, HostTalking, HostAfter, HostReturning
  <2> QED  BY <2>1, <2>2, <2>3, <2>4, <2>5, <2>6 DEF HostInv
<1>4. CASE Host!Reap
  <2>1. HostProc'
    BY <1>4 DEF Host!Reap, Host!hostVars, Host!procVars, Host!linkVars, Host!ioVars,
       Host!srcVars, Host!BoundsAssumption, HostInv, HostProc, HostEarly, HostTalking,
       HostAfter, HostReturning
  <2>2. HostTalk'
    BY <1>4 DEF Host!Reap, Host!hostVars, Host!procVars, Host!linkVars, Host!ioVars,
       Host!srcVars, Host!BoundsAssumption, HostInv, HostTalk, HostGenuine, HostEarly,
       HostTalking, HostAfter, HostReturning
  <2>3. HostFlags'
    BY <1>4 DEF Host!Reap, Host!hostVars, Host!procVars, Host!linkVars, Host!ioVars,
       Host!srcVars, Host!BoundsAssumption, HostInv, HostFlags, HostEarly, HostTalking,
       HostAfter, HostReturning
  <2>4. HostIo'
    BY <1>4 DEF Host!Reap, Host!hostVars, Host!procVars, Host!linkVars, Host!ioVars,
       Host!srcVars, Host!BoundsAssumption, HostInv, HostIo, HostEarly, HostTalking,
       HostAfter, HostReturning
  <2>5. HostLease'
    BY <1>4 DEF Host!Reap, Host!hostVars, Host!procVars, Host!linkVars, Host!ioVars,
       Host!srcVars, Host!BoundsAssumption, HostInv, HostLease, HostIo, HostEarly,
       HostTalking, HostAfter, HostReturning
  <2>6. HostSources'
    BY <1>4 DEF Host!Reap, Host!hostVars, Host!procVars, Host!linkVars, Host!ioVars,
       Host!srcVars, Host!BoundsAssumption, HostInv, HostSources, HostWaiting, HostIo,
       HostLease, HostEarly, HostTalking, HostAfter, HostReturning
  <2> QED  BY <2>1, <2>2, <2>3, <2>4, <2>5, <2>6 DEF HostInv
<1>5. CASE Host!UploadChunk
  <2>1. HostProc'
    BY <1>5 DEF Host!UploadChunk, Host!Room, Host!hostVars, Host!procVars, Host!linkVars,
       Host!ioVars, Host!srcVars, Host!BoundsAssumption, HostInv, HostProc, HostEarly,
       HostTalking, HostAfter, HostReturning
  <2>2. HostTalk'
    BY <1>5 DEF Host!UploadChunk, Host!Room, Host!hostVars, Host!procVars, Host!linkVars,
       Host!ioVars, Host!srcVars, Host!BoundsAssumption, HostInv, HostTalk, HostGenuine,
       HostEarly, HostTalking, HostAfter, HostReturning
  <2>3. HostFlags'
    BY <1>5 DEF Host!UploadChunk, Host!Room, Host!hostVars, Host!procVars, Host!linkVars,
       Host!ioVars, Host!srcVars, Host!BoundsAssumption, HostInv, HostFlags, HostEarly,
       HostTalking, HostAfter, HostReturning
  <2>4. HostIo'
    BY <1>5 DEF Host!UploadChunk, Host!Room, Host!hostVars, Host!procVars, Host!linkVars,
       Host!ioVars, Host!srcVars, Host!BoundsAssumption, HostInv, HostIo, HostEarly,
       HostTalking, HostAfter, HostReturning
  <2>5. HostLease'
    BY <1>5 DEF Host!UploadChunk, Host!Room, Host!hostVars, Host!procVars, Host!linkVars,
       Host!ioVars, Host!srcVars, Host!BoundsAssumption, HostInv, HostLease, HostIo,
       HostEarly, HostTalking, HostAfter, HostReturning
  <2>6. HostSources'
    BY <1>5 DEF Host!UploadChunk, Host!Room, Host!hostVars, Host!procVars, Host!linkVars,
       Host!ioVars, Host!srcVars, Host!BoundsAssumption, HostInv, HostSources,
       HostWaiting, HostIo, HostLease, HostEarly, HostTalking, HostAfter, HostReturning
  <2> QED  BY <2>1, <2>2, <2>3, <2>4, <2>5, <2>6 DEF HostInv
<1>6. CASE Host!UploadRead
  <2>1. HostProc'
    BY <1>6 DEF Host!UploadRead, Host!hostVars, Host!procVars, Host!linkVars, Host!ioVars,
       Host!srcVars, Host!BoundsAssumption, HostInv, HostProc, HostEarly, HostTalking,
       HostAfter, HostReturning
  <2>2. HostTalk'
    BY <1>6 DEF Host!UploadRead, Host!hostVars, Host!procVars, Host!linkVars, Host!ioVars,
       Host!srcVars, Host!BoundsAssumption, HostInv, HostTalk, HostGenuine, HostEarly,
       HostTalking, HostAfter, HostReturning
  <2>3. HostFlags'
    BY <1>6 DEF Host!UploadRead, Host!hostVars, Host!procVars, Host!linkVars, Host!ioVars,
       Host!srcVars, Host!BoundsAssumption, HostInv, HostFlags, HostEarly, HostTalking,
       HostAfter, HostReturning
  <2>4. HostIo'
    BY <1>6 DEF Host!UploadRead, Host!hostVars, Host!procVars, Host!linkVars, Host!ioVars,
       Host!srcVars, Host!BoundsAssumption, HostInv, HostIo, HostEarly, HostTalking,
       HostAfter, HostReturning
  <2>5. HostLease'
    BY <1>6 DEF Host!UploadRead, Host!hostVars, Host!procVars, Host!linkVars, Host!ioVars,
       Host!srcVars, Host!BoundsAssumption, HostInv, HostLease, HostIo, HostEarly,
       HostTalking, HostAfter, HostReturning
  <2>6. HostSources'
    BY <1>6 DEF Host!UploadRead, Host!hostVars, Host!procVars, Host!linkVars, Host!ioVars,
       Host!srcVars, Host!BoundsAssumption, HostInv, HostSources, HostWaiting, HostIo,
       HostLease, HostEarly, HostTalking, HostAfter, HostReturning
  <2> QED  BY <2>1, <2>2, <2>3, <2>4, <2>5, <2>6 DEF HostInv
<1>7. CASE Host!UploadQueue
  <2>1. HostProc'
    BY <1>7 DEF Host!UploadQueue, Host!Room, Host!hostVars, Host!procVars, Host!linkVars,
       Host!ioVars, Host!srcVars, Host!BoundsAssumption, HostInv, HostProc, HostEarly,
       HostTalking, HostAfter, HostReturning
  <2>2. HostTalk'
    BY <1>7 DEF Host!UploadQueue, Host!Room, Host!hostVars, Host!procVars, Host!linkVars,
       Host!ioVars, Host!srcVars, Host!BoundsAssumption, HostInv, HostTalk, HostGenuine,
       HostEarly, HostTalking, HostAfter, HostReturning
  <2>3. HostFlags'
    BY <1>7 DEF Host!UploadQueue, Host!Room, Host!hostVars, Host!procVars, Host!linkVars,
       Host!ioVars, Host!srcVars, Host!BoundsAssumption, HostInv, HostFlags, HostEarly,
       HostTalking, HostAfter, HostReturning
  <2>4. HostIo'
    BY <1>7 DEF Host!UploadQueue, Host!Room, Host!hostVars, Host!procVars, Host!linkVars,
       Host!ioVars, Host!srcVars, Host!BoundsAssumption, HostInv, HostIo, HostEarly,
       HostTalking, HostAfter, HostReturning
  <2>5. HostLease'
    BY <1>7 DEF Host!UploadQueue, Host!Room, Host!hostVars, Host!procVars, Host!linkVars,
       Host!ioVars, Host!srcVars, Host!BoundsAssumption, HostInv, HostLease, HostIo,
       HostEarly, HostTalking, HostAfter, HostReturning
  <2>6. HostSources'
    BY <1>7 DEF Host!UploadQueue, Host!Room, Host!hostVars, Host!procVars, Host!linkVars,
       Host!ioVars, Host!srcVars, Host!BoundsAssumption, HostInv, HostSources,
       HostWaiting, HostIo, HostLease, HostEarly, HostTalking, HostAfter, HostReturning
  <2> QED  BY <2>1, <2>2, <2>3, <2>4, <2>5, <2>6 DEF HostInv
<1>8. CASE Host!UploadWait
  <2>1. HostProc'
    BY <1>8 DEF Host!UploadWait, Host!hostVars, Host!procVars, Host!linkVars, Host!ioVars,
       Host!srcVars, Host!BoundsAssumption, HostInv, HostProc, HostEarly, HostTalking,
       HostAfter, HostReturning
  <2>2. HostTalk'
    BY <1>8 DEF Host!UploadWait, Host!hostVars, Host!procVars, Host!linkVars, Host!ioVars,
       Host!srcVars, Host!BoundsAssumption, HostInv, HostTalk, HostGenuine, HostIo,
       HostEarly, HostTalking, HostAfter, HostReturning
  <2>3. HostFlags'
    BY <1>8 DEF Host!UploadWait, Host!hostVars, Host!procVars, Host!linkVars, Host!ioVars,
       Host!srcVars, Host!BoundsAssumption, HostInv, HostFlags, HostEarly, HostTalking,
       HostAfter, HostReturning
  <2>4. HostIo'
    BY <1>8 DEF Host!UploadWait, Host!hostVars, Host!procVars, Host!linkVars, Host!ioVars,
       Host!srcVars, Host!BoundsAssumption, HostInv, HostIo, HostEarly, HostTalking,
       HostAfter, HostReturning
  <2>5. HostLease'
    BY <1>8 DEF Host!UploadWait, Host!hostVars, Host!procVars, Host!linkVars, Host!ioVars,
       Host!srcVars, Host!BoundsAssumption, HostInv, HostLease, HostIo, HostEarly,
       HostTalking, HostAfter, HostReturning
  <2>6. HostSources'
    BY <1>8 DEF Host!UploadWait, Host!hostVars, Host!procVars, Host!linkVars, Host!ioVars,
       Host!srcVars, Host!BoundsAssumption, HostInv, HostSources, HostWaiting, HostIo,
       HostLease, HostEarly, HostTalking, HostAfter, HostReturning
  <2> QED  BY <2>1, <2>2, <2>3, <2>4, <2>5, <2>6 DEF HostInv
<1>9. CASE Host!UploadDrain
  <2>1. HostProc'
    BY <1>9 DEF Host!UploadDrain, Host!hostVars, Host!procVars, Host!linkVars,
       Host!ioVars, Host!srcVars, Host!BoundsAssumption, HostInv, HostProc, HostEarly,
       HostTalking, HostAfter, HostReturning
  <2>2. HostTalk'
    BY <1>9 DEF Host!UploadDrain, Host!hostVars, Host!procVars, Host!linkVars,
       Host!ioVars, Host!srcVars, Host!BoundsAssumption, HostInv, HostTalk, HostGenuine,
       HostEarly, HostTalking, HostAfter, HostReturning
  <2>3. HostFlags'
    BY <1>9 DEF Host!UploadDrain, Host!hostVars, Host!procVars, Host!linkVars,
       Host!ioVars, Host!srcVars, Host!BoundsAssumption, HostInv, HostFlags, HostEarly,
       HostTalking, HostAfter, HostReturning
  <2>4. HostIo'
    BY <1>9 DEF Host!UploadDrain, Host!hostVars, Host!procVars, Host!linkVars,
       Host!ioVars, Host!srcVars, Host!BoundsAssumption, HostInv, HostIo, HostEarly,
       HostTalking, HostAfter, HostReturning
  <2>5. HostLease'
    BY <1>9 DEF Host!UploadDrain, Host!hostVars, Host!procVars, Host!linkVars,
       Host!ioVars, Host!srcVars, Host!BoundsAssumption, HostInv, HostLease, HostIo,
       HostEarly, HostTalking, HostAfter, HostReturning
  <2>6. HostSources'
    BY <1>9 DEF Host!UploadDrain, Host!hostVars, Host!procVars, Host!linkVars,
       Host!ioVars, Host!srcVars, Host!BoundsAssumption, HostInv, HostSources,
       HostWaiting, HostIo, HostLease, HostEarly, HostTalking, HostAfter, HostReturning
  <2> QED  BY <2>1, <2>2, <2>3, <2>4, <2>5, <2>6 DEF HostInv
<1>10. CASE Host!Sent
  <2>1. HostProc'
    BY <1>10 DEF Host!Sent, Host!hostVars, Host!procVars, Host!linkVars, Host!ioVars,
       Host!srcVars, Host!BoundsAssumption, HostInv, HostProc, HostEarly, HostTalking,
       HostAfter, HostReturning
  <2>2. HostTalk'
    BY <1>10 DEF Host!Sent, Host!hostVars, Host!procVars, Host!linkVars, Host!ioVars,
       Host!srcVars, Host!BoundsAssumption, HostInv, HostTalk, HostGenuine, HostEarly,
       HostTalking, HostAfter, HostReturning
  <2>3. HostFlags'
    BY <1>10 DEF Host!Sent, Host!hostVars, Host!procVars, Host!linkVars, Host!ioVars,
       Host!srcVars, Host!BoundsAssumption, HostInv, HostFlags, HostEarly, HostTalking,
       HostAfter, HostReturning
  <2>4. HostIo'
    <3>1. want # 1
      <4>1. hostQueue # <<>> /\ hostQueue \in Seq({"execute", "chunk", "source", "cancel", "finish"})
        BY <1>10 DEF Host!Sent, HostInv, HostSources
      <4>2. Len(hostQueue) # 0  BY <4>1
      <4> QED  BY <4>2 DEF HostInv, HostSources
        <3> QED  BY <1>10, <3>1 DEF Host!Sent, Host!hostVars, Host!procVars, Host!linkVars,
       Host!ioVars, Host!srcVars, HostInv, HostIo, HostEarly, HostTalking, HostAfter,
       HostReturning
  <2>5. HostLease'
    BY <1>10 DEF Host!Sent, Host!hostVars, Host!procVars, Host!linkVars, Host!ioVars,
       Host!srcVars, Host!BoundsAssumption, HostInv, HostLease, HostIo, HostEarly,
       HostTalking, HostAfter, HostReturning
  <2>6. HostSources'
    BY <1>10 DEF Host!Sent, Host!hostVars, Host!procVars, Host!linkVars, Host!ioVars,
       Host!srcVars, Host!BoundsAssumption, HostInv, HostSources, HostWaiting, HostIo,
       HostLease, HostEarly, HostTalking, HostAfter, HostReturning
  <2> QED  BY <2>1, <2>2, <2>3, <2>4, <2>5, <2>6 DEF HostInv
<1>11. CASE Host!StreamEnds
  <2>1. HostProc'
    BY <1>11 DEF Host!StreamEnds, Host!hostVars, Host!procVars, Host!linkVars,
       Host!ioVars, Host!srcVars, Host!BoundsAssumption, HostInv, HostProc, HostEarly,
       HostTalking, HostAfter, HostReturning
  <2>2. HostTalk'
    BY <1>11 DEF Host!StreamEnds, Host!hostVars, Host!procVars, Host!linkVars,
       Host!ioVars, Host!srcVars, Host!BoundsAssumption, HostInv, HostTalk, HostGenuine,
       HostEarly, HostTalking, HostAfter, HostReturning
  <2>3. HostFlags'
    BY <1>11 DEF Host!StreamEnds, Host!hostVars, Host!procVars, Host!linkVars,
       Host!ioVars, Host!srcVars, Host!BoundsAssumption, HostInv, HostFlags, HostEarly,
       HostTalking, HostAfter, HostReturning
  <2>4. HostIo'
    BY <1>11 DEF Host!StreamEnds, Host!hostVars, Host!procVars, Host!linkVars,
       Host!ioVars, Host!srcVars, Host!BoundsAssumption, HostInv, HostIo, HostEarly,
       HostTalking, HostAfter, HostReturning
  <2>5. HostLease'
    BY <1>11 DEF Host!StreamEnds, Host!hostVars, Host!procVars, Host!linkVars,
       Host!ioVars, Host!srcVars, Host!BoundsAssumption, HostInv, HostLease, HostIo,
       HostEarly, HostTalking, HostAfter, HostReturning
  <2>6. HostSources'
    BY <1>11 DEF Host!StreamEnds, Host!hostVars, Host!procVars, Host!linkVars,
       Host!ioVars, Host!srcVars, Host!BoundsAssumption, HostInv, HostSources,
       HostWaiting, HostIo, HostLease, HostEarly, HostTalking, HostAfter, HostReturning
  <2> QED  BY <2>1, <2>2, <2>3, <2>4, <2>5, <2>6 DEF HostInv
<1> QED  BY <1>1, <1>2, <1>3, <1>4, <1>5, <1>6, <1>7, <1>8, <1>9, <1>10, <1>11

\* The worker and the operating system.
LEMMA HostWorld ==
  ASSUME Host!BoundsAssumption, HostInv,
         Host!Say \/ Host!Fork \/ Host!Exit \/ Host!ReuseNumber \/ Host!Authorize \/
           (\E who \in {"worker", "other"} : Host!Accept(who))
  PROVE  HostInv'
<1>1. CASE Host!Say
  <2>1. HostProc'
    BY <1>1 DEF Host!Say, Host!hostVars, Host!procVars, Host!linkVars, Host!ioVars,
       Host!srcVars, Host!BoundsAssumption, HostInv, HostProc, HostEarly, HostTalking,
       HostAfter, HostReturning
  <2>2. HostTalk'
    <3>1. PICK e : /\ e \in HostEvents(hostJob.kind) /\ wire' = Append(wire, e)
                   /\ said' = said + 1 /\ said < MaxEvents
      <4>1. PICK k \in {"hello", "batch", "completed", "failed", "empty", "oversized"}
                       \cup (IF hostJob.kind = "range" THEN {"readat"} ELSE {}) :
              \E s \in IF k \in {"batch", "completed"} THEN {said, said + 1, said + 2}
                       ELSE {said + 1} :
              \E ok \in IF k \in {"hello", "batch", "readat", "completed"} THEN BOOLEAN
                        ELSE {TRUE} :
              \E c \in IF k \in {"completed", "readat"} THEN 0 .. 1 ELSE {0} :
                wire' = Append(wire, [seq |-> s, kind |-> k, ok |-> ok, claim |-> c])
        BY <1>1 DEF Host!Say
      <4>2. /\ k \in {"hello", "batch", "completed", "failed", "empty", "oversized", "readat"}
            /\ k = "readat" => hostJob.kind = "range"
        OBVIOUS
      <4>3. PICK s \in IF k \in {"batch", "completed"} THEN {said, said + 1, said + 2}
                       ELSE {said + 1} :
              \E ok \in IF k \in {"hello", "batch", "readat", "completed"} THEN BOOLEAN
                        ELSE {TRUE} :
              \E c \in IF k \in {"completed", "readat"} THEN 0 .. 1 ELSE {0} :
                wire' = Append(wire, [seq |-> s, kind |-> k, ok |-> ok, claim |-> c])
        BY <4>1
      <4>4. s \in Nat  BY DEF HostInv, HostTalk
      <4>5. PICK ok \in IF k \in {"hello", "batch", "readat", "completed"} THEN BOOLEAN
                        ELSE {TRUE} :
              \E c \in IF k \in {"completed", "readat"} THEN 0 .. 1 ELSE {0} :
                wire' = Append(wire, [seq |-> s, kind |-> k, ok |-> ok, claim |-> c])
        BY <4>3
      <4>6. ok \in BOOLEAN /\ (k = "failed" => ok = TRUE)  OBVIOUS
      <4>7. PICK c \in IF k \in {"completed", "readat"} THEN 0 .. 1 ELSE {0} :
              wire' = Append(wire, [seq |-> s, kind |-> k, ok |-> ok, claim |-> c])
        BY <4>5
      <4>8. c \in Nat  OBVIOUS
      <4>9. [seq |-> s, kind |-> k, ok |-> ok, claim |-> c] \in HostEvents(hostJob.kind)
        BY <4>2, <4>4, <4>6, <4>8 DEF HostEvents
      <4>10. said' = said + 1 /\ said < MaxEvents  BY <1>1 DEF Host!Say
      <4> QED  BY <4>7, <4>9, <4>10
    <3>2. /\ wire' \in Seq(HostEvents(hostJob.kind)) /\ Len(wire) \in Nat
          /\ Len(wire') = Len(wire) + 1
      BY <3>1, HostPuts DEF HostInv, HostTalk
    <3>3. Len(hostLog) \in Nat  BY DEF HostInv, HostTalk
    <3>4. UNCHANGED <<hostJob, hostPc, outcome, want, hostLog, batches, conn, stream>>
      BY <1>1 DEF Host!Say, Host!hostVars, Host!procVars, Host!linkVars, Host!ioVars, Host!srcVars
    <3> QED  BY <3>1, <3>2, <3>3, <3>4 DEF HostInv, HostTalk, Host!BoundsAssumption
  <2>3. HostFlags'
    BY <1>1 DEF Host!Say, Host!hostVars, Host!procVars, Host!linkVars, Host!ioVars,
       Host!srcVars, Host!BoundsAssumption, HostInv, HostFlags, HostEarly, HostTalking,
       HostAfter, HostReturning
  <2>4. HostIo'
    BY <1>1 DEF Host!Say, Host!hostVars, Host!procVars, Host!linkVars, Host!ioVars,
       Host!srcVars, Host!BoundsAssumption, HostInv, HostIo, HostEarly, HostTalking,
       HostAfter, HostReturning
  <2>5. HostLease'
    BY <1>1 DEF Host!Say, Host!hostVars, Host!procVars, Host!linkVars, Host!ioVars,
       Host!srcVars, Host!BoundsAssumption, HostInv, HostLease, HostIo, HostEarly,
       HostTalking, HostAfter, HostReturning
  <2>6. HostSources'
    BY <1>1 DEF Host!Say, Host!hostVars, Host!procVars, Host!linkVars, Host!ioVars,
       Host!srcVars, Host!BoundsAssumption, HostInv, HostSources, HostWaiting, HostIo,
       HostLease, HostEarly, HostTalking, HostAfter, HostReturning
  <2> QED  BY <2>1, <2>2, <2>3, <2>4, <2>5, <2>6 DEF HostInv
<1>2. CASE Host!Fork
  <2>1. HostProc'
    BY <1>2 DEF Host!Fork, Host!hostVars, Host!procVars, Host!linkVars, Host!ioVars,
       Host!srcVars, Host!BoundsAssumption, HostInv, HostProc, HostEarly, HostTalking,
       HostAfter, HostReturning
  <2>2. HostTalk'
    BY <1>2 DEF Host!Fork, Host!hostVars, Host!procVars, Host!linkVars, Host!ioVars,
       Host!srcVars, Host!BoundsAssumption, HostInv, HostTalk, HostGenuine, HostEarly,
       HostTalking, HostAfter, HostReturning
  <2>3. HostFlags'
    BY <1>2 DEF Host!Fork, Host!hostVars, Host!procVars, Host!linkVars, Host!ioVars,
       Host!srcVars, Host!BoundsAssumption, HostInv, HostFlags, HostEarly, HostTalking,
       HostAfter, HostReturning
  <2>4. HostIo'
    BY <1>2 DEF Host!Fork, Host!hostVars, Host!procVars, Host!linkVars, Host!ioVars,
       Host!srcVars, Host!BoundsAssumption, HostInv, HostIo, HostEarly, HostTalking,
       HostAfter, HostReturning
  <2>5. HostLease'
    BY <1>2 DEF Host!Fork, Host!hostVars, Host!procVars, Host!linkVars, Host!ioVars,
       Host!srcVars, Host!BoundsAssumption, HostInv, HostLease, HostIo, HostEarly,
       HostTalking, HostAfter, HostReturning
  <2>6. HostSources'
    BY <1>2 DEF Host!Fork, Host!hostVars, Host!procVars, Host!linkVars, Host!ioVars,
       Host!srcVars, Host!BoundsAssumption, HostInv, HostSources, HostWaiting, HostIo,
       HostLease, HostEarly, HostTalking, HostAfter, HostReturning
  <2> QED  BY <2>1, <2>2, <2>3, <2>4, <2>5, <2>6 DEF HostInv
<1>3. CASE Host!Exit
  <2>1. HostProc'
    BY <1>3 DEF Host!Exit, Host!hostVars, Host!procVars, Host!linkVars, Host!ioVars,
       Host!srcVars, Host!BoundsAssumption, HostInv, HostProc, HostEarly, HostTalking,
       HostAfter, HostReturning
  <2>2. HostTalk'
    BY <1>3 DEF Host!Exit, Host!hostVars, Host!procVars, Host!linkVars, Host!ioVars,
       Host!srcVars, Host!BoundsAssumption, HostInv, HostTalk, HostGenuine, HostEarly,
       HostTalking, HostAfter, HostReturning
  <2>3. HostFlags'
    BY <1>3 DEF Host!Exit, Host!hostVars, Host!procVars, Host!linkVars, Host!ioVars,
       Host!srcVars, Host!BoundsAssumption, HostInv, HostFlags, HostEarly, HostTalking,
       HostAfter, HostReturning
  <2>4. HostIo'
    BY <1>3 DEF Host!Exit, Host!hostVars, Host!procVars, Host!linkVars, Host!ioVars,
       Host!srcVars, Host!BoundsAssumption, HostInv, HostIo, HostEarly, HostTalking,
       HostAfter, HostReturning
  <2>5. HostLease'
    BY <1>3 DEF Host!Exit, Host!hostVars, Host!procVars, Host!linkVars, Host!ioVars,
       Host!srcVars, Host!BoundsAssumption, HostInv, HostLease, HostIo, HostEarly,
       HostTalking, HostAfter, HostReturning
  <2>6. HostSources'
    BY <1>3 DEF Host!Exit, Host!hostVars, Host!procVars, Host!linkVars, Host!ioVars,
       Host!srcVars, Host!BoundsAssumption, HostInv, HostSources, HostWaiting, HostIo,
       HostLease, HostEarly, HostTalking, HostAfter, HostReturning
  <2> QED  BY <2>1, <2>2, <2>3, <2>4, <2>5, <2>6 DEF HostInv
<1>4. CASE Host!ReuseNumber
  <2>1. HostProc'
    BY <1>4 DEF Host!ReuseNumber, Host!hostVars, Host!procVars, Host!linkVars,
       Host!ioVars, Host!srcVars, Host!BoundsAssumption, HostInv, HostProc, HostEarly,
       HostTalking, HostAfter, HostReturning
  <2>2. HostTalk'
    BY <1>4 DEF Host!ReuseNumber, Host!hostVars, Host!procVars, Host!linkVars,
       Host!ioVars, Host!srcVars, Host!BoundsAssumption, HostInv, HostTalk, HostGenuine,
       HostEarly, HostTalking, HostAfter, HostReturning
  <2>3. HostFlags'
    BY <1>4 DEF Host!ReuseNumber, Host!hostVars, Host!procVars, Host!linkVars,
       Host!ioVars, Host!srcVars, Host!BoundsAssumption, HostInv, HostFlags, HostEarly,
       HostTalking, HostAfter, HostReturning
  <2>4. HostIo'
    BY <1>4 DEF Host!ReuseNumber, Host!hostVars, Host!procVars, Host!linkVars,
       Host!ioVars, Host!srcVars, Host!BoundsAssumption, HostInv, HostIo, HostEarly,
       HostTalking, HostAfter, HostReturning
  <2>5. HostLease'
    BY <1>4 DEF Host!ReuseNumber, Host!hostVars, Host!procVars, Host!linkVars,
       Host!ioVars, Host!srcVars, Host!BoundsAssumption, HostInv, HostLease, HostIo,
       HostEarly, HostTalking, HostAfter, HostReturning
  <2>6. HostSources'
    BY <1>4 DEF Host!ReuseNumber, Host!hostVars, Host!procVars, Host!linkVars,
       Host!ioVars, Host!srcVars, Host!BoundsAssumption, HostInv, HostSources,
       HostWaiting, HostIo, HostLease, HostEarly, HostTalking, HostAfter, HostReturning
  <2> QED  BY <2>1, <2>2, <2>3, <2>4, <2>5, <2>6 DEF HostInv
<1>5. CASE Host!Authorize
  <2>1. HostProc'
    BY <1>5 DEF Host!Authorize, Host!hostVars, Host!procVars, Host!linkVars, Host!ioVars,
       Host!srcVars, Host!BoundsAssumption, HostInv, HostProc, HostEarly, HostTalking,
       HostAfter, HostReturning
  <2>2. HostTalk'
    BY <1>5 DEF Host!Authorize, Host!hostVars, Host!procVars, Host!linkVars, Host!ioVars,
       Host!srcVars, Host!BoundsAssumption, HostInv, HostTalk, HostGenuine, HostEarly,
       HostTalking, HostAfter, HostReturning
  <2>3. HostFlags'
    BY <1>5 DEF Host!Authorize, Host!hostVars, Host!procVars, Host!linkVars, Host!ioVars,
       Host!srcVars, Host!BoundsAssumption, HostInv, HostFlags, HostEarly, HostTalking,
       HostAfter, HostReturning
  <2>4. HostIo'
    BY <1>5 DEF Host!Authorize, Host!hostVars, Host!procVars, Host!linkVars, Host!ioVars,
       Host!srcVars, Host!BoundsAssumption, HostInv, HostIo, HostEarly, HostTalking,
       HostAfter, HostReturning
  <2>5. HostLease'
    BY <1>5 DEF Host!Authorize, Host!hostVars, Host!procVars, Host!linkVars, Host!ioVars,
       Host!srcVars, Host!BoundsAssumption, HostInv, HostLease, HostIo, HostEarly,
       HostTalking, HostAfter, HostReturning
  <2>6. HostSources'
    BY <1>5 DEF Host!Authorize, Host!hostVars, Host!procVars, Host!linkVars, Host!ioVars,
       Host!srcVars, Host!BoundsAssumption, HostInv, HostSources, HostWaiting, HostIo,
       HostLease, HostEarly, HostTalking, HostAfter, HostReturning
  <2> QED  BY <2>1, <2>2, <2>3, <2>4, <2>5, <2>6 DEF HostInv
<1>6. CASE \E who \in {"worker", "other"} : Host!Accept(who)
  <2>1. HostProc'
    BY <1>6 DEF Host!Accept, Host!hostVars, Host!procVars, Host!linkVars, Host!ioVars,
       Host!srcVars, Host!BoundsAssumption, HostInv, HostProc, HostEarly, HostTalking,
       HostAfter, HostReturning
  <2>2. HostTalk'
    BY <1>6 DEF Host!Accept, Host!hostVars, Host!procVars, Host!linkVars, Host!ioVars,
       Host!srcVars, Host!BoundsAssumption, HostInv, HostTalk, HostGenuine, HostEarly,
       HostTalking, HostAfter, HostReturning
  <2>3. HostFlags'
    BY <1>6 DEF Host!Accept, Host!hostVars, Host!procVars, Host!linkVars, Host!ioVars,
       Host!srcVars, Host!BoundsAssumption, HostInv, HostFlags, HostEarly, HostTalking,
       HostAfter, HostReturning
  <2>4. HostIo'
    BY <1>6 DEF Host!Accept, Host!hostVars, Host!procVars, Host!linkVars, Host!ioVars,
       Host!srcVars, Host!BoundsAssumption, HostInv, HostIo, HostEarly, HostTalking,
       HostAfter, HostReturning
  <2>5. HostLease'
    BY <1>6 DEF Host!Accept, Host!hostVars, Host!procVars, Host!linkVars, Host!ioVars,
       Host!srcVars, Host!BoundsAssumption, HostInv, HostLease, HostIo, HostEarly,
       HostTalking, HostAfter, HostReturning
  <2>6. HostSources'
    BY <1>6 DEF Host!Accept, Host!hostVars, Host!procVars, Host!linkVars, Host!ioVars,
       Host!srcVars, Host!BoundsAssumption, HostInv, HostSources, HostWaiting, HostIo,
       HostLease, HostEarly, HostTalking, HostAfter, HostReturning
  <2> QED  BY <2>1, <2>2, <2>3, <2>4, <2>5, <2>6 DEF HostInv
<1> QED  BY <1>1, <1>2, <1>3, <1>4, <1>5, <1>6

\* The invariant is inductive.
LEMMA HostNext ==
  ASSUME Host!BoundsAssumption, HostInv, [Host!Next]_hostVars PROVE HostInv'
<1>1. CASE Host!Next
  BY <1>1, HostBegins, HostListens, HostAnswers, HostReturns, HostWorks, HostWorld
  DEF Host!Next, Host!Driver, Host!Goroutines, Host!World
<1>2. CASE UNCHANGED hostVars
  <2>1. HostProc'  BY <1>2 DEF hostVars, HostInv, HostProc
  <2>2. HostTalk'  BY <1>2 DEF hostVars, HostInv, HostTalk
  <2>3. HostFlags' /\ HostIo' /\ HostLease'  BY <1>2 DEF hostVars, HostInv, HostFlags, HostIo, HostLease
  <2>4. HostSources'  BY <1>2 DEF hostVars, HostInv, HostSources, HostWaiting
  <2> QED  BY <2>1, <2>2, <2>3, <2>4 DEF HostInv
<1> QED  BY <1>1, <1>2

\* What the invariant says of a job.
LEMMA HostContained ==
  ASSUME Host!BoundsAssumption, HostInv
  PROVE  /\ Host!TypeOK /\ Host!CompletedGenuine /\ Host!NothingLeft /\ Host!ForkFailsClosed
         /\ Host!LeaseCoversSend /\ Host!OnlyTheWorkerSignalled
<1>1. Host!TypeOK
  <2>1. /\ hostLate \in BOOLEAN /\ sendErr \in BOOLEAN /\ hostStop \in BOOLEAN
        /\ sourceErr \in BOOLEAN /\ granted \in BOOLEAN /\ used \in BOOLEAN
        /\ forkSeen \in BOOLEAN /\ reused \in BOOLEAN /\ harmed \in BOOLEAN /\ endpoint \in BOOLEAN
    BY DEF HostInv, HostFlags, HostProc
  <2>2. {hostLate, endpoint, forkSeen, reused, harmed, used, sendErr, hostStop, sourceErr, granted}
          \subseteq BOOLEAN
    BY <2>1, Zenon
  <2>3. Len(hostLog) \in Nat /\ Len(wire) \in Nat  BY DEF HostInv, HostTalk
  <2>4. /\ MaxEvents \in Nat /\ want \in 1 .. MaxEvents + 1 /\ batches \in 0 .. MaxEvents
        /\ said \in 0 .. MaxEvents
    BY <2>3 DEF HostInv, HostTalk, Host!BoundsAssumption
  <2>5. Len(hostQueue) <= QueueCap /\ leases \in 0 .. 1 /\ sentChunks \in 0 .. Chunks
    BY DEF HostInv, HostLease, HostSources, Host!BoundsAssumption
  <2>6. hostJob \in Jobs  BY DEF HostInv, HostProc
  <2> QED  BY <2>2, <2>4, <2>5, <2>6 DEF Host!TypeOK
<1>2. Host!CompletedGenuine
  <2> SUFFICES ASSUME outcome = "completed"
               PROVE  /\ conn = "worker" /\ hostJob.proof
                      /\ \A i \in DOMAIN hostLog :
                           /\ hostLog[i].seq = i /\ (hostLog[i].kind = "hello" <=> i = 1)
                           /\ hostLog[i].ok
                      /\ hostLog[Len(hostLog)].kind = "completed"
                      /\ hostLog[Len(hostLog)].claim
                           = Host!Cardinality({i \in DOMAIN hostLog : hostLog[i].kind = "batch"})
    BY DEF Host!CompletedGenuine
  <2>1. /\ Len(hostLog) > 0 /\ HostGenuine(hostLog) /\ hostLog \in Seq(HostEvents(hostJob.kind))
        /\ hostLog[Len(hostLog)].kind = "completed" /\ hostLog[Len(hostLog)].claim = batches
        /\ conn = "worker" /\ hostJob.proof = TRUE
        /\ batches = Cardinality(HostBatches(hostLog))
    BY DEF HostInv, HostTalk
  <2>2. DOMAIN hostLog = 1 .. Len(hostLog)  BY <2>1
  <2>3. batches = Host!Cardinality({i \in DOMAIN hostLog : hostLog[i].kind = "batch"})
    BY <2>1, HostCount DEF HostBatches
  <2> QED  BY <2>1, <2>2, <2>3 DEF HostGenuine
<1>3. Host!NothingLeft
  BY DEF Host!NothingLeft, HostInv, HostProc, HostFlags, HostIo, HostLease, HostReturning
<1>4. Host!ForkFailsClosed
  BY DEF Host!ForkFailsClosed, HostInv, HostProc, HostReturning
<1>5. Host!LeaseCoversSend
  <2>1. hostQueue \in Seq({"execute", "chunk", "source", "cancel", "finish"})
    BY DEF HostInv, HostSources
  <2>2. DOMAIN hostQueue = 1 .. Len(hostQueue)  BY <2>1
  <2> QED  BY <2>2 DEF Host!LeaseCoversSend, HostInv, HostSources, HostLease, HostWaiting
<1>6. Host!OnlyTheWorkerSignalled
  BY DEF Host!OnlyTheWorkerSignalled, HostInv, HostProc
<1> QED  BY <1>1, <1>2, <1>3, <1>4, <1>5, <1>6

-----------------------------------------------------------------------------
(* Proofs: the analytics workers, together *)

\* Run, sendSource and Container: a job is completed only by the verified events of the worker
\* that was launched, as many batches as it says and no event lost or repeated; nothing of it
\* is left when Run returns, a worker that made a process is never accepted, no other process
\* is signalled, a chunk in flight has its lease, and no sweep leaves the worker's folder; for
\* any jobs, any queue, any number of chunks and events.
THEOREM WorkersAreContained == Spec => []WorkersContained
<1> DEFINE I == /\ part = "host" => HostInv
                /\ part = "folder" => FolderInv
<1>1. Init => I  BY HostInit, FolderInit, PartsAssumption DEF Init
<1>2. I /\ [Next]_vars => I'
  <2> SUFFICES ASSUME I, [Next]_vars PROVE I'
    OBVIOUS
  <2>1. part' = part  BY DEF Next, vars
  <2>2. CASE part = "host"
    <3>1. [Host!Next]_hostVars  BY <2>2 DEF Next, vars
    <3> QED  BY <2>1, <2>2, <3>1, HostNext, PartsAssumption
  <2>3. CASE part = "folder"
    <3>1. [Folder!Next]_folderVars  BY <2>3 DEF Next, vars
    <3> QED  BY <2>1, <2>3, <3>1, FolderNext, PartsAssumption
  <2> QED  BY <2>1, <2>2, <2>3
<1>3. I => WorkersContained
  <2>1. FolderInv => Folder!TypeOK /\ Folder!OutsideUntouched
    BY DEF FolderInv, FolderTypes, FolderLock, Folder!TypeOK, Folder!OutsideUntouched
  <2> QED  BY <2>1, HostContained, PartsAssumption DEF WorkersContained
<1> QED  BY <1>1, <1>2, <1>3, PTL DEF Spec

-----------------------------------------------------------------------------
(* Proofs: a transport job serves its own worker, leaves nothing and settles its results *)

\* No process of the tree is alive.
JobTreeDead == jobWorker \in {"none", "dead"} /\ \A k \in Kids : kid[k] \notin {"in", "quiet"}

\* The worker runs, and what it starts runs, only inside the tree, which is dead once runJob
\* is past the place that ends it.
JobTree ==
    /\ jobPc \in {"listen", "start"} => jobWorker = "none" /\ attached = FALSE
    /\ attached = FALSE => jobWorker # "running" /\ \A k \in Kids : kid[k] = "none"
    /\ jobPc \in {"failwait", "killed", "stop", "stopping", "returned"} => JobTreeDead
    /\ platform.leave = FALSE => \A k \in Kids : kid[k] # "out"

\* Who holds the proof, and who is admitted with it.
JobConns ==
    /\ boot = TRUE \/ jobPc = "bootstrap" => live = TRUE
    /\ \A c \in dialled \cup admitted :
         /\ c.from = Worker => boot = TRUE
         /\ c.from # Worker /\ c.proof = TRUE => platform.peer = TRUE
    /\ \A c \in admitted : platform.peer = TRUE => c.from = Worker

\* The one session is the worker's, and finds the worker named.
JobSession ==
    /\ session # "none" => live = TRUE /\ jobUsed = TRUE
    /\ jobBy \subseteq {Worker} /\ nilSeen = FALSE
    /\ jobDone # "empty" => session = "ended"
    /\ jobResult = "ok" => jobDone = "ok"

\* What is open: nothing before the listener is made, and nothing after Stop.
JobEnds ==
    /\ jobPc = "listen" => /\ jobEndpoint = FALSE /\ listener = "none"
                           /\ admitted = {} /\ session = "none"
    /\ jobPc \in {"stopping", "returned"} => listener # "open" /\ admitted = {}
    /\ jobPc = "returned" => jobEndpoint = FALSE /\ session \in {"none", "ended"}

\* The inductive invariant of a transport job.
JobInv == Job!TypeOK /\ JobTree /\ JobConns /\ JobSession /\ JobEnds

LEMMA JobInit == ASSUME Job!TransportAssumption, Job!Init PROVE JobInv
<1>1. Job!TypeOK  BY DEF Job!Init, Job!TypeOK
<1>2. JobTree  BY DEF Job!Init, JobTree
<1>3. JobConns /\ JobSession /\ JobEnds  BY DEF Job!Init, JobConns, JobSession, JobEnds
<1> QED  BY <1>1, <1>2, <1>3 DEF JobInv

\* What a step that leaves a part of the state alone keeps.
LEMMA JobProcsKept ==
  ASSUME JobInv, UNCHANGED <<platform, jobWorker, kid, attached>>,
         jobPc' \in {"listen", "start"} => jobPc \in {"listen", "start"},
         jobPc' \in {"failwait", "killed", "stop", "stopping", "returned"} => JobTreeDead
  PROVE  JobTree'
BY DEF JobInv, JobTree, JobTreeDead

LEMMA JobConnsKept ==
  ASSUME JobInv, UNCHANGED <<platform, boot>>, live = TRUE => live' = TRUE,
         jobPc' = "bootstrap" => jobPc = "bootstrap" \/ live' = TRUE,
         dialled' \subseteq dialled, admitted' \subseteq admitted
  PROVE  JobConns'
BY DEF JobInv, JobConns

LEMMA JobSessionKept ==
  ASSUME JobInv, UNCHANGED <<session, jobUsed, jobBy, nilSeen, jobDone>>,
         live = TRUE => live' = TRUE, jobResult' = "ok" => jobDone = "ok"
  PROVE  JobSession'
BY DEF JobInv, JobSession

LEMMA JobEndsKept ==
  ASSUME JobInv, UNCHANGED <<jobEndpoint, listener, admitted, session>>,
         jobPc' \in {"listen", "stopping", "returned"} => jobPc' = jobPc
  PROVE  JobEnds'
BY DEF JobInv, JobEnds

\* The host begins: it listens, starts the worker and attaches its tree.
LEMMA JobBegins ==
  ASSUME Job!TransportAssumption, JobInv,
         Job!Listen \/ Job!Start \/ Job!Attach \/ Job!AttachFails \/ Job!OnStarted
  PROVE  JobInv'
<1>0. /\ platform.leave \in BOOLEAN /\ platform.suspended \in BOOLEAN /\ attached \in BOOLEAN
      /\ kid \in [Kids -> {"none", "in", "out", "quiet", "dead"}]
  BY DEF JobInv, Job!TypeOK, Job!TransportAssumption, Job!Platform
<1>1. CASE Job!Listen
  <2>1. Job!TypeOK'
    BY <1>1 DEF JobInv, Job!TypeOK, Job!Listen, Job!procs, Job!hostVars, Job!sess
  <2>2. JobTree'  BY <1>1 DEF JobInv, JobTree, JobTreeDead, Job!Listen, Job!procs
  <2>3. JobConns'  BY <1>1, JobConnsKept DEF Job!Listen, Job!procs, Job!hostVars
  <2>4. JobSession'  BY <1>1, JobSessionKept DEF JobInv, JobSession, Job!Listen, Job!hostVars, Job!sess
  <2>5. JobEnds'  BY <1>1 DEF JobInv, JobEnds, Job!Listen, Job!sess
  <2> QED  BY <2>1, <2>2, <2>3, <2>4, <2>5 DEF JobInv
<1>2. CASE Job!Start
  <2>1. Job!TypeOK'
    BY <1>0, <1>2 DEF JobInv, Job!TypeOK, Job!Start, Job!conns, Job!hostVars, Job!sess,
                 Job!Suspended, JobTree
  <2>2. JobTree'
    BY <1>0, <1>2 DEF JobInv, JobTree, JobTreeDead, Job!Start, Job!Suspended
  <2>3. JobConns'  BY <1>2, JobConnsKept DEF Job!Start, Job!conns, Job!hostVars
  <2>4. JobSession'
    BY <1>2, JobSessionKept DEF JobInv, JobSession, Job!Start, Job!hostVars, Job!sess
  <2>5. JobEnds'  BY <1>2, JobEndsKept DEF Job!Start, Job!conns, Job!sess
  <2> QED  BY <2>1, <2>2, <2>3, <2>4, <2>5 DEF JobInv
<1>3. CASE Job!Attach
  <2>1. Job!TypeOK'
    BY <1>3 DEF JobInv, Job!TypeOK, Job!Attach, Job!conns, Job!hostVars, Job!sess
  <2>2. JobTree'  BY <1>3 DEF JobInv, JobTree, JobTreeDead, Job!Attach
  <2>3. JobConns'  BY <1>3, JobConnsKept DEF Job!Attach, Job!conns, Job!hostVars
  <2>4. JobSession'
    BY <1>3, JobSessionKept DEF JobInv, JobSession, Job!Attach, Job!hostVars, Job!sess
  <2>5. JobEnds'  BY <1>3, JobEndsKept DEF Job!Attach, Job!conns, Job!sess
  <2> QED  BY <2>1, <2>2, <2>3, <2>4, <2>5 DEF JobInv
<1>4. CASE Job!AttachFails
  <2>1. Job!TypeOK'
    BY <1>0, <1>4 DEF JobInv, Job!TypeOK, Job!AttachFails, Job!conns, Job!hostVars, Job!sess
  <2>2. JobTree'  BY <1>0, <1>4 DEF JobInv, JobTree, JobTreeDead, Job!AttachFails
  <2>3. JobConns'  BY <1>4, JobConnsKept DEF Job!AttachFails, Job!conns, Job!hostVars
  <2>4. JobSession'
    BY <1>4, JobSessionKept DEF JobInv, JobSession, Job!AttachFails, Job!hostVars, Job!sess
  <2>5. JobEnds'  BY <1>4, JobEndsKept DEF Job!AttachFails, Job!conns, Job!sess
  <2> QED  BY <2>1, <2>2, <2>3, <2>4, <2>5 DEF JobInv
<1>5. CASE Job!OnStarted
  <2>1. Job!TypeOK'
    BY <1>5 DEF JobInv, Job!TypeOK, Job!OnStarted, Job!procs, Job!conns, Job!sess
  <2>2. JobTree'  BY <1>5, JobProcsKept DEF Job!OnStarted, Job!procs
  <2>3. JobConns'  BY <1>5, JobConnsKept DEF Job!OnStarted, Job!procs, Job!conns
  <2>4. JobSession'
    BY <1>5, JobSessionKept DEF JobInv, JobSession, Job!OnStarted, Job!sess
  <2>5. JobEnds'  BY <1>5, JobEndsKept DEF Job!OnStarted, Job!conns, Job!sess
  <2> QED  BY <2>1, <2>2, <2>3, <2>4, <2>5 DEF JobInv
<1> QED  BY <1>1, <1>2, <1>3, <1>4, <1>5

\* tree.kill leaves nobody in the tree alive.
LEMMA JobTreeKilled ==
  ASSUME JobInv, Job!TreeKilled
  PROVE  /\ JobTreeDead'
         /\ jobWorker' \in {"none", "dead"} /\ (jobWorker = "none" <=> jobWorker' = "none")
         /\ kid' \in [Kids -> {"none", "in", "out", "quiet", "dead"}]
         /\ \A k \in Kids : /\ kid[k] = "none" => kid'[k] = "none"
                            /\ kid'[k] = "out" => kid[k] = "out"
BY DEF JobInv, Job!TypeOK, Job!TreeKilled, JobTreeDead

\* The bootstrap, the exit and the release: the tree is killed, or the host goes on.
LEMMA JobKills ==
  ASSUME Job!TransportAssumption, JobInv, Job!Bootstrap \/ Job!ExitCode \/ Job!Release
  PROVE  JobInv'
<1>0. /\ UNCHANGED <<platform, attached, exited, Job!conns, expect, live, jobResult, Job!sess>>
      /\ \/ UNCHANGED <<jobWorker, kid>> /\ jobPc' \in {"select", "release"}
         \/ Job!TreeKilled /\ jobPc' \in {"failwait", "killed", "stop"}
      /\ jobPc \in {"bootstrap", "exit", "release"}
      /\ boot' = boot \/ (boot' = TRUE /\ jobPc = "bootstrap")
  BY DEF Job!Bootstrap, Job!ExitCode, Job!Release, Job!hostVars
<1>1. /\ jobWorker' \in {"none", "suspended", "running", "dead"}
      /\ kid' \in [Kids -> {"none", "in", "out", "quiet", "dead"}]
      /\ jobWorker = "dead" => jobWorker' = "dead"
      /\ boot' \in BOOLEAN
  <2>0. boot' \in BOOLEAN  BY <1>0 DEF JobInv, Job!TypeOK
  <2>1. CASE UNCHANGED <<jobWorker, kid>>  BY <2>0, <2>1 DEF JobInv, Job!TypeOK
  <2>2. CASE Job!TreeKilled  BY <2>0, <2>2, JobTreeKilled
  <2> QED  BY <1>0, <2>0, <2>1, <2>2
<1>2. Job!TypeOK'
  BY <1>0, <1>1 DEF JobInv, Job!TypeOK, Job!conns, Job!sess
<1>3. JobTree'
  <2>1. CASE UNCHANGED <<jobWorker, kid>> /\ jobPc' \in {"select", "release"}
    BY <1>0, <2>1, JobProcsKept
  <2>2. CASE Job!TreeKilled /\ jobPc' \in {"failwait", "killed", "stop"}
    BY <1>0, <2>2, JobTreeKilled DEF JobInv, JobTree
  <2> QED  BY <1>0, <2>1, <2>2
<1>4. JobConns'  BY <1>0 DEF JobInv, JobConns, Job!conns
<1>5. JobSession'  BY <1>0 DEF JobInv, JobSession, Job!sess
<1>6. JobEnds'  BY <1>0, JobEndsKept DEF Job!conns, Job!sess
<1> QED  BY <1>2, <1>3, <1>4, <1>5, <1>6 DEF JobInv

\* The host waits: for the session, for the exit, for the time to pass.
LEMMA JobWaits ==
  ASSUME Job!TransportAssumption, JobInv,
         \/ Job!BootstrapFailed \/ Job!Killed
         \/ Job!SelectDone \/ Job!SelectExited \/ Job!SelectTimeout
  PROVE  JobInv'
<1>0. /\ UNCHANGED <<Job!procs, Job!conns, expect, live, boot, Job!sess>>
      /\ \/ jobPc = "failwait" /\ jobPc' = "stop"
         \/ jobPc = "killed" /\ jobPc' = "release"
         \/ jobPc \in {"select", "grace"} /\ jobPc' \in {"grace", "exit"}
      /\ jobResult' \in {jobResult, jobDone, "err", "timeout"}
  BY DEF Job!BootstrapFailed, Job!Killed, Job!SelectDone, Job!SelectExited,
         Job!SelectTimeout, Job!hostVars
<1>1. Job!TypeOK'
  BY <1>0 DEF JobInv, Job!TypeOK, Job!procs, Job!conns, Job!sess,
              Job!SelectDone, Job!BootstrapFailed, Job!Killed, Job!SelectExited,
              Job!SelectTimeout, Job!hostVars
<1>2. JobTree'  BY <1>0, JobProcsKept DEF JobInv, JobTree, Job!procs
<1>3. JobConns'  BY <1>0, JobConnsKept DEF Job!procs, Job!conns
<1>4. JobSession'  BY <1>0 DEF JobInv, JobSession, Job!sess
<1>5. JobEnds'  BY <1>0, JobEndsKept DEF Job!conns, Job!sess
<1> QED  BY <1>1, <1>2, <1>3, <1>4, <1>5 DEF JobInv

\* srv.Stop, and the return.
LEMMA JobStops ==
  ASSUME Job!TransportAssumption, JobInv, Job!Stop \/ Job!Return
  PROVE  JobInv'
<1>0. /\ UNCHANGED <<Job!procs, dials, Job!hostVars, Job!sess>>
      /\ dialled' \subseteq dialled /\ admitted' \subseteq admitted
      /\ jobEndpoint' \in {jobEndpoint, FALSE} /\ listener' \in {listener, "closed"}
      /\ \/ jobPc = "stop" /\ jobPc' = "stopping" /\ listener' = "closed" /\ admitted' = {}
         \/ /\ jobPc = "stopping" /\ jobPc' = "returned" /\ jobEndpoint' = FALSE
            /\ session \in {"none", "ended"} /\ UNCHANGED <<listener, admitted>>
  BY DEF Job!Stop, Job!Return
<1>1. Job!TypeOK'  BY <1>0 DEF JobInv, Job!TypeOK, Job!procs, Job!hostVars, Job!sess
<1>2. JobTree'  BY <1>0, JobProcsKept DEF JobInv, JobTree, Job!procs
<1>3. JobConns'  BY <1>0, JobConnsKept DEF Job!procs, Job!hostVars
<1>4. JobSession'  BY <1>0, JobSessionKept DEF JobInv, JobSession, Job!hostVars, Job!sess
<1>5. JobEnds'  BY <1>0 DEF JobInv, JobEnds, Job!sess
<1> QED  BY <1>1, <1>2, <1>3, <1>4, <1>5 DEF JobInv

\* A process dials, and the listener takes its connection or refuses it.
LEMMA JobDials ==
  ASSUME Job!TransportAssumption, JobInv, Job!Dial \/ Job!Accept
  PROVE  JobInv'
<1>0. /\ UNCHANGED <<jobPc, Job!procs, jobEndpoint, Job!hostVars, Job!sess>>
      /\ listener = "open"
  BY DEF Job!Dial, Job!Accept
<1>1. CASE Job!Dial
  <2>1. PICK c \in Job!Conns :
          /\ c.from = Worker => boot
          /\ c.from # Worker => (c.proof => platform.peer)
          /\ dialled' = dialled \cup {c} /\ UNCHANGED <<listener, admitted>>
    BY <1>1 DEF Job!Dial, Job!PeerKnown
  <2>2. boot \in BOOLEAN /\ c.proof \in BOOLEAN /\ platform.peer \in BOOLEAN
    BY DEF JobInv, Job!TypeOK, Job!Conns, Job!TransportAssumption, Job!Platform
  <2>3. Job!TypeOK'  BY <1>0, <2>1 DEF JobInv, Job!TypeOK, Job!procs, Job!hostVars, Job!sess
  <2>4. JobConns'
    BY <1>0, <2>1, <2>2 DEF JobInv, JobConns, Job!procs, Job!hostVars
  <2>5. JobEnds'  BY <1>0, <2>1, JobEndsKept DEF Job!sess
  <2>6. JobTree' /\ JobSession'
    BY <1>0, JobProcsKept, JobSessionKept
    DEF JobInv, JobTree, JobSession, Job!procs, Job!hostVars, Job!sess
  <2> QED  BY <2>3, <2>4, <2>5, <2>6 DEF JobInv
<1>2. CASE Job!Accept
  <2>1. PICK c \in dialled :
          /\ dialled' \subseteq dialled
          /\ \/ admitted' = admitted
             \/ admitted' = admitted \cup {c} /\ (~platform.peer \/ c.from = Worker)
          /\ listener' \in {"closed", "open"}
    BY <1>2 DEF Job!Accept, Job!PeerKnown
  <2>2. platform.peer \in BOOLEAN
    BY DEF JobInv, Job!TypeOK, Job!TransportAssumption, Job!Platform
  <2>3. Job!TypeOK'  BY <1>0, <2>1 DEF JobInv, Job!TypeOK, Job!procs, Job!hostVars, Job!sess
  <2>4. JobConns'
    BY <1>0, <2>1, <2>2 DEF JobInv, JobConns, Job!procs, Job!hostVars
  <2>5. JobEnds'  BY <1>0, <2>1 DEF JobInv, JobEnds, Job!sess
  <2>6. JobTree' /\ JobSession'
    BY <1>0, JobProcsKept, JobSessionKept
    DEF JobInv, JobTree, JobSession, Job!procs, Job!hostVars, Job!sess
  <2> QED  BY <2>3, <2>4, <2>5, <2>6 DEF JobInv
<1> QED  BY <1>1, <1>2

\* The session: authorized once, with the proof, which only the worker can bring this far.
LEMMA JobServes ==
  ASSUME Job!TransportAssumption, JobInv, Job!Authorize \/ Job!Hello \/ Job!DriveEnds
  PROVE  JobInv'
<1>0. /\ UNCHANGED <<jobPc, Job!procs, Job!conns, Job!hostVars>>
  BY DEF Job!Authorize, Job!Hello, Job!DriveEnds
<1>1. JobTree' /\ JobConns'
  BY <1>0, JobProcsKept, JobConnsKept
  DEF JobInv, JobTree, Job!procs, Job!conns, Job!hostVars
<1>2. CASE Job!Authorize
  <2>1. CASE UNCHANGED <<jobUsed, session, jobBy>>
    <3>1. UNCHANGED Job!sess  BY <1>2, <2>1 DEF Job!Authorize, Job!sess
    <3>2. Job!TypeOK'
      BY <1>0, <3>1 DEF JobInv, Job!TypeOK, Job!procs, Job!conns, Job!hostVars, Job!sess
    <3>3. JobSession' /\ JobEnds'
      BY <1>0, <3>1 DEF JobInv, JobSession, JobEnds, Job!conns, Job!hostVars, Job!sess
    <3> QED  BY <1>1, <3>2, <3>3 DEF JobInv
  <2>2. CASE ~UNCHANGED <<jobUsed, session, jobBy>>
    <3>1. PICK c \in admitted : /\ c.proof /\ ~jobUsed /\ jobUsed' = TRUE
                                /\ session' = "hello" /\ jobBy' = jobBy \cup {c.from}
                                /\ UNCHANGED <<nilSeen, jobDone>>
      BY <1>2, <2>2 DEF Job!Authorize
    <3>2. c \in Job!Conns  BY <3>1 DEF JobInv, Job!TypeOK
    <3>3. c.proof = TRUE /\ platform.peer \in BOOLEAN /\ jobUsed \in BOOLEAN
      BY <3>1, <3>2 DEF JobInv, Job!TypeOK, Job!TransportAssumption, Job!Platform, Job!Conns
    <3>4. c.from = Worker /\ live = TRUE  BY <3>1, <3>3 DEF JobInv, JobConns
    <3>5. Job!TypeOK'
      BY <1>0, <3>1, <3>4 DEF JobInv, Job!TypeOK, Job!procs, Job!conns, Job!hostVars
    <3>6. session = "none"  BY <3>1, <3>3 DEF JobInv, Job!TypeOK, JobSession
    <3>7. JobSession'  BY <1>0, <3>1, <3>4, <3>6 DEF JobInv, JobSession, Job!hostVars
    <3>8. JobEnds'  BY <1>0, <3>1 DEF JobInv, JobEnds, Job!conns
    <3> QED  BY <1>1, <3>5, <3>7, <3>8 DEF JobInv
  <2> QED  BY <2>1, <2>2
<1>3. CASE Job!Hello \/ Job!DriveEnds
  <2>0. live \in BOOLEAN  BY DEF JobInv, Job!TypeOK
  <2>1. /\ UNCHANGED <<jobUsed, jobBy>> /\ session \in {"hello", "driving"}
        /\ \/ session' = "driving" /\ jobDone' = jobDone /\ nilSeen' = ~live
           \/ session' = "ended" /\ jobDone' \in {"ok", "err"} /\ nilSeen' = nilSeen
    BY <1>3 DEF Job!Hello, Job!DriveEnds
  <2>2. live = TRUE /\ jobDone = "empty"
    BY <2>0, <2>1 DEF JobInv, JobSession
  <2>3. Job!TypeOK'
    BY <1>0, <2>1, <2>2 DEF JobInv, Job!TypeOK, Job!procs, Job!conns, Job!hostVars
  <2>4. JobSession'  BY <1>0, <2>1, <2>2 DEF JobInv, JobSession, Job!hostVars
  <2>5. JobEnds'  BY <1>0, <2>1 DEF JobInv, JobEnds, Job!conns
  <2> QED  BY <1>1, <2>3, <2>4, <2>5 DEF JobInv
<1> QED  BY <1>2, <1>3

\* The worker and what it starts: processes begin in the tree, leave it where the platform
\* lets them, end and are reaped.
LEMMA JobProcesses ==
  ASSUME Job!TransportAssumption, JobInv,
         Job!Fork \/ Job!KidLeaves \/ Job!ProcessEnds \/ Job!Reap
  PROVE  JobInv'
<1>0. UNCHANGED <<platform, jobPc, attached, Job!conns, Job!hostVars, Job!sess>>
  BY DEF Job!Fork, Job!KidLeaves, Job!ProcessEnds, Job!Reap
<1>1. attached \in BOOLEAN /\ platform.leave \in BOOLEAN
  BY DEF JobInv, Job!TypeOK, Job!TransportAssumption, Job!Platform
<1>2. /\ jobWorker' \in {jobWorker, "dead"} /\ (jobWorker' # jobWorker => jobWorker = "running")
      /\ exited' = exited \/ (exited' = TRUE /\ jobWorker' = "dead")
      /\ \/ kid' = kid
         \/ \E k \in Kids : /\ kid[k] # "none" /\ kid' = [kid EXCEPT ![k] = "dead"]
         \/ \E k \in Kids : /\ platform.leave /\ kid[k] = "in"
                            /\ kid' = [kid EXCEPT ![k] = "out"]
         \/ \E k \in Kids : /\ jobWorker = "running" /\ attached
                            /\ \/ kid' = [kid EXCEPT ![k] = "in"]
                               \/ kid' = [kid EXCEPT ![k] = "quiet"]
  <2>1. CASE Job!Fork
    <3>1. attached  BY <1>1, <2>1 DEF JobInv, JobTree, Job!Fork
    <3> QED  BY <2>1, <3>1 DEF Job!Fork
  <2>2. CASE Job!KidLeaves  BY <2>2 DEF Job!KidLeaves, Job!KidsMayLeave
  <2>3. CASE Job!ProcessEnds  BY <2>3 DEF Job!ProcessEnds
  <2>4. CASE Job!Reap  BY <2>4 DEF Job!Reap
  <2> QED  BY <2>1, <2>2, <2>3, <2>4
<1>3. Job!TypeOK'
  <2>1. /\ jobWorker' \in {"none", "suspended", "running", "dead"} /\ exited' \in BOOLEAN
        /\ exited' => jobWorker' = "dead"
    <3>1. exited \in BOOLEAN /\ (exited => jobWorker = "dead")
          /\ jobWorker \in {"none", "suspended", "running", "dead"}
      BY DEF JobInv, Job!TypeOK
    <3>2. CASE exited' = exited  BY <1>2, <3>1, <3>2
    <3>3. CASE exited' = TRUE /\ jobWorker' = "dead"  BY <3>3
    <3> QED  BY <1>2, <3>2, <3>3
  <2>2. kid' \in [Kids -> {"none", "in", "out", "quiet", "dead"}]
    BY <1>2 DEF JobInv, Job!TypeOK
  <2> QED  BY <1>0, <2>1, <2>2 DEF JobInv, Job!TypeOK, Job!conns, Job!hostVars, Job!sess
<1>4. JobTree'
  BY <1>0, <1>1, <1>2 DEF JobInv, Job!TypeOK, JobTree, JobTreeDead
<1>5. JobConns' /\ JobSession' /\ JobEnds'
  BY <1>0, JobConnsKept, JobSessionKept, JobEndsKept
  DEF JobInv, JobSession, Job!conns, Job!hostVars, Job!sess
<1> QED  BY <1>3, <1>4, <1>5 DEF JobInv

\* The invariant is inductive.
LEMMA JobNext ==
  ASSUME Job!TransportAssumption, JobInv, [Job!Next]_jobVars
  PROVE  JobInv'
<1>1. CASE UNCHANGED jobVars \/ Job!Done
  BY <1>1 DEF jobVars, Job!Done, Job!vars, JobInv, Job!TypeOK, JobTree, JobTreeDead,
              JobConns, JobSession, JobEnds
<1>2. CASE Job!Next /\ ~Job!Done
  BY <1>2, JobBegins, JobKills, JobWaits, JobStops, JobDials, JobServes, JobProcesses
  DEF Job!Next, Job!Host, Job!Server
<1> QED  BY <1>1, <1>2

\* What the invariant says of a job.
LEMMA JobHonest ==
  ASSUME Job!TransportAssumption, JobInv
  PROVE  /\ Job!TypeOK /\ Job!OnlyTheWorkerDrives
         /\ Job!NoOrphans /\ Job!ResultsSettled
<1>1. platform.leave \in BOOLEAN /\ nilSeen \in BOOLEAN /\ jobEndpoint \in BOOLEAN
  BY DEF JobInv, Job!TypeOK, Job!TransportAssumption, Job!Platform
<1>2. Job!OnlyTheWorkerDrives  BY <1>1 DEF JobInv, JobSession, Job!OnlyTheWorkerDrives
<1>3. Job!NoOrphans
  BY <1>1 DEF JobInv, JobTree, JobTreeDead, JobEnds, Job!NoOrphans, Job!Alive, Job!KidsMayLeave
<1>4. Job!ResultsSettled  BY DEF JobInv, JobSession, JobEnds, Job!ResultsSettled
<1> QED  BY <1>2, <1>3, <1>4 DEF JobInv

-----------------------------------------------------------------------------
(* Proofs: the listeners hand out the worker's connection, and close the rest once *)

\* A half is held by run or by Accept, and Accept keeps only the worker's.
PipePairing ==
    /\ state \in [Pipes!Conns -> {"new", "held", "closed", "handed"}]
    /\ runner \in Pipes!Conns \cup {NoConn} /\ up \in Pipes!Conns \cup {NoConn}
    /\ \A c \in Pipes!Conns : state[c] = "held" => c = runner \/ c = up
    /\ runner # NoConn => running = TRUE
    /\ up # NoConn => acc = "wait" /\ up \in Own
    /\ running \in BOOLEAN /\ \A c \in Foreign : state[c] # "handed"

\* One Accept at most has the instance, none once the connection is handed out, and the
\* one that is about to hand it out has the worker's.
PipeHolder ==
    /\ client \in Pipes!Conns \cup {NoConn}
    /\ apc \in [Two -> {"idle", "connect", "check", "handing", "finish", "parked", "done"}]
    /\ \A a, b \in Two : apc[a] \in Pipes!Holding /\ apc[b] \in Pipes!Holding => a = b
    /\ accepting \in BOOLEAN /\ pipeUsed \in BOOLEAN
    /\ \A a \in Two : apc[a] \in Pipes!Holding => accepting = TRUE /\ pipeUsed = FALSE
    /\ \A a \in Two : apc[a] = "handing" => client \in Own
    /\ pipeUsed = TRUE => client \in Own /\ accepting = FALSE

\* The handle is closed once, by the one that has it.
PipeHandle ==
    /\ handle \in {"open", "closed"} /\ gate \in BOOLEAN /\ badUse = FALSE
    /\ closes = (IF handle = "closed" THEN 1 ELSE 0)
    /\ accepting = TRUE => handle = "open"
    /\ gate = TRUE /\ pipeUsed = FALSE /\ accepting = FALSE => handle = "closed"
    /\ gate = FALSE /\ pipeUsed = FALSE => handle = "open"

\* The inductive invariant of the listeners.
PipeInv == PipePairing /\ PipeHolder /\ PipeHandle

LEMMA PipeInit == ASSUME Pipes!PipeAssumption, Pipes!Init PROVE PipeInv
<1>1. PipePairing
  BY DEF Pipes!PipeAssumption, Pipes!Init, PipePairing, Pipes!Conns
<1>2. PipeHolder  BY DEF Pipes!Init, PipeHolder, Pipes!Holding
<1>3. PipeHandle  BY DEF Pipes!Init, PipeHandle
<1> QED  BY <1>1, <1>2, <1>3 DEF PipeInv

\* pairListener: run, Accept, the timer and Close touch the halves only.
LEMMA PipePairs ==
  ASSUME Pipes!PipeAssumption, PipeInv, Pipes!SetExpected \/ Pipes!Pairing
  PROVE  PipeInv'
<1>0. UNCHANGED Pipes!pipeVars
  BY DEF Pipes!SetExpected, Pipes!Pairing, Pipes!RunAccepts, Pipes!RunGivesUp, Pipes!Deliver,
         Pipes!PairTimeout, Pipes!AcceptFails, Pipes!ClosePairing
<1>1. PipeHolder' /\ PipeHandle'
  BY <1>0 DEF PipeInv, PipeHolder, PipeHandle, Pipes!pipeVars
<1>2. CASE Pipes!SetExpected \/ Pipes!ClosePairing
  BY <1>1, <1>2 DEF PipeInv, PipePairing, Pipes!SetExpected, Pipes!ClosePairing
<1>3. CASE Pipes!RunAccepts
  BY <1>1, <1>3 DEF PipeInv, PipePairing, Pipes!RunAccepts, Pipes!Conns, Pipes!PipeAssumption
<1>4. CASE Pipes!RunGivesUp
  BY <1>1, <1>4 DEF PipeInv, PipePairing, Pipes!RunGivesUp, Pipes!Conns, Pipes!PipeAssumption
<1>5. CASE Pipes!Deliver
  <2>1. runner \in Pipes!Conns /\ runner' = NoConn /\ acc = "wait" /\ running' = running
    BY <1>5 DEF PipeInv, PipePairing, Pipes!Deliver
  <2>2. CASE ~Pipes!FromPeer(runner)
    BY <1>1, <1>5, <2>1, <2>2
    DEF PipeInv, PipePairing, Pipes!Deliver, Pipes!Conns, Pipes!PipeAssumption
  <2>3. CASE Pipes!FromPeer(runner) /\ up = NoConn
    BY <1>1, <1>5, <2>1, <2>3
    DEF PipeInv, PipePairing, Pipes!Deliver, Pipes!Conns, Pipes!PipeAssumption, Pipes!FromPeer
  <2>4. CASE Pipes!FromPeer(runner) /\ up # NoConn
    <3>1. /\ state' = [state EXCEPT ![runner] = "handed", ![up] = "handed"]
          /\ up' = NoConn /\ runner \in Own /\ up \in Own /\ up \in Pipes!Conns
      BY <1>5, <2>4 DEF PipeInv, PipePairing, Pipes!Deliver, Pipes!FromPeer
    <3>2. /\ state' \in [Pipes!Conns -> {"new", "held", "closed", "handed"}]
          /\ \A c \in Pipes!Conns : state'[c] # "held"
          /\ \A c \in Foreign : state'[c] # "handed"
      BY <2>1, <3>1 DEF PipeInv, PipePairing, Pipes!Conns, Pipes!PipeAssumption
    <3> QED
      BY <1>1, <2>1, <3>1, <3>2 DEF PipeInv, PipePairing, Pipes!Conns
  <2> QED  BY <2>2, <2>3, <2>4
<1>6. CASE Pipes!PairTimeout
  BY <1>1, <1>6 DEF PipeInv, PipePairing, Pipes!PairTimeout, Pipes!Conns, Pipes!PipeAssumption
<1>7. CASE Pipes!AcceptFails
  BY <1>1, <1>7 DEF PipeInv, PipePairing, Pipes!AcceptFails, Pipes!Conns, Pipes!PipeAssumption
<1> QED  BY <1>2, <1>3, <1>4, <1>5, <1>6, <1>7 DEF Pipes!Pairing

LEMMA PipePairingKept ==
  ASSUME PipeInv, UNCHANGED Pipes!pairVars
  PROVE  PipePairing'
BY DEF PipeInv, PipePairing, Pipes!pairVars

\* A call of the single pipe's Accept, step by step.
LEMMA PipeAccepts ==
  ASSUME Pipes!PipeAssumption, PipeInv, NEW a \in Two, Pipes!Acceptor(a)
  PROVE  PipeInv'
<1>0. UNCHANGED Pipes!pairVars
  BY DEF Pipes!Acceptor, Pipes!AcceptStarts, Pipes!Connect, Pipes!Check, Pipes!AcceptEnds,
         Pipes!Parked
<1>1. PipePairing'  BY <1>0, PipePairingKept
<1>2. CASE Pipes!AcceptStarts(a)
  <2>1. CASE gate \/ pipeUsed \/ accepting
    BY <1>1, <1>2, <2>1
    DEF PipeInv, PipeHolder, PipeHandle, Pipes!AcceptStarts, Pipes!Goto, Pipes!Holding
  <2>2. CASE ~(gate \/ pipeUsed \/ accepting)
    <3>1. gate = FALSE /\ pipeUsed = FALSE /\ accepting = FALSE
      BY <2>2 DEF PipeInv, PipeHolder, PipeHandle
    <3>2. PipeHolder'
      BY <1>2, <2>2, <3>1 DEF PipeInv, PipeHolder, Pipes!AcceptStarts, Pipes!Goto, Pipes!Holding
    <3>3. PipeHandle'
      BY <1>2, <2>2, <3>1 DEF PipeInv, PipeHandle, Pipes!AcceptStarts
    <3> QED  BY <1>1, <3>2, <3>3 DEF PipeInv
  <2> QED  BY <2>1, <2>2
<1>3. CASE Pipes!Connect(a)
  <2>1. handle = "open"
    BY <1>3 DEF PipeInv, PipeHolder, PipeHandle, Pipes!Connect, Pipes!Holding
  <2>2. PipeHolder'
    BY <1>3 DEF PipeInv, PipeHolder, Pipes!Connect, Pipes!Goto, Pipes!Holding
  <2>3. PipeHandle'
    BY <1>3, <2>1 DEF PipeInv, PipeHandle, Pipes!Connect, Pipes!Used
  <2> QED  BY <1>1, <2>2, <2>3 DEF PipeInv
<1>4. CASE Pipes!Check(a)
  <2>1. handle = "open"
    BY <1>4 DEF PipeInv, PipeHolder, PipeHandle, Pipes!Check, Pipes!Holding
  <2>2. PipeHolder'
    <3>1. /\ apc[a] = "check" /\ UNCHANGED <<accepting, pipeUsed>>
          /\ \/ /\ client' = client /\ client \in Own
                /\ \/ apc' = [apc EXCEPT ![a] = "handing"]
                   \/ apc' = [apc EXCEPT ![a] = "finish"]
             \/ /\ client' = NoConn
                /\ \/ apc' = [apc EXCEPT ![a] = "connect"]
                   \/ apc' = [apc EXCEPT ![a] = "finish"]
      BY <1>4 DEF Pipes!Check, Pipes!Goto, Pipes!FromPeer
    <3>2. /\ apc' \in [Two -> {"idle", "connect", "check", "handing", "finish", "parked", "done"}]
          /\ apc'[a] \in Pipes!Holding /\ (apc'[a] = "handing" => client' \in Own)
          /\ \A b \in Two \ {a} : apc'[b] = apc[b] /\ apc[b] \notin Pipes!Holding
          /\ client' \in Pipes!Conns \cup {NoConn}
          /\ accepting = TRUE /\ pipeUsed = FALSE
      BY <3>1 DEF PipeInv, PipeHolder, Pipes!Holding
    <3> QED  BY <3>1, <3>2 DEF PipeInv, PipeHolder, Pipes!Holding
  <2>3. PipeHandle'
    BY <1>4, <2>1 DEF PipeInv, PipeHandle, Pipes!Check, Pipes!Used
  <2> QED  BY <1>1, <2>2, <2>3 DEF PipeInv
<1>5. CASE Pipes!AcceptEnds(a)
  <2>1. /\ apc[a] \in {"handing", "finish"} /\ accepting = TRUE /\ pipeUsed = FALSE
        /\ handle = "open" /\ closes = 0
    BY <1>5 DEF PipeInv, PipeHolder, PipeHandle, Pipes!AcceptEnds, Pipes!Holding
  <2>2. /\ accepting' = FALSE /\ pipeUsed' = (apc[a] = "handing") /\ pipeUsed' \in BOOLEAN
        /\ apc' = [apc EXCEPT ![a] = "done"] /\ UNCHANGED <<client, badUse, gate>>
    BY <1>5, <2>1 DEF Pipes!AcceptEnds, Pipes!Goto
  <2>3. PipeHolder'
    BY <2>1, <2>2 DEF PipeInv, PipeHolder, Pipes!Holding
  <2>4. CASE apc[a] = "finish" /\ gate
    BY <1>1, <1>5, <2>1, <2>2, <2>3, <2>4
    DEF PipeInv, PipeHandle, Pipes!AcceptEnds, Pipes!CloseHandle
  <2>5. CASE ~(apc[a] = "finish" /\ gate)
    <3>1. UNCHANGED <<handle, closes>>  BY <1>5, <2>5 DEF Pipes!AcceptEnds
    <3> QED  BY <1>1, <2>1, <2>2, <2>3, <2>5, <3>1 DEF PipeInv, PipeHandle
  <2> QED  BY <2>4, <2>5
<1>6. CASE Pipes!Parked(a)
  BY <1>1, <1>6
  DEF PipeInv, PipeHolder, PipeHandle, Pipes!Parked, Pipes!Goto, Pipes!Holding
<1> QED  BY <1>2, <1>3, <1>4, <1>5, <1>6 DEF Pipes!Acceptor

\* Close, the end of the connection and clients that come.
LEMMA PipeCloses ==
  ASSUME Pipes!PipeAssumption, PipeInv, Pipes!Close \/ Pipes!ConnCloses \/ Pipes!ClientComes
  PROVE  PipeInv'
<1>0. UNCHANGED Pipes!pairVars  BY DEF Pipes!Close, Pipes!ConnCloses, Pipes!ClientComes
<1>1. PipePairing'  BY <1>0, PipePairingKept
<1>2. CASE Pipes!Close
  <2>1. PipeHolder'  BY <1>2 DEF PipeInv, PipeHolder, Pipes!Close
  <2>2. PipeHandle'
    <3>1. accepting \in BOOLEAN /\ pipeUsed \in BOOLEAN /\ gate = FALSE /\ gate' = TRUE
      BY <1>2 DEF PipeInv, PipeHolder, PipeHandle, Pipes!Close
    <3> QED
      BY <1>2, <3>1 DEF PipeInv, PipeHandle, Pipes!Close, Pipes!CloseHandle
  <2> QED  BY <1>1, <2>1, <2>2 DEF PipeInv
<1>3. CASE Pipes!ConnCloses
  BY <1>1, <1>3
  DEF PipeInv, PipeHolder, PipeHandle, Pipes!ConnCloses, Pipes!CloseHandle
<1>4. CASE Pipes!ClientComes
  <2>1. \A a \in Two : apc[a] # "handing"
    BY <1>4 DEF PipeInv, PipeHolder, Pipes!ClientComes, Pipes!PipeAssumption
  <2>2. PipeHolder'
    BY <1>4, <2>1 DEF PipeInv, PipeHolder, Pipes!ClientComes
  <2>3. PipeHandle'  BY <1>4 DEF PipeInv, PipeHandle, Pipes!ClientComes
  <2> QED  BY <1>1, <2>2, <2>3 DEF PipeInv
<1> QED  BY <1>2, <1>3, <1>4

\* The invariant is inductive.
LEMMA PipeNext ==
  ASSUME Pipes!PipeAssumption, PipeInv, [Pipes!Next]_pipeVars
  PROVE  PipeInv'
<1>1. CASE UNCHANGED pipeVars
  BY <1>1 DEF pipeVars, PipeInv, PipePairing, PipeHolder, PipeHandle
<1>2. CASE Pipes!Next
  BY <1>2, PipePairs, PipeAccepts, PipeCloses DEF Pipes!Next, Pipes!SinglePipe
<1> QED  BY <1>1, <1>2

\* What the invariant says of the listeners.
LEMMA PipeHonest ==
  ASSUME Pipes!PipeAssumption, PipeInv
  PROVE  /\ Pipes!TypeOK /\ Pipes!NoHalfLeaked
         /\ Pipes!OnlyExpectedHanded /\ Pipes!HandleClosedOnce
<1>1. Pipes!TypeOK  BY DEF PipeInv, PipePairing, PipeHolder, Pipes!TypeOK
<1>2. Pipes!NoHalfLeaked
  BY DEF PipeInv, PipePairing, Pipes!NoHalfLeaked, Pipes!Conns, Pipes!PipeAssumption
<1>3. Pipes!OnlyExpectedHanded
  BY DEF PipeInv, PipePairing, PipeHolder, Pipes!OnlyExpectedHanded
<1>4. Pipes!HandleClosedOnce
  BY DEF PipeInv, PipeHolder, PipeHandle, Pipes!HandleClosedOnce
<1> QED  BY <1>1, <1>2, <1>3, <1>4

-----------------------------------------------------------------------------
(* Proofs: the evidence of the transports is complete and never hides a failure *)

LEMMA EvidencePlaces ==
  /\ Len(Evidence!PerTransport) = 17 /\ Len(Evidence!PerOS) = 6
  /\ \A n \in 1..17 : Evidence!PerTransport[n] \notin {"none", "handshake"}
  /\ \A n \in 1..17, m \in 1..6 : Evidence!PerTransport[n] # Evidence!PerOS[m]
<1>1. Len(Evidence!PerTransport) = 17 /\ Len(Evidence!PerOS) = 6
  BY DEF Evidence!PerTransport, Evidence!PerOS
<1>2. \A n \in 1..17 :
        Evidence!PerTransport[n] \in
            {"duplex", "backpressure", "noise", "bad-credential", "replay", "impersonate",
             "kill", "cancel", "cancel-backpressure", "oversize", "concurrent",
             "connect-flood", "connect-repeat", "tree-kill", "crash", "oom",
             "second-instance"}
  BY DEF Evidence!PerTransport
<1>3. \A m \in 1..6 :
        Evidence!PerOS[m] \in {"bootstrap", "handshake-timeout", "missing-jvm", "squat",
                               "detector-self-check", "bridge-selftest"}
  BY DEF Evidence!PerOS
<1> QED  BY <1>1, <1>2, <1>3

\* fail and block make a status of a status.
LEMMA EvidenceCalls ==
  ASSUME NEW st \in Evidence!Statuses, NEW F
  PROVE  /\ Evidence!Absorb(st, F) \in Evidence!Statuses
         /\ Evidence!CommonChecks(st, F) \in Evidence!Statuses
         /\ Evidence!CancelRun(st, F) \in Evidence!Statuses
         /\ Evidence!ReplayRun(st, F) \in Evidence!Statuses
BY DEF Evidence!Statuses, Evidence!Fail, Evidence!Block, Evidence!Absorb,
       Evidence!CommonChecks, Evidence!CancelRun, Evidence!ReplayRun

\* absorb and commonChecks keep a FAIL and record theirs.
LEMMA EvidenceKept ==
  ASSUME NEW st \in Evidence!Statuses, NEW F
  PROVE  /\ Evidence!Absorb("FAIL", F) = "FAIL"
         /\ Evidence!CommonChecks("FAIL", F) = "FAIL"
         /\ Evidence!CancelRun("FAIL", F) = "FAIL"
         /\ (F \cap {"launch", "silent", "drive", "uncaught"} # {}) =>
                Evidence!Absorb(st, F) = "FAIL"
         /\ (F \cap {"leaked", "tcp", "env"} # {}) => Evidence!CommonChecks(st, F) = "FAIL"
         /\ (F \cap {"leakUnrun", "tcpUnrun"} # {}) => Evidence!CommonChecks(st, F) # "PASS"
         /\ (st # "PASS" => Evidence!CommonChecks(st, F) # "PASS")
         /\ (st # "PASS" => Evidence!CancelRun(st, F) # "PASS")
         /\ ("leftUnknown" \in F => Evidence!CancelRun(st, F) # "PASS")
         /\ Evidence!NoSession(F) => Evidence!Absorb(st, F) = "FAIL" /\ Evidence!CancelRun(st, F) = "FAIL"
BY DEF Evidence!Statuses, Evidence!Fail, Evidence!Block, Evidence!Absorb,
       Evidence!CommonChecks, Evidence!CancelRun, Evidence!NoSession

\* The names of the scenarios main runs, in the order of Evidence!Scenario.
EvidenceNames ==
    {"duplex", "backpressure", "noise", "bad-credential", "replay", "impersonate", "kill",
     "cancel", "cancel-backpressure", "oversize", "concurrent", "connect-flood",
     "connect-repeat", "tree-kill", "crash", "oom", "second-instance", "bootstrap",
     "handshake-timeout", "missing-jvm", "squat", "detector-self-check", "bridge-selftest"}

LEMMA EvidenceNamed == \A n \in 1..23 : Evidence!Scenario(n) \in EvidenceNames
<1> SUFFICES ASSUME NEW n \in 1..23 PROVE Evidence!Scenario(n) \in EvidenceNames
  OBVIOUS
<1>1. CASE n <= 17
  <2>1. n \in 1..17 /\ Evidence!Scenario(n) = Evidence!PerTransport[n]
    BY <1>1, EvidencePlaces DEF Evidence!Scenario
  <2> QED  BY <2>1 DEF Evidence!PerTransport, EvidenceNames
<1>2. CASE n > 17
  <2>1. n - 17 \in 1..6 /\ Evidence!Scenario(n) = Evidence!PerOS[n - 17]
    BY <1>2, EvidencePlaces DEF Evidence!Scenario
  <2>2. \A m \in 1..6 : Evidence!PerOS[m] \in EvidenceNames
    BY DEF Evidence!PerOS, EvidenceNames
  <2> QED  BY <2>1, <2>2
<1> QED  BY <1>1, <1>2

\* Whatever went wrong, a scenario ends with a status.
LEMMA EvidenceJudged ==
  ASSUME NEW s \in EvidenceNames, NEW F, NEW G
  PROVE  Evidence!Judge(s, F, G) \in Evidence!Statuses /\ Evidence!Handshake(F) \in Evidence!Statuses
<1> USE DEF Evidence!Fail, Evidence!Block
<1>0. "PASS" \in Evidence!Statuses  BY DEF Evidence!Statuses
<1>1. PICK a \in Evidence!Statuses : a = Evidence!Absorb("PASS", F)  BY <1>0, EvidenceCalls
<1>2. /\ Evidence!Handshake(F) \in Evidence!Statuses
      /\ Evidence!Duplex(F) \in Evidence!Statuses
      /\ Evidence!Backpressure(F) \in Evidence!Statuses
  <2>1. \A st \in Evidence!Statuses : Evidence!CommonChecks(st, F) \in Evidence!Statuses
    BY EvidenceCalls
  <2> QED
    BY <1>1, <2>1 DEF Evidence!Statuses, Evidence!Handshake, Evidence!Duplex, Evidence!Backpressure
<1>3. /\ Evidence!Noise(F) \in Evidence!Statuses /\ Evidence!BadCredential(F) \in Evidence!Statuses
      /\ Evidence!Impersonate(F) \in Evidence!Statuses /\ Evidence!Kill(F) \in Evidence!Statuses
      /\ Evidence!Oversize(F) \in Evidence!Statuses /\ Evidence!OOM(F) \in Evidence!Statuses
      /\ Evidence!ConnectFlood(F) \in Evidence!Statuses
      /\ Evidence!TreeKill(F) \in Evidence!Statuses /\ Evidence!Crash(F) \in Evidence!Statuses
  BY <1>1 DEF Evidence!Statuses, Evidence!Noise, Evidence!BadCredential, Evidence!Impersonate,
              Evidence!Kill, Evidence!Oversize, Evidence!OOM, Evidence!ConnectFlood,
              Evidence!TreeKill, Evidence!Crash
<1>4. /\ Evidence!Cancel(F, G) \in Evidence!Statuses /\ Evidence!Replay(F, G) \in Evidence!Statuses
  <2>1. \A st \in Evidence!Statuses, H \in {F, G} :
          /\ Evidence!CancelRun(st, H) \in Evidence!Statuses
          /\ Evidence!ReplayRun(st, H) \in Evidence!Statuses
    BY EvidenceCalls
  <2> QED  BY <1>0, <2>1 DEF Evidence!Cancel, Evidence!Replay
<1>5. /\ Evidence!Concurrent(F, G) \in Evidence!Statuses
      /\ Evidence!ConnectRepeat(F, G) \in Evidence!Statuses
      /\ Evidence!SecondInstance(F) \in Evidence!Statuses
      /\ Evidence!Bootstrap(F) \in Evidence!Statuses
      /\ Evidence!HandshakeTimeout(F) \in Evidence!Statuses
      /\ Evidence!MissingJVM(F) \in Evidence!Statuses /\ Evidence!Squat(F) \in Evidence!Statuses
      /\ Evidence!SelfCheck(F) \in Evidence!Statuses
      /\ Evidence!BridgeSelfTest(F) \in Evidence!Statuses
  BY DEF Evidence!Statuses, Evidence!Concurrent, Evidence!ConcurrentRun, Evidence!ConnectRepeat,
         Evidence!SecondInstance, Evidence!Bootstrap, Evidence!HandshakeTimeout,
         Evidence!MissingJVM, Evidence!Squat, Evidence!SelfCheck, Evidence!BridgeSelfTest
<1> QED  BY <1>2, <1>3, <1>4, <1>5 DEF Evidence!Judge, EvidenceNames

\* The evidence of a scenario that ran: a failure stands, and a check that could not run
\* is not passed.
LEMMA EvidenceStands ==
  ASSUME NEW s \in EvidenceNames, NEW F, NEW G, NEW H, H = F \cup G
  PROVE  /\ (s \in {"duplex", "backpressure"} /\ G = {}
             /\ H \cap {"launch", "silent", "drive", "uncaught", "leaked", "tcp", "env"} # {})
               => Evidence!Judge(s, F, G) = "FAIL"
         /\ (s \in {"duplex", "backpressure", "detector-self-check"} /\ G = {}
             /\ Evidence!Judge(s, F, G) = "PASS") => H \cap {"leakUnrun", "tcpUnrun"} = {}
         /\ (s \in {"cancel", "cancel-backpressure"} /\ Evidence!Judge(s, F, G) = "PASS") =>
                "leftUnknown" \notin H
         /\ (s \in {"impersonate", "tree-kill", "crash", "second-instance",
                    "detector-self-check"} /\ G = {} /\ Evidence!Judge(s, F, G) = "PASS") =>
                "unrun" \notin H
<1> USE DEF Evidence!Fail, Evidence!Block
<1>0. "PASS" \in Evidence!Statuses  BY DEF Evidence!Statuses
<1>1. PICK a \in Evidence!Statuses : a = Evidence!Absorb("PASS", F)  BY <1>0, EvidenceCalls
<1>2. /\ (F \cap {"launch", "silent", "drive", "uncaught"} # {}) => a = "FAIL"
      /\ Evidence!NoSession(F) => a = "FAIL"
  BY <1>0, <1>1, EvidenceKept
<1>3. \A st \in Evidence!Statuses :
        /\ Evidence!CommonChecks("FAIL", F) = "FAIL"
        /\ (F \cap {"leaked", "tcp", "env"} # {}) => Evidence!CommonChecks(st, F) = "FAIL"
        /\ (F \cap {"leakUnrun", "tcpUnrun"} # {}) => Evidence!CommonChecks(st, F) # "PASS"
  BY EvidenceKept
<1>4. CASE s \in {"duplex", "backpressure"} /\ G = {}
  <2>1. PICK b \in Evidence!Statuses : b = IF "own" \in F THEN "FAIL" ELSE a
    BY <1>1 DEF Evidence!Statuses
  <2>2. \/ Evidence!Judge(s, F, G) = Evidence!CommonChecks(b, F)
        \/ (b = "FAIL" /\ Evidence!Judge(s, F, G) = "FAIL")
    BY <1>1, <1>2, <1>4, <2>1
    DEF Evidence!Judge, Evidence!Duplex, Evidence!Backpressure, EvidenceNames
  <2>3. H = F  BY <1>4
  <2> QED  BY <1>2, <1>3, <1>4, <2>1, <2>2, <2>3
<1>5. CASE s \in {"cancel", "cancel-backpressure"}
  <2>1. Evidence!Judge(s, F, G) = Evidence!Cancel(F, G)  BY <1>5 DEF Evidence!Judge
  <2>2. PICK b \in Evidence!Statuses : b = Evidence!CancelRun("PASS", F)
    BY <1>0, EvidenceCalls
  <2>3. /\ "leftUnknown" \in F => b # "PASS"
        /\ Evidence!NoSession(F) => b = "FAIL"
    BY <1>0, <2>2, EvidenceKept
  <2>4. /\ b # "PASS" => Evidence!CancelRun(b, G) # "PASS"
        /\ "leftUnknown" \in G => Evidence!CancelRun(b, G) # "PASS"
    BY EvidenceKept
  <2> QED  BY <1>5, <2>1, <2>2, <2>3, <2>4 DEF Evidence!Cancel
<1>6. CASE s \in {"impersonate", "tree-kill", "crash", "second-instance", "detector-self-check"}
           /\ G = {}
  <2>1. H = F  BY <1>6
  <2>2. Evidence!SelfCheck(F) = "PASS" => F \cap {"leakUnrun", "tcpUnrun", "unrun"} = {}
    BY DEF Evidence!SelfCheck
  <2>3. Evidence!SecondInstance(F) = "PASS" => "unrun" \notin F
    BY DEF Evidence!SecondInstance
  <2>4. /\ Evidence!Impersonate(F) = "PASS" => "unrun" \notin F
        /\ Evidence!TreeKill(F) = "PASS" => "unrun" \notin F
        /\ Evidence!Crash(F) = "PASS" => "unrun" \notin F
    BY <1>1, <1>2
    DEF Evidence!Impersonate, Evidence!TreeKill, Evidence!Crash, Evidence!NoSession
  <2> QED  BY <1>6, <2>1, <2>2, <2>3, <2>4 DEF Evidence!Judge
<1> QED  BY <1>4, <1>5, <1>6

\* What main has recorded of transport i when it has looked at the first n scenarios.
EvidenceUpto(i, n) ==
    {"handshake"} \cup
    {Evidence!Scenario(k) : k \in {m \in 1..n : Evidence!Want(i, Evidence!Scenario(m))}}

EvidenceTypes ==
    /\ evidenceT \in 0..Len(Transports) /\ evidenceAt \in 1..24
    /\ evidenceHs \in Evidence!Statuses \cup {"none"}
    /\ evidenceLast.status \in Evidence!Statuses /\ evidenceLast.faults \subseteq Evidence!Faults
    /\ evidenceAt <= Evidence!Steps(evidenceT) + 1

\* What is recorded of the transports that are done, of this one, and of the rest.
EvidenceRecorded ==
    /\ DOMAIN evidenceAll = 1..Len(Transports)
    /\ \A i \in 1..Len(Transports) :
         /\ evidenceT = 0 \/ i < evidenceT =>
                evidenceAll[i] = EvidenceUpto(i, Evidence!Steps(i))
         /\ evidenceT > 0 /\ i > evidenceT => evidenceAll[i] = {}
         /\ i = evidenceT /\ evidenceHs = "none" => evidenceAll[i] = {}
         /\ i = evidenceT /\ evidenceHs # "none" =>
                evidenceAll[i] = EvidenceUpto(i, evidenceAt - 1)

EvidenceSound ==
    Evidence!FailureStands /\ Evidence!UnrunNeverPasses /\ Evidence!GatedByHandshake

\* The inductive invariant of the report.
EvidenceInv == EvidenceTypes /\ EvidenceRecorded /\ EvidenceSound

LEMMA EvidenceSteps ==
  ASSUME Evidence!EvidenceAssumption
  PROVE  /\ Len(Transports) \in Nat /\ Len(Transports) > 0
         /\ \A i : Evidence!Steps(i) = IF i = 1 THEN 23 ELSE 17
<1>1. Len(Transports) \in Nat /\ Len(Transports) > 0  BY DEF Evidence!EvidenceAssumption
<1> QED  BY <1>1, EvidencePlaces DEF Evidence!Steps

LEMMA EvidenceInit == ASSUME Evidence!EvidenceAssumption, Evidence!Init PROVE EvidenceInv
<1>1. EvidenceTypes
  BY EvidenceSteps DEF Evidence!Init, Evidence!NoEvidence, EvidenceTypes, Evidence!Statuses
<1>2. EvidenceRecorded  BY EvidenceSteps DEF Evidence!Init, EvidenceRecorded
<1>3. EvidenceSound
  BY EvidencePlaces
  DEF Evidence!Init, Evidence!NoEvidence, EvidenceSound, Evidence!FailureStands,
      Evidence!UnrunNeverPasses, Evidence!GatedByHandshake
<1> QED  BY <1>1, <1>2, <1>3 DEF EvidenceInv

\* One more scenario looked at: recorded if it is wanted.
LEMMA EvidenceGrows ==
  ASSUME NEW i, NEW n \in 1..23
  PROVE  EvidenceUpto(i, n) =
           IF Evidence!Want(i, Evidence!Scenario(n))
           THEN EvidenceUpto(i, n - 1) \cup {Evidence!Scenario(n)}
           ELSE EvidenceUpto(i, n - 1)
<1>1. \A k : k \in 1..n <=> k \in 1..(n - 1) \/ k = n  OBVIOUS
<1> QED  BY <1>1 DEF EvidenceUpto

LEMMA EvidenceBefore == ASSUME NEW i PROVE EvidenceUpto(i, 0) = {"handshake"}
BY DEF EvidenceUpto

\* The handshake of a transport.
LEMMA EvidenceHandshake ==
  ASSUME Evidence!EvidenceAssumption, EvidenceInv, Evidence!RunHandshake
  PROVE  EvidenceInv'
<1>1. PICK F \in FaultSets : Evidence!Emit("handshake", F, TRUE, Evidence!Handshake(F))
                             /\ evidenceHs' = Evidence!Handshake(F)
  BY DEF Evidence!RunHandshake
<1>2. /\ evidenceLast'.scenario = "handshake" /\ evidenceLast'.faults = F
      /\ evidenceLast'.status = Evidence!Handshake(F) /\ evidenceHs' = Evidence!Handshake(F)
      /\ evidenceAll' = [evidenceAll EXCEPT ![evidenceT] = @ \cup {"handshake"}]
      /\ evidenceT > 0 /\ evidenceHs = "none" /\ evidenceAt' = 1 /\ evidenceT' = evidenceT
      /\ F \subseteq Evidence!Faults
  BY <1>1 DEF Evidence!RunHandshake, Evidence!Emit, Evidence!EvidenceAssumption
<1>3. Evidence!Handshake(F) \in Evidence!Statuses
  BY EvidenceJudged DEF EvidenceNames
<1>4. EvidenceTypes'
  BY <1>2, <1>3, EvidenceSteps DEF EvidenceInv, EvidenceTypes
<1>5. EvidenceRecorded'
  <2>1. evidenceT \in 1..Len(Transports)  BY <1>2, EvidenceSteps DEF EvidenceInv, EvidenceTypes
  <2>2. evidenceAll'[evidenceT] = EvidenceUpto(evidenceT, evidenceAt' - 1)
    <3>1. evidenceAll'[evidenceT] = {"handshake"}
      BY <1>2, <2>1 DEF EvidenceInv, EvidenceRecorded
    <3>2. evidenceAt' - 1 = 0  BY <1>2
    <3> QED  BY <3>1, <3>2, EvidenceBefore
  <2>3. evidenceHs' # "none"  BY <1>2, <1>3 DEF Evidence!Statuses
  <2> QED  BY <1>2, <2>1, <2>2, <2>3 DEF EvidenceInv, EvidenceRecorded
<1>6. EvidenceSound'
  <2>1. PICK a \in Evidence!Statuses : a = Evidence!Absorb("PASS", F)
    BY EvidenceCalls DEF Evidence!Statuses
  <2>2. (F \cap {"launch", "silent", "drive", "uncaught"} # {}) \/ Evidence!NoSession(F)
        => a = "FAIL"
    BY <2>1, EvidenceKept DEF Evidence!Statuses
  <2>3. PICK b \in Evidence!Statuses : b = IF a = "PASS" /\ "exit" \in F THEN "FAIL" ELSE a
    BY <2>1 DEF Evidence!Statuses
  <2>4. /\ Evidence!CommonChecks("FAIL", F) = "FAIL"
        /\ (F \cap {"leaked", "tcp", "env"} # {}) => Evidence!CommonChecks(b, F) = "FAIL"
        /\ (F \cap {"leakUnrun", "tcpUnrun"} # {}) => Evidence!CommonChecks(b, F) # "PASS"
    BY EvidenceKept
  <2>5. \/ Evidence!Handshake(F) = Evidence!CommonChecks(b, F)
        \/ b = "FAIL" /\ Evidence!Handshake(F) = "FAIL"
    BY <2>1, <2>2, <2>3 DEF Evidence!Handshake, Evidence!Fail
  <2>6. Evidence!FailureStands'
    BY <1>2, <2>2, <2>3, <2>4, <2>5 DEF Evidence!FailureStands
  <2>7. Evidence!UnrunNeverPasses'
    BY <1>2, <2>4, <2>5 DEF Evidence!UnrunNeverPasses
  <2>8. Evidence!GatedByHandshake'  BY <1>2, EvidencePlaces DEF Evidence!GatedByHandshake
  <2> QED  BY <2>6, <2>7, <2>8 DEF EvidenceSound
<1> QED  BY <1>4, <1>5, <1>6 DEF EvidenceInv

\* main goes to the next scenario, with or without evidence of this one.
LEMMA EvidenceGoesOn ==
  ASSUME Evidence!EvidenceAssumption, EvidenceInv, Evidence!Come,
         evidenceAt' = evidenceAt + 1, UNCHANGED <<evidenceT, evidenceHs>>,
         DOMAIN evidenceAll' = DOMAIN evidenceAll,
         \A i \in DOMAIN evidenceAll : i # evidenceT => evidenceAll'[i] = evidenceAll[i],
         evidenceAll'[evidenceT] =
             (IF Evidence!Want(evidenceT, Evidence!Scenario(evidenceAt))
              THEN evidenceAll[evidenceT] \cup {Evidence!Scenario(evidenceAt)}
              ELSE evidenceAll[evidenceT]),
         evidenceLast'.status \in Evidence!Statuses, evidenceLast'.faults \subseteq Evidence!Faults
  PROVE  EvidenceTypes' /\ EvidenceRecorded'
<1>1. /\ evidenceT \in 1..Len(Transports) /\ evidenceAt \in 1..23
      /\ evidenceAt <= Evidence!Steps(evidenceT) /\ evidenceHs # "none"
      /\ Evidence!Steps(evidenceT) \in {17, 23}
  BY EvidenceSteps DEF EvidenceInv, EvidenceTypes, Evidence!Come
<1>2. EvidenceTypes'  BY <1>1, EvidenceSteps DEF EvidenceInv, EvidenceTypes
<1>3. evidenceAll[evidenceT] = EvidenceUpto(evidenceT, evidenceAt - 1)
  BY <1>1 DEF EvidenceInv, EvidenceRecorded
<1>4. evidenceAll'[evidenceT] = EvidenceUpto(evidenceT, evidenceAt)
  BY <1>1, <1>3, EvidenceGrows
<1>5. evidenceAt' - 1 = evidenceAt  BY <1>1
<1>6. EvidenceRecorded'
  BY <1>1, <1>4, <1>5 DEF EvidenceInv, EvidenceRecorded
<1> QED  BY <1>2, <1>6

LEMMA EvidenceScenario ==
  ASSUME Evidence!EvidenceAssumption, EvidenceInv, Evidence!RunScenario
  PROVE  EvidenceInv'
<1>1. PICK s : s = Evidence!Scenario(evidenceAt)  OBVIOUS
<1>2. PICK F \in FaultSets \cup RunFaultSets, G \in RunFaultSets \cup {{}} :
        /\ Evidence!Emit(s, F \cup G, TRUE, Evidence!Judge(s, F, G))
        /\ s \notin Evidence!Repeated => G = {}
  BY <1>1 DEF Evidence!RunScenario
<1>3. /\ evidenceLast'.scenario = s /\ evidenceLast'.faults = F \cup G
      /\ evidenceLast'.status = Evidence!Judge(s, F, G)
      /\ evidenceAll' = [evidenceAll EXCEPT ![evidenceT] = @ \cup {s}]
      /\ F \cup G \subseteq Evidence!Faults
  BY <1>2 DEF Evidence!Emit, Evidence!EvidenceAssumption
<1>4. /\ Evidence!Come /\ Evidence!Want(evidenceT, s) /\ ~Evidence!Gated(evidenceAt)
      /\ evidenceAt' = evidenceAt + 1 /\ UNCHANGED <<evidenceT, evidenceHs>>
  BY <1>1 DEF Evidence!RunScenario
<1>5. evidenceAt \in 1..23
  <2>1. evidenceT > 0 /\ evidenceAt <= Evidence!Steps(evidenceT)  BY <1>4 DEF Evidence!Come
  <2>2. evidenceT \in 0..Len(Transports) /\ evidenceAt \in 1..24
    BY DEF EvidenceInv, EvidenceTypes
  <2>3. Evidence!Steps(evidenceT) \in 0..23  BY <2>1, <2>2, EvidenceSteps
  <2> QED  BY <2>1, <2>2, <2>3
<1>6. s \in EvidenceNames  BY <1>1, <1>5, EvidenceNamed
<1>7. EvidenceTypes' /\ EvidenceRecorded'
  <2>1. evidenceT \in DOMAIN evidenceAll
    BY <1>4, EvidenceSteps DEF EvidenceInv, EvidenceTypes, EvidenceRecorded, Evidence!Come
  <2>2. /\ DOMAIN evidenceAll' = DOMAIN evidenceAll
        /\ \A i \in DOMAIN evidenceAll : i # evidenceT => evidenceAll'[i] = evidenceAll[i]
        /\ evidenceAll'[evidenceT] = evidenceAll[evidenceT] \cup {s}
    BY <1>3, <2>1
  <2>3. Evidence!Judge(s, F, G) \in Evidence!Statuses  BY <1>6, EvidenceJudged
  <2> QED  BY <1>1, <1>3, <1>4, <2>2, <2>3, EvidenceGoesOn
<1>8. EvidenceSound'
  <2>1. PICK H : H = F \cup G  OBVIOUS
  <2>2. s \in {"duplex", "backpressure", "detector-self-check", "impersonate", "tree-kill",
               "crash", "second-instance"} => G = {}
    BY <1>2 DEF Evidence!Repeated
  <2>3. /\ (s \in {"duplex", "backpressure"} /\ G = {}
            /\ H \cap {"launch", "silent", "drive", "uncaught", "leaked", "tcp", "env"} # {})
              => Evidence!Judge(s, F, G) = "FAIL"
        /\ (s \in {"duplex", "backpressure", "detector-self-check"} /\ G = {}
            /\ Evidence!Judge(s, F, G) = "PASS") => H \cap {"leakUnrun", "tcpUnrun"} = {}
        /\ (s \in {"cancel", "cancel-backpressure"} /\ Evidence!Judge(s, F, G) = "PASS") =>
               "leftUnknown" \notin H
        /\ (s \in {"impersonate", "tree-kill", "crash", "second-instance",
                   "detector-self-check"} /\ G = {} /\ Evidence!Judge(s, F, G) = "PASS") =>
               "unrun" \notin H
    BY <1>6, <2>1, EvidenceStands
  <2>4. s # "handshake" /\ evidenceLast'.faults = H
    BY <1>3, <1>6, <2>1 DEF EvidenceNames
  <2>5. Evidence!FailureStands'
    BY <1>3, <2>2, <2>3, <2>4 DEF Evidence!FailureStands
  <2>6. Evidence!UnrunNeverPasses'
    BY <1>3, <2>2, <2>3, <2>4 DEF Evidence!UnrunNeverPasses
  <2>7. Evidence!GatedByHandshake'
    <3>1. CASE evidenceAt <= 17
      BY <1>4, <3>1, EvidencePlaces DEF Evidence!Gated, Evidence!GatedByHandshake
    <3>2. CASE evidenceAt > 17
      <4>1. s = Evidence!PerOS[evidenceAt - 17] /\ evidenceAt - 17 \in 1..6
        BY <1>1, <1>5, <3>2, EvidencePlaces DEF Evidence!Scenario
      <4>2. \A n \in 1..17 : Evidence!PerTransport[n] # s  BY <4>1, EvidencePlaces
      <4> QED  BY <1>3, <4>2, EvidencePlaces DEF Evidence!GatedByHandshake
    <3> QED  BY <1>5, <3>1, <3>2
  <2> QED  BY <2>5, <2>6, <2>7 DEF EvidenceSound
<1> QED  BY <1>7, <1>8 DEF EvidenceInv

LEMMA EvidenceSkips ==
  ASSUME Evidence!EvidenceAssumption, EvidenceInv, Evidence!NotRun \/ Evidence!NotWanted
  PROVE  EvidenceInv'
<1>1. CASE Evidence!NotRun
  <2>1. PICK s : s = Evidence!Scenario(evidenceAt)  OBVIOUS
  <2>2. /\ evidenceLast'.scenario = s /\ evidenceLast'.faults = {}
        /\ evidenceLast'.status = "BLOCKED" /\ evidenceLast'.run = FALSE
        /\ evidenceAll' = [evidenceAll EXCEPT ![evidenceT] = @ \cup {s}]
        /\ Evidence!Come /\ Evidence!Want(evidenceT, s)
        /\ evidenceAt' = evidenceAt + 1 /\ UNCHANGED <<evidenceT, evidenceHs>>
    BY <1>1, <2>1 DEF Evidence!NotRun, Evidence!Emit, Evidence!Block
  <2>3. EvidenceTypes' /\ EvidenceRecorded'
    <3>1. evidenceT \in DOMAIN evidenceAll
      BY <2>2, EvidenceSteps DEF EvidenceInv, EvidenceTypes, EvidenceRecorded, Evidence!Come
    <3>2. /\ DOMAIN evidenceAll' = DOMAIN evidenceAll
          /\ \A i \in DOMAIN evidenceAll : i # evidenceT => evidenceAll'[i] = evidenceAll[i]
          /\ evidenceAll'[evidenceT] = evidenceAll[evidenceT] \cup {s}
      BY <2>2, <3>1
    <3> QED  BY <2>1, <2>2, <3>2, EvidenceGoesOn DEF Evidence!Statuses
  <2>4. EvidenceSound'
    BY <2>2 DEF EvidenceSound, Evidence!FailureStands, Evidence!UnrunNeverPasses,
                Evidence!GatedByHandshake
  <2> QED  BY <2>3, <2>4 DEF EvidenceInv
<1>2. CASE Evidence!NotWanted
  <2>1. /\ Evidence!Come /\ ~Evidence!Want(evidenceT, Evidence!Scenario(evidenceAt))
        /\ evidenceAt' = evidenceAt + 1
        /\ UNCHANGED <<evidenceT, evidenceHs, evidenceLast, evidenceAll>>
    BY <1>2 DEF Evidence!NotWanted
  <2>2. EvidenceTypes' /\ EvidenceRecorded'
    BY <2>1, EvidenceGoesOn DEF EvidenceInv, EvidenceTypes
  <2>3. EvidenceSound'
    BY <2>1 DEF EvidenceInv, EvidenceSound, Evidence!FailureStands, Evidence!UnrunNeverPasses,
                Evidence!GatedByHandshake
  <2> QED  BY <2>2, <2>3 DEF EvidenceInv
<1> QED  BY <1>1, <1>2

\* The next transport begins when every scenario of this one was looked at.
LEMMA EvidenceNextTransport ==
  ASSUME Evidence!EvidenceAssumption, EvidenceInv, Evidence!NextTransport
  PROVE  EvidenceInv'
<1>1. /\ evidenceT \in 1..Len(Transports) /\ evidenceHs # "none"
      /\ evidenceAt - 1 = Evidence!Steps(evidenceT)
      /\ evidenceT' = (IF evidenceT = Len(Transports) THEN 0 ELSE evidenceT + 1)
      /\ evidenceHs' = "none" /\ evidenceLast' = Evidence!NoEvidence /\ evidenceAt' = 1
      /\ evidenceAll' = evidenceAll /\ Len(Transports) \in Nat
  BY EvidenceSteps DEF EvidenceInv, EvidenceTypes, Evidence!NextTransport
<1>2. EvidenceTypes'
  BY <1>1, EvidenceSteps DEF EvidenceTypes, Evidence!Statuses, Evidence!NoEvidence
<1>3. evidenceAll[evidenceT] = EvidenceUpto(evidenceT, Evidence!Steps(evidenceT))
  BY <1>1 DEF EvidenceInv, EvidenceRecorded
<1>4. EvidenceRecorded'
  BY <1>1, <1>3 DEF EvidenceInv, EvidenceRecorded
<1>5. EvidenceSound'
  BY <1>1, EvidencePlaces
  DEF EvidenceSound, Evidence!FailureStands, Evidence!UnrunNeverPasses,
      Evidence!GatedByHandshake, Evidence!NoEvidence
<1> QED  BY <1>2, <1>4, <1>5 DEF EvidenceInv

\* The invariant is inductive.
LEMMA EvidenceNext ==
  ASSUME Evidence!EvidenceAssumption, EvidenceInv, [Evidence!Next]_evidenceVars
  PROVE  EvidenceInv'
<1>1. CASE UNCHANGED evidenceVars \/ Evidence!Done
  BY <1>1 DEF evidenceVars, Evidence!Done, Evidence!vars, EvidenceInv, EvidenceTypes,
              EvidenceRecorded, EvidenceSound, Evidence!FailureStands,
              Evidence!UnrunNeverPasses, Evidence!GatedByHandshake
<1>2. CASE Evidence!Next /\ ~Evidence!Done
  BY <1>2, EvidenceHandshake, EvidenceScenario, EvidenceSkips, EvidenceNextTransport
  DEF Evidence!Next
<1> QED  BY <1>1, <1>2

\* What the invariant says of the report.
LEMMA EvidenceHonest ==
  ASSUME Evidence!EvidenceAssumption, EvidenceInv
  PROVE  /\ Evidence!TypeOK /\ EvidenceSound /\ Evidence!AllReported
<1>1. Evidence!TypeOK
  BY EvidencePlaces DEF EvidenceInv, EvidenceTypes, Evidence!TypeOK
<1>2. Evidence!AllReported
  BY DEF EvidenceInv, EvidenceRecorded, EvidenceUpto, Evidence!AllReported
<1> QED  BY <1>1, <1>2 DEF EvidenceInv

-----------------------------------------------------------------------------
(* Proofs: the transports, together *)

\* runJob, pairListener, singlePipeListener and main: only the launched worker is served,
\* every connection is handed out or closed once, no process or endpoint is left when a
\* job returns, its results are settled, and a failed or unrun check never becomes a PASS;
\* for any platform, any number of processes, connections, transports and faults.
THEOREM TransportsAreHonest == Spec => []TransportsHonest
<1> DEFINE I == /\ part = "job" => JobInv
                /\ part = "pipes" => PipeInv
                /\ part = "evidence" => EvidenceInv
<1>1. Init => I  BY JobInit, PipeInit, EvidenceInit, PartsAssumption DEF Init
<1>2. I /\ [Next]_vars => I'
  <2> SUFFICES ASSUME I, [Next]_vars PROVE I'
    OBVIOUS
  <2>1. part' = part  BY DEF Next, vars
  <2>2. CASE part = "job"
    <3>1. [Job!Next]_jobVars  BY <2>2 DEF Next, vars
    <3> QED  BY <2>1, <2>2, <3>1, JobNext, PartsAssumption
  <2>3. CASE part = "pipes"
    <3>1. [Pipes!Next]_pipeVars  BY <2>3 DEF Next, vars
    <3> QED  BY <2>1, <2>3, <3>1, PipeNext, PartsAssumption
  <2>4. CASE part = "evidence"
    <3>1. [Evidence!Next]_evidenceVars  BY <2>4 DEF Next, vars
    <3> QED  BY <2>1, <2>4, <3>1, EvidenceNext, PartsAssumption
  <2> QED  BY <2>1, <2>2, <2>3, <2>4
<1>3. I => TransportsHonest
  BY JobHonest, PipeHonest, EvidenceHonest, PartsAssumption DEF TransportsHonest, EvidenceSound
<1> QED  BY <1>1, <1>2, <1>3, PTL DEF Spec

=============================================================================

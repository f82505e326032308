--------------------------- MODULE AnalyticsHost ---------------------------
(***************************************************************************)
(* One job of the analytics host: Run opens a private endpoint, starts a  *)
(* worker, admits its one connection, drives the stream of events and     *)
(* commands, and takes everything down again.  The worker is a process the *)
(* host does not trust: it may send anything, stop reading, fork or die   *)
(* at any time.  The host's goroutines are the driver (Run), the waiter   *)
(* that reaps, the receiver, the sender and the uploader.                 *)
(***************************************************************************)
EXTENDS Naturals, Sequences, FiniteSets

CONSTANTS
    Jobs,           \* the jobs: records [kind, fault, cancel, proof, forks]
    QueueCap,       \* capacity of sendQ
    Chunks,         \* chunks of the source that is uploaded
    MaxEvents,      \* bound: events the worker sends
    Window,         \* bound: events the worker has sent and the host not handled
    WatchMayFail    \* the watch of the worker's exit may fail

\* What a job asks for: what it runs, the fault a test injects at the first
\* read of the source, the batch after which it is cancelled, whether its worker
\* gets the proof, and whether the worker makes a process.
AllJobs == [kind : {"plain", "upload", "stream", "range"},
            fault : {"none", "kill", "crash", "cancel"}, cancel : Nat,
            proof : BOOLEAN, forks : BOOLEAN]

BoundsAssumption ==
    /\ Jobs \subseteq AllJobs
    /\ QueueCap \in Nat \ {0} /\ Chunks \in Nat \ {0} /\ MaxEvents \in Nat /\ Window \in Nat
    /\ WatchMayFail \in BOOLEAN

VARIABLES
    job,        \* the job
    late,       \* its deadline has passed
    pc,         \* what the driver is at
    outcome,    \* Result.Outcome, "none" while it is empty
    want,       \* the next sequence number of the worker
    log,        \* the events that were accepted, in order
    batches,    \* Result.Batches
    endpoint,   \* the private directory exists
    proc,       \* the worker: "none", "running", "dying", "exited", "reaped"
    child,      \* a process it made: "none", "group", "away", "lost", "dead"
    forkSeen,   \* the waiter learned of it, or a kill found it
    waiter,     \* "off", "watch", "wait" (holds reap in cmd.Wait), "done"
    reused,     \* the process number names another process now
    harmed,     \* another process was signalled
    conn,       \* who has the admitted connection: "none", "worker", "other"
    used,       \* the proof was used
    stream,     \* "none", "offered", "open", "ended"
    wire,       \* events sent and not yet handled
    said,       \* number of events the worker sent
    receiver,   \* "off", "on", "done"
    sender,     \* "off", "idle", "done"
    queue,      \* sendQ
    ack,        \* the answer to the source command that waits for one
    sendErr,    \* sendErr holds an error
    stop,       \* stop is closed
    uploader,   \* "off", "read", "queue", "wait", "drain", "done"
    sourceErr,  \* sourceErr holds an error
    sentChunks, \* chunks handed to the transport
    leases,     \* open leases of the grant
    next,       \* the next request number of the grant
    granted     \* the grant is open

hostVars == <<job, late, pc, outcome, want, log, batches, endpoint>>
procVars == <<proc, child, forkSeen, waiter, reused, harmed>>
linkVars == <<conn, used, stream, wire, said>>
ioVars == <<receiver, sender, queue, ack, sendErr, stop>>
srcVars == <<uploader, sourceErr, sentChunks, leases, next, granted>>
vars == <<hostVars, procVars, linkVars, ioVars, srcVars>>

Granting == job.kind \in {"stream", "range"}
Exited == waiter = "done"

Init ==
    /\ job \in Jobs
    /\ late = FALSE /\ pc = "bind" /\ outcome = "none" /\ want = 1 /\ log = <<>> /\ batches = 0
    /\ endpoint = FALSE
    /\ proc = "none" /\ child = "none" /\ forkSeen = FALSE /\ waiter = "off"
    /\ reused = FALSE /\ harmed = FALSE
    /\ conn = "none" /\ used = FALSE /\ stream = "none" /\ wire = <<>> /\ said = 0
    /\ receiver = "off" /\ sender = "off" /\ queue = <<>> /\ ack = "none" /\ sendErr = FALSE /\ stop = FALSE
    /\ uploader = "off" /\ sourceErr = FALSE /\ sentChunks = 0 /\ leases = 0 /\ next = 1 /\ granted = FALSE

Tick ==
    /\ ~late
    /\ late' = TRUE
    /\ UNCHANGED <<job, pc, outcome, want, log, batches, endpoint, procVars, linkVars, ioVars, srcVars>>

-----------------------------------------------------------------------------
\* The driver, up to the stream.  Every error returns "setup_failed" and runs
\* the deferred calls registered so far.
Goto(where) == pc' = where /\ UNCHANGED <<job, late, outcome, want, log, batches, endpoint>>
End(result, where) == pc' = where /\ outcome' = result /\ UNCHANGED <<job, late, want, log, batches, endpoint>>

Bind ==
    /\ pc = "bind"
    /\ \/ (Granting => ~late) /\ granted' = Granting /\ Goto("listen")
       \/ Granting /\ granted' = FALSE /\ End("setup_failed", "done")
    /\ UNCHANGED <<procVars, linkVars, ioVars, uploader, sourceErr, sentChunks, leases, next>>

Listen ==
    /\ pc = "listen"
    /\ \/ endpoint' = TRUE /\ pc' = "start" /\ UNCHANGED outcome
       \/ UNCHANGED endpoint /\ pc' = "close" /\ outcome' = "setup_failed"
    /\ UNCHANGED <<job, late, want, log, batches, procVars, linkVars, ioVars, srcVars>>

StartWorker ==
    /\ pc = "start"
    /\ \/ proc' = "running" /\ Goto("watch")
       \/ UNCHANGED proc /\ End("setup_failed", "unserve")
    /\ UNCHANGED <<child, forkSeen, waiter, reused, harmed, linkVars, ioVars, srcVars>>

\* newExitWatch; when it fails the worker is killed and reaped at once.
WatchWorker ==
    /\ pc = "watch"
    /\ \/ waiter' = "watch" /\ UNCHANGED proc /\ Goto("bootstrap")
       \/ proc' = "reaped" /\ UNCHANGED waiter /\ End("setup_failed", "unserve")
    /\ UNCHANGED <<child, forkSeen, reused, harmed, linkVars, ioVars, srcVars>>

Bootstrap ==
    /\ pc = "bootstrap"
    /\ \/ Goto("await")
       \/ proc # "running" /\ End("setup_failed", "reap")
    /\ UNCHANGED <<procVars, linkVars, ioVars, srcVars>>

AwaitStream ==
    /\ pc = "await"
    /\ \/ /\ stream = "offered" /\ Goto("loop")
          /\ stream' = "open" /\ receiver' = "on" /\ sender' = "idle"
       \/ /\ Exited /\ End("worker_exit_before_stream", "reap")
          /\ UNCHANGED <<stream, receiver, sender>>
       \/ /\ late /\ End("timeout_before_stream", "reap")
          /\ UNCHANGED <<stream, receiver, sender>>
    /\ UNCHANGED <<procVars, conn, used, wire, said, queue, ack, sendErr, stop, srcVars>>

\* peerListener.Accept: one connection, from the process with the worker's
\* number, once that number is known.
Accept(who) ==
    /\ endpoint /\ waiter # "off" /\ conn = "none"
    /\ who = "worker" => proc = "running"
    /\ who = "other" => reused
    /\ conn' = who
    /\ UNCHANGED <<hostVars, procVars, used, stream, wire, said, ioVars, srcVars>>

\* authorize: the proof fits, is in time and was not used; Connect then
\* offers the stream.
Authorize ==
    /\ conn = "worker" /\ job.proof /\ ~used /\ ~late
    /\ stream = "none"
    /\ used' = TRUE
    /\ stream' = "offered"
    /\ UNCHANGED <<hostVars, procVars, conn, wire, said, ioVars, srcVars>>

-----------------------------------------------------------------------------
\* The worker and the operating system.
\* What a worker may put on the stream; `claim` is the number of batches of a
\* completion and the request number of a read.
Say ==
    /\ proc = "running" /\ stream \in {"offered", "open"} /\ said < MaxEvents /\ Len(wire) < Window
    /\ \E k \in {"hello", "batch", "completed", "failed", "empty", "oversized"} \cup
                (IF job.kind = "range" THEN {"readat"} ELSE {}) :
       \E s \in IF k \in {"batch", "completed"} THEN {said, said + 1, said + 2} ELSE {said + 1} :
       \E ok \in IF k \in {"hello", "batch", "readat", "completed"} THEN BOOLEAN ELSE {TRUE} :
       \E c \in IF k \in {"completed", "readat"} THEN 0 .. 1 ELSE {0} :
          wire' = Append(wire, [seq |-> s, kind |-> k, ok |-> ok, claim |-> c])
    /\ said' = said + 1
    /\ UNCHANGED <<hostVars, procVars, conn, used, stream, ioVars, srcVars>>

Fork ==
    /\ job.forks /\ proc = "running" /\ pc \notin {"watch", "bootstrap"} /\ child = "none"
    /\ child' \in {"group", "away", "lost"}
    /\ UNCHANGED <<hostVars, proc, forkSeen, waiter, reused, harmed, linkVars, ioVars, srcVars>>

\* The worker exits, of itself or because it was killed; a child that left
\* its group loses its parent.
Exit ==
    /\ proc \in {"running", "dying"}
    /\ proc' = "exited"
    /\ child' = IF child = "away" THEN "lost" ELSE child
    /\ UNCHANGED <<hostVars, forkSeen, waiter, reused, harmed, linkVars, ioVars, srcVars>>

\* The transport ends the stream when the worker is gone.
StreamEnds ==
    /\ stream \in {"offered", "open"}
    /\ proc \in {"exited", "reaped"}
    /\ stream' = "ended"
    /\ UNCHANGED <<hostVars, procVars, conn, used, wire, said, ioVars, srcVars>>

\* Another process gets the number of a worker that was reaped.
ReuseNumber ==
    /\ proc = "reaped" /\ ~reused
    /\ reused' = TRUE
    /\ UNCHANGED <<hostVars, proc, child, forkSeen, waiter, harmed, linkVars, ioVars, srcVars>>

-----------------------------------------------------------------------------
\* The waiter: it learns of the exit before anybody reaps, takes reap, ends
\* the group, and reaps.  A watch that fails goes to cmd.Wait with reap held.
WatchReturns ==
    /\ waiter = "watch"
    /\ \/ /\ proc = "exited"
          /\ forkSeen' = (forkSeen \/ child # "none")
          /\ child' = IF child = "group" THEN "dead" ELSE child
          /\ UNCHANGED harmed
       \/ WatchMayFail /\ UNCHANGED <<forkSeen, child, harmed>>
    /\ waiter' = "wait"
    /\ UNCHANGED <<hostVars, proc, reused, linkVars, ioVars, srcVars>>

Reap ==
    /\ waiter = "wait" /\ proc = "exited"
    /\ proc' = "reaped"
    /\ waiter' = "done"
    /\ UNCHANGED <<hostVars, child, forkSeen, reused, harmed, linkVars, ioVars, srcVars>>

\* A mistaken reading: the kill does not ask whether the worker was reaped.
KillTreeAnyway ==
    /\ waiter # "wait"
    /\ harmed' = (harmed \/ reused)
    /\ proc' = IF proc = "running" THEN "dying" ELSE proc
    /\ child' = IF child \in {"group", "away"} THEN "dead" ELSE child
    /\ forkSeen' = (forkSeen \/ child \in {"group", "away"})

\* kill and killTree: reap is taken, so it blocks while the waiter is in
\* cmd.Wait; a reaped worker is not signalled; the group and every descendant
\* still attached die with the worker.
KillTree ==
    /\ waiter # "wait"
    /\ IF proc = "reaped"
       THEN UNCHANGED <<proc, child, forkSeen>>
       ELSE /\ proc' = IF proc = "running" THEN "dying" ELSE proc
            /\ child' = IF child \in {"group", "away"} THEN "dead" ELSE child
            /\ forkSeen' = (forkSeen \/ child \in {"group", "away"})
    /\ UNCHANGED harmed

-----------------------------------------------------------------------------
\* The sender: one command at a time; a Send that fails ends it.
Sent ==
    /\ sender = "idle" /\ queue # <<>>
    /\ ack' = IF Head(queue) = "source" THEN (IF stream = "open" THEN "ok" ELSE "err") ELSE ack
    /\ IF stream = "open"
       THEN UNCHANGED <<sender, sendErr>>
       ELSE sender' = "done" /\ sendErr' = TRUE
    /\ queue' = Tail(queue)
    /\ UNCHANGED <<hostVars, procVars, linkVars, receiver, stop, srcVars>>

SenderStops ==
    /\ sender = "idle" /\ stop
    /\ sender' = "done"
    /\ UNCHANGED <<hostVars, procVars, linkVars, receiver, queue, ack, sendErr, stop, srcVars>>

ReceiverStops ==
    /\ receiver = "on"
    /\ stop \/ (stream = "ended" /\ wire = <<>> /\ pc # "loop")
    /\ receiver' = "done"
    /\ UNCHANGED <<hostVars, procVars, linkVars, sender, queue, ack, sendErr, stop, srcVars>>

Room == Len(queue) < QueueCap

\* The uploader: plain chunks are queued, chunks of a grant hold a lease until
\* the transport took them (sendSource).
Uploading == uploader' = "read" /\ UNCHANGED <<sourceErr, sentChunks, leases, next, granted>>

UploadChunk ==
    /\ job.kind = "upload" /\ uploader = "read"
    /\ \/ /\ Room
          /\ queue' = Append(queue, "chunk")
          /\ sentChunks' = sentChunks + 1
          /\ uploader' = IF sentChunks + 1 = Chunks THEN "done" ELSE "read"
       \/ (stop \/ late) /\ uploader' = "done" /\ UNCHANGED <<queue, sentChunks>>
    /\ UNCHANGED <<hostVars, procVars, linkVars, receiver, sender, ack, sendErr, stop, sourceErr, leases, next, granted>>

\* Grant.Read for the next chunk.
UploadRead ==
    /\ job.kind = "stream" /\ uploader = "read"
    /\ IF late
       THEN uploader' = "done" /\ sourceErr' = TRUE /\ UNCHANGED <<leases, next>>
       ELSE uploader' = "queue" /\ leases' = leases + 1 /\ next' = next + 1 /\ UNCHANGED sourceErr
    /\ UNCHANGED <<hostVars, procVars, linkVars, ioVars, sentChunks, granted>>

UploadQueue ==
    /\ uploader = "queue"
    /\ \/ Room /\ queue' = Append(queue, "source") /\ uploader' = "wait" /\ UNCHANGED <<sourceErr, leases>>
       \/ /\ stop \/ late
          /\ uploader' = "done" /\ sourceErr' = TRUE /\ leases' = leases - 1 /\ UNCHANGED queue
    /\ UNCHANGED <<hostVars, procVars, linkVars, receiver, sender, ack, sendErr, stop, sentChunks, next, granted>>

UploadWait ==
    /\ uploader = "wait"
    /\ \/ /\ ack # "none"
          /\ ack' = "none" /\ leases' = leases - 1
          /\ sourceErr' = (ack = "err")
          /\ sentChunks' = sentChunks + 1
          /\ uploader' = IF ack = "err" \/ sentChunks + 1 = Chunks THEN "done" ELSE "read"
          /\ UNCHANGED stream
       \/ /\ stop \/ late
          /\ uploader' = "drain"
          /\ stream' = IF stop THEN stream ELSE "ended"
          /\ UNCHANGED <<ack, leases, sourceErr, sentChunks>>
    /\ UNCHANGED <<hostVars, procVars, conn, used, wire, said, receiver, sender, queue, sendErr, stop, next, granted>>

\* srv.Stop and <-sendDone, then the lease is released.
UploadDrain ==
    /\ uploader = "drain" /\ sender = "done"
    /\ uploader' = "done" /\ leases' = leases - 1 /\ sourceErr' = TRUE
    /\ UNCHANGED <<hostVars, procVars, linkVars, ioVars, sentChunks, next, granted>>

-----------------------------------------------------------------------------
\* The loop over the events.
Fail(result) == End(result, "kill")
Accepted ==
    /\ log' = Append(log, Head(wire))
    /\ batches' = IF Head(wire).kind = "batch" THEN batches + 1 ELSE batches
    /\ want' = want + 1
AcceptAnd(result, where) == Accepted /\ outcome' = result /\ pc' = where /\ UNCHANGED <<job, late, endpoint>>

Arrived(kind) == pc = "loop" /\ wire # <<>> /\ Head(wire).kind = kind
Take == wire' = Tail(wire) /\ UNCHANGED <<conn, used, stream, said>>
InOrder == Head(wire).seq = want

\* A sequence number that is not the next one.
Misnumbered ==
    /\ pc = "loop" /\ wire # <<>>
    /\ Head(wire).kind # "oversized" /\ ~InOrder
    /\ Fail(IF Head(wire).seq < want THEN "rejected_sequence_repeat" ELSE "rejected_sequence_gap")
    /\ Take
    /\ UNCHANGED <<procVars, ioVars, srcVars>>

HelloReceived ==
    /\ Arrived("hello") /\ InOrder
    /\ Take
    /\ IF want # 1 \/ ~Head(wire).ok
       THEN Fail("rejected_protocol") /\ UNCHANGED <<queue, srcVars>>
       ELSE /\ AcceptAnd("none", "loop")
            /\ queue' = Append(queue, "execute")
            /\ IF job.kind \in {"upload", "stream"} THEN Uploading ELSE UNCHANGED srcVars
    /\ UNCHANGED <<procVars, receiver, sender, ack, sendErr, stop>>

\* Grant.Read for the worker's request, then the fault a test asks for at
\* the first read, or
\* the response through sendSource.
ReadAtReceived ==
    /\ Arrived("readat") /\ InOrder
    /\ Take
    /\ LET e == Head(wire)
           fault == IF next = 1 THEN job.fault ELSE "none"
           Answer == /\ next' = next + 1
                     /\ AcceptAnd("none", CASE fault = "kill" -> "kill"
                                        [] fault = "crash" -> "loop"
                                        [] fault = "cancel" -> "cancel"
                                        [] OTHER -> "rqueue")
                     /\ leases' = IF fault = "none" THEN leases + 1 ELSE leases
                     /\ IF fault = "crash"
                        THEN /\ proc' = IF proc = "running" THEN "dying" ELSE proc
                             /\ harmed' = (harmed \/ reused)
                        ELSE UNCHANGED <<proc, harmed>>
       IN IF want = 1
          THEN Fail("rejected_protocol") /\ UNCHANGED <<next, leases, proc, harmed>>
          ELSE IF ~e.ok \/ e.claim # next \/ late
               THEN Fail("rejected_source") /\ UNCHANGED <<next, leases, proc, harmed>>
               ELSE Answer
    /\ UNCHANGED <<child, forkSeen, waiter, reused, ioVars, uploader, sourceErr, sentChunks, granted>>

\* sendSource called by the driver.
ResponseQueued ==
    /\ pc = "rqueue"
    /\ \/ Room /\ queue' = Append(queue, "source") /\ Goto("rwait") /\ UNCHANGED leases
       \/ late /\ Fail("send_failed") /\ leases' = leases - 1 /\ UNCHANGED queue
    /\ UNCHANGED <<procVars, linkVars, receiver, sender, ack, sendErr, stop, uploader, sourceErr, sentChunks, next, granted>>

ResponseSent ==
    /\ pc = "rwait"
    /\ \/ /\ ack # "none"
          /\ IF ack = "ok" THEN Goto("loop") ELSE Fail("send_failed")
          /\ ack' = "none" /\ leases' = leases - 1 /\ UNCHANGED stream
       \/ /\ late
          /\ Goto("rdrain") /\ stream' = "ended" /\ UNCHANGED <<ack, leases>>
    /\ UNCHANGED <<procVars, conn, used, wire, said, receiver, sender, queue, sendErr, stop, uploader, sourceErr, sentChunks, next, granted>>

ResponseDrained ==
    /\ pc = "rdrain" /\ sender = "done"
    /\ Fail("send_failed")
    /\ leases' = leases - 1
    /\ UNCHANGED <<procVars, linkVars, ioVars, uploader, sourceErr, sentChunks, next, granted>>

BatchReceived ==
    /\ Arrived("batch") /\ InOrder
    /\ Take
    /\ IF want = 1 THEN Fail("rejected_protocol")
       ELSE IF ~Head(wire).ok THEN Fail("rejected_batch")
       ELSE AcceptAnd("none", IF job.cancel > 0 /\ batches + 1 = job.cancel THEN "cancel" ELSE "loop")
    /\ UNCHANGED <<procVars, ioVars, srcVars>>

\* The Cancel after a batch must be queued; the one after a read may fail.
CancelQueued ==
    /\ pc = "cancel"
    /\ \/ Room /\ queue' = Append(queue, "cancel") /\ Goto("loop")
       \/ late /\ UNCHANGED queue /\ IF job.kind = "range" THEN Goto("loop") ELSE Fail("send_failed")
    /\ UNCHANGED <<procVars, linkVars, receiver, sender, ack, sendErr, stop, srcVars>>

CompletedReceived ==
    /\ Arrived("completed") /\ InOrder
    /\ Take
    /\ IF want = 1 THEN Fail("rejected_protocol")
       ELSE IF Head(wire).claim # batches THEN Fail("rejected_counts")
       ELSE IF ~Head(wire).ok THEN Fail("rejected_digest")
       ELSE AcceptAnd("completed", "finish")
    /\ UNCHANGED <<procVars, ioVars, srcVars>>

FailedReceived ==
    /\ Arrived("failed") /\ InOrder
    /\ Take
    /\ AcceptAnd("failed", "finish")
    /\ UNCHANGED <<procVars, ioVars, srcVars>>

\* An empty event, or a frame over the limit.
Unreadable ==
    /\ \/ Arrived("empty") /\ InOrder /\ Fail("rejected_protocol")
       \/ Arrived("oversized") /\ Fail("rejected_frame")
    /\ Take
    /\ UNCHANGED <<procVars, ioVars, srcVars>>

\* A mistaken reading: the loop has no deadline of its own.
LoopEndsUntimed ==
    /\ pc = "loop"
    /\ \/ sendErr /\ Fail("send_failed")
       \/ sourceErr /\ Fail("source_failed")
       \/ wire = <<>> /\ stream = "ended" /\ End("stream_ended", "release")
    /\ UNCHANGED <<procVars, linkVars, ioVars, srcVars>>

\* The other cases of the select: an error of the sender or of the source,
\* the deadline, and the end of the stream.
LoopEnds ==
    /\ pc = "loop"
    /\ \/ sendErr /\ Fail("send_failed")
       \/ sourceErr /\ Fail("source_failed")
       \/ late /\ Fail("timeout")
       \/ wire = <<>> /\ stream = "ended" /\ End("stream_ended", "release")
    /\ UNCHANGED <<procVars, linkVars, ioVars, srcVars>>

-----------------------------------------------------------------------------
\* After the loop: Finish, the grace, the kill, and the deferred calls.
KillWorker ==
    /\ pc = "kill"
    /\ KillTree
    /\ Goto("release")
    /\ UNCHANGED <<waiter, reused, linkVars, ioVars, srcVars>>

Finish ==
    /\ pc = "finish"
    /\ \/ Room /\ queue' = Append(queue, "finish")
       \/ late /\ UNCHANGED queue
    /\ Goto("release")
    /\ UNCHANGED <<procVars, linkVars, receiver, sender, ack, sendErr, stop, srcVars>>

\* The worker has exited, or the grace ends and it is killed.
Release ==
    /\ pc \in {"release", "reap"}
    /\ IF Exited
       THEN UNCHANGED <<proc, child, forkSeen, harmed>>
       ELSE KillTree
    /\ Goto("reaped")
    /\ UNCHANGED <<waiter, reused, linkVars, ioVars, srcVars>>

\* <-exited; a worker that made a process fails the job.
AwaitExit ==
    /\ pc = "reaped" /\ Exited
    /\ End(IF forkSeen THEN "worker_forked" ELSE outcome, "unserve")
    /\ UNCHANGED <<procVars, linkVars, ioVars, srcVars>>

StopServer ==
    /\ pc = "unserve"
    /\ stop' = TRUE
    /\ stream' = IF stream = "none" THEN "none" ELSE "ended"
    /\ Goto("join")
    /\ UNCHANGED <<procVars, conn, used, wire, said, receiver, sender, queue, ack, sendErr, srcVars>>

Join ==
    /\ pc = "join"
    /\ receiver \in {"off", "done"} /\ sender \in {"off", "done"} /\ uploader \in {"off", "done"}
    /\ Goto("close")
    /\ UNCHANGED <<procVars, linkVars, ioVars, srcVars>>

Close ==
    /\ pc = "close"
    /\ endpoint' = FALSE /\ granted' = FALSE /\ pc' = "done"
    /\ UNCHANGED <<job, late, outcome, want, log, batches, procVars, linkVars, ioVars, uploader, sourceErr, sentChunks, leases, next>>

Driver ==
    \/ Bind \/ Listen \/ StartWorker \/ WatchWorker \/ Bootstrap \/ AwaitStream
    \/ Misnumbered \/ HelloReceived \/ ReadAtReceived \/ ResponseQueued \/ ResponseSent \/ ResponseDrained
    \/ BatchReceived \/ CancelQueued \/ CompletedReceived \/ FailedReceived \/ Unreadable \/ LoopEnds
    \/ KillWorker \/ Finish \/ Release \/ AwaitExit \/ StopServer \/ Join \/ Close

Goroutines ==
    \/ SenderStops \/ ReceiverStops \/ WatchReturns \/ Reap
    \/ UploadChunk \/ UploadRead \/ UploadQueue \/ UploadWait \/ UploadDrain

World ==
    \/ Say \/ Fork \/ Exit \/ ReuseNumber \/ Authorize
    \/ \E who \in {"worker", "other"} : Accept(who)

Next == Tick \/ Driver \/ Goroutines \/ Sent \/ StreamEnds \/ World

\* Fair: the driver, the goroutines, the clock, the end of a stream whose
\* worker is gone and the death of a killed process.  A Send of the host
\* returns only when the stream has ended: a worker may never read.
Upload == UploadChunk \/ UploadRead \/ UploadQueue \/ UploadWait \/ UploadDrain
SentLate == stream = "ended" /\ Sent
Dies == proc = "dying" /\ Exit
Fairness ==
    /\ WF_vars(Driver) /\ WF_vars(Tick) /\ WF_vars(StreamEnds)
    /\ WF_vars(SenderStops) /\ WF_vars(ReceiverStops)
    /\ WF_vars(WatchReturns) /\ WF_vars(Reap)
    /\ WF_vars(Upload) /\ WF_vars(SentLate) /\ WF_vars(Dies)

Spec == Init /\ [][Next]_vars
FairSpec == Spec /\ Fairness

-----------------------------------------------------------------------------
\* The type invariant of the module.
TypeOK ==
    /\ job \in Jobs
    /\ {late, endpoint, forkSeen, reused, harmed, used, sendErr, stop, sourceErr, granted} \subseteq BOOLEAN
    /\ want \in 1 .. MaxEvents + 1 /\ batches \in 0 .. MaxEvents /\ said \in 0 .. MaxEvents
    /\ Len(queue) <= QueueCap /\ leases \in 0 .. 1 /\ sentChunks \in 0 .. Chunks

\* A job is completed only by events the launched worker sent, numbered
\* without a gap from a single first Hello, every batch verified, and as many
\* batches as the completion says (the loop of Run).
CompletedGenuine ==
    outcome = "completed" =>
        /\ conn = "worker" /\ job.proof
        /\ \A i \in DOMAIN log : log[i].seq = i /\ (log[i].kind = "hello" <=> i = 1) /\ log[i].ok
        /\ log[Len(log)].kind = "completed"
        /\ log[Len(log)].claim = Cardinality({i \in DOMAIN log : log[i].kind = "batch"})

\* Nothing is left when Run returns: the worker is reaped, its group is gone,
\* the goroutines have ended, the endpoint and the grant are closed and no
\* lease is open (the deferred calls of Run).
NothingLeft ==
    pc = "done" =>
        /\ proc \in {"none", "reaped"} /\ child # "group"
        /\ receiver # "on" /\ sender # "idle" /\ uploader \in {"off", "done"}
        /\ ~endpoint /\ ~granted /\ leases = 0

\* A worker that made a process never has its job accepted (the fork notice
\* and the count of descendants).
ForkFailsClosed ==
    pc = "done" /\ outcome \in {"completed", "failed"} => child = "none"

\* A chunk of the source that the transport may still read has its lease
\* (sendSource).
LeaseCoversSend ==
    sender = "idle" => \A i \in DOMAIN queue : queue[i] = "source" => leases > 0

\* No process is signalled by the number of a worker that was reaped (the
\* lock reap; "reap is held while the worker is signalled or reaped").  The
\* fault CrashAfterRead of the tests signals by the number alone.
OnlyTheWorkerSignalled == job.fault # "crash" => ~harmed

Returned == pc = "done"

\* Run returns, whatever the worker does (the deadline, the grace and the
\* kill).
RunReturns == <>Returned
=============================================================================

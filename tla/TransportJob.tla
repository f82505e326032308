----------------------------- MODULE TransportJob -----------------------------
(***************************************************************************)
(* One worker, one endpoint, one job of the transport spike (job.go,       *)
(* launch.go, server.go, proc_*.go).  The host listens, starts the worker  *)
(* inside a process tree it controls, hands it a credential and waits for  *)
(* the session to end, for the worker to exit or for a timeout.  The       *)
(* worker may start further processes; strangers dial the endpoint, with a *)
(* copy of the proof or without.                                           *)
(***************************************************************************)
EXTENDS Naturals, FiniteSets

CONSTANTS Worker, Strangers,  \* the processes that dial the endpoint
          Kids,               \* what the worker may start
          Platforms,          \* what the host may run on, see Platform
          MaxDials            \* bound on connections

\* Whether the platform names the peer of a connection, starts the worker
\* suspended (Windows), and lets a process leave its group (Unix).
Platform == [peer : BOOLEAN, suspended : BOOLEAN, leave : BOOLEAN]

TransportAssumption ==
    /\ Worker \notin Strangers
    /\ MaxDials \in Nat
    /\ Platforms \subseteq Platform

VARIABLES platform,  \* what this host runs on
          pc,        \* where runJob is
          worker,    \* "none", "suspended", "running", "dead"
          kid,       \* Kids -> "none", "in" or "out" of the tree, "dead"; or
                     \* "quiet": in the tree, with its own output
          attached,  \* attachTree has succeeded
          exited,    \* cmd.Wait has returned (w.exited is closed)
          expect,    \* the peer listener knows the worker's process
          live,      \* r.live is set
          boot,      \* the bootstrap is written: the worker has the proof
          endpoint,  \* the folder and socket, or the pipe, exist
          listener,  \* "none", "open" or "closed"
          dialled, admitted,  \* connections: not yet accepted; served
          dials,     \* how many there were
          used,      \* the proof has been accepted once
          session,   \* "none", "hello", "driving", "ended"
          by,        \* the processes whose session reached the handler
          nilSeen,   \* the session read r.live before it was set
          done,      \* what the session reports: "empty", "ok", "err"
          result     \* r.driveErr: "none", "ok", "err", "timeout"
vars == <<platform, pc, worker, kid, attached, exited, expect, live, boot, endpoint, listener,
          dialled, admitted, dials, used, session, by, nilSeen, done, result>>

PeerKnown == platform.peer
Suspended == platform.suspended
KidsMayLeave == platform.leave

procs == <<platform, worker, kid, attached, exited>>
conns == <<endpoint, listener, dialled, admitted, dials>>
hostVars == <<expect, live, boot, result>>
sess == <<used, session, by, nilSeen, done>>

Conns == [from : {Worker} \cup Strangers, proof : BOOLEAN, n : 1..MaxDials]

Init ==
    /\ platform \in Platforms
    /\ pc = "listen" /\ worker = "none" /\ kid = [k \in Kids |-> "none"]
    /\ attached = FALSE /\ exited = FALSE
    /\ expect = FALSE /\ live = FALSE /\ boot = FALSE /\ result = "none"
    /\ endpoint = FALSE /\ listener = "none" /\ dialled = {} /\ admitted = {} /\ dials = 0
    /\ used = FALSE /\ session = "none" /\ by = {} /\ nilSeen = FALSE
    /\ done = "empty"

Alive == worker \in {"suspended", "running"}
\* what holds the worker's stdout, which Wait reads to its end
Holders == {k \in Kids : kid[k] \in {"in", "out"}}

(* -------------------------- the process tree -------------------------- *)

\* tree.kill: SIGKILL to the group, or TerminateJobObject.
TreeKilled ==
    /\ worker' = IF worker = "none" THEN "none" ELSE "dead"
    /\ kid' = [k \in Kids |-> IF kid[k] \in {"in", "quiet"} THEN "dead" ELSE kid[k]]
\* listen: a private folder is made and checked, the name must be free, and
\* the socket is made; a failure takes away what was made.
Listen ==
    /\ pc = "listen"
    /\ \/ endpoint' = TRUE /\ listener' = "open" /\ pc' = "start"
       \/ pc' = "returned" /\ UNCHANGED <<endpoint, listener>>
    /\ UNCHANGED <<procs, dialled, admitted, dials, hostVars, sess>>

\* start: exec, then attachTree.  On Windows either may fail with the worker
\* still suspended, or after it was resumed; the job is closed, which ends
\* whatever ran in it, and the worker is killed.
Start ==
    /\ pc = "start"
    /\ \/ /\ worker' = IF Suspended THEN "suspended" ELSE "running"
          /\ attached' = ~Suspended
          /\ pc' = "attach"
       \/ /\ pc' = "stop" /\ UNCHANGED <<worker, attached>>
    /\ UNCHANGED <<platform, kid, exited, conns, hostVars, sess>>

\* A worker that is resumed before it is in its job.
AttachLate ==
    /\ pc = "attach" /\ Suspended /\ ~attached
    /\ \/ worker = "suspended" /\ worker' = "running" /\ attached' = FALSE
       \/ worker' = worker /\ attached' = TRUE
    /\ UNCHANGED <<platform, pc, kid, exited, conns, hostVars, sess>>

Attach ==
    /\ pc = "attach" /\ Suspended /\ ~attached
    /\ attached' = TRUE
    /\ worker' = IF worker = "suspended" THEN "running" ELSE worker
    /\ UNCHANGED <<platform, pc, kid, exited, conns, hostVars, sess>>

AttachFails ==
    /\ pc = "attach" /\ Suspended
    /\ worker' = "dead"
    /\ kid' = [k \in Kids |-> IF attached /\ kid[k] \in {"in", "quiet"} THEN "dead" ELSE kid[k]]
    /\ pc' = "stop"
    /\ UNCHANGED <<platform, attached, exited, conns, hostVars, sess>>

(* ------------------------ runJob, step by step ------------------------ *)

\* onStarted: the worker is named to the session and to the listener before
\* it can have the credential.
OnStarted ==
    /\ pc = "attach" /\ attached
    /\ live' = TRUE /\ expect' = TRUE
    /\ pc' = "bootstrap"
    /\ UNCHANGED <<procs, conns, boot, result, sess>>

\* The bootstrap is written, or the write fails and the tree is killed.
Bootstrap ==
    /\ pc = "bootstrap"
    /\ \/ boot' = TRUE /\ pc' = "select" /\ UNCHANGED <<worker, kid>>
       \/ TreeKilled /\ pc' = "failwait" /\ UNCHANGED boot
    /\ UNCHANGED <<platform, attached, exited, conns, expect, live, result, sess>>

\* kill returns once the worker is reaped; start returns its error.
BootstrapFailed ==
    /\ pc = "failwait" /\ exited
    /\ pc' = "stop"
    /\ UNCHANGED <<procs, conns, hostVars, sess>>

\* The select of runJob: the session's report, the exit, the timeout.
SelectDone ==
    /\ pc \in {"select", "grace"} /\ done # "empty"
    /\ result' = done /\ pc' = "exit"
    /\ UNCHANGED <<procs, conns, expect, live, boot, sess>>

SelectExited ==
    /\ pc = "select" /\ exited
    /\ result' = "err" /\ pc' = "grace"
    /\ UNCHANGED <<procs, conns, expect, live, boot, sess>>

SelectTimeout ==
    /\ pc \in {"select", "grace"}
    /\ result' = IF pc = "grace" THEN result ELSE "timeout"
    /\ pc' = "exit"
    /\ UNCHANGED <<procs, conns, expect, live, boot, sess>>

\* exitCode: the worker exits in time, or it is killed with its tree.
ExitCode ==
    /\ pc = "exit"
    /\ \/ exited /\ pc' = "release" /\ UNCHANGED <<worker, kid>>
       \/ TreeKilled /\ pc' = "killed"
    /\ UNCHANGED <<platform, attached, exited, conns, hostVars, sess>>

Killed ==
    /\ pc = "killed" /\ exited
    /\ pc' = "release"
    /\ UNCHANGED <<procs, conns, hostVars, sess>>

\* tree.release: whatever the worker left behind is ended.
Release ==
    /\ pc = "release"
    /\ TreeKilled
    /\ pc' = "stop"
    /\ UNCHANGED <<platform, attached, exited, conns, hostVars, sess>>

\* The deferred srv.Stop closes the listener and the connections and waits
\* for the handler; then runJob returns.
Stop ==
    /\ pc = "stop"
    /\ listener' = "closed" /\ admitted' = {} /\ dialled' = {}
    /\ pc' = "stopping"
    /\ UNCHANGED <<procs, endpoint, dials, hostVars, sess>>

Return ==
    /\ pc = "stopping" /\ session \in {"none", "ended"}
    /\ pc' = "returned" /\ endpoint' = FALSE
    /\ UNCHANGED <<procs, listener, dialled, admitted, dials, hostVars, sess>>

(* --------------------- the listener and the session ------------------- *)

\* peerListener.Accept: the peer must be the worker where the platform can
\* say; the first admitted connection closes the endpoint.
Accept ==
    /\ listener = "open"
    /\ \E c \in dialled :
         LET ok == ~PeerKnown \/ (expect /\ c.from = Worker)
         IN /\ admitted' = IF ok THEN admitted \cup {c} ELSE admitted
            /\ dialled' = IF ok THEN {} ELSE dialled \ {c}
            /\ listener' = IF ok THEN "closed" ELSE "open"
    /\ UNCHANGED <<pc, procs, endpoint, dials, hostVars, sess>>

\* authorize: a call with the proof reaches the handler, once; drive then
\* waits for the hello.
Authorize ==
    /\ \E c \in admitted :
         IF c.proof /\ ~used
         THEN used' = TRUE /\ session' = "hello" /\ by' = by \cup {c.from}
         ELSE UNCHANGED <<used, session, by>>
    /\ UNCHANGED <<pc, procs, conns, hostVars, nilSeen, done>>

\* The first event is the hello of a worker, or drive reports an error.
Hello ==
    /\ session = "hello"
    /\ \/ /\ admitted # {} /\ nilSeen' = ~live /\ session' = "driving" /\ done' = done
       \/ /\ session' = "ended" /\ done' = "err" /\ UNCHANGED nilSeen
    /\ UNCHANGED <<pc, procs, conns, hostVars, used, by>>

\* The scenario ends; one that reads a broken stream ends in an error.
DriveEnds ==
    /\ session = "driving"
    /\ session' = "ended"
    /\ done' \in IF admitted = {} THEN {"err"} ELSE {"ok", "err"}
    /\ UNCHANGED <<pc, procs, conns, hostVars, used, by, nilSeen>>

(* --------------- the worker, its children and strangers --------------- *)

Dial ==
    /\ dials < MaxDials /\ listener = "open"
    /\ \E c \in Conns :
         /\ c.n = dials + 1
         /\ c.from = Worker => worker = "running" /\ boot
         \* A stranger can have a copy of the proof only where peers are known.
         /\ c.from # Worker => (c.proof => PeerKnown /\ boot)
         /\ dialled' = dialled \cup {c}
    /\ dials' = dials + 1
    /\ UNCHANGED <<pc, procs, endpoint, listener, admitted, hostVars, sess>>

Fork ==
    /\ worker = "running"
    /\ \E k \in Kids, where \in IF attached THEN {"in", "quiet"} ELSE {"out"} :
         kid[k] = "none" /\ kid' = [kid EXCEPT ![k] = where]
    /\ UNCHANGED <<platform, pc, worker, attached, exited, conns, hostVars, sess>>

KidLeaves ==
    /\ KidsMayLeave
    /\ \E k \in Kids : kid[k] = "in" /\ kid' = [kid EXCEPT ![k] = "out"]
    /\ UNCHANGED <<platform, pc, worker, attached, exited, conns, hostVars, sess>>

ProcessEnds ==
    /\ \/ worker = "running" /\ worker' = "dead" /\ kid' = kid
       \/ \E k \in Kids : kid[k] \in {"in", "out", "quiet"} /\ kid' = [kid EXCEPT ![k] = "dead"] /\ worker' = worker
    /\ UNCHANGED <<platform, pc, attached, exited, conns, hostVars, sess>>

\* cmd.Wait reaps the worker once nothing holds its output open.
Reap ==
    /\ worker = "dead" /\ ~exited /\ Holders = {}
    /\ exited' = TRUE
    /\ UNCHANGED <<platform, pc, worker, kid, attached, conns, hostVars, sess>>

Host == Listen \/ Start \/ Attach \/ AttachFails \/ OnStarted \/ Bootstrap \/ BootstrapFailed
        \/ SelectDone \/ SelectExited \/ SelectTimeout \/ ExitCode \/ Killed
        \/ Release \/ Stop \/ Return
Server == Accept \/ Authorize \/ Hello \/ DriveEnds
Done == pc = "returned" /\ UNCHANGED vars
Next == Host \/ Server \/ Reap \/ Dial \/ Fork \/ KidLeaves \/ ProcessEnds \/ Done

\* The host's own goroutines run, and its timeouts pass; nothing is assumed
\* of the worker or of what it starts.
Spec == Init /\ [][Next]_vars
LiveSpec == Spec /\ WF_vars(Host) /\ WF_vars(Hello \/ DriveEnds) /\ WF_vars(Reap)

(* ----------------------------- properties ----------------------------- *)

TypeOK ==
    /\ platform \in Platforms
    /\ pc \in {"listen", "start", "attach", "bootstrap", "failwait", "select", "grace", "exit",
               "killed", "release", "stop", "stopping", "returned"}
    /\ worker \in {"none", "suspended", "running", "dead"}
    /\ kid \in [Kids -> {"none", "in", "out", "quiet", "dead"}]
    /\ {attached, exited, expect, live, boot, endpoint, used, nilSeen} \subseteq BOOLEAN
    /\ listener \in {"none", "open", "closed"}
    /\ dialled \subseteq Conns /\ admitted \subseteq Conns
    /\ session \in {"none", "hello", "driving", "ended"}
    /\ by \subseteq {Worker} \cup Strangers
    /\ done \in {"empty", "ok", "err"} /\ result \in {"none", "ok", "err", "timeout"}
    /\ exited => worker = "dead"

\* server.go:46, 134 - whoever dials first and whatever it holds, only the
\* launched worker reaches the handler, and the handler finds it named.
OnlyTheWorkerDrives == by \subseteq {Worker} /\ ~nilSeen

\* launch.go:146, job.go:207 - once runJob has returned, on any path, no
\* process is alive in the worker's tree and no endpoint is left, and none ever ran outside it
\* unless it left by itself.
NoOrphans ==
    /\ pc = "returned" => ~endpoint /\ ~Alive /\ \A k \in Kids : kid[k] \notin {"in", "quiet"}
    /\ ~KidsMayLeave => \A k \in Kids : kid[k] # "out"

\* server.go:71 - the results are read only after the session's goroutine
\* has finished writing them, and what it reported is not turned round.
ResultsSettled ==
    pc = "returned" => /\ session \in {"none", "ended"}
                       /\ result = "ok" => done = "ok"

Returned == pc = "returned"

\* job.go:187 - a job ends, whatever the worker, its children and the
\* strangers do, as long as no child leaves the tree with the output open.
JobReturns == <>Returned
================================================================================

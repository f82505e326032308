-------------------------- MODULE WorkerContainer --------------------------
(***************************************************************************)
(* The container folder that workers share: Do runs one job under the lock *)
(* of the slot and sweeps the folder back to its baseline afterwards;     *)
(* Sweep does so without a job.  Hosts may die at any point and leave a   *)
(* worker running, which changes the folder under the sweep of the next   *)
(* host.  A folder is a map of names to inodes; the worker can link a file *)
(* from outside into it.  What is below a directory is swept the same way *)
(* and left out.                                                          *)
(***************************************************************************)
EXTENDS Naturals, FiniteSets

CONSTANTS
    Hosts,       \* the host processes
    Names,       \* the names the worker uses, besides the baseline's
    MaxJobs,     \* bound: jobs started
    MaxChanges   \* bound: changes the workers make

BoundsAssumption == MaxJobs \in Nat /\ MaxChanges \in Nat /\ "nobody" \notin Hosts

VARIABLES
    at,        \* the folder: name -> inode, "none" where there is no entry
    meta,      \* inodes whose mode, flags or attributes a worker changed
    altered,   \* the contents of the baseline's file were changed
    touched,   \* inodes whose metadata a sweep changed
    lock,      \* the host that holds the slot's lock
    host,      \* what every host is at; `beside`: an orphan ran when it took the lock
    worker,    \* its worker: "none", "running" or, when the host died, "orphan"
    jobs, changes

vars == <<at, meta, altered, touched, lock, host, worker, jobs, changes>>

Base == [file |-> "baseFile", dir |-> "baseDir"]
BaseNames == {"file", "dir"}
AllNames == BaseNames \cup Names
Inodes == {"baseFile", "baseDir", "newFile", "newDir", "outside"}
Directories == {"baseDir", "newDir"}
Baseline(n) == IF n \in BaseNames THEN Base[n] ELSE "none"
Idle == [pc |-> "idle", why |-> "", todo |-> {}, name |-> "file", st |-> "none", bad |-> FALSE,
         unclean |-> FALSE, beside |-> FALSE]

Init ==
    /\ at = [n \in AllNames |-> Baseline(n)]
    /\ meta = {} /\ altered = FALSE /\ touched = {}
    /\ lock = "nobody"
    /\ host = [h \in Hosts |-> Idle]
    /\ worker = [h \in Hosts |-> "none"]
    /\ jobs = 0 /\ changes = 0

\* sameTree of snapshotTree and the baseline.
SameTree == (\A n \in AllNames : at[n] = Baseline(n)) /\ meta \cap {"baseFile", "baseDir"} = {} /\ ~altered
Entries == {n \in AllNames : at[n] # "none"}
Orphans == {h \in Hosts : worker[h] = "orphan"}

Sweeping(h, why) == [host[h] EXCEPT !.pc = "sweep", !.why = why, !.todo = Entries, !.bad = FALSE]

-----------------------------------------------------------------------------
\* A mistaken reading: the folder is not looked at before the job.
DoAtOnce(h) ==
    /\ host[h].pc = "idle" /\ ~host[h].unclean /\ lock = "nobody" /\ jobs < MaxJobs
    /\ lock' = h
    /\ host' = [host EXCEPT ![h].pc = "mkdir", ![h].beside = (Orphans # {})]
    /\ UNCHANGED <<at, meta, altered, touched, worker, jobs, changes>>

\* Do: an unclean container is refused, the lock is taken without waiting,
\* and a folder that differs from the baseline is swept first.
Do(h) ==
    /\ host[h].pc = "idle" /\ ~host[h].unclean /\ lock = "nobody" /\ jobs < MaxJobs
    /\ lock' = h
    /\ host' = [host EXCEPT ![h] = [(IF SameTree THEN [@ EXCEPT !.pc = "mkdir"] ELSE Sweeping(h, "pre"))
                                        EXCEPT !.beside = (Orphans # {})]]
    /\ UNCHANGED <<at, meta, altered, touched, worker, jobs, changes>>

SweepOnly(h) ==
    /\ host[h].pc = "idle" /\ lock = "nobody" /\ ~SameTree
    /\ lock' = h
    /\ host' = [host EXCEPT ![h] = Sweeping(h, "only")]
    /\ UNCHANGED <<at, meta, altered, touched, worker, jobs, changes>>

\* The job folder, a new directory, and the worker; a folder that cannot be
\* made goes to the sweep at once.
StartJob(h) ==
    /\ host[h].pc = "mkdir"
    /\ \/ \E n \in Names : /\ at[n] = "none"
                           /\ at' = [at EXCEPT ![n] = "newDir"]
          /\ worker' = [worker EXCEPT ![h] = "running"]
          /\ jobs' = jobs + 1
          /\ host' = [host EXCEPT ![h].pc = "run"]
       \/ /\ host' = [host EXCEPT ![h] = Sweeping(h, "post")]
          /\ UNCHANGED <<at, worker, jobs>>
    /\ UNCHANGED <<meta, altered, touched, lock, changes>>

\* run returns: the worker has been reaped.
JobEnds(h) ==
    /\ host[h].pc = "run"
    /\ worker' = [worker EXCEPT ![h] = "none"]
    /\ host' = [host EXCEPT ![h] = Sweeping(h, "post")]
    /\ UNCHANGED <<at, meta, altered, touched, lock, jobs, changes>>

-----------------------------------------------------------------------------
\* The workers: entries are made, renamed, removed and linked in, metadata
\* and contents are changed.
WorkerChanges(h) ==
    /\ worker[h] # "none" /\ changes < MaxChanges
    /\ changes' = changes + 1
    /\ \/ \E n \in AllNames : \E i \in (Inodes \cup {"none"}) \ {at[n]} :
             /\ at' = [k \in AllNames |-> IF k = n THEN i
                                       ELSE IF at[k] = i /\ i \in Directories THEN "none" ELSE at[k]]
             /\ UNCHANGED <<meta, altered>>
       \/ \E i \in {at[n] : n \in Entries} \ {"outside"} :
             meta' = meta \cup {i} /\ UNCHANGED <<at, altered>>
       \/ at["file"] = "baseFile" /\ altered' = TRUE /\ UNCHANGED <<at, meta>>
    /\ UNCHANGED <<touched, lock, host, worker, jobs>>

OrphanEnds(h) ==
    /\ worker[h] = "orphan"
    /\ worker' = [worker EXCEPT ![h] = "none"]
    /\ UNCHANGED <<at, meta, altered, touched, lock, host, jobs, changes>>

\* A host dies, which releases its lock, and starts again from the saved
\* baseline (LoadContainer): it does not know that the folder is unclean.
HostDies(h) ==
    /\ worker[h] # "orphan"
    /\ host[h] # Idle
    /\ lock' = IF lock = h THEN "nobody" ELSE lock
    /\ worker' = [worker EXCEPT ![h] = IF @ = "running" THEN "orphan" ELSE @]
    /\ host' = [host EXCEPT ![h] = Idle]
    /\ UNCHANGED <<at, meta, altered, touched, jobs, changes>>

-----------------------------------------------------------------------------
\* sweepLocked, entry by entry; between two steps an orphan may swap the
\* entry under the name.
NextEntry(h, bad) == [host[h] EXCEPT !.pc = "sweep", !.todo = @ \ {host[h].name}, !.bad = @ \/ bad]

\* entry: lstat.
Look(h) ==
    /\ host[h].pc = "sweep"
    /\ \E n \in host[h].todo :
          host' = [host EXCEPT ![h].pc = "entry", ![h].name = n, ![h].st = at[n]]
    /\ UNCHANGED <<at, meta, altered, touched, lock, worker, jobs, changes>>

\* What is done by name: a baseline entry that is not the baseline's is only
\* counted, a directory too closed to open is opened up if it still is a
\* directory, a new entry without flags goes to its removal.
Decide(h) ==
    /\ host[h].pc = "entry"
    /\ LET n == host[h].name
           st == host[h].st
       IN IF st = "none" \/ (n \in BaseNames /\ st # Baseline(n))
          THEN host' = [host EXCEPT ![h] = NextEntry(h, TRUE)] /\ UNCHANGED <<meta, touched>>
          ELSE IF st \in Directories /\ st \in meta
          THEN IF at[n] \in Directories
               THEN /\ meta' = meta \ {at[n]} /\ touched' = touched \cup {at[n]}
                    /\ host' = [host EXCEPT ![h].pc = "open"]
               ELSE host' = [host EXCEPT ![h] = NextEntry(h, TRUE)] /\ UNCHANGED <<meta, touched>>
          ELSE /\ host' = [host EXCEPT ![h].pc = IF n \notin BaseNames /\ st \notin Directories /\ st \notin meta
                                                 THEN "unlink" ELSE "open"]
               /\ UNCHANGED <<meta, touched>>
    /\ UNCHANGED <<at, altered, lock, worker, jobs, changes>>

\* The entry is opened, its identity compared, and its metadata restored
\* through the handle; the contents of a baseline file are compared.
Restore(h) ==
    /\ host[h].pc = "open"
    /\ LET n == host[h].name
           i == at[n]
       IN IF i # host[h].st
          THEN host' = [host EXCEPT ![h] = NextEntry(h, TRUE)] /\ UNCHANGED <<meta, touched>>
          ELSE /\ meta' = meta \ {i}
               /\ touched' = IF i \in meta THEN touched \cup {i} ELSE touched
               /\ host' = [host EXCEPT ![h] = IF n \in BaseNames
                                              THEN NextEntry(h, i = "baseFile" /\ altered)
                                              ELSE [@ EXCEPT !.pc = "unlink"]]
    /\ UNCHANGED <<at, altered, lock, worker, jobs, changes>>

\* unlinkat removes whatever has the name, if it still is of the kind.
Unlink(h) ==
    /\ host[h].pc = "unlink"
    /\ LET n == host[h].name
           fits == at[n] # "none" /\ (at[n] \in Directories <=> host[h].st \in Directories)
       IN /\ at' = IF fits THEN [at EXCEPT ![n] = "none"] ELSE at
          /\ host' = [host EXCEPT ![h] = NextEntry(h, ~fits)]
    /\ UNCHANGED <<meta, altered, touched, lock, worker, jobs, changes>>

\* The end of the sweep: the folder is compared with the baseline, and the
\* container is unclean if anything failed.
SweepEnds(h) ==
    /\ host[h].pc = "sweep" /\ host[h].todo = {}
    /\ LET clean == ~host[h].bad /\ SameTree
       IN IF host[h].why = "pre" /\ clean
          THEN /\ host' = [host EXCEPT ![h] = [Idle EXCEPT !.pc = "mkdir", !.beside = host[h].beside]]
               /\ UNCHANGED lock
          ELSE /\ host' = [host EXCEPT ![h] = [Idle EXCEPT !.unclean = ~clean]]
               /\ lock' = "nobody"
    /\ UNCHANGED <<at, meta, altered, touched, worker, jobs, changes>>

SweepStep(h) == Look(h) \/ Decide(h) \/ Restore(h) \/ Unlink(h) \/ SweepEnds(h)

Next ==
    \E h \in Hosts :
        \/ Do(h) \/ SweepOnly(h) \/ StartJob(h) \/ JobEnds(h)
        \/ WorkerChanges(h) \/ OrphanEnds(h) \/ HostDies(h)
        \/ SweepStep(h)

Spec == Init /\ [][Next]_vars

-----------------------------------------------------------------------------
\* The type invariant of the module.
TypeOK ==
    /\ at \in [AllNames -> Inodes \cup {"none"}]
    /\ meta \subseteq Inodes /\ touched \subseteq Inodes
    /\ lock \in Hosts \cup {"nobody"}
    /\ \A h \in Hosts : host[h].pc # "idle" <=> lock = h

\* A job starts on the baseline and alone, whatever earlier jobs and hosts
\* left, unless a worker that outlived its host ran when the lock was taken
\* (Container.Do).
JobStartsOnBaseline ==
    \A h \in Hosts : worker[h] = "none" /\ worker'[h] = "running" /\ ~host[h].beside =>
        SameTree /\ \A g \in Hosts : worker[g] = "none"

\* A sweep never changes a file outside the folder, even while a worker
\* swaps the entries it looks at (the identity checks of entry, remove and
\* restoreDir).
OutsideUntouched == "outside" \notin touched
=============================================================================

------------------------------- MODULE Evidence -------------------------------
(***************************************************************************)
(* What the transport probe records (main.go, scenarios.go and             *)
(* scenarios_robust.go of the adr010-g0-transport spike).  A scenario runs *)
(* one job or several; what went wrong in a job is a set of faults, and    *)
(* the scenario turns them into calls of fail and block, in the order of   *)
(* the code.  main runs the handshake of each transport first and records  *)
(* the other scenarios of a transport as BLOCKED when it did not pass.     *)
(***************************************************************************)
EXTENDS Naturals, Sequences

CONSTANTS Transports,  \* the sequence of transports of the platform
          Selected,    \* the scenarios asked for
          FaultSets,   \* what may go wrong in the job of a scenario
          RunFaultSets \* and in one of several jobs

\* launch: runJob failed; silent: no session; drive: the session failed;
\* uncaught: a thread of the worker died; exit: another exit code; left,
\* alive: processes remain; own: the scenario's own expectation failed;
\* reached: a call that must be refused reached the handler;
\* unrun, leakUnrun, tcpUnrun, leftUnknown: a check that could not run.
Faults == {"launch", "silent", "drive", "uncaught", "exit", "own", "reached", "alive",
           "leaked", "tcp", "env", "left",
           "unrun", "leakUnrun", "tcpUnrun", "leftUnknown"}

EvidenceAssumption ==
    /\ Transports \in Seq({"npipe", "uds"}) /\ Transports # << >>
    /\ FaultSets \cup RunFaultSets \subseteq SUBSET Faults

VARIABLES t,      \* the transport, an index into Transports; 0 at the end
          at,     \* the place of the scenario main has come to, see Scenario
          hs,     \* the status of the transport's handshake
          last,   \* the evidence emitted last
          all     \* the scenarios of each transport there is evidence of
vars == <<t, at, hs, last, all>>

(* --------------------------- fail and block --------------------------- *)

\* What the calls make of the status: block never replaces a FAIL.
Fail(status, cond) == IF cond THEN "FAIL" ELSE status
Block(status, cond) == IF cond /\ status # "FAIL" THEN "BLOCKED" ELSE status

NoSession(F) == F \cap {"launch", "silent"} # {}

\* evidence.absorb
Absorb(st, F) ==
    IF "launch" \in F THEN Fail(st, TRUE)
    ELSE Fail(Fail(st, "uncaught" \in F), F \cap {"silent", "drive"} # {})

CommonChecks(st, F) ==
    LET leak == Block(Fail(st, "leaked" \in F), "leakUnrun" \in F)
        tcp == Block(Fail(leak, "tcp" \in F), "tcpUnrun" \in F)
    IN Fail(tcp, "env" \in F)

(* ----------------------------- scenarios ------------------------------ *)

Handshake(F) ==
    LET absorbed == Absorb("PASS", F)
        exit == Fail(absorbed, absorbed = "PASS" /\ "exit" \in F)
    IN IF NoSession(F) THEN exit ELSE CommonChecks(exit, F)

\* The transfer is complete, so elapsed is set, unless the session failed.
Duplex(F) ==
    LET own == Fail(Absorb("PASS", F), "own" \in F)
    IN IF NoSession(F) \/ "drive" \in F THEN own ELSE CommonChecks(own, F)

Backpressure(F) ==
    LET own == Fail(Absorb("PASS", F), "own" \in F)
    IN IF NoSession(F) THEN own ELSE CommonChecks(own, F)

\* One run of scenarioCancel; the session always ends in the cancel.
CancelRun(st, F) ==
    LET ended == Fail(st, F \cap {"uncaught", "exit", "alive"} # {})
    IN IF NoSession(F) THEN Absorb(st, F)
       ELSE IF "left" \in F THEN Fail(ended, TRUE) ELSE Block(ended, "leftUnknown" \in F)
Cancel(F, G) ==
    LET first == CancelRun("PASS", F)
    IN IF NoSession(F) THEN first ELSE CancelRun(first, G)

Kill(F) == Fail(Absorb("PASS", F), ~NoSession(F) /\ "alive" \in F)

\* The host refuses the worker, so there is no session to absorb.
BadCredential(F) == Fail("PASS", F \cap {"launch", "reached", "own", "exit"} # {})

ReplayRun(st, F) == Fail(Absorb(st, F), ~NoSession(F) /\ "own" \in F)
Replay(F, G) ==
    LET first == ReplayRun("PASS", F)
    IN IF NoSession(F) THEN first ELSE ReplayRun(first, G)

Impersonate(F) ==
    LET absorbed == Absorb("PASS", F)
        handled == Fail(absorbed, "reached" \in F)
    IN IF "launch" \in F THEN absorbed
       ELSE IF "unrun" \in F THEN Block(handled, TRUE) ELSE Fail(handled, "own" \in F)

Noise(F) == Fail(Absorb("PASS", F), ~NoSession(F) /\ "own" \in F)

Bootstrap(F) == Fail("PASS", F \cap {"launch", "exit", "reached"} # {})

HandshakeTimeout(F) == Fail("PASS", F \cap {"launch", "reached", "exit"} # {})

\* The launch must fail.
MissingJVM(F) == Fail("PASS", "own" \in F)

Squat(F) == Fail("PASS", "own" \in F)

SecondInstance(F) ==
    IF "launch" \in F THEN Block("PASS", TRUE)
    ELSE IF "own" \in F THEN Fail("PASS", TRUE) ELSE Block("PASS", "unrun" \in F)

\* The detectors are tried on a planted listener and a planted secret.
SelfCheck(F) ==
    LET tcp == IF "tcpUnrun" \in F THEN Block("PASS", TRUE) ELSE Fail("PASS", "tcp" \in F)
    IN IF "launch" \in F THEN Fail(tcp, TRUE)
       ELSE IF F \cap {"unrun", "leakUnrun"} # {} THEN Block(tcp, TRUE)
       ELSE Fail(tcp, "leaked" \in F)

TreeKill(F) ==
    LET absorbed == Absorb("PASS", F)
    IN IF NoSession(F) THEN absorbed
       ELSE IF "unrun" \in F THEN Block(absorbed, TRUE)
       ELSE Fail(absorbed, F \cap {"leftUnknown", "own"} # {})

Crash(F) ==
    LET absorbed == Absorb("PASS", F)
        exit == Fail(absorbed, "exit" \in F)
    IN IF NoSession(F) THEN absorbed
       ELSE IF "unrun" \in F THEN Block(exit, TRUE) ELSE Fail(exit, "own" \in F)

OOM(F) == Fail(Absorb("PASS", F), ~NoSession(F) /\ F \cap {"exit", "own"} # {})

Oversize(F) == Fail(Absorb("PASS", F), ~NoSession(F) /\ F \cap {"own", "alive"} # {})

\* Several sessions at once, each judged by itself.
ConcurrentRun(st, F) == Fail(st, F \cap {"launch", "silent", "drive", "own"} # {})
Concurrent(F, G) == ConcurrentRun(ConcurrentRun("PASS", F), G)

ConnectFlood(F) ==
    Fail(Absorb("PASS", F), "launch" \notin F /\ F \cap {"reached", "own"} # {})

\* An error of the run counts only when no result has failed.
BridgeSelfTest(F) ==
    LET own == Fail("PASS", "own" \in F)
    IN Fail(Fail(own, "launch" \in F /\ own = "PASS"), "silent" \in F)

ConnectRepeat(F, G) ==
    Fail("PASS", (F \cup G) \cap {"launch", "silent", "drive", "exit", "uncaught"} # {})

Judge(s, F, G) ==
    CASE s = "handshake" -> Handshake(F)     [] s = "duplex" -> Duplex(F)
      [] s = "backpressure" -> Backpressure(F) [] s = "noise" -> Noise(F)
      [] s = "bad-credential" -> BadCredential(F) [] s = "replay" -> Replay(F, G)
      [] s = "impersonate" -> Impersonate(F) [] s = "kill" -> Kill(F)
      [] s \in {"cancel", "cancel-backpressure"} -> Cancel(F, G)
      [] s = "oversize" -> Oversize(F)
      [] s = "concurrent" -> Concurrent(F, G)
      [] s = "connect-flood" -> ConnectFlood(F)
      [] s = "connect-repeat" -> ConnectRepeat(F, G)
      [] s = "tree-kill" -> TreeKill(F)      [] s = "crash" -> Crash(F)
      [] s = "oom" -> OOM(F)                 [] s = "second-instance" -> SecondInstance(F)
      [] s = "bootstrap" -> Bootstrap(F)
      [] s = "handshake-timeout" -> HandshakeTimeout(F)
      [] s = "missing-jvm" -> MissingJVM(F)  [] s = "squat" -> Squat(F)
      [] s = "detector-self-check" -> SelfCheck(F)
      [] s = "bridge-selftest" -> BridgeSelfTest(F)

(* ------------------------------- main --------------------------------- *)

PerTransport ==
    <<"duplex", "backpressure", "noise", "bad-credential", "replay", "impersonate",
      "kill", "cancel", "cancel-backpressure", "oversize", "concurrent", "connect-flood",
      "connect-repeat", "tree-kill", "crash", "oom", "second-instance">>
PerOS == <<"bootstrap", "handshake-timeout", "missing-jvm", "squat",
           "detector-self-check", "bridge-selftest">>
Repeated == {"replay", "cancel", "cancel-backpressure", "concurrent", "connect-repeat"}

\* The steps in their order: those of the platform follow the transport's.
Scenario(n) == IF n <= Len(PerTransport) THEN PerTransport[n] ELSE PerOS[n - Len(PerTransport)]

\* The steps of transport i: only the first one has those of the platform, and a
\* second instance is tried on named pipes only.
Steps(i) == IF i = 1 THEN Len(PerTransport) + Len(PerOS) ELSE Len(PerTransport)
Want(i, s) == s \in Selected /\ (s = "second-instance" => Transports[i] = "npipe")

NoEvidence == [scenario |-> "none", status |-> "PASS", faults |-> {}, run |-> FALSE]
Init == /\ t = 1 /\ at = 1 /\ hs = "none" /\ last = NoEvidence
        /\ all = [i \in 1..Len(Transports) |-> {}]

Emit(s, F, ran, status) ==
    /\ last' = [scenario |-> s, status |-> status, faults |-> F, run |-> ran]
    /\ all' = [all EXCEPT ![t] = @ \cup {s}]

RunHandshake ==
    /\ t > 0 /\ hs = "none"
    /\ \E F \in FaultSets : Emit("handshake", F, TRUE, Handshake(F)) /\ hs' = Handshake(F)
    /\ at' = 1 /\ t' = t

\* main has come to a step of a transport whose handshake is known.
Come == t > 0 /\ hs # "none" /\ at <= Steps(t)
Gated(n) == n <= Len(PerTransport) /\ hs # "PASS"

RunScenario ==
    /\ Come /\ Want(t, Scenario(at)) /\ ~Gated(at)
    /\ LET s == Scenario(at)
       IN \E F \in IF s \in Repeated THEN RunFaultSets ELSE FaultSets :
            \E G \in IF s \in Repeated THEN RunFaultSets ELSE {{}} :
              Emit(s, F \cup G, TRUE, Judge(s, F, G))
    /\ at' = at + 1
    /\ UNCHANGED <<t, hs>>

NotRun ==
    /\ Come /\ Want(t, Scenario(at)) /\ Gated(at)
    /\ Emit(Scenario(at), {}, FALSE, Block("PASS", TRUE))
    /\ at' = at + 1
    /\ UNCHANGED <<t, hs>>

NotWanted ==
    /\ Come /\ ~Want(t, Scenario(at))
    /\ at' = at + 1
    /\ UNCHANGED <<t, hs, last, all>>

NextTransport ==
    /\ t > 0 /\ hs # "none" /\ at > Steps(t)
    /\ t' = IF t = Len(Transports) THEN 0 ELSE t + 1
    /\ hs' = "none" /\ last' = NoEvidence /\ at' = 1
    /\ UNCHANGED all

Done == t = 0 /\ UNCHANGED vars
Next == RunHandshake \/ RunScenario \/ NotRun \/ NotWanted \/ NextTransport \/ Done
Spec == Init /\ [][Next]_vars

(* ----------------------------- properties ----------------------------- *)

Statuses == {"PASS", "FAIL", "BLOCKED"}
TypeOK ==
    /\ t \in 0..Len(Transports) /\ hs \in Statuses \cup {"none"}
    /\ at \in 1..(Len(PerTransport) + Len(PerOS) + 1)
    /\ last.status \in Statuses /\ last.faults \subseteq Faults

\* main.go:78 - the call that records a missing prerequisite never hides a
\* failure: a scenario whose job could not be launched, whose session failed
\* or that found a leak is a FAIL whatever else could not be checked.
FailureStands ==
    (/\ last.scenario \in {"handshake", "duplex", "backpressure"}
     /\ last.faults \cap {"launch", "silent", "drive", "uncaught", "leaked", "tcp", "env"} # {})
    => last.status = "FAIL"

\* scenarios.go:95 - where a check is made, one that could not run never
\* ends as a PASS.
UnrunNeverPasses ==
    /\ last.scenario \in {"handshake", "duplex", "backpressure", "detector-self-check"} =>
         (last.status = "PASS" => last.faults \cap {"leakUnrun", "tcpUnrun"} = {})
    /\ last.scenario \in {"cancel", "cancel-backpressure"} =>
         (last.status = "PASS" => "leftUnknown" \notin last.faults)
    /\ last.scenario \in {"impersonate", "tree-kill", "crash", "second-instance",
                          "detector-self-check"} =>
         (last.status = "PASS" => "unrun" \notin last.faults)

\* main.go:303 - on a transport whose handshake did not pass, no scenario of
\* the transport is run or passes.
GatedByHandshake ==
    ((\E n \in 1..Len(PerTransport) : last.scenario = PerTransport[n]) /\ hs # "PASS") =>
        ~last.run /\ last.status = "BLOCKED"

\* main.go:297 - every scenario asked for leaves evidence on every
\* transport, the ones of the platform once.
AllReported ==
    t = 0 => \A i \in 1..Len(Transports) :
               all[i] = {"handshake"} \cup
                        {Scenario(n) : n \in {m \in 1..Steps(i) : Want(i, Scenario(m))}}
================================================================================

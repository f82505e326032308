-------------------------------- MODULE Sigma --------------------------------
(***************************************************************************)
(* The Six Sigma suite (internal/desktop/app_sigma.go, sigma/service,      *)
(* sigma/tollgate, db/sigma.go): a Sigma project of the open file, the     *)
(* records of its phases, the readiness checks of its tollgates, the tool  *)
(* status shown beside them, and the move to another phase.                *)
(*                                                                         *)
(* A call first checks that the project belongs to the open file and then  *)
(* asks again for the service; the file may be closed, or another one      *)
(* opened, between the two.  Opening a file closes the one before it, and  *)
(* a statement on a closed database fails.                                 *)
(***************************************************************************)
EXTENDS Naturals, FiniteSets

CONSTANTS Files,   \* project files that hold the Sigma project: one, and its clone
          MaxCalls \* bound: calls begun

SigmaAssumption == "none" \notin Files /\ MaxCalls \in Nat

VARIABLES open,  \* the open file, or "none"
          phase, \* the phase of the Sigma project in each file
          work,  \* its records in each file
          call,  \* the call in flight
          begun,
          ended  \* how the last call ended

vars == <<open, phase, work, call, begun, ended>>

Phases == {"define", "measure", "analyze", "improve", "control"}

\* A problem statement may be blank but long ("pad"); rest counts which of the
\* business case, goal, sponsor and scope are there.  One solution is scored and
\* selected, two are not selected, and "selected" is two with one selected.
Records == [problem : {"none", "pad", "short", "full"}, rest : {0, 3, 4}, sipoc : {0, 4, 5}, ctq : BOOLEAN,
            fishbone : {"none", "causes", "whys"}, solutions : {"none", "one", "two", "selected"},
            plan : {"none", "item", "owned", "answered"}]
Nothing == [problem |-> "none", rest |-> 0, sipoc |-> 0, ctq |-> FALSE, fishbone |-> "none",
            solutions |-> "none", plan |-> "none"]
NoCall == [op |-> "none", to |-> "none", pc |-> "idle", where |-> "none", svc |-> "none", passed |-> 0]

Init ==
    /\ open = "none" /\ phase = [f \in Files |-> "define"] /\ work = [f \in Files |-> Nothing]
    /\ call = NoCall /\ begun = 0 /\ ended = "none"

(* ------------------------------ tollgates ----------------------------- *)

CharterChecks(w) == w.rest + IF w.problem = "full" THEN 1 ELSE 0
OneIf(b) == IF b THEN 1 ELSE 0

\* Six of the seven checks: 80% of them.
CheckDefineReadiness(w) == CharterChecks(w) + OneIf(w.sipoc >= 5) + OneIf(w.ctq) >= 6
CheckAnalyzeReadiness(w) == w.fishbone = "whys"
CheckImproveReadiness(w) == w.solutions = "selected"
CheckControlReadiness(w) == w.plan = "answered"
CheckPhase(p, w) ==
    CASE p = "define"  -> CheckDefineReadiness(w)
      [] p = "analyze" -> CheckAnalyzeReadiness(w)
      [] p = "improve" -> CheckImproveReadiness(w)
      [] p = "control" -> CheckControlReadiness(w)
      [] OTHER         -> TRUE

\* The tools of a phase that are not shown as completed.
GetToolStatus(p, w) ==
    CASE p = "define"  -> (IF w.problem \in {"pad", "full"} THEN {} ELSE {"charter"})
                              \cup (IF w.sipoc >= 5 THEN {} ELSE {"sipoc"})
      [] p = "analyze" -> IF w.fishbone = "none" THEN {"fishbone"} ELSE {}
      [] p = "improve" -> IF w.solutions \in {"none", "two"} THEN {"solutions"} ELSE {}
      [] p = "control" -> IF w.plan \in {"none", "item"} THEN {"plan"} ELSE {}
      [] OTHER -> {}

(* ------------------------------ the calls ----------------------------- *)

OpenFile ==
    /\ \E f \in Files \cup {"none"} : f # open /\ open' = f
    /\ UNCHANGED <<phase, work, call, begun, ended>>

Begin ==
    /\ call = NoCall /\ begun < MaxCalls /\ begun' = begun + 1 /\ ended' = "none"
    /\ \/ \E op \in {"charter", "sipoc", "voc", "fishbone", "solutions", "plan", "read"} :
             call' = [NoCall EXCEPT !.op = op, !.pc = "check"]
       \/ \E p \in Phases : /\ open # "none" \* SigmaAdvancePhase takes the service first
                            /\ call' = [NoCall EXCEPT !.op = "advance", !.to = p, !.pc = "check", !.svc = open]
    /\ UNCHANGED <<open, phase, work>>

End(how) == call' = NoCall /\ ended' = how

RequireSigmaProjectInOpenFile ==
    /\ call.pc = "check"
    /\ \/ open = "none" /\ End("error")
       \/ /\ open # "none"
          /\ call' = [call EXCEPT !.where = open,
                        !.pc = IF call.op # "advance" THEN "service"
                               ELSE IF phase[open] = "define" /\ call.to # "define" THEN "gate" ELSE "write"]
          /\ UNCHANGED ended
    /\ UNCHANGED <<open, phase, work, begun>>

\* The second look for the service is not checked: without one the call panics.
RequireSigmaSvc ==
    /\ call.pc = "service"
    /\ \/ open = "none" /\ End("panic")
       \/ /\ open # "none" /\ call' = [call EXCEPT !.svc = open, !.pc = IF call.op = "read" THEN "reads" ELSE "write"]
          /\ UNCHANGED ended
    /\ UNCHANGED <<open, phase, work, begun>>

\* The charter, the SIPOC and the voice of the customer, one after the other; a
\* charter that cannot be read is a nil pointer, the other two count as missing.
Gate ==
    /\ call.pc = "gate"
    /\ \/ call.svc # open /\ End("panic")
       \/ /\ call.svc = open
          /\ call' = [call EXCEPT !.pc = "sipoc", !.passed = CharterChecks(work[call.svc])]
          /\ UNCHANGED ended
    /\ UNCHANGED <<open, phase, work, begun>>

GateReads ==
    /\ call.pc \in {"sipoc", "voc"}
    /\ LET w == work[call.svc]
           n == call.passed + (IF call.svc # open THEN 0
                               ELSE IF call.pc = "sipoc" THEN OneIf(w.sipoc >= 5) ELSE OneIf(w.ctq))
       IN \/ call.pc = "sipoc" /\ call' = [call EXCEPT !.pc = "voc", !.passed = n] /\ UNCHANGED ended
          \/ call.pc = "voc" /\ n >= 6 /\ call' = [call EXCEPT !.pc = "write", !.passed = n] /\ UNCHANGED ended
          \/ call.pc = "voc" /\ n < 6 /\ End("refused")
    /\ UNCHANGED <<open, phase, work, begun>>

Field(op, w) ==
    CASE op = "charter" -> {[w EXCEPT !.problem = p, !.rest = r] : p \in {"none", "pad", "short", "full"}, r \in {0, 3, 4}}
      [] op = "sipoc" -> {[w EXCEPT !.sipoc = n] : n \in {0, 4, 5}}
      [] op = "voc" -> {[w EXCEPT !.ctq = b] : b \in BOOLEAN}
      [] op = "fishbone" -> {[w EXCEPT !.fishbone = b] : b \in {"none", "causes", "whys"}}
      [] op = "solutions" -> {[w EXCEPT !.solutions = s] : s \in {"none", "one", "two", "selected"}}
      [] OTHER -> {[w EXCEPT !.plan = p] : p \in {"none", "item", "owned", "answered"}}

Save ==
    /\ call.pc = "write"
    /\ \/ call.svc # open /\ End("error") /\ UNCHANGED <<phase, work>>
       \/ /\ call.svc = open /\ call.op = "advance"
          /\ phase' = [phase EXCEPT ![call.svc] = call.to] /\ End("ok") /\ UNCHANGED work
       \/ /\ call.svc = open /\ call.op # "advance"
          /\ \E w \in Field(call.op, work[call.svc]) : work' = [work EXCEPT ![call.svc] = w]
          /\ End(IF call.svc = call.where THEN "ok" ELSE "elsewhere") /\ UNCHANGED phase
    /\ UNCHANGED <<open, begun>>

\* SigmaCheckReadiness, SigmaGetToolStatus and the report read every record.
ReadAll == call.pc = "reads" /\ End(IF call.svc = open THEN "ok" ELSE "error") /\ UNCHANGED <<open, phase, work, begun>>

Next == OpenFile \/ Begin \/ RequireSigmaProjectInOpenFile \/ RequireSigmaSvc \/ Gate \/ GateReads \/ Save \/ ReadAll
Spec == Init /\ [][Next]_vars

(* ----------------------------- properties ----------------------------- *)

\* Every variable holds a value of its kind.
TypeOK ==
    /\ open \in Files \cup {"none"} /\ phase \in [Files -> Phases]
    /\ \A f \in Files : work[f] \in Records
    /\ call.where \in Files \cup {"none"} /\ call.passed \in 0..7 /\ begun \in 0..MaxCalls
    /\ call.pc \in {"service", "reads"} => call.where # "none"

\* The records and the phase of a file change only while it is the open one: a
\* call that outlives its file writes nothing behind the next file's back.
NoWriteBehind == \A f \in Files : phase'[f] # phase[f] \/ work'[f] # work[f] => open = f

\* A phase whose tollgate is ready shows its tools as completed, but for one in
\* Define, where one check of seven may fail (GetToolStatus, CheckPhase).
StatusAgreesWithGate ==
    \A f \in Files, p \in Phases :
        CheckPhase(p, work[f]) => Cardinality(GetToolStatus(p, work[f])) <= IF p = "define" THEN 1 ELSE 0

\* A call that finds no open project ends with the error that says so
\* (requireSigmaProjectInOpenFile: "sigma: no project open").
ClosedMeansError == ended # "panic"

\* A save lands in the file the check found the project in: an id of another file
\* would otherwise "write against the wrong tenant's data" (app_sigma.go).
SavedWhereChecked == ended # "elsewhere"
=============================================================================

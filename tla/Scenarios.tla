------------------------------ MODULE Scenarios ------------------------------
(***************************************************************************)
(* What-if scenarios (db/scenarios.go), baselines (db/baselines.go) and    *)
(* the live chart both start from, through the bound calls of              *)
(* desktop/app_foundation.go and desktop/app_charts.go.                    *)
(*                                                                         *)
(* Every writer is one transaction.  Branching reads the scenario, the     *)
(* chart and the baseline before its transaction: two steps.               *)
(***************************************************************************)
EXTENDS Naturals, Sequences, FiniteSets, SequencesExt

CONSTANTS
    Scenarios,    \* scenario identities
    Baselines,    \* baseline identities
    Copies,       \* identities of scenario charts
    MaxEdits,     \* bound: edits of the live chart
    MaxEvents     \* bound: audit events about scenarios

BoundsAssumption == MaxEdits \in Nat \ {0} /\ MaxEvents \in Nat

VARIABLES
    chart,        \* the live schedule: 0 when it is not there, else its edition
    baselines,    \* table baselines
    scenarios,    \* table scenarios
    copies,       \* table scenario_charts
    branch,       \* the branching in flight
    audit         \* the audit events about scenarios

vars == <<chart, baselines, scenarios, copies, branch, audit>>

None == "none"

\* What a baseline stores: the scheduled tasks by identity, or a chart document.
Forms == {"tasks", "document"}

NoBaseline == [there |-> FALSE, form |-> "tasks", edition |-> 0]
NoScenario == [there |-> FALSE, active |-> FALSE, source |-> None]
NoCopy == [there |-> FALSE, of |-> None, edition |-> 0, base |-> None]

TypeOK ==
    /\ chart \in 0 .. MaxEdits
    /\ baselines \in [Baselines -> [there : BOOLEAN, form : Forms, edition : 0 .. MaxEdits]]
    /\ scenarios \in [Scenarios -> [there : BOOLEAN, active : BOOLEAN, source : Baselines \cup {None}]]
    /\ copies \in [Copies -> [there : BOOLEAN, of : Scenarios \cup {None}, edition : 0 .. MaxEdits,
                              base : Forms \cup {None}]]
    /\ branch \in [at : {"idle", "read"}, of : Scenarios \cup {None}, edition : 0 .. MaxEdits,
                   base : Forms \cup {None}]
    /\ \A i \in DOMAIN audit : audit[i].id \in Scenarios

NoBranch == [at |-> "idle", of |-> None, edition |-> 0, base |-> None]

Init ==
    /\ chart = 1
    /\ baselines = [b \in Baselines |-> NoBaseline]
    /\ scenarios = [s \in Scenarios |-> NoScenario]
    /\ copies = [c \in Copies |-> NoCopy]
    /\ branch = NoBranch
    /\ audit = <<>>

Room == Len(audit) < MaxEvents

-----------------------------------------------------------------------------
(* The live chart and its baselines                                         *)

EditChart ==
    /\ chart \in 1 .. (MaxEdits - 1)
    /\ chart' = chart + 1
    /\ UNCHANGED <<baselines, scenarios, copies, branch, audit>>

\* DeleteChart: the baselines go by cascade; scenario charts have no foreign
\* key to the chart and stay.
DeleteChart ==
    /\ chart # 0
    /\ chart' = 0
    /\ baselines' = [b \in Baselines |-> NoBaseline]
    /\ UNCHANGED <<scenarios, copies, branch, audit>>

\* SetScheduleBaseline stores the scheduled task map.
SetScheduleBaseline(b) ==
    /\ chart # 0 /\ ~baselines[b].there
    /\ baselines' = [baselines EXCEPT ![b] = [there |-> TRUE, form |-> "tasks", edition |-> chart]]
    /\ UNCHANGED <<chart, scenarios, copies, branch, audit>>

\* DeleteBaseline refuses while a scenario names it.
DeleteBaseline(b) ==
    /\ baselines[b].there
    /\ \A s \in Scenarios : scenarios[s].there => scenarios[s].source # b
    /\ baselines' = [baselines EXCEPT ![b] = NoBaseline]
    /\ UNCHANGED <<chart, scenarios, copies, branch, audit>>

-----------------------------------------------------------------------------
(* Scenarios                                                                *)

Event(s, after) == [id |-> s, after |-> after]

\* The other scenarios that are active.
OthersActive(s) == {x \in Scenarios \ {s} : scenarios[x].there /\ scenarios[x].active}

\* SaveScenario: activating one deactivates the others, each with its event.
\* The source baseline is stored as it is given.
SaveScenario(s, active, source) ==
    LET row == [there |-> TRUE, active |-> active, source |-> source]
        others == IF active THEN OthersActive(s) ELSE {}
        after == [x \in Scenarios |->
                     IF x = s THEN row
                     ELSE IF x \in others THEN [scenarios[x] EXCEPT !.active = FALSE]
                     ELSE scenarios[x]]
        order == SetToSeq(others)
        events == [i \in DOMAIN order |-> Event(order[i], after[order[i]])]
    IN  /\ scenarios' = after
        /\ audit' = Append(audit \o events, Event(s, row))

SaveAnyScenario ==
    /\ Room
    /\ \E s \in Scenarios, active \in BOOLEAN, source \in Baselines \cup {None} :
           SaveScenario(s, active, source)
    /\ UNCHANGED <<chart, baselines, copies, branch>>

\* DeleteScenario: its charts go by cascade.
DeleteScenario(s) ==
    /\ Room /\ scenarios[s].there
    /\ scenarios' = [scenarios EXCEPT ![s] = NoScenario]
    /\ copies' = [c \in Copies |-> IF copies[c].of = s THEN NoCopy ELSE copies[c]]
    /\ audit' = Append(audit, Event(s, NoScenario))
    /\ UNCHANGED <<chart, baselines, branch>>

-----------------------------------------------------------------------------
(* Scenario charts                                                          *)

\* BranchScenarioChart reads: the baseline asked for, or the scenario's; one
\* that is named and not there ends the call.
BranchRead(s, asked) ==
    /\ branch.at = "idle" /\ scenarios[s].there /\ chart # 0
    /\ LET b == IF asked # None THEN asked ELSE scenarios[s].source
       IN  /\ b # None => baselines[b].there
           /\ branch' = [at |-> "read", of |-> s, edition |-> chart,
                         base |-> IF b = None THEN None ELSE baselines[b].form]
    /\ UNCHANGED <<chart, baselines, scenarios, copies, audit>>

\* The copy is stored unless the scenario has gone: the foreign key.
BranchWrite(c) ==
    /\ branch.at = "read"
    /\ ~copies[c].there /\ scenarios[branch.of].there
    /\ copies' = [copies EXCEPT ![c] =
           [there |-> TRUE, of |-> branch.of, edition |-> branch.edition, base |-> branch.base]]
    /\ branch' = NoBranch
    /\ UNCHANGED <<chart, baselines, scenarios, audit>>

BranchFail ==
    /\ branch.at = "read"
    /\ branch' = NoBranch
    /\ UNCHANGED <<chart, baselines, scenarios, copies, audit>>

SaveScenarioChart(c) ==
    /\ copies[c].there
    /\ \E e \in 1 .. MaxEdits : copies' = [copies EXCEPT ![c].edition = e]
    /\ UNCHANGED <<chart, baselines, scenarios, branch, audit>>

\* PromoteScenarioChartToBaseline stores the copy's chart document.
PromoteScenarioChartToBaseline(c, b) ==
    /\ copies[c].there /\ chart # 0 /\ ~baselines[b].there
    /\ baselines' = [baselines EXCEPT ![b] =
           [there |-> TRUE, form |-> "document", edition |-> copies[c].edition]]
    /\ UNCHANGED <<chart, scenarios, copies, branch, audit>>

Next ==
    \/ EditChart \/ DeleteChart \/ SaveAnyScenario \/ BranchFail
    \/ \E b \in Baselines : SetScheduleBaseline(b) \/ DeleteBaseline(b)
    \/ \E s \in Scenarios : DeleteScenario(s) \/ \E b \in Baselines \cup {None} : BranchRead(s, b)
    \/ \E c \in Copies : BranchWrite(c) \/ SaveScenarioChart(c)
    \/ \E c \in Copies, b \in Baselines : PromoteScenarioChartToBaseline(c, b)

Spec == Init /\ [][Next]_vars

-----------------------------------------------------------------------------
(* Properties                                                               *)

\* A project has at most one active scenario.
OneActive == Cardinality({s \in Scenarios : scenarios[s].there /\ scenarios[s].active}) <= 1

\* The audit trail replays for scenarios, also for one that was changed only
\* because another was activated.
ScenarioAuditReplays ==
    \A s \in Scenarios :
        LET about == {i \in DOMAIN audit : audit[i].id = s}
        IN  scenarios[s] = IF about = {} THEN NoScenario ELSE audit[Max(about)].after

\* No scenario chart is left without its scenario, although a branching reads
\* the scenario before its transaction.
CopiesOwned == \A c \in Copies : copies[c].there => scenarios[copies[c].of].there

\* baselines.go says a baseline a scenario names as its source is not
\* deleted: branching looks it up again.
BaselineInUseKept ==
    [][\A b \in Baselines :
         (baselines[b].there /\ \E s \in Scenarios : scenarios[s].there /\ scenarios[s].source = b)
         => baselines'[b].there]_vars

\* baselines.go says the data of a baseline is the scheduled tasks keyed by
\* identity, which is what CompareScheduleBaseline decodes.
BaselinesComparable == \A b \in Baselines : baselines[b].there => baselines[b].form = "tasks"

=============================================================================

------------------------------- MODULE Records -------------------------------
(***************************************************************************)
(* Documents, charts and baselines of the open project: the bound calls of *)
(* desktop/app_documents.go and desktop/app_charts.go over the writers of  *)
(* db/documents.go, db/charts.go and db/baselines.go.                      *)
(*                                                                         *)
(* A bound call reads what it needs without a lock, computes, and then     *)
(* writes in one transaction with its audit event: two steps here, between *)
(* which other calls run.  That transactions are serial is AuditChain's    *)
(* subject.                                                                *)
(***************************************************************************)
EXTENDS Naturals, Sequences, FiniteSets, FiniteSetsExt

CONSTANTS
    Calls,        \* bound calls that may run at once
    Docs,         \* document identities
    Charts,       \* chart identities
    Schedule,     \* the chart that is a CPM schedule and is never the histogram
    Bodies,       \* contents
    MaxEvents     \* bound: audit events

ConstantsAssumption == Schedule \in Charts /\ Docs \cap Charts = {} /\ MaxEvents \in Nat

VARIABLES
    docs,        \* table documents
    charts,      \* table charts
    baselines,   \* table baselines: the set of [chart, body]
    audit,       \* the audit events of the project
    call         \* what each call has read

vars == <<docs, charts, baselines, audit, call>>

Statuses == {"draft", "review", "approved", "archived"}

None == "none"
NoDoc == [there |-> FALSE, body |-> None, status |-> "draft", version |-> 0]
NoChart == [there |-> FALSE, body |-> None, of |-> None]

Document == [there : BOOLEAN, body : Bodies \cup {None}, status : Statuses, version : 0 .. MaxEvents]

\* of: the chart this one is the resource histogram of, from its config.
Chart == [there : BOOLEAN, body : Bodies \cup {None}, of : Charts \cup {None}]

Idle == [op |-> "idle"]

Ops == {"idle", "saveDoc", "deleteDoc", "sync", "saveChart", "deleteChart", "level",
        "histogram", "baseline"}

TypeOK ==
    /\ docs \in [Docs -> Document] /\ charts \in [Charts -> Chart]
    /\ \A b \in baselines : b.chart \in Charts /\ b.body \in Bodies
    /\ Len(audit) <= MaxEvents + 1
    /\ \A p \in Calls : call[p].op \in Ops

Init ==
    /\ docs = [d \in Docs |-> NoDoc]
    /\ charts = [c \in Charts |-> NoChart]
    /\ baselines = {} /\ audit = <<>>
    /\ call = [p \in Calls |-> Idle]

-----------------------------------------------------------------------------
(* The writers                                                              *)

Log(type, id, after) == audit' = Append(audit, [type |-> type, id |-> id, after |-> after])

\* Mutant: only a document that changes its status gets a checkpoint.
WriteDocumentOnChange(d, body, status, version) ==
    LET before == docs[d]
        after == [there |-> TRUE, body |-> body, status |-> status,
                  version |-> IF before.there THEN before.version + 1 ELSE version]
        saved == [type |-> "save", id |-> d, after |-> after]
    IN  /\ docs' = [docs EXCEPT ![d] = after]
        /\ audit' = IF status = "approved" /\ before.there /\ before.status # "approved"
                    THEN Append(Append(audit, saved), [saved EXCEPT !.type = "checkpoint"])
                    ELSE Append(audit, saved)

\* db.SaveDocument: version + 1 on an update; a checkpoint when the document
\* becomes approved, also by being created so.
WriteDocument(d, body, status, version) ==
    LET before == docs[d]
        after == [there |-> TRUE, body |-> body, status |-> status,
                  version |-> IF before.there THEN before.version + 1 ELSE version]
        saved == [type |-> "save", id |-> d, after |-> after]
    IN  /\ docs' = [docs EXCEPT ![d] = after]
        /\ audit' = IF status = "approved" /\ (~before.there \/ before.status # "approved")
                    THEN Append(Append(audit, saved), [saved EXCEPT !.type = "checkpoint"])
                    ELSE Append(audit, saved)

\* db.SaveChart
WriteChart(c, row) ==
    /\ charts' = [charts EXCEPT ![c] = row]
    /\ Log("save", c, row)

Return(p) == call' = [call EXCEPT ![p] = Idle]

\* A read that does not find its record ends the call; so may any error.
Give(p) ==
    /\ call[p].op # "idle"
    /\ Return(p)
    /\ UNCHANGED <<docs, charts, baselines, audit>>

Room == Len(audit) < MaxEvents

-----------------------------------------------------------------------------
(* Documents                                                                *)

\* NewDocument, or SaveDocument without an identity.
NewDocument(d) ==
    /\ Room /\ ~docs[d].there /\ \A i \in DOMAIN audit : audit[i].id # d
    /\ \E b \in Bodies, s \in {"draft", "approved"} : WriteDocument(d, b, s, 1)
    /\ UNCHANGED <<charts, baselines, call>>

\* SaveDocument of a document the editor holds: documentForProject finds it.
SaveDocumentCheck(p, d) ==
    /\ call[p] = Idle /\ docs[d].there
    /\ \E b \in Bodies, s \in {"draft", "approved"} :
           call' = [call EXCEPT ![p] =
               [op |-> "saveDoc", id |-> d, body |-> b, status |-> s, version |-> docs[d].version]]
    /\ UNCHANGED <<docs, charts, baselines, audit>>

SaveDocument(p) ==
    /\ call[p].op = "saveDoc" /\ Room
    /\ WriteDocument(call[p].id, call[p].body, call[p].status, call[p].version)
    /\ Return(p)
    /\ UNCHANGED <<charts, baselines>>

\* DeleteDocument: nil for a document that is not there.
DeleteDocumentCheck(p, d) ==
    /\ call[p] = Idle /\ docs[d].there
    /\ call' = [call EXCEPT ![p] = [op |-> "deleteDoc", id |-> d]]
    /\ UNCHANGED <<docs, charts, baselines, audit>>

DeleteDocument(p) ==
    /\ call[p].op = "deleteDoc" /\ Room
    /\ docs' = [docs EXCEPT ![call[p].id] = NoDoc]
    /\ IF docs[call[p].id].there THEN Log("delete", call[p].id, NoDoc) ELSE UNCHANGED audit
    /\ Return(p)
    /\ UNCHANGED <<charts, baselines>>

\* SyncRiskRegisterToMatrix: the register and the matrix are read, the
\* matrix is written whole with the register's rows.
SyncRead(p, d, c) ==
    /\ call[p] = Idle /\ docs[d].there /\ charts[c].there
    /\ c # Schedule /\ charts[c].of = None
    /\ call' = [call EXCEPT ![p] =
           [op |-> "sync", id |-> c, row |-> [charts[c] EXCEPT !.body = docs[d].body]]]
    /\ UNCHANGED <<docs, charts, baselines, audit>>

-----------------------------------------------------------------------------
(* Charts                                                                   *)

\* SaveChart without an identity, and an import: a new chart.
NewChart(c) ==
    /\ Room /\ ~charts[c].there /\ \A i \in DOMAIN audit : audit[i].id # c
    /\ \E b \in Bodies : WriteChart(c, [there |-> TRUE, body |-> b, of |-> None])
    /\ UNCHANGED <<docs, baselines, call>>

SaveChartCheck(p, c) ==
    /\ call[p] = Idle /\ charts[c].there
    /\ \E b \in Bodies :
           call' = [call EXCEPT ![p] =
               [op |-> "saveChart", id |-> c, row |-> [charts[c] EXCEPT !.body = b]]]
    /\ UNCHANGED <<docs, charts, baselines, audit>>

\* LevelChartResources: the schedule is read and levelled.
LevelRead(p) ==
    /\ call[p] = Idle /\ charts[Schedule].there
    /\ \E b \in Bodies :
           call' = [call EXCEPT ![p] =
               [op |-> "level", id |-> Schedule, row |-> [charts[Schedule] EXCEPT !.body = b]]]
    /\ UNCHANGED <<docs, charts, baselines, audit>>

\* The last step of SaveChart, LevelChartResources and the synchronisation:
\* the chart is written as it was read, with the new data.
SaveChart(p) ==
    /\ call[p].op \in {"saveChart", "level", "sync"} /\ Room
    /\ WriteChart(call[p].id, call[p].row)
    /\ Return(p)
    /\ UNCHANGED <<docs, baselines>>

\* GenerateResourceHistogram: a histogram of this schedule that is there is
\* written again, else the chart gets a new identity.
HistogramRead(p) ==
    /\ call[p] = Idle /\ charts[Schedule].there
    /\ LET old == {c \in Charts : charts[c].there /\ charts[c].of = Schedule}
           fresh == {c \in Charts \ {Schedule} :
                         ~charts[c].there /\ (\A i \in DOMAIN audit : audit[i].id # c)
                         /\ (\A q \in Calls : call[q].op = "histogram" => call[q].id # c)}
       IN  \E c \in (IF old # {} THEN old ELSE fresh) :
               call' = [call EXCEPT ![p] = [op |-> "histogram", id |-> c,
                   row |-> [there |-> TRUE, body |-> charts[Schedule].body, of |-> Schedule]]]
    /\ UNCHANGED <<docs, charts, baselines, audit>>

GenerateResourceHistogram(p) ==
    /\ call[p].op = "histogram" /\ Room
    /\ WriteChart(call[p].id, call[p].row)
    /\ Return(p)
    /\ UNCHANGED <<docs, baselines>>

DeleteChartCheck(p, c) ==
    /\ call[p] = Idle /\ charts[c].there
    /\ call' = [call EXCEPT ![p] = [op |-> "deleteChart", id |-> c]]
    /\ UNCHANGED <<docs, charts, baselines, audit>>

\* The baselines of the chart go with it (ON DELETE CASCADE).
DeleteChart(p) ==
    /\ call[p].op = "deleteChart" /\ Room
    /\ charts' = [charts EXCEPT ![call[p].id] = NoChart]
    /\ baselines' = {b \in baselines : b.chart # call[p].id}
    /\ IF charts[call[p].id].there THEN Log("delete", call[p].id, NoChart) ELSE UNCHANGED audit
    /\ Return(p)
    /\ UNCHANGED docs

-----------------------------------------------------------------------------
(* Baselines                                                                *)

BaselineRead(p) ==
    /\ call[p] = Idle /\ charts[Schedule].there
    /\ call' = [call EXCEPT ![p] = [op |-> "baseline", body |-> charts[Schedule].body]]
    /\ UNCHANGED <<docs, charts, baselines, audit>>

\* SetScheduleBaseline: the foreign key refuses a chart that has gone since.
SetScheduleBaseline(p) ==
    /\ call[p].op = "baseline" /\ Room
    /\ charts[Schedule].there
    /\ baselines' = baselines \cup {[chart |-> Schedule, body |-> call[p].body]}
    /\ Log("baseline", Schedule, charts[Schedule])
    /\ Return(p)
    /\ UNCHANGED <<docs, charts>>

Next ==
    \/ \E d \in Docs : NewDocument(d)
    \/ \E c \in Charts : NewChart(c)
    \/ \E p \in Calls :
        \/ \E d \in Docs : SaveDocumentCheck(p, d) \/ DeleteDocumentCheck(p, d)
        \/ \E c \in Charts : SaveChartCheck(p, c) \/ DeleteChartCheck(p, c)
        \/ \E d \in Docs, c \in Charts : SyncRead(p, d, c)
        \/ LevelRead(p) \/ HistogramRead(p) \/ BaselineRead(p)
        \/ SaveDocument(p) \/ DeleteDocument(p) \/ SaveChart(p) \/ DeleteChart(p)
        \/ GenerateResourceHistogram(p) \/ SetScheduleBaseline(p) \/ Give(p)

Spec == Init /\ [][Next]_vars

-----------------------------------------------------------------------------
(* Properties                                                               *)

\* The audit events that say what became of a record.
EventsAbout(id) == {i \in DOMAIN audit : audit[i].id = id /\ audit[i].type \in {"save", "delete"}}

Latest(id, none) == IF EventsAbout(id) = {} THEN none ELSE audit[Max(EventsAbout(id))].after

\* The audit trail replays: the state of every document and chart is the one
\* its latest event recorded, whichever calls ran beside each other, also for
\* a record a slow save brought back after it was deleted.
AuditReplays ==
    /\ \A d \in Docs : Latest(d, NoDoc) = docs[d]
    /\ \A c \in Charts : Latest(c, NoChart) = charts[c]

\* A document that is approved has a checkpoint of an approval, taken since
\* it last was anything else.
ApprovalsCheckpointed ==
    \A d \in Docs : docs[d].there /\ docs[d].status = "approved" =>
        \E i \in DOMAIN audit :
            /\ audit[i].type = "checkpoint" /\ audit[i].id = d
            /\ \A j \in EventsAbout(d) : j > i => audit[j].after.there /\ audit[j].after.status = "approved"

\* No baseline outlives its chart, although the chart is read and the
\* baseline written in two steps.
BaselinesHaveCharts == \A b \in baselines : charts[b.chart].there

\* app_charts.go says repeated generation updates the same histogram instead
\* of accumulating copies.
OneHistogram ==
    Cardinality({c \in Charts : charts[c].there /\ charts[c].of = Schedule}) <= 1

=============================================================================

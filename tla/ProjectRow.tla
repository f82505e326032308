----------------------------- MODULE ProjectRow -----------------------------
(***************************************************************************)
(* The project row of a project file, the calls that read it and write it  *)
(* back whole (project settings, reclassification, a boundary moved on the *)
(* timeline), and the timeline that is built from it, its sprints, its     *)
(* deployments, its charters and its charts.                               *)
(*                                                                         *)
(* A call takes the open database, reads the row, and writes it in a later *)
(* transaction; another call, or the opening of another project, may come  *)
(* between.  A settings form holds the row it was filled from.             *)
(*                                                                         *)
(* A date is 0 ("empty"), d (YYYY-MM-DD), Stamp + d (the same day as an    *)
(* RFC 3339 timestamp) or Malformed.                                       *)
(***************************************************************************)
EXTENDS Naturals, Sequences, FiniteSets

CONSTANTS Files,       \* the project files; a file's first row carries its name
          Threads,     \* calls that read the row and write it back
          Days,        \* the days a user enters
          Written,     \* the forms of a date the settings form may send
          Currencies, Countries,
          Edits        \* bound: settings saved and calls started

EditsBounded ==
  /\ Edits \in Nat /\ Days \subseteq 1 .. 9 /\ 0 \in Written /\ Written \subseteq Nat
  /\ Currencies # {} /\ Countries # {} /\ "none" \notin Files

VARIABLES rows,      \* file -> the rows of its project table, oldest first
          sprint,    \* file -> its sprint
          costs,     \* file -> a cost entry, a reserve or an approved baseline exists
          content,   \* file -> its deployments, charters and charts
          open,      \* the file App.db is open on
          form,      \* the project the settings form was filled from
          call,      \* thread -> what its call has read, or Idle
          answer,    \* what the last timeline call returned
          edits

vars == <<rows, sprint, costs, content, open, form, call, answer, edits>>

Stamp == 10
Malformed == 99
Idle == [op |-> "idle"]
NoForm == [id |-> "none"]
DateForms == Written \cup Days
Boundaries == {"project_start", "project_end", "sprint_start", "sprint_end"}

(***************************************************************************)
(* Zones: every country of the catalogue has its zones, the first being    *)
(* the default.                                                            *)
(***************************************************************************)
supportedPolicies(c) == {<<c, 1>>, <<c, 2>>}
DefaultTimeZone(c) == <<c, 1>>
ValidTimeZone(c, z) == z \in supportedPolicies(c)

(***************************************************************************)
(* Dates.                                                                  *)
(***************************************************************************)
Iso(d) == d \in 1 .. 9
parseDate(d) == IF d > Stamp /\ d # Malformed THEN d - Stamp ELSE d
Parses(d) == d # 0 /\ d # Malformed

validateTimelineDateRange(start, end) ==
  \/ start = 0 \/ end = 0
  \/ Iso(start) /\ Iso(end) /\ end >= start

(***************************************************************************)
(* The store.  GetProject answers the first row.  UpsertProject works on   *)
(* the row that has the given ID and inserts one when there is none.       *)
(***************************************************************************)
GetProject(f) == rows[f][1]

HasRow(f, id) == \E i \in DOMAIN rows[f] : rows[f][i].id = id
RowOf(f, id) == CHOOSE i \in DOMAIN rows[f] : rows[f][i].id = id

CurrencyAllowed(f, p) ==
  HasRow(f, p.id) =>
    LET before == rows[f][RowOf(f, p.id)] IN
    \/ before.currency = p.currency
    \/ ~costs[f] /\ before.budget = 0

UpsertRows(f, p) ==
  IF HasRow(f, p.id) THEN [rows[f] EXCEPT ![RowOf(f, p.id)] = p] ELSE Append(rows[f], p)

UpsertProject(f, p) ==
  /\ CurrencyAllowed(f, p)
  /\ rows' = [rows EXCEPT ![f] = UpsertRows(f, p)]

(***************************************************************************)
(* The timeline.  An entry has the place at which it was collected.        *)
(***************************************************************************)
Entry(at, kind, d, editable) ==
  [at |-> at, kind |-> kind, date |-> parseDate(d), editable |-> editable]
Dated(at, kind, d, editable) == IF Parses(d) THEN {Entry(at, kind, d, editable)} ELSE {}

\* A charter that is not JSON, or an item without a date, gives nothing.
projectMilestones(f) ==
  UNION {Dated(5 + i, "milestone", content[f].charters[i], FALSE) :
           i \in 1 .. Len(content[f].charters)}

\* A CPM chart of one task that takes a day; no chart is laid out without a start.
chartMilestones(f, p) ==
  IF Parses(p.start) /\ content[f].chart # "none"
  THEN {Entry(6 + Len(content[f].charters), "milestone", parseDate(p.start) + 1, FALSE)} ELSE {}

chartFails(f, p) == Parses(p.start) /\ content[f].chart = "broken"

Unsorted(f, p, sp) ==
  Dated(1, "project_start", p.start, TRUE) \cup Dated(2, "project_end", p.end, TRUE)
  \cup Dated(3, "sprint_start", sp.start, TRUE) \cup Dated(4, "sprint_end", sp.end, TRUE)
  \cup Dated(5, "deployment", content[f].deployed, FALSE)
  \cup projectMilestones(f) \cup chartMilestones(f, p)

\* By date; entries of one day stay as they were collected.
Before(x, y) == x.date < y.date \/ (x.date = y.date /\ x.at < y.at)

\* Entry k has k - 1 entries before it.
SortStable(list) ==
  [k \in 1 .. Cardinality(list) |->
     CHOOSE e \in list : Cardinality({x \in list : Before(x, e)}) = k - 1]

Build(f, p, sp) == SortStable(Unsorted(f, p, sp))

\* What buildTimelineFromDB returns: the list, or an error when a chart has no layout.
buildTimelineFromDB(f) ==
  LET p == GetProject(f) IN
  IF chartFails(f, p) THEN [file |-> f, ok |-> FALSE, list |-> <<>>]
  ELSE [file |-> f, ok |-> TRUE, list |-> Build(f, p, sprint[f])]

-----------------------------------------------------------------------------
Row(f) == [id |-> f, start |-> 0, end |-> 0, budget |-> 0,
           currency |-> CHOOSE c \in Currencies : TRUE,
           country |-> CHOOSE c \in Countries : TRUE,
           zone |-> DefaultTimeZone(CHOOSE c \in Countries : TRUE)]

NoAnswer == [file |-> "none", ok |-> FALSE, list |-> <<>>]

Init ==
  /\ rows = [f \in Files |-> <<Row(f)>>]
  /\ sprint = [f \in Files |-> [start |-> 0, end |-> 0]]
  /\ costs = [f \in Files |-> FALSE]
  /\ \E c \in {"none", "ok", "broken"} :
       content = [f \in Files |-> [chart |-> c, deployed |-> 2, charters |-> <<1, Malformed>>]]
  /\ open \in Files
  /\ form = NoForm
  /\ call = [t \in Threads |-> Idle]
  /\ answer = NoAnswer
  /\ edits = 0

\* Another project is opened.
OpenProject ==
  /\ edits < Edits
  /\ \E f \in Files \ {open} : open' = f
  /\ edits' = edits + 1
  /\ UNCHANGED <<rows, sprint, costs, content, form, call, answer>>

\* The settings form is filled.
GetProjectMeta ==
  /\ form # GetProject(open)
  /\ form' = GetProject(open)
  /\ UNCHANGED <<rows, sprint, costs, content, open, call, answer, edits>>

projectFromMetaWire(w, field, value) == [w EXCEPT ![field] = value]

\* The form with one field changed is sent.  An emptied zone is the country's default;
\* a new country with the old zone is refused.
UpdateProjectMeta ==
  /\ form # NoForm
  /\ edits < Edits
  /\ \E p \in {projectFromMetaWire(form, "start", d) : d \in Written}
              \cup {projectFromMetaWire(form, "end", d) : d \in Written}
              \cup {projectFromMetaWire(form, "budget", b) : b \in 0 .. 1}
              \cup {projectFromMetaWire(form, "currency", c) : c \in Currencies}
              \cup {[form EXCEPT !.country = c, !.zone = DefaultTimeZone(c)] : c \in Countries}
              \cup {projectFromMetaWire(form, "country", c) : c \in Countries} :
       /\ p # form
       /\ ValidTimeZone(p.country, p.zone)
       /\ UpsertProject(open, p)
       /\ form' = p
  /\ edits' = edits + 1
  /\ UNCHANGED <<sprint, costs, content, open, call, answer>>

\* A cost entry is recorded in the open project.
RecordCost ==
  /\ edits < Edits
  /\ ~costs[open]
  /\ costs' = [costs EXCEPT ![open] = TRUE]
  /\ edits' = edits + 1
  /\ UNCHANGED <<rows, sprint, content, open, form, call, answer>>

BuildTimeline ==
  /\ answer' = buildTimelineFromDB(open)
  /\ UNCHANGED <<rows, sprint, costs, content, open, form, call, edits>>

\* UpdateProjectIndustry and MoveTimelineEntry, first half: the database and the row.
Begin(t) ==
  /\ call[t] = Idle
  /\ edits < Edits
  /\ \/ \E c \in Countries :
          call' = [call EXCEPT ![t] = [op |-> "industry", db |-> open, p |-> GetProject(open),
                                       country |-> c]]
     \/ \E k \in Boundaries, d \in Days :
          call' = [call EXCEPT ![t] = [op |-> "move", db |-> open, p |-> GetProject(open),
                                       kind |-> k, date |-> d, sp |-> sprint[open]]]
  /\ edits' = edits + 1
  /\ UNCHANGED <<rows, sprint, costs, content, open, form, answer>>

Reclassified(p, c) ==
  [p EXCEPT !.country = c,
            !.zone = IF ValidTimeZone(c, p.zone) THEN p.zone ELSE DefaultTimeZone(c)]

\* UpdateProjectIndustry, second half: the row as it was read, reclassified.
UpdateProjectIndustry(t) ==
  /\ call[t].op = "industry"
  /\ LET c == call[t] IN UpsertProject(c.db, Reclassified(c.p, c.country))
  /\ call' = [call EXCEPT ![t] = Idle]
  /\ UNCHANGED <<sprint, costs, content, open, form, answer, edits>>

Moved(c) == IF c.kind \in {"project_start", "sprint_start"} THEN "start" ELSE "end"

\* MoveTimelineEntry, second half, of a boundary of the project.
MoveProject(t) ==
  /\ call[t].op = "move"
  /\ call[t].kind \in {"project_start", "project_end"}
  /\ LET c == call[t]
         p == [c.p EXCEPT ![Moved(c)] = c.date]
     IN  validateTimelineDateRange(p.start, p.end) /\ UpsertProject(c.db, p)
  /\ call' = [call EXCEPT ![t] = [op |-> "rebuild", db |-> call[t].db]]
  /\ UNCHANGED <<sprint, costs, content, open, form, answer, edits>>

\* The same of a boundary of the sprint.
MoveSprint(t) ==
  /\ call[t].op = "move"
  /\ call[t].kind \in {"sprint_start", "sprint_end"}
  /\ LET c == call[t]
         sp == [c.sp EXCEPT ![Moved(c)] = c.date]
     IN  /\ validateTimelineDateRange(sp.start, sp.end)
         /\ sprint' = [sprint EXCEPT ![c.db] = sp]
  /\ call' = [call EXCEPT ![t] = [op |-> "rebuild", db |-> call[t].db]]
  /\ UNCHANGED <<rows, costs, content, open, form, answer, edits>>

\* The moved timeline is built again; an error leaves the move in place.
Rebuild(t) ==
  /\ call[t].op = "rebuild"
  /\ answer' = buildTimelineFromDB(call[t].db)
  /\ call' = [call EXCEPT ![t] = Idle]
  /\ UNCHANGED <<rows, sprint, costs, content, open, form, edits>>

\* A call returns an error: its dates are refused, or its currency is.
Refuse(t) ==
  /\ call[t].op \in {"industry", "move"}
  /\ LET c == call[t] IN
     IF c.op = "industry" THEN ~CurrencyAllowed(c.db, Reclassified(c.p, c.country))
     ELSE IF c.kind \in {"sprint_start", "sprint_end"}
     THEN LET sp == [c.sp EXCEPT ![Moved(c)] = c.date]
          IN  ~validateTimelineDateRange(sp.start, sp.end)
     ELSE LET p == [c.p EXCEPT ![Moved(c)] = c.date]
          IN  ~(validateTimelineDateRange(p.start, p.end) /\ CurrencyAllowed(c.db, p))
  /\ call' = [call EXCEPT ![t] = Idle]
  /\ UNCHANGED <<rows, sprint, costs, content, open, form, answer, edits>>

Next ==
  \/ OpenProject \/ GetProjectMeta \/ UpdateProjectMeta \/ RecordCost \/ BuildTimeline
  \/ \E t \in Threads : \/ Begin(t) \/ UpdateProjectIndustry(t) \/ MoveProject(t)
                        \/ MoveSprint(t) \/ Rebuild(t) \/ Refuse(t)

Spec == Init /\ [][Next]_vars

-----------------------------------------------------------------------------
Projects == [id : Files, start : DateForms, end : DateForms, budget : 0 .. 1,
             currency : Currencies, country : Countries,
             zone : UNION {supportedPolicies(c) : c \in Countries}]

\* Rows, forms and calls have the shapes the calls give them.
TypeOK ==
  /\ \A f \in Files : rows[f] \in Seq(Projects) /\ rows[f] # <<>>
  /\ \A f \in Files : sprint[f] \in [start : DateForms, end : DateForms]
  /\ costs \in [Files -> BOOLEAN]
  /\ open \in Files
  /\ form = NoForm \/ form \in Projects
  /\ \A t \in Threads : call[t].op \in {"idle", "industry", "move", "rebuild"}
  /\ edits \in 0 .. Edits

\* The zone of every row is one of its country's, whichever of the calls wrote it last and
\* however old the row was that it wrote back (UpdateProjectMeta, UpdateProjectIndustry).
ZoneFits == \A f \in Files : \A i \in DOMAIN rows[f] :
              ValidTimeZone(rows[f][i].country, rows[f][i].zone)

\* While a project has costs or a budget its currency does not change, not even by a call
\* that writes back a row it read before the currency was last changed (UpsertProject).
CurrencyKept ==
  \A f \in Files : \A i \in DOMAIN rows[f] :
     rows'[f][i].currency # rows[f][i].currency => ~costs[f] /\ rows[f][i].budget = 0

\* The project a file is about stays: a form that belongs to another file, or a call that
\* began before another file was opened, never replaces the row GetProject returns.
FirstRowStays == \A f \in Files : GetProject(f).id = f

\* No boundary moved on the timeline leaves a project that ends before it starts, although
\* the settings form may have saved such dates before (validateTimelineDateRange).
MovesInOrder ==
  \A t \in Threads :
     call[t].op = "move" /\ call'[t].op = "rebuild" =>
       LET f == call[t].db
           both == IF call[t].kind \in {"sprint_start", "sprint_end"} THEN sprint'[f]
                   ELSE rows'[f][RowOf(f, call[t].p.id)]
       IN  Parses(both.start) /\ Parses(both.end) => both.start <= both.end

\* A timeline that is returned is in ascending date order, whatever mixture of date forms
\* the row, the sprint, the charters and the charts hold (timeline.Build).
AnswerSorted == \A i, j \in DOMAIN answer.list :
                  i < j => answer.list[i].date <= answer.list[j].date

\* GetProject's comment: a project file holds the single project.
OneRow == \A f \in Files : Len(rows[f]) = 1

\* UpdateProjectIndustry's comment: it persists changes to industry, methodology and country
\* code; dates, budget and currency are not its business.
IndustryOnly ==
  [][\A t \in Threads :
       call[t].op = "industry" /\ call'[t] = Idle =>
         LET f == call[t].db IN
         \A field \in {"start", "end", "budget", "currency"} :
            rows'[f][1][field] = rows[f][1][field]]_vars
=============================================================================

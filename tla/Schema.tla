-------------------------------- MODULE Schema --------------------------------
(***************************************************************************)
(* Opening a project file for writing (internal/db/sqlite.go, timestamps.  *)
(* go): Migrate creates the tables that are missing, rebuilds the Six      *)
(* Sigma table of an older file, adds the columns of later versions with   *)
(* their backfills, and repairs the time stamps.  Every statement commits  *)
(* by itself, the rebuild of a table or an index in one transaction; the   *)
(* process may end, or a statement fail, after any of them, and the next   *)
(* opening starts again from the file as it was left.  A reader (the       *)
(* catalog, portfolio analytics) opens the file read-only at any time and  *)
(* never migrates it.                                                      *)
(***************************************************************************)
EXTENDS Naturals, Sequences, FiniteSets

CONSTANTS Amounts, \* amounts in major units, 0 included
          MaxStops \* bound: openings that stop before they finish

SchemaAssumption == Amounts \subseteq Nat /\ MaxStops \in Nat

VARIABLES file,  \* the project file
          pc,    \* the next step of the opening, 0 when nobody has the file open
          probe, \* the columns migrateLegacyColumns found when it began
          fk,    \* whether the connection enforces foreign keys
          entered, \* the amounts the user entered
          stops
vars == <<file, pc, probe, fk, entered, stops>>

(* ---------------------------- the tables ------------------------------ *)

V1Tables == {"settings", "tasks", "command_log", "audit_log", "audit_events"}
CostTables == {"cost_types", "cost_entries", "cost_entry_attachments", "cost_reserves",
               "cost_baseline_snapshots"}
PlanTables == {"project", "charts", "baselines", "scenarios", "scenario_charts", "documents", "templates"}
AgileTables == {"agile_boards", "agile_columns", "agile_work_items", "agile_sprints", "agile_deployments"}
PeopleTables == {"stakeholders", "resource_calendars"}
SigmaTables == {"sigma_charters", "sigma_fishbones", "sigma_solutions", "sigma_control_plans",
                "sigma_sipocs", "sigma_voc"}
Tables == V1Tables \cup CostTables \cup PlanTables \cup AgileTables \cup PeopleTables
              \cup SigmaTables \cup {"sigma_projects"}

\* The tables whose rows go when the rows of t go: ON DELETE CASCADE.
Cascades(t) ==
    CASE t = "sigma_projects" -> SigmaTables
      [] t = "charts" -> {"baselines"}
      [] t = "scenarios" -> {"scenario_charts"}
      [] t = "cost_entries" -> {"cost_entry_attachments"}
      [] t = "agile_boards" -> {"agile_columns"}
      [] t = "project" -> Tables \ (V1Tables \cup {"project", "templates"})
      [] OTHER -> {}

(* ----------------------------- the file ------------------------------- *)

\* Two rows with a time stamp, r1 before r2, as trimmed text, as the three digits
\* of the SQL default, in the fixed width, or malformed.
Rows == {"r1", "r2"}
Instant == [r1 |-> 1, r2 |-> 2]
Forms == {"trimmed", "sql", "fixed", "bad"}
Money == {"budget", "rate"}
Added == {"industry", "agile_enabled", "budget", "rate", "item_name"}

NewFile == [tables |-> {}, full |-> {}, cols |-> {}, sigma |-> "new",
            major |-> [m \in Money |-> 0], minor |-> [m \in Money |-> 0],
            text |-> [r \in Rows |-> "bad"], nano |-> [r \in Rows |-> 0],
            audit |-> "trimmed", index |-> "none"]

\* A file of the first version, and one with the money columns and no numeric
\* time stamps.
OldFile(v, amount, forms) ==
    [NewFile EXCEPT
        !.tables = IF v = 1 THEN V1Tables \cup PlanTables \cup PeopleTables \cup SigmaTables \cup {"sigma_projects"}
                   ELSE Tables,
        !.full = {"project", "sigma_projects", "sigma_charters", "sigma_voc", "scenarios"},
        !.sigma = IF v = 1 THEN "old" ELSE "new",
        !.cols = IF v = 1 THEN {} ELSE {"industry", "budget", "rate"},
        !.major = amount, !.minor = IF v = 1 THEN @ ELSE [m \in Money |-> 100 * amount[m]],
        !.text = forms, !.index = "text"]

Init ==
    /\ entered \in [Money -> Amounts]
    /\ file \in {NewFile} \cup {OldFile(v, entered, f) : v \in 1..2, f \in [Rows -> Forms]}
    /\ file = NewFile => entered = [m \in Money |-> 0]
    /\ pc = 0 /\ probe = {} /\ fk = TRUE /\ stops = 0

(* --------------------------- the statements --------------------------- *)

MigrateSchema(f) ==
    [f EXCEPT !.tables = Tables, !.index = IF @ = "none" THEN "text" ELSE @,
              !.cols = IF f.tables = {} THEN Added \ {"agile_enabled"}
                       ELSE IF "cost_entries" \in f.tables THEN @ ELSE @ \cup {"item_name"}]

\* DROP TABLE deletes the rows first: with foreign keys enforced the deletion
\* cascades.
Rebuild(f) ==
    IF f.sigma = "new" THEN f
    ELSE [f EXCEPT !.sigma = "new", !.full = IF fk THEN @ \ Cascades("sigma_projects") ELSE @]

AddColumn(f, c) == [f EXCEPT !.cols = @ \cup {c}]

\* Only the opening that found the column missing backfills it.
Backfill(f, m) ==
    IF m \in probe THEN f
    ELSE [f EXCEPT !.minor[m] = IF @ = 0 /\ f.major[m] # 0 THEN 100 * f.major[m] ELSE @]

\* Not audit_events: its text is hashed into the chain.
RetrofitTimestampFormat(f) ==
    [f EXCEPT !.text = [r \in Rows |-> IF @[r] = "bad" THEN @[r] ELSE "fixed"]]

FillNanoOnce(f) == \* like the amounts: only when this opening added the column
    IF "nano" \in probe THEN f
    ELSE [f EXCEPT !.nano = [r \in Rows |-> IF f.text[r] # "bad" THEN Instant[r] ELSE @[r]]]

BackfillUnixNano(f) ==
    [f EXCEPT !.nano = [r \in Rows |-> IF @[r] = 0 /\ f.text[r] # "bad" THEN Instant[r] ELSE @[r]]]

\* DROP and CREATE in one transaction, whatever shape was there.
RepointUnixNanoIndex(f) == [f EXCEPT !.index = "nano"]

Steps == <<"schema", "fk_off", "rebuild", "fk_on", "probe", "industry", "budget", "fill_budget", "agile_enabled",
           "rate", "fill_rate", "item_name", "retext", "nano", "fill_nano", "index", "private">>
End == Len(Steps) + 1

Do(s, f) ==
    CASE s = "schema"    -> MigrateSchema(f)
      [] s = "rebuild"   -> Rebuild(f)
      [] s \in Added \cup {"nano"} -> AddColumn(f, s)
      [] s = "fill_budget" -> Backfill(f, "budget")
      [] s = "fill_rate" -> Backfill(f, "rate")
      [] s = "retext"    -> RetrofitTimestampFormat(f)
      [] s = "fill_nano" -> BackfillUnixNano(f)
      [] s = "index"     -> RepointUnixNanoIndex(f)
      [] OTHER           -> f

\* Only a file with the old table needs the connection without enforcement.
ForeignKeys(s) ==
    fk' = CASE s = "fk_off" -> file.sigma # "old" [] s = "fk_on" -> TRUE [] OTHER -> fk

(* ------------------------------ actions ------------------------------- *)

InitDB == pc = 0 /\ pc' = 1 /\ fk' = TRUE /\ UNCHANGED <<file, probe, entered, stops>>

Migrate ==
    /\ pc \in 1..Len(Steps)
    /\ file' = Do(Steps[pc], file)
    /\ probe' = IF Steps[pc] = "probe" THEN file.cols ELSE probe
    /\ ForeignKeys(Steps[pc])
    /\ pc' = pc + 1 /\ UNCHANGED <<entered, stops>>

\* A statement fails, or the process ends, before the next step.
Stop ==
    /\ pc \in 1..Len(Steps) /\ stops < MaxStops
    /\ pc' = 0 /\ stops' = stops + 1 /\ fk' = TRUE /\ UNCHANGED <<file, probe, entered>>

\* UpsertProject and SaveStakeholder write both forms of the amount.
SaveAmount ==
    /\ pc = End
    /\ \E m \in Money, a \in Amounts :
          /\ entered' = [entered EXCEPT ![m] = a]
          /\ file' = [file EXCEPT !.major[m] = a, !.minor[m] = 100 * a, !.full = @ \cup {"project"}]
    /\ UNCHANGED <<pc, probe, fk, stops>>

Close == pc = End /\ pc' = 0 /\ UNCHANGED <<file, probe, fk, entered, stops>>

Next == InitDB \/ Migrate \/ Stop \/ SaveAmount \/ Close
Spec == Init /\ [][Next]_vars

(* ----------------------------- the reader ----------------------------- *)

\* A column that is missing reads as its default, and an amount with no minor
\* units is taken from the older field.
ReadAmount(m) ==
    LET minor == IF m \in file.cols THEN file.minor[m] ELSE 0
    IN IF minor = 0 /\ file.major[m] # 0 THEN 100 * file.major[m] ELSE minor

(* ----------------------------- properties ----------------------------- *)

\* Every variable holds a value of its kind, and an opened file has the schema
\* of this version.
TypeOK ==
    /\ file.tables \subseteq Tables /\ file.full \subseteq file.tables
    /\ file.cols \subseteq Added \cup {"nano"} /\ pc \in 0..End /\ stops \in 0..MaxStops
    /\ pc = End => file.tables = Tables /\ file.cols = Added \cup {"nano"} /\ file.sigma = "new"

\* An amount reads as the user entered it, at every point of the migration, of
\* a migration cut short between a column and its backfill, and of an older file
\* (normalizeProject, scanStakeholder).
AmountsKept == \A m \in Money : ReadAmount(m) = 100 * entered[m]

\* No step empties a table: the rebuild of sigma_projects does not take the
\* charters and the other records of the Six Sigma projects along.
RowsKept == file.full \subseteq file'.full

\* In an open file every row whose time stamp can be read has the numeric key
\* of its instant, whatever earlier opening stopped between the column and its
\* backfill, so lists come in order; and the index is the one that sorts by it.
OrderedWhenOpen ==
    pc = End /\ file.full # {} /\ "scenarios" \in file.full =>
        /\ \A r \in Rows : file.text[r] # "bad" => file.text[r] = "fixed" /\ file.nano[r] = Instant[r]
        /\ file.index = "nano"

\* The text of the audit events stays what their hashes were computed from.
AuditTextKept == file'.audit = file.audit
=============================================================================

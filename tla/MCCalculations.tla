---- MODULE MCCalculations ----
(***************************************************************************)
(* What the program computes: the schedule, levelling, dates, earned value,*)
(* delivery metrics, the portfolio and budget sums and the incremental     *)
(* updates of a PDF, explored in one run over many inputs.  A behaviour is *)
(* of one of the parts; the variables of the others keep the value "off".  *)
(***************************************************************************)
EXTENDS Integers, Sequences, FiniteSets, TLC

CONSTANT Parts   \* the parts to explore
CONSTANTS Deploys,     \* identities of deployments
          Bases,       \* the PDFs of a renderer
          People, Items,                    \* of a project, for its budget
          LinkSets, Staffing, Plans, Given, \* the inputs of levelling
          Constraints                       \* of the network calculation

VARIABLE part    \* the part a behaviour is of: only its variables move
VARIABLES dur, links, con, phase, order, es, ef, lf, violated, float
VARIABLES levelDur, levelLinks, staff, plan, levelCon, user, opts, levelPhase, pending,
          early, late, levelEs, levelEf, work, booked, unplaced, segments, levels
VARIABLES worked, dateCon, armed, dateEs, dateDur, dateViolated, dates, datePhase
VARIABLES task, asOf, metrics, error
VARIABLES deploys, now, call, report
VARIABLES proj, scan, result, summary, edits
VARIABLES base, file, stage, pdfa

-----------------------------------------------------------------------------
\* The inputs of levelling: links, assignments and capacity plans.

Link(p, s, type, lag) == [pred |-> p, succ |-> s, type |-> type, lag |-> lag]
MCLinkSets == { {Link(1, 2, "FS", 0)}, {Link(2, 1, "SS", 1), Link(2, 3, "FF", 0)},
                {Link(1, 3, "FS", -1), Link(2, 3, "SF", 1)} }

Assign(r, n, c) == [res |-> r, units |-> n, calendar |-> c]
MCStaffing == { <<>>, <<Assign("r", 1, "r")>>,
                <<Assign("r", 1, "r"), Assign("q", 1, "q")>> }

Capacity(n, weekly, overrides) == [default |-> n, weekly |-> weekly, overrides |-> overrides]
NoDay == [d \in {} |-> 0]

\* A day off in the middle, a weekly pattern, and plenty.
MCPlans == { [r |-> Capacity(1, NoDay, [d \in {1} |-> 0]),
              q |-> Capacity(1, [w \in {2, 3} |-> 0], NoDay),
              spare |-> Capacity(2, NoDay, NoDay)],
             [r |-> Capacity(2, NoDay, [d \in {2} |-> 1]),
              q |-> Capacity(1, NoDay, NoDay),
              spare |-> Capacity(1, NoDay, NoDay)] }

Constrained(kind, day) == [t \in 1 .. 3 |-> IF t = 2 THEN [kind |-> kind, day |-> day]
                                            ELSE [kind |-> "ASAP", day |-> 0]]
MCGiven == {Constrained("ASAP", 0), Constrained("FNLT", 3)}

\* The constraints of the network calculation.
MCConstraints == {[kind |-> "SNET", day |-> 2], [kind |-> "FNLT", day |-> 1], [kind |-> "MFO", day |-> 3]}

\* People and work items of a project, for the sums of its budget.
Person(n, c, k, r) == [name |-> n, category |-> c, contract |-> k, rate |-> r]
MCPeople == {Person(n, c, k, r) : n \in {"Ann", "ann"}, c \in {"vendor", ""},
                                  k \in {0, 3}, r \in {0, 1, 2}}
MCItems == {[assignee |-> a, points |-> x] : a \in {"", "ANN"}, x \in {1, 2}}

\* The PDFs a renderer hands over: with fonts that share a name or a program,
\* with a form of each kind, with generations and sizes at their limits, and one
\* that cannot be read.
Obj(n, g, body) == [t |-> "obj", id |-> n, gen |-> g, body |-> body]
Font(n, name, program, psName) ==
    << Obj(n, 0, [k |-> "type0", name |-> <<"utf8", name>>, cid |-> n + 1, tounicode |-> n + 4]),
       Obj(n + 1, 0, [k |-> "cid", name |-> <<"utf8", name>>, desc |-> n + 2]),
       Obj(n + 2, 0, [k |-> "desc", name |-> <<"utf8", name>>, fontfile |-> n + 3]),
       Obj(n + 3, 0, [k |-> "file", program |-> program, psName |-> psName]),
       Obj(n + 4, 0, [k |-> "cmap", map |-> "fpdf"]) >>
Forms == [none |-> [k |-> "none"],
          form |-> [k |-> "form", fields |-> {2}, flags |-> {}],
          ref  |-> [k |-> "ref", ref |-> 3]]
Base(comment, acro, fonts, gen, ident, slack) ==
    LET head == IF comment THEN << [t |-> "header"], [t |-> "comment"] >> ELSE << [t |-> "header"] >>
        objs == << Obj(1, gen, [k |-> "catalog", metadata |-> 0, intents |-> 0, acro |-> Forms[acro]]),
                   Obj(2, 0, [k |-> "field", v |-> 0]),
                   Obj(3, 0, [k |-> "acroform", fields |-> {2}, flags |-> {1}]) >> \o fonts
        at   == [id \in {objs[i].id : i \in DOMAIN objs} |-> Len(head) + id - 1]
    IN  head \o objs \o
        << [t |-> "xref", at |-> at],
           [t |-> "trailer", size |-> Len(objs) + 1 + slack, root |-> 1, gen |-> gen,
            prev |-> 0, ident |-> ident, info |-> 2],
           [t |-> "startxref", at |-> Len(head) + Len(objs)] >>
FontSets == { <<>>, Font(4, "a", "p1", "Sans"), Font(4, "a", "p1", ""),
              Font(4, "a", "p1", "Sans") \o Font(9, "b", "p2", "Sans") }
MCBases ==
    { Base(c, a, f, 0, i, 0) : c \in BOOLEAN, a \in {"none", "form", "ref"}, f \in FontSets, i \in {0, 1} }
    \cup { Base(c, "none", f, g, 0, s) : c \in BOOLEAN, f \in {<<>>, Font(4, "a", "p1", "Sans")},
                                        g \in {0, 2}, s \in {0, 11, 17} }
    \cup { << [t |-> "header"], [t |-> "startxref", at |-> 1], [t |-> "other"] >> }

Network == INSTANCE Scheduler WITH
    Tasks <- 1 .. 3, LinkTypes <- {"FS", "SS", "FF", "SF"}, Lags <- {-1, 1},
    Durations <- {0, 2}, MaxLinks <- 2, MaxConstrained <- 1
Cycles == INSTANCE Scheduler WITH
    Tasks <- 1 .. 3, LinkTypes <- {"FS", "FF"}, Lags <- {0}, Durations <- {1},
    Constraints <- {}, MaxLinks <- 4, MaxConstrained <- 0
Levelling == INSTANCE Leveling WITH
    Tasks <- 1 .. 3, Resources <- {"r", "q"}, Durations <- {1, 3}, Horizon <- 4,
    LastDay <- 24, MaxLevels <- 1, dur <- levelDur, links <- levelLinks,
    con <- levelCon, phase <- levelPhase, es <- levelEs, ef <- levelEf
Dates == INSTANCE Calendar WITH
    LastDay <- 4, maxNonWorkdayRun <- 3, Starts <- {0, 2, 5}, Durations <- {0, 4, 6},
    con <- dateCon, es <- dateEs, dur <- dateDur, violated <- dateViolated,
    phase <- datePhase
EarnedValue == INSTANCE EarnedValue WITH
    Tasks <- {"a"}, MaxInt <- 7, Budgets <- {-8, -5, 0, 3, 7}, Costs <- {-8, 0, 2, 7},
    Percents <- {0, 1, 33, 50, 100},
    Splits <- {<<>>, <<<<0, 1>>, <<2, 4>>>>, <<<<1, 2>>, <<1, 3>>>>}, LastDay <- 5
Delivery == INSTANCE Dora WITH
    Ids <- Deploys, Hours <- {30}, Windows <- {0, 1}, DefaultWindow <- 2, MaxTime <- 3
Portfolio == INSTANCE Portfolio WITH
    W <- 3, Folder <- <<"a", "b", "c">>, Currencies <- {"", "EUR", "bad"},
    Schedules <- {"no start", "overflow", "costed"},
    People <- {Person("Ann", "vendor", 2, 0)}, Items <- {}, Budgets <- {-4, 3},
    Actuals <- {3}, MaxPeople <- 1, MaxItems <- 0, Edits <- 1
Budget == INSTANCE Portfolio WITH
    W <- 4, Folder <- <<"a">>, Currencies <- {"USD"}, Schedules <- {"costed"},
    Budgets <- {1}, Actuals <- {0}, MaxPeople <- 2, MaxItems <- 2, Edits <- 3
Pdf == INSTANCE PdfUpdates WITH
    Candidates <- [p1 |-> <<"TA", "TB">>, p2 |-> <<"TA", "TC">>], MaxInt <- 22,
    MaxOffset <- 45, MaxGen <- 1, MaxSigs <- 2

ASSUME PartsAssumption ==
       /\ Network!ScheduleAssumption /\ Cycles!ScheduleAssumption /\ Levelling!LevelingAssumption
       /\ Dates!CalendarAssumption /\ EarnedValue!EvmAssumption /\ Delivery!DoraAssumption
       /\ Portfolio!Bounds /\ Budget!Bounds

networkVars == <<dur, links, con, phase, order, es, ef, lf, violated, float>>
levelVars == <<levelDur, levelLinks, staff, plan, levelCon, user, opts, levelPhase,
               pending, early, late, levelEs, levelEf, work, booked, unplaced,
               segments, levels>>
dateVars == <<worked, dateCon, armed, dateEs, dateDur, dateViolated, dates, datePhase>>
valueVars == <<task, asOf, metrics, error>>
deliveryVars == <<deploys, now, call, report>>
sumVars == <<proj, scan, result, summary, edits>>
pdfVars == <<base, file, stage, pdfa>>
vars == <<part, networkVars, levelVars, dateVars, valueVars, deliveryVars, sumVars,
          pdfVars>>

\* The value of a variable of the parts that do not move.
Off == "off"

Init ==
    /\ part \in Parts
    /\ IF part = "network" THEN Network!Init
       ELSE IF part = "cycles" THEN Cycles!Init
       ELSE dur = Off /\ links = Off /\ con = Off /\ phase = Off /\ order = Off /\
            es = Off /\ ef = Off /\ lf = Off /\ violated = Off /\ float = Off
    /\ IF part = "levelling" THEN Levelling!Init
       ELSE levelDur = Off /\ levelLinks = Off /\ staff = Off /\ plan = Off /\
            levelCon = Off /\ user = Off /\ opts = Off /\ levelPhase = Off /\
            pending = Off /\ early = Off /\ late = Off /\ levelEs = Off /\
            levelEf = Off /\ work = Off /\ booked = Off /\ unplaced = Off /\
            segments = Off /\ levels = Off
    /\ IF part = "dates" THEN Dates!Init
       ELSE worked = Off /\ dateCon = Off /\ armed = Off /\ dateEs = Off /\
            dateDur = Off /\ dateViolated = Off /\ dates = Off /\ datePhase = Off
    /\ IF part = "earned value" THEN EarnedValue!Init
       ELSE task = Off /\ asOf = Off /\ metrics = Off /\ error = Off
    /\ IF part = "delivery" THEN Delivery!Init
       ELSE deploys = Off /\ now = Off /\ call = Off /\ report = Off
    /\ IF part = "portfolio" THEN Portfolio!Init
       ELSE IF part = "budget" THEN Budget!Init
       ELSE proj = Off /\ scan = Off /\ result = Off /\ summary = Off /\ edits = Off
    /\ IF part = "pdf" THEN Pdf!Init
       ELSE base = Off /\ file = Off /\ stage = Off /\ pdfa = Off

Next ==
    /\ UNCHANGED part
    /\ IF part = "network" THEN Network!Next
       ELSE IF part = "cycles" THEN Cycles!Next
       ELSE UNCHANGED networkVars
    /\ IF part = "levelling" THEN Levelling!Next ELSE UNCHANGED levelVars
    /\ IF part = "dates" THEN Dates!Next ELSE UNCHANGED dateVars
    /\ IF part = "earned value" THEN EarnedValue!Next ELSE UNCHANGED valueVars
    /\ IF part = "delivery" THEN Delivery!Next ELSE UNCHANGED deliveryVars
    /\ IF part = "portfolio" THEN Portfolio!Next
       ELSE IF part = "budget" THEN Budget!Next
       ELSE UNCHANGED sumVars
    /\ IF part = "pdf" THEN Pdf!Next ELSE UNCHANGED pdfVars

Spec == Init /\ [][Next]_vars

-----------------------------------------------------------------------------
\* The scheduling kernel (CalculateCPM, LevelResourcesWithOptions,
\* AnchorSchedule, DayOffset): the schedule is the earliest that keeps links and
\* constraints, float is exactly what a task can slip, a constraint is kept or
\* flagged and a circle of links is refused; a levelled chart overbooks nobody,
\* keeps every link, splits only where that does not finish later, and is read
\* back from its pins and segments; offsets become dates and back without losing
\* a working day.
SchedulesSound ==
    /\ part = "network" => /\ Network!TypeOK
                           /\ Network!StartsEarliest
                           /\ Network!FloatIsSlack
                           /\ Network!KeptOrFlagged
    /\ part = "cycles" => Cycles!RefusesCycles
    /\ part = "levelling" => /\ Levelling!TypeOK
                             /\ Levelling!LevelledFits
                             /\ Levelling!LinksKept
                             /\ Levelling!SplitNeverLater
                             /\ Levelling!PinsHoldPlan
                             /\ Levelling!SegmentsReadBack
    /\ part = "dates" => /\ Dates!TypeOK
                         /\ Dates!OffsetReadsBack
                         /\ Dates!DatesFollowLinks
                         /\ Dates!ConstraintDatesKept

\* The sums (ComputeEVM, portfolio rollup, budget, ComputeDORA): no value
\* leaves its word unnoticed, a total is the exact sum of the rows it is said to
\* cover, in one currency, whatever changes between the files' readings, and a
\* report over a window is the report over everything.
FiguresExact ==
    /\ part = "earned value" => /\ EarnedValue!TypeOK
                                /\ EarnedValue!PlannedWithinBudget
                                /\ EarnedValue!VarianceAlwaysFits
    /\ part = "portfolio" => /\ Portfolio!TypeOK
                             /\ Portfolio!RollupExact
                             /\ Portfolio!OneCurrency
                             /\ Portfolio!CoverageCounts
    /\ part = "budget" => Budget!TypeOK /\ Budget!CategoriesAddUp /\ Budget!RateOfLast
    /\ part = "delivery" => Delivery!TypeOK /\ Delivery!FetchAgrees /\ Delivery!TrendAddsUp

\* Incremental updates of a PDF (TagPDFA, RepairFPDFFonts, EmbedSignature): a
\* reader finds the latest revision of every object after any sequence of
\* updates, signatures made earlier still cover their bytes, object numbers stay
\* apart, the claim of PDF/A is there exactly with what it needs, and fields,
\* fonts and the identifier are kept.
UpdatesKeepPdf ==
    part = "pdf" => /\ Pdf!TypeOK
                    /\ Pdf!ReaderSeesLatest
                    /\ Pdf!NumbersFresh
                    /\ Pdf!SignaturesVerify
                    /\ Pdf!ClaimIsComplete
                    /\ Pdf!FieldsKept
                    /\ Pdf!FontsRepaired
                    /\ Pdf!IdentifierKept

\* Deployments differ only in their names.
Symmetry == Permutations(Deploys)
=============================================================================

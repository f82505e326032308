------------------------------ MODULE Leveling ------------------------------
(***************************************************************************)
(* Serial resource levelling (kernel/resources.go) and what the desktop    *)
(* keeps of it: a start-no-earlier-than pin on every task it delayed       *)
(* (LevelChartResources), or nothing (PreviewSplitLeveling).               *)
(*                                                                         *)
(* Days and units are whole.  The forward and backward passes are those of *)
(* Scheduler, written as functions of the constraints, because levelling   *)
(* runs them twice.                                                        *)
(***************************************************************************)
EXTENDS Integers, Sequences, FiniteSets, FiniteSetsExt, SequencesExt

CONSTANTS
    Tasks,       \* task identities, numbers in the order of their names
    Resources,
    Durations,
    LinkSets,    \* the sets of precedence links in use
    Staffing,    \* the sequences of assignments a task may have
    Plans,       \* capacity plans: a calendar for each resource and each named one
    Given,       \* constraints the user may have set
    Horizon,     \* bound: days a task may be delayed (DefaultLevelingHorizon)
    LastDay,     \* bound: days in the model
    MaxLevels    \* bound: levelling calls

LevelingAssumption ==
    /\ Tasks \subseteq Nat /\ Durations \subseteq Nat \ {0}
    /\ Horizon \in Nat /\ LastDay \in Nat /\ MaxLevels \in Nat
    /\ \A s \in Staffing : \A i \in DOMAIN s : s[i].res \in Resources /\ s[i].units > 0

VARIABLES
    dur, links, staff, plan,  \* the chart and the capacity plan
    con,        \* the constraint of each task, pins included
    user,       \* the constraints as the user set them
    opts,       \* what the running call asked for
    phase,
    pending,    \* tasks not placed yet
    early, late, \* starts and late finishes without the resources
    es, ef,     \* levelled start and finish
    work,       \* working days of a split task
    booked,     \* units booked per resource and day
    unplaced,   \* tasks whose demand never fitted
    segments,   \* persisted runs of working days, from the task's start
    levels

chart == <<dur, links, staff, plan, user>>
run == <<opts, pending, early, late, es, ef, work, booked, unplaced>>
vars == <<chart, con, phase, run, segments, levels>>

Asap == [kind |-> "ASAP", day |-> 0]
Strategies == {"ltf", "edf"}
Calls == [strategy : Strategies, critical : BOOLEAN, split : BOOLEAN, keep : BOOLEAN]
Zero == [t \in Tasks |-> 0]
NoDays == [t \in Tasks |-> <<>>]
Free == [r \in Resources |-> [d \in 0 .. LastDay |-> 0]]
Idle == [strategy |-> "ltf", critical |-> FALSE, split |-> FALSE, keep |-> FALSE]

Init ==
    /\ dur \in [Tasks -> Durations] /\ links \in LinkSets
    /\ staff \in [Tasks -> Staffing] /\ plan \in Plans
    /\ user \in Given /\ con = user
    /\ opts = Idle /\ phase = "idle" /\ pending = {} /\ levels = 0
    /\ early = Zero /\ late = Zero
    /\ es = Zero /\ ef = Zero /\ work = NoDays /\ segments = NoDays
    /\ booked = Free /\ unplaced = {}

-----------------------------------------------------------------------------
(* Capacity                                                                 *)

\* capacityFromCalendar: an override of the day, else the weekday's capacity,
\* else the calendar's own.
CapacityFromCalendar(cal, d) ==
    IF d \in DOMAIN cal.overrides THEN cal.overrides[d]
    ELSE IF (d % 7) \in DOMAIN cal.weekly THEN cal.weekly[d % 7]
    ELSE cal.default

CapacityFor(r, d) == CapacityFromCalendar(plan[r], d)

\* An assignment may name a calendar of its own.
CapacityForAssignment(a, d) ==
    IF a.calendar \in DOMAIN plan THEN CapacityFromCalendar(plan[a.calendar], d)
    ELSE CapacityFor(a.res, d)

\* What a task takes of a resource on each of its days.
Demand(t, r) ==
    FoldLeft(LAMBDA n, a : IF a.res = r THEN n + a.units ELSE n, 0, staff[t])

DayHasCapacity(t, d) ==
    \A i \in DOMAIN staff[t] :
        booked[staff[t][i].res][d] + staff[t][i].units <= CapacityForAssignment(staff[t][i], d)

-----------------------------------------------------------------------------
(* The critical path method, as far as levelling uses it                    *)

\* The earliest start a link asks of its successor.
Candidate(l, s, f) ==
    CASE l.type = "SS" -> s + l.lag
      [] l.type = "FF" -> f + l.lag - dur[l.succ]
      [] l.type = "SF" -> s + l.lag - dur[l.succ]
      [] OTHER -> f + l.lag

Into(t) == {l \in links : l.succ = t}

\* The forward pass: starts never lie before the start of the project.
EarlyStarts(c) ==
    LET s[t \in Tasks] ==
            Max({0, IF c[t].kind = "SNET" THEN c[t].day ELSE 0} \cup
                {Candidate(l, s[l.pred], s[l.pred] + dur[l.pred]) : l \in Into(t)})
    IN  s

LateFinishes(c, s) ==
    LET finish == Max({s[t] + dur[t] : t \in Tasks})
        f[t \in Tasks] ==
            Min({finish} \cup (IF c[t].kind = "FNLT" THEN {c[t].day} ELSE {}) \cup
                {CASE l.type = "SS" -> f[l.succ] - dur[l.succ] - l.lag + dur[t]
                   [] l.type = "FF" -> f[l.succ] - l.lag
                   [] l.type = "SF" -> f[l.succ] - l.lag + dur[t]
                   [] OTHER -> f[l.succ] - dur[l.succ] - l.lag :
                 l \in {x \in links : x.pred = t}})
    IN  f

Critical == {t \in Tasks : late[t] - dur[t] <= early[t]}

-----------------------------------------------------------------------------
(* LevelResourcesWithOptions                                                *)

\* A call starts: it plans without the resources first.
LevelStart(o) ==
    /\ phase = "idle" /\ levels < MaxLevels
    /\ opts' = o
    /\ early' = EarlyStarts(con)
    /\ late' = LateFinishes(con, early')
    /\ es' = early'
    /\ ef' = [t \in Tasks |-> es'[t] + dur[t]]
    /\ pending' = Tasks /\ work' = NoDays /\ booked' = Free /\ unplaced' = {}
    /\ phase' = "placing" /\ levels' = levels + 1
    /\ UNCHANGED <<chart, con, segments>>

\* By latest start, or by latest finish, then by name.
Key(t) == late[t] - (IF opts.strategy = "edf" THEN 0 ELSE dur[t])

HigherPriority(a, b) ==
    IF opts.critical /\ (a \in Critical) # (b \in Critical) THEN a \in Critical
    ELSE Key(a) < Key(b) \/ (Key(a) = Key(b) /\ a < b)

Ready == {t \in pending : \A l \in Into(t) : l.pred \notin pending}

\* The ready task that goes next.
Pick == CHOOSE t \in Ready : \A u \in Ready \ {t} : HigherPriority(t, u)

\* Never before the links allow, with its predecessors where they are now,
\* nor before its start without the resources.
StartFloor(t) == Max({0, es[t]} \cup {Candidate(l, es[l.pred], ef[l.pred]) : l \in Into(t)})

Fits(t, start) == \A d \in start .. start + dur[t] - 1 : DayHasCapacity(t, d)

\* The starts within the horizon where the task fits as a whole.
Contiguous(t) == {s \in StartFloor(t) .. StartFloor(t) + Horizon : Fits(t, s)}

\* The days within the horizon with room for the task.
OpenDays(t) == {d \in StartFloor(t) .. StartFloor(t) + Horizon : DayHasCapacity(t, d)}

\* splitDays: the first of them, as many as the task needs.
SplitDays(t) ==
    LET open == SetToSortSeq(OpenDays(t), <) IN SubSeq(open, 1, dur[t])

CanSplit(t) == opts.split /\ Cardinality(OpenDays(t)) >= dur[t]

ContiguousDays(start, n) == [i \in 1 .. n |-> start + i - 1]

Book(t, days) ==
    booked' = [r \in Resources |->
                  [d \in 0 .. LastDay |->
                      booked[r][d] + (IF d \in Range(days) THEN Demand(t, r) ELSE 0)]]

\* Splitting wins only where it finishes strictly sooner.
SplitWins(t) ==
    /\ CanSplit(t)
    /\ Contiguous(t) # {} => Last(SplitDays(t)) + 1 < Min(Contiguous(t)) + dur[t]

\* A task without resources starts as early as its links allow.
PlaceFree(t) ==
    /\ staff[t] = <<>>
    /\ es' = [es EXCEPT ![t] = StartFloor(t)]
    /\ ef' = [ef EXCEPT ![t] = StartFloor(t) + dur[t]]
    /\ UNCHANGED <<booked, work, unplaced>>

PlaceSplit(t) ==
    /\ staff[t] # <<>> /\ SplitWins(t)
    /\ es' = [es EXCEPT ![t] = Head(SplitDays(t))]
    /\ ef' = [ef EXCEPT ![t] = Last(SplitDays(t)) + 1]
    /\ work' = [work EXCEPT ![t] = SplitDays(t)]
    /\ Book(t, SplitDays(t))
    /\ UNCHANGED unplaced

\* As a whole where it first fits; where it fits nowhere it stays at its
\* earliest start, booked there, and is reported.
PlaceWhole(t) ==
    /\ staff[t] # <<>> /\ ~SplitWins(t)
    /\ LET start == IF Contiguous(t) = {} THEN StartFloor(t) ELSE Min(Contiguous(t))
       IN  /\ es' = [es EXCEPT ![t] = start]
           /\ ef' = [ef EXCEPT ![t] = start + dur[t]]
           /\ Book(t, ContiguousDays(start, dur[t]))
    /\ unplaced' = IF Contiguous(t) = {} THEN unplaced \cup {t} ELSE unplaced
    /\ UNCHANGED work

Place ==
    /\ phase = "placing" /\ pending # {}
    /\ LET t == Pick IN
         /\ PlaceFree(t) \/ PlaceSplit(t) \/ PlaceWhole(t)
         /\ pending' = pending \ {t}
    /\ phase' = IF pending' = {} THEN "levelled" ELSE "placing"
    /\ UNCHANGED <<chart, con, opts, early, late, segments, levels>>

-----------------------------------------------------------------------------
(* What is kept                                                             *)

\* relativeWorkSegments: maximal runs of working days, from the first one.
RelativeSegments(days) ==
    LET n == Len(days)
        starts == {i \in 1 .. n : i = 1 \/ days[i] # days[i - 1] + 1}
        ends == {i \in 1 .. n : i = n \/ days[i + 1] # days[i] + 1}
        from(i) == days[i] - days[1]
    IN  SetToSortSeq({<<from(i), from(Min({j \in ends : j >= i})) + 1>> : i \in starts},
                     LAMBDA a, b : a[1] < b[1])

\* A task that levelling delayed beyond its start without the resources is
\* pinned where it was put; a pin that asks for nothing more is cleared.
\* Other constraints of the user stay.
Pinned(t) ==
    IF con[t].kind \notin {"ASAP", "SNET"} THEN con[t]
    ELSE IF es[t] > early[t] THEN [kind |-> "SNET", day |-> es[t]]
    ELSE Asap

\* LevelChartResources saves the pins and the segments in one chart.
Persist ==
    /\ phase = "levelled" /\ opts.keep
    /\ con' = [t \in Tasks |-> Pinned(t)]
    /\ segments' = [t \in Tasks |-> RelativeSegments(work[t])]
    /\ phase' = "idle"
    /\ UNCHANGED <<chart, run, levels>>

\* PreviewSplitLeveling keeps nothing.
Discard ==
    /\ phase = "levelled" /\ ~opts.keep
    /\ phase' = "idle"
    /\ UNCHANGED <<chart, con, run, segments, levels>>

Next ==
    \/ \E o \in {c \in Calls : c.keep \/ (c.split /\ c.strategy = "ltf" /\ ~c.critical)} : LevelStart(o)
    \/ Place
    \/ Persist
    \/ Discard

Spec == Init /\ [][Next]_vars

-----------------------------------------------------------------------------
(* DetectOverallocations                                                    *)

\* Days a task occupies: its working days, or all from start to finish.
OccupiedDays(t, s, f, w) == IF w[t] # <<>> THEN Range(w[t]) ELSE s[t] .. f[t] - 1

Breaches(s, f, w) ==
    {<<r, d>> \in Resources \X (0 .. LastDay) :
        LET at == {t \in Tasks : d \in OccupiedDays(t, s, f, w)}
        IN  at # {} /\ MapThenSumSet(LAMBDA t : Demand(t, r), at) > CapacityFor(r, d)}

-----------------------------------------------------------------------------
(* Properties                                                               *)

(* Types; a placed task lies within the days of the model. *)
TypeOK ==
    /\ phase \in {"idle", "placing", "levelled"}
    /\ opts \in Calls /\ pending \subseteq Tasks /\ unplaced \subseteq Tasks
    /\ \A t \in Tasks : es[t] \in 0 .. LastDay /\ ef[t] \in 0 .. LastDay + 1
    /\ \A t \in Tasks : con[t].kind \in {"ASAP", "SNET", "FNLT"}
    /\ \A t \in Tasks : Range(work[t]) \subseteq 0 .. LastDay

\* Every task is assigned to a resource at most once, on that resource's own
\* calendar.
PlainStaffing ==
    \A t \in Tasks : \A i, j \in DOMAIN staff[t] :
        /\ staff[t][i].calendar = staff[t][i].res
        /\ i # j => staff[t][i].res # staff[t][j].res

(* What LevelResourcesWithOptions is for: when it reports no unplaced task,
   DetectOverallocations finds no breach, whatever the strategy, with and
   without splitting. Staffing is plain: for the rest see NeverExceeds. *)
LevelledFits ==
    phase = "levelled" /\ unplaced = {} /\ PlainStaffing => Breaches(es, ef, work) = {}

(* Levelling moves tasks only to later days and keeps every link, also those
   from tasks that were split or left where they do not fit. *)
LinksKept ==
    phase = "levelled" =>
        \A t \in Tasks : /\ es[t] >= early[t]
                         /\ \A l \in Into(t) : es[t] >= Candidate(l, es[l.pred], ef[l.pred])

(* resources.go argues that the greedy split finishes no later than the task
   as a whole, and compares only finishes because of it. *)
SplitNeverLater ==
    phase = "placing" /\ Ready # {} =>
        LET t == Pick IN
            staff[t] # <<>> /\ CanSplit(t) /\ Contiguous(t) # {} =>
                Last(SplitDays(t)) + 1 <= Min(Contiguous(t)) + dur[t]

(* The pins of a first levelling are enough: a chart that carried no
   constraint is planned, from then on, exactly as it was levelled, split
   predecessors included. *)
PinsHoldPlan ==
    phase = "idle" /\ levels = 1 /\ opts.keep /\ (\A t \in Tasks : user[t] = Asap) =>
        \A t \in Tasks : EarlyStarts(con)[t] = es[t]

(* The persisted segments read back as the working days of the split. *)
SegmentsReadBack ==
    phase = "idle" /\ opts.keep =>
        \A t \in Tasks :
            UNION {es[t] + s[1] .. es[t] + s[2] - 1 : s \in Range(segments[t])} = Range(work[t])

(* The comment on LevelResourcesWithOptions, without the restriction of
   LevelledFits to plain staffing. *)
NeverExceeds ==
    phase = "levelled" /\ unplaced = {} => Breaches(es, ef, work) = {}

(* The comment on LevelChartResources: a delayed task is pinned at its
   levelled start and earlier pins are recomputed, so after a call that
   placed every task, unsplit, the chart's own plan has no breach. *)
LevelledChartFits ==
    phase = "idle" /\ opts.keep /\ unplaced = {} /\ work = NoDays /\ PlainStaffing
      /\ (\A t \in Tasks : user[t].kind \in {"ASAP", "SNET"}) =>
        LET s == EarlyStarts(con)
        IN  Breaches(s, [t \in Tasks |-> s[t] + dur[t]], NoDays) = {}

=============================================================================

------------------------------- MODULE Calendar -------------------------------
(***************************************************************************)
(* Working days and dates (kernel/anchor.go over calendar/calendar.go):    *)
(* date constraints are turned into working-day offsets before a schedule  *)
(* is calculated, and offsets into dates after it.                         *)
(*                                                                         *)
(* A date is a number, the project starts on day 0, and the calendar says  *)
(* which days are worked.  Offsets are in quarters of a day.               *)
(***************************************************************************)
EXTENDS Integers, FiniteSets, FiniteSetsExt

CONSTANTS
    LastDay,           \* bound: days the calendar speaks of; later ones are worked
    maxNonWorkdayRun,  \* free days after which the walk gives up waiting
    Starts,            \* starts the links ask for, in quarters of a day
    Durations          \* durations, in quarters of a day

CalendarAssumption ==
    LastDay \in Nat /\ maxNonWorkdayRun \in Nat /\ Starts \subseteq Nat /\ Durations \subseteq Nat

VARIABLES
    worked,       \* the working days up to LastDay
    con,          \* the constraint of the task: kind and date
    armed,        \* its offset, once it is armed
    es, dur,      \* start and duration of the task, in quarters
    violated,     \* the constraint is flagged
    dates,        \* the start and finish date
    phase

vars == <<worked, con, armed, es, dur, violated, dates, phase>>

Days == 0 .. LastDay
Kinds == {"SNET", "FNLT", "MFO"}

\* A country's working days: the week without its free days and its holidays.
IsWorkday(d) == d > LastDay \/ d \in worked

\* The first working day from d on; after maxNonWorkdayRun free days the next
\* one counts as worked.
NextWorkday(d) ==
    Min({x \in d .. (d + maxNonWorkdayRun) : IsWorkday(x) \/ x = d + maxNonWorkdayRun})

\* The date of each working-day offset, as AnchorSchedule walks it.
MaxOffset == LastDay + 4
DateOf ==
    LET walk[i \in 0 .. MaxOffset] ==
            IF i = 0 THEN NextWorkday(0) ELSE NextWorkday(walk[i - 1] + 1)
    IN  walk

\* DayOffset: the offset a date falls on; a free day counts as the next
\* working day, a date before the first working day as that day.
DayOffset(date) == Min({i \in 0 .. MaxOffset : DateOf[i] >= date})

Init ==
    /\ worked \in SUBSET Days
    /\ con \in [kind : Kinds, date : Days]
    /\ es \in Starts /\ dur \in Durations
    /\ armed = 0 /\ violated = FALSE /\ dates = <<0, 0>>
    /\ phase = "loaded"

-----------------------------------------------------------------------------
\* The finish is exclusive: a finish constraint is a day further.
ApplyConstraintDates ==
    /\ phase = "loaded"
    /\ armed' = 4 * (DayOffset(con.date) + (IF con.kind = "SNET" THEN 0 ELSE 1))
    /\ phase' = "armed"
    /\ UNCHANGED <<worked, con, es, dur, violated, dates>>

\* The constraint acts on what the links ask for, or is flagged.
CalculateCPM ==
    /\ phase = "armed"
    /\ LET target == armed - dur
           start == CASE con.kind = "SNET" -> Max({es, armed})
                      [] con.kind = "MFO" -> Max({es, target})
                      [] OTHER -> es
       IN  /\ es' = start
           /\ violated' = CASE con.kind = "MFO" -> target < es
                            [] con.kind = "FNLT" -> start + dur > armed
                            [] OTHER -> FALSE
    /\ phase' = "scheduled"
    /\ UNCHANGED <<worked, con, armed, dur, dates>>

\* round(ES), and ceil(EF) - 1 but not before the start.
StartOffset(s) == (s + 2) \div 4

FinishOffset(s, f) == Max({StartOffset(s), ((f + 3) \div 4) - 1})

AnchorSchedule ==
    /\ phase = "scheduled"
    /\ dates' = <<DateOf[StartOffset(es)], DateOf[FinishOffset(es, es + dur)]>>
    /\ phase' = "anchored"
    /\ UNCHANGED <<worked, con, armed, es, dur, violated>>

Next == ApplyConstraintDates \/ CalculateCPM \/ AnchorSchedule

Spec == Init /\ [][Next]_vars

-----------------------------------------------------------------------------
(* Properties                                                               *)

TypeOK ==
    /\ worked \subseteq Days
    /\ es \in Nat /\ armed \in Nat /\ violated \in BOOLEAN
    /\ dates[1] \in Nat /\ dates[2] \in Nat
    /\ phase \in {"loaded", "armed", "scheduled", "anchored"}

\* DayOffset undoes the walk of AnchorSchedule: the date of an offset is read
\* back as that offset, also where the walk gave up waiting for a working day.
OffsetReadsBack ==
    phase = "loaded" => \A i \in 0 .. MaxOffset : DayOffset(DateOf[i]) = i

\* What follows a task by a finish-to-start link does not start on an earlier
\* date than the task finishes, however the fractions round.
DatesFollowLinks ==
    phase = "anchored" =>
        /\ dates[1] <= dates[2]
        /\ DateOf[StartOffset(es + dur)] >= dates[2]

WalkGaveUp == \E i \in 0 .. MaxOffset : ~IsWorkday(DateOf[i])

\* A constraint that is not flagged holds for the dates shown, where its own
\* date is a working day and the task lasts and starts with a day (a milestone
\* is dated on the day that begins where it stands, a start at half a day on
\* the next).
ConstraintDatesKept ==
    phase = "anchored" /\ ~violated /\ IsWorkday(con.date) /\ ~WalkGaveUp /\ es % 4 = 0 /\ dur > 0 =>
        /\ con.kind = "SNET" => dates[1] >= con.date
        /\ con.kind = "FNLT" => dates[2] <= con.date
        /\ con.kind = "MFO" => dates[2] = con.date

\* scheduler.go says that a finish after the date of a finish-no-later-than
\* constraint is flagged.
DeadlineKept ==
    phase = "anchored" /\ con.kind = "FNLT" /\ ~violated => dates[2] <= con.date

=============================================================================

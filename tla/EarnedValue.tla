----------------------------- MODULE EarnedValue -----------------------------
(***************************************************************************)
(* Earned value at a status date (kernel/evm.go) over exact money: what is *)
(* planned of each task by then, what is earned, what was spent, and the   *)
(* forecast.                                                               *)
(*                                                                         *)
(* Days are whole; a split task has segments of work relative to its       *)
(* start, and no value is planned in the gaps.                             *)
(***************************************************************************)
EXTENDS Integers, Sequences, FiniteSets, FiniteSetsExt, Functions

CONSTANTS
    Tasks,
    MaxInt,       \* the largest amount of the word
    Budgets,      \* budgets of tasks
    Costs,        \* actual costs
    Percents,     \* percent complete
    Splits,       \* segments of split tasks, among them malformed ones
    LastDay       \* bound: status days

EvmAssumption == MaxInt \in Nat /\ LastDay \in Nat /\ Percents \subseteq 0 .. 100

VARIABLES
    task,         \* es, duration, budget, cost, percent and segments of each task
    asOf,         \* the status day
    metrics,      \* what ComputeEVM gives, or NoMetrics
    error         \* the sum that did not fit, or "none"

vars == <<task, asOf, metrics, error>>

MinInt == -MaxInt - 1
Fits(n) == n \in MinInt .. MaxInt
NoMetrics == [bac |-> 0, pv |-> 0, ev |-> 0, ac |-> 0, eac |-> 0, etc |-> 0, vac |-> 0]

\* Half away from zero.
Rounded(n, d) == IF n >= 0 THEN (2 * n + d) \div (2 * d) ELSE -((2 * (-n) + d) \div (2 * d))

Saturated(q) == IF q < MinInt THEN MinInt ELSE IF q > MaxInt THEN MaxInt ELSE q

Share(amount, n, d) == IF amount = 0 \/ n <= 0 THEN 0 ELSE Saturated(Rounded(amount * n, d))

-----------------------------------------------------------------------------
(* What is planned by the status day                                        *)

\* Segments are in order, do not overlap and are not empty.
Usable(segs) ==
    /\ segs # <<>>
    /\ \A i \in DOMAIN segs : segs[i][1] >= 0 /\ segs[i][2] > segs[i][1]
    /\ \A i \in 2 .. Len(segs) : segs[i][1] >= segs[i - 1][2]

Width(segs) == MapThenSumSet(LAMBDA i : segs[i][2] - segs[i][1], DOMAIN segs)

\* Work of the segments that is behind after some days.
Worked(segs, elapsed) ==
    MapThenSumSet(LAMBDA i : IF elapsed > segs[i][1] THEN Min({elapsed, segs[i][2]}) - segs[i][1] ELSE 0,
                  DOMAIN segs)

\* The planned fraction, as a ratio: a milestone at once, a split task by its
\* segments when they are usable, others evenly over their duration.
PlannedFraction(t, day) ==
    IF t.dur <= 0 THEN IF day >= t.es THEN <<1, 1>> ELSE <<0, 1>>
    ELSE IF Usable(t.segs) THEN <<Worked(t.segs, day - t.es), Width(t.segs)>>
    ELSE <<Max({0, Min({day - t.es, t.dur})}), t.dur>>

PlannedValue(t, day) ==
    LET f == PlannedFraction(t, day) IN Share(t.budget, f[1], f[2])

EarnedValueOf(t) == Share(t.budget, t.percent, 100)

-----------------------------------------------------------------------------
Total(value(_)) == MapThenSumSet(LAMBDA x : value(task[x]), Tasks)

\* BAC / CPI, or BAC while nothing is earned or spent.
Eac(bac, ac, ev) == IF ev > 0 /\ ac > 0 THEN Rounded(bac * ac, ev) ELSE bac

Sums ==
    LET bac == Total(LAMBDA t : t.budget)
        pv == Total(LAMBDA t : PlannedValue(t, asOf))
        ev == Total(LAMBDA t : EarnedValueOf(t))
        ac == Total(LAMBDA t : t.cost)
        eac == Eac(bac, ac, ev)
    IN  [bac |-> bac, pv |-> pv, ev |-> ev, ac |-> ac, eac |-> eac, etc |-> eac - ac, vac |-> bac - eac]

\* The sums in the order they are checked.
Checked ==
    LET s == Sums
    IN  <<<<"BAC", s.bac>>, <<"PV", s.pv>>, <<"EV", s.ev>>, <<"AC", s.ac>>, <<"SV", s.ev - s.pv>>,
          <<"CV", s.ev - s.ac>>, <<"EAC", s.eac>>, <<"ETC", s.etc>>, <<"VAC", s.vac>>>>

TaskSet == [es : 0 .. 1, dur : {0, 2, 3}, budget : Budgets, cost : Costs, percent : Percents, segs : Splits]

Init ==
    /\ task \in [Tasks -> TaskSet]
    /\ asOf \in 0 .. LastDay
    /\ metrics = NoMetrics /\ error = "none"

\* The first sum that does not fit ends the calculation with its name.
ComputeEVM ==
    LET bad == {i \in DOMAIN Checked : ~Fits(Checked[i][2])}
    IN  /\ metrics = NoMetrics /\ error = "none"
        /\ IF bad = {} THEN metrics' = Sums /\ UNCHANGED error
           ELSE error' = Checked[Min(bad)][1] /\ UNCHANGED metrics
        /\ UNCHANGED <<task, asOf>>

\* The report is made again for the next status day.
NextDay ==
    /\ asOf < LastDay
    /\ asOf' = asOf + 1
    /\ metrics' = NoMetrics /\ error' = "none"
    /\ UNCHANGED task

Next == ComputeEVM \/ NextDay

Spec == Init /\ [][Next]_vars

-----------------------------------------------------------------------------
(* Properties                                                               *)

TypeOK ==
    /\ asOf \in 0 .. LastDay
    /\ \A k \in DOMAIN metrics : Fits(metrics[k])

\* Nothing is planned beyond a budget, a task past its end is planned in
\* full, and no value is planned on a day in the gap of a split task.
PlannedWithinBudget ==
    \A x \in Tasks :
        LET t == task[x]
            pv == PlannedValue(t, asOf)
            last == IF Usable(t.segs) THEN t.segs[Len(t.segs)][2] ELSE t.dur
            idle == \A i \in DOMAIN t.segs : asOf - t.es \notin t.segs[i][1] .. (t.segs[i][2] - 1)
        IN  /\ t.budget >= 0 => pv \in 0 .. t.budget
            /\ t.dur > 0 /\ asOf - t.es >= last => pv = t.budget
            /\ (t.dur > 0 /\ Usable(t.segs) /\ idle) => PlannedValue(t, asOf + 1) = pv

\* evm.go argues that the last subtraction cannot fail: the forecast has the
\* sign of the budget, so the difference of the two fits when they do.
VarianceAlwaysFits == error # "VAC"

=============================================================================

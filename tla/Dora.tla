--------------------------------- MODULE Dora ---------------------------------
(***************************************************************************)
(* The deployment records and the metrics computed from them (agile/       *)
(* dora.go, the deployments of agile/store.go, ComputeDORA of              *)
(* app_agile.go).  Time is in half days.  The application takes the time   *)
(* once, fetches the deployments since the start of the window and hands   *)
(* them and the time to the computation.                                   *)
(***************************************************************************)
EXTENDS Integers, Sequences, FiniteSets, FiniteSetsExt

CONSTANTS Ids, Hours,      \* deployments; lead and restore times
          Windows,         \* the windows asked for, in days
          DefaultWindow,   \* what a window <= 0 means
          MaxTime          \* bound on the clock

DoraAssumption == DefaultWindow \in Nat \ {0} /\ MaxTime \in Nat

VARIABLES deploys,  \* the rows: a partial function on Ids
          now,
          call,     \* the ComputeDORA under way: what it has fetched
          report    \* what it returned, with what it was asked
vars == <<deploys, now, call, report>>

Deployment == [ts : 0..MaxTime, successful : BOOLEAN, hours : Hours]
NoCall == [asked |-> 0, days |-> 0, at |-> 0, fetched |-> {}, all |-> {}, busy |-> FALSE]
Init == deploys = {} /\ now = 0 /\ call = NoCall /\ report = [done |-> FALSE]

SaveDeployment ==
    /\ \E i \in Ids, r \in Deployment :
         /\ r.ts <= now
         /\ deploys' = {d \in deploys : d.id # i}
              \cup {[id |-> i, ts |-> r.ts, successful |-> r.successful, hours |-> r.hours]}
    /\ UNCHANGED <<now, call, report>>

DeleteDeployment ==
    /\ \E d \in deploys : deploys' = deploys \ {d}
    /\ UNCHANGED <<now, call, report>>

(* ---------------------------- the metrics ----------------------------- *)

Sorted(D) == \* by hours: the ranks of the median
    CHOOSE s \in [1..Cardinality(D) -> D] :
        /\ \A i, j \in 1..Cardinality(D) : i # j => s[i] # s[j]
        /\ \A i \in 1..Cardinality(D) - 1 : s[i].hours <= s[i + 1].hours

\* Twice the median, so that it is an integer.
Median2(D) ==
    IF D = {} THEN 0
    ELSE LET s == Sorted(D)
             n == Cardinality(D)
             mid == n \div 2
         IN IF n % 2 = 1 THEN 2 * s[mid + 1].hours ELSE s[mid].hours + s[mid + 1].hours

\* perDay = n / days, compared without division
ClassifyDeployFrequency(n, days) ==
    IF n = 0 THEN "unknown" ELSE IF n >= days THEN "elite"
    ELSE IF 7 * n >= days THEN "high" ELSE IF 30 * n >= days THEN "medium" ELSE "low"
ClassifyLeadTime(m2, n) ==
    IF n = 0 THEN "unknown" ELSE IF m2 <= 48 THEN "elite"
    ELSE IF m2 <= 336 THEN "high" ELSE IF m2 <= 1440 THEN "medium" ELSE "low"
ClassifyCFR(failed, n) ==
    IF n = 0 THEN "unknown" ELSE IF 100 * failed <= 15 * n THEN "elite"
    ELSE IF 100 * failed <= 30 * n THEN "medium" ELSE "low"
ClassifyMTTR(m2, n) ==
    IF n = 0 THEN "unknown" ELSE IF m2 <= 2 THEN "elite"
    ELSE IF m2 <= 48 THEN "high" ELSE IF m2 <= 336 THEN "medium" ELSE "low"

Day(ts) == ts \div 2
Window(D, days, at) == {d \in D : d.ts >= at - 2 * days /\ d.ts <= at}

\* buildDailyTrend: the days from the start of the window, a day at a time
\* until after its end.
TrendDays(days, at) == {Day(at - 2 * days + 2 * k) : k \in 0..days}

Compute(D, days, at) ==
    LET w == Window(D, days, at)
        ok == {d \in w : d.successful}
        lead == {d \in ok : d.hours > 0}
        rest == {d \in w \ ok : d.hours > 0}
    IN [total |-> Cardinality(w), failed |-> Cardinality(w \ ok),
        frequency |-> ClassifyDeployFrequency(Cardinality(w), days),
        lead |-> ClassifyLeadTime(Median2(lead), Cardinality(lead)),
        cfr |-> ClassifyCFR(Cardinality(w \ ok), Cardinality(w)),
        mttr |-> ClassifyMTTR(Median2(rest), Cardinality(rest)),
        trend |-> [d \in TrendDays(days, at) |-> Cardinality({x \in w : Day(x.ts) = d})]]

(* ----------------------- App.ComputeDORA, in two steps ---------------- *)

\* The time is taken and the default applied before the fetch.
Fetch ==
    /\ ~call.busy
    /\ \E asked \in Windows :
         LET days == IF asked <= 0 THEN DefaultWindow ELSE asked
         IN call' = [asked |-> asked, days |-> days, at |-> now, busy |-> TRUE, all |-> deploys,
                     fetched |-> {d \in deploys : d.ts >= now - 2 * days}]
    /\ UNCHANGED <<deploys, now, report>>

ComputeDORA ==
    /\ call.busy
    /\ report' = [done |-> TRUE, result |-> Compute(call.fetched, call.days, call.at), call |-> call]
    /\ call' = NoCall /\ UNCHANGED <<deploys, now>>

Tick == now < MaxTime /\ now' = now + 1 /\ UNCHANGED <<deploys, call, report>>
Done == report.done /\ UNCHANGED vars
\* Bound: one report.
Next == \/ ~report.done /\ (SaveDeployment \/ DeleteDeployment \/ Fetch \/ ComputeDORA \/ Tick)
        \/ Done
Spec == Init /\ [][Next]_vars

(* ----------------------------- properties ----------------------------- *)

TypeOK ==
    /\ \A d, e \in deploys : d.id = e.id => d = e
    /\ \A d \in deploys : d.ts \in 0..now
    /\ call.fetched \subseteq call.all

\* app_agile.go:247 - the fetch and the classification never disagree: the
\* report is the one that all deployments of that moment give.
FetchAgrees ==
    report.done =>
        report.result = Compute(report.call.all, report.call.days, report.call.at)

\* dora.go:230 - every deployment of the window is counted on one day of the
\* trend.
TrendAddsUp ==
    report.done => MapThenSumSet(LAMBDA d : report.result.trend[d], DOMAIN report.result.trend)
                   = report.result.total
================================================================================

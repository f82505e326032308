------------------------------ MODULE Scheduler ------------------------------
(***************************************************************************)
(* The critical path method (kernel/scheduler.go): a topological sort, a   *)
(* forward pass, a backward pass and the pass that moves tasks that are    *)
(* to be done as late as possible.                                         *)
(*                                                                         *)
(* Days are whole.  A link is a record; a task may have several links to   *)
(* one predecessor, as effectiveLinks allows for typed links.              *)
(***************************************************************************)
EXTENDS Integers, Sequences, FiniteSets, FiniteSetsExt, Functions

CONSTANTS
    Tasks,        \* task identities, numbers in the order of their names
    LinkTypes,    \* the link types in use, among FS SS FF SF
    Lags,         \* lags and leads
    Durations,
    Constraints,  \* the constraints tasks may carry: a kind and a day
    MaxLinks,     \* bound: links of a schedule
    MaxConstrained \* bound: tasks with a constraint

ScheduleAssumption ==
    /\ Tasks \subseteq Nat /\ Durations \subseteq Nat /\ Lags \subseteq Int
    /\ LinkTypes \subseteq {"FS", "SS", "FF", "SF"}
    /\ \A c \in Constraints : c.kind \in {"ALAP", "SNET", "FNLT", "MFO"} /\ c.day \in Int

VARIABLES
    dur,          \* the duration of each task
    links,        \* the precedence links
    con,          \* the constraint of each task
    phase,        \* where the calculation is
    order,        \* the topological order so far
    es, ef, lf,   \* early start and finish, late finish
    violated,     \* tasks whose constraint is flagged
    float

input == <<dur, links, con>>
vars == <<dur, links, con, phase, order, es, ef, lf, violated, float>>

Asap == [kind |-> "ASAP", day |-> 0]
AllLinks == {l \in [pred : Tasks, succ : Tasks, type : LinkTypes, lag : Lags] : l.pred # l.succ}
Zero == [t \in Tasks |-> 0]

Init ==
    /\ dur \in [Tasks -> Durations]
    /\ links \in {{}} \cup {Range(f) : f \in [1 .. MaxLinks -> AllLinks]}
    /\ con \in {c \in [Tasks -> Constraints \cup {Asap}] :
                    Cardinality({t \in Tasks : c[t] # Asap}) <= MaxConstrained}
    /\ phase = "sort" /\ order = <<>>
    /\ es = Zero /\ ef = Zero /\ lf = Zero /\ float = Zero
    /\ violated = {}

-----------------------------------------------------------------------------
(* topoSort                                                                 *)

Sorted == {order[i] : i \in DOMAIN order}
Ready == {t \in Tasks \ Sorted : \A l \in links : l.succ = t => l.pred \in Sorted}

\* The ready task with the smallest name goes next; none ready and some left
\* is a cycle.
TopoSort ==
    /\ phase = "sort"
    /\ IF Sorted = Tasks THEN phase' = "forward" /\ UNCHANGED order
       ELSE IF Ready = {} THEN phase' = "refused" /\ UNCHANGED order
       ELSE order' = Append(order, Min(Ready)) /\ UNCHANGED phase
    /\ UNCHANGED <<input, es, ef, lf, violated, float>>

-----------------------------------------------------------------------------
(* The passes                                                               *)

\* The earliest start a link asks of its successor.
Candidate(l, s, f) ==
    CASE l.type = "SS" -> s[l.pred] + l.lag
      [] l.type = "FF" -> f[l.pred] + l.lag - dur[l.succ]
      [] l.type = "SF" -> s[l.pred] + l.lag - dur[l.succ]
      [] OTHER -> f[l.pred] + l.lag

\* The start the links ask for, never before the start of the project, and
\* not before a floor: the constraints that act forward.
Floor(t) ==
    CASE con[t].kind = "SNET" -> con[t].day
      [] con[t].kind = "MFO" -> con[t].day - dur[t]
      [] OTHER -> 0

StartIn(t, s, extra) ==
    LET f == [x \in Tasks |-> s[x] + dur[x]]
    IN  Max({0, Floor(t), extra[t]} \cup {Candidate(l, s, f) : l \in {x \in links : x.succ = t}})

\* The starts after the first n tasks of the order.
Starts(extra) ==
    LET after[n \in 0 .. Len(order)] ==
            IF n = 0 THEN Zero
            ELSE [after[n - 1] EXCEPT ![order[n]] = StartIn(order[n], after[n - 1], extra)]
    IN  after[Len(order)]

Finish(s) == Max({0} \cup {s[t] + dur[t] : t \in Tasks})

\* Links force a must-finish-on task past its day: what they ask for alone is
\* later than the day allows.
PushedPast(t, s) == con[t].kind = "MFO" /\ s[t] > con[t].day - dur[t]

Forward ==
    /\ phase = "forward"
    /\ es' = Starts(Zero)
    /\ ef' = [t \in Tasks |-> es'[t] + dur[t]]
    /\ violated' = {t \in Tasks : PushedPast(t, es')}
    /\ phase' = "backward"
    /\ UNCHANGED <<input, order, lf, float>>

\* The latest finish a link asks of its predecessor.
LateCandidate(l, late) ==
    CASE l.type = "SS" -> late[l.succ] - dur[l.succ] - l.lag + dur[l.pred]
      [] l.type = "FF" -> late[l.succ] - l.lag
      [] l.type = "SF" -> late[l.succ] - l.lag + dur[l.pred]
      [] OTHER -> late[l.succ] - dur[l.succ] - l.lag

\* What the links leave, bounded by the finish of the project.
LinkLate(t, late) ==
    Min({Finish(es)} \cup {LateCandidate(l, late) : l \in {x \in links : x.pred = t}})

LateIn(t, late) ==
    CASE con[t].kind = "MFO" -> con[t].day
      [] con[t].kind = "FNLT" -> Min({con[t].day, LinkLate(t, late)})
      [] OTHER -> LinkLate(t, late)

LatesUnbounded ==
    LET n == Len(order)
        after[k \in 0 .. n] ==
            IF k = 0 THEN Zero
            ELSE LET t == order[n + 1 - k]
                     outgoing == {x \in links : x.pred = t}
                 IN  [after[k - 1] EXCEPT ![t] =
                          IF outgoing = {} THEN LateIn(t, after[k - 1])
                          ELSE Min({LateCandidate(l, after[k - 1]) : l \in outgoing})]
    IN  after[n]

\* The late finishes, from the end of the order to its beginning.
Lates ==
    LET n == Len(order)
        after[k \in 0 .. n] ==
            IF k = 0 THEN Zero
            ELSE LET t == order[n + 1 - k] IN [after[k - 1] EXCEPT ![t] = LateIn(t, after[k - 1])]
    IN  after[n]

\* A successor needs the task before its pinned day, or it ends too late.
Squeezed(t, late) ==
    \/ con[t].kind = "MFO" /\ LinkLate(t, late) < con[t].day
    \/ con[t].kind = "FNLT" /\ ef[t] > con[t].day

Backward ==
    /\ phase = "backward"
    /\ lf' = Lates
    /\ float' = [t \in Tasks |-> lf'[t] - dur[t] - es[t]]
    /\ violated' = violated \cup {t \in Tasks : Squeezed(t, lf')}
    /\ phase' = "late"
    /\ UNCHANGED <<input, order, es, ef>>

Late == {t \in Tasks : con[t].kind = "ALAP"}

\* ALAP tasks move to their late dates; no other task's dates change.
AlapPass ==
    /\ phase = "late"
    /\ es' = [t \in Tasks |-> IF t \in Late THEN lf[t] - dur[t] ELSE es[t]]
    /\ ef' = [t \in Tasks |-> IF t \in Late THEN lf[t] ELSE ef[t]]
    /\ float' = [t \in Tasks |-> IF t \in Late THEN 0 ELSE float[t]]
    /\ phase' = "done"
    /\ UNCHANGED <<input, order, lf, violated>>

Next == TopoSort \/ Forward \/ Backward \/ AlapPass

Spec == Init /\ [][Next]_vars

-----------------------------------------------------------------------------
(* Properties                                                               *)

TypeOK ==
    /\ phase \in {"sort", "forward", "backward", "late", "done", "refused"}
    /\ Len(order) = Cardinality(Sorted) /\ Sorted \subseteq Tasks
    /\ {es, ef, lf, float} \subseteq [Tasks -> Int]
    /\ violated \subseteq Tasks

Cyclic == \E S \in SUBSET Tasks \ {{}} : \A t \in S : \E l \in links : l.succ = t /\ l.pred \in S

\* CalculateCPM refuses a schedule exactly when its links go round in a
\* circle, with several links between two tasks or not.
RefusesCycles ==
    /\ phase = "refused" => Cyclic
    /\ phase \in {"forward", "backward", "late", "done"} => ~Cyclic

LinkKept(l) == es[l.succ] >= Candidate(l, es, ef)

\* The forward pass gives the earliest schedule: it keeps every link, and no
\* task could start a day earlier.
StartsEarliest ==
    phase = "backward" =>
        /\ \A l \in links : LinkKept(l)
        /\ \A t \in Tasks :
               \/ es[t] <= Max({0, Floor(t)})
               \/ \E l \in links : l.succ = t /\ es[t] - 1 < Candidate(l, es, ef)

\* Float is what a task can be late without moving the end of the project:
\* that much and no more (where no constraint pins a date).
FloatIsSlack ==
    phase = "late" /\ (\A t \in Tasks : con[t].kind \notin {"FNLT", "MFO"}) =>
        \A t \in Tasks :
            /\ float[t] >= 0
            /\ Finish(Starts([Zero EXCEPT ![t] = es[t] + float[t]])) = Finish(es)
            /\ Finish(Starts([Zero EXCEPT ![t] = es[t] + float[t] + 1])) > Finish(es)

\* A date constraint is kept or it is flagged.
KeptOrFlagged ==
    phase \in {"late", "done"} =>
        \A t \in Tasks \ violated :
            /\ con[t].kind = "SNET" => es[t] >= con[t].day
            /\ con[t].kind = "FNLT" => ef[t] <= con[t].day
            /\ con[t].kind = "MFO" => ef[t] = con[t].day

\* scheduler.go says that links always win over constraints: a constraint that
\* cannot be met is flagged and does not break precedence.
LinksAlwaysWin == phase = "done" => \A l \in links : LinkKept(l)

=============================================================================

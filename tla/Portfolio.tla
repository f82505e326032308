----------------------------- MODULE Portfolio ------------------------------
(***************************************************************************)
(* The budget of a project (contracts and labour by category) and the      *)
(* rollup of every project in a folder.  The rollup opens one file after   *)
(* the other while projects are edited, refuses to mix currencies, and     *)
(* totals five columns in accumulators of two machine words.               *)
(*                                                                         *)
(* A word has W bits.  Amounts are minor units; rates and points are whole *)
(* numbers, so that no rounding happens here.                              *)
(***************************************************************************)
EXTENDS Integers, Sequences, FiniteSets, SequencesExt, FiniteSetsExt, TLC

CONSTANTS W,           \* width of a machine word
          Folder,      \* the project files, in the order they are found
          Currencies,  \* "" is a row that names none, "bad" one nobody knows
          Schedules,   \* what the current schedule of a project may be
          People, Items, Budgets, Actuals,
          MaxPeople, MaxItems, Edits

Bounds == W >= 2 /\ {MaxPeople, MaxItems, Edits} \subseteq Nat

VARIABLES proj,      \* file -> its project
          scan,      \* the rollup: files left, rows taken, their currency
          result,    \* what the rollup returned, until the next call
          summary,   \* what ComputeBudget returned and of which project, until the next call
          edits

vars == <<proj, scan, result, summary, edits>>

MaxInt == 2 ^ (W - 1) - 1
MinInt == - 2 ^ (W - 1)
Fits(n) == MinInt <= n /\ n <= MaxInt
Total(s) == FoldLeft(+, 0, s)

CanonicalProjectCurrency(c) == IF c = "" THEN "USD" ELSE c

(***************************************************************************)
(* budget.Compute.                                                         *)
(***************************************************************************)
lower(name) == IF name \in {"Ann", "ANN", "ann"} THEN "ann" ELSE name

RateTimesQuantity(rate, points) == Min({rate * points, MaxInt})

Contracts(p) == SelectSeq(p.people, LAMBDA s : s.contract > 0)

\* rateByName and catByName: a later stakeholder of the same name replaces an earlier one.
RateCard(p) ==
  FoldLeft(LAMBDA card, s : IF s.rate > 0
                            THEN [n \in DOMAIN card \cup {lower(s.name)} |->
                                    IF n = lower(s.name) THEN s ELSE card[n]]
                            ELSE card,
           [n \in {} |-> 0], p.people)

Costed(p, card) == SelectSeq(p.items, LAMBDA wi : /\ wi.assignee # "" /\ wi.points > 0
                                                  /\ lower(wi.assignee) \in DOMAIN card)

LabourOf(s, wi) == [cat |-> s.category, cost |-> RateTimesQuantity(s.rate, wi.points)]

LabourLines(card, items) == [i \in DOMAIN items |-> LabourOf(card[lower(items[i].assignee)], items[i])]

LabourAt(p, card) == LabourLines(card, Costed(p, card))

Labour(p) == LabourAt(p, RateCard(p))

ContractLines(people) == [i \in DOMAIN people |-> [cat |-> people[i].category, cost |-> people[i].contract]]

Cost(lines) == Total([i \in DOMAIN lines |-> lines[i].cost])

\* addCategory: contracts of any category, labour only of a named one.
addCategory(p) == ContractLines(Contracts(p)) \o SelectSeq(Labour(p), LAMBDA l : l.cat # "")

CategorySum(lines, c) == Cost(SelectSeq(lines, LAMBDA l : l.cat = c))

NoSummary == [ok |-> FALSE, contracts |-> 0, labour |-> 0, committed |-> 0, remaining |-> 0]

CommittedFits(contracts, labour, budget) ==
  /\ Fits(contracts) /\ Fits(labour) /\ Fits(contracts + labour)
  /\ Fits(budget - (contracts + labour))

Summary(contracts, labour, budget) ==
  IF ~CommittedFits(contracts, labour, budget) THEN NoSummary
  ELSE [ok |-> TRUE, contracts |-> contracts, labour |-> labour,
        committed |-> contracts + labour, remaining |-> budget - (contracts + labour)]

Compute(p) == Summary(Cost(ContractLines(Contracts(p))), Cost(Labour(p)), p.budget)

(***************************************************************************)
(* portfolioScheduleEVM: no figures, figures, or an error.                 *)
(***************************************************************************)
portfolioScheduleEVM(p) ==
  CASE p.schedule \in {"no start", "no tasks", "cycle", "no cost"} -> "unavailable"
    [] p.schedule \in {"unreadable", "overflow"} -> "error"
    [] OTHER -> "available"

NoRow == [ok |-> FALSE, evm |-> FALSE, vals |-> <<0, 0, 0, 0, 0>>]

\* Budgeted, committed, actual, earned, planned.  The three of EVM are zero without it.
Metrics(p, committed, evm) ==
  IF ~committed.ok \/ evm = "error" THEN NoRow
  ELSE [ok |-> TRUE, evm |-> evm = "available",
        vals |-> <<p.budget, committed.committed>>
                 \o IF evm = "available" THEN <<p.actual, 1, 2>> ELSE <<0, 0, 0>>]

portfolioProjectMetrics(p) == Metrics(p, Compute(p), portfolioScheduleEVM(p))

(***************************************************************************)
(* The rollup: two words with a carry, checked only at the end.            *)
(***************************************************************************)
Word(n) == n % 2 ^ W                                 \* n as an unsigned word
Signed(n) == IF n > MaxInt THEN n - 2 ^ W ELSE n     \* a word read as signed
Sign(n) == IF n < 0 THEN -1 ELSE 0                   \* v >> 63

addM(a, v) == LET sum == a.lo + Word(v)
              IN  [lo |-> sum % 2 ^ W, hi |-> Signed(Word(a.hi + sum \div 2 ^ W))]

add(a, v) ==
  LET sum == a.lo + Word(v)
      carry == sum \div 2 ^ W
  IN  [lo |-> sum % 2 ^ W, hi |-> Signed(Word(a.hi + Sign(v) + carry))]

int64(a) == [value |-> Signed(a.lo), ok |-> a.hi = Sign(Signed(a.lo))]

Column(rows, f) == IF f > 2 THEN SelectSeq(rows, LAMBDA r : r.evm) ELSE rows

Accumulated(rows, f) ==
  int64(FoldLeft(LAMBDA a, r : add(a, r.vals[f]), [lo |-> 0, hi |-> 0], Column(rows, f)))

Counted(rows) == Len(SelectSeq(rows, LAMBDA r : r.evm))

Report(rows, sums) ==
  IF \E f \in 1 .. 5 : ~sums[f].ok
  THEN [state |-> "overflow", rows |-> rows]
  ELSE [state |-> "ok", rows |-> rows, currency |-> scan.currency,
        totals |-> [f \in 1 .. 5 |-> sums[f].value],
        projects |-> Len(rows), withEvm |-> Counted(rows),
        without |-> Len(rows) - Counted(rows)]

PortfolioRollup(rows) == Report(rows, [f \in 1 .. 5 |-> Accumulated(rows, f)])

-----------------------------------------------------------------------------
Idle == [phase |-> "idle", left |-> <<>>, rows |-> <<>>, currency |-> ""]
NoResult == [state |-> "none", rows |-> <<>>]

Init ==
  /\ proj \in [Range(Folder) -> [readable : {TRUE}, currency : Currencies \ {"bad"},
                                 budget : Budgets, actual : Actuals,
                                 schedule : Schedules \ {"unreadable", "overflow"},
                                 people : {<<>>}, items : {<<>>}]]
  /\ scan = Idle
  /\ result = NoResult
  /\ summary = NoSummary
  /\ edits = 0

\* A project is edited, becomes unreadable or readable again, by a call of its own.
Edit(f, p) ==
  /\ edits < Edits
  /\ p # proj[f]
  /\ proj' = [proj EXCEPT ![f] = p]
  /\ summary' = NoSummary
  /\ edits' = edits + 1
  /\ UNCHANGED <<scan, result>>

EditProject ==
  \E f \in Range(Folder) :
    \/ Edit(f, [proj[f] EXCEPT !.readable = ~@])
    \/ \E c \in Currencies : Edit(f, [proj[f] EXCEPT !.currency = c])
    \/ \E s \in Schedules : Edit(f, [proj[f] EXCEPT !.schedule = s])
    \/ \E b \in Budgets : Edit(f, [proj[f] EXCEPT !.budget = b])
    \/ /\ Len(proj[f].people) < MaxPeople
       /\ \E s \in People : Edit(f, [proj[f] EXCEPT !.people = Append(@, s)])
    \/ /\ Len(proj[f].items) < MaxItems
       /\ \E wi \in Items : Edit(f, [proj[f] EXCEPT !.items = Append(@, wi)])

ComputeBudget ==
  /\ \E f \in Range(Folder) :
       summary' = Compute(proj[f]) @@ [project |-> proj[f]]
  /\ result' = NoResult
  /\ UNCHANGED <<proj, scan, edits>>

\* The files of the folder are listed.
RunPortfolioAnalytics ==
  /\ scan = Idle
  /\ scan' = [Idle EXCEPT !.phase = "reading", !.left = Folder]
  /\ result' = NoResult
  /\ summary' = NoSummary
  /\ UNCHANGED <<proj, edits>>

Fail(why) ==
  /\ result' = [state |-> why, rows |-> scan.rows]
  /\ scan' = Idle

Mixed(p) == scan.currency # "" /\ scan.currency # CanonicalProjectCurrency(p.currency)

Skipped(s) == [s EXCEPT !.left = Tail(@)]

\* The next file: skipped, refused, or one more row.
ReadProject ==
  /\ scan.phase = "reading"
  /\ scan.left # <<>>
  /\ \E p \in {proj[Head(scan.left)]} : \E row \in {portfolioProjectMetrics(p)} :
         \/ /\ ~p.readable
            /\ scan' = Skipped(scan)
            /\ UNCHANGED result
         \/ p.readable /\ p.currency = "bad" /\ Fail("unknown currency")
         \/ p.readable /\ p.currency # "bad" /\ Mixed(p) /\ Fail("mixed currencies")
         \/ p.readable /\ p.currency # "bad" /\ ~Mixed(p) /\ ~row.ok /\ Fail("metrics")
         \/ /\ p.readable /\ p.currency # "bad" /\ ~Mixed(p) /\ row.ok
            /\ scan' = [scan EXCEPT !.left = Tail(@),
                          !.currency = CanonicalProjectCurrency(p.currency),
                          !.rows = Append(@, row @@ [currency |-> CanonicalProjectCurrency(p.currency)])]
            /\ UNCHANGED result
  /\ UNCHANGED <<proj, summary, edits>>

Rollup ==
  /\ scan.phase = "reading"
  /\ scan.left = <<>>
  /\ result' = PortfolioRollup(scan.rows)
  /\ scan' = Idle
  /\ UNCHANGED <<proj, summary, edits>>

Next == EditProject \/ ComputeBudget \/ RunPortfolioAnalytics \/ ReadProject \/ Rollup

Spec == Init /\ [][Next]_vars

-----------------------------------------------------------------------------
Sum(rows, f) == LET c == Column(rows, f) IN Total([i \in DOMAIN c |-> c[i].vals[f]])

\* Every amount a call returns or keeps for the rollup is one of a machine word.
TypeOK ==
  /\ scan.phase \in {"idle", "reading"} /\ edits \in 0 .. Edits
  /\ \A r \in Range(scan.rows) : \A f \in 1 .. 5 : Fits(r.vals[f])
  /\ \A v \in {summary.contracts, summary.labour, summary.committed, summary.remaining} : Fits(v)

\* A total that is returned is the exact sum, and an overflow is reported only when the
\* exact final sum is out of range, whatever the partial sums were (acc128, ErrRollupOverflow).
RollupExact ==
  /\ result.state = "ok" => \A f \in 1 .. 5 : result.totals[f] = Sum(result.rows, f)
  /\ result.state = "overflow" => \E f \in 1 .. 5 : ~Fits(Sum(result.rows, f))

\* No total adds rows of different currencies, although a project's currency may change
\* between the reading of one file and of the next (portfolioMixedCurrencyError).
OneCurrency == result.state = "ok" => \A r \in Range(result.rows) : r.currency = result.currency

\* The coverage counts tell a partial rollup from a complete one: actual cost, earned and
\* planned value are sums over exactly the rows counted as having them.
CoverageCounts ==
  result.state = "ok" =>
    /\ result.withEvm = Cardinality({i \in DOMAIN result.rows : result.rows[i].evm})
    /\ result.totals[5] = 2 * result.withEvm
    /\ result.without = 0 => \A r \in Range(result.rows) : r.evm

\* Contracts and labour by category never add up to more than what is committed; what is
\* missing is the labour of people without a category (addCategory).  A category total that
\* does not fit is therefore never met, as Compute's comment argues.
CategoriesAddUp ==
  summary.ok =>
    LET p == summary.project
    IN  \E lines \in {addCategory(p)} :
          LET cats == {lines[i].cat : i \in DOMAIN lines}
          IN  /\ MapThenSumSet(LAMBDA c : CategorySum(lines, c), cats)
                   + Cost(SelectSeq(Labour(p), LAMBDA l : l.cat = "")) = summary.committed
              /\ \A c \in cats : Fits(CategorySum(lines, c))

\* Labour is costed at the rate of the last stakeholder of the assignee's name who has one,
\* and a stakeholder without a rate never takes one away (rateByName).
RateOfLast ==
  summary.ok =>
    LET p == summary.project
        named(wi) == {i \in DOMAIN p.people : /\ lower(p.people[i].name) = lower(wi.assignee)
                                              /\ p.people[i].rate > 0}
        cost(wi) == IF wi.assignee = "" \/ named(wi) = {} THEN 0
                    ELSE RateTimesQuantity(p.people[Max(named(wi))].rate, wi.points)
    IN  summary.labour = Total([i \in DOMAIN p.items |-> cost(p.items[i])])
=============================================================================

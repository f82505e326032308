----------------------------- MODULE CostControl -----------------------------
(***************************************************************************)
(* The cost ledger (db/cost_control.go), its attachments                   *)
(* (db/cost_control_attachments.go), the project row that holds the        *)
(* reporting currency (db/project.go) and the summaries the desktop makes  *)
(* of them (desktop/app_cost_control.go).                                  *)
(*                                                                         *)
(* Every write is one transaction.  An amount has no currency of its own:  *)
(* it is read in the currency of the project, so the model remembers with  *)
(* each amount the currency the project had when it was stored.            *)
(***************************************************************************)
EXTENDS Integers, Sequences, FiniteSets, FiniteSetsExt, Functions

CONSTANTS
    Entries,      \* identities of ledger entries
    Types,        \* the seeded cost types
    Lens,         \* a function: the value of each type under one classification
    Currencies,   \* the supported reporting currencies
    Amounts,      \* amounts of entries, credits are negative
    Reserves,     \* amounts of reserves
    MaxInt,       \* the largest amount of the word
    Sizes,        \* sizes of attached files
    maxAttachmentsPerEntry,
    maxAttachmentTotalBytesPerProject,
    MaxBaselines  \* bound: approvals

LedgerAssumption ==
    /\ Lens \in [Types -> Range(Lens)]
    /\ MaxInt \in Nat /\ Amounts \subseteq (-MaxInt - 1) .. MaxInt
    /\ Reserves \subseteq Int

VARIABLES
    project,      \* the project row: its currency and its own budget
    seeded,       \* the events cost_type.seed; the types exist from the first
    entries,      \* table cost_entries, oldest first
    reserves,     \* table cost_reserves: one row of each kind
    baselines,    \* table cost_baseline_snapshots
    attached      \* table cost_entry_attachments, as sizes by entry

vars == <<project, seeded, entries, reserves, baselines, attached>>

Kinds == {"planned", "commitment", "actual"}
ReserveKinds == {"contingency", "management"}

Fits(n) == n \in (-MaxInt - 1) .. MaxInt

SumOver(S, value(_)) == MapThenSumSet(value, S)

Ids == {entries[i].id : i \in DOMAIN entries}

Init ==
    /\ project \in [cur : Currencies, budget : {0}]
    /\ seeded = 0
    /\ entries = <<>>
    /\ reserves = [k \in ReserveKinds |-> [amount |-> 0, cur |-> project.cur]]
    /\ baselines = <<>>
    /\ attached = [e \in Entries |-> <<>>]

-----------------------------------------------------------------------------
(* The project row                                                          *)

\* Whether amounts are kept in the reporting currency: entries, reserves that
\* are not zero, baselines, and the budget of the row that is replaced.
AmountsKept ==
    \/ entries # <<>>
    \/ \E k \in ReserveKinds : reserves[k].amount # 0
    \/ baselines # <<>>
    \/ project.budget # 0

\* A change of the currency is refused while amounts are kept in it.
UpsertProject(cur, budget) ==
    /\ cur # project.cur => ~AmountsKept
    /\ project' = [cur |-> cur, budget |-> budget]
    /\ UNCHANGED <<seeded, entries, reserves, baselines, attached>>

-----------------------------------------------------------------------------
(* The ledger                                                               *)

\* Every listing seeds the types; the event is recorded the first time.
EnsureCostTypes ==
    /\ seeded' = IF seeded = 0 THEN 1 ELSE seeded
    /\ UNCHANGED <<project, entries, reserves, baselines, attached>>

\* SaveCostEntry only inserts; the type has to exist and the amount is not zero.
SaveCostEntry(e, kind, type, amount) ==
    /\ seeded > 0 /\ amount # 0 /\ e \notin Ids
    /\ entries' = Append(entries,
           [id |-> e, kind |-> kind, type |-> type, amount |-> amount, cur |-> project.cur])
    /\ UNCHANGED <<project, seeded, reserves, baselines, attached>>

\* One reserve of each kind, never negative.
SaveCostReserve(kind, amount) ==
    /\ amount >= 0
    /\ reserves' = [reserves EXCEPT ![kind] = [amount |-> amount, cur |-> project.cur]]
    /\ UNCHANGED <<project, seeded, entries, baselines, attached>>

Planned == SumOver({i \in DOMAIN entries : entries[i].kind = "planned"}, LAMBDA i : entries[i].amount)

Snapshot ==
    [version |-> Max({0} \cup {baselines[i].version : i \in DOMAIN baselines}) + 1,
     cur |-> project.cur, planned |-> Planned, upto |-> Len(entries),
     contingency |-> reserves["contingency"].amount, management |-> reserves["management"].amount]

ApproveCostBaselineUnchecked ==
    LET base == Planned + reserves["contingency"].amount
    IN  /\ Len(baselines) < MaxBaselines
        /\ Fits(Planned) /\ Fits(base) /\ base > 0
        /\ baselines' = Append(baselines, Snapshot)
        /\ UNCHANGED <<project, seeded, entries, reserves, attached>>

\* ApproveCostBaseline: each sum has to fit the word, the baseline has to be
\* positive, and so does the baseline with the management reserve.
ApproveCostBaseline ==
    LET base == Planned + reserves["contingency"].amount
    IN  /\ Len(baselines) < MaxBaselines
        /\ Fits(Planned) /\ Fits(base) /\ base > 0
        /\ Fits(base + reserves["management"].amount)
        /\ baselines' = Append(baselines, Snapshot)
        /\ UNCHANGED <<project, seeded, entries, reserves, attached>>

-----------------------------------------------------------------------------
(* Attachments                                                              *)

Total == SumOver(Entries, LAMBDA e : SumOver(DOMAIN attached[e], LAMBDA i : attached[e][i]))

SaveCostEntryAttachment(e, size) ==
    /\ e \in Ids /\ size > 0
    /\ Len(attached[e]) < maxAttachmentsPerEntry
    /\ Total + size <= maxAttachmentTotalBytesPerProject
    /\ attached' = [attached EXCEPT ![e] = Append(@, size)]
    /\ UNCHANGED <<project, seeded, entries, reserves, baselines>>

-----------------------------------------------------------------------------
(* What the desktop shows                                                   *)

\* ComputeCostSummary: the total of a kind.
SummaryOf(kind) == SumOver({i \in DOMAIN entries : entries[i].kind = kind}, LAMBDA i : entries[i].amount)

\* classifyCostEntries: the total of a kind under one value of a lens.
Classify(value, kind) ==
    SumOver({i \in DOMAIN entries : entries[i].kind = kind /\ Lens[entries[i].type] = value},
            LAMBDA i : entries[i].amount)

Next ==
    \/ EnsureCostTypes \/ ApproveCostBaseline
    \/ \E cur \in Currencies, budget \in {0, 1} : UpsertProject(cur, budget)
    \/ \E e \in Entries, kind \in Kinds, type \in Types, amount \in Amounts :
           SaveCostEntry(e, kind, type, amount)
    \/ \E kind \in ReserveKinds, amount \in Reserves : SaveCostReserve(kind, amount)
    \/ \E e \in Entries, size \in Sizes : SaveCostEntryAttachment(e, size)

Spec == Init /\ [][Next]_vars

-----------------------------------------------------------------------------
(* Properties                                                               *)

TypeOK ==
    /\ project \in [cur : Currencies, budget : {0, 1}]
    /\ seeded \in {0, 1}
    /\ \A i \in DOMAIN entries :
           entries[i] \in [id : Entries, kind : Kinds, type : Types, amount : Amounts, cur : Currencies]
    /\ reserves \in [ReserveKinds -> [amount : Reserves, cur : Currencies]]
    /\ attached \in [Entries -> Seq(Sizes)]

\* No amount is ever read in another currency than it was stored in, whatever
\* order entries, reserves, approvals and changes of the project come in.
AmountsKeepCurrency ==
    /\ \A i \in DOMAIN entries : entries[i].cur = project.cur
    /\ \A k \in ReserveKinds : reserves[k].amount # 0 => reserves[k].cur = project.cur
    /\ \A i \in DOMAIN baselines : baselines[i].cur = project.cur

\* A baseline keeps adding up: its planned amount is the sum of the entries
\* that were in the ledger when it was approved, and the versions count on.
BaselinesAddUp ==
    \A i \in DOMAIN baselines :
        /\ baselines[i].version = i
        /\ baselines[i].planned =
               SumOver({j \in 1 .. baselines[i].upto : entries[j].kind = "planned"}, LAMBDA j : entries[j].amount)

\* Every approved baseline can be shown: none of the sums costBaselineWire
\* makes of it leaves the word.
BaselinesShowable ==
    \A i \in DOMAIN baselines :
        LET base == baselines[i].planned + baselines[i].contingency
        IN  Fits(base) /\ Fits(base + baselines[i].management)

\* The attachments of the whole project stay within its budget, spread over
\* entries in any way.
AttachmentsWithinBudget == Total <= maxAttachmentTotalBytesPerProject

\* The rows of a classification add up to the total of the summary, for each
\* kind: nothing is left out and nothing is counted twice.
LensesReconcile ==
    \A kind \in Kinds :
        SumOver(Range(Lens), LAMBDA v : Classify(v, kind)) = SummaryOf(kind)

=============================================================================

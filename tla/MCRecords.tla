---- MODULE MCRecords ----
(***************************************************************************)
(* What a project and the system database hold: the audit chain, documents *)
(* and charts, scenarios, the cost ledger, the work breakdown store, the   *)
(* project row, settings, Six Sigma, the board, the catalog and access     *)
(* notices, explored in one run.  A behaviour is of one of the parts; the  *)
(* variables of the others keep the value "off".                           *)
(***************************************************************************)
EXTENDS Integers, Sequences, FiniteSets, TLC, TLAPS, FiniteSetTheorems,
        WellFoundedInduction, NaturalsInduction, SequenceTheorems

CONSTANT Parts   \* the parts to explore
CONSTANTS Peers,               \* names: of calls, writers, windows, records of one kind
          Contents, MaxAudit, MaxDamage, \* of the chain: events, numbers, damaged rows
          Files, Clones,       \* project files; the files that hold one Sigma project
          Threads, Days, Written, Currencies, Countries, \* of the project row
          MaxEdits, MaxCalls,  \* bounds: edits of the row, calls begun
          Asked, Fonts,        \* the seeds ticked and the fonts on offer
          BuiltIn, Added, Sprints, MaxTime, \* of the board: columns, sprints, the clock
          VendorIds, Vendors, Blank, MaxVersion, \* of the catalog: records and their versions
          MaxNotices,          \* bound: events of an account
          Docs, RecordCharts, Schedule, Bodies, MaxRecords, \* of documents and charts
          Baselines, Copies, MaxChartEdits, MaxScenarioEvents \* of scenarios

VARIABLE part    \* the part a behaviour is of: only its variables move
VARIABLES rows, commits, txn, appended, damage
VARIABLES docs, charts, baselines, audit, call
VARIABLES chart, scenarioBaselines, scenarios, copies, branch, scenarioAudit
VARIABLES project, seeded, entries, reserves, costBaselines, attached
VARIABLES wbsCharts, records, receipts, ready, life, wbsAudit, told, result, generic
VARIABLES rowRows, sprint, costs, content, open, form, rowCall, answer, edits
VARIABLES phase, landed, row, pack, font, settingsCall, begun
VARIABLES sigmaOpen, sigmaPhase, work, sigmaCall, sigmaBegun, ended
VARIABLES board, columns, shown, item, sprints, now, logged
VARIABLES catalogRows, catalogWindows, history
VARIABLES events, acknowledged, noticeShown, seen, noticeTold

Chain == INSTANCE AuditChain WITH
    Writers <- Peers, MaxEvents <- MaxAudit
Records == INSTANCE Records WITH
    Calls <- Peers, Charts <- RecordCharts, MaxEvents <- MaxRecords
Scenarios == INSTANCE Scenarios WITH
    Scenarios <- Peers, MaxEdits <- MaxChartEdits, MaxEvents <- MaxScenarioEvents,
    baselines <- scenarioBaselines, audit <- scenarioAudit
Costs == INSTANCE CostControl WITH
    Entries <- Peers, Types <- {"labor", "materials"},
    Lens <- [labor |-> "direct", materials |-> "indirect"],
    Currencies <- {"usd", "jpy"}, Amounts <- {-1, 2}, Reserves <- {0, 3}, MaxInt <- 4,
    Sizes <- {2}, maxAttachmentsPerEntry <- 1, maxAttachmentTotalBytesPerProject <- 3,
    MaxBaselines <- 2, baselines <- costBaselines
Wbs == INSTANCE WbsStore WITH
    Charts <- {"c1"}, Requests <- {"r1", "r2", "r3"}, Bodies <- {"b1", "b2"},
    Linked <- {"b2"}, Lifetimes <- 1 .. 2, MaxRevision <- 4, ReceiptLimit <- 2,
    Radix <- 3, MaxGeneric <- 1, charts <- wbsCharts, audit <- wbsAudit
Row == INSTANCE ProjectRow WITH
    Edits <- MaxEdits, rows <- rowRows, call <- rowCall
Settings == INSTANCE ProjectSettings WITH
    Calls <- Peers, call <- settingsCall
Sigma == INSTANCE Sigma WITH
    Files <- Clones, open <- sigmaOpen, phase <- sigmaPhase, call <- sigmaCall,
    begun <- sigmaBegun
Board == INSTANCE AgileBoard WITH
    Items <- Peers
Catalog == INSTANCE Catalog WITH
    Windows <- Peers, Ids <- VendorIds, Contents <- Vendors, rows <- catalogRows,
    windows <- catalogWindows
Notices == INSTANCE AccessNotices WITH
    Windows <- Peers, MaxEvents <- MaxNotices, shown <- noticeShown, told <- noticeTold

\* The seeds ticked, one of them unknown to this version.
MCAsked == <<"kanban", "later", "charter">>

ASSUME PartsAssumption ==
       /\ Chain!ConstantsAssumption /\ Records!ConstantsAssumption /\ Scenarios!BoundsAssumption
       /\ Costs!LedgerAssumption /\ Wbs!ConstantsAssumption /\ Row!EditsBounded
       /\ Settings!SettingsAssumption /\ Sigma!SigmaAssumption /\ Board!BoardAssumption
       /\ Catalog!CatalogAssumption /\ Notices!EventsAssumption

chainVars == <<rows, commits, txn, appended, damage>>
recordVars == <<docs, charts, baselines, audit, call>>
scenarioVars == <<chart, scenarioBaselines, scenarios, copies, branch, scenarioAudit>>
costVars == <<project, seeded, entries, reserves, costBaselines, attached>>
wbsVars == <<wbsCharts, records, receipts, ready, life, wbsAudit, told, result,
             generic>>
rowVars == <<rowRows, sprint, costs, content, open, form, rowCall, answer, edits>>
settingsVars == <<phase, landed, row, pack, font, settingsCall, begun>>
sigmaVars == <<sigmaOpen, sigmaPhase, work, sigmaCall, sigmaBegun, ended>>
boardVars == <<board, columns, shown, item, sprints, now, logged>>
catalogVars == <<catalogRows, catalogWindows, history>>
noticeVars == <<events, acknowledged, noticeShown, seen, noticeTold>>
vars == <<part, chainVars, recordVars, scenarioVars, costVars, wbsVars, rowVars,
          settingsVars, sigmaVars, boardVars, catalogVars, noticeVars>>

\* The value of a variable of the parts that do not move.
Off == "off"

Init ==
    /\ part \in Parts
    /\ IF part = "chain" THEN Chain!Init
       ELSE rows = Off /\ commits = Off /\ txn = Off /\ appended = Off /\ damage = Off
    /\ IF part = "records" THEN Records!Init
       ELSE docs = Off /\ charts = Off /\ baselines = Off /\ audit = Off /\ call = Off
    /\ IF part = "scenarios" THEN Scenarios!Init
       ELSE chart = Off /\ scenarioBaselines = Off /\ scenarios = Off /\
            copies = Off /\ branch = Off /\ scenarioAudit = Off
    /\ IF part = "costs" THEN Costs!Init
       ELSE project = Off /\ seeded = Off /\ entries = Off /\ reserves = Off /\
            costBaselines = Off /\ attached = Off
    /\ IF part = "wbs" THEN Wbs!Init
       ELSE wbsCharts = Off /\ records = Off /\ receipts = Off /\ ready = Off /\
            life = Off /\ wbsAudit = Off /\ told = Off /\ result = Off /\ generic = Off
    /\ IF part = "project row" THEN Row!Init
       ELSE rowRows = Off /\ sprint = Off /\ costs = Off /\ content = Off /\
            open = Off /\ form = Off /\ rowCall = Off /\ answer = Off /\ edits = Off
    /\ IF part = "settings" THEN Settings!Init
       ELSE phase = Off /\ landed = Off /\ row = Off /\ pack = Off /\ font = Off /\
            settingsCall = Off /\ begun = Off
    /\ IF part = "sigma" THEN Sigma!Init
       ELSE sigmaOpen = Off /\ sigmaPhase = Off /\ work = Off /\ sigmaCall = Off /\
            sigmaBegun = Off /\ ended = Off
    /\ IF part = "board" THEN Board!Init
       ELSE board = Off /\ columns = Off /\ shown = Off /\ item = Off /\
            sprints = Off /\ now = Off /\ logged = Off
    /\ IF part = "catalog" THEN Catalog!Init
       ELSE catalogRows = Off /\ catalogWindows = Off /\ history = Off
    /\ IF part = "notices" THEN Notices!Init
       ELSE events = Off /\ acknowledged = Off /\ noticeShown = Off /\ seen = Off /\
            noticeTold = Off

Next ==
    /\ UNCHANGED part
    /\ IF part = "chain" THEN Chain!Next ELSE UNCHANGED chainVars
    /\ IF part = "records" THEN Records!Next ELSE UNCHANGED recordVars
    /\ IF part = "scenarios" THEN Scenarios!Next ELSE UNCHANGED scenarioVars
    /\ IF part = "costs" THEN Costs!Next ELSE UNCHANGED costVars
    /\ IF part = "wbs" THEN Wbs!Next ELSE UNCHANGED wbsVars
    /\ IF part = "project row" THEN Row!Next ELSE UNCHANGED rowVars
    /\ IF part = "settings" THEN Settings!Next ELSE UNCHANGED settingsVars
    /\ IF part = "sigma" THEN Sigma!Next ELSE UNCHANGED sigmaVars
    /\ IF part = "board" THEN Board!Next ELSE UNCHANGED boardVars
    /\ IF part = "catalog" THEN Catalog!Next ELSE UNCHANGED catalogVars
    /\ IF part = "notices" THEN Notices!Next ELSE UNCHANGED noticeVars

Spec == Init /\ [][Next]_vars

-----------------------------------------------------------------------------
\* The audit chain (AppendAuditTx, VerifyAuditChain): however transactions
\* interleave and fail, an undamaged trail verifies, and one that verifies holds
\* only events as they were committed, on top of what they were committed on.
ChainTellsDamage ==
    part = "chain" => Chain!TypeOK /\ Chain!IntactVerifies /\ Chain!VerifiedRowsWereAppended

\* Documents, charts, baselines and scenarios (SaveDocument, SaveChart,
\* CreateBaseline, SaveScenario, BranchScenario): the state is what the latest
\* audit event says, an approval has its checkpoint, nothing outlives what it
\* belongs to although it was read in an earlier step, and one scenario at most
\* is active.
HistoryReplays ==
    /\ part = "records" => /\ Records!TypeOK
                           /\ Records!AuditReplays
                           /\ Records!ApprovalsCheckpointed
                           /\ Records!BaselinesHaveCharts
    /\ part = "scenarios" => /\ Scenarios!TypeOK
                             /\ Scenarios!OneActive
                             /\ Scenarios!ScenarioAuditReplays
                             /\ Scenarios!CopiesOwned

\* The cost ledger (SaveCostEntry, ApproveCostBaseline, UpsertProject): no amount
\* is read in another currency than it was stored in, baselines keep adding up
\* and can be shown without overflow, attachments stay within the project's
\* budget, and every classification adds up to the total.  The work breakdown
\* store (WBSStore.Save): whatever is sent again, by two sessions and after
\* receipts were evicted, a write is applied at most once, no revision is
\* skipped, every receipt is true and the recent ones are kept.
LedgersReconcile ==
    /\ part = "costs" => /\ Costs!TypeOK
                         /\ Costs!AmountsKeepCurrency
                         /\ Costs!BaselinesAddUp
                         /\ Costs!BaselinesShowable
                         /\ Costs!AttachmentsWithinBudget
                         /\ Costs!LensesReconcile
    /\ part = "wbs" => /\ Wbs!TypeOK
                       /\ Wbs!ReceiptsTrue
                       /\ Wbs!HistoryWithoutGaps
                       /\ Wbs!AppliedOnce
                       /\ Wbs!RecentWritesHaveReceipts

\* Rows that several calls read and write back (UpsertProject, the timeline,
\* SaveUserSettings, the Six Sigma tollgates, the board): they stay consistent
\* whichever of the calls wrote last and however old the row was that it read.
\* Two windows on one record (SaveVendor, SaveItem, AcknowledgeAccessNotices): of
\* two saves made from one version one is refused, and an access nobody was shown
\* is never acknowledged, nor one counted twice.
RowsAgree ==
    /\ part = "project row" => /\ Row!TypeOK /\ Row!ZoneFits
                               /\ Row!FirstRowStays /\ Row!AnswerSorted
    /\ part = "settings" => Settings!TypeOK /\ Settings!RowConsistent /\ Settings!PackMeansSeeded
    /\ part = "sigma" => Sigma!TypeOK /\ Sigma!StatusAgreesWithGate
    /\ part = "board" => Board!TypeOK /\ Board!BuiltInKept /\ Board!DoneIsStamped
    /\ part = "catalog" => Catalog!TypeOK /\ Catalog!NoLostSave /\ Catalog!OwnSaveCurrent
    /\ part = "notices" => Notices!TypeOK /\ Notices!UnseenStaysUnread /\ Notices!EachCountedOnce

\* What a step may never do to a row: change the currency of a project that has
\* costs, leave a range moved on the timeline ending before it starts, write a
\* file that is not the open one, or leave items in a column or sprint it deletes.
NoStepStrands ==
    [][/\ part = "project row" => Row!CurrencyKept /\ Row!MovesInOrder
       /\ part = "sigma" => Sigma!NoWriteBehind
       /\ part = "board" => Board!NothingStranded]_vars

\* The names are interchangeable wherever they are used.
Symmetry == Permutations(Peers)

-----------------------------------------------------------------------------
(* Proofs: the chain is intact or found out, for any number of writers and   *)
(* events and any damage                                                     *)

\* A table of events with different numbers, whatever their hashes say.
ChainIsRow(r) ==
    /\ r = [seq |-> r.seq, prev |-> r.prev, content |-> r.content, hash |-> r.hash]
    /\ r.seq \in Nat \ {0} /\ r.content \in Contents
ChainTable(rs) ==
    /\ IsFiniteSet(rs)
    /\ \A r \in rs : ChainIsRow(r)
    /\ \A r, q \in rs : r.seq = q.seq => r = q
ChainBounded(rs) == \A r \in rs : r.seq <= MaxAudit

\* The hash of an event is of the event.
ChainSealed(a) == a = Chain!Event(a.seq, a.prev, a.content)

\* A transaction can commit only what it appends to the rows as they are now.
ChainSeesLatest(w) ==
    /\ txn[w].open \in BOOLEAN /\ txn[w].snapshot \in Nat /\ txn[w].snapshot <= commits
    /\ txn[w].open /\ txn[w].snapshot = commits => txn[w].view = rows

\* Damage does not make hashes: the hash of every row is that of an event that was
\* committed, although the row may have been altered or moved since.
ChainHashesCommitted == \A r \in rows : \E a \in appended : a.hash = r.hash

\* The inductive invariant.
ChainInv ==
    /\ ChainTable(rows) /\ ChainBounded(rows)
    /\ commits \in Nat /\ damage \in 0 .. MaxDamage
    /\ txn = [w \in Peers |-> txn[w]] /\ \A w \in Peers : ChainSeesLatest(w)
    /\ \A a \in appended : ChainSealed(a)
    /\ ChainHashesCommitted /\ Chain!IntactVerifies

\* The cardinality of the part is that of the suite.
LEMMA ChainCount == \A S : Chain!Cardinality(S) = Cardinality(S)
BY DEF Chain!Cardinality, Cardinality

\* There is no row at first.
LEMMA ChainInitInv == ASSUME Chain!ConstantsAssumption, Chain!Init PROVE ChainInv
<1>1. IsFiniteSet({}) /\ Cardinality({}) = 0  BY FS_EmptySet
<1>2. Chain!Verifies({})  BY <1>1, ChainCount DEF Chain!Verifies
<1>3. ChainTable({}) /\ ChainBounded({})  BY <1>1 DEF ChainTable, ChainBounded
<1>4. \A w \in Peers : txn[w] = Chain!NoTxn  BY DEF Chain!Init
<1>5. \A w \in Peers : ChainSeesLatest(w)
  <2>1. Chain!NoTxn.open = FALSE /\ Chain!NoTxn.snapshot = 0  BY DEF Chain!NoTxn
  <2>2. \A w \in Peers : txn[w].open = FALSE  BY <1>4, <2>1, Zenon
  <2>3. \A w \in Peers : txn[w].snapshot \in Nat /\ txn[w].snapshot <= commits
    BY <1>4, <2>1 DEF Chain!Init
  <2> QED  BY <2>2, <2>3, Zenon DEF ChainSeesLatest
<1> QED
  BY <1>2, <1>3, <1>5
  DEF Chain!Init, ChainInv, ChainHashesCommitted, Chain!IntactVerifies,
      Chain!ConstantsAssumption

\* The last of a table is the row with the greatest number.
LEMMA ChainLastRow ==
  ASSUME Chain!ConstantsAssumption, NEW rs, ChainTable(rs), ChainBounded(rs), rs # {}
  PROVE  Chain!Last(rs) \in rs /\ \A q \in rs : q.seq <= Chain!Last(rs).seq
<1> DEFINE T == {MaxAudit - r.seq : r \in rs}
           R == {ss \in Nat \X Nat : ss[1] < ss[2]}
<1>1. MaxAudit \in Nat /\ \A r \in rs : r.seq \in Nat /\ r.seq <= MaxAudit
  BY DEF Chain!ConstantsAssumption, ChainTable, ChainIsRow, ChainBounded
<1>2. T \subseteq Nat /\ T # {}  BY <1>1
<1>3. IsWellFoundedOn(R, Nat)  BY NatLessThanWellFounded, Zenon DEF OpToRel
<1>4. PICK x \in T : \A y \in T : ~(<<y, x>> \in R)
  <2> HIDE DEF T, R
  <2> QED  BY <1>2, <1>3, WFMin
<1>5. PICK r \in rs : x = MaxAudit - r.seq  BY <1>4
<1>6. \A q \in rs : q.seq <= r.seq
  <2> SUFFICES ASSUME NEW q \in rs PROVE q.seq <= r.seq  OBVIOUS
  <2>1. MaxAudit - q.seq \in T /\ MaxAudit - q.seq \in Nat /\ x \in Nat  BY <1>2
  <2>2. ~(MaxAudit - q.seq < x)  BY <1>4, <2>1
  <2> QED  BY <1>1, <1>5, <2>2
<1> QED  BY <1>6 DEF Chain!Last

\* What an append keeps of the rows it appends to, and makes of them.
ChainGrows(rs, qs) ==
    /\ rs \subseteq qs /\ ChainTable(qs)
    /\ \A r \in qs \ rs : ChainSealed(r)
    /\ Chain!Verifies(rs) => Chain!Verifies(qs)

\* appendAuditEventTx: the new row is the last, and links to the one before it.
LEMMA ChainAppendGrows ==
  ASSUME Chain!ConstantsAssumption, NEW rs, ChainTable(rs), ChainBounded(rs), NEW c \in Contents
  PROVE  ChainGrows(rs, Chain!AppendTo(rs, c))
<1>1. CASE rs = {}
  <2> DEFINE e == Chain!Event(1, Chain!NoHash, c)
  <2>1. e.seq = 1 /\ e.prev = Chain!NoHash /\ e.content = c /\ e.hash = Chain!eventHash(1,
        Chain!NoHash, c)
        /\ e = [seq |-> e.seq, prev |-> e.prev, content |-> e.content, hash |-> e.hash]
    BY DEF Chain!Event
  <2>2. Chain!AppendTo(rs, c) = {e}  BY <1>1 DEF Chain!AppendTo
  <2> HIDE DEF e
  <2>3. IsFiniteSet({e}) /\ Cardinality({e}) = 1  BY FS_Singleton
  <2>4. ChainTable({e})  BY <2>1, <2>3 DEF ChainTable, ChainIsRow
  <2>5. ChainSealed(e)  BY <2>1 DEF ChainSealed, Chain!Event
  <2>6. {r.seq : r \in {e}} = 1 .. 1  BY <2>1
  <2>7. Chain!Verifies({e})  BY <2>1, <2>3, <2>6, ChainCount DEF Chain!Verifies
  <2> QED  BY <1>1, <2>2, <2>4, <2>5, <2>7 DEF ChainGrows
<1>2. CASE rs # {}
  <2> DEFINE l == Chain!Last(rs)
             e == Chain!Event(l.seq + 1, l.hash, c)
  <2>1. l \in rs /\ l.seq \in Nat \ {0} /\ \A q \in rs : q.seq \in Nat \ {0} /\ q.seq <= l.seq
    BY <1>2, ChainLastRow DEF ChainTable, ChainIsRow
  <2>2. /\ e.seq = l.seq + 1 /\ e.prev = l.hash /\ e.content = c
        /\ e.hash = Chain!eventHash(l.seq + 1, l.hash, c)
        /\ e = [seq |-> e.seq, prev |-> e.prev, content |-> e.content, hash |-> e.hash]
    BY DEF Chain!Event
  <2>3. Chain!AppendTo(rs, c) = rs \cup {e}  BY <1>2 DEF Chain!AppendTo
  <2> HIDE DEF e
  <2>4. e \notin rs /\ \A q \in rs : q.seq < e.seq  BY <2>1, <2>2
  <2>5. IsFiniteSet(rs \cup {e}) /\ Cardinality(rs \cup {e}) = Cardinality(rs) + 1
    BY <2>4, FS_AddElement DEF ChainTable
  <2>6. ChainTable(rs \cup {e})
    <3>1. ChainIsRow(e)  BY <2>1, <2>2 DEF ChainIsRow
    <3> QED  BY <2>1, <2>4, <2>5, <3>1 DEF ChainTable
  <2>7. ChainSealed(e)  BY <2>2 DEF ChainSealed, Chain!Event
  <2>8. ASSUME Chain!Verifies(rs) PROVE Chain!Verifies(rs \cup {e})
    <3> DEFINE n == Cardinality(rs)
    <3>1. n \in Nat  BY FS_CardinalityType DEF ChainTable
    <3>2. {r.seq : r \in rs} = 1 .. n  BY <2>8, ChainCount DEF Chain!Verifies
    <3>3. l.seq = n
      <4>1. l.seq \in 1 .. n  BY <2>1, <3>2
      <4>2. PICK q \in rs : q.seq = n  BY <3>1, <3>2, <4>1
      <4> QED  BY <2>1, <3>1, <4>1, <4>2
    <3>4. {r.seq : r \in rs \cup {e}} = 1 .. (n + 1)
      <4>1. {r.seq : r \in rs \cup {e}} = {r.seq : r \in rs} \cup {n + 1}  BY <2>2, <3>3
      <4>2. (1 .. n) \cup {n + 1} = 1 .. (n + 1)  BY <3>1
      <4> QED  BY <3>2, <4>1, <4>2
    <3>5. ASSUME NEW r \in rs
          PROVE  /\ r.prev = IF r.seq = 1 THEN Chain!NoHash ELSE Chain!Last(Chain!Previous(rs \cup {e}, r)).hash
                 /\ r.hash = Chain!eventHash(r.seq, r.prev, r.content)
      <4>1. ~(e.seq < r.seq)  BY <2>1, <2>2
      <4>2. Chain!Previous(rs \cup {e}, r) = Chain!Previous(rs, r)  BY <4>1 DEF Chain!Previous
      <4> QED  BY <2>8, <4>2 DEF Chain!Verifies
    <3>6. Chain!Previous(rs \cup {e}, e) = rs  BY <2>1, <2>2, <2>4 DEF Chain!Previous
    <3>7. /\ e.prev = IF e.seq = 1 THEN Chain!NoHash ELSE Chain!Last(Chain!Previous(rs \cup {e}, e)).hash
          /\ e.hash = Chain!eventHash(e.seq, e.prev, e.content)
      BY <2>1, <2>2, <3>6
    <3> QED  BY <2>5, <3>4, <3>5, <3>7, ChainCount DEF Chain!Verifies
  <2> QED  BY <2>3, <2>6, <2>7, <2>8 DEF ChainGrows
<1> QED  BY <1>1, <1>2

\* One event or two: what a transaction writes grows the rows it sees.
LEMMA ChainEventsGrow ==
  ASSUME Chain!ConstantsAssumption, NEW rs, ChainTable(rs), ChainBounded(rs),
  NEW qs \in Chain!EventsOf(rs), ChainBounded(qs)
  PROVE  ChainGrows(rs, qs)
<1>1. CASE \E c \in Contents : qs = Chain!AppendTo(rs, c)  BY <1>1, ChainAppendGrows
<1>2. CASE \E c, d \in Contents : qs = Chain!AppendTo(Chain!AppendTo(rs, c), d)
  <2>1. PICK c \in Contents, d \in Contents : qs = Chain!AppendTo(Chain!AppendTo(rs, c), d)
    BY <1>2
  <2> DEFINE ms == Chain!AppendTo(rs, c)
  <2>2. ChainGrows(rs, ms)  BY ChainAppendGrows
  <2> HIDE DEF ms
  <2>3. ChainTable(ms)  BY <2>2 DEF ChainGrows
  <2>4. ms \subseteq qs  BY <2>1 DEF Chain!AppendTo, ms
  <2>5. ChainBounded(ms)  BY <2>4 DEF ChainBounded
  <2>6. ChainGrows(ms, qs)  BY <2>1, <2>3, <2>5, ChainAppendGrows DEF ms
  <2> QED  BY <2>2, <2>6 DEF ChainGrows
<1> QED  BY <1>1, <1>2 DEF Chain!EventsOf

\* A commit adds sealed events to the chain that is there.
LEMMA ChainCommitInv ==
  ASSUME Chain!ConstantsAssumption, ChainInv, NEW w \in Peers, Chain!Commit(w)
  PROVE  ChainInv'
<1>1. PICK rs \in Chain!EventsOf(txn[w].view) :
          (\A r \in rs : r.seq <= MaxAudit) /\ rows' = rs /\ appended' = appended \cup (rs \ rows)
  BY DEF Chain!Commit
<1>2. txn[w].view = rows  BY DEF Chain!Commit, ChainInv, ChainSeesLatest
<1>3. ChainBounded(rs)  BY <1>1 DEF ChainBounded
<1>4. ChainGrows(rows, rs)  BY <1>1, <1>2, <1>3, ChainEventsGrow DEF ChainInv
<1>5. \A a \in appended' : ChainSealed(a)  BY <1>1, <1>4 DEF ChainInv, ChainGrows
<1>6. ChainHashesCommitted'  BY <1>1 DEF ChainInv, ChainHashesCommitted
<1>7. (\A v \in Peers : ChainSeesLatest(v))'
  <2>1. commits \in Nat /\ commits' = commits + 1 /\ txn' = [txn EXCEPT ![w] = Chain!NoTxn]
    BY DEF Chain!Commit, ChainInv
  <2>2. \A v \in Peers : txn'[v] = IF v = w THEN Chain!NoTxn ELSE txn[v]  BY <2>1 DEF ChainInv
  <2>3. Chain!NoTxn.open = FALSE /\ Chain!NoTxn.snapshot = 0  BY DEF Chain!NoTxn
  <2>4. \A v \in Peers : txn[v].open \in BOOLEAN  BY DEF ChainInv, ChainSeesLatest
  <2>5. ASSUME NEW v \in Peers PROVE txn'[v].open \in BOOLEAN
    <3>1. CASE v = w
      <4>1. txn'[v] = Chain!NoTxn  BY <2>2, <3>1
      <4> QED  BY <2>3, <4>1, Zenon
    <3>2. CASE v # w
      <4>1. txn'[v] = txn[v]  BY <2>2, <3>2
      <4> QED  BY <2>4, <4>1, Zenon
    <3> QED  BY <3>1, <3>2
  <2>6. \A v \in Peers : txn'[v].snapshot \in Nat /\ txn'[v].snapshot <= commits
    BY <2>1, <2>2, <2>3 DEF ChainInv, ChainSeesLatest
  <2>7. \A v \in Peers : txn'[v].snapshot <= commits' /\ txn'[v].snapshot # commits'
    BY <2>1, <2>6
  <2> QED  BY <2>5, <2>6, <2>7, Zenon DEF ChainSeesLatest
<1>8. txn' = [v \in Peers |-> txn'[v]]  BY DEF Chain!Commit, ChainInv
<1>9. damage' = damage /\ commits' \in Nat  BY DEF Chain!Commit, ChainInv
<1>10. Chain!IntactVerifies'  BY <1>1, <1>4, <1>9 DEF ChainInv, Chain!IntactVerifies, ChainGrows
<1> QED  BY <1>1, <1>3, <1>4, <1>5, <1>6, <1>7, <1>8, <1>9, <1>10 DEF ChainInv, ChainGrows

\* Damage alters or removes rows and never makes a hash.
LEMMA ChainDamageInv == ASSUME Chain!ConstantsAssumption, ChainInv, Chain!Damage PROVE ChainInv'
<1>1. UNCHANGED <<txn, appended>> /\ commits' = commits + 1 /\ damage' = damage + 1
      /\ damage < MaxDamage
  BY DEF Chain!Damage
<1>2. PICK r \in rows :
          \/ rows' = rows \ {r}
          \/ \E c \in Contents : rows' = (rows \ {r}) \cup {[r EXCEPT !.content = c]}
          \/ \E s \in (1 .. MaxAudit) \ {q.seq : q \in rows} :
                 rows' = (rows \ {r}) \cup {[r EXCEPT !.seq = s]}
  BY DEF Chain!Damage
<1>3. ChainIsRow(r) /\ r.seq <= MaxAudit /\ ChainTable(rows) /\ IsFiniteSet(rows \ {r})
  BY FS_RemoveElement DEF ChainInv, ChainTable, ChainBounded
<1>4. ASSUME NEW x, ChainIsRow(x), x.seq <= MaxAudit, x.hash = r.hash,
             \A q \in rows \ {r} : q.seq # x.seq, rows' = (rows \ {r}) \cup {x}
      PROVE  (ChainTable(rows) /\ ChainBounded(rows) /\ ChainHashesCommitted)'
  <2>1. IsFiniteSet(rows')  BY <1>3, <1>4, FS_AddElement
  <2>2. ChainTable(rows')  BY <1>3, <1>4, <2>1 DEF ChainTable
  <2>3. ChainBounded(rows')  BY <1>4 DEF ChainInv, ChainBounded
  <2>4. ChainHashesCommitted'  BY <1>1, <1>4 DEF ChainInv, ChainHashesCommitted
  <2> QED  BY <2>2, <2>3, <2>4 DEF ChainTable, ChainBounded
<1>5. (ChainTable(rows) /\ ChainBounded(rows) /\ ChainHashesCommitted)'
  <2>1. CASE rows' = rows \ {r}
    BY <1>1, <1>3, <2>1 DEF ChainInv, ChainTable, ChainBounded, ChainHashesCommitted
  <2>2. CASE \E c \in Contents : rows' = (rows \ {r}) \cup {[r EXCEPT !.content = c]}
    <3>1. PICK c \in Contents : rows' = (rows \ {r}) \cup {[r EXCEPT !.content = c]}  BY <2>2
    <3> DEFINE x == [r EXCEPT !.content = c]
    <3>2. x = [seq |-> r.seq, prev |-> r.prev, content |-> c, hash |-> r.hash]
      BY <1>3 DEF ChainIsRow
    <3>3. x.seq = r.seq /\ x.hash = r.hash /\ x.content = c /\ ChainIsRow(x)
      BY <1>3, <3>2 DEF ChainIsRow
    <3>4. \A q \in rows \ {r} : q.seq # x.seq  BY <1>3, <3>3 DEF ChainTable
    <3> HIDE DEF x
    <3> QED  BY <1>3, <1>4, <3>1, <3>3, <3>4 DEF x
  <2>3. CASE \E s \in (1 .. MaxAudit) \ {q.seq : q \in rows} :
                 rows' = (rows \ {r}) \cup {[r EXCEPT !.seq = s]}
    <3>1. PICK s \in (1 .. MaxAudit) \ {q.seq : q \in rows} :
                 rows' = (rows \ {r}) \cup {[r EXCEPT !.seq = s]}
      BY <2>3
    <3> DEFINE x == [r EXCEPT !.seq = s]
    <3>2. x = [seq |-> s, prev |-> r.prev, content |-> r.content, hash |-> r.hash]
      BY <1>3 DEF ChainIsRow
    <3>3. s \in Nat \ {0} /\ s <= MaxAudit  BY DEF Chain!ConstantsAssumption
    <3>4. x.seq = s /\ x.hash = r.hash /\ ChainIsRow(x)  BY <1>3, <3>2, <3>3 DEF ChainIsRow
    <3>5. \A q \in rows \ {r} : q.seq # x.seq  BY <3>4
    <3> HIDE DEF x
    <3> QED  BY <1>4, <3>1, <3>3, <3>4, <3>5 DEF x
  <2> QED  BY <1>2, <2>1, <2>2, <2>3
<1>6. damage' \in 0 .. MaxDamage /\ damage' # 0 /\ commits' \in Nat
  BY <1>1 DEF ChainInv, Chain!ConstantsAssumption
<1>7. (\A w \in Peers : ChainSeesLatest(w))'  BY <1>1 DEF ChainInv, ChainSeesLatest
<1> QED  BY <1>1, <1>5, <1>6, <1>7 DEF ChainInv, Chain!IntactVerifies, ChainSealed

\* The invariant is inductive.
LEMMA ChainNextInv ==
  ASSUME Chain!ConstantsAssumption, ChainInv, [Chain!Next]_chainVars
  PROVE  ChainInv'
<1>1. CASE UNCHANGED chainVars
  BY <1>1
  DEF chainVars, ChainInv, ChainTable, ChainBounded, ChainSeesLatest, ChainSealed,
      ChainHashesCommitted, Chain!IntactVerifies,
              Chain!Verifies
<1>2. ASSUME NEW w \in Peers, Chain!Begin(w) \/ Chain!Rollback(w) PROVE ChainInv'
  <2>1. UNCHANGED <<rows, commits, appended, damage>>  BY <1>2 DEF Chain!Begin, Chain!Rollback
  <2> DEFINE x == IF Chain!Begin(w) THEN [snapshot |-> commits, view |-> rows,
        open |-> TRUE] ELSE Chain!NoTxn
  <2>2. txn' = [txn EXCEPT ![w] = x]  BY <1>2 DEF Chain!Begin, Chain!Rollback
  <2>3. x.open \in BOOLEAN /\ x.snapshot \in Nat /\ x.snapshot <= commits
        /\ (x.open => x.view = rows)
    BY DEF ChainInv, Chain!NoTxn
  <2>4. txn' = [v \in Peers |-> txn'[v]] /\ \A v \in Peers : txn'[v] = IF v = w THEN x ELSE txn[v]
    BY <2>2 DEF ChainInv
  <2> HIDE DEF x
  <2>5. (\A v \in Peers : ChainSeesLatest(v))'
    BY <2>1, <2>3, <2>4 DEF ChainInv, ChainSeesLatest
  <2> QED
    BY <2>1, <2>4, <2>5
    DEF ChainInv, ChainTable, ChainBounded, ChainSealed, ChainHashesCommitted,
        Chain!IntactVerifies, Chain!Verifies
<1> QED  BY <1>1, <1>2, ChainCommitInv, ChainDamageInv DEF Chain!Next

\* An undamaged trail verifies and one that verifies holds only what was committed, for
\* any number of writers, events and damaged rows (AppendAuditTx, VerifyAuditChain).
THEOREM ChainIsTellTale == Spec => []ChainTellsDamage
<1> DEFINE I == part = "chain" => ChainInv
<1>1. Init => I  BY ChainInitInv, PartsAssumption DEF Init
<1>2. I /\ [Next]_vars => I'
  <2> SUFFICES ASSUME I, [Next]_vars, part' = "chain" PROVE ChainInv'  OBVIOUS
  <2>1. part = "chain" /\ [Chain!Next]_chainVars  BY DEF Next, vars
  <2> QED  BY <2>1, ChainNextInv, PartsAssumption
<1>3. I => ChainTellsDamage
  <2> SUFFICES ASSUME ChainInv PROVE Chain!TypeOK /\ Chain!VerifiedRowsWereAppended
    BY DEF ChainInv, ChainTellsDamage
  <2>0. Chain!ConstantsAssumption  BY PartsAssumption
  <2>1. Chain!TypeOK
    <3>1. \A r \in rows : r.seq \in 1 .. MaxAudit /\ r.content \in Contents
      BY <2>0 DEF ChainInv, ChainTable, ChainIsRow, ChainBounded, Chain!ConstantsAssumption
    <3>2. \A w \in Peers : txn[w].open \in BOOLEAN /\ txn[w].snapshot \in Nat
      BY DEF ChainInv, ChainSeesLatest
    <3> QED  BY <3>1, <3>2 DEF ChainInv, ChainTable, Chain!TypeOK
  <2>2. ASSUME Chain!Verifies(rows), NEW r \in rows PROVE r \in appended
    <3>1. PICK a \in appended : a.hash = r.hash  BY DEF ChainInv, ChainHashesCommitted
    <3>2. r.hash = <<r.seq, r.prev, r.content>>  BY <2>2 DEF Chain!Verifies, Chain!eventHash
    <3>3. a.hash = <<a.seq, a.prev, a.content>>
          /\ a = [seq |-> a.seq, prev |-> a.prev, content |-> a.content, hash |-> a.hash]
      BY DEF ChainInv, ChainSealed, Chain!Event, Chain!eventHash
    <3>4. r.seq = a.seq /\ r.prev = a.prev /\ r.content = a.content
      BY <3>1, <3>2, <3>3
    <3>5. r = [seq |-> r.seq, prev |-> r.prev, content |-> r.content, hash |-> r.hash]
      BY DEF ChainInv, ChainTable, ChainIsRow
    <3>6. r = a  BY <3>1, <3>3, <3>4, <3>5
    <3> QED  BY <3>6
  <2> QED  BY <2>1, <2>2 DEF Chain!VerifiedRowsWereAppended
<1> QED  BY <1>1, <1>2, <1>3, PTL DEF Spec

-----------------------------------------------------------------------------
(* Proofs: the catalog                                                      *)

CatalogRows == Catalog!Rows \cup {Catalog!NoRow}

\* The inductive invariant: every accepted save was made from an older version than
\* the record has now.
CatalogInv ==
    /\ catalogRows \in [VendorIds -> CatalogRows]
    /\ catalogWindows \in [Peers -> [VendorIds -> CatalogRows]]
    /\ history \subseteq [id : VendorIds, from : 0 .. MaxVersion, by : Peers]
    /\ \A h \in history : h.from < catalogRows[h.id].version
    /\ Catalog!NoLostSave /\ Catalog!OwnSaveCurrent

\* A record has a version, and no record has version 0.
LEMMA CatalogVersion ==
  ASSUME Catalog!CatalogAssumption, NEW r \in CatalogRows
  PROVE  r.version \in 0 .. MaxVersion /\ (r # Catalog!NoRow => r.version >= 1 /\ r \in Catalog!Rows)
BY DEF Catalog!CatalogAssumption, CatalogRows, Catalog!Rows, Catalog!NoRow

LEMMA CatalogInit == ASSUME Catalog!Init PROVE CatalogInv
BY DEF Catalog!Init, CatalogInv, CatalogRows, Catalog!NoLostSave, Catalog!OwnSaveCurrent

\* A save that makes the next version of a record, by a window that then has it in hand.
LEMMA CatalogSave ==
  ASSUME Catalog!CatalogAssumption, CatalogInv, NEW w \in Peers, NEW id \in VendorIds,
         NEW r \in Catalog!Rows, r.version = catalogRows[id].version + 1,
         catalogRows' = [catalogRows EXCEPT ![id] = r],
         catalogWindows' = [catalogWindows EXCEPT ![w][id] = r],
         history' = history \cup {[id |-> id, from |-> catalogRows[id].version, by |-> w]}
  PROVE  CatalogInv'
<1> DEFINE old == catalogRows[id].version
           new == [id |-> id, from |-> old, by |-> w]
<1>1. /\ catalogRows \in [VendorIds -> CatalogRows]
      /\ catalogWindows \in [Peers -> [VendorIds -> CatalogRows]]
      /\ r \in CatalogRows
  BY DEF CatalogInv, CatalogRows
<1>2. old \in 0 .. MaxVersion /\ r.version = old + 1 /\ MaxVersion \in Nat
  BY <1>1, CatalogVersion DEF Catalog!CatalogAssumption
<1>3. \A k \in VendorIds : catalogRows'[k] = IF k = id THEN r ELSE catalogRows[k]  BY <1>1
<1>4. \A v \in Peers, k \in VendorIds :
        catalogWindows'[v][k] = IF v = w /\ k = id THEN r ELSE catalogWindows[v][k]
  BY <1>1
<1>5. catalogRows' \in [VendorIds -> CatalogRows]  BY <1>1
<1>6. catalogWindows' \in [Peers -> [VendorIds -> CatalogRows]]  BY <1>1
<1>7. history' \subseteq [id : VendorIds, from : 0 .. MaxVersion, by : Peers]
  BY <1>2 DEF CatalogInv
<1>8. new.id = id /\ new.from = old /\ new.by = w /\ history' = history \cup {new}  OBVIOUS
<1> HIDE DEF new, old
<1>9. \A h \in history : /\ h.id \in VendorIds /\ h.from \in Nat /\ h.from < catalogRows[h.id].version
                         /\ h.id = id => h.from < old
  <2>1. \A h \in history : h.id \in VendorIds /\ h.from \in Nat  BY DEF CatalogInv
  <2> QED  BY <2>1 DEF CatalogInv, old
<1>10. \A h \in history' : h.from < catalogRows'[h.id].version
  <2> SUFFICES ASSUME NEW h \in history' PROVE h.from < catalogRows'[h.id].version  OBVIOUS
  <2>1. CASE h = new  BY <2>1, <1>2, <1>3, <1>8
  <2>2. CASE h # new
    <3>1. h \in history  BY <2>2, <1>8
    <3>2. CASE h.id = id  BY <3>1, <3>2, <1>2, <1>3, <1>9
    <3>3. CASE h.id # id  BY <3>1, <3>3, <1>3, <1>9
    <3> QED  BY <3>2, <3>3
  <2> QED  BY <2>1, <2>2
<1>11. Catalog!NoLostSave'
  <2>1. \A h \in history : ~(h.id = new.id /\ h.from = new.from)  BY <1>2, <1>8, <1>9
  <2> QED  BY <2>1, <1>8 DEF CatalogInv, Catalog!NoLostSave
<1>12. Catalog!OwnSaveCurrent'
  <2> SUFFICES ASSUME NEW v \in Peers, NEW k \in VendorIds, catalogRows'[k] # Catalog!NoRow,
                      [id |-> k, from |-> catalogRows'[k].version - 1, by |-> v] \in history'
               PROVE  catalogWindows'[v][k] \in {catalogRows'[k], Catalog!NoRow}
    BY DEF Catalog!OwnSaveCurrent
  <2> DEFINE e == [id |-> k, from |-> catalogRows'[k].version - 1, by |-> v]
  <2>1. e.id = k /\ e.by = v /\ e.from = catalogRows'[k].version - 1 /\ e \in history'  OBVIOUS
  <2>2. CASE k = id
    <3>1. e.from = old  BY <2>1, <2>2, <1>2, <1>3
    <3> HIDE DEF e
    <3>2. e \notin history  BY <2>1, <2>2, <3>1, <1>2, <1>9
    <3>3. e = new  BY <3>2, <2>1, <1>8
    <3> QED  BY <3>3, <2>1, <2>2, <1>3, <1>4, <1>8
  <2>3. CASE k # id
    <3>1. catalogRows'[k] = catalogRows[k]  BY <2>3, <1>3
    <3>2. e # new  BY <2>1, <2>3, <1>8
    <3>3. e \in history  BY <3>2, <2>1, <1>8
    <3>4. catalogWindows[v][k] \in {catalogRows[k], Catalog!NoRow}
      BY <3>1, <3>3 DEF CatalogInv, Catalog!OwnSaveCurrent
    <3> QED  BY <3>1, <3>4, <2>3, <1>4
  <2> QED  BY <2>2, <2>3
<1> QED  BY <1>5, <1>6, <1>7, <1>10, <1>11, <1>12 DEF CatalogInv

LEMMA CatalogNext ==
  ASSUME Catalog!CatalogAssumption, CatalogInv, [Catalog!Next]_catalogVars
  PROVE  CatalogInv'
<1>0. /\ catalogRows \in [VendorIds -> CatalogRows]
      /\ catalogWindows \in [Peers -> [VendorIds -> CatalogRows]]
  BY DEF CatalogInv
<1>1. CASE UNCHANGED catalogVars
  BY <1>1 DEF catalogVars, CatalogInv, Catalog!NoLostSave, Catalog!OwnSaveCurrent
<1>2. ASSUME NEW w \in Peers, NEW all \in BOOLEAN, Catalog!List(w, all) PROVE CatalogInv'
  <2> DEFINE got == [k \in VendorIds |->
                       IF catalogRows[k] # Catalog!NoRow /\ (all \/ ~catalogRows[k].archived)
                       THEN catalogRows[k] ELSE Catalog!NoRow]
  <2>1. /\ catalogWindows' = [catalogWindows EXCEPT ![w] = got]
        /\ catalogRows' = catalogRows /\ history' = history
    BY <1>2 DEF Catalog!List
  <2>2. got \in [VendorIds -> CatalogRows]  BY <1>0 DEF CatalogRows
  <2>3. \A k \in VendorIds : got[k] \in {catalogRows[k], Catalog!NoRow}  OBVIOUS
  <2> HIDE DEF got
  <2>4. /\ catalogWindows' \in [Peers -> [VendorIds -> CatalogRows]]
        /\ \A v \in Peers : catalogWindows'[v] = IF v = w THEN got ELSE catalogWindows[v]
    BY <1>0, <2>1, <2>2
  <2>5. Catalog!OwnSaveCurrent'  BY <2>1, <2>3, <2>4 DEF CatalogInv, Catalog!OwnSaveCurrent
  <2> QED  BY <2>1, <2>4, <2>5 DEF CatalogInv, Catalog!NoLostSave
<1>3. ASSUME NEW w \in Peers, NEW id \in VendorIds, NEW c \in Vendors, NEW a \in BOOLEAN,
             Catalog!Insert(w, id, c, a)
      PROVE  CatalogInv'
  <2> DEFINE r == [version |-> 1, content |-> c, archived |-> a]
  <2>1. catalogRows[id] = Catalog!NoRow /\ catalogRows[id].version = 0
    BY <1>3 DEF Catalog!Insert, Catalog!NoRow
  <2>2. r \in Catalog!Rows /\ r.version = catalogRows[id].version + 1
    BY <2>1 DEF Catalog!CatalogAssumption, Catalog!Rows
  <2>3. /\ catalogRows' = [catalogRows EXCEPT ![id] = r]
        /\ catalogWindows' = [catalogWindows EXCEPT ![w][id] = r]
        /\ history' = history \cup {[id |-> id, from |-> catalogRows[id].version, by |-> w]}
    BY <1>3, <2>1 DEF Catalog!Insert
  <2> HIDE DEF r
  <2> QED  BY <2>2, <2>3, CatalogSave
<1>4. ASSUME NEW w \in Peers, NEW id \in VendorIds, NEW c \in Vendors, NEW a \in BOOLEAN,
             Catalog!Update(w, id, c, a)
      PROVE  CatalogInv'
  <2>1. CASE catalogRows[id].version # catalogWindows[w][id].version
    <3>1. UNCHANGED <<catalogRows, catalogWindows, history>>
      BY <1>4, <2>1 DEF Catalog!Update, Catalog!vars
    <3> QED  BY <3>1, <1>1 DEF catalogVars
  <2>2. CASE catalogRows[id].version = catalogWindows[w][id].version
    <3> DEFINE r == [version |-> catalogWindows[w][id].version + 1, content |-> c, archived |-> a]
    <3>1. catalogRows[id].version \in 0 .. MaxVersion /\ catalogRows[id].version < MaxVersion
      BY <1>0, <1>4, CatalogVersion DEF Catalog!Update
    <3>2. r \in Catalog!Rows /\ r.version = catalogRows[id].version + 1
      BY <2>2, <3>1 DEF Catalog!CatalogAssumption, Catalog!Rows
    <3>3. /\ catalogRows' = [catalogRows EXCEPT ![id] = r]
          /\ catalogWindows' = [catalogWindows EXCEPT ![w][id] = r]
          /\ history' = history \cup {[id |-> id, from |-> catalogRows[id].version, by |-> w]}
      BY <1>4, <2>2 DEF Catalog!Update
    <3> HIDE DEF r
    <3> QED  BY <3>2, <3>3, CatalogSave
  <2> QED  BY <2>1, <2>2
<1> QED  BY <1>1, <1>2, <1>3, <1>4 DEF Catalog!Next

LEMMA CatalogTypes == ASSUME Catalog!CatalogAssumption, CatalogInv PROVE Catalog!TypeOK
BY DEF CatalogInv, CatalogRows, Catalog!TypeOK

-----------------------------------------------------------------------------
(* Proofs: the board                                                        *)

\* The inductive invariant.
BoardInv ==
    /\ Board!TypeOK /\ now \in 1 .. MaxTime
    /\ Board!BuiltInKept /\ Board!DoneIsStamped

LEMMA BoardInit == ASSUME Board!BoardAssumption, Board!Init PROVE BoardInv
<1>1. Board!NoItem.state = "none" /\ \A i \in Peers : item[i] = Board!NoItem
  BY DEF Board!Init, Board!NoItem
<1>2. Board!DoneIsStamped  BY <1>1 DEF Board!DoneIsStamped
<1>3. item \in [Peers -> Board!Rows \cup {Board!NoItem}]  BY DEF Board!Init
<1>4. board = FALSE /\ columns = {} /\ shown = {} /\ sprints = {} /\ logged = {}
  BY DEF Board!Init
<1>5. now \in 1 .. MaxTime  BY DEF Board!BoardAssumption, Board!Init
<1>6. Board!TypeOK  BY <1>3, <1>4 DEF Board!TypeOK
<1> QED  BY <1>2, <1>4, <1>5, <1>6 DEF BoardInv, Board!BuiltInKept

\* An item gets a row that is stamped if it is done; the rest stays as it was.
LEMMA BoardPut ==
  ASSUME BoardInv, NEW i \in Peers, NEW r \in Board!Rows \cup {Board!NoItem},
         r.state = "done" => r.closed \in 1 .. now,
         item' = [item EXCEPT ![i] = r], UNCHANGED <<board, columns, shown, sprints, now>>,
         logged' \subseteq Peers
  PROVE  BoardInv'
<1>1. item \in [Peers -> Board!Rows \cup {Board!NoItem}]  BY DEF BoardInv, Board!TypeOK
<1>2. /\ item' \in [Peers -> Board!Rows \cup {Board!NoItem}]
      /\ \A k \in Peers : item'[k] = IF k = i THEN r ELSE item[k]
  BY <1>1
<1>3. Board!DoneIsStamped'  BY <1>2 DEF BoardInv, Board!DoneIsStamped
<1> QED  BY <1>2, <1>3 DEF BoardInv, Board!TypeOK, Board!BuiltInKept

LEMMA BoardNext ==
  ASSUME Board!BoardAssumption, BoardInv, [Board!Next]_boardVars PROVE BoardInv'
<1>0. /\ MaxTime \in Nat \ {0} /\ now \in 1 .. MaxTime /\ logged \subseteq Peers
      /\ item \in [Peers -> Board!Rows \cup {Board!NoItem}]
  BY DEF Board!BoardAssumption, BoardInv, Board!TypeOK
<1>1. CASE UNCHANGED boardVars
  BY <1>1 DEF boardVars, BoardInv, Board!TypeOK, Board!BuiltInKept, Board!DoneIsStamped
<1>2. CASE Board!EnsureDefaultBoard \/ Board!SaveColumn \/ Board!DeleteColumn \/ Board!SaveSprint
  <2>1. UNCHANGED <<item, now, logged>>
    BY <1>2 DEF Board!EnsureDefaultBoard, Board!SaveColumn, Board!DeleteColumn, Board!SaveSprint
  <2> DEFINE Now == /\ board' \in BOOLEAN /\ columns' \subseteq shown'
                    /\ shown' \subseteq BuiltIn \cup Added /\ sprints' \subseteq Sprints
                    /\ Board!BuiltInKept'
  <2>2. Now
    <3>1. /\ board \in BOOLEAN /\ columns \subseteq shown /\ shown \subseteq BuiltIn \cup Added
          /\ sprints \subseteq Sprints /\ (board => BuiltIn \subseteq columns)
      BY DEF BoardInv, Board!TypeOK, Board!BuiltInKept
    <3>2. CASE Board!EnsureDefaultBoard
      BY <3>1, <3>2 DEF Board!EnsureDefaultBoard, Board!BuiltInKept
    <3>3. CASE Board!SaveColumn
      BY <3>1, <3>3 DEF Board!SaveColumn, Board!BuiltInKept
    <3>4. CASE Board!DeleteColumn
      BY <3>1, <3>4 DEF Board!DeleteColumn, Board!BuiltInKept
    <3>5. CASE Board!SaveSprint
      BY <3>1, <3>5 DEF Board!SaveSprint, Board!BuiltInKept
    <3> QED  BY <1>2, <3>2, <3>3, <3>4, <3>5
  <2> QED  BY <2>1, <2>2 DEF BoardInv, Board!TypeOK, Board!DoneIsStamped
<1>3. CASE Board!SaveWorkItem
  <2>1. PICK i \in Peers, r \in Board!Rows :
          /\ r.closed < now
          /\ item' = [item EXCEPT ![i] =
               [r EXCEPT !.closed = IF r.state # "done" THEN 0
                                    ELSE IF r.closed = 0 THEN now ELSE r.closed]]
          /\ UNCHANGED <<board, columns, shown, sprints, now, logged>>
    BY <1>3 DEF Board!SaveWorkItem
  <2> DEFINE q == [r EXCEPT !.closed = IF r.state # "done" THEN 0
                                       ELSE IF r.closed = 0 THEN now ELSE r.closed]
  <2>2. q \in Board!Rows /\ (q.state = "done" => q.closed \in 1 .. now)
    BY <1>0, <2>1 DEF Board!Rows
  <2>3. item' = [item EXCEPT ![i] = q]  BY <2>1
  <2> HIDE DEF q
  <2> QED  BY <1>0, <2>1, <2>2, <2>3, BoardPut
<1>4. CASE Board!MoveWorkItem
  <2>1. PICK i \in Peers, s \in Board!States :
          /\ item[i].state # "none"
          /\ item' = [item EXCEPT ![i].state = s,
                                  ![i].closed = IF s = "done" THEN now ELSE @]
          /\ UNCHANGED <<board, columns, shown, sprints, now, logged>>
    BY <1>4 DEF Board!MoveWorkItem
  <2>2. item[i] \in Board!Rows  BY <1>0, <2>1 DEF Board!NoItem
  <2> DEFINE q == [state |-> s, sprint |-> item[i].sprint,
                   closed |-> IF s = "done" THEN now ELSE item[i].closed]
  <2>3. q \in Board!Rows /\ (q.state = "done" => q.closed \in 1 .. now)
    BY <1>0, <2>2 DEF Board!Rows
  <2>4. item' = [item EXCEPT ![i] = q]
    <3>1. item[i] = [state |-> item[i].state, sprint |-> item[i].sprint, closed |-> item[i].closed]
      BY <2>2 DEF Board!Rows
    <3>2. item' = [item EXCEPT ![i] = [[item[i] EXCEPT !.state = s] EXCEPT
                                         !.closed = IF s = "done" THEN now ELSE item[i].closed]]
      BY <1>0, <2>1, <2>2 DEF Board!Rows
    <3>3. [[item[i] EXCEPT !.state = s] EXCEPT
             !.closed = IF s = "done" THEN now ELSE item[i].closed] = q
      <4> DEFINE z == item[i]
      <4>1. z \in Board!Rows  BY <2>2
      <4> SUFFICES [[z EXCEPT !.state = s] EXCEPT
                      !.closed = IF s = "done" THEN now ELSE z.closed]
                   = [state |-> s, sprint |-> z.sprint, closed |-> IF s = "done" THEN now ELSE z.closed]
        OBVIOUS
      <4> HIDE DEF z
      <4> DEFINE y == [z EXCEPT !.state = s]
      <4>2. y \in [state : Board!States, sprint : Sprints \cup {"none"}, closed : 0..MaxTime]
        BY <4>1 DEF Board!Rows
      <4>3. y.state = s /\ y.sprint = z.sprint /\ y.closed = z.closed  BY <4>1 DEF Board!Rows
      <4> HIDE DEF y
      <4>4. [y EXCEPT !.closed = IF s = "done" THEN now ELSE z.closed]
            = [state |-> y.state, sprint |-> y.sprint, closed |-> IF s = "done" THEN now ELSE z.closed]
        BY <4>2
      <4> QED  BY <4>3, <4>4 DEF y
    <3> QED  BY <3>2, <3>3
  <2> HIDE DEF q
  <2> QED  BY <1>0, <2>1, <2>3, <2>4, BoardPut
<1>5. CASE Board!DeleteWorkItem
  <2>1. PICK i \in Peers : item' = [item EXCEPT ![i] = Board!NoItem]
                           /\ logged' \in {logged, logged \cup {i}}
    BY <1>5 DEF Board!DeleteWorkItem
  <2>2. UNCHANGED <<board, columns, shown, sprints, now>> /\ logged' \subseteq Peers
    BY <1>0, <1>5, <2>1 DEF Board!DeleteWorkItem
  <2>3. Board!NoItem.state # "done"  BY DEF Board!NoItem
  <2> QED  BY <2>1, <2>2, <2>3, BoardPut
<1>6. CASE Board!DeleteSprint
  <2>1. PICK s \in Sprints :
          /\ sprints' = sprints \ {s}
          /\ item' = [i \in Peers |-> IF item[i].sprint = s THEN [item[i] EXCEPT !.sprint = "none"] ELSE item[i]]
          /\ UNCHANGED <<board, columns, shown, now, logged>>
    BY <1>6 DEF Board!DeleteSprint
  <2>2. ASSUME NEW i \in Peers
        PROVE  /\ item'[i] \in Board!Rows \cup {Board!NoItem}
               /\ item'[i].state = item[i].state /\ item'[i].closed = item[i].closed
    <3>1. item'[i] = IF item[i].sprint = s THEN [item[i] EXCEPT !.sprint = "none"] ELSE item[i]
      BY <2>1
    <3>2. CASE item[i] \in Board!Rows  BY <3>1, <3>2 DEF Board!Rows
    <3>3. CASE item[i] = Board!NoItem  BY <3>1, <3>3 DEF Board!NoItem
    <3> QED  BY <1>0, <3>2, <3>3
  <2>3. item' \in [Peers -> Board!Rows \cup {Board!NoItem}]  BY <2>1, <2>2
  <2>4. Board!DoneIsStamped'  BY <2>1, <2>2 DEF BoardInv, Board!DoneIsStamped
  <2> QED  BY <2>1, <2>3, <2>4 DEF BoardInv, Board!TypeOK, Board!BuiltInKept
<1>7. CASE Board!Tick
  <2>1. now' = now + 1 /\ now < MaxTime /\ UNCHANGED <<board, columns, shown, item, sprints, logged>>
    BY <1>7 DEF Board!Tick
  <2>2. Board!DoneIsStamped'  BY <1>0, <2>1 DEF BoardInv, Board!DoneIsStamped
  <2> QED  BY <1>0, <2>1, <2>2 DEF BoardInv, Board!TypeOK, Board!BuiltInKept
<1> QED  BY <1>1, <1>2, <1>3, <1>4, <1>5, <1>6, <1>7 DEF Board!Next

\* What deletes a column or a sprint leaves nothing in it.
LEMMA BoardStrandsNothing ==
  ASSUME Board!BoardAssumption, BoardInv, [Board!Next]_boardVars PROVE Board!NothingStranded
<1>0. item \in [Peers -> Board!Rows \cup {Board!NoItem}] /\ "none" \notin Sprints
  BY DEF BoardInv, Board!TypeOK, Board!BoardAssumption
<1>1. CASE Board!DeleteColumn
  BY <1>1 DEF Board!DeleteColumn, Board!NothingStranded
<1>2. CASE Board!DeleteSprint
  <2>1. PICK s \in Sprints :
          /\ sprints' = sprints \ {s}
          /\ item' = [i \in Peers |-> IF item[i].sprint = s THEN [item[i] EXCEPT !.sprint = "none"] ELSE item[i]]
          /\ UNCHANGED columns
    BY <1>2 DEF Board!DeleteSprint
  <2>2. ASSUME NEW i \in Peers PROVE item'[i].sprint # s
    <3>1. item'[i] = IF item[i].sprint = s THEN [item[i] EXCEPT !.sprint = "none"] ELSE item[i]
      BY <2>1
    <3>2. CASE item[i] \in Board!Rows  BY <1>0, <3>1, <3>2 DEF Board!Rows
    <3>3. CASE item[i] = Board!NoItem  BY <1>0, <3>1, <3>3 DEF Board!NoItem
    <3> QED  BY <1>0, <3>2, <3>3
  <2> QED  BY <2>1, <2>2 DEF Board!NothingStranded
<1>3. CASE columns \subseteq columns' /\ sprints \subseteq sprints'
  BY <1>3 DEF Board!NothingStranded
<1>4. CASE UNCHANGED boardVars  BY <1>4, <1>3 DEF boardVars
<1> QED
  BY <1>1, <1>2, <1>3, <1>4
  DEF Board!Next, Board!EnsureDefaultBoard, Board!SaveColumn, Board!SaveWorkItem,
      Board!MoveWorkItem, Board!DeleteWorkItem, Board!SaveSprint, Board!Tick

-----------------------------------------------------------------------------
(* Proofs: access notices                                                   *)

NoticeEvents == [action : {"admin_access", "escrow_key_new", "access_notice_read"}, own : BOOLEAN,
                 accesses : 0 .. MaxNotices, keys : 0 .. MaxNotices]

\* Whether an event of a list is a notice, and the notices of one kind after one event
\* and through another.
IsNotice(E, i) == E[i].action = "admin_access" \/ (E[i].action = "escrow_key_new" /\ ~E[i].own)
NoticesIn(E, kind, from, through) ==
    {i \in DOMAIN E : IsNotice(E, i) /\ i > from /\ i <= through /\ E[i].action = kind}

\* The inductive invariant: what a window shows was seen, and of the notices those seen
\* are the oldest, so that acknowledging one acknowledges nothing unseen.
NoticeInv ==
    /\ events \in Seq(NoticeEvents) /\ Len(events) <= MaxNotices
    /\ acknowledged \in 0 .. Len(events)
    /\ noticeShown \in [Peers -> SUBSET DOMAIN events]
    /\ seen \subseteq DOMAIN events
    /\ \A w \in Peers : noticeShown[w] \subseteq seen
    /\ \A k \in seen, i \in Notices!Notices : i <= k => i \in seen
    /\ Notices!UnseenStaysUnread /\ Notices!EachCountedOnce

\* The cardinality of the part is that of the suite.
LEMMA NoticeCount == \A S : Notices!Cardinality(S) = Cardinality(S)
BY DEF Notices!Cardinality, Cardinality

\* What the part counts, before a step and after it.
LEMMA NoticeCounts ==
  /\ \A kind, from, through :
        Notices!Counted(kind, from, through) = Cardinality(NoticesIn(events, kind, from, through))
  /\ Notices!EachCountedOnce' <=>
        /\ noticeTold'.accesses = Cardinality(NoticesIn(events', "admin_access", 0, acknowledged'))
        /\ noticeTold'.keys = Cardinality(NoticesIn(events', "escrow_key_new", 0, acknowledged'))
<1>1. ASSUME NEW kind, NEW from, NEW through
      PROVE  {i \in Notices!Notices : i > from /\ i <= through /\ events[i].action = kind}
             = NoticesIn(events, kind, from, through)
  BY DEF Notices!Notices, NoticesIn, IsNotice
<1>2. ASSUME NEW kind
      PROVE  {i \in Notices!Notices' : i > 0 /\ i <= acknowledged' /\ events'[i].action = kind}
             = NoticesIn(events', kind, 0, acknowledged')
  BY DEF Notices!Notices, NoticesIn, IsNotice
<1>3. \A kind, from, through :
        Notices!Counted(kind, from, through) = Cardinality(NoticesIn(events, kind, from, through))
  BY <1>1, NoticeCount DEF Notices!Counted
<1> QED  BY <1>2, <1>3, NoticeCount DEF Notices!Counted, Notices!EachCountedOnce

\* What is counted is a finite number of events.
LEMMA NoticesFinite ==
  ASSUME NEW E \in Seq(NoticeEvents), NEW kind, NEW from, NEW through
  PROVE  /\ IsFiniteSet(NoticesIn(E, kind, from, through))
         /\ Cardinality(NoticesIn(E, kind, from, through)) \in 0 .. Len(E)
<1> DEFINE S == NoticesIn(E, kind, from, through)
<1>1. Len(E) \in Nat /\ DOMAIN E = 1 .. Len(E)  OBVIOUS
<1>2. S \subseteq 1 .. Len(E)  BY <1>1 DEF NoticesIn
<1>3. IsFiniteSet(1 .. Len(E)) /\ Cardinality(1 .. Len(E)) = Len(E)  BY <1>1, FS_Interval
<1> HIDE DEF S
<1>4. IsFiniteSet(S) /\ Cardinality(S) <= Len(E)  BY <1>2, <1>3, FS_Subset
<1>5. Cardinality(S) \in Nat  BY <1>4, FS_CardinalityType
<1> QED  BY <1>1, <1>4, <1>5 DEF S

\* What is counted through one event and from there to another adds up.
LEMMA NoticeSplit ==
  ASSUME NEW E \in Seq(NoticeEvents), NEW kind, NEW a \in Nat, NEW b \in Nat, a <= b
  PROVE  Cardinality(NoticesIn(E, kind, 0, b))
         = Cardinality(NoticesIn(E, kind, 0, a)) + Cardinality(NoticesIn(E, kind, a, b))
<1> DEFINE A == NoticesIn(E, kind, 0, a)
           B == NoticesIn(E, kind, a, b)
<1>1. \A i \in DOMAIN E : i \in Nat  OBVIOUS
<1>2. NoticesIn(E, kind, 0, b) = A \cup B  BY <1>1 DEF NoticesIn
<1>3. A \cap B = {}  BY <1>1 DEF NoticesIn
<1>4. IsFiniteSet(A) /\ IsFiniteSet(B)  BY NoticesFinite
<1> HIDE DEF A, B
<1>5. Cardinality(A) \in Nat /\ Cardinality(B) \in Nat  BY <1>4, FS_CardinalityType
<1>6. Cardinality(A \cap B) = 0  BY <1>3, FS_EmptySet
<1>7. Cardinality(A \cup B) = Cardinality(A) + Cardinality(B) - Cardinality(A \cap B)
  BY <1>4, FS_Union
<1>8. Cardinality(A \cup B) = Cardinality(A) + Cardinality(B)  BY <1>5, <1>6, <1>7
<1> QED  BY <1>2, <1>8 DEF A, B

\* An event recorded at the end: the notices before it are what they were.
LEMMA NoticeAppended ==
  ASSUME events \in Seq(NoticeEvents), NEW e \in NoticeEvents, events' = Append(events, e)
  PROVE  /\ events' \in Seq(NoticeEvents) /\ Len(events') = Len(events) + 1
         /\ DOMAIN events \subseteq DOMAIN events'
         /\ \A i \in DOMAIN events : i \in Notices!Notices' <=> i \in Notices!Notices
         /\ \A i \in Notices!Notices' : i \in DOMAIN events \/ i = Len(events) + 1
         /\ \A kind : \A b \in 0 .. Len(events) :
              NoticesIn(events', kind, 0, b) = NoticesIn(events, kind, 0, b)
<1>1. Len(events) \in Nat /\ DOMAIN events = 1 .. Len(events)  OBVIOUS
<1>2. /\ events' \in Seq(NoticeEvents) /\ Len(events') = Len(events) + 1
      /\ DOMAIN events' = 1 .. Len(events) + 1
      /\ \A i \in DOMAIN events : events'[i] = events[i]
  BY <1>1
<1>3. \A i \in DOMAIN events : i \in Notices!Notices' <=> i \in Notices!Notices
  BY <1>1, <1>2 DEF Notices!Notices
<1>4. \A i \in Notices!Notices' : i \in DOMAIN events \/ i = Len(events) + 1
  BY <1>1, <1>2 DEF Notices!Notices
<1>5. ASSUME NEW kind, NEW b \in 0 .. Len(events)
      PROVE  NoticesIn(events', kind, 0, b) = NoticesIn(events, kind, 0, b)
  <2>1. \A i \in DOMAIN events' : i <= b => i \in DOMAIN events  BY <1>1, <1>2
  <2>2. \A i \in DOMAIN events : i \in DOMAIN events'  BY <1>1, <1>2
  <2> QED  BY <1>2, <2>1, <2>2 DEF NoticesIn, IsNotice
<1> QED  BY <1>1, <1>2, <1>3, <1>4, <1>5

LEMMA NoticeInit == ASSUME Notices!EventsAssumption, Notices!Init PROVE NoticeInv
<1>1. events = <<>> /\ acknowledged = 0 /\ seen = {} /\ noticeShown = [w \in Peers |-> {}]
  BY DEF Notices!Init
<1>2. events \in Seq(NoticeEvents) /\ Len(events) = 0  BY <1>1
<1>3. Notices!Notices = {}  BY <1>1 DEF Notices!Notices
<1>4. \A kind : Notices!Counted(kind, 0, 0) = 0
  <2> SUFFICES ASSUME NEW kind PROVE Notices!Counted(kind, 0, 0) = 0  OBVIOUS
  <2>1. NoticesIn(events, kind, 0, 0) = {}  BY <1>1 DEF NoticesIn
  <2> QED  BY <2>1, NoticeCounts, FS_EmptySet
<1>5. Notices!EachCountedOnce  BY <1>1, <1>4 DEF Notices!Init, Notices!EachCountedOnce
<1>6. noticeShown \in [Peers -> SUBSET DOMAIN events] /\ \A w \in Peers : noticeShown[w] = {}
  BY <1>1
<1> QED
  BY <1>1, <1>2, <1>3, <1>5, <1>6
  DEF NoticeInv, Notices!EventsAssumption, Notices!UnseenStaysUnread

\* An event is recorded, everything through a later one may be acknowledged with it, and
\* one window may have its notice taken away.
LEMMA NoticeStep ==
  ASSUME Notices!EventsAssumption, NoticeInv, Len(events) < MaxNotices, NEW e \in NoticeEvents,
         events' = Append(events, e), seen' = seen,
         acknowledged' = acknowledged \/ acknowledged' \in seen,
         acknowledged' \in Nat, acknowledged <= acknowledged',
         noticeShown' = noticeShown
           \/ \E w \in Peers : noticeShown' = [noticeShown EXCEPT ![w] = {}],
         noticeTold' = [accesses |-> Cardinality(NoticesIn(events, "admin_access", 0, acknowledged')),
                        keys |-> Cardinality(NoticesIn(events, "escrow_key_new", 0, acknowledged'))]
           \/ (noticeTold' = noticeTold /\ acknowledged' = acknowledged)
  PROVE  NoticeInv'
<1>1. /\ events \in Seq(NoticeEvents) /\ Len(events) \in Nat /\ DOMAIN events = 1 .. Len(events)
      /\ acknowledged \in 0 .. Len(events) /\ MaxNotices \in Nat
      /\ seen \subseteq DOMAIN events /\ noticeShown \in [Peers -> SUBSET DOMAIN events]
  BY DEF NoticeInv, Notices!EventsAssumption
<1>2. /\ events' \in Seq(NoticeEvents) /\ Len(events') = Len(events) + 1
      /\ DOMAIN events \subseteq DOMAIN events'
      /\ \A i \in DOMAIN events : i \in Notices!Notices' <=> i \in Notices!Notices
      /\ \A i \in Notices!Notices' : i \in DOMAIN events \/ i = Len(events) + 1
      /\ \A kind : \A b \in 0 .. Len(events) :
           NoticesIn(events', kind, 0, b) = NoticesIn(events, kind, 0, b)
  BY <1>1, NoticeAppended
<1>3. acknowledged' \in 0 .. Len(events)  BY <1>1
<1>4. \A k \in seen', i \in Notices!Notices' : i <= k => i \in seen'
  BY <1>1, <1>2 DEF NoticeInv
<1>5. Notices!UnseenStaysUnread'
  <2> SUFFICES ASSUME NEW i \in Notices!Notices', i \notin seen PROVE i > acknowledged'
    BY DEF Notices!UnseenStaysUnread
  <2>1. CASE i = Len(events) + 1  BY <2>1, <1>1, <1>3
  <2>2. CASE i \in DOMAIN events
    <3>1. i \in Notices!Notices /\ i \in Nat  BY <2>2, <1>1, <1>2
    <3>2. CASE acknowledged' = acknowledged
      BY <3>1, <3>2 DEF NoticeInv, Notices!UnseenStaysUnread
    <3>3. CASE acknowledged' \in seen  BY <3>1, <3>3, <1>3 DEF NoticeInv
    <3> QED  BY <3>2, <3>3
  <2> QED  BY <2>1, <2>2, <1>2
<1>6. Notices!EachCountedOnce'
  <2>1. \A kind : NoticesIn(events', kind, 0, acknowledged') = NoticesIn(events, kind, 0, acknowledged')
    BY <1>2, <1>3
  <2>2. CASE noticeTold' = noticeTold /\ acknowledged' = acknowledged
    <3>1. /\ noticeTold.accesses = Cardinality(NoticesIn(events, "admin_access", 0, acknowledged))
          /\ noticeTold.keys = Cardinality(NoticesIn(events, "escrow_key_new", 0, acknowledged))
      BY NoticeCounts DEF NoticeInv, Notices!EachCountedOnce
    <3> QED  BY <2>1, <2>2, <3>1, NoticeCounts
  <2>3. CASE noticeTold' =
               [accesses |-> Cardinality(NoticesIn(events, "admin_access", 0, acknowledged')),
                keys |-> Cardinality(NoticesIn(events, "escrow_key_new", 0, acknowledged'))]
    BY <2>1, <2>3, NoticeCounts
  <2> QED  BY <2>2, <2>3
<1>7. /\ noticeShown' \in [Peers -> SUBSET DOMAIN events']
      /\ \A v \in Peers : noticeShown'[v] \subseteq seen'
  <2>1. CASE noticeShown' = noticeShown  BY <2>1, <1>1, <1>2 DEF NoticeInv
  <2>2. CASE \E w \in Peers : noticeShown' = [noticeShown EXCEPT ![w] = {}]
    <3>1. PICK w \in Peers : noticeShown' = [noticeShown EXCEPT ![w] = {}]  BY <2>2
    <3>2. \A v \in Peers : noticeShown'[v] = IF v = w THEN {} ELSE noticeShown[v]  BY <1>1, <3>1
    <3>3. \A v \in Peers : noticeShown[v] \subseteq seen  BY DEF NoticeInv
    <3>4. noticeShown' \in [Peers -> SUBSET DOMAIN events]  BY <1>1, <3>1
    <3> QED  BY <1>2, <3>2, <3>3, <3>4
  <2> QED  BY <2>1, <2>2
<1>8. seen' \subseteq DOMAIN events' /\ Len(events') <= MaxNotices /\ acknowledged' \in 0 .. Len(events')
  BY <1>1, <1>2, <1>3
<1> QED  BY <1>2, <1>4, <1>5, <1>6, <1>7, <1>8 DEF NoticeInv

LEMMA NoticeNext ==
  ASSUME Notices!EventsAssumption, NoticeInv, [Notices!Next]_noticeVars PROVE NoticeInv'
<1>0. /\ events \in Seq(NoticeEvents) /\ Len(events) \in Nat /\ DOMAIN events = 1 .. Len(events)
      /\ acknowledged \in 0 .. Len(events) /\ MaxNotices \in Nat
      /\ seen \subseteq DOMAIN events /\ noticeShown \in [Peers -> SUBSET DOMAIN events]
  BY DEF NoticeInv, Notices!EventsAssumption
<1>1. ASSUME UNCHANGED <<events, acknowledged, seen, noticeTold>>,
             noticeShown' \in [Peers -> SUBSET DOMAIN events],
             \A v \in Peers : noticeShown'[v] \subseteq seen
      PROVE  NoticeInv'
  <2>1. Notices!Notices' = Notices!Notices  BY <1>1 DEF Notices!Notices
  <2>2. Notices!EachCountedOnce' /\ Notices!UnseenStaysUnread'
    <3>1. /\ noticeTold.accesses = Cardinality(NoticesIn(events, "admin_access", 0, acknowledged))
          /\ noticeTold.keys = Cardinality(NoticesIn(events, "escrow_key_new", 0, acknowledged))
      BY NoticeCounts DEF NoticeInv, Notices!EachCountedOnce
    <3>2. Notices!EachCountedOnce'  BY <1>1, <3>1, NoticeCounts
    <3> QED  BY <1>1, <2>1, <3>2 DEF NoticeInv, Notices!UnseenStaysUnread
  <2> QED  BY <1>1, <2>1, <2>2 DEF NoticeInv
<1>2. CASE UNCHANGED noticeVars
  BY <1>2, <1>1 DEF noticeVars, NoticeInv
<1>3. ASSUME NEW act \in {"admin_access", "escrow_key_new"}, NEW own \in BOOLEAN,
             Notices!RecordEvent(act, own)
      PROVE  NoticeInv'
  <2> DEFINE e == [action |-> act, own |-> own, accesses |-> 0, keys |-> 0]
  <2>1. e \in NoticeEvents  BY <1>0 DEF NoticeEvents
  <2>2. /\ Len(events) < MaxNotices /\ events' = Append(events, e)
        /\ UNCHANGED <<acknowledged, noticeShown, seen, noticeTold>>
    BY <1>3 DEF Notices!RecordEvent, Notices!Event
  <2> HIDE DEF e
  <2> QED  BY <1>0, <2>1, <2>2, NoticeStep
<1>4. ASSUME NEW w \in Peers, Notices!MyDataAccessNotices(w) PROVE NoticeInv'
  <2> DEFINE U == Notices!UnreadAccessNotices
  <2>1. /\ noticeShown' = [noticeShown EXCEPT ![w] = U] /\ seen' = seen \cup U
        /\ UNCHANGED <<events, acknowledged, noticeTold>>
    BY <1>4 DEF Notices!MyDataAccessNotices
  <2>2. /\ U \subseteq DOMAIN events /\ U \subseteq Notices!Notices
        /\ \A i \in Notices!Notices : i \in DOMAIN events /\ (i \in U <=> i > acknowledged)
    BY DEF Notices!UnreadAccessNotices, Notices!Notices
  <2> HIDE DEF U
  <2>3. Notices!Notices' = Notices!Notices  BY <2>1 DEF Notices!Notices
  <2>4. \A i \in Notices!Notices : i \in seen'
    BY <1>0, <2>1, <2>2 DEF NoticeInv, Notices!UnseenStaysUnread
  <2>5. /\ noticeShown' \in [Peers -> SUBSET DOMAIN events]
        /\ \A v \in Peers : noticeShown'[v] = IF v = w THEN U ELSE noticeShown[v]
    BY <1>0, <2>1, <2>2
  <2>6. \A v \in Peers : noticeShown'[v] \subseteq seen'  BY <2>1, <2>5 DEF NoticeInv
  <2>7. Notices!EachCountedOnce'
    <3>1. /\ noticeTold.accesses = Cardinality(NoticesIn(events, "admin_access", 0, acknowledged))
          /\ noticeTold.keys = Cardinality(NoticesIn(events, "escrow_key_new", 0, acknowledged))
      BY NoticeCounts DEF NoticeInv, Notices!EachCountedOnce
    <3> QED  BY <2>1, <3>1, NoticeCounts
  <2>8. Notices!UnseenStaysUnread'  BY <2>3, <2>4 DEF Notices!UnseenStaysUnread
  <2>9. seen' \subseteq DOMAIN events'  BY <1>0, <2>1, <2>2
  <2> QED  BY <1>0, <2>1, <2>3, <2>4, <2>5, <2>6, <2>7, <2>8, <2>9 DEF NoticeInv
<1>5. ASSUME NEW w \in Peers, Notices!Acknowledge(w) PROVE NoticeInv'
  <2>1. PICK through \in noticeShown[w] :
          IF through <= acknowledged THEN UNCHANGED <<events, acknowledged, noticeTold>>
          ELSE Notices!Record(through)
    BY <1>5 DEF Notices!Acknowledge
  <2>2. Len(events) < MaxNotices /\ noticeShown' = [noticeShown EXCEPT ![w] = {}] /\ seen' = seen
    BY <1>5 DEF Notices!Acknowledge
  <2>3. through \in seen /\ through \in Nat /\ through \in 0 .. Len(events)
    BY <1>0, <2>1 DEF NoticeInv
  <2>4. CASE through <= acknowledged
    <3>1. /\ noticeShown' \in [Peers -> SUBSET DOMAIN events]
          /\ \A v \in Peers : noticeShown'[v] = IF v = w THEN {} ELSE noticeShown[v]
      BY <1>0, <2>2
    <3>2. \A v \in Peers : noticeShown'[v] \subseteq seen  BY <3>1 DEF NoticeInv
    <3>3. UNCHANGED <<events, acknowledged, noticeTold>>  BY <2>1, <2>4
    <3> QED  BY <1>1, <2>2, <3>1, <3>2, <3>3
  <2>5. CASE ~(through <= acknowledged)
    <3> DEFINE na == Cardinality(NoticesIn(events, "admin_access", acknowledged, through))
               nk == Cardinality(NoticesIn(events, "escrow_key_new", acknowledged, through))
               e == [action |-> "access_notice_read", own |-> TRUE, accesses |-> na, keys |-> nk]
    <3>1. /\ acknowledged' = through /\ events' = Append(events, e)
          /\ noticeTold' = [accesses |-> noticeTold.accesses + na, keys |-> noticeTold.keys + nk]
      BY <2>1, <2>5, NoticeCounts DEF Notices!Record, Notices!Event
    <3>2. na \in 0 .. Len(events) /\ nk \in 0 .. Len(events)  BY <1>0, NoticesFinite
    <3>3. e \in NoticeEvents
      <4>1. na \in 0 .. MaxNotices /\ nk \in 0 .. MaxNotices  BY <1>0, <2>2, <3>2
      <4> QED  BY <4>1 DEF NoticeEvents
    <3>4. /\ noticeTold.accesses = Cardinality(NoticesIn(events, "admin_access", 0, acknowledged))
          /\ noticeTold.keys = Cardinality(NoticesIn(events, "escrow_key_new", 0, acknowledged))
      BY NoticeCounts DEF NoticeInv, Notices!EachCountedOnce
    <3>5. acknowledged \in Nat /\ acknowledged <= through  BY <1>0, <2>3, <2>5
    <3>6. /\ noticeTold.accesses + na = Cardinality(NoticesIn(events, "admin_access", 0, through))
          /\ noticeTold.keys + nk = Cardinality(NoticesIn(events, "escrow_key_new", 0, through))
      BY <1>0, <2>3, <3>4, <3>5, NoticeSplit
    <3> HIDE DEF na, nk, e
    <3>7. noticeTold' = [accesses |-> Cardinality(NoticesIn(events, "admin_access", 0, acknowledged')),
                         keys |-> Cardinality(NoticesIn(events, "escrow_key_new", 0, acknowledged'))]
      BY <3>1, <3>6
    <3> QED  BY <2>2, <2>3, <3>1, <3>3, <3>5, <3>7, NoticeStep
  <2> QED  BY <2>4, <2>5
<1> QED
  <2>1. CASE Notices!Next
    <3>1. CASE \E own \in BOOLEAN : Notices!RecordEvent("escrow_key_new", own)  BY <3>1, <1>3
    <3>2. CASE Notices!RecordEvent("admin_access", FALSE)  BY <3>2, <1>3
    <3>3. CASE \E w \in Peers : Notices!MyDataAccessNotices(w) \/ Notices!Acknowledge(w)
      BY <3>3, <1>4, <1>5
    <3> QED  BY <2>1, <3>1, <3>2, <3>3 DEF Notices!Next
  <2> QED  BY <1>2, <2>1

LEMMA NoticeTypes == ASSUME NoticeInv PROVE Notices!TypeOK
BY DEF NoticeInv, NoticeEvents, Notices!TypeOK

-----------------------------------------------------------------------------
(* Proofs: the Six Sigma suite                                              *)

SigmaOps == {"charter", "sipoc", "voc", "fishbone", "solutions", "plan", "read"}

\* A call in flight: where it is, and what it has counted by then.  Only the move to
\* another phase passes through the gate, and it took its file when it began.
SigmaCallOk ==
    /\ sigmaCall \in [op : SigmaOps \cup {"advance", "none"}, to : Sigma!Phases \cup {"none"},
                      pc : {"idle", "check", "service", "reads", "gate", "sipoc", "voc", "write"},
                      where : Clones \cup {"none"}, svc : Clones \cup {"none"}, passed : 0 .. 7]
    /\ sigmaCall.op = "advance" => sigmaCall.to \in Sigma!Phases /\ sigmaCall.svc \in Clones
    /\ sigmaCall.pc \in {"gate", "sipoc", "voc"} => sigmaCall.op = "advance"
    /\ sigmaCall.pc = "sipoc" => sigmaCall.passed <= 5
    /\ sigmaCall.pc = "voc" => sigmaCall.passed <= 6
    /\ sigmaCall.pc \in {"service", "reads"} => sigmaCall.where # "none"

\* The inductive invariant.
SigmaInv ==
    /\ sigmaOpen \in Clones \cup {"none"}
    /\ sigmaPhase \in [Clones -> Sigma!Phases]
    /\ work \in [Clones -> Sigma!Records]
    /\ sigmaBegun \in 0 .. MaxCalls
    /\ SigmaCallOk

\* The cardinality of the part is that of the suite.
LEMMA SigmaCount == \A S : Sigma!Cardinality(S) = Cardinality(S)
BY DEF Sigma!Cardinality, Cardinality

LEMMA SigmaIdle ==
  Sigma!NoCall = [op |-> "none", to |-> "none", pc |-> "idle", where |-> "none", svc |-> "none", passed |-> 0]
BY DEF Sigma!NoCall

\* A call that has ended is as good as none.
LEMMA SigmaEnded == ASSUME sigmaCall' = Sigma!NoCall PROVE SigmaCallOk'
BY DEF SigmaCallOk, Sigma!NoCall, SigmaOps

\* The gate moves on with what it has counted.
LEMMA SigmaCounted ==
  ASSUME SigmaCallOk, sigmaCall.op = "advance", NEW z \in {"sipoc", "voc", "write"},
         NEW n \in 0 .. 7, z = "sipoc" => n <= 5, z = "voc" => n <= 6,
         sigmaCall' = [sigmaCall EXCEPT !.pc = z, !.passed = n]
  PROVE  SigmaCallOk'
<1> DEFINE y == [sigmaCall EXCEPT !.pc = z]
           T == [op : SigmaOps \cup {"advance", "none"}, to : Sigma!Phases \cup {"none"},
                 pc : {"idle", "check", "service", "reads", "gate", "sipoc", "voc", "write"},
                 where : Clones \cup {"none"}, svc : Clones \cup {"none"}, passed : 0 .. 7]
<1>1. sigmaCall \in T  BY DEF SigmaCallOk
<1>2. y \in T /\ y.pc = z /\ y.op = "advance" /\ y.to = sigmaCall.to /\ y.svc = sigmaCall.svc
  BY <1>1
<1>3. sigmaCall' = [y EXCEPT !.passed = n]  BY <1>1
<1> HIDE DEF y
<1>4. /\ sigmaCall' \in T /\ sigmaCall'.pc = z /\ sigmaCall'.op = "advance"
      /\ sigmaCall'.to = sigmaCall.to /\ sigmaCall'.svc = sigmaCall.svc /\ sigmaCall'.passed = n
  BY <1>2, <1>3
<1>5. sigmaCall.to \in Sigma!Phases /\ sigmaCall.svc \in Clones  BY DEF SigmaCallOk
<1> QED  BY <1>4, <1>5 DEF SigmaCallOk

LEMMA SigmaInit == ASSUME Sigma!SigmaAssumption, Sigma!Init PROVE SigmaInv
<1>1. SigmaCallOk  BY DEF Sigma!Init, SigmaCallOk, Sigma!NoCall, SigmaOps
<1>2. Sigma!Nothing \in Sigma!Records  BY DEF Sigma!Nothing, Sigma!Records
<1>3. "define" \in Sigma!Phases  BY DEF Sigma!Phases
<1> QED  BY <1>1, <1>2, <1>3 DEF Sigma!Init, SigmaInv, Sigma!SigmaAssumption

\* What is written over the records of a phase are records.
LEMMA SigmaField ==
  ASSUME NEW r \in Sigma!Records, NEW op, NEW q \in Sigma!Field(op, r) PROVE q \in Sigma!Records
<1>1. CASE op = "charter"
  <2>1. PICK p \in {"none", "pad", "short", "full"}, n \in {0, 3, 4} :
          q = [r EXCEPT !.problem = p, !.rest = n]
    BY <1>1 DEF Sigma!Field
  <2> DEFINE y == [r EXCEPT !.problem = p]
  <2>2. y \in Sigma!Records  BY DEF Sigma!Records
  <2>3. q = [y EXCEPT !.rest = n]  BY <2>1 DEF Sigma!Records
  <2> HIDE DEF y
  <2> QED  BY <2>2, <2>3 DEF Sigma!Records
<1>2. CASE op = "sipoc"  BY <1>2 DEF Sigma!Field, Sigma!Records
<1>3. CASE op = "voc"  BY <1>3 DEF Sigma!Field, Sigma!Records
<1>4. CASE op = "fishbone"  BY <1>4 DEF Sigma!Field, Sigma!Records
<1>5. CASE op = "solutions"  BY <1>5 DEF Sigma!Field, Sigma!Records
<1>6. CASE op \notin {"charter", "sipoc", "voc", "fishbone", "solutions"}
  BY <1>6 DEF Sigma!Field, Sigma!Records
<1> QED  BY <1>1, <1>2, <1>3, <1>4, <1>5, <1>6

\* The charter passes at most five of the checks.
LEMMA SigmaCharter ==
  ASSUME NEW r \in Sigma!Records PROVE Sigma!CharterChecks(r) \in 0 .. 5
BY DEF Sigma!CharterChecks, Sigma!Records

LEMMA SigmaNext ==
  ASSUME Sigma!SigmaAssumption, SigmaInv, [Sigma!Next]_sigmaVars PROVE SigmaInv'
<1>0. /\ sigmaOpen \in Clones \cup {"none"} /\ sigmaPhase \in [Clones -> Sigma!Phases]
      /\ work \in [Clones -> Sigma!Records] /\ sigmaBegun \in 0 .. MaxCalls
      /\ MaxCalls \in Nat /\ "none" \notin Clones
  BY DEF SigmaInv, Sigma!SigmaAssumption
<1>c. SigmaCallOk  BY DEF SigmaInv
<1>1. CASE UNCHANGED sigmaVars  BY <1>1 DEF sigmaVars, SigmaInv, SigmaCallOk
<1>2. CASE Sigma!OpenFile
  BY <1>2 DEF Sigma!OpenFile, SigmaInv, SigmaCallOk
<1>3. CASE Sigma!Begin
  <2>0. /\ sigmaBegun < MaxCalls /\ sigmaBegun' = sigmaBegun + 1
        /\ UNCHANGED <<sigmaOpen, sigmaPhase, work>>
    BY <1>3 DEF Sigma!Begin
  <2>1. sigmaBegun' \in 0 .. MaxCalls /\ UNCHANGED <<sigmaOpen, sigmaPhase, work>>
    BY <1>0, <2>0
  <2>2. CASE \E op \in SigmaOps : sigmaCall' = [Sigma!NoCall EXCEPT !.op = op, !.pc = "check"]
    <3>1. PICK op \in SigmaOps : sigmaCall' = [Sigma!NoCall EXCEPT !.op = op, !.pc = "check"]
      BY <2>2
    <3>2. sigmaCall' = [op |-> op, to |-> "none", pc |-> "check", where |-> "none",
                        svc |-> "none", passed |-> 0]
      BY <3>1, SigmaIdle
    <3>3. op # "advance"  BY DEF SigmaOps
    <3>4. SigmaCallOk'  BY <3>2, <3>3 DEF SigmaCallOk
    <3> QED  BY <1>0, <2>1, <3>4 DEF SigmaInv
  <2>3. CASE \E p \in Sigma!Phases :
               /\ sigmaOpen # "none"
               /\ sigmaCall' = [Sigma!NoCall EXCEPT !.op = "advance", !.to = p, !.pc = "check",
                                                    !.svc = sigmaOpen]
    <3>1. PICK p \in Sigma!Phases :
            sigmaCall' = [Sigma!NoCall EXCEPT !.op = "advance", !.to = p, !.pc = "check",
                                              !.svc = sigmaOpen]
      BY <2>3
    <3>2. sigmaCall' = [op |-> "advance", to |-> p, pc |-> "check", where |-> "none",
                        svc |-> sigmaOpen, passed |-> 0]
      BY <3>1, SigmaIdle
    <3>3. sigmaOpen \in Clones  BY <1>0, <2>3
    <3>4. SigmaCallOk'  BY <3>2, <3>3 DEF SigmaCallOk
    <3> QED  BY <1>0, <2>1, <3>4 DEF SigmaInv
  <2> QED  BY <1>3, <2>2, <2>3 DEF Sigma!Begin, SigmaOps
<1>4. CASE Sigma!RequireSigmaProjectInOpenFile
  <2>1. UNCHANGED <<sigmaOpen, sigmaPhase, work, sigmaBegun>>
    BY <1>4 DEF Sigma!RequireSigmaProjectInOpenFile
  <2>2. SigmaCallOk'
    <3>1. CASE sigmaCall' = Sigma!NoCall  BY <3>1, SigmaEnded
    <3>2. CASE /\ sigmaOpen # "none"
               /\ \E z \in {"service", "gate", "write"} :
                    /\ sigmaCall' = [sigmaCall EXCEPT !.where = sigmaOpen, !.pc = z]
                    /\ z = "gate" => sigmaCall.op = "advance"
      BY <1>0, <1>c, <3>2 DEF SigmaCallOk
    <3> QED  BY <1>4, <3>1, <3>2 DEF Sigma!RequireSigmaProjectInOpenFile, Sigma!End
  <2> QED  BY <1>0, <2>1, <2>2 DEF SigmaInv
<1>5. CASE Sigma!RequireSigmaSvc
  <2>1. UNCHANGED <<sigmaOpen, sigmaPhase, work, sigmaBegun>> /\ sigmaCall.pc = "service"
    BY <1>5 DEF Sigma!RequireSigmaSvc
  <2>2. SigmaCallOk'
    <3>1. CASE sigmaCall' = Sigma!NoCall  BY <3>1, SigmaEnded
    <3>2. CASE /\ sigmaOpen # "none"
               /\ \E z \in {"reads", "write"} :
                    sigmaCall' = [sigmaCall EXCEPT !.svc = sigmaOpen, !.pc = z]
      BY <1>0, <1>c, <2>1, <3>2 DEF SigmaCallOk
    <3> QED  BY <1>5, <3>1, <3>2 DEF Sigma!RequireSigmaSvc, Sigma!End
  <2> QED  BY <1>0, <2>1, <2>2 DEF SigmaInv
<1>6. CASE Sigma!Gate
  <2>1. UNCHANGED <<sigmaOpen, sigmaPhase, work, sigmaBegun>> /\ sigmaCall.pc = "gate"
    BY <1>6 DEF Sigma!Gate
  <2>2. SigmaCallOk'
    <3>1. CASE sigmaCall' = Sigma!NoCall  BY <3>1, SigmaEnded
    <3>2. CASE sigmaCall' = [sigmaCall EXCEPT !.pc = "sipoc",
                                              !.passed = Sigma!CharterChecks(work[sigmaCall.svc])]
      <4>1. sigmaCall.op = "advance" /\ sigmaCall.svc \in Clones  BY <1>c, <2>1 DEF SigmaCallOk
      <4>2. PICK n \in 0 .. 5 : n = Sigma!CharterChecks(work[sigmaCall.svc])
        BY <1>0, <4>1, SigmaCharter
      <4>3. sigmaCall' = [sigmaCall EXCEPT !.pc = "sipoc", !.passed = n]  BY <3>2, <4>2
      <4>4. n \in 0 .. 7 /\ n <= 5  OBVIOUS
      <4> QED  BY <1>c, <4>1, <4>3, <4>4, SigmaCounted
    <3> QED  BY <1>6, <3>1, <3>2 DEF Sigma!Gate, Sigma!End
  <2> QED  BY <1>0, <2>1, <2>2 DEF SigmaInv
<1>7. CASE Sigma!GateReads
  <2>1. UNCHANGED <<sigmaOpen, sigmaPhase, work, sigmaBegun>> /\ sigmaCall.pc \in {"sipoc", "voc"}
    BY <1>7 DEF Sigma!GateReads
  <2>2. SigmaCallOk'
    <3> DEFINE m == IF sigmaCall.svc # sigmaOpen THEN 0
                    ELSE IF sigmaCall.pc = "sipoc" THEN Sigma!OneIf(work[sigmaCall.svc].sipoc >= 5)
                    ELSE Sigma!OneIf(work[sigmaCall.svc].ctq)
               n == sigmaCall.passed + m
    <3>1. m \in 0 .. 1  BY DEF Sigma!OneIf
    <3>2. \/ sigmaCall.pc = "sipoc" /\ sigmaCall' = [sigmaCall EXCEPT !.pc = "voc", !.passed = n]
          \/ sigmaCall.pc = "voc" /\ sigmaCall' = [sigmaCall EXCEPT !.pc = "write", !.passed = n]
          \/ sigmaCall' = Sigma!NoCall
      BY <1>7 DEF Sigma!GateReads, Sigma!End
    <3> HIDE DEF m
    <3>3. CASE sigmaCall' = Sigma!NoCall  BY <3>3, SigmaEnded
    <3>4. sigmaCall.op = "advance" /\ sigmaCall.passed \in 0 .. 6
          /\ (sigmaCall.pc = "sipoc" => sigmaCall.passed <= 5)
      BY <1>c, <2>1 DEF SigmaCallOk
    <3>5. n \in 0 .. 7 /\ (sigmaCall.pc = "sipoc" => n <= 6)  BY <3>1, <3>4
    <3> HIDE DEF n
    <3>6. CASE sigmaCall.pc = "sipoc" /\ sigmaCall' = [sigmaCall EXCEPT !.pc = "voc", !.passed = n]
      BY <1>c, <3>4, <3>5, <3>6, SigmaCounted
    <3>7. CASE sigmaCall.pc = "voc" /\ sigmaCall' = [sigmaCall EXCEPT !.pc = "write", !.passed = n]
      BY <1>c, <3>4, <3>5, <3>7, SigmaCounted
    <3> QED  BY <3>2, <3>3, <3>6, <3>7
  <2> QED  BY <1>0, <2>1, <2>2 DEF SigmaInv
<1>8. CASE Sigma!Save
  <2>1. UNCHANGED <<sigmaOpen, sigmaBegun>> /\ sigmaCall' = Sigma!NoCall
    BY <1>8 DEF Sigma!Save, Sigma!End
  <2>2. SigmaCallOk'  BY <2>1, SigmaEnded
  <2>3. sigmaPhase' \in [Clones -> Sigma!Phases]
    <3>1. CASE sigmaPhase' = sigmaPhase  BY <1>0, <3>1
    <3>2. CASE sigmaCall.op = "advance" /\ sigmaPhase' = [sigmaPhase EXCEPT ![sigmaCall.svc] = sigmaCall.to]
      BY <1>0, <1>c, <3>2 DEF SigmaCallOk
    <3> QED  BY <1>8, <3>1, <3>2 DEF Sigma!Save
  <2>4. work' \in [Clones -> Sigma!Records]
    <3>1. CASE work' = work  BY <1>0, <3>1
    <3>2. CASE \E q \in Sigma!Field(sigmaCall.op, work[sigmaCall.svc]) :
                 work' = [work EXCEPT ![sigmaCall.svc] = q]
      <4>1. PICK q \in Sigma!Field(sigmaCall.op, work[sigmaCall.svc]) :
              work' = [work EXCEPT ![sigmaCall.svc] = q]
        BY <3>2
      <4>2. CASE sigmaCall.svc \in Clones
        <5>1. q \in Sigma!Records  BY <1>0, <4>1, <4>2, SigmaField
        <5> QED  BY <1>0, <4>1, <5>1
      <4>3. CASE sigmaCall.svc \notin Clones  BY <1>0, <4>1, <4>3
      <4> QED  BY <4>2, <4>3
    <3> QED  BY <1>8, <3>1, <3>2 DEF Sigma!Save
  <2> QED  BY <1>0, <2>1, <2>2, <2>3, <2>4 DEF SigmaInv
<1>9. CASE Sigma!ReadAll
  <2>1. UNCHANGED <<sigmaOpen, sigmaPhase, work, sigmaBegun>> /\ sigmaCall' = Sigma!NoCall
    BY <1>9 DEF Sigma!ReadAll, Sigma!End
  <2> QED  BY <1>0, <2>1, SigmaEnded DEF SigmaInv
<1> QED  BY <1>1, <1>2, <1>3, <1>4, <1>5, <1>6, <1>7, <1>8, <1>9 DEF Sigma!Next

LEMMA SigmaTypes == ASSUME SigmaInv PROVE Sigma!TypeOK
BY DEF SigmaInv, SigmaCallOk, Sigma!TypeOK

\* A ready phase shows its tools as completed, but for one of Define.
LEMMA SigmaAgrees == ASSUME SigmaInv PROVE Sigma!StatusAgreesWithGate
<1> SUFFICES ASSUME NEW f \in Clones, NEW p \in Sigma!Phases, Sigma!CheckPhase(p, work[f])
             PROVE  Sigma!Cardinality(Sigma!GetToolStatus(p, work[f])) <= IF p = "define" THEN 1 ELSE 0
  BY DEF Sigma!StatusAgreesWithGate
<1> DEFINE r == work[f]
           S == Sigma!GetToolStatus(p, r)
<1>0. r \in Sigma!Records  BY DEF SigmaInv
<1>1. CASE p = "define"
  <2>1. Sigma!CharterChecks(r) + Sigma!OneIf(r.sipoc >= 5) + Sigma!OneIf(r.ctq) >= 6
    BY <1>1 DEF Sigma!CheckPhase, Sigma!CheckDefineReadiness
  <2>2. r.rest \in {0, 3, 4} /\ r.sipoc \in {0, 4, 5} /\ r.ctq \in BOOLEAN
    BY <1>0 DEF Sigma!Records
  <2>3. r.problem = "full" \/ r.sipoc >= 5
    BY <2>1, <2>2 DEF Sigma!CharterChecks, Sigma!OneIf
  <2>4. S = {} \/ S = {"charter"} \/ S = {"sipoc"}
    BY <1>1, <2>3 DEF Sigma!GetToolStatus
  <2>5. Cardinality(S) <= 1
    <3> HIDE DEF S
    <3>1. CASE S = {}  BY <3>1, FS_EmptySet
    <3>2. CASE S = {"charter"} \/ S = {"sipoc"}
      <4>1. PICK x : S = {x}  BY <3>2
      <4>2. Cardinality({x}) = 1  BY FS_Singleton
      <4>3. Cardinality(S) = 1  BY <4>1, <4>2
      <4> QED  BY <4>3
    <3> QED  BY <2>4, <3>1, <3>2
  <2> QED  BY <1>1, <2>5, SigmaCount
<1>2. CASE p # "define"
  <2>1. S = {}
    BY <1>2
    DEF Sigma!GetToolStatus, Sigma!CheckPhase, Sigma!CheckAnalyzeReadiness,
        Sigma!CheckImproveReadiness, Sigma!CheckControlReadiness, Sigma!Phases
  <2> QED  BY <1>2, <2>1, SigmaCount, FS_EmptySet
<1> QED  BY <1>1, <1>2

\* Only the open file is written.
LEMMA SigmaWritesOpen ==
  ASSUME Sigma!SigmaAssumption, SigmaInv, [Sigma!Next]_sigmaVars PROVE Sigma!NoWriteBehind
<1>1. CASE sigmaPhase' = sigmaPhase /\ work' = work  BY <1>1 DEF Sigma!NoWriteBehind
<1>2. CASE Sigma!Save
  <2>1. \/ sigmaPhase' = sigmaPhase /\ work' = work
        \/ /\ sigmaCall.svc = sigmaOpen /\ work' = work
           /\ sigmaPhase' = [sigmaPhase EXCEPT ![sigmaCall.svc] = sigmaCall.to]
        \/ /\ sigmaCall.svc = sigmaOpen /\ sigmaPhase' = sigmaPhase
           /\ \E q \in Sigma!Field(sigmaCall.op, work[sigmaCall.svc]) :
                work' = [work EXCEPT ![sigmaCall.svc] = q]
    BY <1>2 DEF Sigma!Save
  <2>2. \A f \in Clones : f # sigmaOpen => sigmaPhase'[f] = sigmaPhase[f] /\ work'[f] = work[f]
    BY <2>1 DEF SigmaInv
  <2> QED  BY <2>2 DEF Sigma!NoWriteBehind
<1> QED
  BY <1>1, <1>2
  DEF Sigma!Next, sigmaVars, Sigma!OpenFile, Sigma!Begin, Sigma!RequireSigmaProjectInOpenFile,
      Sigma!RequireSigmaSvc, Sigma!Gate, Sigma!GateReads, Sigma!ReadAll

-----------------------------------------------------------------------------
(* Proofs: the settings of a project                                        *)

SettingsFonts == Fonts \cup {"default"}

\* A row that was written or read: it names a method and agrees with it.
SettingsWritten(s) ==
    /\ s \in Settings!UserSettings /\ s.method \in Settings!Methods
    /\ s.signed = (s.method # "none") /\ (s.stamped => s.method = "pades")

\* What a call in flight has in hand.
SettingsCallOk(k) ==
    /\ k = [op |-> k.op, want |-> k.want, pc |-> k.pc, read |-> k.read]
    /\ k.op \in {"idle", "toggle", "query", "font", "reset", "page"}
    /\ SettingsWritten(k.read)
    /\ k.op = "toggle" => k.want \in BOOLEAN
    /\ k.op = "font" => k.want \in Fonts
    /\ k.op = "page" => k.want \in [method : Settings!Methods, stamped : BOOLEAN]
    /\ k.pc = "write" => k.op \in {"toggle", "font", "reset", "page"}
    /\ k.op = "idle" => k.pc = "none"

\* The inductive invariant: only the launchpad writes the row before the first call, and
\* it enables the pack only when every seed has landed.
SettingsInv ==
    /\ phase \in {"form", "seeding", "opening", "open", "shut"}
    /\ landed \in Seq({Asked[i] : i \in DOMAIN Asked} \cup {"skipped"}) /\ Len(landed) <= Len(Asked)
    /\ \A i \in 1 .. Len(landed) :
         landed[i] = IF Asked[i] \in Settings!Known THEN Asked[i] ELSE "skipped"
    /\ SettingsWritten(row) \/ row \in Settings!Old
    /\ phase = "form" => row = Settings!DefaultUserSettings /\ begun = 0
    /\ pack \in BOOLEAN /\ font \in SettingsFonts /\ begun \in 0 .. MaxCalls
    /\ settingsCall \in [Peers -> {settingsCall[c] : c \in Peers}]
    /\ \A c \in Peers : SettingsCallOk(settingsCall[c])
    /\ begun = 0 => \A c \in Peers : settingsCall[c] = Settings!Idle
    /\ begun = 0 /\ row.agile => Len(landed) = Len(Asked)

LEMMA SettingsDefault ==
  /\ SettingsWritten(Settings!DefaultUserSettings) /\ Settings!DefaultUserSettings.agile = FALSE
  /\ \A r \in Settings!Old : r \in Settings!UserSettings /\ r.agile = FALSE
  /\ SettingsCallOk(Settings!Idle)
<1>1. SettingsWritten(Settings!DefaultUserSettings) /\ Settings!DefaultUserSettings.agile = FALSE
  BY DEF SettingsWritten, Settings!DefaultUserSettings, Settings!UserSettings, Settings!Methods
<1>2. \A r \in Settings!Old : r \in Settings!UserSettings /\ r.agile = FALSE
  <2> DEFINE d == Settings!DefaultUserSettings
  <2>1. d \in Settings!UserSettings /\ d.agile = FALSE  BY <1>1 DEF SettingsWritten
  <2>2. Settings!Old = {d, [d EXCEPT !.method = "unset", !.signed = TRUE]}  BY DEF Settings!Old
  <2> HIDE DEF d
  <2>3. [d EXCEPT !.method = "unset", !.signed = TRUE] \in Settings!UserSettings
    BY <2>1 DEF Settings!UserSettings
  <2>4. [d EXCEPT !.method = "unset", !.signed = TRUE].agile = FALSE
    BY <2>1 DEF Settings!UserSettings
  <2> QED  BY <2>1, <2>2, <2>3, <2>4
<1>3. SettingsCallOk(Settings!Idle)
  <2> DEFINE d == Settings!DefaultUserSettings
  <2> HIDE DEF d
  <2>1. Settings!Idle = [op |-> "idle", want |-> "none", pc |-> "none", read |-> d]
    BY DEF Settings!Idle, d
  <2>2. SettingsWritten(d)  BY <1>1 DEF d
  <2> QED  BY <2>1, <2>2 DEF SettingsCallOk
<1> QED  BY <1>1, <1>2, <1>3

\* Every write and every read goes through the normalisation.
LEMMA SettingsNormal ==
  ASSUME NEW s \in Settings!UserSettings
  PROVE  /\ SettingsWritten(Settings!NormalizeUserSettings(s))
         /\ Settings!NormalizeUserSettings(s).agile = s.agile
<1> DEFINE m == IF s.method \in Settings!Methods THEN s.method
                ELSE IF s.signed THEN "pades" ELSE "none"
           n == [agile |-> s.agile, font |-> s.font, method |-> m, signed |-> m # "none",
                 stamped |-> s.stamped /\ m = "pades"]
<1>1. /\ s.agile \in BOOLEAN /\ s.font \in SettingsFonts /\ s.stamped \in BOOLEAN
      /\ s = [agile |-> s.agile, font |-> s.font, method |-> s.method, signed |-> s.signed,
              stamped |-> s.stamped]
  BY DEF Settings!UserSettings, SettingsFonts
<1>2. m \in Settings!Methods  BY DEF Settings!Methods
<1>3. Settings!NormalizeUserSettings(s) = n
  <2> HIDE DEF m
  <2>1. Settings!NormalizeUserSettings(s)
        = [s EXCEPT !.method = m, !.signed = m # "none", !.stamped = @ /\ m = "pades"]
    BY DEF Settings!NormalizeUserSettings, m
  <2> QED  BY <2>1 DEF Settings!UserSettings
<1> HIDE DEF m
<1>4. /\ n.agile = s.agile /\ n.font = s.font /\ n.method = m /\ n.signed = (m # "none")
      /\ n.stamped = (s.stamped /\ m = "pades")
  OBVIOUS
<1>5. n \in Settings!UserSettings
  <2>1. (m # "none") \in BOOLEAN /\ (s.stamped /\ m = "pades") \in BOOLEAN  OBVIOUS
  <2> QED  BY <1>1, <1>2, <2>1 DEF Settings!UserSettings, SettingsFonts
<1> HIDE DEF n
<1>6. SettingsWritten(n)  BY <1>2, <1>4, <1>5 DEF SettingsWritten
<1> QED  BY <1>3, <1>4, <1>6

LEMMA SettingsRow ==
  ASSUME SettingsInv PROVE row \in Settings!UserSettings
BY SettingsDefault DEF SettingsInv, SettingsWritten

LEMMA SettingsInit == ASSUME Settings!SettingsAssumption, Settings!Init PROVE SettingsInv
<1>1. /\ phase \in {"form", "shut"} /\ landed = <<>> /\ pack \in BOOLEAN /\ font = "default"
      /\ settingsCall = [c \in Peers |-> Settings!Idle] /\ begun = 0
      /\ row \in IF phase = "form" THEN {Settings!DefaultUserSettings} ELSE Settings!Old
  BY DEF Settings!Init
<1>2. row \in Settings!Old /\ (phase = "form" => row = Settings!DefaultUserSettings)
  BY <1>1 DEF Settings!Old
<1>3. \A c \in Peers : settingsCall[c] = Settings!Idle  BY <1>1
<1>4. \A c \in Peers : SettingsCallOk(settingsCall[c])  BY <1>3, SettingsDefault
<1>5. settingsCall \in [Peers -> {settingsCall[c] : c \in Peers}]  BY <1>1
<1>6. row.agile = FALSE  BY <1>2, SettingsDefault
<1>7. Len(Asked) \in Nat /\ MaxCalls \in Nat  BY DEF Settings!SettingsAssumption
<1>8. /\ landed \in Seq({Asked[i] : i \in DOMAIN Asked} \cup {"skipped"}) /\ Len(landed) = 0
      /\ Len(landed) <= Len(Asked)
  BY <1>1, <1>7
<1> QED
  BY <1>1, <1>2, <1>3, <1>4, <1>5, <1>6, <1>7, <1>8 DEF SettingsInv, SettingsFonts

\* One call is given something else in hand.
LEMMA SettingsHand ==
  ASSUME SettingsInv, NEW c \in Peers, NEW k, SettingsCallOk(k),
         settingsCall' = [settingsCall EXCEPT ![c] = k]
  PROVE  /\ settingsCall' \in [Peers -> {settingsCall'[v] : v \in Peers}]
         /\ \A v \in Peers : SettingsCallOk(settingsCall'[v])
<1>1. \A v \in Peers : settingsCall'[v] = IF v = c THEN k ELSE settingsCall[v]  BY DEF SettingsInv
<1>2. settingsCall' \in [Peers -> {settingsCall'[v] : v \in Peers}]  BY DEF SettingsInv
<1>3. \A v \in Peers : SettingsCallOk(settingsCall[v])  BY DEF SettingsInv
<1> QED  BY <1>1, <1>2, <1>3

\* A call has gone one step on, with what it had read or with a row it has just read.
LEMMA SettingsMoved ==
  ASSUME NEW k, k = [op |-> k.op, want |-> k.want, pc |-> k.pc, read |-> k.read], NEW z, NEW n
  PROVE  /\ [k EXCEPT !.pc = z] = [op |-> k.op, want |-> k.want, pc |-> z, read |-> k.read]
         /\ [[k EXCEPT !.pc = z] EXCEPT !.read = n]
            = [op |-> k.op, want |-> k.want, pc |-> z, read |-> n]
<1> DEFINE a == k.op
           b == k.want
           d == k.pc
           e == k.read
<1>1. k = [op |-> a, want |-> b, pc |-> d, read |-> e]  OBVIOUS
<1> HIDE DEF a, b, d, e
<1>2. [k EXCEPT !.pc = z] = [op |-> a, want |-> b, pc |-> z, read |-> e]  BY <1>1
<1>3. [[op |-> a, want |-> b, pc |-> z, read |-> e] EXCEPT !.read = n]
      = [op |-> a, want |-> b, pc |-> z, read |-> n]
  OBVIOUS
<1> QED  BY <1>2, <1>3 DEF a, b, d, e

\* What a call writes is a row of settings.
LEMMA SettingsToWrite ==
  ASSUME NEW k, SettingsCallOk(k), k.pc = "write" PROVE Settings!ToWrite(k) \in Settings!UserSettings
<1>1. k.read \in Settings!UserSettings  BY DEF SettingsCallOk, SettingsWritten
<1>2. CASE k.op = "toggle"
  <2>1. k.want \in BOOLEAN /\ Settings!ToWrite(k) = [k.read EXCEPT !.agile = k.want]
    BY <1>2 DEF SettingsCallOk, Settings!ToWrite
  <2> QED  BY <1>1, <2>1 DEF Settings!UserSettings
<1>3. CASE k.op = "font"
  <2>1. k.want \in Fonts /\ Settings!ToWrite(k) = [k.read EXCEPT !.font = k.want]
    BY <1>3 DEF SettingsCallOk, Settings!ToWrite
  <2> QED  BY <1>1, <2>1 DEF Settings!UserSettings
<1>4. CASE k.op = "reset"
  <2>1. Settings!ToWrite(k) = Settings!DefaultUserSettings  BY <1>4 DEF Settings!ToWrite
  <2> QED  BY <2>1, SettingsDefault DEF SettingsWritten
<1>5. CASE k.op = "page"
  <2> DEFINE r == k.read
             m == k.want.method
             b == (m # "none")
  <2>1. m \in Settings!Methods /\ k.want.stamped \in BOOLEAN  BY <1>5 DEF SettingsCallOk
  <2>2. Settings!ToWrite(k) = [r EXCEPT !.method = m, !.signed = b, !.stamped = k.want.stamped]
    BY <1>5 DEF Settings!ToWrite
  <2>3. b \in BOOLEAN /\ r \in Settings!UserSettings  BY <1>1
  <2> HIDE DEF r, m, b
  <2> DEFINE x == [r EXCEPT !.method = m]
             y == [x EXCEPT !.signed = b]
  <2>4. x \in Settings!UserSettings  BY <2>1, <2>3 DEF Settings!UserSettings
  <2>5. y \in Settings!UserSettings
    <3> HIDE DEF x
    <3> QED  BY <2>3, <2>4 DEF Settings!UserSettings
  <2>6. Settings!ToWrite(k) = [y EXCEPT !.stamped = k.want.stamped]
    BY <2>2, <2>3 DEF Settings!UserSettings
  <2> HIDE DEF y
  <2> QED  BY <2>1, <2>5, <2>6 DEF Settings!UserSettings
<1> QED  BY <1>2, <1>3, <1>4, <1>5 DEF SettingsCallOk

\* A call is begun.
LEMMA SettingsStart ==
  ASSUME Settings!SettingsAssumption, SettingsInv, NEW c \in Peers,
         NEW op \in {"toggle", "query", "font", "reset", "page"}, NEW want,
         op = "toggle" => want \in BOOLEAN, op = "font" => want \in Fonts,
         op = "page" => want \in [method : Settings!Methods, stamped : BOOLEAN],
         Settings!Start(c, op, want), pack' \in BOOLEAN
  PROVE  SettingsInv'
<1> DEFINE z == IF op = "reset" THEN "write" ELSE "read"
           k == [op |-> op, want |-> want, pc |-> z, read |-> Settings!DefaultUserSettings]
<1>1. /\ begun < MaxCalls /\ begun' = begun + 1 /\ UNCHANGED <<phase, landed, row, font>>
      /\ phase = "open"
      /\ settingsCall' = [settingsCall EXCEPT ![c] =
                            [Settings!Idle EXCEPT !.op = op, !.want = want, !.pc = z]]
  BY DEF Settings!Start
<1>2. [Settings!Idle EXCEPT !.op = op, !.want = want, !.pc = z] = k
  <2> DEFINE d == Settings!DefaultUserSettings
  <2> HIDE DEF d, z
  <2>1. Settings!Idle = [op |-> "idle", want |-> "none", pc |-> "none", read |-> d]
    BY DEF Settings!Idle, d
  <2>2. [Settings!Idle EXCEPT !.op = op] = [op |-> op, want |-> "none", pc |-> "none", read |-> d]
    BY <2>1
  <2>3. [[op |-> op, want |-> "none", pc |-> "none", read |-> d] EXCEPT !.want = want]
        = [op |-> op, want |-> want, pc |-> "none", read |-> d]
    OBVIOUS
  <2>4. [[op |-> op, want |-> want, pc |-> "none", read |-> d] EXCEPT !.pc = z]
        = [op |-> op, want |-> want, pc |-> z, read |-> d]
    OBVIOUS
  <2>5. [Settings!Idle EXCEPT !.op = op, !.want = want, !.pc = z]
        = [[[Settings!Idle EXCEPT !.op = op] EXCEPT !.want = want] EXCEPT !.pc = z]
    BY <2>1
  <2> QED  BY <2>2, <2>3, <2>4, <2>5 DEF d
<1>3. SettingsCallOk(k)
  <2>1. SettingsWritten(Settings!DefaultUserSettings)  BY SettingsDefault
  <2> QED  BY <2>1 DEF SettingsCallOk
<1> HIDE DEF k, z
<1>4. /\ settingsCall' \in [Peers -> {settingsCall'[v] : v \in Peers}]
      /\ \A v \in Peers : SettingsCallOk(settingsCall'[v])
  BY <1>1, <1>2, <1>3, SettingsHand
<1>5. begun' \in 0 .. MaxCalls /\ begun' # 0
  BY <1>1 DEF SettingsInv, Settings!SettingsAssumption
<1> QED  BY <1>1, <1>4, <1>5 DEF SettingsInv

\* A call goes on or ends; the row it may have written agrees with itself.
LEMMA SettingsGoesOn ==
  ASSUME SettingsInv, NEW c \in Peers, settingsCall[c].pc # "none", NEW k, SettingsCallOk(k),
         settingsCall' = [settingsCall EXCEPT ![c] = k],
         UNCHANGED <<phase, landed, begun>>, row' = row \/ SettingsWritten(row'),
         pack' \in BOOLEAN, font' \in SettingsFonts
  PROVE  SettingsInv'
<1>1. /\ settingsCall' \in [Peers -> {settingsCall'[v] : v \in Peers}]
      /\ \A v \in Peers : SettingsCallOk(settingsCall'[v])
  BY SettingsHand
<1>2. begun # 0 /\ phase # "form"  BY DEF SettingsInv, Settings!Idle
<1> QED  BY <1>1, <1>2 DEF SettingsInv

\* The launchpad and the opening and closing of the project.
LEMMA SettingsLaunch ==
  ASSUME SettingsInv, UNCHANGED <<settingsCall, begun>>, pack' \in BOOLEAN, font' \in SettingsFonts,
         phase' \in {"seeding", "opening", "open", "shut"},
         landed' \in Seq({Asked[i] : i \in DOMAIN Asked} \cup {"skipped"}),
         Len(landed') <= Len(Asked),
         \A i \in 1 .. Len(landed') :
           landed'[i] = IF Asked[i] \in Settings!Known THEN Asked[i] ELSE "skipped",
         row' = row \/ SettingsWritten(row'),
         begun = 0 /\ row'.agile => Len(landed') = Len(Asked)
  PROVE  SettingsInv'
BY DEF SettingsInv

LEMMA SettingsNext ==
  ASSUME Settings!SettingsAssumption, SettingsInv, [Settings!Next]_settingsVars PROVE SettingsInv'
<1> DEFINE Seeds == {Asked[i] : i \in DOMAIN Asked} \cup {"skipped"}
<1>0. /\ landed \in Seq(Seeds) /\ Len(landed) \in Nat /\ Len(landed) <= Len(Asked)
      /\ Len(Asked) \in Nat /\ DOMAIN Asked = 1 .. Len(Asked) /\ pack \in BOOLEAN
      /\ font \in SettingsFonts /\ row \in Settings!UserSettings
  BY SettingsRow DEF SettingsInv, Settings!SettingsAssumption
<1>l. \A i \in 1 .. Len(landed) :
        landed[i] = IF Asked[i] \in Settings!Known THEN Asked[i] ELSE "skipped"
  BY DEF SettingsInv
<1>a. begun = 0 /\ row.agile => Len(landed) = Len(Asked)  BY DEF SettingsInv
<1>1. CASE UNCHANGED settingsVars  BY <1>1 DEF settingsVars, SettingsInv
<1>2. CASE Settings!CreateProject
  <2>1. /\ phase' = "seeding" /\ UNCHANGED <<landed, pack, font, settingsCall, begun>>
        /\ row' \in {row} \cup {Settings!NormalizeUserSettings([row EXCEPT !.font = f]) : f \in Fonts}
    BY <1>2 DEF Settings!CreateProject
  <2>2. row' = row \/ (SettingsWritten(row') /\ row'.agile = row.agile)
    <3>1. ASSUME NEW f \in Fonts, row' = Settings!NormalizeUserSettings([row EXCEPT !.font = f])
          PROVE  SettingsWritten(row') /\ row'.agile = row.agile
      <4> DEFINE r == [row EXCEPT !.font = f]
      <4>1. r \in Settings!UserSettings /\ r.agile = row.agile  BY <1>0 DEF Settings!UserSettings
      <4>2. row' = Settings!NormalizeUserSettings(r)  BY <3>1
      <4> HIDE DEF r
      <4> QED  BY <4>1, <4>2, SettingsNormal
    <3> QED  BY <2>1, <3>1
  <2>3. begun = 0 /\ row'.agile => Len(landed') = Len(Asked)  BY <1>a, <2>1, <2>2
  <2> QED  BY <1>0, <1>l, <2>1, <2>2, <2>3, SettingsLaunch
<1>3. CASE Settings!ApplyOne
  <2>1. /\ phase = "seeding" /\ Len(landed) < Len(Asked) /\ UNCHANGED <<row, pack, font, settingsCall, begun>>
        /\ \/ /\ landed' = Append(landed, IF Asked[Len(landed) + 1] \in Settings!Known
                                            THEN Asked[Len(landed) + 1] ELSE "skipped")
              /\ phase' = phase
           \/ phase' = "opening" /\ landed' = landed
    BY <1>3 DEF Settings!ApplyOne
  <2>2. begun = 0 => row'.agile = FALSE
    <3>1. row.agile \in BOOLEAN  BY <1>0 DEF Settings!UserSettings
    <3> QED  BY <1>0, <1>a, <2>1, <3>1
  <2>3. CASE phase' = "opening" /\ landed' = landed
    BY <1>0, <1>l, <1>a, <2>1, <2>3, SettingsLaunch
  <2>4. CASE /\ phase' = phase
             /\ landed' = Append(landed, IF Asked[Len(landed) + 1] \in Settings!Known
                                         THEN Asked[Len(landed) + 1] ELSE "skipped")
    <3> DEFINE x == IF Asked[Len(landed) + 1] \in Settings!Known
                    THEN Asked[Len(landed) + 1] ELSE "skipped"
    <3>1. x \in Seeds  BY <1>0, <2>1
    <3>2. landed' = Append(landed, x)  BY <2>4
    <3> HIDE DEF x, Seeds
    <3>3. /\ landed' \in Seq(Seeds) /\ Len(landed') = Len(landed) + 1
          /\ landed'[Len(landed) + 1] = x
          /\ \A i \in 1 .. Len(landed) : landed'[i] = landed[i]
      BY <1>0, <3>1, <3>2
    <3>4. \A i \in 1 .. Len(landed') :
            landed'[i] = IF Asked[i] \in Settings!Known THEN Asked[i] ELSE "skipped"
      <4>1. \A i \in 1 .. Len(landed') : i \in 1 .. Len(landed) \/ i = Len(landed) + 1
        BY <1>0, <3>3
      <4> QED  BY <1>l, <3>3, <4>1 DEF x
    <3>5. Len(landed') <= Len(Asked)  BY <1>0, <2>1, <3>3
    <3> USE DEF Seeds
    <3> QED  BY <1>0, <2>1, <2>2, <2>4, <3>3, <3>4, <3>5, SettingsLaunch
  <2> QED  BY <2>1, <2>3, <2>4
<1>4. CASE Settings!EnablePack
  <2>1. /\ Len(landed) = Len(Asked) /\ phase' = "opening"
        /\ UNCHANGED <<landed, pack, font, settingsCall, begun>>
        /\ row' = row \/ row' = Settings!NormalizeUserSettings([row EXCEPT !.agile = TRUE])
    BY <1>4 DEF Settings!EnablePack
  <2>2. row' = row \/ SettingsWritten(row')
    <3>1. [row EXCEPT !.agile = TRUE] \in Settings!UserSettings  BY <1>0 DEF Settings!UserSettings
    <3> QED  BY <2>1, <3>1, SettingsNormal
  <2> QED  BY <1>0, <1>l, <2>1, <2>2, SettingsLaunch
<1>5. CASE Settings!OpenProject \/ Settings!CloseProject
  <2>1. /\ phase' \in {"open", "shut"} /\ UNCHANGED <<landed, row, pack, settingsCall, begun>>
        /\ font' \in {font, row.font, "default"}
    BY <1>5 DEF Settings!OpenProject, Settings!CloseProject
  <2>2. font' \in SettingsFonts  BY <1>0, <2>1 DEF Settings!UserSettings, SettingsFonts
  <2> QED  BY <1>0, <1>l, <1>a, <2>1, <2>2, SettingsLaunch
<1>6. ASSUME NEW c \in Peers, Settings!SetAgileEnabled(c) PROVE SettingsInv'
  <2>1. PICK b \in BOOLEAN :
          /\ pack' = b
          /\ \/ Settings!Start(c, "toggle", b)
             \/ phase = "shut" /\ UNCHANGED <<phase, landed, row, font, settingsCall, begun>>
    BY <1>6 DEF Settings!SetAgileEnabled
  <2>2. CASE Settings!Start(c, "toggle", b)  BY <2>1, <2>2, SettingsStart
  <2>3. CASE UNCHANGED <<phase, landed, row, font, settingsCall, begun>>
    BY <2>1, <2>3 DEF SettingsInv
  <2> QED  BY <2>1, <2>2, <2>3
<1>7. ASSUME NEW c \in Peers, \/ Settings!AgileEnabled(c) \/ Settings!SetDefaultFont(c)
                              \/ Settings!ResetProjectSettings(c) \/ Settings!SavePage(c)
      PROVE  SettingsInv'
  <2>1. CASE Settings!AgileEnabled(c)
    BY <1>0, <2>1, SettingsStart DEF Settings!AgileEnabled
  <2>2. CASE Settings!SetDefaultFont(c)
    BY <1>0, <2>2, SettingsStart DEF Settings!SetDefaultFont
  <2>3. CASE Settings!ResetProjectSettings(c)
    BY <1>0, <2>3, SettingsStart DEF Settings!ResetProjectSettings
  <2>4. CASE Settings!SavePage(c)
    BY <1>0, <2>4, SettingsStart DEF Settings!SavePage
  <2> QED  BY <1>7, <2>1, <2>2, <2>3, <2>4
<1>8. ASSUME NEW c \in Peers, settingsCall[c].pc # "none", settingsCall' = [settingsCall EXCEPT ![c] = Settings!Idle],
             UNCHANGED <<phase, landed, row, begun>>, pack' \in BOOLEAN, font' \in SettingsFonts
      PROVE  SettingsInv'
  BY <1>8, SettingsDefault, SettingsGoesOn
<1>9. ASSUME NEW c \in Peers, Settings!GetSettings(c) PROVE SettingsInv'
  <2> DEFINE z == IF settingsCall[c].op = "query" THEN "after" ELSE "write"
             n == Settings!NormalizeUserSettings(row)
             k == [op |-> settingsCall[c].op, want |-> settingsCall[c].want, pc |-> z, read |-> n]
  <2>1. /\ settingsCall[c].pc = "read" /\ UNCHANGED <<phase, landed, row, pack, font, begun>>
        /\ \/ settingsCall' = [settingsCall EXCEPT ![c].pc = z, ![c].read = n]
           \/ settingsCall' = [settingsCall EXCEPT ![c] = Settings!Idle]
    BY <1>9 DEF Settings!GetSettings, Settings!Finish
  <2>2. CASE settingsCall' = [settingsCall EXCEPT ![c] = Settings!Idle]
    BY <1>0, <1>8, <2>1, <2>2
  <2>3. CASE settingsCall' = [settingsCall EXCEPT ![c].pc = z, ![c].read = n]
    <3>1. SettingsWritten(n)  BY <1>0, SettingsNormal
    <3>2. SettingsCallOk(settingsCall[c])  BY DEF SettingsInv
    <3> HIDE DEF n
    <3>3. SettingsCallOk(k)
      <4>1. settingsCall[c].op # "idle"
        BY <2>1, <3>2 DEF SettingsCallOk
      <4> QED  BY <3>1, <3>2, <4>1 DEF SettingsCallOk
    <3> HIDE DEF z
    <3>4. settingsCall' = [settingsCall EXCEPT ![c] = k]
      <4>1. settingsCall[c] = [op |-> settingsCall[c].op, want |-> settingsCall[c].want,
                               pc |-> settingsCall[c].pc, read |-> settingsCall[c].read]
        BY <3>2 DEF SettingsCallOk
      <4>2. settingsCall' = [settingsCall EXCEPT ![c] = [[settingsCall[c] EXCEPT !.pc = z] EXCEPT !.read = n]]
        BY <2>3, <4>1 DEF SettingsInv
      <4>3. [[settingsCall[c] EXCEPT !.pc = z] EXCEPT !.read = n] = k
        <5> DEFINE q == settingsCall[c]
                   a == q.op
                   b == q.want
                   d == q.pc
                   e == q.read
        <5>1. q = [op |-> a, want |-> b, pc |-> d, read |-> e]  BY <4>1
        <5>2. k = [op |-> a, want |-> b, pc |-> z, read |-> n]  OBVIOUS
        <5> HIDE DEF q, a, b, d, e, k
        <5>3. [q EXCEPT !.pc = z] = [op |-> a, want |-> b, pc |-> z, read |-> e]  BY <5>1
        <5>4. [[op |-> a, want |-> b, pc |-> z, read |-> e] EXCEPT !.read = n]
              = [op |-> a, want |-> b, pc |-> z, read |-> n]
          OBVIOUS
        <5> QED  BY <5>2, <5>3, <5>4 DEF q
      <4> QED  BY <4>2, <4>3
    <3> HIDE DEF k
    <3> QED  BY <1>0, <2>1, <3>3, <3>4, SettingsGoesOn
  <2> QED  BY <2>1, <2>2, <2>3
<1>10. ASSUME NEW c \in Peers, Settings!SaveSettings(c) PROVE SettingsInv'
  <2>1. /\ settingsCall[c].pc = "write" /\ UNCHANGED <<phase, landed, pack, font, begun>>
        /\ \/ /\ row' = Settings!NormalizeUserSettings(Settings!ToWrite(settingsCall[c]))
              /\ settingsCall' = [settingsCall EXCEPT ![c].pc = "after"]
           \/ settingsCall' = [settingsCall EXCEPT ![c] = Settings!Idle] /\ row' = row
    BY <1>10 DEF Settings!SaveSettings, Settings!Finish
  <2>2. CASE settingsCall' = [settingsCall EXCEPT ![c] = Settings!Idle] /\ row' = row
    BY <1>0, <1>8, <2>1, <2>2
  <2>3. CASE /\ row' = Settings!NormalizeUserSettings(Settings!ToWrite(settingsCall[c]))
             /\ settingsCall' = [settingsCall EXCEPT ![c].pc = "after"]
    <3> DEFINE k == [op |-> settingsCall[c].op, want |-> settingsCall[c].want, pc |-> "after",
                     read |-> settingsCall[c].read]
    <3>1. SettingsCallOk(settingsCall[c])  BY DEF SettingsInv
    <3>2. SettingsWritten(row')  BY <2>1, <2>3, <3>1, SettingsToWrite, SettingsNormal
    <3>3. SettingsCallOk(k)
      <4>1. settingsCall[c].op # "idle"  BY <2>1, <3>1 DEF SettingsCallOk
      <4> QED  BY <3>1, <4>1 DEF SettingsCallOk
    <3>4. settingsCall' = [settingsCall EXCEPT ![c] = k]
      <4>1. settingsCall[c] = [op |-> settingsCall[c].op, want |-> settingsCall[c].want,
                               pc |-> settingsCall[c].pc, read |-> settingsCall[c].read]
        BY <3>1 DEF SettingsCallOk
      <4>2. settingsCall' = [settingsCall EXCEPT ![c] = [settingsCall[c] EXCEPT !.pc = "after"]]
        BY <2>3, <4>1 DEF SettingsInv
      <4> QED  BY <4>1, <4>2, SettingsMoved
    <3> HIDE DEF k
    <3> QED  BY <1>0, <2>1, <3>2, <3>3, <3>4, SettingsGoesOn
  <2> QED  BY <2>1, <2>2, <2>3
<1>11. ASSUME NEW c \in Peers, Settings!After(c) PROVE SettingsInv'
  <2>1. /\ settingsCall[c].pc = "after" /\ settingsCall' = [settingsCall EXCEPT ![c] = Settings!Idle]
        /\ UNCHANGED <<phase, landed, row, begun>>
    BY <1>11 DEF Settings!After, Settings!Finish
  <2>2. SettingsCallOk(settingsCall[c])  BY DEF SettingsInv
  <2>3. settingsCall[c].read.agile \in BOOLEAN
    BY <2>2 DEF SettingsCallOk, SettingsWritten, Settings!UserSettings
  <2>4. pack' \in BOOLEAN
    <3>1. pack' \in {settingsCall[c].read.agile, FALSE, pack}  BY <1>11 DEF Settings!After
    <3> QED  BY <1>0, <2>3, <3>1
  <2>5. font' \in SettingsFonts
    <3>1. settingsCall[c].op = "font" => settingsCall[c].want \in Fonts  BY <2>2 DEF SettingsCallOk
    <3> QED  BY <1>0, <1>11, <3>1 DEF Settings!After, SettingsFonts
  <2> QED  BY <1>8, <2>1, <2>4, <2>5
<1> QED
  BY <1>1, <1>2, <1>3, <1>4, <1>5, <1>6, <1>7, <1>9, <1>10, <1>11 DEF Settings!Next

LEMMA SettingsHolds ==
  ASSUME Settings!SettingsAssumption, SettingsInv
  PROVE  Settings!TypeOK /\ Settings!RowConsistent /\ Settings!PackMeansSeeded
<1>1. Settings!TypeOK
  <2>1. \A i \in 1 .. Len(landed) : landed[i] \in {Asked[i], "skipped"}  BY DEF SettingsInv
  <2> QED  BY <2>1, SettingsRow DEF SettingsInv, SettingsFonts, Settings!TypeOK
<1>2. Settings!RowConsistent
  <2>1. CASE SettingsWritten(row)
    BY <2>1 DEF SettingsWritten, Settings!RowConsistent, Settings!Methods
  <2>2. CASE row \in Settings!Old
    <3> DEFINE d == Settings!DefaultUserSettings
    <3>1. SettingsWritten(d)  BY SettingsDefault
    <3>2. row = d \/ row = [d EXCEPT !.method = "unset", !.signed = TRUE]
      BY <2>2 DEF Settings!Old
    <3>3. d.stamped = FALSE  BY DEF Settings!DefaultUserSettings
    <3> HIDE DEF d
    <3>4. CASE row = d  BY <2>1, <3>1, <3>4
    <3>5. CASE row = [d EXCEPT !.method = "unset", !.signed = TRUE]
      <4>1. row.method = "unset" /\ row.stamped = FALSE
        BY <3>1, <3>3, <3>5 DEF SettingsWritten, Settings!UserSettings
      <4> QED  BY <2>2, <4>1 DEF Settings!RowConsistent, Settings!Methods
    <3> QED  BY <3>2, <3>4, <3>5
  <2> QED  BY <2>1, <2>2 DEF SettingsInv
<1>3. Settings!PackMeansSeeded
  BY DEF SettingsInv, Settings!PackMeansSeeded, Settings!SettingsAssumption
<1> QED  BY <1>1, <1>2, <1>3

-----------------------------------------------------------------------------
(* Proofs: the project row and its timeline                                 *)

RowRanges == [start : Row!DateForms, end : Row!DateForms]

\* A row as it is written: its zone is one of its country's.
RowOk(p) == p \in Row!Projects /\ Row!ValidTimeZone(p.country, p.zone)

\* The table of a file: its first row carries the file's name.
RowTable(s, f) ==
    /\ s \in Seq(Row!Projects) /\ s # <<>> /\ s[1].id = f
    /\ \A i \in DOMAIN s : RowOk(s[i])

\* What a call has read: a row of the file it writes to.
RowCallOk(k) ==
    /\ k.op \in {"idle", "industry", "move", "rebuild"}
    /\ k.op = "industry" => /\ k.db \in Files /\ RowOk(k.p) /\ k.p.id = k.db
                            /\ k.country \in Countries
    /\ k.op = "move" => /\ k.db \in Files /\ RowOk(k.p) /\ k.p.id = k.db /\ k.sp \in RowRanges
                        /\ k.kind \in Row!Boundaries /\ k.date \in Days
    /\ k.op = "rebuild" => k.db \in Files

RowContent(b) == [chart |-> b, deployed |-> 2, charters |-> <<1, Row!Malformed>>]

\* The inductive invariant: a call writes back a row that has the name of the file it
\* writes to; only the settings form may carry the row of another.
RowInv ==
    /\ rowRows \in [Files -> Seq(Row!Projects)] /\ \A f \in Files : RowTable(rowRows[f], f)
    /\ sprint \in [Files -> RowRanges] /\ costs \in [Files -> BOOLEAN]
    /\ \E b \in {"none", "ok", "broken"} : content = [f \in Files |-> RowContent(b)]
    /\ open \in Files
    /\ form = Row!NoForm \/ RowOk(form)
    /\ rowCall \in [Threads -> {rowCall[t] : t \in Threads}]
    /\ \A t \in Threads : RowCallOk(rowCall[t])
    /\ edits \in 0 .. MaxEdits
    /\ Row!AnswerSorted

LEMMA RowCount == \A S : Row!Cardinality(S) = Cardinality(S)
BY DEF Row!Cardinality, Cardinality

LEMMA RowDates ==
  ASSUME Row!EditsBounded
  PROVE  Row!DateForms \subseteq Nat /\ 0 \in Row!DateForms /\ Days \subseteq Row!DateForms
BY DEF Row!EditsBounded, Row!DateForms

LEMMA RowParsed ==
  ASSUME NEW d \in Nat PROVE Row!parseDate(d) \in Nat
BY DEF Row!parseDate, Row!Stamp, Row!Malformed

\* The entries that come before an entry, and how many they are.
RowRank(U, e) == Cardinality({x \in U : Row!Before(x, e)})

\* Entries that were collected at different places have different ranks, and the ranks of
\* n entries are 0 to n - 1: sorting gives every place one entry.
LEMMA RowRanks ==
  ASSUME NEW U, IsFiniteSet(U), \A x \in U : x.at \in Nat /\ x.date \in Nat,
         \A x, y \in U : x.at = y.at => x = y
  PROVE  /\ Cardinality(U) \in Nat
         /\ \A x, y \in U : Row!Before(x, y) => RowRank(U, x) < RowRank(U, y)
         /\ \A k \in 0 .. Cardinality(U) - 1 : \E e \in U : RowRank(U, e) = k
<1> DEFINE n == Cardinality(U)
           Upto(e) == {x \in U : Row!Before(x, e)}
<1>1. n \in Nat  BY FS_CardinalityType
<1>2. \A x, y, z \in U : /\ Row!Before(x, y) /\ Row!Before(y, z) => Row!Before(x, z)
                         /\ ~Row!Before(x, x)
                         /\ x # y => Row!Before(x, y) \/ Row!Before(y, x)
  BY DEF Row!Before
<1>3. ASSUME NEW e \in U
      PROVE  IsFiniteSet(Upto(e)) /\ RowRank(U, e) \in 0 .. n - 1
  <2>1. IsFiniteSet(U \ {e}) /\ Cardinality(U \ {e}) = n - 1  BY FS_RemoveElement
  <2>2. Upto(e) \in SUBSET (U \ {e})  BY <1>2
  <2>3. IsFiniteSet(Upto(e)) /\ Cardinality(Upto(e)) <= n - 1  BY <2>1, <2>2, FS_Subset
  <2>4. Cardinality(Upto(e)) \in Nat  BY <2>3, FS_CardinalityType
  <2> QED  BY <1>1, <2>3, <2>4 DEF RowRank
<1>r. \A e \in U : RowRank(U, e) \in Int
  <2> SUFFICES ASSUME NEW e \in U PROVE RowRank(U, e) \in Int  OBVIOUS
  <2>1. RowRank(U, e) \in 0 .. n - 1  BY <1>3
  <2> HIDE DEF n
  <2> QED  BY <1>1, <2>1
<1>4. ASSUME NEW x \in U, NEW y \in U, Row!Before(x, y) PROVE RowRank(U, x) < RowRank(U, y)
  <2>1. Upto(x) \cup {x} \in SUBSET Upto(y) /\ x \notin Upto(x)  BY <1>2, <1>4
  <2>2. IsFiniteSet(Upto(x)) /\ IsFiniteSet(Upto(y))  BY <1>3
  <2>3. Cardinality(Upto(x) \cup {x}) = Cardinality(Upto(x)) + 1  BY <2>1, <2>2, FS_AddElement
  <2>4. Cardinality(Upto(x) \cup {x}) <= Cardinality(Upto(y))  BY <2>1, <2>2, FS_Subset
  <2>5. RowRank(U, x) \in Int /\ RowRank(U, y) \in Int  BY <1>r
  <2> QED  BY <2>3, <2>4, <2>5 DEF RowRank
<1>5. \A k \in 0 .. n - 1 : \E e \in U : RowRank(U, e) = k
  <2> DEFINE T == 0 .. n - 1
             g == [e \in U |-> RowRank(U, e)]
  <2>1. IsFiniteSet(T) /\ Cardinality(T) = n
    <3>1. 0 \in Int /\ n - 1 \in Int  BY <1>1
    <3>2. IsFiniteSet(T) /\ Cardinality(T) = IF 0 > n - 1 THEN 0 ELSE n - 1 - 0 + 1
      BY <3>1, FS_Interval
    <3> QED  BY <1>1, <3>2
  <2>2. g \in [U -> T]  BY <1>3
  <2>3. \A x, y \in U : g[x] = g[y] => x = y
    <3> SUFFICES ASSUME NEW x \in U, NEW y \in U, x # y PROVE g[x] # g[y]  OBVIOUS
    <3>1. RowRank(U, x) \in Int /\ RowRank(U, y) \in Int  BY <1>r
    <3> QED  BY <1>2, <1>4, <3>1
  <2>4. g \in Injection(U, T)  BY <2>2, <2>3 DEF Injection, IsInjective
  <2> HIDE DEF g, T
  <2>5. g \in Surjection(U, T)  BY <2>1, <2>4, FS_Injection
  <2> USE DEF g, T
  <2> QED  BY <2>5 DEF Surjection
<1> QED  BY <1>1, <1>4, <1>5

\* timeline.Build sorts: a later place never has an earlier date.
LEMMA RowSorts ==
  ASSUME NEW U, IsFiniteSet(U), \A x \in U : x.at \in Nat /\ x.date \in Nat,
         \A x, y \in U : x.at = y.at => x = y
  PROVE  \A i, j \in DOMAIN Row!SortStable(U) :
           i < j => Row!SortStable(U)[i].date <= Row!SortStable(U)[j].date
<1> DEFINE n == Cardinality(U)
           s == Row!SortStable(U)
           At(k) == CHOOSE e \in U : RowRank(U, e) = k - 1
<1>1. DOMAIN s = 1 .. n /\ \A k \in 1 .. n : s[k] = At(k)
  <2> DEFINE m == Row!Cardinality(U)
             C(k) == CHOOSE e \in U : Row!Cardinality({x \in U : Row!Before(x, e)}) = k - 1
  <2>1. s = [k \in 1 .. m |-> C(k)]  BY DEF Row!SortStable
  <2>2. \A k : At(k) = C(k)  BY RowCount DEF RowRank
  <2>3. m = n  BY RowCount
  <2> HIDE DEF At, C, s, n, m
  <2> QED  BY <2>1, <2>2, <2>3
<1>2. n \in Nat  BY RowRanks
<1>3. ASSUME NEW k \in 1 .. n PROVE s[k] \in U /\ RowRank(U, s[k]) = k - 1
  <2>1. k - 1 \in 0 .. n - 1  BY <1>2
  <2>2. \E e \in U : RowRank(U, e) = k - 1  BY <2>1, RowRanks
  <2>3. At(k) \in U /\ RowRank(U, At(k)) = k - 1  BY <2>2
  <2> HIDE DEF At, s
  <2> QED  BY <1>1, <2>3
<1> HIDE DEF s, At
<1>5. ASSUME NEW i \in 1 .. n, NEW j \in 1 .. n, i < j, ~(s[i].date <= s[j].date) PROVE FALSE
  <2>1. s[i] \in U /\ s[j] \in U /\ RowRank(U, s[i]) = i - 1 /\ RowRank(U, s[j]) = j - 1  BY <1>3
  <2>2. Row!Before(s[j], s[i])  BY <1>5, <2>1 DEF Row!Before
  <2>3. j - 1 < i - 1  BY <2>1, <2>2, RowRanks
  <2> QED  BY <1>2, <1>5, <2>3
<1> QED  BY <1>1, <1>5 DEF s

\* The first row of a table is a project, and the only thing known of a later one's name.
LEMMA RowFirst ==
  ASSUME RowInv, NEW f \in Files
  PROVE  /\ rowRows[f] \in Seq(Row!Projects) /\ 1 \in DOMAIN rowRows[f]
         /\ DOMAIN rowRows[f] = 1 .. Len(rowRows[f]) /\ Len(rowRows[f]) \in Nat
         /\ RowOk(Row!GetProject(f)) /\ Row!GetProject(f).id = f
         /\ Row!GetProject(f) = rowRows[f][1]
<1>1. RowTable(rowRows[f], f)  BY DEF RowInv
<1> DEFINE s == rowRows[f]
<1>2. /\ s \in Seq(Row!Projects) /\ s # <<>> /\ s[1].id = f
      /\ \A i \in DOMAIN s : RowOk(s[i])
  BY <1>1 DEF RowTable
<1> HIDE DEF s
<1>3. DOMAIN s = 1 .. Len(s) /\ Len(s) \in Nat /\ 1 \in DOMAIN s  BY <1>2
<1> QED  BY <1>2, <1>3 DEF s, Row!GetProject

\* What a timeline is built from: each place of the collection gives one entry at most.
LEMMA RowCollected ==
  ASSUME Row!EditsBounded, RowInv, NEW f \in Files, NEW p \in Row!Projects, NEW sp \in RowRanges
  PROVE  /\ IsFiniteSet(Row!Unsorted(f, p, sp))
         /\ \A x \in Row!Unsorted(f, p, sp) : x.at \in Nat /\ x.date \in Nat
         /\ \A x, y \in Row!Unsorted(f, p, sp) : x.at = y.at => x = y
<1> DEFINE U == Row!Unsorted(f, p, sp)
           dates == <<p.start, p.end, sp.start, sp.end, 2, 1, Row!parseDate(p.start) + 1>>
           kinds == <<"project_start", "project_end", "sprint_start", "sprint_end", "deployment",
                      "milestone", "milestone">>
           places == <<1, 2, 3, 4, 5, 6, 8>>
           E(k) == Row!Entry(places[k], kinds[k], dates[k], k < 5)
<1>1. /\ p.start \in Nat /\ p.end \in Nat /\ sp.start \in Nat /\ sp.end \in Nat
      /\ Row!parseDate(p.start) + 1 \in Nat
  <2>1. p.start \in Nat /\ p.end \in Nat  BY RowDates DEF Row!Projects
  <2>2. sp.start \in Nat /\ sp.end \in Nat  BY RowDates DEF RowRanges
  <2>3. Row!parseDate(p.start) \in Nat  BY <2>1, RowParsed
  <2> QED  BY <2>1, <2>2, <2>3
<1>2. content[f].charters = <<1, Row!Malformed>> /\ content[f].deployed = 2
  BY DEF RowInv, RowContent
<1>3. U \subseteq {E(k) : k \in 1 .. 7}
  <2>1. Row!projectMilestones(f) \subseteq {Row!Entry(6, "milestone", 1, FALSE)}
    <3>1. Len(content[f].charters) = 2  BY <1>2
    <3>2. Row!projectMilestones(f)
          = UNION {Row!Dated(5 + i, "milestone", content[f].charters[i], FALSE) : i \in 1 .. 2}
      BY <3>1 DEF Row!projectMilestones
    <3>3. \A i \in 1 .. 2 : i = 1 \/ i = 2  OBVIOUS
    <3>4. Row!Dated(5 + 1, "milestone", content[f].charters[1], FALSE)
          \subseteq {Row!Entry(6, "milestone", 1, FALSE)}
      <4>1. content[f].charters[1] = 1 /\ 5 + 1 = 6  BY <1>2
      <4>2. Row!Dated(5 + 1, "milestone", content[f].charters[1], FALSE)
            = Row!Dated(6, "milestone", 1, FALSE)
        BY <4>1
      <4>3. Row!Dated(6, "milestone", 1, FALSE) \subseteq {Row!Entry(6, "milestone", 1, FALSE)}
        BY Zenon DEF Row!Dated
      <4> QED  BY <4>2, <4>3
    <3>5. Row!Dated(5 + 2, "milestone", content[f].charters[2], FALSE) = {}
      BY <1>2 DEF Row!Dated, Row!Parses
    <3> QED  BY <3>2, <3>3, <3>4, <3>5
  <2>2. Row!chartMilestones(f, p)
        \subseteq {Row!Entry(8, "milestone", Row!parseDate(p.start) + 1, FALSE)}
    <3>1. 6 + Len(content[f].charters) = 8  BY <1>2
    <3> QED  BY <3>1 DEF Row!chartMilestones
  <2>3. \A at, kind, d, b : Row!Dated(at, kind, d, b) \subseteq {Row!Entry(at, kind, d, b)}
    BY DEF Row!Dated
  <2>4. U \subseteq {Row!Entry(1, "project_start", p.start, TRUE)}
               \cup {Row!Entry(2, "project_end", p.end, TRUE)}
               \cup {Row!Entry(3, "sprint_start", sp.start, TRUE)}
               \cup {Row!Entry(4, "sprint_end", sp.end, TRUE)}
               \cup {Row!Entry(5, "deployment", 2, FALSE)}
               \cup {Row!Entry(6, "milestone", 1, FALSE)}
               \cup {Row!Entry(8, "milestone", Row!parseDate(p.start) + 1, FALSE)}
    <3>1. Row!Dated(1, "project_start", p.start, TRUE)
          \subseteq {Row!Entry(1, "project_start", p.start, TRUE)}
      BY <2>3
    <3>2. Row!Dated(2, "project_end", p.end, TRUE) \subseteq {Row!Entry(2, "project_end", p.end, TRUE)}
      BY <2>3
    <3>3. Row!Dated(3, "sprint_start", sp.start, TRUE)
          \subseteq {Row!Entry(3, "sprint_start", sp.start, TRUE)}
      BY <2>3
    <3>4. Row!Dated(4, "sprint_end", sp.end, TRUE) \subseteq {Row!Entry(4, "sprint_end", sp.end, TRUE)}
      BY <2>3
    <3>5. Row!Dated(5, "deployment", content[f].deployed, FALSE)
          \subseteq {Row!Entry(5, "deployment", 2, FALSE)}
      BY <1>2, <2>3
    <3> QED  BY <2>1, <2>2, <3>1, <3>2, <3>3, <3>4, <3>5, Zenon DEF Row!Unsorted
  <2>5. /\ E(1) = Row!Entry(1, "project_start", p.start, TRUE)
        /\ E(2) = Row!Entry(2, "project_end", p.end, TRUE)
        /\ E(3) = Row!Entry(3, "sprint_start", sp.start, TRUE)
        /\ E(4) = Row!Entry(4, "sprint_end", sp.end, TRUE)
        /\ E(5) = Row!Entry(5, "deployment", 2, FALSE)
        /\ E(6) = Row!Entry(6, "milestone", 1, FALSE)
        /\ E(7) = Row!Entry(8, "milestone", Row!parseDate(p.start) + 1, FALSE)
    <3>1. /\ places[1] = 1 /\ places[2] = 2 /\ places[3] = 3 /\ places[4] = 4
          /\ places[5] = 5 /\ places[6] = 6 /\ places[7] = 8
      OBVIOUS
    <3>2. /\ dates[1] = p.start /\ dates[2] = p.end /\ dates[3] = sp.start /\ dates[4] = sp.end
          /\ dates[5] = 2 /\ dates[6] = 1 /\ dates[7] = Row!parseDate(p.start) + 1
      OBVIOUS
    <3>3. /\ kinds[1] = "project_start" /\ kinds[2] = "project_end" /\ kinds[3] = "sprint_start"
          /\ kinds[4] = "sprint_end" /\ kinds[5] = "deployment" /\ kinds[6] = "milestone"
          /\ kinds[7] = "milestone"
      OBVIOUS
    <3>4. /\ (1 < 5) = TRUE /\ (2 < 5) = TRUE /\ (3 < 5) = TRUE /\ (4 < 5) = TRUE
          /\ (5 < 5) = FALSE /\ (6 < 5) = FALSE /\ (7 < 5) = FALSE
      OBVIOUS
    <3> HIDE DEF places, dates, kinds
    <3> QED  BY <3>1, <3>2, <3>3, <3>4
  <2> HIDE DEF U, E
  <2>6. {E(1), E(2), E(3), E(4), E(5), E(6), E(7)} \subseteq {E(k) : k \in 1 .. 7}  OBVIOUS
  <2> QED  BY <2>4, <2>5, <2>6
<1>4. \A k \in 1 .. 7 : E(k).at = places[k] /\ E(k).date = Row!parseDate(dates[k])
  BY DEF Row!Entry
<1>5. \A k \in 1 .. 7 : places[k] \in Nat /\ dates[k] \in Nat
  BY <1>1
<1>6. \A j, k \in 1 .. 7 : places[j] = places[k] => j = k
  OBVIOUS
<1> HIDE DEF U, E, places, dates
<1>7. IsFiniteSet(U)
  <2> DEFINE S == 1 .. 7
             T == {E(k) : k \in S}
             g == [k \in S |-> E(k)]
  <2>1. IsFiniteSet(S)
    <3>1. 1 \in Int /\ 7 \in Int  OBVIOUS
    <3> QED  BY <3>1, FS_Interval
  <2>2. g \in Surjection(S, T)  BY DEF Surjection
  <2>3. U \in SUBSET T  BY <1>3
  <2> HIDE DEF S, T, g
  <2>4. IsFiniteSet(T)  BY <2>1, <2>2, FS_Surjection
  <2> QED  BY <2>3, <2>4, FS_Subset
<1>8. \A x \in U : x.at \in Nat /\ x.date \in Nat
  BY <1>3, <1>4, <1>5, RowParsed
<1>9. \A x, y \in U : x.at = y.at => x = y
  BY <1>3, <1>4, <1>6
<1> QED  BY <1>7, <1>8, <1>9 DEF U

\* BuildTimeline and the end of MoveTimelineEntry.
LEMMA RowAnswers ==
  ASSUME Row!EditsBounded, RowInv, NEW f \in Files, answer' = Row!buildTimelineFromDB(f)
  PROVE  Row!AnswerSorted'
<1> DEFINE p == Row!GetProject(f)
           s == Row!SortStable(Row!Unsorted(f, p, sprint[f]))
<1>1. p \in Row!Projects /\ sprint[f] \in RowRanges
  BY RowFirst DEF RowInv, RowOk
<1>2. \A i, j \in DOMAIN s : i < j => s[i].date <= s[j].date
  BY <1>1, RowCollected, RowSorts
<1>3. answer' = [file |-> f, ok |-> FALSE, list |-> <<>>] \/ answer' = [file |-> f, ok |-> TRUE, list |-> s]
  BY DEF Row!buildTimelineFromDB, Row!Build
<1> HIDE DEF s, p
<1>4. CASE answer' = [file |-> f, ok |-> FALSE, list |-> <<>>]
  BY <1>4 DEF Row!AnswerSorted
<1>5. CASE answer' = [file |-> f, ok |-> TRUE, list |-> s]
  BY <1>2, <1>5 DEF Row!AnswerSorted
<1> QED  BY <1>3, <1>4, <1>5

\* UpsertProject writes the row that has the project's name, or a new one after the others.
LEMMA RowUpserts ==
  ASSUME RowInv, NEW f \in Files, NEW p, RowOk(p), Row!UpsertProject(f, p)
  PROVE  /\ rowRows' \in [Files -> Seq(Row!Projects)]
         /\ \A g \in Files : RowTable(rowRows'[g], g)
         /\ Row!CurrencyKept
         /\ p.id = f => rowRows'[f][Row!RowOf(f, f)] = p
<1> DEFINE s == rowRows[f]
           u == Row!UpsertRows(f, p)
           i == Row!RowOf(f, p.id)
<1>1. /\ s \in Seq(Row!Projects) /\ 1 \in DOMAIN s /\ DOMAIN s = 1 .. Len(s) /\ Len(s) \in Nat
      /\ s[1].id = f /\ \A k \in DOMAIN s : RowOk(s[k])
  BY RowFirst DEF RowInv, RowTable
<1>2. p \in Row!Projects  BY DEF RowOk
<1>3. rowRows' = [rowRows EXCEPT ![f] = u] /\ Row!CurrencyAllowed(f, p)  BY DEF Row!UpsertProject
<1>4. RowTable(u, f) /\ \A k \in DOMAIN s : u[k].currency # s[k].currency => ~costs[f] /\ s[k].budget = 0
  <2>1. CASE Row!HasRow(f, p.id)
    <3>1. i \in DOMAIN s /\ s[i].id = p.id  BY <2>1 DEF Row!HasRow, Row!RowOf
    <3>2. u = [s EXCEPT ![i] = p]  BY <2>1 DEF Row!UpsertRows
    <3>3. s[i].currency = p.currency \/ (~costs[f] /\ s[i].budget = 0)
      BY <1>3, <2>1 DEF Row!CurrencyAllowed
    <3> HIDE DEF s, u, i
    <3>4. u \in Seq(Row!Projects) /\ DOMAIN u = DOMAIN s /\ Len(u) = Len(s)
      BY <1>1, <1>2, <3>1, <3>2
    <3>5. \A k \in DOMAIN s : u[k] = IF k = i THEN p ELSE s[k]  BY <3>2
    <3>6. u[1].id = f  BY <1>1, <3>1, <3>5
    <3>7. u # <<>>  BY <1>1, <3>4
    <3>8. RowTable(u, f)  BY <1>1, <3>4, <3>5, <3>6, <3>7 DEF RowTable
    <3> QED  BY <3>3, <3>5, <3>8
  <2>2. CASE ~Row!HasRow(f, p.id)
    <3>1. u = Append(s, p)  BY <2>2 DEF Row!UpsertRows
    <3> HIDE DEF s, u
    <3>2. /\ u \in Seq(Row!Projects) /\ Len(u) = Len(s) + 1 /\ DOMAIN u = 1 .. Len(s) + 1
          /\ \A k \in DOMAIN s : u[k] = s[k]
          /\ u[Len(s) + 1] = p
      BY <1>1, <1>2, <3>1
    <3>3. \A k \in DOMAIN u : k \in DOMAIN s \/ k = Len(s) + 1  BY <1>1, <3>2
    <3>4. u # <<>>  BY <1>1, <3>2
    <3>5. RowTable(u, f)  BY <1>1, <3>2, <3>3, <3>4 DEF RowTable
    <3> QED  BY <3>2, <3>5
  <2> QED  BY <2>1, <2>2
<1>5. p.id = f => rowRows'[f][Row!RowOf(f, f)] = p
  <2> SUFFICES ASSUME p.id = f PROVE rowRows'[f][i] = p  OBVIOUS
  <2>1. Row!HasRow(f, p.id)  BY <1>1 DEF Row!HasRow
  <2>2. i \in DOMAIN s  BY <2>1 DEF Row!HasRow, Row!RowOf
  <2>3. u = [s EXCEPT ![i] = p]  BY <2>1 DEF Row!UpsertRows
  <2>4. rowRows'[f] = u  BY <1>3 DEF RowInv
  <2> HIDE DEF s, u, i
  <2> QED  BY <2>2, <2>3, <2>4
<1> HIDE DEF u
<1>6. rowRows \in [Files -> Seq(Row!Projects)] /\ \A g \in Files : RowTable(rowRows[g], g)  BY DEF RowInv
<1>7. rowRows' \in [Files -> Seq(Row!Projects)]  BY <1>3, <1>4, <1>6 DEF RowTable
<1>8. \A g \in Files : rowRows'[g] = IF g = f THEN u ELSE rowRows[g]  BY <1>3, <1>6
<1>9. \A g \in Files : RowTable(rowRows'[g], g)  BY <1>4, <1>6, <1>8
<1>10. Row!CurrencyKept  BY <1>4, <1>8 DEF Row!CurrencyKept
<1> QED  BY <1>5, <1>7, <1>9, <1>10

\* A step that upserts one row at most, gives one call at most something else in hand, and
\* answers at most with a timeline that was built.
LEMMA RowStep ==
  ASSUME Row!EditsBounded, RowInv,
         rowRows' = rowRows \/ \E f \in Files, p \in Row!Projects : RowOk(p) /\ Row!UpsertProject(f, p),
         sprint' \in [Files -> RowRanges], costs' \in [Files -> BOOLEAN], content' = content,
         open' \in Files, form' = form \/ RowOk(form'),
         rowCall' = rowCall \/ \E t \in Threads : \E k : RowCallOk(k) /\ rowCall' = [rowCall EXCEPT ![t] = k],
         answer' = answer \/ \E f \in Files : answer' = Row!buildTimelineFromDB(f),
         edits' \in 0 .. MaxEdits
  PROVE  RowInv' /\ Row!CurrencyKept
<1>1. /\ rowRows' \in [Files -> Seq(Row!Projects)] /\ \A g \in Files : RowTable(rowRows'[g], g)
      /\ Row!CurrencyKept
  <2>1. CASE rowRows' = rowRows  BY <2>1 DEF RowInv, Row!CurrencyKept
  <2>2. ASSUME NEW f \in Files, NEW p \in Row!Projects, RowOk(p), Row!UpsertProject(f, p)
        PROVE  /\ rowRows' \in [Files -> Seq(Row!Projects)]
               /\ \A g \in Files : RowTable(rowRows'[g], g)
               /\ Row!CurrencyKept
    BY <2>2, RowUpserts
  <2> QED  BY <2>1, <2>2
<1>2. /\ rowCall' \in [Threads -> {rowCall'[t] : t \in Threads}]
      /\ \A t \in Threads : RowCallOk(rowCall'[t])
  <2>0. /\ rowCall \in [Threads -> {rowCall[t] : t \in Threads}]
        /\ \A t \in Threads : RowCallOk(rowCall[t])
    BY DEF RowInv
  <2>1. CASE rowCall' = rowCall  BY <2>0, <2>1
  <2>2. ASSUME NEW t \in Threads, NEW k, RowCallOk(k), rowCall' = [rowCall EXCEPT ![t] = k]
        PROVE  /\ rowCall' \in [Threads -> {rowCall'[v] : v \in Threads}]
               /\ \A v \in Threads : RowCallOk(rowCall'[v])
    <3>1. \A v \in Threads : rowCall'[v] = IF v = t THEN k ELSE rowCall[v]  BY <2>0, <2>2
    <3>2. rowCall' \in [Threads -> {rowCall'[v] : v \in Threads}]  BY <2>0, <2>2
    <3> QED  BY <2>0, <2>2, <3>1, <3>2
  <2> QED  BY <2>1, <2>2
<1>3. Row!AnswerSorted'
  <2>1. CASE answer' = answer  BY <2>1 DEF RowInv, Row!AnswerSorted
  <2> QED  BY <2>1, RowAnswers
<1>4. \E b \in {"none", "ok", "broken"} : content' = [f \in Files |-> RowContent(b)]  BY DEF RowInv
<1>5. form' = Row!NoForm \/ RowOk(form')  BY DEF RowInv
<1> QED  BY <1>1, <1>2, <1>3, <1>4, <1>5 DEF RowInv

LEMMA RowInit == ASSUME Row!EditsBounded, Row!Init PROVE RowInv
<1> DEFINE k == CHOOSE c \in Currencies : TRUE
           n == CHOOSE c \in Countries : TRUE
<1>1. k \in Currencies /\ n \in Countries  BY DEF Row!EditsBounded
<1>2. ASSUME NEW f \in Files PROVE RowTable(<<Row!Row(f)>>, f)
  <2> DEFINE z == Row!DefaultTimeZone(n)
             p == [id |-> f, start |-> 0, end |-> 0, budget |-> 0, currency |-> k, country |-> n,
                   zone |-> z]
  <2>1. Row!Row(f) = p  BY DEF Row!Row
  <2>2. z \in Row!supportedPolicies(n)  BY DEF Row!DefaultTimeZone, Row!supportedPolicies
  <2>3. z \in UNION {Row!supportedPolicies(c) : c \in Countries}  BY <1>1, <2>2
  <2> HIDE DEF k, n, z
  <2>4. p \in Row!Projects  BY <1>1, <2>3, RowDates DEF Row!Projects
  <2>5. RowOk(p)  BY <2>2, <2>4 DEF RowOk, Row!ValidTimeZone
  <2>6. p.id = f  OBVIOUS
  <2> HIDE DEF p
  <2>7. <<p>> \in Seq(Row!Projects) /\ <<p>> # <<>> /\ <<p>>[1] = p /\ DOMAIN <<p>> = {1}
    BY <2>4
  <2> QED  BY <2>1, <2>5, <2>6, <2>7 DEF RowTable
<1>3. /\ rowRows = [f \in Files |-> <<Row!Row(f)>>] /\ sprint = [f \in Files |-> [start |-> 0, end |-> 0]]
      /\ costs = [f \in Files |-> FALSE] /\ open \in Files /\ form = Row!NoForm
      /\ rowCall = [t \in Threads |-> Row!Idle] /\ answer = Row!NoAnswer /\ edits = 0
      /\ \E b \in {"none", "ok", "broken"} : content = [f \in Files |-> RowContent(b)]
  BY DEF Row!Init, RowContent
<1>4. /\ rowRows \in [Files -> Seq(Row!Projects)]
      /\ \A f \in Files : RowTable(rowRows[f], f)
  <2> DEFINE R(f) == <<Row!Row(f)>>
  <2>1. rowRows = [f \in Files |-> R(f)]  BY <1>3
  <2>2. \A f \in Files : RowTable(R(f), f)  BY <1>2
  <2> HIDE DEF R
  <2> QED  BY <2>1, <2>2 DEF RowTable
<1>5. sprint \in [Files -> RowRanges]  BY <1>3, RowDates DEF RowRanges
<1>6. RowCallOk(Row!Idle)  BY DEF RowCallOk, Row!Idle
<1>7. /\ rowCall \in [Threads -> {rowCall[t] : t \in Threads}]
      /\ \A t \in Threads : RowCallOk(rowCall[t])
  BY <1>3, <1>6
<1>8. Row!AnswerSorted  BY <1>3 DEF Row!AnswerSorted, Row!NoAnswer
<1>9. edits \in 0 .. MaxEdits  BY <1>3 DEF Row!EditsBounded
<1> QED  BY <1>3, <1>4, <1>5, <1>7, <1>8, <1>9 DEF RowInv

\* A project with one field changed is a project, with the same name.
LEMMA RowEdited ==
  ASSUME Row!EditsBounded, NEW p \in Row!Projects
  PROVE  /\ \A d \in Row!DateForms :
              LET q == [p EXCEPT !["start"] = d] IN
              q \in Row!Projects /\ q.id = p.id /\ q.country = p.country /\ q.zone = p.zone
         /\ \A d \in Row!DateForms :
              LET q == [p EXCEPT !["end"] = d] IN
              q \in Row!Projects /\ q.id = p.id /\ q.country = p.country /\ q.zone = p.zone
         /\ \A b \in 0 .. 1 : [p EXCEPT !["budget"] = b] \in Row!Projects
         /\ \A c \in Currencies : [p EXCEPT !["currency"] = c] \in Row!Projects
         /\ \A c \in Countries : [p EXCEPT !["country"] = c] \in Row!Projects
         /\ \A c \in Countries : \A z \in Row!supportedPolicies(c) :
              LET q == [p EXCEPT !.country = c, !.zone = z] IN
              q \in Row!Projects /\ q.id = p.id /\ q.country = c /\ q.zone = z
<1> DEFINE Z == UNION {Row!supportedPolicies(c) : c \in Countries}
<1>0. Row!Projects = [id : Files, start : Row!DateForms, end : Row!DateForms, budget : 0 .. 1,
                      currency : Currencies, country : Countries, zone : Z]
  BY DEF Row!Projects
<1> HIDE DEF Z
<1>1. ASSUME NEW d \in Row!DateForms
      PROVE  LET q == [p EXCEPT !["start"] = d] IN
             q \in Row!Projects /\ q.id = p.id /\ q.country = p.country /\ q.zone = p.zone
  BY <1>0
<1>2. ASSUME NEW d \in Row!DateForms
      PROVE  LET q == [p EXCEPT !["end"] = d] IN
             q \in Row!Projects /\ q.id = p.id /\ q.country = p.country /\ q.zone = p.zone
  BY <1>0
<1>3. ASSUME NEW b \in 0 .. 1 PROVE [p EXCEPT !["budget"] = b] \in Row!Projects  BY <1>0
<1>4. ASSUME NEW c \in Currencies PROVE [p EXCEPT !["currency"] = c] \in Row!Projects  BY <1>0
<1>5. ASSUME NEW c \in Countries PROVE [p EXCEPT !["country"] = c] \in Row!Projects  BY <1>0
<1>6. ASSUME NEW c \in Countries, NEW z \in Row!supportedPolicies(c)
      PROVE  LET q == [p EXCEPT !.country = c, !.zone = z] IN
             q \in Row!Projects /\ q.id = p.id /\ q.country = c /\ q.zone = z
  <2>1. z \in Z  BY DEF Z
  <2> QED  BY <1>0, <2>1
<1> QED  BY <1>1, <1>2, <1>3, <1>4, <1>5, <1>6

\* What UpdateProjectIndustry writes.
LEMMA RowReclassified ==
  ASSUME Row!EditsBounded, NEW p, RowOk(p), NEW c \in Countries PROVE RowOk(Row!Reclassified(p, c))
<1> DEFINE z == IF Row!ValidTimeZone(c, p.zone) THEN p.zone ELSE Row!DefaultTimeZone(c)
           q == [p EXCEPT !.country = c, !.zone = z]
<1>1. z \in Row!supportedPolicies(c)
  BY DEF Row!ValidTimeZone, Row!DefaultTimeZone, Row!supportedPolicies
<1>2. Row!Reclassified(p, c) = q  BY DEF Row!Reclassified
<1> HIDE DEF z
<1>p. p \in Row!Projects  BY DEF RowOk
<1>3. q \in Row!Projects /\ q.country = c /\ q.zone = z
  <2>1. [p EXCEPT !.country = c, !.zone = z] \in Row!Projects  BY <1>1, <1>p, RowEdited
  <2>2. q.country = c /\ q.zone = z  BY <1>p DEF Row!Projects
  <2> QED  BY <2>1, <2>2
<1> HIDE DEF q
<1> QED  BY <1>1, <1>2, <1>3 DEF RowOk, Row!ValidTimeZone

\* What MoveTimelineEntry writes: a row of the same file, or a sprint.
LEMMA RowMoved ==
  ASSUME Row!EditsBounded, NEW k, RowCallOk(k), k.op = "move"
  PROVE  /\ RowOk([k.p EXCEPT ![Row!Moved(k)] = k.date])
         /\ [k.p EXCEPT ![Row!Moved(k)] = k.date].id = k.db
         /\ [k.sp EXCEPT ![Row!Moved(k)] = k.date] \in RowRanges
<1> DEFINE p == k.p
           d == k.date
           sp == k.sp
<1>1. RowOk(p) /\ p \in Row!Projects /\ p.id = k.db /\ d \in Row!DateForms /\ sp \in RowRanges
  BY RowDates DEF RowCallOk, RowOk
<1>2. Row!Moved(k) = "start" \/ Row!Moved(k) = "end"  BY DEF Row!Moved
<1> HIDE DEF p, d, sp
<1>3. CASE Row!Moved(k) = "start"
  <2>1. LET q == [p EXCEPT !["start"] = d] IN
        q \in Row!Projects /\ q.id = p.id /\ q.country = p.country /\ q.zone = p.zone
    BY <1>1, RowEdited
  <2>2. [sp EXCEPT !["start"] = d] \in RowRanges  BY <1>1 DEF RowRanges
  <2>3. RowOk([p EXCEPT !["start"] = d])  BY <1>1, <2>1 DEF RowOk
  <2> QED  BY <1>1, <1>3, <2>1, <2>2, <2>3 DEF p, d, sp
<1>4. CASE Row!Moved(k) = "end"
  <2>1. LET q == [p EXCEPT !["end"] = d] IN
        q \in Row!Projects /\ q.id = p.id /\ q.country = p.country /\ q.zone = p.zone
    BY <1>1, RowEdited
  <2>2. [sp EXCEPT !["end"] = d] \in RowRanges  BY <1>1 DEF RowRanges
  <2>3. RowOk([p EXCEPT !["end"] = d])  BY <1>1, <2>1 DEF RowOk
  <2> QED  BY <1>1, <1>4, <2>1, <2>2, <2>3 DEF p, d, sp
<1> QED  BY <1>2, <1>3, <1>4

\* A range that passes the check is in order.
LEMMA RowInOrder ==
  ASSUME NEW a, NEW b, Row!validateTimelineDateRange(a, b), Row!Parses(a), Row!Parses(b)
  PROVE  a <= b
BY DEF Row!validateTimelineDateRange, Row!Parses, Row!Iso

\* A step that begins no rebuilding moves nothing.
LEMMA RowStays ==
  ASSUME RowInv,
         \/ rowCall' = rowCall
         \/ \E t \in Threads : \E k : k.op # "rebuild" /\ rowCall' = [rowCall EXCEPT ![t] = k]
  PROVE  Row!MovesInOrder
<1>1. \A t \in Threads : rowCall'[t] = rowCall[t] \/ rowCall'[t].op # "rebuild"  BY DEF RowInv
<1> QED  BY <1>1 DEF Row!MovesInOrder

LEMMA RowNext ==
  ASSUME Row!EditsBounded, RowInv, [Row!Next]_rowVars
  PROVE  RowInv' /\ Row!CurrencyKept /\ Row!MovesInOrder
<1>0. /\ sprint \in [Files -> RowRanges] /\ costs \in [Files -> BOOLEAN] /\ open \in Files
      /\ edits \in 0 .. MaxEdits /\ MaxEdits \in Nat /\ \A t \in Threads : RowCallOk(rowCall[t])
  BY DEF RowInv, Row!EditsBounded
<1>i. RowCallOk(Row!Idle) /\ Row!Idle.op = "idle"  BY DEF RowCallOk, Row!Idle
<1>e. edits < MaxEdits => edits + 1 \in 0 .. MaxEdits  BY <1>0
<1>1. CASE UNCHANGED rowVars  BY <1>0, <1>1, RowStep, RowStays DEF rowVars
<1>2. CASE Row!OpenProject
  BY <1>0, <1>2, <1>e, RowStep, RowStays DEF Row!OpenProject
<1>3. CASE Row!GetProjectMeta
  <2>1. RowOk(form') /\ UNCHANGED <<rowRows, sprint, costs, content, open, rowCall, answer, edits>>
    BY <1>0, <1>3, RowFirst DEF Row!GetProjectMeta
  <2> QED  BY <1>0, <2>1, RowStep, RowStays
<1>4. CASE Row!UpdateProjectMeta
  <2>1. /\ form # Row!NoForm /\ edits < MaxEdits /\ edits' = edits + 1
        /\ UNCHANGED <<sprint, costs, content, open, rowCall, answer>>
    BY <1>4 DEF Row!UpdateProjectMeta
  <2>2. form \in Row!Projects  BY <2>1 DEF RowInv, RowOk
  <2>3. PICK p \in {Row!projectFromMetaWire(form, "start", d) : d \in Written}
              \cup {Row!projectFromMetaWire(form, "end", d) : d \in Written}
              \cup {Row!projectFromMetaWire(form, "budget", b) : b \in 0 .. 1}
              \cup {Row!projectFromMetaWire(form, "currency", c) : c \in Currencies}
              \cup {[form EXCEPT !.country = c, !.zone = Row!DefaultTimeZone(c)] : c \in Countries}
              \cup {Row!projectFromMetaWire(form, "country", c) : c \in Countries} :
          Row!ValidTimeZone(p.country, p.zone) /\ Row!UpsertProject(open, p) /\ form' = p
    BY <1>4 DEF Row!UpdateProjectMeta
  <2>4. p \in Row!Projects
    <3>1. Written \subseteq Row!DateForms  BY DEF Row!DateForms
    <3>2. CASE p \in {Row!projectFromMetaWire(form, "start", d) : d \in Written}
      <4>1. PICK d \in Written : p = [form EXCEPT !["start"] = d]
        BY <3>2 DEF Row!projectFromMetaWire
      <4>2. [form EXCEPT !["start"] = d] \in Row!Projects  BY <2>2, <3>1, RowEdited
      <4> QED  BY <4>1, <4>2
    <3>3. CASE p \in {Row!projectFromMetaWire(form, "end", d) : d \in Written}
      <4>1. PICK d \in Written : p = [form EXCEPT !["end"] = d]
        BY <3>3 DEF Row!projectFromMetaWire
      <4>2. [form EXCEPT !["end"] = d] \in Row!Projects  BY <2>2, <3>1, RowEdited
      <4> QED  BY <4>1, <4>2
    <3>4. CASE p \in {Row!projectFromMetaWire(form, "budget", b) : b \in 0 .. 1}
      <4>1. PICK b \in 0 .. 1 : p = [form EXCEPT !["budget"] = b]
        BY <3>4 DEF Row!projectFromMetaWire
      <4>2. [form EXCEPT !["budget"] = b] \in Row!Projects  BY <2>2, RowEdited
      <4> QED  BY <4>1, <4>2
    <3>5. CASE p \in {Row!projectFromMetaWire(form, "currency", c) : c \in Currencies}
      <4>1. PICK c \in Currencies : p = [form EXCEPT !["currency"] = c]
        BY <3>5 DEF Row!projectFromMetaWire
      <4>2. [form EXCEPT !["currency"] = c] \in Row!Projects  BY <2>2, RowEdited
      <4> QED  BY <4>1, <4>2
    <3>6. CASE p \in {[form EXCEPT !.country = c, !.zone = Row!DefaultTimeZone(c)] : c \in Countries}
      <4>1. \A c \in Countries : Row!DefaultTimeZone(c) \in Row!supportedPolicies(c)
        BY DEF Row!DefaultTimeZone, Row!supportedPolicies
      <4>2. PICK c \in Countries : p = [form EXCEPT !.country = c, !.zone = Row!DefaultTimeZone(c)]
        BY <3>6
      <4>3. [form EXCEPT !.country = c, !.zone = Row!DefaultTimeZone(c)] \in Row!Projects
        BY <2>2, <4>1, RowEdited
      <4> QED  BY <4>2, <4>3
    <3>7. CASE p \in {Row!projectFromMetaWire(form, "country", c) : c \in Countries}
      <4>1. PICK c \in Countries : p = [form EXCEPT !["country"] = c]
        BY <3>7 DEF Row!projectFromMetaWire
      <4>2. [form EXCEPT !["country"] = c] \in Row!Projects  BY <2>2, RowEdited
      <4> QED  BY <4>1, <4>2
    <3> QED  BY <3>2, <3>3, <3>4, <3>5, <3>6, <3>7
  <2>5. RowOk(p)  BY <2>3, <2>4 DEF RowOk
  <2>6. /\ RowOk(form')
        /\ \E f \in Files, q \in Row!Projects : RowOk(q) /\ Row!UpsertProject(f, q)
    BY <1>0, <2>3, <2>4, <2>5
  <2> QED  BY <1>0, <1>e, <2>1, <2>6, RowStep, RowStays
<1>5. CASE Row!RecordCost
  <2>1. costs' \in [Files -> BOOLEAN]  BY <1>0, <1>5 DEF Row!RecordCost
  <2> QED  BY <1>0, <1>5, <1>e, <2>1, RowStep, RowStays DEF Row!RecordCost
<1>6. CASE Row!BuildTimeline
  BY <1>0, <1>6, RowStep, RowStays DEF Row!BuildTimeline
<1>7. ASSUME NEW t \in Threads, Row!Begin(t) PROVE RowInv' /\ Row!CurrencyKept /\ Row!MovesInOrder
  <2> DEFINE p == Row!GetProject(open)
             r == sprint[open]
  <2>1. RowOk(p) /\ p.id = open /\ r \in RowRanges  BY <1>0, RowFirst
  <2>2. /\ edits < MaxEdits /\ edits' = edits + 1
        /\ UNCHANGED <<rowRows, sprint, costs, content, open, form, answer>>
        /\ \/ \E c \in Countries :
                rowCall' = [rowCall EXCEPT ![t] =
                              [op |-> "industry", db |-> open, p |-> p, country |-> c]]
           \/ \E k \in Row!Boundaries, d \in Days :
                rowCall' = [rowCall EXCEPT ![t] = [op |-> "move", db |-> open, p |-> p, kind |-> k,
                                                   date |-> d, sp |-> r]]
    BY <1>7 DEF Row!Begin
  <2> HIDE DEF p, r
  <2>3. \E k : /\ RowCallOk(k) /\ k.op # "rebuild"
               /\ rowCall' = [rowCall EXCEPT ![t] = k]
    <3>1. ASSUME NEW c \in Countries
          PROVE  LET k == [op |-> "industry", db |-> open, p |-> p, country |-> c]
                 IN  RowCallOk(k) /\ k.op # "rebuild"
      BY <1>0, <2>1 DEF RowCallOk
    <3>2. ASSUME NEW b \in Row!Boundaries, NEW d \in Days
          PROVE  LET k == [op |-> "move", db |-> open, p |-> p, kind |-> b, date |-> d, sp |-> r]
                 IN  RowCallOk(k) /\ k.op # "rebuild"
      BY <1>0, <2>1 DEF RowCallOk
    <3> QED  BY <2>2, <3>1, <3>2
  <2> QED  BY <1>0, <1>e, <2>2, <2>3, RowStep, RowStays
<1>8. ASSUME NEW t \in Threads, Row!UpdateProjectIndustry(t)
      PROVE  RowInv' /\ Row!CurrencyKept /\ Row!MovesInOrder
  <2> DEFINE k == rowCall[t]
             q == Row!Reclassified(k.p, k.country)
  <2>1. /\ k.op = "industry" /\ Row!UpsertProject(k.db, q) /\ rowCall' = [rowCall EXCEPT ![t] = Row!Idle]
        /\ UNCHANGED <<sprint, costs, content, open, form, answer, edits>>
    BY <1>8 DEF Row!UpdateProjectIndustry
  <2>2. k.db \in Files /\ RowOk(k.p) /\ k.country \in Countries  BY <1>0, <2>1 DEF RowCallOk
  <2>3. RowOk(q)  BY <2>2, RowReclassified
  <2>4. q \in Row!Projects  BY <2>3 DEF RowOk
  <2> HIDE DEF k, q
  <2>5. \E f \in Files, p \in Row!Projects : RowOk(p) /\ Row!UpsertProject(f, p)
    BY <2>1, <2>2, <2>3, <2>4
  <2> QED  BY <1>0, <1>i, <2>1, <2>5, RowStep, RowStays
<1>9. ASSUME NEW t \in Threads, Row!MoveProject(t)
      PROVE  RowInv' /\ Row!CurrencyKept /\ Row!MovesInOrder
  <2> DEFINE k == rowCall[t]
             p == [k.p EXCEPT ![Row!Moved(k)] = k.date]
             n == [op |-> "rebuild", db |-> k.db]
  <2>1. /\ k.op = "move" /\ k.kind \in {"project_start", "project_end"}
        /\ Row!validateTimelineDateRange(p.start, p.end) /\ Row!UpsertProject(k.db, p)
        /\ rowCall' = [rowCall EXCEPT ![t] = n]
        /\ UNCHANGED <<sprint, costs, content, open, form, answer, edits>>
    BY <1>9 DEF Row!MoveProject
  <2>2. k.db \in Files /\ k.p.id = k.db  BY <1>0, <2>1 DEF RowCallOk
  <2>3. RowOk(p) /\ p.id = k.db  BY <1>0, <2>1, RowMoved
  <2>4. RowCallOk(n)  BY <2>2 DEF RowCallOk
  <2>5. p \in Row!Projects  BY <2>3 DEF RowOk
  <2> HIDE DEF p, n
  <2>6. RowInv' /\ Row!CurrencyKept
    <3>1. \E f \in Files, q \in Row!Projects : RowOk(q) /\ Row!UpsertProject(f, q)
      BY <2>1, <2>2, <2>3, <2>5
    <3> QED  BY <1>0, <2>1, <2>4, <3>1, RowStep
  <2>7. rowRows'[k.db][Row!RowOf(k.db, k.db)] = p  BY <2>1, <2>2, <2>3, RowUpserts
  <2>8. \A v \in Threads : v # t => rowCall'[v] = rowCall[v]  BY <2>1 DEF RowInv
  <2>9. ASSUME Row!Parses(p.start), Row!Parses(p.end) PROVE p.start <= p.end
    BY <2>1, <2>9, RowInOrder
  <2>10. Row!MovesInOrder  BY <2>1, <2>2, <2>7, <2>8, <2>9 DEF Row!MovesInOrder
  <2> QED  BY <2>6, <2>10
<1>10. ASSUME NEW t \in Threads, Row!MoveSprint(t)
       PROVE  RowInv' /\ Row!CurrencyKept /\ Row!MovesInOrder
  <2> DEFINE k == rowCall[t]
             r == [k.sp EXCEPT ![Row!Moved(k)] = k.date]
             n == [op |-> "rebuild", db |-> k.db]
  <2>1. /\ k.op = "move" /\ k.kind \in {"sprint_start", "sprint_end"}
        /\ Row!validateTimelineDateRange(r.start, r.end) /\ sprint' = [sprint EXCEPT ![k.db] = r]
        /\ rowCall' = [rowCall EXCEPT ![t] = n]
        /\ UNCHANGED <<rowRows, costs, content, open, form, answer, edits>>
    BY <1>10 DEF Row!MoveSprint
  <2>2. k.db \in Files  BY <1>0, <2>1 DEF RowCallOk
  <2>3. r \in RowRanges  BY <1>0, <2>1, RowMoved
  <2>4. RowCallOk(n)  BY <2>2 DEF RowCallOk
  <2> HIDE DEF r, n
  <2>5. sprint' \in [Files -> RowRanges] /\ sprint'[k.db] = r  BY <1>0, <2>1, <2>2, <2>3
  <2>6. RowInv' /\ Row!CurrencyKept  BY <1>0, <2>1, <2>4, <2>5, RowStep
  <2>8. \A v \in Threads : v # t => rowCall'[v] = rowCall[v]  BY <2>1 DEF RowInv
  <2>9. ASSUME Row!Parses(r.start), Row!Parses(r.end) PROVE r.start <= r.end
    BY <2>1, <2>9, RowInOrder
  <2>10. Row!MovesInOrder  BY <2>1, <2>5, <2>8, <2>9 DEF Row!MovesInOrder
  <2> QED  BY <2>6, <2>10
<1>11. ASSUME NEW t \in Threads, Row!Rebuild(t)
       PROVE  RowInv' /\ Row!CurrencyKept /\ Row!MovesInOrder
  <2>1. /\ rowCall[t].op = "rebuild" /\ answer' = Row!buildTimelineFromDB(rowCall[t].db)
        /\ rowCall' = [rowCall EXCEPT ![t] = Row!Idle]
        /\ UNCHANGED <<rowRows, sprint, costs, content, open, form, edits>>
    BY <1>11 DEF Row!Rebuild
  <2>2. rowCall[t].db \in Files  BY <1>0, <2>1 DEF RowCallOk
  <2> QED  BY <1>0, <1>i, <2>1, <2>2, RowStep, RowStays
<1>12. ASSUME NEW t \in Threads, Row!Refuse(t)
       PROVE  RowInv' /\ Row!CurrencyKept /\ Row!MovesInOrder
  <2>1. /\ rowCall' = [rowCall EXCEPT ![t] = Row!Idle]
        /\ UNCHANGED <<rowRows, sprint, costs, content, open, form, answer, edits>>
    BY <1>12 DEF Row!Refuse
  <2> QED  BY <1>0, <1>i, <2>1, RowStep, RowStays
<1> QED
  BY <1>1, <1>2, <1>3, <1>4, <1>5, <1>6, <1>7, <1>8, <1>9, <1>10, <1>11, <1>12 DEF Row!Next

LEMMA RowHolds ==
  ASSUME RowInv PROVE Row!TypeOK /\ Row!ZoneFits /\ Row!FirstRowStays /\ Row!AnswerSorted
<1>1. \A f \in Files : rowRows[f] \in Seq(Row!Projects) /\ rowRows[f] # <<>>
  BY DEF RowInv, RowTable
<1>2. form = Row!NoForm \/ form \in Row!Projects  BY DEF RowInv, RowOk
<1>3. \A t \in Threads : rowCall[t].op \in {"idle", "industry", "move", "rebuild"}
  BY DEF RowInv, RowCallOk
<1>4. \A f \in Files : sprint[f] \in [start : Row!DateForms, end : Row!DateForms]
  BY DEF RowInv, RowRanges
<1>5. Row!TypeOK  BY <1>1, <1>2, <1>3, <1>4 DEF RowInv, Row!TypeOK
<1>6. Row!ZoneFits  BY DEF RowInv, RowTable, RowOk, Row!ZoneFits
<1>7. Row!FirstRowStays  BY RowFirst DEF Row!FirstRowStays
<1> QED  BY <1>5, <1>6, <1>7 DEF RowInv

-----------------------------------------------------------------------------
(* Proofs: the rows that several calls write                                *)

\* UpsertProject, timeline.Build, SaveUserSettings, the tollgates, the board, SaveVendor and
\* AcknowledgeAccessNotices: rows stay consistent for any number of calls, files, windows,
\* items and versions, whichever of the calls wrote last.
THEOREM RowsStayConsistent == Spec => []RowsAgree
<1> DEFINE I == /\ part = "project row" => RowInv
                /\ part = "settings" => SettingsInv
                /\ part = "sigma" => SigmaInv
                /\ part = "board" => BoardInv
                /\ part = "catalog" => CatalogInv
                /\ part = "notices" => NoticeInv
<1>1. Init => I
  BY RowInit, SettingsInit, SigmaInit, BoardInit, CatalogInit, NoticeInit, PartsAssumption DEF Init
<1>2. I /\ [Next]_vars => I'
  <2> SUFFICES ASSUME I, [Next]_vars PROVE I'
    OBVIOUS
  <2>1. part' = part  BY DEF Next, vars
  <2>2. ASSUME part = "project row" PROVE RowInv'
    <3>1. [Row!Next]_rowVars /\ RowInv  BY <2>2 DEF Next, vars
    <3> QED  BY <3>1, RowNext, PartsAssumption
  <2>3. ASSUME part = "settings" PROVE SettingsInv'
    <3>1. [Settings!Next]_settingsVars /\ SettingsInv  BY <2>3 DEF Next, vars
    <3> QED  BY <3>1, SettingsNext, PartsAssumption
  <2>4. ASSUME part = "sigma" PROVE SigmaInv'
    <3>1. [Sigma!Next]_sigmaVars /\ SigmaInv  BY <2>4 DEF Next, vars
    <3> QED  BY <3>1, SigmaNext, PartsAssumption
  <2>5. ASSUME part = "board" PROVE BoardInv'
    <3>1. [Board!Next]_boardVars /\ BoardInv  BY <2>5 DEF Next, vars
    <3> QED  BY <3>1, BoardNext, PartsAssumption
  <2>6. ASSUME part = "catalog" PROVE CatalogInv'
    <3>1. [Catalog!Next]_catalogVars /\ CatalogInv  BY <2>6 DEF Next, vars
    <3> QED  BY <3>1, CatalogNext, PartsAssumption
  <2>7. ASSUME part = "notices" PROVE NoticeInv'
    <3>1. [Notices!Next]_noticeVars /\ NoticeInv  BY <2>7 DEF Next, vars
    <3> QED  BY <3>1, NoticeNext, PartsAssumption
  <2> QED  BY <2>1, <2>2, <2>3, <2>4, <2>5, <2>6, <2>7
<1>3. I => RowsAgree
  <2> SUFFICES ASSUME I PROVE RowsAgree
    OBVIOUS
  <2>1. RowInv => Row!TypeOK /\ Row!ZoneFits /\ Row!FirstRowStays /\ Row!AnswerSorted
    BY RowHolds
  <2>2. SettingsInv => Settings!TypeOK /\ Settings!RowConsistent /\ Settings!PackMeansSeeded
    BY SettingsHolds, PartsAssumption
  <2>3. SigmaInv => Sigma!TypeOK /\ Sigma!StatusAgreesWithGate  BY SigmaTypes, SigmaAgrees
  <2>4. BoardInv => Board!TypeOK /\ Board!BuiltInKept /\ Board!DoneIsStamped  BY DEF BoardInv
  <2>5. CatalogInv => Catalog!TypeOK /\ Catalog!NoLostSave /\ Catalog!OwnSaveCurrent
    BY CatalogTypes, PartsAssumption DEF CatalogInv
  <2>6. NoticeInv => Notices!TypeOK /\ Notices!UnseenStaysUnread /\ Notices!EachCountedOnce
    BY NoticeTypes DEF NoticeInv
  <2> QED  BY <2>1, <2>2, <2>3, <2>4, <2>5, <2>6 DEF RowsAgree
<1> QED  BY <1>1, <1>2, <1>3, PTL DEF Spec

\* UpsertProject, MoveTimelineEntry, the Six Sigma saves, DeleteColumn and DeleteSprint: no
\* step changes the currency of a project with costs, leaves a moved range the wrong way
\* round, writes a file that is not open, or strands an item.
THEOREM NoStepStrandsAnything == Spec => NoStepStrands
<1> DEFINE I == /\ part = "project row" => RowInv
                /\ part = "sigma" => SigmaInv
                /\ part = "board" => BoardInv
           A == /\ part = "project row" => Row!CurrencyKept /\ Row!MovesInOrder
                /\ part = "sigma" => Sigma!NoWriteBehind
                /\ part = "board" => Board!NothingStranded
<1>1. Init => I  BY RowInit, SigmaInit, BoardInit, PartsAssumption DEF Init
<1>2. I /\ [Next]_vars => I' /\ [A]_vars
  <2> SUFFICES ASSUME I, [Next]_vars PROVE I' /\ A
    OBVIOUS
  <2>1. part' = part  BY DEF Next, vars
  <2>2. ASSUME part = "project row" PROVE RowInv' /\ Row!CurrencyKept /\ Row!MovesInOrder
    <3>1. [Row!Next]_rowVars /\ RowInv  BY <2>2 DEF Next, vars
    <3> QED  BY <3>1, RowNext, PartsAssumption
  <2>3. ASSUME part = "sigma" PROVE SigmaInv' /\ Sigma!NoWriteBehind
    <3>1. [Sigma!Next]_sigmaVars /\ SigmaInv  BY <2>3 DEF Next, vars
    <3> QED  BY <3>1, SigmaNext, SigmaWritesOpen, PartsAssumption
  <2>4. ASSUME part = "board" PROVE BoardInv' /\ Board!NothingStranded
    <3>1. [Board!Next]_boardVars /\ BoardInv  BY <2>4 DEF Next, vars
    <3> QED  BY <3>1, BoardNext, BoardStrandsNothing, PartsAssumption
  <2> QED  BY <2>1, <2>2, <2>3, <2>4
<1> QED  BY <1>1, <1>2, PTL DEF Spec, NoStepStrands

-----------------------------------------------------------------------------
(* Proofs: scenarios                                                        *)

ScenarioEvents == [id : Peers, after : [there : BOOLEAN, active : BOOLEAN,
                                        source : Baselines \cup {Scenarios!None}]]

\* What a list of events says of a scenario: the latest one's state.
ScenarioAbout(A, s) == {i \in DOMAIN A : A[i].id = s}
ScenarioSays(A, s, v) ==
    \/ ScenarioAbout(A, s) = {} /\ v = Scenarios!NoScenario
    \/ \E m \in ScenarioAbout(A, s) : /\ \A i \in ScenarioAbout(A, s) : i <= m
                                      /\ v = A[m].after

ScenarioActive(s) == scenarios[s].there /\ scenarios[s].active

\* The inductive invariant: what a branching has read is of a scenario, and every copy that
\* is there belongs to one that is there.
ScenarioInv ==
    /\ Scenarios!TypeOK /\ scenarioAudit \in Seq(ScenarioEvents)
    /\ \A s, v \in Peers : ScenarioActive(s) /\ ScenarioActive(v) => s = v
    /\ \A s \in Peers : ScenarioSays(scenarioAudit, s, scenarios[s])
    /\ branch.at = "read" => branch.of \in Peers
    /\ \A c \in Copies : copies[c].there => copies[c].of \in Peers
    /\ Scenarios!CopiesOwned

\* An event more: it is the latest of its scenario, and of no other.
LEMMA ScenarioAppended ==
  ASSUME NEW A \in Seq(ScenarioEvents), NEW e \in ScenarioEvents
  PROVE  /\ Append(A, e) \in Seq(ScenarioEvents)
         /\ ScenarioSays(Append(A, e), e.id, e.after)
         /\ \A s, v : s # e.id /\ ScenarioSays(A, s, v) => ScenarioSays(Append(A, e), s, v)
<1> DEFINE B == Append(A, e)
           n == Len(A)
<1>1. /\ n \in Nat /\ B \in Seq(ScenarioEvents) /\ DOMAIN A = 1 .. n /\ DOMAIN B = 1 .. n + 1
      /\ B[n + 1] = e /\ \A i \in 1 .. n : B[i] = A[i]
  OBVIOUS
<1> HIDE DEF B, n
<1>2. ScenarioSays(B, e.id, e.after)
  <2>1. n + 1 \in ScenarioAbout(B, e.id)  BY <1>1 DEF ScenarioAbout
  <2>2. \A i \in ScenarioAbout(B, e.id) : i <= n + 1  BY <1>1 DEF ScenarioAbout
  <2> QED  BY <1>1, <2>1, <2>2 DEF ScenarioSays
<1>3. ASSUME NEW s, NEW v, s # e.id, ScenarioSays(A, s, v) PROVE ScenarioSays(B, s, v)
  <2>1. ScenarioAbout(B, s) = ScenarioAbout(A, s)
    <3>1. \A i \in DOMAIN B : B[i].id = s => i \in 1 .. n  BY <1>1, <1>3
    <3> QED  BY <1>1, <3>1 DEF ScenarioAbout
  <2>2. \A m \in ScenarioAbout(A, s) : B[m] = A[m]  BY <1>1 DEF ScenarioAbout
  <2> QED  BY <1>3, <2>1, <2>2 DEF ScenarioSays
<1> QED  BY <1>1, <1>2, <1>3 DEF B

\* The events of the scenarios in S, deactivated.
ScenarioDeactivations(S, after) ==
    [i \in DOMAIN Scenarios!SetToSeq(S) |->
        Scenarios!Event(Scenarios!SetToSeq(S)[i], after[Scenarios!SetToSeq(S)[i]])]

\* None is deactivated: no event.
LEMMA ScenarioNobody ==
  ASSUME NEW A \in Seq(ScenarioEvents), NEW S, NEW after, S = {}
  PROVE  A \o ScenarioDeactivations(S, after) = A
<1> DEFINE q == Scenarios!SetToSeq(S)
           es == [i \in DOMAIN q |-> Scenarios!Event(q[i], after[q[i]])]
<1>c. Scenarios!Cardinality(S) = Cardinality(S)  BY DEF Scenarios!Cardinality, Cardinality
<1>q. q = CHOOSE f \in [1 .. Cardinality(S) -> S] : Scenarios!IsInjective(f)
  BY <1>c DEF Scenarios!SetToSeq
<1>1. Cardinality(S) = 0  BY FS_EmptySet
<1> DEFINE f == [i \in 1 .. 0 |-> i]
<1>2. f \in [1 .. 0 -> S]  OBVIOUS
<1>3. Scenarios!IsInjective(f)  BY DEF Scenarios!IsInjective
<1> HIDE DEF f
<1>4. q \in [1 .. 0 -> S]  BY <1>q, <1>1, <1>2, <1>3
<1> HIDE DEF q
<1>5. DOMAIN es = 1 .. 0  BY <1>4
<1>6. es = <<>>  BY <1>5
<1> QED  BY <1>6 DEF ScenarioDeactivations, es, q

\* One is deactivated: its event.
LEMMA ScenarioOneOther ==
  ASSUME NEW A \in Seq(ScenarioEvents), NEW S, NEW after, NEW x, S = {x},
         Scenarios!Event(x, after[x]) \in ScenarioEvents
  PROVE  A \o ScenarioDeactivations(S, after) = Append(A, Scenarios!Event(x, after[x]))
<1> DEFINE q == Scenarios!SetToSeq(S)
           es == [i \in DOMAIN q |-> Scenarios!Event(q[i], after[q[i]])]
<1>c. Scenarios!Cardinality(S) = Cardinality(S)  BY DEF Scenarios!Cardinality, Cardinality
<1>q. q = CHOOSE f \in [1 .. Cardinality(S) -> S] : Scenarios!IsInjective(f)
  BY <1>c DEF Scenarios!SetToSeq
<1>1. Cardinality(S) = 1  BY FS_Singleton
<1> DEFINE f == [i \in 1 .. 1 |-> x]
<1>2. f \in [1 .. 1 -> S]  OBVIOUS
<1>3. Scenarios!IsInjective(f)  BY DEF Scenarios!IsInjective
<1> HIDE DEF f
<1>4. q \in [1 .. 1 -> S]  BY <1>q, <1>1, <1>2, <1>3
<1> HIDE DEF q
<1>5. DOMAIN es = 1 .. 1 /\ es[1] = Scenarios!Event(x, after[x])  BY <1>4
<1>6. es \in Seq(ScenarioEvents) /\ Len(es) = 1  BY <1>4, <1>5
<1> HIDE DEF es
<1>7. A \o es = Append(A, es[1])
  <2> DEFINE u == A \o es
             w == Append(A, es[1])
             n == Len(A)
  <2>0. n \in Nat /\ es[1] \in ScenarioEvents  BY <1>5
  <2>c. /\ A \o es \in Seq(ScenarioEvents) /\ Len(A \o es) = Len(A) + Len(es)
        /\ \A i \in 1 .. Len(A) + Len(es) :
             (A \o es)[i] = IF i <= Len(A) THEN A[i] ELSE es[i - Len(A)]
    BY <1>6, ConcatProperties
  <2> HIDE DEF u
  <2>u. u = A \o es  BY DEF u
  <2>1. /\ u \in Seq(ScenarioEvents) /\ Len(u) = n + 1
        /\ \A i \in 1 .. n : u[i] = A[i]
    BY <1>6, <2>0, <2>c, <2>u
  <2>2. u[n + 1] = es[1]  BY <1>6, <2>0, <2>c, <2>u
  <2>3. /\ w \in Seq(ScenarioEvents) /\ Len(w) = n + 1 /\ w[n + 1] = es[1]
        /\ \A i \in 1 .. n : w[i] = A[i]
    BY <1>6, <2>0
  <2> HIDE DEF u, w, n
  <2>4. \A i \in 1 .. n + 1 : u[i] = w[i]
    <3>1. \A i \in 1 .. n + 1 : i \in 1 .. n \/ i = n + 1  BY <2>0
    <3> QED  BY <2>1, <2>2, <2>3, <3>1
  <2>5. u = w  BY <2>1, <2>3, <2>4
  <2> QED  BY <2>5 DEF u, w
<1> QED  BY <1>5, <1>7 DEF ScenarioDeactivations, es, q

LEMMA ScenarioInit == ASSUME Scenarios!BoundsAssumption, Scenarios!Init PROVE ScenarioInv
<1>1. Scenarios!TypeOK
  BY DEF Scenarios!BoundsAssumption, Scenarios!Init, Scenarios!TypeOK, Scenarios!NoBaseline,
         Scenarios!NoScenario, Scenarios!NoCopy, Scenarios!NoBranch, Scenarios!Forms
<1>2. \A s \in Peers : scenarios[s] = Scenarios!NoScenario /\ scenarios[s].there = FALSE
  BY DEF Scenarios!Init, Scenarios!NoScenario
<1>3. \A s \in Peers : ScenarioSays(scenarioAudit, s, scenarios[s])
  <2>1. \A s \in Peers : ScenarioAbout(scenarioAudit, s) = {}  BY DEF Scenarios!Init, ScenarioAbout
  <2> QED  BY <1>2, <2>1 DEF ScenarioSays
<1>4. \A c \in Copies : copies[c].there = FALSE  BY DEF Scenarios!Init, Scenarios!NoCopy
<1>5. branch.at = "idle"  BY DEF Scenarios!Init, Scenarios!NoBranch
<1>6. scenarioAudit \in Seq(ScenarioEvents)  BY DEF Scenarios!Init
<1> QED
  BY <1>1, <1>2, <1>3, <1>4, <1>5, <1>6 DEF ScenarioInv, ScenarioActive, Scenarios!CopiesOwned

\* What a scenario's row may hold.
ScenarioRows == [there : BOOLEAN, active : BOOLEAN, source : Baselines \cup {Scenarios!None}]

LEMMA ScenarioSaved ==
  ASSUME ScenarioInv, NEW s \in Peers, NEW a \in BOOLEAN, NEW src \in Baselines \cup {Scenarios!None},
         Scenarios!SaveScenario(s, a, src), UNCHANGED <<chart, scenarioBaselines, copies, branch>>
  PROVE  ScenarioInv'
<1> DEFINE r == [there |-> TRUE, active |-> a, source |-> src]
           others == IF a THEN Scenarios!OthersActive(s) ELSE {}
           after == [x \in Peers |-> IF x = s THEN r
                                     ELSE IF x \in others THEN [scenarios[x] EXCEPT !.active = FALSE]
                                     ELSE scenarios[x]]
           A == scenarioAudit
           es == ScenarioDeactivations(others, after)
<1>0. /\ scenarios \in [Peers -> ScenarioRows] /\ A \in Seq(ScenarioEvents)
      /\ \A x, y \in Peers : ScenarioActive(x) /\ ScenarioActive(y) => x = y
      /\ \A x \in Peers : ScenarioSays(A, x, scenarios[x])
  BY DEF ScenarioInv, Scenarios!TypeOK, ScenarioRows
<1>1. scenarios' = after /\ scenarioAudit' = Append(A \o es, Scenarios!Event(s, r))
  BY DEF Scenarios!SaveScenario, ScenarioDeactivations
<1>2. r \in ScenarioRows /\ r.there = TRUE /\ r.active = a  BY DEF ScenarioRows
<1>3. others \subseteq Peers /\ s \notin others /\ \A x \in others : ScenarioActive(x)
  BY DEF Scenarios!OthersActive, ScenarioActive
<1>o. a => \A x \in Peers : x # s /\ ScenarioActive(x) => x \in others
  BY DEF Scenarios!OthersActive, ScenarioActive
<1> HIDE DEF r, others
<1>4. others = {} \/ \E x : others = {x}
  <2> SUFFICES ASSUME NEW x \in others PROVE others = {x}  OBVIOUS
  <2>1. \A y \in others : y = x  BY <1>0, <1>3
  <2> QED  BY <2>1
<1>5. \A x \in Peers : scenarios[x] \in ScenarioRows
                       /\ [scenarios[x] EXCEPT !.active = FALSE] \in ScenarioRows
                       /\ [scenarios[x] EXCEPT !.active = FALSE].active = FALSE
                       /\ [scenarios[x] EXCEPT !.active = FALSE].there = scenarios[x].there
  BY <1>0 DEF ScenarioRows
<1>6. after \in [Peers -> ScenarioRows]  BY <1>2, <1>5
<1>7. /\ after[s] = r
      /\ \A x \in Peers : x # s /\ x \notin others => after[x] = scenarios[x]
      /\ \A x \in others : after[x] = [scenarios[x] EXCEPT !.active = FALSE]
  BY <1>3
<1> HIDE DEF after
<1>8. \A x \in Peers : Scenarios!Event(x, after[x]) \in ScenarioEvents
                       /\ Scenarios!Event(x, after[x]).id = x
                       /\ Scenarios!Event(x, after[x]).after = after[x]
  BY <1>6 DEF Scenarios!Event, ScenarioEvents, ScenarioRows
<1>9. A \o es \in Seq(ScenarioEvents) /\ \A x \in Peers : x # s => ScenarioSays(A \o es, x, after[x])
  <2>1. CASE others = {}
    <3>1. A \o es = A  BY <1>0, <2>1, ScenarioNobody
    <3>2. \A x \in Peers : x # s => after[x] = scenarios[x]  BY <1>7, <2>1
    <3> HIDE DEF es
    <3> QED  BY <1>0, <3>1, <3>2
  <2>2. ASSUME NEW x, others = {x}
        PROVE  /\ A \o es \in Seq(ScenarioEvents)
               /\ \A y \in Peers : y # s => ScenarioSays(A \o es, y, after[y])
    <3>0. x \in Peers /\ x \in others  BY <1>3, <2>2
    <3>1. Scenarios!Event(x, after[x]) \in ScenarioEvents  BY <1>8, <3>0
    <3>2. A \o es = Append(A, Scenarios!Event(x, after[x]))  BY <1>0, <2>2, <3>1, ScenarioOneOther
    <3> HIDE DEF es
    <3>3. /\ Append(A, Scenarios!Event(x, after[x])) \in Seq(ScenarioEvents)
          /\ ScenarioSays(Append(A, Scenarios!Event(x, after[x])), x, after[x])
          /\ \A y, v : y # x /\ ScenarioSays(A, y, v)
                       => ScenarioSays(Append(A, Scenarios!Event(x, after[x])), y, v)
      <4> DEFINE e == Scenarios!Event(x, after[x])
      <4>1. e \in ScenarioEvents /\ e.id = x /\ e.after = after[x]  BY <1>8, <3>0
      <4> HIDE DEF e
      <4>2. /\ Append(A, e) \in Seq(ScenarioEvents) /\ ScenarioSays(Append(A, e), e.id, e.after)
            /\ \A y, v : y # e.id /\ ScenarioSays(A, y, v) => ScenarioSays(Append(A, e), y, v)
        BY <1>0, <4>1, ScenarioAppended
      <4> QED  BY <4>1, <4>2 DEF e
    <3>4. \A y \in Peers : y # s /\ y # x => after[y] = scenarios[y]  BY <1>7, <2>2
    <3> QED  BY <1>0, <3>2, <3>3, <3>4
  <2> QED  BY <1>4, <2>1, <2>2
<1>10. /\ scenarioAudit' \in Seq(ScenarioEvents)
       /\ \A x \in Peers : ScenarioSays(scenarioAudit', x, scenarios'[x])
  <2> DEFINE U == A \o es
             e == Scenarios!Event(s, r)
  <2>1. e \in ScenarioEvents /\ e.id = s /\ e.after = after[s]  BY <1>7, <1>8
  <2>2. U \in Seq(ScenarioEvents) /\ \A x \in Peers : x # s => ScenarioSays(U, x, after[x])  BY <1>9
  <2>3. scenarioAudit' = Append(U, e)  BY <1>1
  <2> HIDE DEF U, e
  <2>4. /\ Append(U, e) \in Seq(ScenarioEvents) /\ ScenarioSays(Append(U, e), e.id, e.after)
        /\ \A y, v : y # e.id /\ ScenarioSays(U, y, v) => ScenarioSays(Append(U, e), y, v)
    BY <2>1, <2>2, ScenarioAppended
  <2> QED  BY <1>1, <2>1, <2>2, <2>3, <2>4
<1>11. \A x, y \in Peers : ScenarioActive(x)' /\ ScenarioActive(y)' => x = y
  <2>1. \A x \in Peers : ScenarioActive(x)' <=> after[x].there /\ after[x].active
    BY <1>1 DEF ScenarioActive
  <2>2. \A x \in others : after[x].active = FALSE  BY <1>3, <1>5, <1>7
  <2>3. \A x \in Peers : x # s /\ ScenarioActive(x)' => ScenarioActive(x) /\ x \notin others
    BY <1>7, <2>1, <2>2 DEF ScenarioActive
  <2>4. CASE a = TRUE  BY <1>o, <2>3, <2>4
  <2>5. CASE a = FALSE
    <3>1. ~ScenarioActive(s)'  BY <1>2, <1>7, <2>1, <2>5
    <3> QED  BY <1>0, <2>3, <3>1
  <2> QED  BY <2>4, <2>5
<1>12. \A x \in Peers : scenarios[x].there => scenarios'[x].there
  BY <1>1, <1>2, <1>3, <1>5, <1>7
<1>13. Scenarios!TypeOK'
  <2>1. \A i \in DOMAIN scenarioAudit' : scenarioAudit'[i].id \in Peers
    <3>1. \A i \in DOMAIN scenarioAudit' : scenarioAudit'[i] \in ScenarioEvents  BY <1>10
    <3> QED  BY <3>1 DEF ScenarioEvents
  <2> QED  BY <1>1, <1>6, <2>1 DEF ScenarioInv, Scenarios!TypeOK, ScenarioRows
<1>14. Scenarios!CopiesOwned'  BY <1>12 DEF ScenarioInv, Scenarios!CopiesOwned
<1> QED  BY <1>10, <1>11, <1>13, <1>14 DEF ScenarioInv

\* A step that leaves the scenarios and their trail alone.
LEMMA ScenarioKept ==
  ASSUME ScenarioInv, scenarios' = scenarios, scenarioAudit' = scenarioAudit, Scenarios!TypeOK',
         (branch.at = "read" => branch.of \in Peers)',
         \A c \in Copies : copies'[c].there => /\ copies'[c].of \in Peers
                                               /\ scenarios[copies'[c].of].there
  PROVE  ScenarioInv'
BY DEF ScenarioInv, ScenarioActive, ScenarioSays, ScenarioAbout, Scenarios!CopiesOwned

LEMMA ScenarioDeleted ==
  ASSUME Scenarios!BoundsAssumption, ScenarioInv, NEW s \in Peers, Scenarios!DeleteScenario(s)
  PROVE  ScenarioInv'
<1> DEFINE e == Scenarios!Event(s, Scenarios!NoScenario)
           A == scenarioAudit
<1>0. /\ scenarios \in [Peers -> ScenarioRows] /\ A \in Seq(ScenarioEvents)
      /\ MaxChartEdits \in Nat
      /\ \A x, y \in Peers : ScenarioActive(x) /\ ScenarioActive(y) => x = y
      /\ \A x \in Peers : ScenarioSays(A, x, scenarios[x])
      /\ \A c \in Copies : copies[c].there => copies[c].of \in Peers /\ scenarios[copies[c].of].there
  BY DEF ScenarioInv, Scenarios!TypeOK, ScenarioRows, Scenarios!BoundsAssumption, Scenarios!CopiesOwned
<1>1. /\ scenarios' = [scenarios EXCEPT ![s] = Scenarios!NoScenario]
      /\ copies' = [c \in Copies |-> IF copies[c].of = s THEN Scenarios!NoCopy ELSE copies[c]]
      /\ scenarioAudit' = Append(A, e) /\ UNCHANGED <<chart, scenarioBaselines, branch>>
  BY DEF Scenarios!DeleteScenario
<1>2. Scenarios!NoScenario \in ScenarioRows /\ Scenarios!NoScenario.there = FALSE
  BY DEF Scenarios!NoScenario, ScenarioRows
<1>3. e \in ScenarioEvents /\ e.id = s /\ e.after = Scenarios!NoScenario
  BY <1>2 DEF Scenarios!Event, ScenarioEvents, ScenarioRows
<1> HIDE DEF e, A
<1>4. /\ scenarios' \in [Peers -> ScenarioRows] /\ scenarios'[s] = Scenarios!NoScenario
      /\ \A x \in Peers : x # s => scenarios'[x] = scenarios[x]
  BY <1>0, <1>1, <1>2
<1>5. /\ Append(A, e) \in Seq(ScenarioEvents) /\ ScenarioSays(Append(A, e), e.id, e.after)
      /\ \A y, v : y # e.id /\ ScenarioSays(A, y, v) => ScenarioSays(Append(A, e), y, v)
  BY <1>0, <1>3, ScenarioAppended
<1>6. \A x \in Peers : ScenarioSays(scenarioAudit', x, scenarios'[x])
  BY <1>0, <1>1, <1>3, <1>4, <1>5
<1>7. \A x \in Peers : ScenarioActive(x)' => ScenarioActive(x)
  BY <1>2, <1>4 DEF ScenarioActive
<1>8. Scenarios!NoCopy \in [there : BOOLEAN, of : Peers \cup {Scenarios!None}, edition : 0 .. MaxChartEdits,
                            base : Scenarios!Forms \cup {Scenarios!None}]
      /\ Scenarios!NoCopy.there = FALSE
  BY <1>0 DEF Scenarios!NoCopy
<1>9. \A c \in Copies : /\ copies[c].of = s => copies'[c] = Scenarios!NoCopy
                        /\ copies[c].of # s => copies'[c] = copies[c]
  BY <1>1
<1>10. \A c \in Copies : copies'[c].there => copies'[c].of \in Peers /\ scenarios'[copies'[c].of].there
  BY <1>0, <1>4, <1>8, <1>9
<1>11. Scenarios!TypeOK'
  <2>1. \A i \in DOMAIN scenarioAudit' : scenarioAudit'[i].id \in Peers
    <3>1. \A i \in DOMAIN scenarioAudit' : scenarioAudit'[i] \in ScenarioEvents  BY <1>1, <1>5
    <3> QED  BY <3>1 DEF ScenarioEvents
  <2>2. copies \in [Copies -> [there : BOOLEAN, of : Peers \cup {Scenarios!None}, edition : 0 .. MaxChartEdits,
                               base : Scenarios!Forms \cup {Scenarios!None}]]
    BY DEF ScenarioInv, Scenarios!TypeOK
  <2>3. copies' \in [Copies -> [there : BOOLEAN, of : Peers \cup {Scenarios!None}, edition : 0 .. MaxChartEdits,
                                base : Scenarios!Forms \cup {Scenarios!None}]]
    BY <1>1, <1>8, <2>2
  <2> QED  BY <1>1, <1>4, <2>1, <2>3 DEF ScenarioInv, Scenarios!TypeOK, ScenarioRows
<1>12. (branch.at = "read" => branch.of \in Peers)'  BY <1>1 DEF ScenarioInv
<1>13. \A x, y \in Peers : ScenarioActive(x)' /\ ScenarioActive(y)' => x = y  BY <1>0, <1>7
<1> QED
  BY <1>1, <1>5, <1>6, <1>10, <1>11, <1>12, <1>13 DEF ScenarioInv, Scenarios!CopiesOwned

LEMMA ScenarioNext ==
  ASSUME Scenarios!BoundsAssumption, ScenarioInv, Scenarios!Next PROVE ScenarioInv'
<1>0. /\ Scenarios!TypeOK /\ MaxChartEdits \in Nat \ {0}
      /\ branch.at = "read" => branch.of \in Peers
      /\ \A c \in Copies : copies[c].there => copies[c].of \in Peers /\ scenarios[copies[c].of].there
  BY DEF ScenarioInv, Scenarios!BoundsAssumption, Scenarios!CopiesOwned
<1>1. CASE Scenarios!EditChart
  <2>1. Scenarios!TypeOK'  BY <1>0, <1>1 DEF Scenarios!EditChart, Scenarios!TypeOK
  <2> QED  BY <1>0, <1>1, <2>1, ScenarioKept DEF Scenarios!EditChart
<1>2. CASE Scenarios!DeleteChart
  <2>1. Scenarios!TypeOK'
    BY <1>0, <1>2 DEF Scenarios!DeleteChart, Scenarios!TypeOK, Scenarios!NoBaseline, Scenarios!Forms
  <2> QED  BY <1>0, <1>2, <2>1, ScenarioKept DEF Scenarios!DeleteChart
<1>3. ASSUME Scenarios!SaveAnyScenario PROVE ScenarioInv'
  <2>1. PICK s \in Peers, a \in BOOLEAN, src \in Baselines \cup {Scenarios!None} :
           Scenarios!SaveScenario(s, a, src)
    BY <1>3 DEF Scenarios!SaveAnyScenario
  <2> QED  BY <1>3, <2>1, ScenarioSaved DEF Scenarios!SaveAnyScenario
<1>4. CASE Scenarios!BranchFail
  <2>1. Scenarios!TypeOK' /\ branch'.at = "idle"
    BY <1>0, <1>4 DEF Scenarios!BranchFail, Scenarios!TypeOK, Scenarios!NoBranch
  <2> QED  BY <1>0, <1>4, <2>1, ScenarioKept DEF Scenarios!BranchFail
<1>5. ASSUME NEW b \in Baselines, Scenarios!SetScheduleBaseline(b) PROVE ScenarioInv'
  <2>1. Scenarios!TypeOK'
    <3> DEFINE x == [there |-> TRUE, form |-> "tasks", edition |-> chart]
    <3>1. x \in [there : BOOLEAN, form : Scenarios!Forms, edition : 0 .. MaxChartEdits]
      BY <1>0 DEF Scenarios!TypeOK, Scenarios!Forms
    <3> HIDE DEF x
    <3>2. scenarioBaselines' = [scenarioBaselines EXCEPT ![b] = x]
      BY <1>5 DEF Scenarios!SetScheduleBaseline, x
    <3> QED  BY <1>0, <1>5, <3>1, <3>2 DEF Scenarios!SetScheduleBaseline, Scenarios!TypeOK
  <2> QED  BY <1>0, <1>5, <2>1, ScenarioKept DEF Scenarios!SetScheduleBaseline
<1>6. ASSUME NEW b \in Baselines, Scenarios!DeleteBaseline(b) PROVE ScenarioInv'
  <2>1. Scenarios!TypeOK'
    <3>1. Scenarios!NoBaseline \in [there : BOOLEAN, form : Scenarios!Forms, edition : 0 .. MaxChartEdits]
      BY <1>0 DEF Scenarios!NoBaseline, Scenarios!Forms
    <3> QED  BY <1>0, <1>6, <3>1 DEF Scenarios!DeleteBaseline, Scenarios!TypeOK
  <2> QED  BY <1>0, <1>6, <2>1, ScenarioKept DEF Scenarios!DeleteBaseline
<1>7. ASSUME NEW s \in Peers, Scenarios!DeleteScenario(s) PROVE ScenarioInv'
  BY <1>7, ScenarioDeleted
<1>8. ASSUME NEW s \in Peers, NEW b \in Baselines \cup {Scenarios!None}, Scenarios!BranchRead(s, b)
      PROVE  ScenarioInv'
  <2>1. PICK f \in Scenarios!Forms \cup {Scenarios!None} :
           branch' = [at |-> "read", of |-> s, edition |-> chart, base |-> f]
    BY <1>0, <1>8 DEF Scenarios!BranchRead, Scenarios!TypeOK
  <2>2. Scenarios!TypeOK'  BY <1>0, <1>8, <2>1 DEF Scenarios!BranchRead, Scenarios!TypeOK
  <2>3. branch'.of \in Peers  BY <2>1
  <2> QED  BY <1>0, <1>8, <2>2, <2>3, ScenarioKept DEF Scenarios!BranchRead
<1>9. ASSUME NEW c \in Copies, Scenarios!BranchWrite(c) PROVE ScenarioInv'
  <2> DEFINE x == [there |-> TRUE, of |-> branch.of, edition |-> branch.edition, base |-> branch.base]
  <2>1. /\ x \in [there : BOOLEAN, of : Peers \cup {Scenarios!None}, edition : 0 .. MaxChartEdits,
                  base : Scenarios!Forms \cup {Scenarios!None}]
        /\ x.of = branch.of /\ x.of \in Peers /\ scenarios[x.of].there
    BY <1>0, <1>9 DEF Scenarios!TypeOK, Scenarios!BranchWrite
  <2>2. copies' = [copies EXCEPT ![c] = x]  BY <1>9 DEF Scenarios!BranchWrite
  <2> HIDE DEF x
  <2>3. Scenarios!TypeOK' /\ branch'.at = "idle"
    BY <1>0, <1>9, <2>1, <2>2 DEF Scenarios!BranchWrite, Scenarios!TypeOK, Scenarios!NoBranch
  <2>4. \A k \in Copies : copies'[k] = IF k = c THEN x ELSE copies[k]
    BY <1>0, <2>2 DEF Scenarios!TypeOK
  <2>5. \A k \in Copies : copies'[k].there => copies'[k].of \in Peers /\ scenarios[copies'[k].of].there
    BY <1>0, <2>1, <2>4
  <2> QED  BY <1>0, <1>9, <2>3, <2>5, ScenarioKept DEF Scenarios!BranchWrite
<1>10. ASSUME NEW c \in Copies, Scenarios!SaveScenarioChart(c) PROVE ScenarioInv'
  <2>1. PICK e \in 1 .. MaxChartEdits : copies' = [copies EXCEPT ![c].edition = e]
    BY <1>10 DEF Scenarios!SaveScenarioChart
  <2> DEFINE x == [copies[c] EXCEPT !.edition = e]
  <2>2. /\ x \in [there : BOOLEAN, of : Peers \cup {Scenarios!None}, edition : 0 .. MaxChartEdits,
                  base : Scenarios!Forms \cup {Scenarios!None}]
        /\ x.of = copies[c].of /\ x.there = copies[c].there
    BY <1>0 DEF Scenarios!TypeOK
  <2>3. copies' = [copies EXCEPT ![c] = x]  BY <2>1
  <2> HIDE DEF x
  <2>4. Scenarios!TypeOK'
    BY <1>0, <1>10, <2>2, <2>3 DEF Scenarios!SaveScenarioChart, Scenarios!TypeOK
  <2>5. \A k \in Copies : copies'[k] = IF k = c THEN x ELSE copies[k]
    BY <1>0, <2>3 DEF Scenarios!TypeOK
  <2>6. \A k \in Copies : copies'[k].there => copies'[k].of \in Peers /\ scenarios[copies'[k].of].there
    BY <1>0, <2>2, <2>5
  <2> QED  BY <1>0, <1>10, <2>4, <2>6, ScenarioKept DEF Scenarios!SaveScenarioChart
<1>11. ASSUME NEW c \in Copies, NEW b \in Baselines, Scenarios!PromoteScenarioChartToBaseline(c, b)
       PROVE  ScenarioInv'
  <2> DEFINE x == [there |-> TRUE, form |-> "document", edition |-> copies[c].edition]
  <2>1. x \in [there : BOOLEAN, form : Scenarios!Forms, edition : 0 .. MaxChartEdits]
    BY <1>0 DEF Scenarios!TypeOK, Scenarios!Forms
  <2>2. scenarioBaselines' = [scenarioBaselines EXCEPT ![b] = x]
    BY <1>11 DEF Scenarios!PromoteScenarioChartToBaseline
  <2> HIDE DEF x
  <2>3. Scenarios!TypeOK'
    BY <1>0, <1>11, <2>1, <2>2 DEF Scenarios!PromoteScenarioChartToBaseline, Scenarios!TypeOK
  <2> QED  BY <1>0, <1>11, <2>3, ScenarioKept DEF Scenarios!PromoteScenarioChartToBaseline
<1> QED
  BY <1>1, <1>2, <1>3, <1>4, <1>5, <1>6, <1>7, <1>8, <1>9, <1>10, <1>11 DEF Scenarios!Next

\* The invariant says what the run checks.
LEMMA ScenarioHolds ==
  ASSUME ScenarioInv
  PROVE  /\ Scenarios!TypeOK /\ Scenarios!OneActive
         /\ Scenarios!ScenarioAuditReplays /\ Scenarios!CopiesOwned
<1>1. Scenarios!OneActive
  <2> DEFINE S == {s \in Peers : scenarios[s].there /\ scenarios[s].active}
  <2>1. S = {} \/ \E x : S = {x}
    <3> SUFFICES ASSUME NEW x \in S PROVE S = {x}  OBVIOUS
    <3>1. \A y \in S : y = x  BY DEF ScenarioInv, ScenarioActive
    <3> HIDE DEF S
    <3> QED  BY <3>1
  <2>2. Scenarios!Cardinality(S) = Cardinality(S)  BY DEF Scenarios!Cardinality, Cardinality
  <2>3. Scenarios!OneActive <=> Cardinality(S) <= 1  BY <2>2 DEF Scenarios!OneActive
  <2> HIDE DEF S
  <2>4. Cardinality(S) = 0 \/ Cardinality(S) = 1  BY <2>1, FS_EmptySet, FS_Singleton
  <2> QED  BY <2>3, <2>4
<1>2. Scenarios!ScenarioAuditReplays
  <2> SUFFICES ASSUME NEW s \in Peers
               PROVE  scenarios[s] = IF ScenarioAbout(scenarioAudit, s) = {} THEN Scenarios!NoScenario
                        ELSE scenarioAudit[Scenarios!Max(ScenarioAbout(scenarioAudit, s))].after
    BY DEF Scenarios!ScenarioAuditReplays, ScenarioAbout
  <2> DEFINE S == ScenarioAbout(scenarioAudit, s)
  <2>1. ScenarioSays(scenarioAudit, s, scenarios[s]) /\ scenarioAudit \in Seq(ScenarioEvents)
    BY DEF ScenarioInv
  <2>2. S \subseteq Nat  BY <2>1 DEF ScenarioAbout
  <2>3. CASE S = {}  BY <2>1, <2>3 DEF ScenarioSays
  <2>4. CASE S # {}
    <3>1. PICK m \in S : (\A i \in S : i <= m) /\ scenarios[s] = scenarioAudit[m].after
      BY <2>1, <2>4 DEF ScenarioSays
    <3> HIDE DEF S
    <3>2. Scenarios!Max(S) = m
      <4>1. \A k \in S : (\A i \in S : i <= k) => k = m  BY <2>2, <3>1
      <4> QED  BY <3>1, <4>1 DEF Scenarios!Max
    <3> QED  BY <2>4, <3>1, <3>2 DEF S
  <2> QED  BY <2>3, <2>4
<1> QED  BY <1>1, <1>2 DEF ScenarioInv

-----------------------------------------------------------------------------
(* Proofs: documents and charts                                             *)

RecordEvents == [type : {"save", "delete", "checkpoint", "baseline"}, id : Docs \cup RecordCharts,
                 after : Records!Document \cup Records!Chart]

\* What a list of events says of a record: the state of the latest that tells one.
RecordAbout(A, id) == {i \in DOMAIN A : A[i].id = id /\ A[i].type \in {"save", "delete"}}
RecordSays(A, id, v, none) ==
    \/ RecordAbout(A, id) = {} /\ v = none
    \/ \E m \in RecordAbout(A, id) : (\A i \in RecordAbout(A, id) : i <= m) /\ v = A[m].after

\* A checkpoint since which the document was approved.
RecordApproved(A, d) ==
    \E i \in DOMAIN A :
        /\ A[i].type = "checkpoint" /\ A[i].id = d
        /\ \A j \in RecordAbout(A, d) : j > i => A[j].after.there /\ A[j].after.status = "approved"

\* The tables: what is not there has no traces, what is there has a body, a version is
\* bounded by the events, and the bound on events holds.
RecordTables ==
    /\ docs \in [Docs -> Records!Document] /\ charts \in [RecordCharts -> Records!Chart]
    /\ \A d \in Docs : IF docs[d].there THEN docs[d].body \in Bodies /\ docs[d].version <= Len(audit)
                       ELSE docs[d] = Records!NoDoc
    /\ \A c \in RecordCharts : IF charts[c].there THEN charts[c].body \in Bodies
                               ELSE charts[c] = Records!NoChart
    /\ \A b \in baselines : b.chart \in RecordCharts /\ b.body \in Bodies /\ charts[b.chart].there
    /\ Len(audit) <= MaxRecords + 1

\* The trail says of every record what the tables hold.
RecordTrail ==
    /\ audit \in Seq(RecordEvents)
    /\ \A d \in Docs : RecordSays(audit, d, docs[d], Records!NoDoc)
    /\ \A d \in Docs : docs[d].there /\ docs[d].status = "approved" => RecordApproved(audit, d)
    /\ \A c \in RecordCharts : RecordSays(audit, c, charts[c], Records!NoChart)

\* What a call that has read may write, after n events.
RecordCall(x, n) ==
    /\ x.op \in Records!Ops
    /\ x.op = "saveDoc" => /\ x.id \in Docs /\ x.body \in Bodies /\ x.status \in {"draft", "approved"}
                           /\ x.version \in 0 .. n
    /\ x.op = "deleteDoc" => x.id \in Docs
    /\ x.op \in {"sync", "saveChart", "level", "histogram"} =>
           x.id \in RecordCharts /\ x.row \in Records!Chart /\ x.row.there /\ x.row.body \in Bodies
    /\ x.op = "deleteChart" => x.id \in RecordCharts
    /\ x.op = "baseline" => x.body \in Bodies

RecordCalls == DOMAIN call = Peers /\ \A p \in Peers : RecordCall(call[p], Len(audit))

RecordInv == RecordTables /\ RecordTrail /\ RecordCalls

\* An event more: what it says of its own record, and that it says nothing of the others.
LEMMA RecordAppended ==
  ASSUME NEW A \in Seq(RecordEvents), NEW e \in RecordEvents
  PROVE  /\ Append(A, e) \in Seq(RecordEvents) /\ Len(Append(A, e)) = Len(A) + 1
         /\ e.type \in {"save", "delete"} => \A none : RecordSays(Append(A, e), e.id, e.after, none)
         /\ \A id, v, none : /\ id # e.id \/ e.type \notin {"save", "delete"}
                             /\ RecordSays(A, id, v, none)
                             => RecordSays(Append(A, e), id, v, none)
         /\ \A d : /\ d # e.id \/ e.type \notin {"save", "delete"}
                      \/ (e.after.there /\ e.after.status = "approved")
                   /\ RecordApproved(A, d)
                   => RecordApproved(Append(A, e), d)
         /\ e.type = "checkpoint" => RecordApproved(Append(A, e), e.id)
<1> DEFINE B == Append(A, e)
           n == Len(A)
<1>1. /\ n \in Nat /\ B \in Seq(RecordEvents) /\ DOMAIN A = 1 .. n /\ DOMAIN B = 1 .. n + 1
      /\ B[n + 1] = e /\ (\A i \in 1 .. n : B[i] = A[i]) /\ Len(B) = n + 1
  OBVIOUS
<1> HIDE DEF B, n
<1>2. ASSUME e.type \in {"save", "delete"}, NEW none PROVE RecordSays(B, e.id, e.after, none)
  <2>1. n + 1 \in RecordAbout(B, e.id)  BY <1>1, <1>2 DEF RecordAbout
  <2>2. \A i \in RecordAbout(B, e.id) : i <= n + 1  BY <1>1 DEF RecordAbout
  <2> QED  BY <1>1, <2>1, <2>2 DEF RecordSays
<1>3. ASSUME NEW id, id # e.id \/ e.type \notin {"save", "delete"}
      PROVE  RecordAbout(B, id) = RecordAbout(A, id)
  <2>1. \A i \in DOMAIN B : B[i].id = id /\ B[i].type \in {"save", "delete"} => i \in 1 .. n
    BY <1>1, <1>3
  <2> QED  BY <1>1, <2>1 DEF RecordAbout
<1>4. \A id : \A m \in RecordAbout(A, id) : B[m] = A[m]  BY <1>1 DEF RecordAbout
<1>5. ASSUME NEW id, NEW v, NEW none, id # e.id \/ e.type \notin {"save", "delete"},
             RecordSays(A, id, v, none)
      PROVE  RecordSays(B, id, v, none)
  <2>1. RecordAbout(B, id) = RecordAbout(A, id)  BY <1>3, <1>5
  <2> QED  BY <1>4, <1>5, <2>1 DEF RecordSays
<1>6. ASSUME NEW d, RecordApproved(A, d),
             d # e.id \/ e.type \notin {"save", "delete"}
                      \/ (e.after.there /\ e.after.status = "approved")
      PROVE  RecordApproved(B, d)
  <2>1. PICK i \in DOMAIN A :
           /\ A[i].type = "checkpoint" /\ A[i].id = d
           /\ \A j \in RecordAbout(A, d) : j > i => A[j].after.there /\ A[j].after.status = "approved"
    BY <1>6 DEF RecordApproved
  <2>2. i \in DOMAIN B /\ B[i].type = "checkpoint" /\ B[i].id = d  BY <1>1, <2>1
  <2>3. ASSUME NEW j \in RecordAbout(B, d), j > i
        PROVE  B[j].after.there /\ B[j].after.status = "approved"
    <3>1. j \in 1 .. n \/ j = n + 1  BY <1>1 DEF RecordAbout
    <3>2. CASE j \in 1 .. n
      <4>1. B[j] = A[j] /\ j \in RecordAbout(A, d)  BY <1>1, <3>2 DEF RecordAbout
      <4> QED  BY <2>1, <2>3, <4>1
    <3>3. CASE j = n + 1
      <4>1. e.id = d /\ e.type \in {"save", "delete"}  BY <1>1, <3>3 DEF RecordAbout
      <4> QED  BY <1>1, <1>6, <3>3, <4>1
    <3> QED  BY <3>1, <3>2, <3>3
  <2> QED  BY <2>2, <2>3 DEF RecordApproved
<1>7. ASSUME e.type = "checkpoint" PROVE RecordApproved(B, e.id)
  <2>1. \A j \in RecordAbout(B, e.id) : ~(j > n + 1)  BY <1>1 DEF RecordAbout
  <2> QED  BY <1>1, <1>7, <2>1 DEF RecordApproved
<1> QED  BY <1>1, <1>2, <1>5, <1>6, <1>7 DEF B, n

LEMMA RecordInit == ASSUME Records!ConstantsAssumption, Records!Init PROVE RecordInv
<1>1. /\ Records!NoDoc \in Records!Document /\ Records!NoDoc.there = FALSE
      /\ Records!NoChart \in Records!Chart /\ Records!NoChart.there = FALSE
  BY DEF Records!ConstantsAssumption, Records!NoDoc, Records!NoChart, Records!Document, Records!Chart,
         Records!Statuses
<1>2. /\ docs = [d \in Docs |-> Records!NoDoc] /\ charts = [c \in RecordCharts |-> Records!NoChart]
      /\ baselines = {} /\ audit = <<>> /\ call = [p \in Peers |-> Records!Idle]
  BY DEF Records!Init
<1>3. Len(audit) = 0 /\ MaxRecords \in Nat /\ audit \in Seq(RecordEvents)
  BY <1>2 DEF Records!ConstantsAssumption
<1>4. RecordTables  BY <1>1, <1>2, <1>3 DEF RecordTables
<1>5. \A id : RecordAbout(audit, id) = {}  BY <1>2 DEF RecordAbout
<1>6. RecordTrail  BY <1>1, <1>2, <1>3, <1>5 DEF RecordTrail, RecordSays
<1>7. RecordCall(Records!Idle, 0)  BY DEF RecordCall, Records!Idle, Records!Ops
<1>8. RecordCalls  BY <1>2, <1>3, <1>7 DEF RecordCalls
<1> QED  BY <1>4, <1>6, <1>8 DEF RecordInv

\* What a call may write stays so as the trail grows.
LEMMA RecordCallLater ==
  ASSUME NEW x, NEW m \in Nat, NEW n \in Nat, m <= n, RecordCall(x, m) PROVE RecordCall(x, n)
BY DEF RecordCall

\* A call is given its next state while the trail grows or stays.
LEMMA RecordCallStep ==
  ASSUME RecordCalls, NEW p \in Peers, NEW x, call' = [call EXCEPT ![p] = x],
         Len(audit) \in Nat, Len(audit') \in Nat, Len(audit) <= Len(audit'), RecordCall(x, Len(audit'))
  PROVE  RecordCalls'
<1>1. DOMAIN call' = Peers /\ call'[p] = x /\ \A q \in Peers : q # p => call'[q] = call[q]
  BY DEF RecordCalls
<1>2. \A q \in Peers : q # p => RecordCall(call[q], Len(audit'))
  BY RecordCallLater DEF RecordCalls
<1>3. \A q \in Peers : RecordCall(call'[q], Len(audit'))  BY <1>1, <1>2
<1> QED  BY <1>1, <1>3 DEF RecordCalls

LEMMA RecordCallsKept ==
  ASSUME RecordCalls, call' = call, Len(audit) \in Nat, Len(audit') \in Nat, Len(audit) <= Len(audit')
  PROVE  RecordCalls'
<1>1. \A q \in Peers : RecordCall(call[q], Len(audit'))  BY RecordCallLater DEF RecordCalls
<1> QED  BY <1>1 DEF RecordCalls

\* A step that only reads.
LEMMA RecordRead ==
  ASSUME RecordInv, NEW p \in Peers, NEW x, call' = [call EXCEPT ![p] = x], RecordCall(x, Len(audit)),
         UNCHANGED <<docs, charts, baselines, audit>>
  PROVE  RecordInv'
<1>1. Len(audit) \in Nat  BY DEF RecordInv, RecordTrail
<1>2. RecordCalls'
  <2>1. RecordCalls /\ audit' = audit  BY DEF RecordInv
  <2>2. Len(audit') \in Nat /\ Len(audit) <= Len(audit') /\ RecordCall(x, Len(audit'))  BY <1>1, <2>1
  <2> QED  BY <1>1, <2>1, <2>2, RecordCallStep
<1>3. RecordTables' /\ RecordTrail'  BY DEF RecordInv, RecordTables, RecordTrail
<1> QED  BY <1>2, <1>3 DEF RecordInv

\* SaveDocument's transaction.
LEMMA RecordDocumentWritten ==
  ASSUME Records!ConstantsAssumption, RecordTables, RecordTrail, Len(audit) < MaxRecords,
         NEW d \in Docs, NEW b \in Bodies, NEW s \in {"draft", "approved"}, NEW k \in 0 .. Len(audit) + 1,
         Records!WriteDocument(d, b, s, k), UNCHANGED <<charts, baselines>>
  PROVE  RecordTables' /\ RecordTrail' /\ Len(audit') \in Nat /\ Len(audit) <= Len(audit')
<1> DEFINE v == IF docs[d].there THEN docs[d].version + 1 ELSE k
           after == [there |-> TRUE, body |-> b, status |-> s, version |-> v]
           saved == [type |-> "save", id |-> d, after |-> after]
           check == [saved EXCEPT !.type = "checkpoint"]
           A == Append(audit, saved)
           B == Append(A, check)
<1>0. /\ audit \in Seq(RecordEvents) /\ Len(audit) \in Nat /\ MaxRecords \in Nat
      /\ docs \in [Docs -> Records!Document] /\ Docs \cap RecordCharts = {}
      /\ \A x \in Docs : RecordSays(audit, x, docs[x], Records!NoDoc)
      /\ \A x \in Docs : docs[x].there /\ docs[x].status = "approved" => RecordApproved(audit, x)
      /\ \A c \in RecordCharts : RecordSays(audit, c, charts[c], Records!NoChart)
  BY DEF RecordTables, RecordTrail, Records!ConstantsAssumption
<1>1. /\ docs' = [docs EXCEPT ![d] = after]
      /\ audit' = IF s = "approved" /\ (~docs[d].there \/ docs[d].status # "approved") THEN B ELSE A
  BY DEF Records!WriteDocument
<1>2. v \in 0 .. MaxRecords /\ v <= Len(audit) + 1
  <2>1. docs[d].there => docs[d].version <= Len(audit) /\ docs[d].version \in Nat
    BY <1>0 DEF RecordTables, Records!Document
  <2> QED  BY <1>0, <2>1
<1> HIDE DEF v
<1>3. /\ after \in Records!Document /\ after.there = TRUE /\ after.body = b /\ after.status = s
      /\ after.version = v
  BY <1>2 DEF Records!Document, Records!Statuses
<1> HIDE DEF after
<1>4. saved \in RecordEvents /\ saved.type = "save" /\ saved.id = d /\ saved.after = after
  BY <1>3 DEF RecordEvents
<1>5. check \in RecordEvents /\ check.type = "checkpoint" /\ check.id = d
  BY <1>3 DEF RecordEvents
<1> HIDE DEF saved, check
<1>6. /\ A \in Seq(RecordEvents) /\ Len(A) = Len(audit) + 1
      /\ RecordSays(A, d, after, Records!NoDoc)
      /\ \A id, w, none : id # d /\ RecordSays(audit, id, w, none) => RecordSays(A, id, w, none)
      /\ \A x : x # d /\ RecordApproved(audit, x) => RecordApproved(A, x)
      /\ s = "approved" /\ RecordApproved(audit, d) => RecordApproved(A, d)
  BY <1>0, <1>3, <1>4, RecordAppended
<1> HIDE DEF A
<1>7. /\ B \in Seq(RecordEvents) /\ Len(B) = Len(A) + 1
      /\ \A id, w, none : RecordSays(A, id, w, none) => RecordSays(B, id, w, none)
      /\ \A x : RecordApproved(A, x) => RecordApproved(B, x)
      /\ RecordApproved(B, d)
  BY <1>5, <1>6, RecordAppended
<1> HIDE DEF B
<1>8. /\ docs' \in [Docs -> Records!Document] /\ docs'[d] = after
      /\ \A x \in Docs : x # d => docs'[x] = docs[x]
  BY <1>0, <1>1, <1>3
<1>9. /\ audit' \in Seq(RecordEvents) /\ Len(audit') \in Nat /\ Len(audit) + 1 <= Len(audit')
      /\ Len(audit') <= MaxRecords + 1
      /\ RecordSays(audit', d, after, Records!NoDoc)
      /\ \A id, w, none : id # d /\ RecordSays(audit, id, w, none) => RecordSays(audit', id, w, none)
      /\ \A x : x # d /\ RecordApproved(audit, x) => RecordApproved(audit', x)
      /\ s = "approved" => RecordApproved(audit', d)
  <2>1. CASE s = "approved" /\ (~docs[d].there \/ docs[d].status # "approved")
    <3>1. audit' = B  BY <1>1, <2>1
    <3> QED  BY <1>0, <1>6, <1>7, <3>1
  <2>2. CASE ~(s = "approved" /\ (~docs[d].there \/ docs[d].status # "approved"))
    <3>1. audit' = A  BY <1>1, <2>2
    <3>2. s = "approved" => RecordApproved(audit, d)  BY <1>0, <2>2
    <3> QED  BY <1>0, <1>6, <3>1, <3>2
  <2> QED  BY <2>1, <2>2
<1>10. RecordTrail'
  <2>1. \A x \in Docs : RecordSays(audit', x, docs'[x], Records!NoDoc)  BY <1>0, <1>8, <1>9
  <2>2. \A x \in Docs : docs'[x].there /\ docs'[x].status = "approved" => RecordApproved(audit', x)
    BY <1>0, <1>3, <1>8, <1>9
  <2>3. \A c \in RecordCharts : RecordSays(audit', c, charts'[c], Records!NoChart)
    BY <1>0, <1>9
  <2> QED  BY <1>9, <2>1, <2>2, <2>3 DEF RecordTrail
<1>11. RecordTables'
  <2>1. \A x \in Docs : docs[x].there => docs[x].version \in Nat  BY <1>0 DEF Records!Document
  <2>2. \A x \in Docs : IF docs'[x].there THEN docs'[x].body \in Bodies /\ docs'[x].version <= Len(audit')
                        ELSE docs'[x] = Records!NoDoc
    <3>1. docs'[d].there = TRUE /\ docs'[d].body \in Bodies /\ docs'[d].version <= Len(audit')
      BY <1>0, <1>2, <1>3, <1>8, <1>9
    <3>2. ASSUME NEW x \in Docs, x # d
          PROVE  IF docs'[x].there THEN docs'[x].body \in Bodies /\ docs'[x].version <= Len(audit')
                 ELSE docs'[x] = Records!NoDoc
      <4>1. docs'[x] = docs[x]  BY <1>8, <3>2
      <4>2. IF docs[x].there THEN docs[x].body \in Bodies /\ docs[x].version <= Len(audit)
            ELSE docs[x] = Records!NoDoc
        BY DEF RecordTables
      <4> QED  BY <1>0, <1>9, <2>1, <4>1, <4>2
    <3> QED  BY <3>1, <3>2
  <2> QED  BY <1>8, <1>9, <2>2 DEF RecordTables
<1> QED  BY <1>0, <1>9, <1>10, <1>11

\* SaveChart's transaction.
LEMMA RecordChartWritten ==
  ASSUME Records!ConstantsAssumption, RecordTables, RecordTrail, Len(audit) < MaxRecords,
         NEW c \in RecordCharts, NEW r \in Records!Chart, r.there, r.body \in Bodies,
         Records!WriteChart(c, r), UNCHANGED <<docs, baselines>>
  PROVE  RecordTables' /\ RecordTrail' /\ Len(audit') \in Nat /\ Len(audit) <= Len(audit')
<1> DEFINE e == [type |-> "save", id |-> c, after |-> r]
           A == Append(audit, e)
<1>0. /\ audit \in Seq(RecordEvents) /\ Len(audit) \in Nat /\ MaxRecords \in Nat
      /\ charts \in [RecordCharts -> Records!Chart] /\ docs \in [Docs -> Records!Document]
      /\ Docs \cap RecordCharts = {}
      /\ \A x \in Docs : RecordSays(audit, x, docs[x], Records!NoDoc)
      /\ \A x \in Docs : docs[x].there /\ docs[x].status = "approved" => RecordApproved(audit, x)
      /\ \A x \in RecordCharts : RecordSays(audit, x, charts[x], Records!NoChart)
  BY DEF RecordTables, RecordTrail, Records!ConstantsAssumption
<1>1. charts' = [charts EXCEPT ![c] = r] /\ audit' = A  BY DEF Records!WriteChart, Records!Log
<1>2. e \in RecordEvents /\ e.type = "save" /\ e.id = c /\ e.after = r  BY DEF RecordEvents
<1> HIDE DEF e
<1>3. /\ A \in Seq(RecordEvents) /\ Len(A) = Len(audit) + 1
      /\ RecordSays(A, c, r, Records!NoChart)
      /\ \A id, w, none : id # c /\ RecordSays(audit, id, w, none) => RecordSays(A, id, w, none)
      /\ \A x : x # c /\ RecordApproved(audit, x) => RecordApproved(A, x)
  BY <1>0, <1>2, RecordAppended
<1> HIDE DEF A
<1>4. /\ charts' \in [RecordCharts -> Records!Chart] /\ charts'[c] = r
      /\ \A x \in RecordCharts : x # c => charts'[x] = charts[x]
  BY <1>0, <1>1
<1>5. RecordTrail'
  <2>1. \A x \in Docs : RecordSays(audit', x, docs'[x], Records!NoDoc)  BY <1>0, <1>1, <1>3
  <2>2. \A x \in Docs : docs'[x].there /\ docs'[x].status = "approved" => RecordApproved(audit', x)
    BY <1>0, <1>1, <1>3
  <2>3. \A x \in RecordCharts : RecordSays(audit', x, charts'[x], Records!NoChart)
    BY <1>0, <1>1, <1>3, <1>4
  <2> QED  BY <1>1, <1>3, <2>1, <2>2, <2>3 DEF RecordTrail
<1>6. RecordTables'
  <2>1. \A x \in Docs : IF docs'[x].there THEN docs'[x].body \in Bodies /\ docs'[x].version <= Len(audit')
                        ELSE docs'[x] = Records!NoDoc
    <3>1. \A x \in Docs : docs[x].version \in Nat  BY <1>0 DEF Records!Document
    <3>2. \A x \in Docs : IF docs[x].there THEN docs[x].body \in Bodies /\ docs[x].version <= Len(audit)
                          ELSE docs[x] = Records!NoDoc
      BY DEF RecordTables
    <3>3. docs' = docs /\ Len(audit') = Len(audit) + 1  BY <1>1, <1>3
    <3> QED  BY <1>0, <3>1, <3>2, <3>3
  <2>2. \A x \in RecordCharts : IF charts'[x].there THEN charts'[x].body \in Bodies
                                ELSE charts'[x] = Records!NoChart
    BY <1>4 DEF RecordTables
  <2>3. \A b \in baselines' : b.chart \in RecordCharts /\ b.body \in Bodies /\ charts'[b.chart].there
    BY <1>4 DEF RecordTables
  <2>4. Len(audit') <= MaxRecords + 1  BY <1>0, <1>1, <1>3
  <2>5. docs' \in [Docs -> Records!Document]  BY <1>0
  <2> QED  BY <1>4, <2>1, <2>2, <2>3, <2>4, <2>5 DEF RecordTables
<1> QED  BY <1>0, <1>1, <1>3, <1>5, <1>6

\* DeleteDocument's transaction.
LEMMA RecordDocumentDeleted ==
  ASSUME Records!ConstantsAssumption, RecordTables, RecordTrail, Len(audit) < MaxRecords,
         NEW d \in Docs, docs' = [docs EXCEPT ![d] = Records!NoDoc],
         IF docs[d].there THEN Records!Log("delete", d, Records!NoDoc) ELSE UNCHANGED audit,
         UNCHANGED <<charts, baselines>>
  PROVE  RecordTables' /\ RecordTrail' /\ Len(audit') \in Nat /\ Len(audit) <= Len(audit')
<1> DEFINE e == [type |-> "delete", id |-> d, after |-> Records!NoDoc]
           A == Append(audit, e)
<1>0. /\ audit \in Seq(RecordEvents) /\ Len(audit) \in Nat /\ MaxRecords \in Nat
      /\ docs \in [Docs -> Records!Document] /\ Docs \cap RecordCharts = {}
      /\ \A x \in Docs : RecordSays(audit, x, docs[x], Records!NoDoc)
      /\ \A x \in Docs : docs[x].there /\ docs[x].status = "approved" => RecordApproved(audit, x)
      /\ \A x \in RecordCharts : RecordSays(audit, x, charts[x], Records!NoChart)
      /\ \A x \in Docs : docs[x].version \in Nat
      /\ \A x \in Docs : IF docs[x].there THEN docs[x].body \in Bodies /\ docs[x].version <= Len(audit)
                         ELSE docs[x] = Records!NoDoc
  BY DEF RecordTables, RecordTrail, Records!ConstantsAssumption, Records!Document
<1>1. Records!NoDoc \in Records!Document /\ Records!NoDoc.there = FALSE
  BY <1>0 DEF Records!NoDoc, Records!Document, Records!Statuses
<1>2. e \in RecordEvents /\ e.type = "delete" /\ e.id = d /\ e.after = Records!NoDoc
  BY <1>1 DEF RecordEvents
<1>3. docs[d].there => audit' = A  BY DEF Records!Log
<1> HIDE DEF e
<1>4. /\ A \in Seq(RecordEvents) /\ Len(A) = Len(audit) + 1
      /\ RecordSays(A, d, Records!NoDoc, Records!NoDoc)
      /\ \A id, w, none : id # d /\ RecordSays(audit, id, w, none) => RecordSays(A, id, w, none)
      /\ \A x : x # d /\ RecordApproved(audit, x) => RecordApproved(A, x)
  BY <1>0, <1>2, RecordAppended
<1> HIDE DEF A
<1>5. /\ docs' \in [Docs -> Records!Document] /\ docs'[d] = Records!NoDoc
      /\ \A x \in Docs : x # d => docs'[x] = docs[x]
  BY <1>0, <1>1
<1>6. /\ audit' \in Seq(RecordEvents) /\ Len(audit') \in Nat /\ Len(audit) <= Len(audit')
      /\ Len(audit') <= MaxRecords + 1
      /\ RecordSays(audit', d, Records!NoDoc, Records!NoDoc)
      /\ \A id, w, none : id # d /\ RecordSays(audit, id, w, none) => RecordSays(audit', id, w, none)
      /\ \A x : x # d /\ RecordApproved(audit, x) => RecordApproved(audit', x)
  <2>1. CASE docs[d].there  BY <1>0, <1>3, <1>4, <2>1
  <2>2. CASE ~docs[d].there
    <3>1. audit' = audit /\ docs[d] = Records!NoDoc  BY <1>0, <2>2
    <3> QED  BY <1>0, <3>1
  <2> QED  BY <2>1, <2>2
<1>7. RecordTrail'
  <2>1. \A x \in Docs : RecordSays(audit', x, docs'[x], Records!NoDoc)  BY <1>0, <1>5, <1>6
  <2>2. \A x \in Docs : docs'[x].there /\ docs'[x].status = "approved" => RecordApproved(audit', x)
    BY <1>0, <1>1, <1>5, <1>6
  <2>3. \A x \in RecordCharts : RecordSays(audit', x, charts'[x], Records!NoChart)  BY <1>0, <1>6
  <2> QED  BY <1>6, <2>1, <2>2, <2>3 DEF RecordTrail
<1>8. \A x \in Docs : IF docs'[x].there THEN docs'[x].body \in Bodies /\ docs'[x].version <= Len(audit')
                      ELSE docs'[x] = Records!NoDoc
  BY <1>0, <1>1, <1>5, <1>6
<1>9. RecordTables'  BY <1>5, <1>6, <1>8 DEF RecordTables
<1> QED  BY <1>6, <1>7, <1>9

\* DeleteChart's transaction, with the cascade.
LEMMA RecordChartDeleted ==
  ASSUME Records!ConstantsAssumption, RecordTables, RecordTrail, Len(audit) < MaxRecords,
         NEW c \in RecordCharts, charts' = [charts EXCEPT ![c] = Records!NoChart],
         baselines' = {b \in baselines : b.chart # c},
         IF charts[c].there THEN Records!Log("delete", c, Records!NoChart) ELSE UNCHANGED audit,
         UNCHANGED docs
  PROVE  RecordTables' /\ RecordTrail' /\ Len(audit') \in Nat /\ Len(audit) <= Len(audit')
<1> DEFINE e == [type |-> "delete", id |-> c, after |-> Records!NoChart]
           A == Append(audit, e)
<1>0. /\ audit \in Seq(RecordEvents) /\ Len(audit) \in Nat /\ MaxRecords \in Nat
      /\ charts \in [RecordCharts -> Records!Chart] /\ docs \in [Docs -> Records!Document]
      /\ Docs \cap RecordCharts = {}
      /\ \A x \in Docs : RecordSays(audit, x, docs[x], Records!NoDoc)
      /\ \A x \in Docs : docs[x].there /\ docs[x].status = "approved" => RecordApproved(audit, x)
      /\ \A x \in RecordCharts : RecordSays(audit, x, charts[x], Records!NoChart)
      /\ \A x \in Docs : docs[x].version \in Nat
      /\ \A x \in Docs : IF docs[x].there THEN docs[x].body \in Bodies /\ docs[x].version <= Len(audit)
                         ELSE docs[x] = Records!NoDoc
      /\ \A x \in RecordCharts : IF charts[x].there THEN charts[x].body \in Bodies
                                 ELSE charts[x] = Records!NoChart
  BY DEF RecordTables, RecordTrail, Records!ConstantsAssumption, Records!Document
<1>1. Records!NoChart \in Records!Chart /\ Records!NoChart.there = FALSE
  BY DEF Records!NoChart, Records!Chart
<1>2. e \in RecordEvents /\ e.type = "delete" /\ e.id = c /\ e.after = Records!NoChart
  BY <1>1 DEF RecordEvents
<1>3. charts[c].there => audit' = A  BY DEF Records!Log
<1> HIDE DEF e
<1>4. /\ A \in Seq(RecordEvents) /\ Len(A) = Len(audit) + 1
      /\ RecordSays(A, c, Records!NoChart, Records!NoChart)
      /\ \A id, w, none : id # c /\ RecordSays(audit, id, w, none) => RecordSays(A, id, w, none)
      /\ \A x : x # c /\ RecordApproved(audit, x) => RecordApproved(A, x)
  BY <1>0, <1>2, RecordAppended
<1> HIDE DEF A
<1>5. /\ charts' \in [RecordCharts -> Records!Chart] /\ charts'[c] = Records!NoChart
      /\ \A x \in RecordCharts : x # c => charts'[x] = charts[x]
  BY <1>0, <1>1
<1>6. /\ audit' \in Seq(RecordEvents) /\ Len(audit') \in Nat /\ Len(audit) <= Len(audit')
      /\ Len(audit') <= MaxRecords + 1
      /\ RecordSays(audit', c, Records!NoChart, Records!NoChart)
      /\ \A id, w, none : id # c /\ RecordSays(audit, id, w, none) => RecordSays(audit', id, w, none)
      /\ \A x : x # c /\ RecordApproved(audit, x) => RecordApproved(audit', x)
  <2>1. CASE charts[c].there  BY <1>0, <1>3, <1>4, <2>1
  <2>2. CASE ~charts[c].there
    <3>1. audit' = audit /\ charts[c] = Records!NoChart  BY <1>0, <2>2
    <3> QED  BY <1>0, <3>1
  <2> QED  BY <2>1, <2>2
<1>7. RecordTrail'
  <2>1. \A x \in Docs : RecordSays(audit', x, docs'[x], Records!NoDoc)  BY <1>0, <1>6
  <2>2. \A x \in Docs : docs'[x].there /\ docs'[x].status = "approved" => RecordApproved(audit', x)
    BY <1>0, <1>6
  <2>3. \A x \in RecordCharts : RecordSays(audit', x, charts'[x], Records!NoChart)
    BY <1>0, <1>5, <1>6
  <2> QED  BY <1>6, <2>1, <2>2, <2>3 DEF RecordTrail
<1>8. \A x \in Docs : IF docs'[x].there THEN docs'[x].body \in Bodies /\ docs'[x].version <= Len(audit')
                      ELSE docs'[x] = Records!NoDoc
  BY <1>0, <1>6
<1>9. \A x \in RecordCharts : IF charts'[x].there THEN charts'[x].body \in Bodies
                              ELSE charts'[x] = Records!NoChart
  BY <1>0, <1>1, <1>5
<1>10. \A b \in baselines' : b.chart \in RecordCharts /\ b.body \in Bodies /\ charts'[b.chart].there
  <2>1. \A b \in baselines' : b \in baselines /\ b.chart # c  OBVIOUS
  <2>2. \A b \in baselines : b.chart \in RecordCharts /\ b.body \in Bodies /\ charts[b.chart].there
    BY DEF RecordTables
  <2> QED  BY <1>5, <2>1, <2>2
<1>11. RecordTables'  BY <1>0, <1>5, <1>6, <1>8, <1>9, <1>10 DEF RecordTables
<1> QED  BY <1>6, <1>7, <1>11

\* SetScheduleBaseline's transaction: the chart is there.
LEMMA RecordBaselineSet ==
  ASSUME Records!ConstantsAssumption, RecordTables, RecordTrail, Len(audit) < MaxRecords,
         NEW v \in Bodies, charts[Schedule].there,
         baselines' = baselines \cup {[chart |-> Schedule, body |-> v]},
         Records!Log("baseline", Schedule, charts[Schedule]), UNCHANGED <<docs, charts>>
  PROVE  RecordTables' /\ RecordTrail' /\ Len(audit') \in Nat /\ Len(audit) <= Len(audit')
<1> DEFINE e == [type |-> "baseline", id |-> Schedule, after |-> charts[Schedule]]
           A == Append(audit, e)
<1>0. /\ audit \in Seq(RecordEvents) /\ Len(audit) \in Nat /\ MaxRecords \in Nat
      /\ charts \in [RecordCharts -> Records!Chart] /\ docs \in [Docs -> Records!Document]
      /\ Schedule \in RecordCharts
      /\ \A x \in Docs : RecordSays(audit, x, docs[x], Records!NoDoc)
      /\ \A x \in Docs : docs[x].there /\ docs[x].status = "approved" => RecordApproved(audit, x)
      /\ \A x \in RecordCharts : RecordSays(audit, x, charts[x], Records!NoChart)
      /\ \A x \in Docs : docs[x].version \in Nat
      /\ \A x \in Docs : IF docs[x].there THEN docs[x].body \in Bodies /\ docs[x].version <= Len(audit)
                         ELSE docs[x] = Records!NoDoc
  BY DEF RecordTables, RecordTrail, Records!ConstantsAssumption, Records!Document
<1>1. audit' = A  BY DEF Records!Log
<1>2. e \in RecordEvents /\ e.type = "baseline"  BY <1>0 DEF RecordEvents
<1> HIDE DEF e
<1>3. /\ A \in Seq(RecordEvents) /\ Len(A) = Len(audit) + 1
      /\ \A id, w, none : RecordSays(audit, id, w, none) => RecordSays(A, id, w, none)
      /\ \A x : RecordApproved(audit, x) => RecordApproved(A, x)
  BY <1>0, <1>2, RecordAppended
<1> HIDE DEF A
<1>4. RecordTrail'  BY <1>0, <1>1, <1>3 DEF RecordTrail
<1>5. \A x \in Docs : IF docs'[x].there THEN docs'[x].body \in Bodies /\ docs'[x].version <= Len(audit')
                      ELSE docs'[x] = Records!NoDoc
  BY <1>0, <1>1, <1>3
<1>6. \A b \in baselines' : b.chart \in RecordCharts /\ b.body \in Bodies /\ charts'[b.chart].there
  <2>1. \A b \in baselines : b.chart \in RecordCharts /\ b.body \in Bodies /\ charts[b.chart].there
    BY DEF RecordTables
  <2>2. ASSUME NEW b \in baselines'
        PROVE  b.chart \in RecordCharts /\ b.body \in Bodies /\ charts'[b.chart].there
    <3>1. b \in baselines \/ b = [chart |-> Schedule, body |-> v]  OBVIOUS
    <3> QED  BY <1>0, <2>1, <3>1
  <2> QED  BY <2>2
<1>7. Len(audit') <= MaxRecords + 1  BY <1>0, <1>1, <1>3
<1>8. RecordTables'  BY <1>0, <1>5, <1>6, <1>7 DEF RecordTables
<1> QED  BY <1>0, <1>1, <1>3, <1>4, <1>8

\* What remains of a step that writes: the call that wrote returns.
LEMMA RecordReturned ==
  ASSUME RecordInv, NEW p \in Peers, Records!Return(p), RecordTables', RecordTrail',
         Len(audit') \in Nat, Len(audit) <= Len(audit')
  PROVE  RecordInv'
<1>1. RecordCalls /\ Len(audit) \in Nat  BY DEF RecordInv, RecordTrail
<1>2. call' = [call EXCEPT ![p] = Records!Idle]  BY DEF Records!Return
<1>3. RecordCall(Records!Idle, Len(audit'))  BY DEF RecordCall, Records!Idle, Records!Ops
<1>4. RecordCalls'  BY <1>1, <1>2, <1>3, RecordCallStep
<1> QED  BY <1>4 DEF RecordInv

\* A chart that is there, with another body.
LEMMA RecordRedrawn ==
  ASSUME RecordTables, NEW c \in RecordCharts, charts[c].there, NEW v \in Bodies
  PROVE  /\ [charts[c] EXCEPT !.body = v] \in Records!Chart
         /\ [charts[c] EXCEPT !.body = v].there /\ [charts[c] EXCEPT !.body = v].body \in Bodies
<1>1. charts[c] \in Records!Chart  BY DEF RecordTables
<1> QED  BY <1>1 DEF Records!Chart

\* The calls, as they read.
LEMMA RecordReads ==
  ASSUME Records!ConstantsAssumption, RecordInv, NEW p \in Peers,
         \/ \E d \in Docs : Records!SaveDocumentCheck(p, d) \/ Records!DeleteDocumentCheck(p, d)
         \/ \E c \in RecordCharts : Records!SaveChartCheck(p, c) \/ Records!DeleteChartCheck(p, c)
         \/ \E d \in Docs, c \in RecordCharts : Records!SyncRead(p, d, c)
         \/ Records!LevelRead(p) \/ Records!HistogramRead(p) \/ Records!BaselineRead(p)
         \/ Records!Give(p)
  PROVE  RecordInv'
<1>0. /\ RecordTables /\ Schedule \in RecordCharts
      /\ \A d \in Docs : docs[d].there => docs[d].body \in Bodies /\ docs[d].version \in 0 .. Len(audit)
      /\ \A c \in RecordCharts : charts[c].there => charts[c].body \in Bodies
  <2>1. \A d \in Docs : docs[d].version \in Nat  BY DEF RecordInv, RecordTables, Records!Document
  <2>2. Len(audit) \in Nat  BY DEF RecordInv, RecordTrail
  <2> QED  BY <2>1, <2>2 DEF RecordInv, RecordTables, Records!ConstantsAssumption
<1>1. ASSUME NEW d \in Docs, Records!SaveDocumentCheck(p, d) PROVE RecordInv'
  <2>1. PICK b \in Bodies, s \in {"draft", "approved"} :
           call' = [call EXCEPT ![p] =
               [op |-> "saveDoc", id |-> d, body |-> b, status |-> s, version |-> docs[d].version]]
    BY <1>1 DEF Records!SaveDocumentCheck
  <2> DEFINE x == [op |-> "saveDoc", id |-> d, body |-> b, status |-> s, version |-> docs[d].version]
  <2>2. docs[d].version \in 0 .. Len(audit)  BY <1>0, <1>1 DEF Records!SaveDocumentCheck
  <2>3. RecordCall(x, Len(audit))  BY <2>2 DEF RecordCall, Records!Ops
  <2>4. UNCHANGED <<docs, charts, baselines, audit>>  BY <1>1 DEF Records!SaveDocumentCheck
  <2> HIDE DEF x
  <2> QED  BY <2>1, <2>3, <2>4, RecordRead DEF x
<1>2. ASSUME NEW d \in Docs, Records!DeleteDocumentCheck(p, d) PROVE RecordInv'
  <2> DEFINE x == [op |-> "deleteDoc", id |-> d]
  <2>1. RecordCall(x, Len(audit))  BY DEF RecordCall, Records!Ops
  <2>2. call' = [call EXCEPT ![p] = x] /\ UNCHANGED <<docs, charts, baselines, audit>>
    BY <1>2 DEF Records!DeleteDocumentCheck
  <2> HIDE DEF x
  <2> QED  BY <2>1, <2>2, RecordRead
<1>3. ASSUME NEW c \in RecordCharts, Records!SaveChartCheck(p, c) PROVE RecordInv'
  <2>1. PICK b \in Bodies :
           call' = [call EXCEPT ![p] =
               [op |-> "saveChart", id |-> c, row |-> [charts[c] EXCEPT !.body = b]]]
    BY <1>3 DEF Records!SaveChartCheck
  <2> DEFINE r == [charts[c] EXCEPT !.body = b]
             x == [op |-> "saveChart", id |-> c, row |-> r]
  <2>2. charts[c].there /\ UNCHANGED <<docs, charts, baselines, audit>>
    BY <1>3 DEF Records!SaveChartCheck
  <2>3. r \in Records!Chart /\ r.there /\ r.body \in Bodies  BY <1>0, <2>2, RecordRedrawn
  <2> HIDE DEF r
  <2>4. RecordCall(x, Len(audit))  BY <2>3 DEF RecordCall, Records!Ops
  <2>5. call' = [call EXCEPT ![p] = x]  BY <2>1 DEF r
  <2> HIDE DEF x
  <2> QED  BY <2>2, <2>4, <2>5, RecordRead
<1>4. ASSUME NEW c \in RecordCharts, Records!DeleteChartCheck(p, c) PROVE RecordInv'
  <2> DEFINE x == [op |-> "deleteChart", id |-> c]
  <2>1. RecordCall(x, Len(audit))  BY DEF RecordCall, Records!Ops
  <2>2. call' = [call EXCEPT ![p] = x] /\ UNCHANGED <<docs, charts, baselines, audit>>
    BY <1>4 DEF Records!DeleteChartCheck
  <2> HIDE DEF x
  <2> QED  BY <2>1, <2>2, RecordRead
<1>5. ASSUME NEW d \in Docs, NEW c \in RecordCharts, Records!SyncRead(p, d, c) PROVE RecordInv'
  <2> DEFINE r == [charts[c] EXCEPT !.body = docs[d].body]
             x == [op |-> "sync", id |-> c, row |-> r]
  <2>1. /\ docs[d].there /\ charts[c].there /\ call' = [call EXCEPT ![p] = x]
        /\ UNCHANGED <<docs, charts, baselines, audit>>
    BY <1>5 DEF Records!SyncRead
  <2>2. docs[d].body \in Bodies  BY <1>0, <2>1
  <2>3. r \in Records!Chart /\ r.there /\ r.body \in Bodies  BY <1>0, <2>1, <2>2, RecordRedrawn
  <2> HIDE DEF r
  <2>4. RecordCall(x, Len(audit))  BY <2>3 DEF RecordCall, Records!Ops
  <2> HIDE DEF x
  <2> QED  BY <2>1, <2>4, RecordRead
<1>6. ASSUME Records!LevelRead(p) PROVE RecordInv'
  <2>1. PICK b \in Bodies :
           call' = [call EXCEPT ![p] =
               [op |-> "level", id |-> Schedule, row |-> [charts[Schedule] EXCEPT !.body = b]]]
    BY <1>6 DEF Records!LevelRead
  <2> DEFINE r == [charts[Schedule] EXCEPT !.body = b]
             x == [op |-> "level", id |-> Schedule, row |-> r]
  <2>2. charts[Schedule].there /\ UNCHANGED <<docs, charts, baselines, audit>>
    BY <1>6 DEF Records!LevelRead
  <2>3. r \in Records!Chart /\ r.there /\ r.body \in Bodies  BY <1>0, <2>2, RecordRedrawn
  <2> HIDE DEF r
  <2>4. RecordCall(x, Len(audit))  BY <1>0, <2>3 DEF RecordCall, Records!Ops
  <2>5. call' = [call EXCEPT ![p] = x]  BY <2>1 DEF r
  <2> HIDE DEF x
  <2> QED  BY <2>2, <2>4, <2>5, RecordRead
<1>7. ASSUME Records!HistogramRead(p) PROVE RecordInv'
  <2> DEFINE r == [there |-> TRUE, body |-> charts[Schedule].body, of |-> Schedule]
  <2>1. /\ charts[Schedule].there /\ UNCHANGED <<docs, charts, baselines, audit>>
        /\ \E c \in RecordCharts : call' = [call EXCEPT ![p] = [op |-> "histogram", id |-> c, row |-> r]]
    BY <1>7 DEF Records!HistogramRead
  <2>2. r \in Records!Chart /\ r.there /\ r.body \in Bodies  BY <1>0, <2>1 DEF Records!Chart
  <2> HIDE DEF r
  <2>3. PICK c \in RecordCharts : call' = [call EXCEPT ![p] = [op |-> "histogram", id |-> c, row |-> r]]
    BY <2>1
  <2> DEFINE x == [op |-> "histogram", id |-> c, row |-> r]
  <2>4. RecordCall(x, Len(audit))  BY <2>2 DEF RecordCall, Records!Ops
  <2> HIDE DEF x
  <2> QED  BY <2>1, <2>3, <2>4, RecordRead DEF x
<1>8. ASSUME Records!BaselineRead(p) PROVE RecordInv'
  <2> DEFINE x == [op |-> "baseline", body |-> charts[Schedule].body]
  <2>1. /\ charts[Schedule].there /\ call' = [call EXCEPT ![p] = x]
        /\ UNCHANGED <<docs, charts, baselines, audit>>
    BY <1>8 DEF Records!BaselineRead
  <2>2. charts[Schedule].body \in Bodies  BY <1>0, <2>1
  <2>3. RecordCall(x, Len(audit))  BY <2>2 DEF RecordCall, Records!Ops
  <2> HIDE DEF x
  <2> QED  BY <2>1, <2>3, RecordRead
<1>9. ASSUME Records!Give(p) PROVE RecordInv'
  <2>1. call' = [call EXCEPT ![p] = Records!Idle] /\ UNCHANGED <<docs, charts, baselines, audit>>
    BY <1>9 DEF Records!Give, Records!Return
  <2>2. RecordCall(Records!Idle, Len(audit))  BY DEF RecordCall, Records!Idle, Records!Ops
  <2> QED  BY <2>1, <2>2, RecordRead
<1> QED  BY <1>1, <1>2, <1>3, <1>4, <1>5, <1>6, <1>7, <1>8, <1>9

\* The calls, as they write.
LEMMA RecordWrites ==
  ASSUME Records!ConstantsAssumption, RecordInv, NEW p \in Peers,
         \/ Records!SaveDocument(p) \/ Records!DeleteDocument(p) \/ Records!SaveChart(p)
         \/ Records!DeleteChart(p) \/ Records!GenerateResourceHistogram(p)
         \/ Records!SetScheduleBaseline(p)
  PROVE  RecordInv'
<1>0. /\ RecordTables /\ RecordTrail /\ Len(audit) \in Nat /\ RecordCall(call[p], Len(audit))
  BY DEF RecordInv, RecordTrail, RecordCalls
<1>1. ASSUME Records!SaveDocument(p) PROVE RecordInv'
  <2> DEFINE x == call[p]
  <2>1. /\ x.op = "saveDoc" /\ Len(audit) < MaxRecords /\ Records!Return(p)
        /\ Records!WriteDocument(x.id, x.body, x.status, x.version) /\ UNCHANGED <<charts, baselines>>
    BY <1>1 DEF Records!SaveDocument, Records!Room
  <2>2. x.id \in Docs /\ x.body \in Bodies /\ x.status \in {"draft", "approved"}
    BY <1>0, <2>1 DEF RecordCall
  <2>3. x.version \in 0 .. Len(audit) + 1  BY <1>0, <2>1 DEF RecordCall
  <2> HIDE DEF x
  <2>4. RecordTables' /\ RecordTrail' /\ Len(audit') \in Nat /\ Len(audit) <= Len(audit')
    BY <1>0, <2>1, <2>2, <2>3, RecordDocumentWritten
  <2> QED  BY <2>1, <2>4, RecordReturned
<1>2. ASSUME Records!DeleteDocument(p) PROVE RecordInv'
  <2> DEFINE d == call[p].id
  <2>1. /\ call[p].op = "deleteDoc" /\ Len(audit) < MaxRecords /\ Records!Return(p)
        /\ docs' = [docs EXCEPT ![d] = Records!NoDoc]
        /\ IF docs[d].there THEN Records!Log("delete", d, Records!NoDoc) ELSE UNCHANGED audit
        /\ UNCHANGED <<charts, baselines>>
    BY <1>2 DEF Records!DeleteDocument, Records!Room
  <2>2. d \in Docs  BY <1>0, <2>1 DEF RecordCall
  <2> HIDE DEF d
  <2>3. RecordTables' /\ RecordTrail' /\ Len(audit') \in Nat /\ Len(audit) <= Len(audit')
    BY <1>0, <2>1, <2>2, RecordDocumentDeleted
  <2> QED  BY <2>1, <2>3, RecordReturned
<1>3. ASSUME Records!SaveChart(p) \/ Records!GenerateResourceHistogram(p) PROVE RecordInv'
  <2> DEFINE x == call[p]
  <2>1. /\ x.op \in {"saveChart", "level", "sync", "histogram"} /\ Len(audit) < MaxRecords
        /\ Records!Return(p) /\ Records!WriteChart(x.id, x.row) /\ UNCHANGED <<docs, baselines>>
    BY <1>3 DEF Records!SaveChart, Records!GenerateResourceHistogram, Records!Room
  <2>2. x.id \in RecordCharts /\ x.row \in Records!Chart /\ x.row.there /\ x.row.body \in Bodies
    BY <1>0, <2>1 DEF RecordCall
  <2> HIDE DEF x
  <2>3. RecordTables' /\ RecordTrail' /\ Len(audit') \in Nat /\ Len(audit) <= Len(audit')
    BY <1>0, <2>1, <2>2, RecordChartWritten
  <2> QED  BY <2>1, <2>3, RecordReturned
<1>4. ASSUME Records!DeleteChart(p) PROVE RecordInv'
  <2> DEFINE c == call[p].id
  <2>1. /\ call[p].op = "deleteChart" /\ Len(audit) < MaxRecords /\ Records!Return(p)
        /\ charts' = [charts EXCEPT ![c] = Records!NoChart]
        /\ baselines' = {b \in baselines : b.chart # c}
        /\ IF charts[c].there THEN Records!Log("delete", c, Records!NoChart) ELSE UNCHANGED audit
        /\ UNCHANGED docs
    BY <1>4 DEF Records!DeleteChart, Records!Room
  <2>2. c \in RecordCharts  BY <1>0, <2>1 DEF RecordCall
  <2> HIDE DEF c
  <2>3. RecordTables' /\ RecordTrail' /\ Len(audit') \in Nat /\ Len(audit) <= Len(audit')
    BY <1>0, <2>1, <2>2, RecordChartDeleted
  <2> QED  BY <2>1, <2>3, RecordReturned
<1>5. ASSUME Records!SetScheduleBaseline(p) PROVE RecordInv'
  <2> DEFINE v == call[p].body
  <2>1. /\ call[p].op = "baseline" /\ Len(audit) < MaxRecords /\ Records!Return(p)
        /\ charts[Schedule].there /\ baselines' = baselines \cup {[chart |-> Schedule, body |-> v]}
        /\ Records!Log("baseline", Schedule, charts[Schedule]) /\ UNCHANGED <<docs, charts>>
    BY <1>5 DEF Records!SetScheduleBaseline, Records!Room
  <2>2. v \in Bodies  BY <1>0, <2>1 DEF RecordCall
  <2> HIDE DEF v
  <2>3. RecordTables' /\ RecordTrail' /\ Len(audit') \in Nat /\ Len(audit) <= Len(audit')
    BY <1>0, <2>1, <2>2, RecordBaselineSet
  <2> QED  BY <2>1, <2>3, RecordReturned
<1> QED  BY <1>1, <1>2, <1>3, <1>4, <1>5

LEMMA RecordNext == ASSUME Records!ConstantsAssumption, RecordInv, Records!Next PROVE RecordInv'
<1>0. RecordTables /\ RecordTrail /\ RecordCalls /\ Len(audit) \in Nat  BY DEF RecordInv, RecordTrail
<1>1. ASSUME NEW d \in Docs, Records!NewDocument(d) PROVE RecordInv'
  <2>1. PICK b \in Bodies, s \in {"draft", "approved"} : Records!WriteDocument(d, b, s, 1)
    BY <1>1 DEF Records!NewDocument
  <2>2. Len(audit) < MaxRecords /\ UNCHANGED <<charts, baselines, call>>
    BY <1>1 DEF Records!NewDocument, Records!Room
  <2>3. 1 \in 0 .. Len(audit) + 1  BY <1>0
  <2>4. RecordTables' /\ RecordTrail' /\ Len(audit') \in Nat /\ Len(audit) <= Len(audit')
    BY <1>0, <2>1, <2>2, <2>3, RecordDocumentWritten
  <2>5. RecordCalls'  BY <1>0, <2>2, <2>4, RecordCallsKept
  <2> QED  BY <2>4, <2>5 DEF RecordInv
<1>2. ASSUME NEW c \in RecordCharts, Records!NewChart(c) PROVE RecordInv'
  <2>1. PICK b \in Bodies : Records!WriteChart(c, [there |-> TRUE, body |-> b, of |-> Records!None])
    BY <1>2 DEF Records!NewChart
  <2> DEFINE r == [there |-> TRUE, body |-> b, of |-> Records!None]
  <2>2. Len(audit) < MaxRecords /\ UNCHANGED <<docs, baselines, call>>
    BY <1>2 DEF Records!NewChart, Records!Room
  <2>3. r \in Records!Chart /\ r.there /\ r.body \in Bodies  BY DEF Records!Chart
  <2>4. Records!WriteChart(c, r)  BY <2>1
  <2> HIDE DEF r
  <2>5. RecordTables' /\ RecordTrail' /\ Len(audit') \in Nat /\ Len(audit) <= Len(audit')
    BY <1>0, <2>2, <2>3, <2>4, RecordChartWritten
  <2>6. RecordCalls'  BY <1>0, <2>2, <2>5, RecordCallsKept
  <2> QED  BY <2>5, <2>6 DEF RecordInv
<1> QED  BY <1>1, <1>2, RecordReads, RecordWrites DEF Records!Next

\* The invariant says what the run checks.
LEMMA RecordHolds ==
  ASSUME RecordInv
  PROVE  /\ Records!TypeOK /\ Records!AuditReplays
         /\ Records!ApprovalsCheckpointed /\ Records!BaselinesHaveCharts
<1>0. /\ RecordTables /\ RecordTrail /\ audit \in Seq(RecordEvents)
  BY DEF RecordInv, RecordTrail
<1>1. Records!TypeOK  BY DEF RecordInv, RecordTables, RecordCalls, RecordCall, Records!TypeOK
<1>2. \A id : Records!EventsAbout(id) = RecordAbout(audit, id)
  BY DEF Records!EventsAbout, RecordAbout
<1>3. ASSUME NEW id, NEW v, NEW none, RecordSays(audit, id, v, none)
      PROVE  Records!Latest(id, none) = v
  <2> DEFINE S == RecordAbout(audit, id)
  <2>1. S \subseteq Nat  BY <1>0 DEF RecordAbout
  <2>2. Records!Latest(id, none) = IF S = {} THEN none ELSE audit[Records!Max(S)].after
    BY <1>2 DEF Records!Latest
  <2>3. CASE S = {}  BY <1>3, <2>2, <2>3 DEF RecordSays
  <2>4. CASE S # {}
    <3>1. PICK m \in S : (\A i \in S : i <= m) /\ v = audit[m].after
      BY <1>3, <2>4 DEF RecordSays
    <3> HIDE DEF S
    <3>2. Records!Max(S) = m
      <4>1. \A k \in S : (\A i \in S : i <= k) => k = m  BY <2>1, <3>1
      <4> QED  BY <3>1, <4>1 DEF Records!Max
    <3> QED  BY <2>2, <2>4, <3>1, <3>2
  <2> QED  BY <2>3, <2>4
<1>4. Records!AuditReplays  BY <1>0, <1>3 DEF RecordTrail, Records!AuditReplays
<1>5. Records!ApprovalsCheckpointed
  BY <1>0, <1>2 DEF RecordTrail, RecordApproved, Records!ApprovalsCheckpointed
<1>6. Records!BaselinesHaveCharts  BY <1>0 DEF RecordTables, Records!BaselinesHaveCharts
<1> QED  BY <1>1, <1>4, <1>5, <1>6

-----------------------------------------------------------------------------
(* Proofs: histories                                                        *)

\* A step of another part, or none, keeps them.
LEMMA RecordStutter == ASSUME RecordInv, UNCHANGED recordVars PROVE RecordInv'
<1>1. UNCHANGED <<docs, charts, baselines, audit, call>>  BY DEF recordVars
<1>2. RecordTables'  BY <1>1 DEF RecordInv, RecordTables
<1>3. RecordTrail'  BY <1>1 DEF RecordInv, RecordTrail
<1>4. RecordCalls'  BY <1>1 DEF RecordInv, RecordCalls
<1> QED  BY <1>2, <1>3, <1>4 DEF RecordInv

LEMMA ScenarioStutter == ASSUME ScenarioInv, UNCHANGED scenarioVars PROVE ScenarioInv'
<1>1. UNCHANGED <<chart, scenarioBaselines, scenarios, copies, branch, scenarioAudit>>  BY DEF scenarioVars
<1>2. Scenarios!TypeOK'  BY <1>1 DEF ScenarioInv, Scenarios!TypeOK
<1>3. \A c \in Copies : copies'[c].there => copies'[c].of \in Peers /\ scenarios[copies'[c].of].there
  BY <1>1 DEF ScenarioInv, Scenarios!CopiesOwned
<1>4. (branch.at = "read" => branch.of \in Peers)'  BY <1>1 DEF ScenarioInv
<1> QED  BY <1>1, <1>2, <1>3, <1>4, ScenarioKept

\* SaveDocument, SaveChart, GenerateResourceHistogram, SetScheduleBaseline, SaveScenario and
\* the deletes: for any number of calls, documents, charts, scenarios and events the tables
\* hold what the trail says, every approval has its checkpoint, nothing outlives what it
\* belongs to, and one scenario at most is active.
THEOREM HistoriesReplay == Spec => []HistoryReplays
<1> DEFINE I == (part = "records" => RecordInv) /\ (part = "scenarios" => ScenarioInv)
<1>1. Init => I  BY RecordInit, ScenarioInit, PartsAssumption DEF Init
<1>2. I /\ [Next]_vars => I'
  <2> SUFFICES ASSUME I, [Next]_vars PROVE I'
    OBVIOUS
  <2>1. part' = part  BY DEF Next, vars
  <2>2. ASSUME part = "records" PROVE RecordInv'
    <3>1. (Records!Next \/ UNCHANGED recordVars) /\ RecordInv  BY <2>2 DEF Next, vars
    <3> QED  BY <3>1, RecordNext, RecordStutter, PartsAssumption
  <2>3. ASSUME part = "scenarios" PROVE ScenarioInv'
    <3>1. (Scenarios!Next \/ UNCHANGED scenarioVars) /\ ScenarioInv  BY <2>3 DEF Next, vars
    <3> QED  BY <3>1, ScenarioNext, ScenarioStutter, PartsAssumption
  <2> QED  BY <2>1, <2>2, <2>3
<1>3. I => HistoryReplays  BY RecordHolds, ScenarioHolds DEF HistoryReplays
<1> QED  BY <1>1, <1>2, <1>3, PTL DEF Spec

=============================================================================

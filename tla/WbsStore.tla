------------------------------ MODULE WbsStore -------------------------------
(***************************************************************************)
(* The protected store of work breakdown structures (db/wbs_store.go): a   *)
(* write names the revision it was made from and a request identity, so    *)
(* that a client whose answer was lost can send it again.                  *)
(*                                                                         *)
(* Save takes the writer of the database with its first statement and is   *)
(* one transaction: one step here.  The commit itself can fail without     *)
(* telling whether it happened.  The generic chart writers of db/charts.go *)
(* work on the same table.                                                 *)
(***************************************************************************)
EXTENDS Integers, Sequences, FiniteSets, TLAPS

CONSTANTS
    Charts,         \* chart identities
    Requests,       \* request identities a client may use
    Bodies,         \* what a write may carry: title and aggregate
    Linked,         \* the bodies with activity or cost links
    Lifetimes,      \* sessions, as numbers in the order they are opened
    MaxRevision,    \* math.MaxUint64 in the code
    ReceiptLimit,   \* WBSReceiptLimit, 256 in the code
    Radix,          \* revisions are stored as decimal text: 10 in the code
    MaxGeneric      \* bound: writes of the generic chart writer

ConstantsAssumption ==
    /\ Linked \subseteq Bodies /\ Bodies # {}
    /\ MaxRevision \in Nat /\ ReceiptLimit \in Nat \ {0} /\ Radix \in Nat \ {0, 1}
    /\ Lifetimes \subseteq Nat \ {0} /\ MaxGeneric \in Nat

VARIABLES
    charts,     \* table charts: kind, revision in the data, body
    records,    \* table wbs_records: the revision, or NoRecord
    receipts,   \* table wbs_receipts
    ready,      \* the three tables exist
    life,       \* the open store's LifetimeID, 0 when there is none
    audit,      \* the audit events of each chart
    told,       \* what clients were told: the receipts of their writes
    result,     \* the last answer of Save
    generic     \* generic writes so far

vars == <<charts, records, receipts, ready, life, audit, told, result, generic>>

Revisions == 0 .. MaxRevision
NoRecord == -1
NoChart == [kind |-> "none", rev |-> 0, body |-> CHOOSE b \in Bodies : TRUE]

Chart == [kind : {"none", "other", "wbs_v2"}, rev : Revisions, body : Bodies]

\* A write, without the copy identity, which every store of one file shares.
\* The fingerprint is all of it but the lifetime and the request.
WBSWrite == [chart : Charts, life : Lifetimes, request : Requests,
             expected : Revisions, create : BOOLEAN, body : Bodies]

Fingerprint(w) == <<w.chart, w.expected, w.create, w.body>>

Prints == Charts \X Revisions \X BOOLEAN \X Bodies
Receipt == [request : Requests, print : Prints, rev : Revisions, audit : Nat]

Outcomes == {"none", "saved", "replayed", "binding", "revision", "reuse", "linked",
             "conflict", "missing", "overflow", "indeterminate"}

TypeOK ==
    /\ charts \in [Charts -> Chart]
    /\ records \in [Charts -> Revisions \cup {NoRecord}]
    /\ \A c \in Charts : receipts[c] \subseteq Receipt
    /\ ready \in BOOLEAN /\ life \in Lifetimes \cup {0}
    /\ \A c \in Charts : \A i \in DOMAIN audit[c] :
           audit[c][i].rev \in Revisions /\ audit[c][i].print \in Prints
    /\ result \in Outcomes /\ generic \in 0 .. MaxGeneric

Init ==
    /\ charts = [c \in Charts |-> NoChart]
    /\ records = [c \in Charts |-> NoRecord]
    /\ receipts = [c \in Charts |-> {}]
    /\ ready = FALSE /\ life = 0
    /\ audit = [c \in Charts |-> <<>>]
    /\ told = {} /\ result = "none" /\ generic = 0

-----------------------------------------------------------------------------
(* Revisions as text                                                        *)

\* Digits of n.
TextLength(n) == CHOOSE k \in 1 .. (n + 1) :
                     /\ n < Radix ^ k
                     /\ k = 1 \/ n >= Radix ^ (k - 1)

\* n comes before m as binary text.
TextBefore(n, m) ==
    LET width == TextLength(n) + TextLength(m)
        padded(k) == k * Radix ^ (width - TextLength(k))
    IN  \/ padded(n) < padded(m)
        \/ padded(n) = padded(m) /\ TextLength(n) < TextLength(m)

\* ORDER BY length(revision) DESC, revision COLLATE BINARY DESC
Newer(n, m) ==
    \/ TextLength(n) > TextLength(m)
    \/ TextLength(n) = TextLength(m) /\ TextBefore(m, n)

\* The receipts that survive the eviction.
Kept(rs) == {r \in rs : Cardinality({q \in rs : Newer(q.rev, r.rev)}) < ReceiptLimit}

-----------------------------------------------------------------------------
(* Opening and closing                                                      *)

\* readWBSRecord succeeds.
RecordReadable(c) ==
    /\ charts[c].kind = "wbs_v2" /\ records[c] # NoRecord
    /\ charts[c].rev = records[c]

\* The tables are created once, in a file without protected charts; every
\* protected chart and every record must then be readable.  A commit that
\* fails may have happened, and gives no store.
OpenWBSStore ==
    \E l \in Lifetimes :
        /\ l > life
        /\ ready \/ \A c \in Charts : charts[c].kind # "wbs_v2"
        /\ \A c \in Charts :
               charts[c].kind = "wbs_v2" \/ records[c] # NoRecord => RecordReadable(c)
        /\ \/ ready' = TRUE /\ life' = l
           \/ ready' \in {ready, TRUE} /\ UNCHANGED life
    /\ UNCHANGED <<charts, records, receipts, audit, told, result, generic>>

\* Close, or the end of the process: the next store has another lifetime.
Close ==
    /\ life # 0
    /\ \E l \in Lifetimes : l > life
    /\ life' \in {l \in Lifetimes : l > life}
    /\ UNCHANGED <<charts, records, receipts, ready, audit, told, result, generic>>

-----------------------------------------------------------------------------
(* Save                                                                     *)

Answer(outcome) == result' = outcome

Unchanged == UNCHANGED <<charts, records, receipts, ready, life, audit, told, generic>>

Present(w) == {r \in receipts[w.chart] : r.request = w.request}

\* The refusals before the database is touched.
SaveRefused(w) ==
    /\ \/ w.life # life /\ Answer("binding")
       \/ w.life = life /\ w.create /\ w.expected # 0 /\ Answer("revision")
    /\ Unchanged

\* The receipt of this request is there: the write is not applied.
SaveKnown(w) ==
    /\ w.life = life /\ (w.create => w.expected = 0)
    /\ \E r \in Present(w) :
           IF r.print # Fingerprint(w)
           THEN Answer("reuse") /\ UNCHANGED told
           ELSE /\ Answer("replayed")
                /\ told' = told \cup {[print |-> Fingerprint(w), rev |-> r.rev, audit |-> r.audit]}
    /\ UNCHANGED <<charts, records, receipts, ready, life, audit, generic>>

\* The current revision the write is compared with.
Current(w) == IF w.create THEN 0 ELSE records[w.chart]

\* The write would be applied; NextRevision has a next one.
Acceptable(w) ==
    /\ w.body \notin Linked
    /\ IF w.create THEN charts[w.chart].kind = "none" ELSE RecordReadable(w.chart)
    /\ Current(w) = w.expected
    /\ Current(w) < MaxRevision

\* The refusals inside the transaction, in their order.
SaveRejected(w) ==
    /\ w.life = life /\ (w.create => w.expected = 0)
    /\ Present(w) = {}
    /\ ~Acceptable(w)
    /\ Answer(CASE w.body \in Linked -> "linked"
                [] w.create /\ charts[w.chart].kind # "none" -> "conflict"
                [] ~w.create /\ ~RecordReadable(w.chart) -> "missing"
                [] Current(w) # w.expected -> "conflict"
                [] OTHER -> "overflow")
    /\ Unchanged

\* Everything the transaction writes: the chart, its record, the audit event
\* and the receipt; the oldest receipts go.
Applied(w) ==
    LET next == Current(w) + 1
    IN  /\ charts' = [charts EXCEPT ![w.chart] =
               [kind |-> "wbs_v2", rev |-> next, body |-> w.body]]
        /\ records' = [records EXCEPT ![w.chart] = next]
        /\ audit' = [audit EXCEPT ![w.chart] = Append(@, [rev |-> next, print |-> Fingerprint(w)])]
        /\ receipts' = [receipts EXCEPT ![w.chart] = Kept(@ \cup
               {[request |-> w.request, print |-> Fingerprint(w), rev |-> next,
                 audit |-> Len(audit[w.chart]) + 1]})]
        /\ UNCHANGED <<ready, life, generic>>

SaveApplied(w) ==
    /\ w.life = life /\ (w.create => w.expected = 0)
    /\ Present(w) = {} /\ Acceptable(w)
    /\ Applied(w)
    /\ Answer("saved")
    /\ told' = told \cup {[print |-> Fingerprint(w), rev |-> Current(w) + 1,
                           audit |-> Len(audit[w.chart]) + 1]}

\* commitWBS: the commit failed; it happened or it did not.
SaveIndeterminate(w) ==
    /\ w.life = life /\ (w.create => w.expected = 0)
    /\ Present(w) = {} /\ Acceptable(w)
    /\ \/ Applied(w)
       \/ UNCHANGED <<charts, records, receipts, ready, life, audit, generic>>
    /\ Answer("indeterminate")
    /\ UNCHANGED told

Save ==
    /\ ready /\ life # 0
    /\ \E w \in WBSWrite : \/ SaveRefused(w) \/ SaveKnown(w) \/ SaveRejected(w)
                           \/ SaveApplied(w) \/ SaveIndeterminate(w)

-----------------------------------------------------------------------------
(* The generic writers                                                      *)

\* protectedWBSChartTx
Protected(c) == charts[c].kind = "wbs_v2" \/ (ready /\ records[c] # NoRecord)

\* SaveChart never writes the protected kind, nor over a protected chart.
SaveChart ==
    \E c \in Charts, b \in Bodies :
        /\ generic < MaxGeneric
        /\ ~Protected(c)
        /\ charts' = [charts EXCEPT ![c] = [kind |-> "other", rev |-> 0, body |-> b]]
        /\ generic' = generic + 1
        /\ UNCHANGED <<records, receipts, ready, life, audit, told, result>>

DeleteChart ==
    \E c \in Charts :
        /\ charts[c].kind # "none" /\ ~Protected(c)
        /\ charts' = [charts EXCEPT ![c] = NoChart]
        /\ UNCHANGED <<records, receipts, ready, life, audit, told, result, generic>>

Next == OpenWBSStore \/ Close \/ Save \/ SaveChart \/ DeleteChart

Spec == Init /\ [][Next]_vars

-----------------------------------------------------------------------------
(* Properties                                                               *)

\* Every receipt a client was given, the replayed ones too, names the
\* revision and the audit event at which that very body was stored.
ReceiptsTrue ==
    \A t \in told :
        LET c == t.print[1]
        IN  /\ t.audit \in DOMAIN audit[c]
            /\ audit[c][t.audit] = [rev |-> t.rev, print |-> t.print]

\* A protected chart is what its latest audit event says: no revision is
\* skipped, repeated or written behind the store, in whatever way the writes
\* of two sessions, their retries and the generic writers interleave.
HistoryWithoutGaps ==
    \A c \in Charts :
        /\ \A i \in DOMAIN audit[c] : audit[c][i].rev = i
        /\ audit[c] # <<>> =>
               /\ RecordReadable(c)
               /\ records[c] = Len(audit[c])
               /\ charts[c].body = audit[c][Len(audit[c])].print[4]

\* A write is applied at most once, however often a client that was not told
\* sends it again, under the same request or another, and also when its
\* receipt has been evicted since.
AppliedOnce ==
    \A c \in Charts : \A i, j \in DOMAIN audit[c] :
        audit[c][i].print = audit[c][j].print => i = j

\* The last ReceiptLimit writes of a chart have their receipts, although
\* revisions are kept as text and "10" sorts before "9".
RecentWritesHaveReceipts ==
    \A c \in Charts : \A i \in DOMAIN audit[c] :
        i > Len(audit[c]) - ReceiptLimit => \E r \in receipts[c] : r.audit = i

-----------------------------------------------------------------------------
(* Proofs: no write is lost, repeated or misreported, for any number of      *)
(* charts, sessions, requests and revisions                                  *)

Entries == [rev : Revisions, print : Prints]

\* The type invariant, with the types of the logs.
Types ==
    /\ TypeOK
    /\ receipts \in [Charts -> SUBSET Receipt]
    /\ audit \in [Charts -> Seq(Entries)]
    /\ \A t \in told : t.print \in Prints

\* The event at which revision i of chart c was stored says so, and says that it
\* was made from the revision before it: that is why no write is applied twice.
Logged(c) ==
    \A i \in 1 .. Len(audit[c]) :
        audit[c][i].rev = i /\ audit[c][i].print[1] = c /\ audit[c][i].print[2] = i - 1

\* A chart is protected exactly when it has a history, and is the last of it.
Stored(c) ==
    IF audit[c] = <<>>
    THEN charts[c].kind # "wbs_v2"
    ELSE /\ RecordReadable(c)
         /\ records[c] = Len(audit[c])
         /\ charts[c].body = audit[c][Len(audit[c])].print[4]

\* Every receipt kept in the file names its event.
Vouched(c) ==
    \A r \in receipts[c] :
        /\ r.audit \in 1 .. Len(audit[c])
        /\ audit[c][r.audit] = [rev |-> r.rev, print |-> r.print]

\* The inductive invariant.
Inv ==
    /\ Types /\ ReceiptsTrue
    /\ \A c \in Charts : Logged(c) /\ Stored(c) /\ Vouched(c)

\* There is no chart at first.
LEMMA InitInv == ASSUME ConstantsAssumption, Init PROVE Inv
<1> USE DEF Init, ConstantsAssumption
<1>1. NoChart \in Chart
  BY DEF NoChart, Chart, Revisions
<1>2. Types
  <2>1. /\ charts \in [Charts -> Chart] /\ records \in [Charts -> Revisions \cup {NoRecord}]
        /\ receipts \in [Charts -> SUBSET Receipt] /\ audit \in [Charts -> Seq(Entries)]
    BY <1>1
  <2>2. \A c \in Charts : receipts[c] \subseteq Receipt /\ DOMAIN audit[c] = {}  OBVIOUS
  <2>3. ready \in BOOLEAN /\ life = 0 /\ told = {} /\ result \in Outcomes
    BY Zenon DEF Outcomes
  <2>4. generic \in 0 .. MaxGeneric  OBVIOUS
  <2> QED  BY <2>1, <2>2, <2>3, <2>4 DEF Types, TypeOK
<1> QED  BY <1>2 DEF Inv, ReceiptsTrue, Logged, Stored, Vouched, NoChart

\* A write that is applied was made from the last revision there is.
LEMMA MadeFromLatest ==
  ASSUME ConstantsAssumption, Inv, NEW w \in WBSWrite, w.create => w.expected = 0, Acceptable(w)
  PROVE  /\ Current(w) = Len(audit[w.chart]) /\ w.expected = Len(audit[w.chart])
         /\ Len(audit[w.chart]) \in Nat /\ Len(audit[w.chart]) + 1 \in Revisions
         /\ Fingerprint(w) \in Prints
<1> DEFINE c == w.chart
<1>1. c \in Charts /\ w.expected \in Revisions /\ w.create \in BOOLEAN /\ w.body \in Bodies
  BY DEF WBSWrite
<1>2. Stored(c) /\ audit[c] \in Seq(Entries)  BY <1>1 DEF Inv, Types
<1>5. Fingerprint(w) \in Prints  BY <1>1 DEF Fingerprint, Prints
<1>3. CASE w.create
  <2>1. audit[c] = <<>>  BY <1>2, <1>3 DEF Acceptable, Stored, RecordReadable
  <2>2. Len(audit[c]) = 0  BY <2>1
  <2> QED
    BY <1>1, <1>3, <1>5, <2>2 DEF Acceptable, Current, Revisions, ConstantsAssumption
<1>4. CASE ~w.create
  <2>1. records[c] = Len(audit[c])  BY <1>2, <1>4 DEF Acceptable, Stored, RecordReadable
  <2>2. Len(audit[c]) \in Nat  BY <1>2
  <2> QED
    BY <1>1, <1>4, <1>5, <2>1, <2>2 DEF Acceptable, Current, Revisions, ConstantsAssumption
<1> QED  BY <1>3, <1>4

\* Applying it appends one event, and everything there was stays true.
LEMMA AppliedInv ==
  ASSUME ConstantsAssumption, Inv, NEW w \in WBSWrite, w.create => w.expected = 0,
         Acceptable(w), Applied(w), result' \in Outcomes,
         told' \subseteq told \cup {[print |-> Fingerprint(w), rev |-> Current(w) + 1,
                                     audit |-> Len(audit[w.chart]) + 1]}
  PROVE  Inv'
<1> DEFINE c == w.chart
           n == Len(audit[c])
           e == [rev |-> n + 1, print |-> Fingerprint(w)]
           r == [request |-> w.request, print |-> Fingerprint(w), rev |-> n + 1, audit |-> n + 1]
<1>1. c \in Charts /\ w.body \in Bodies /\ w.request \in Requests  BY DEF WBSWrite
<1>2. /\ Current(w) = n /\ w.expected = n /\ n \in Nat /\ n + 1 \in Revisions
      /\ Fingerprint(w) \in Prints
  BY MadeFromLatest
<1>3. e \in Entries /\ r \in Receipt  BY <1>1, <1>2 DEF Entries, Receipt
<1>4. audit[c] \in Seq(Entries) /\ receipts[c] \subseteq Receipt  BY <1>1 DEF Inv, Types
<1>5. audit' = [audit EXCEPT ![c] = Append(audit[c], e)]  BY <1>2 DEF Applied
<1>6. audit'[c] = Append(audit[c], e) /\ \A d \in Charts \ {c} : audit'[d] = audit[d]
  BY <1>1, <1>5 DEF Inv, Types
<1>7. /\ Append(audit[c], e) \in Seq(Entries) /\ Len(Append(audit[c], e)) = n + 1
      /\ Append(audit[c], e)[n + 1] = e
      /\ \A i \in 1 .. n : Append(audit[c], e)[i] = audit[c][i]
  BY <1>3, <1>4
<1>8. audit' \in [Charts -> Seq(Entries)]  BY <1>1, <1>5, <1>7 DEF Inv, Types
<1>9. /\ receipts' = [receipts EXCEPT ![c] = Kept(receipts[c] \cup {r})]
      /\ Kept(receipts[c] \cup {r}) \subseteq receipts[c] \cup {r}
  BY <1>2 DEF Applied, Kept
<1>10. /\ receipts' \in [Charts -> SUBSET Receipt] /\ receipts'[c] \subseteq receipts[c] \cup {r}
       /\ \A d \in Charts \ {c} : receipts'[d] = receipts[d]
  BY <1>1, <1>3, <1>4, <1>9 DEF Inv, Types
<1>11. /\ charts' = [charts EXCEPT ![c] = [kind |-> "wbs_v2", rev |-> n + 1, body |-> w.body]]
       /\ records' = [records EXCEPT ![c] = n + 1]
  BY <1>2 DEF Applied
<1>12. /\ charts' \in [Charts -> Chart] /\ records' \in [Charts -> Revisions \cup {NoRecord}]
       /\ charts'[c] = [kind |-> "wbs_v2", rev |-> n + 1, body |-> w.body] /\ records'[c] = n + 1
       /\ \A d \in Charts \ {c} : charts'[d] = charts[d] /\ records'[d] = records[d]
  BY <1>1, <1>2, <1>11 DEF Inv, Types, TypeOK, Chart
<1>13. Types'
  <2>1. \A d \in Charts : receipts'[d] \subseteq Receipt  BY <1>10
  <2>2. \A d \in Charts : \A i \in DOMAIN audit'[d] :
             audit'[d][i].rev \in Revisions /\ audit'[d][i].print \in Prints
    <3> SUFFICES ASSUME NEW d \in Charts, NEW i \in DOMAIN audit'[d]
                 PROVE  audit'[d][i] \in Entries
      BY DEF Entries
    <3> QED  BY <1>8
  <2>3. \A t \in told' : t.print \in Prints  BY <1>2 DEF Inv, Types
  <2>4. UNCHANGED <<ready, life, generic>>  BY DEF Applied
  <2> QED  BY <1>8, <1>10, <1>12, <2>1, <2>2, <2>3, <2>4 DEF Types, TypeOK, Inv
<1>14. ReceiptsTrue'
  <2> SUFFICES ASSUME NEW t \in told'
               PROVE  /\ t.audit \in DOMAIN audit'[t.print[1]]
                      /\ audit'[t.print[1]][t.audit] = [rev |-> t.rev, print |-> t.print]
    BY DEF ReceiptsTrue
  <2>1. CASE t \in told
    <3>1. t.print[1] \in Charts  BY <2>1 DEF Inv, Types, Prints
    <3>2. /\ t.audit \in DOMAIN audit[t.print[1]]
          /\ audit[t.print[1]][t.audit] = [rev |-> t.rev, print |-> t.print]
      BY <2>1 DEF Inv, ReceiptsTrue
    <3>3. CASE t.print[1] = c  BY <1>4, <1>6, <1>7, <3>2, <3>3
    <3>4. CASE t.print[1] # c  BY <1>6, <3>1, <3>2, <3>4
    <3> QED  BY <3>3, <3>4
  <2>2. CASE t = [print |-> Fingerprint(w), rev |-> Current(w) + 1, audit |-> n + 1]
    <3>1. t.print[1] = c /\ t.audit = n + 1 /\ t.rev = n + 1 /\ t.print = Fingerprint(w)
      BY <1>2, <2>2 DEF Fingerprint
    <3>2. n + 1 \in DOMAIN Append(audit[c], e)  BY <1>2, <1>7
    <3> QED  BY <1>6, <1>7, <3>1, <3>2
  <2> QED  BY <2>1, <2>2
<1>15. ASSUME NEW d \in Charts PROVE (Logged(d) /\ Stored(d) /\ Vouched(d))'
  <2>1. CASE d # c
    BY <1>6, <1>10, <1>12, <2>1 DEF Inv, Logged, Stored, Vouched, RecordReadable
  <2>2. CASE d = c
    <3>1. Logged(c)'
      <4>1. Fingerprint(w)[1] = c /\ Fingerprint(w)[2] = n  BY <1>2 DEF Fingerprint
      <4>2. \A i \in 1 .. n : audit[c][i].rev = i /\ audit[c][i].print[1] = c
                              /\ audit[c][i].print[2] = i - 1
        BY <1>1 DEF Inv, Logged
      <4>3. \A i \in 1 .. n + 1 : i \in 1 .. n \/ i = n + 1  BY <1>2
      <4> QED  BY <1>2, <1>6, <1>7, <4>1, <4>2, <4>3 DEF Logged
    <3>2. Stored(c)'
      <4>1. Append(audit[c], e) # <<>>  BY <1>2, <1>7
      <4>2. Fingerprint(w)[4] = w.body  BY DEF Fingerprint
      <4>3. n + 1 # NoRecord  BY <1>2 DEF NoRecord
      <4> QED  BY <1>6, <1>7, <1>12, <4>1, <4>2, <4>3 DEF Stored, RecordReadable
    <3>3. Vouched(c)'
      <4>1. \A q \in receipts[c] : q.audit \in 1 .. n
                /\ audit[c][q.audit] = [rev |-> q.rev, print |-> q.print]
        BY <1>1 DEF Inv, Vouched
      <4>2. r.audit = n + 1 /\ r.rev = n + 1 /\ r.print = Fingerprint(w)  OBVIOUS
      <4>3. 1 .. n \subseteq 1 .. n + 1 /\ n + 1 \in 1 .. n + 1  BY <1>2
      <4> SUFFICES ASSUME NEW q \in receipts'[c]
                   PROVE  /\ q.audit \in 1 .. n + 1
                          /\ Append(audit[c], e)[q.audit] = [rev |-> q.rev, print |-> q.print]
        BY <1>6, <1>7 DEF Vouched
      <4>4. CASE q \in receipts[c]  BY <1>7, <4>1, <4>3, <4>4
      <4>5. CASE q = r  BY <1>7, <4>2, <4>3, <4>5
      <4> QED  BY <1>10, <4>4, <4>5
    <3> QED  BY <2>2, <3>1, <3>2, <3>3
  <2> QED  BY <2>1, <2>2
<1> QED  BY <1>13, <1>14, <1>15 DEF Inv

\* No session and no other writer touches a chart that has a history.
LEMMA NextInv == ASSUME ConstantsAssumption, Inv, [Next]_vars PROVE Inv'
<1>1. CASE UNCHANGED <<charts, records, receipts, audit>> /\ Types' /\ ReceiptsTrue'
  BY <1>1 DEF Inv, Logged, Stored, Vouched, RecordReadable
<1>2. ASSUME UNCHANGED <<charts, records, receipts, audit>>,
             ready' \in BOOLEAN /\ life' \in Lifetimes \cup {0}
             /\ result' \in Outcomes /\ generic' \in 0 .. MaxGeneric,
             told' = told
      PROVE  Inv'
  <2>1. Types' /\ ReceiptsTrue'  BY <1>2 DEF Inv, Types, TypeOK, ReceiptsTrue
  <2> QED  BY <1>1, <1>2, <2>1
<1>3. CASE UNCHANGED vars  BY <1>2, <1>3 DEF vars, Inv, Types, TypeOK
<1>4. CASE OpenWBSStore
  <2>1. ready' \in BOOLEAN  BY <1>4, Zenon DEF OpenWBSStore, Inv, Types, TypeOK
  <2>2. life' \in Lifetimes \cup {0}  BY <1>4, Zenon DEF OpenWBSStore, Inv, Types, TypeOK
  <2> QED  BY <1>2, <1>4, <2>1, <2>2 DEF OpenWBSStore, Inv, Types, TypeOK
<1>5. CASE Close
  BY <1>2, <1>5 DEF Close, Inv, Types, TypeOK
<1>6. CASE Save
  <2>1. PICK w \in WBSWrite : \/ SaveRefused(w) \/ SaveKnown(w) \/ SaveRejected(w)
                              \/ SaveApplied(w) \/ SaveIndeterminate(w)
    BY <1>6 DEF Save
  <2>2. CASE SaveRefused(w) \/ SaveRejected(w)
    <3>1. Unchanged /\ result' \in Outcomes
      BY <2>2 DEF SaveRefused, SaveRejected, Answer, Outcomes
    <3> QED  BY <1>2, <3>1 DEF Unchanged, Inv, Types, TypeOK
  <2>3. CASE SaveKnown(w)
    <3>1. w.chart \in Charts  BY DEF WBSWrite
    <3>2. PICK r \in Present(w) :
              IF r.print # Fingerprint(w)
              THEN Answer("reuse") /\ UNCHANGED told
              ELSE /\ Answer("replayed")
                   /\ told' = told \cup {[print |-> Fingerprint(w), rev |-> r.rev, audit |-> r.audit]}
      BY <2>3 DEF SaveKnown
    <3>3. UNCHANGED <<charts, records, receipts, ready, life, audit, generic>>
      BY <2>3 DEF SaveKnown
    <3>4. result' \in Outcomes  BY <3>2 DEF Answer, Outcomes
    <3>5. CASE UNCHANGED told  BY <1>2, <3>3, <3>4, <3>5 DEF Inv, Types, TypeOK
    <3>6. CASE /\ r.print = Fingerprint(w)
               /\ told' = told \cup {[print |-> Fingerprint(w), rev |-> r.rev, audit |-> r.audit]}
      <4>1. r \in receipts[w.chart] /\ r \in Receipt
        BY <3>1 DEF Present, Inv, Types
      <4>2. /\ r.audit \in 1 .. Len(audit[w.chart])
            /\ audit[w.chart][r.audit] = [rev |-> r.rev, print |-> r.print]
        BY <3>1, <4>1 DEF Inv, Vouched
      <4>3. Fingerprint(w)[1] = w.chart /\ Fingerprint(w) \in Prints
        BY <3>6, <4>1 DEF Fingerprint, Receipt
      <4>4. 1 .. Len(audit[w.chart]) = DOMAIN audit[w.chart]  BY <3>1 DEF Inv, Types
      <4>5. ReceiptsTrue'
        <5> SUFFICES ASSUME NEW t \in told'
                     PROVE  /\ t.audit \in DOMAIN audit[t.print[1]]
                            /\ audit[t.print[1]][t.audit] = [rev |-> t.rev, print |-> t.print]
          BY <3>3 DEF ReceiptsTrue
        <5>1. CASE t \in told  BY <5>1 DEF ReceiptsTrue, Inv
        <5>2. CASE t = [print |-> Fingerprint(w), rev |-> r.rev, audit |-> r.audit]
          BY <3>6, <4>2, <4>3, <4>4, <5>2
        <5> QED  BY <3>6, <5>1, <5>2
      <4>6. Types'  BY <3>3, <3>4, <3>6, <4>3 DEF Inv, Types, TypeOK
      <4> QED  BY <1>1, <3>3, <4>5, <4>6
    <3> QED  BY <3>2, <3>5, <3>6
  <2>4. CASE SaveApplied(w)
    <3>1. result' \in Outcomes  BY <2>4 DEF SaveApplied, Answer, Outcomes
    <3> QED  BY <2>4, <3>1, AppliedInv DEF SaveApplied
  <2>5. CASE SaveIndeterminate(w)
    <3>1. result' \in Outcomes  BY <2>5 DEF SaveIndeterminate, Answer, Outcomes
    <3>2. CASE Applied(w)  BY <2>5, <3>1, <3>2, AppliedInv DEF SaveIndeterminate
    <3>3. CASE ~Applied(w)
      <4>1. UNCHANGED <<charts, records, receipts, ready, life, audit, generic, told>>
        BY <2>5, <3>3, Zenon DEF SaveIndeterminate
      <4> QED  BY <1>2, <3>1, <4>1 DEF Inv, Types, TypeOK
    <3> QED  BY <3>2, <3>3
  <2> QED  BY <2>1, <2>2, <2>3, <2>4, <2>5
<1>7. ASSUME NEW c \in Charts, ~Protected(c), NEW x \in Chart, x.kind # "wbs_v2",
             charts' = [charts EXCEPT ![c] = x], generic' \in 0 .. MaxGeneric,
             UNCHANGED <<records, receipts, ready, life, audit, told, result>>
      PROVE  Inv'
  <2>1. audit[c] = <<>>  BY <1>7 DEF Protected, Inv, Stored, RecordReadable
  <2>2. charts' \in [Charts -> Chart] /\ charts'[c] = x
        /\ \A d \in Charts \ {c} : charts'[d] = charts[d]
    BY <1>7 DEF Inv, Types, TypeOK
  <2>3. Types' /\ ReceiptsTrue'  BY <1>7, <2>2 DEF Inv, Types, TypeOK, ReceiptsTrue
  <2>4. ASSUME NEW d \in Charts PROVE (Logged(d) /\ Stored(d) /\ Vouched(d))'
    BY <1>7, <2>1, <2>2 DEF Inv, Logged, Stored, Vouched, RecordReadable
  <2> QED  BY <2>3, <2>4 DEF Inv
<1>8. CASE SaveChart
  <2>1. PICK c \in Charts, b \in Bodies :
            /\ generic < MaxGeneric /\ ~Protected(c)
            /\ charts' = [charts EXCEPT ![c] = [kind |-> "other", rev |-> 0, body |-> b]]
            /\ generic' = generic + 1
            /\ UNCHANGED <<records, receipts, ready, life, audit, told, result>>
    BY <1>8 DEF SaveChart
  <2>2. [kind |-> "other", rev |-> 0, body |-> b] \in Chart
    BY DEF Chart, Revisions, ConstantsAssumption
  <2>3. generic' \in 0 .. MaxGeneric  BY <2>1 DEF Inv, Types, TypeOK, ConstantsAssumption
  <2> QED  BY <1>7, <2>1, <2>2, <2>3
<1>9. CASE DeleteChart
  <2>1. NoChart \in Chart /\ NoChart.kind # "wbs_v2"
    BY DEF NoChart, Chart, Revisions, ConstantsAssumption
  <2>2. generic' \in 0 .. MaxGeneric  BY <1>9 DEF DeleteChart, Inv, Types, TypeOK
  <2> QED  BY <1>7, <1>9, <2>1, <2>2 DEF DeleteChart
<1> QED  BY <1>3, <1>4, <1>5, <1>6, <1>8, <1>9 DEF Next

\* WBSStore.Save, sent again after lost answers and beside the generic chart writers:
\* every revision follows the one before it, a write is applied at most once although
\* its receipt may be gone, and every receipt a client got is true.
THEOREM WritesApplyOnce ==
  ASSUME ConstantsAssumption
  PROVE  Spec => [](TypeOK /\ ReceiptsTrue /\ HistoryWithoutGaps /\ AppliedOnce)
<1>1. Init => Inv  BY InitInv
<1>2. Inv /\ [Next]_vars => Inv'  BY NextInv
<1>3. Inv => TypeOK /\ ReceiptsTrue /\ HistoryWithoutGaps /\ AppliedOnce
  <2> SUFFICES ASSUME Inv PROVE HistoryWithoutGaps /\ AppliedOnce
    BY DEF Inv, Types
  <2>1. \A c \in Charts : DOMAIN audit[c] = 1 .. Len(audit[c])  BY DEF Inv, Types
  <2>2. HistoryWithoutGaps
    BY <2>1 DEF HistoryWithoutGaps, Inv, Logged, Stored
  <2>3. AppliedOnce
    <3> SUFFICES ASSUME NEW c \in Charts, NEW i \in 1 .. Len(audit[c]), NEW j \in 1 .. Len(audit[c]),
                        audit[c][i].print = audit[c][j].print
                 PROVE  i = j
      BY <2>1 DEF AppliedOnce
    <3>1. Len(audit[c]) \in Nat  BY DEF Inv, Types
    <3>2. audit[c][i].print[2] = i - 1 /\ audit[c][j].print[2] = j - 1  BY DEF Inv, Logged
    <3> QED  BY <3>1, <3>2
  <2> QED  BY <2>2, <2>3
<1> QED  BY <1>1, <1>2, <1>3, PTL DEF Spec

=============================================================================

------------------------------ MODULE Exports ------------------------------
(***************************************************************************)
(* The exports of the open project: every bound call that writes a file   *)
(* chosen by the user.  Calls run concurrently with each other, with the   *)
(* saves of the document they export, and with whatever the user puts     *)
(* into the folder; the process may end at any point.                     *)
(*                                                                         *)
(* An export is published by exportfs.WriteNewPrivateStream: a complete   *)
(* temporary file, then a hard link to the destination, then the removal  *)
(* of the temporary name.  A destination is a pair of a base name and     *)
(* an artifact: the file itself ("main"), the provenance manifest next     *)
(* to it ("manifest") or the detached signature ("asc").                  *)
(***************************************************************************)
EXTENDS Naturals, FiniteSets, Sequences

CONSTANTS
    Calls,      \* the calls of one behaviour
    Bases,      \* the names the user may choose
    Jobs,       \* the jobs the user may start, a subset of AllJobs
    MaxEdits    \* how many times the document is saved, and events added

(***************************************************************************)
(* The jobs: the exports that read, render and write (documents, schedule, *)
(* risk, sigma and financial reports, calendar, verification report);     *)
(* the combined report, as a draft or certified; both signed with GnuPG;  *)
(* both signed in the PDF; the evidence of the audit trail.  Their heads  *)
(* differ in what they read before they look at the destination.          *)
(***************************************************************************)
Route == [
    plain     |-> <<"read", "create">>,
    evidence  |-> <<"verify", "rows", "create">>,
    draft     |-> <<"look", "preflight", "read", "create">>,
    certified |-> <<"look", "preflight", "read", "create">>,
    gpg       |-> <<"read", "look", "create">>,
    draftgpg  |-> <<"look", "preflight", "read", "create">>,
    pades     |-> <<"read", "look", "timestamp", "sign", "create">>,
    reportpades |-> <<"look", "timestamp", "read", "sign", "create">>]

AllJobs == DOMAIN Route
Combined == {"draft", "certified", "draftgpg"}
Gpg == {"gpg", "draftgpg"}
PAdES == {"pades", "reportpades"}

ExportsAssumption ==
    MaxEdits \in Nat /\ Jobs \subseteq AllJobs /\ Calls \cap {"user", "nobody"} = {}

VARIABLES
    doc,     \* the document: its version and whether that one is approved
    events,  \* the number of events of the audit trail
    files,   \* what is at every destination
    temps,   \* the temporary file of every call
    calls,   \* the calls
    log      \* the signature outcomes the audit trail has

vars == <<doc, events, files, temps, calls, log>>

NoFile == [by |-> "nobody"]
UserFile == [by |-> "user"]
Destinations == Bases \X {"main", "manifest", "asc"}
Docs == [version : 0 .. MaxEdits, approved : BOOLEAN]

Artifact(c, of, level, whole) == [by |-> c, of |-> of, level |-> level, whole |-> whole]

\* The destinations a job writes, in the order it writes them.
Artifacts(job) ==
    CASE job \in Combined \cap Gpg -> <<"main", "manifest", "asc">>
      [] job \in Combined \ Gpg   -> <<"main", "manifest">>
      [] job \in Gpg \ Combined   -> <<"main", "asc">>
      [] OTHER                    -> <<"main">>

Idle == [pc |-> "idle", job |-> "plain", base |-> CHOOSE b \in Bases : TRUE, at |-> 1,
         read |-> [version |-> 0, approved |-> FALSE], seen |-> 0, rows |-> 0, stamp |-> FALSE,
         level |-> "unsigned",
         result |-> "none"]

Init ==
    /\ doc = [version |-> 0, approved |-> FALSE]
    /\ events = 0
    /\ files = [p \in Destinations |-> NoFile]
    /\ temps = [c \in Calls |-> NoFile]
    /\ calls = [c \in Calls |-> Idle]
    /\ log = {}

Go(c, pc) == calls' = [calls EXCEPT ![c].pc = pc]

\* What follows in the head of the call.
After(c) ==
    LET route == Route[calls[c].job]
    IN route[(CHOOSE i \in DOMAIN route : route[i] = calls[c].pc) + 1]

Destination(c) == <<calls[c].base, Artifacts(calls[c].job)[calls[c].at]>>

\* A signing job that fails records it; the record itself may fail to be
\* written, and the exports signed with GnuPG record only the failures of
\* rendering the report and of gpg.
Fail(c, recorded) ==
    /\ calls' = [calls EXCEPT ![c].pc = "done", ![c].result = "error"]
    /\ log' \in {log, IF recorded THEN log \cup {[call |-> c, ok |-> FALSE]} ELSE log}

-----------------------------------------------------------------------------
(***************************************************************************)
(* The head of a call: the base name is chosen in the save dialog, and the *)
(* jobs that write more than one file, or sign, look whether all their     *)
(* destinations are free (ensureExportDestinationsAvailable).              *)
(***************************************************************************)
Start(c, job, base) ==
    /\ calls[c].pc = "idle"
    /\ job \in Jobs
    /\ calls' = [calls EXCEPT ![c].pc = Route[job][1], ![c].job = job, ![c].base = base]
    /\ UNCHANGED <<doc, events, files, temps, log>>

\* The bound calls that export.  Those of the first group read what they
\* show, render it, and write one file.
ExportDocumentAs(c, base) == Start(c, "plain", base)
ExportDocumentPDF(c, base) == Start(c, "plain", base)
ExportScheduleReportAs(c, base) == Start(c, "plain", base)
ExportChartMonteCarloRiskReport(c, base) == Start(c, "plain", base)
ExportFinancialReportPDF(c, base) == Start(c, "plain", base)
SigmaExportProjectReport(c, base) == Start(c, "plain", base)
ExportProjectICS(c, base) == Start(c, "plain", base)
ExportAuditVerificationReport(c, base) == Start(c, "plain", base)
ExportCostEntryAttachmentsZip(c, base) == Start(c, "plain", base)
SaveRecoveryCodes(c, base) == Start(c, "plain", base)

ExportAuditRepairEvidence(c, base) == Start(c, "evidence", base)
ExportDocumentPDFGnuPG(c, base) == Start(c, "gpg", base)
ExportDocumentPDFSigned(c, base) == Start(c, "pades", base)
ExportCombinedReportWithOptions(c, base) == \E job \in {"draft", "certified"} : Start(c, job, base)
ExportCombinedReportGnuPG(c, base) == Start(c, "draftgpg", base)
ExportCombinedReportSigned(c, base) == Start(c, "reportpades", base)

Export(c, base) ==
    \/ ExportDocumentAs(c, base)
    \/ ExportDocumentPDF(c, base)
    \/ ExportScheduleReportAs(c, base)
    \/ ExportChartMonteCarloRiskReport(c, base)
    \/ ExportFinancialReportPDF(c, base)
    \/ SigmaExportProjectReport(c, base)
    \/ ExportProjectICS(c, base)
    \/ ExportAuditVerificationReport(c, base)
    \/ ExportCostEntryAttachmentsZip(c, base)
    \/ SaveRecoveryCodes(c, base)
    \/ ExportAuditRepairEvidence(c, base)
    \/ ExportDocumentPDFGnuPG(c, base)
    \/ ExportDocumentPDFSigned(c, base)
    \/ ExportCombinedReportWithOptions(c, base)
    \/ ExportCombinedReportGnuPG(c, base)
    \/ ExportCombinedReportSigned(c, base)

EnsureAvailable(c) ==
    /\ calls[c].pc = "look"
    /\ \/ /\ \A i \in DOMAIN Artifacts(calls[c].job) :
               files[<<calls[c].base, Artifacts(calls[c].job)[i]>>] = NoFile
          /\ Go(c, After(c))
          /\ UNCHANGED log
       \/ \* one is taken or cannot be inspected, or the document does not render
          Fail(c, FALSE)
    /\ UNCHANGED <<doc, events, files, temps>>

\* The signing settings, which another call may change at any time, are
\* read once, before anything is rendered: they ask for a timestamp or not,
\* or are invalid.
PrepareTimestamp(c) ==
    /\ calls[c].pc = "timestamp"
    /\ \/ /\ \E stamp \in BOOLEAN : calls' = [calls EXCEPT ![c].pc = After(c), ![c].stamp = stamp]
          /\ UNCHANGED log
       \/ Fail(c, TRUE)
    /\ UNCHANGED <<doc, events, files, temps>>

\* The quality findings of a combined report; a certified one needs the
\* selected documents approved.
Preflight(c) ==
    /\ calls[c].pc = "preflight"
    /\ IF calls[c].job = "certified" /\ ~doc.approved
       THEN Fail(c, FALSE)
       ELSE Go(c, After(c)) /\ UNCHANGED log
    /\ UNCHANGED <<doc, events, files, temps>>

\* The document is read and rendered: one read gives the content of the
\* file and the rows of the manifest.  Rendering may fail.
Read(c) ==
    /\ calls[c].pc = "read"
    /\ \/ /\ calls' = [calls EXCEPT ![c].read = doc, ![c].pc = After(c)]
          /\ UNCHANGED log
       \/ Fail(c, calls[c].job \in {"draftgpg", "reportpades"})
    /\ UNCHANGED <<doc, events, files, temps>>

\* The evidence file holds the result of a verification of the audit trail
\* and, from a second query, the rows.
VerifyEvidence(c) ==
    /\ calls[c].pc = "verify"
    /\ calls' = [calls EXCEPT ![c].pc = After(c), ![c].seen = events]
    /\ UNCHANGED <<doc, events, files, temps, log>>

ListEvidence(c) ==
    /\ calls[c].pc = "rows"
    /\ calls' = [calls EXCEPT ![c].pc = After(c), ![c].rows = events]
    /\ UNCHANGED <<doc, events, files, temps, log>>

\* ApplyPAdES: with a prepared timestamp the authority is asked, and a
\* failure yields no bytes.
ApplyPAdES(c) ==
    /\ calls[c].pc = "sign"
    /\ \/ /\ calls' = [calls EXCEPT ![c].pc = After(c), ![c].level = IF calls[c].stamp THEN "T" ELSE "B"]
          /\ UNCHANGED log
       \/ Fail(c, TRUE)
    /\ UNCHANGED <<doc, events, files, temps>>

-----------------------------------------------------------------------------
(***************************************************************************)
(* WriteNewPrivateStream, for the artifact the call is at.                 *)
(***************************************************************************)
Recorded(c) == calls[c].job \in PAdES \/ (calls[c].job = "draftgpg" /\ calls[c].at < 3)

\* The file a detached signature is made of is read from its destination.
Content(c) ==
    IF Destination(c)[2] = "asc" THEN files[<<calls[c].base, "main">>].of ELSE calls[c].read

Create(c) ==
    /\ calls[c].pc = "create"
    /\ \/ /\ files[Destination(c)] = NoFile
          /\ temps' = [temps EXCEPT ![c] = Artifact(c, Content(c), calls[c].level, FALSE)]
          /\ Go(c, "write")
          /\ UNCHANGED log
       \/ \* the destination exists, or no temporary file can be made
          UNCHANGED temps /\ Fail(c, Recorded(c))
    /\ UNCHANGED <<doc, events, files>>

Write(c) ==
    /\ calls[c].pc = "write"
    /\ \/ /\ temps' = [temps EXCEPT ![c].whole = TRUE]
          /\ Go(c, "link")
          /\ UNCHANGED log
       \/ \* the write or the sync fails; the removal of the file is not checked
          /\ temps' \in {[temps EXCEPT ![c] = NoFile], temps}
          /\ Fail(c, Recorded(c))
    /\ UNCHANGED <<doc, events, files>>

\* A mistaken reading: the temporary file is renamed over the destination.
LinkRename(c) ==
    /\ calls[c].pc = "link"
    /\ files' = [files EXCEPT ![Destination(c)] = temps[c]]
    /\ Go(c, "unlink")
    /\ UNCHANGED <<doc, events, temps, log>>

\* The link fails when something has come to the destination meanwhile.
Link(c) ==
    /\ calls[c].pc = "link"
    /\ \/ /\ files[Destination(c)] = NoFile
          /\ files' = [files EXCEPT ![Destination(c)] = temps[c]]
          /\ Go(c, "unlink")
          /\ UNCHANGED <<temps, log>>
       \/ /\ temps' \in {[temps EXCEPT ![c] = NoFile], temps}
          /\ Fail(c, Recorded(c))
          /\ UNCHANGED files
    /\ UNCHANGED <<doc, events>>

\* A removal that fails is an error of the call, although the file is out.
\* Otherwise the call goes on to its next artifact: the manifest is written
\* from what was read, the signature after gpg has signed the file.
Unlink(c) ==
    /\ calls[c].pc = "unlink"
    /\ \/ /\ temps' = [temps EXCEPT ![c] = NoFile]
          /\ LET job == calls[c].job
                 last == calls[c].at = Len(Artifacts(job))
             IN IF last
                THEN /\ calls' = [calls EXCEPT ![c].pc = "done", ![c].result = "ok"]
                     /\ log' \in {log, IF job \in Gpg \cup PAdES THEN log \cup {[call |-> c, ok |-> TRUE]} ELSE log}
                ELSE /\ calls' = [calls EXCEPT ![c].at = @ + 1,
                                               ![c].pc = IF Artifacts(job)[calls[c].at + 1] = "asc" THEN "gpg" ELSE "create"]
                     /\ UNCHANGED log
       \/ temps' \in {[temps EXCEPT ![c] = NoFile], temps} /\ Fail(c, Recorded(c))
    /\ UNCHANGED <<doc, events, files>>

\* A mistaken reading: a failure of gpg is taken for a signature made.
SignDetachedUnchecked(c) ==
    /\ calls[c].pc = "gpg"
    /\ \/ Go(c, "create") /\ UNCHANGED log
       \/ /\ calls' = [calls EXCEPT ![c].pc = "done", ![c].result = "ok"]
          /\ log' = log \cup {[call |-> c, ok |-> TRUE]}
    /\ UNCHANGED <<doc, events, files, temps>>

\* gpg is run on the file written, for at most two minutes.
SignDetached(c) ==
    /\ calls[c].pc = "gpg"
    /\ \/ Go(c, "create") /\ UNCHANGED log
       \/ Fail(c, TRUE)
    /\ UNCHANGED <<doc, events, files, temps>>

-----------------------------------------------------------------------------
\* The document is saved, and approved or not, by another call.
SaveDocument ==
    /\ doc.version < MaxEdits
    /\ \E approved \in BOOLEAN : doc' = [version |-> doc.version + 1, approved |-> approved]
    /\ UNCHANGED <<events, files, temps, calls, log>>

\* An event is added to the audit trail.
AppendEvent ==
    /\ events < MaxEdits
    /\ events' = events + 1
    /\ UNCHANGED <<doc, files, temps, calls, log>>

\* Somebody else puts a file at a destination.
UserPuts(p) ==
    /\ files[p] = NoFile
    /\ files' = [files EXCEPT ![p] = UserFile]
    /\ UNCHANGED <<doc, events, temps, calls, log>>

\* The process ends: the calls are gone, what is on the disk stays.
Crash ==
    /\ \E c \in Calls : calls[c].pc \notin {"idle", "done"}
    /\ calls' = [c \in Calls |-> IF calls[c].pc = "idle" THEN calls[c] ELSE [calls[c] EXCEPT !.pc = "done"]]
    /\ UNCHANGED <<doc, events, files, temps, log>>

Step(c) ==
    \/ \E base \in Bases : Export(c, base)
    \/ EnsureAvailable(c)
    \/ PrepareTimestamp(c)
    \/ Preflight(c)
    \/ Read(c)
    \/ VerifyEvidence(c)
    \/ ListEvidence(c)
    \/ ApplyPAdES(c)
    \/ Create(c)
    \/ Write(c)
    \/ Link(c)
    \/ Unlink(c)
    \/ SignDetached(c)

Next ==
    \/ \E c \in Calls : Step(c)
    \/ SaveDocument
    \/ AppendEvent
    \/ \E p \in Destinations : UserPuts(p)
    \/ Crash

Spec == Init /\ [][Next]_vars

-----------------------------------------------------------------------------
Pcs == {"idle", "look", "timestamp", "preflight", "read", "verify", "rows", "sign", "create", "write", "link", "unlink", "gpg", "done"}
Files == {NoFile, UserFile} \cup
    [by : Calls, of : Docs, level : {"unsigned", "B", "T"}, whole : BOOLEAN]

\* The type invariant of the module.
TypeOK ==
    /\ doc \in Docs
    /\ events \in 0 .. MaxEdits
    /\ \A p \in Destinations : files[p] \in Files
    /\ \A c \in Calls : temps[c] \in Files \ {UserFile}
    /\ \A c \in Calls :
         /\ calls[c].pc \in Pcs
         /\ calls[c].job \in Jobs \cup {"plain"}
         /\ calls[c].at \in DOMAIN Artifacts(calls[c].job)
         /\ calls[c].read \in Docs
         /\ calls[c].result \in {"none", "ok", "error"}
    /\ log \subseteq [call : Calls, ok : BOOLEAN]

\* An export never replaces a file, whoever made it and whenever it came
\* to the destination (WriteNewPrivateStream).
NothingReplaced ==
    \A p \in Destinations : files[p] # NoFile => files'[p] = files[p]

By(c) == {p \in Destinations : files[p].by = c}

\* What is at a destination is whole, also after a crash in the middle of
\* the export (the link follows the sync).
PublishedWhole ==
    \A c \in Calls : \A p \in By(c) : files[p].whole

\* The manifest and the detached signature of a call are about the bytes of
\* the file it wrote, although the document is saved while it runs
\* (resolveSections, ExportDocumentPDFGnuPG).
SidecarsDescribe ==
    \A c \in Calls, b \in Bases, a \in {"manifest", "asc"} :
        <<b, a>> \in By(c) =>
            /\ <<b, "main">> \in By(c)
            /\ files[<<b, a>>].of = files[<<b, "main">>].of

\* A signed PDF has the level the settings asked for when they were read:
\* a failing timestamp authority produces no file, never a lesser signature
\* (ApplyPAdES, ExportCombinedReportSigned).
FailsClosed ==
    \A c \in Calls : calls[c].job \in PAdES =>
        \A p \in By(c) : files[p].level = IF calls[c].stamp THEN "T" ELSE "B"

\* A call that succeeded, or whose signature the audit trail records as
\* made, has all its files at their destinations (LogDocumentSignatureOutcome
\* and logCombinedReportSignatureEventWithStatus come last).
SuccessComplete ==
    \A c \in Calls :
        (calls[c].result = "ok" \/ [call |-> c, ok |-> TRUE] \in log) =>
            \A i \in DOMAIN Artifacts(calls[c].job) : <<calls[c].base, Artifacts(calls[c].job)[i]>> \in By(c)

\* A certified report is made of approved versions (reporting.Service.Export
\* after Preflight).  It does not hold: the documents are read again after
\* they were found approved.
CertifiedApproved ==
    \A c \in Calls : calls[c].job = "certified" => \A p \in By(c) : files[p].of.approved

\* The rows of an evidence file are the rows its verification result is
\* about (ExportAuditRepairEvidence).  It does not hold: they are read by
\* two queries.
EvidenceConsistent ==
    \A c \in Calls : calls[c].job = "evidence" =>
        (By(c) # {} => calls[c].rows = calls[c].seen)
=============================================================================

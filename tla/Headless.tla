------------------------------ MODULE Headless ------------------------------
(***************************************************************************)
(* The command line's project commands: which handle openHeadlessDB opens, *)
(* which of several commands runs, what it writes and how it exits, while  *)
(* the desktop process may have the same project open.                     *)
(*                                                                         *)
(* A name is a base with a journal suffix, each in its usual or in the     *)
(* other case; where the directory folds case both are one name.  A name   *)
(* is a symbolic link, or refers to a file (a number) that other names may *)
(* refer to as well.  Folders on the way to a name are resolved already.   *)
(***************************************************************************)
EXTENDS Naturals, Sequences, FiniteSets

CONSTANTS FlagSets,      \* sets of command flags that are given together
          Endings,       \* no ending and the journals' suffixes
          Given,         \* names a command line may give
          Aliases,       \* what another name in the folder may be
          Encrypted,     \* whether the project may be encrypted
          Tables,        \* tables that --stats counts
          Shapes,        \* what a table of the project may be at first
          Seals,         \* whether --encrypt may be given
          Damages,       \* whether the project may be damaged
          Upper,         \* what the project's name in the other case may be
          MaxFiles       \* bound: files ever made

VARIABLES folds,     \* the directory folds case
          fs,        \* name -> [kind, ino, to]
          content,   \* file -> what it holds
          next,      \* the next file
          tables,    \* table -> "absent", "empty", "partial" or "whole"
          damaged,   \* integrity_check finds damage
          cfg,       \* the command line, or NoCommand
          h,         \* where the command is
          was        \* tables when the command started

vars == <<folds, fs, content, next, tables, damaged, cfg, h, was>>

\* The ending of a name that is not a journal's.
Plain == ""

BaseNames == {"project", "alias", "link"}
Names == [base : BaseNames, sfx : Endings, bup : BOOLEAN, sup : BOOLEAN]
Name(b) == [base |-> b, sfx |-> Plain, bup |-> FALSE, sup |-> FALSE]
Project == Name("project")
Alias == Name("alias")
Link == Name("link")
With(n, s) == [n EXCEPT !.sfx = s, !.sup = FALSE]

Nothing == [kind |-> "absent"]
File(i) == [kind |-> "file", ino |-> i]
LinkTo(n) == [kind |-> "link", to |-> n]

\* There is the log beside the project's plain name; of the files there are at first, the
\* project is 1, its log 2, and 3 any other.
HeadlessAssumption ==
  /\ MaxFiles \in Nat \ {0, 1, 2}
  /\ {Plain, "-wal"} \subseteq Endings /\ Given \subseteq Names
  /\ Aliases \subseteq {Nothing, File(1), File(2), File(3)} \cup {LinkTo(n) : n \in Names}
  /\ Upper \subseteq {Nothing, File(1), File(3)}
  /\ Shapes \subseteq {"absent", "empty", "partial", "whole"}

Key(n) == IF folds THEN [n EXCEPT !.bup = FALSE, !.sup = FALSE] ELSE n
Entry(n) == fs[Key(n)]

NoCommand == [flags |-> {}]
Idle == [at |-> "idle"]
Exit(code) == [at |-> "exited", code |-> code]

\* The order of the cases of runHeadless: with several flags the first one runs.
Order == <<"check", "repair", "vacuum", "export-audit", "stats", "schema-dump", "export">>
FirstOf(flags) == Order[CHOOSE i \in DOMAIN Order : /\ Order[i] \in flags
                                                   /\ \A j \in 1 .. i - 1 : Order[j] \notin flags]
Chosen == FirstOf(cfg.flags)
Writers == {"repair", "vacuum"}

-----------------------------------------------------------------------------
(* What a name refers to.  At most two names are links, so three hops end. *)
Hop(n) == IF Entry(n).kind = "link" THEN Entry(n).to ELSE n
resolveExportDestination(n) == Hop(Hop(Hop(n)))
Loops(n) == Entry(resolveExportDestination(n)).kind = "link"
Stat(n) == LET e == Entry(resolveExportDestination(n)) IN IF e.kind = "file" THEN e.ino ELSE 0

exportDirectoryFoldsCase(src) == Stat([src EXCEPT !.bup = ~@]) = Stat(src)

CheckExportDestination(src, path) ==
  LET d == resolveExportDestination(path)
      prefix == With(d, Plain)
  IN  /\ ~Loops(path)
      /\ \A s \in Endings :
           /\ d # With(src, s)
           /\ Stat(d) # 0 => Stat(With(src, s)) # Stat(d)
           /\ (s # Plain /\ d.sfx = s) =>
                /\ ~Loops(prefix)
                /\ Stat(prefix) = Stat(src) => (d.sup /\ ~exportDirectoryFoldsCase(src))

-----------------------------------------------------------------------------
Init ==
  /\ folds \in BOOLEAN
  /\ \E a \in Aliases, l \in {e \in Aliases : e.kind # "file"},
        wal \in {Nothing, File(2)}, up \in Upper :
       /\ folds => up = Nothing
       /\ ~(a = File(2) /\ up = File(1))   \* not the project and its log both hard linked
       /\ fs = [n \in Names |-> CASE n = Project -> File(1)
                                  [] n = Alias -> a
                                  [] n = Link -> l
                                  [] n = With(Project, "-wal") -> wal
                                  [] n = [Project EXCEPT !.bup = TRUE] -> up
                                  [] OTHER -> Nothing]
  /\ content = [i \in 1 .. MaxFiles |-> CASE i = 1 -> "db" [] i = 2 -> "journal" [] OTHER -> "other"]
  /\ next = 4
  /\ tables \in [Tables -> Shapes]
  /\ damaged \in Damages
  /\ cfg = NoCommand /\ h = Idle /\ was = tables

Start ==
  /\ h.at = "idle"
  /\ \E f \in FlagSets, p \in {n \in Given : Stat(n) = 1}, d \in Given, seal \in Seals,
        fmt \in BOOLEAN, enc \in Encrypted, user \in BOOLEAN, env \in {"unset", "wrong", "right"},
        layout \in {"nested", "flat", "elsewhere"} :
       /\ ("export" \notin f) => (~seal /\ fmt)
       /\ ~enc => (~user /\ layout = "nested" /\ env = IF seal THEN env ELSE "unset")
       /\ cfg' = [flags |-> f, path |-> p, dest |-> d, seal |-> seal, fmt |-> fmt,
                  enc |-> enc, user |-> user, env |-> env, layout |-> layout]
  /\ h' = [at |-> "opening"]
  /\ was' = tables
  /\ UNCHANGED <<folds, fs, content, next, tables, damaged>>

\* The project lies under <root>/<username>/projects, in its own folder or not.
inferHeadlessRootDir(c) == c.layout \in {"nested", "flat"}

Unlocked(c) == c.enc => (c.user /\ c.env = "right" /\ inferHeadlessRootDir(c))

\* Migrate makes the tables that are missing and leaves the others.
Migrated == [t \in Tables |-> IF tables[t] = "absent" THEN "empty" ELSE tables[t]]

\* With repair or vacuum among the flags the project is opened for writing, and migrated.
openHeadlessDB ==
  /\ h.at = "opening"
  /\ IF ~Unlocked(cfg)
     THEN h' = Exit(1) /\ UNCHANGED tables
     ELSE /\ h' = [at |-> "open", src |-> resolveExportDestination(cfg.path)]
          /\ tables' = IF cfg.flags \cap Writers # {} THEN Migrated ELSE tables
  /\ UNCHANGED <<folds, fs, content, next, damaged, cfg, was>>

Ends(code) == h' = Exit(code)

CheckIntegrity ==
  /\ Chosen = "check"
  /\ Ends(IF damaged THEN 1 ELSE 0)

\* A rebuilt copy, or a failure to write one, is an exit of 1: the project is still damaged.
runHeadlessRepair ==
  /\ Chosen = "repair"
  /\ Ends(IF damaged THEN 1 ELSE 0)

Vacuum ==
  /\ Chosen = "vacuum"
  /\ \E code \in IF damaged THEN {0, 1} ELSE {0} : Ends(code)

\* A missing table counts zero, a table without a required column is an error.
CountProjectRecords(t) == [ok |-> tables[t] # "partial", n |-> IF tables[t] = "whole" THEN 1 ELSE 0]

printHeadlessStats ==
  /\ Chosen = "stats"
  /\ IF \A t \in Tables : CountProjectRecords(t).ok
     THEN h' = [at |-> "exited", code |-> 0, stats |-> [t \in Tables |-> CountProjectRecords(t).n]]
     ELSE Ends(1)

DumpSchema == Chosen = "schema-dump" /\ Ends(0)

\* Mutant: --encrypt without a password writes the report as it is.
headlessExportPasswordM(c) == TRUE

headlessExportPassword(c) == c.env # "unset"

\* Everything that can fail before the destination is touched.
Prepared(c) ==
  \/ Chosen = "export-audit"
  \/ c.fmt /\ (c.seal => headlessExportPassword(c))

\* What is written: the audit log is never sealed, a report is if there is a password.
Report(c) == IF Chosen = "export" /\ c.seal /\ c.env # "unset" THEN "sealed" ELSE "report"

CheckDestination ==
  /\ Chosen \in {"export-audit", "export"}
  /\ IF Prepared(cfg) /\ CheckExportDestination(h.src, cfg.dest)
     THEN h' = [h EXCEPT !.at = "checked"]
     ELSE Ends(1)

\* A damaged project may fail to be read.
ReadFails == damaged /\ Ends(1)

\* The one command that runs on the open handle, up to its writing.
runHeadless ==
  /\ h.at = "open"
  /\ \/ CheckIntegrity \/ runHeadlessRepair \/ Vacuum \/ printHeadlessStats \/ DumpSchema \/ CheckDestination
     \/ ReadFails
  /\ UNCHANGED <<folds, fs, content, next, tables, damaged, cfg, was>>

\* The destination is opened through its links: created, or truncated in place.
OpenDestination ==
  /\ h.at = "checked"
  /\ LET d == resolveExportDestination(cfg.dest) IN
     IF Stat(cfg.dest) # 0
     THEN /\ content' = [content EXCEPT ![Stat(cfg.dest)] = "cut"]
          /\ h' = [at |-> "writing", ino |-> Stat(cfg.dest)]
          /\ UNCHANGED <<fs, next>>
     ELSE /\ next <= MaxFiles
          /\ fs' = [fs EXCEPT ![Key(d)] = File(next)]
          /\ content' = [content EXCEPT ![next] = "cut"]
          /\ h' = [at |-> "writing", ino |-> next]
          /\ next' = next + 1
  /\ UNCHANGED <<folds, tables, damaged, cfg, was>>

WriteReport ==
  /\ h.at = "writing"
  /\ \/ /\ content' = [content EXCEPT ![h.ino] = Report(cfg)]
        /\ h' = [at |-> "exited", code |-> 0, ino |-> h.ino]
     \/ Ends(1) /\ UNCHANGED content
  /\ UNCHANGED <<folds, fs, next, tables, damaged, cfg, was>>

\* The desktop process opens the project under its own name, or checkpoints and closes it.
DesktopOpens ==
  /\ Entry(With(Project, "-wal")).kind = "absent"
  /\ next <= MaxFiles
  /\ fs' = [fs EXCEPT ![With(Project, "-wal")] = File(next)]
  /\ content' = [content EXCEPT ![next] = "journal"]
  /\ next' = next + 1
  /\ UNCHANGED <<folds, tables, damaged, cfg, h, was>>

DesktopCloses ==
  /\ Entry(With(Project, "-wal")).kind = "file"
  /\ fs' = [fs EXCEPT ![With(Project, "-wal")] = Nothing]
  /\ UNCHANGED <<folds, content, next, tables, damaged, cfg, h, was>>

Next == \/ Start \/ openHeadlessDB \/ runHeadless \/ OpenDestination \/ WriteReport
        \/ DesktopOpens \/ DesktopCloses

Spec == Init /\ [][Next]_vars

-----------------------------------------------------------------------------
\* Names, files and the command are what the steps make them.
TypeOK ==
  /\ \A n \in Names : fs[n].kind \in {"absent", "file", "link"}
  /\ \A i \in 1 .. MaxFiles : content[i] \in {"db", "journal", "other", "cut", "report", "sealed"}
  /\ next \in 1 .. MaxFiles + 1
  /\ tables \in [Tables -> {"absent", "empty", "partial", "whole"}]
  /\ h.at \in {"idle", "opening", "open", "checked", "writing", "exited"}
  /\ h.at = "exited" => h.code \in {0, 1}

\* An export never lands in the project or in a file SQLite would take for its journal,
\* under whatever name, link, hard link or case either is given, and although the desktop
\* process makes and removes the log meanwhile (CheckExportDestination).
StorageUntouched ==
  /\ content[1] = "db"
  /\ \A n \in {m \in Names : m.sfx = Plain /\ Entry(m) = File(1)}, s \in Endings \ {Plain} :
       LET e == Entry(With(n, s)) IN e.kind = "file" => content[e.ino] = "journal"

\* An exit of 0 tells the truth: a report is complete and sealed if that was asked, a check
\* or a repair found no damage (runHeadless exits 1 "so scripts notice").
SuccessIsTrue ==
  (h.at = "exited" /\ h.code = 0) =>
    /\ Chosen \in {"check", "repair"} => ~damaged
    /\ "ino" \in DOMAIN h => content[h.ino] = IF Chosen = "export" /\ cfg.seal THEN "sealed" ELSE "report"

\* Counts that --stats prints are the rows that are there: a table that lacks a required
\* column is never passed off as empty (CountProjectRecords).
StatsExact ==
  "stats" \in DOMAIN h =>
    \A t \in Tables : h.stats[t] = IF tables[t] \in {"partial", "whole"} THEN 1 ELSE 0

\* openHeadlessDB's comment: every headless command but repair and vacuum only reads, so
\* it must not migrate the file.
ReaderDoesNotMigrate ==
  (h.at = "exited" /\ Chosen \notin Writers) => tables = was
=============================================================================

---- MODULE MCFiles ----
(***************************************************************************)
(* What is kept on disk: repair, backups, the projects' folder, exports,   *)
(* the command line, the schema and the move of an older data root,        *)
(* explored in one run.  A behaviour is of one of the parts; the variables *)
(* of the others keep the value "off".                                     *)
(***************************************************************************)
EXTENDS Integers, Sequences, FiniteSets, TLC, TLAPS, WellFoundedInduction, NaturalsInduction

CONSTANT Parts   \* the parts to explore
CONSTANTS Calls,     \* calls that run beside each other
          None,      \* no certificate, no file
          Trees,     \* folders of projects to begin with
          AllNames, Aliases, Pairs  \* names, entries and flags for the command line
CONSTANTS MaxVersion, MaxHandles,       \* bounds of a repair: commits, openings
          MaxEdits, MaxCerts, MaxCrashes, \* of a backup: versions, certificates, process ends
          Mangled, Replaced, Makers,    \* names and calls in the folder
          MaxSaves, NewNames,           \* bounds there: commits, names of one second
          Bases, Jobs,                  \* the names and the jobs of the exports
          Amounts, MaxStops,            \* amounts; openings that stop
          LegacyRoots, MaxEnds,         \* older data roots; processes that end
          Endings, Flags, Counted, Shapes, MaxFiles \* of the command line: journals, flags, tables, files

VARIABLE part    \* the part a behaviour is of: only its variables move
VARIABLES live, bak, corrupt, committed, hurt, handle, open, opened, openCheck,
          checker, repair
VARIABLES archiveLive, intact, cert, snapshot, building, archive, file, pc, basis,
          restore, certs, crashes
VARIABLES files, reserved, shown, folderOpen, touched, call, saves
VARIABLES doc, events, exportFiles, temps, calls, log
VARIABLES folds, fs, content, next, tables, damaged, cfg, h, was
VARIABLES schemaFile, schemaPc, probe, fk, entered, stops
VARIABLES legacy, root, accounts, created, legacyPc, reported, blocked, ends

-----------------------------------------------------------------------------
\* The constants of the parts.

ProjectFile(id, path, link) ==
    [path |-> path, link |-> link, id |-> id, main |-> 0, wal |-> -1]

\* Folders whose names read the same at the frontend, one of them valid; flat
\* files; links; a file named like a folder.
MCTrees ==
    { {ProjectFile("p", <<"x1", "project">>, FALSE), ProjectFile("q", <<"x2", "project">>, FALSE)},
      {ProjectFile("p", <<"x1", "project">>, FALSE), ProjectFile("q", <<"w", "project">>, TRUE)},
      {ProjectFile("p", <<"x1">>, FALSE), ProjectFile("q", <<"w">>, FALSE)},
      {ProjectFile("p", <<"a", "x1">>, FALSE), ProjectFile("q", <<"a", "x2">>, FALSE)} }

\* The folder names of one second, in the order they are tried.
MCNewNames == <<"new", "new-2", "new-3">>

\* Where an older version kept its data, the preferred place first.
MCLegacyRoots == <<"support", "documents">>

\* The names of a project's folder, to say what the command line may find there.
Names == INSTANCE Headless WITH
    FlagSets <- {}, Given <- {}, Aliases <- {}, Encrypted <- {},
    Tables <- {}, Shapes <- {}, Seals <- {}, Damages <- {}, Upper <- {}
MCNames == {n \in Names!Names : (n.sfx = Names!Plain => ~n.sup) /\ (n.base = "link" => n = Names!Link)}
MCAliases == {Names!Nothing, Names!File(1), Names!File(3)} \cup
             {Names!LinkTo(n) : n \in {m \in MCNames : m.base = "project"}}
MCPairs == LET flags == {Names!Order[i] : i \in DOMAIN Names!Order} IN {{f, g} : f, g \in flags}

Repair == INSTANCE Repair
Archives == INSTANCE Archives WITH
    Callers <- Calls, Overlap <- FALSE, live <- archiveLive
Folder == INSTANCE ProjectFolder WITH
    Calls <- Makers, None <- "none", Leaf <- "project", open <- folderOpen
Exports == INSTANCE Exports WITH files <- exportFiles
Dest == INSTANCE Headless WITH
    FlagSets <- Flags, Given <- AllNames, Encrypted <- {FALSE}, Tables <- {},
    Seals <- {FALSE}, Damages <- {FALSE}, Upper <- {Names!Nothing, Names!File(1)}
Commands == INSTANCE Headless WITH
    FlagSets <- Pairs, Given <- {Names!Project, Names!Alias}, Aliases <- {Names!Nothing},
    Encrypted <- BOOLEAN, Tables <- Counted, Seals <- BOOLEAN, Damages <- BOOLEAN,
    Upper <- {Names!Nothing}
Schema == INSTANCE Schema WITH
    file <- schemaFile, pc <- schemaPc
LegacyRoot == INSTANCE LegacyRoot WITH
    Procs <- {"p1"}, Roots <- LegacyRoots, Flaws <- {"opening", "reading"}, pc <- legacyPc

ASSUME PartsAssumption ==
       /\ Repair!BoundsAssumption /\ Archives!ArchivesAssumption /\ Folder!FolderAssumption
       /\ Exports!ExportsAssumption /\ Dest!HeadlessAssumption
       /\ Commands!HeadlessAssumption /\ Schema!SchemaAssumption
       /\ LegacyRoot!RootsAssumption

repairVars == <<live, bak, corrupt, committed, hurt, handle, open, opened, openCheck,
                checker, repair>>
archiveVars == <<archiveLive, intact, cert, snapshot, building, archive, file, pc,
                 basis, restore, certs, crashes>>
folderVars == <<files, reserved, shown, folderOpen, touched, call, saves>>
exportVars == <<doc, events, exportFiles, temps, calls, log>>
commandVars == <<folds, fs, content, next, tables, damaged, cfg, h, was>>
schemaVars == <<schemaFile, schemaPc, probe, fk, entered, stops>>
legacyVars == <<legacy, root, accounts, created, legacyPc, reported, blocked, ends>>
vars == <<part, repairVars, archiveVars, folderVars, exportVars, commandVars,
          schemaVars, legacyVars>>

\* The value of a variable of the parts that do not move.
Off == "off"

Init ==
    /\ part \in Parts
    /\ IF part = "repair" THEN Repair!Init
       ELSE live = Off /\ bak = Off /\ corrupt = Off /\ committed = Off /\
            hurt = Off /\ handle = Off /\ open = Off /\ opened = Off /\
            openCheck = Off /\ checker = Off /\ repair = Off
    /\ IF part = "archives" THEN Archives!Init
       ELSE archiveLive = Off /\ intact = Off /\ cert = Off /\ snapshot = Off /\
            building = Off /\ archive = Off /\ file = Off /\ pc = Off /\ basis = Off /\
            restore = Off /\ certs = Off /\ crashes = Off
    /\ IF part = "folder" THEN Folder!Init
       ELSE files = Off /\ reserved = Off /\ shown = Off /\ folderOpen = Off /\
            touched = Off /\ call = Off /\ saves = Off
    /\ IF part = "exports" THEN Exports!Init
       ELSE doc = Off /\ events = Off /\ exportFiles = Off /\ temps = Off /\
            calls = Off /\ log = Off
    /\ IF part = "export command" THEN Dest!Init
       ELSE IF part = "commands" THEN Commands!Init
       ELSE folds = Off /\ fs = Off /\ content = Off /\ next = Off /\ tables = Off /\
            damaged = Off /\ cfg = Off /\ h = Off /\ was = Off
    /\ IF part = "schema" THEN Schema!Init
       ELSE schemaFile = Off /\ schemaPc = Off /\ probe = Off /\ fk = Off /\
            entered = Off /\ stops = Off
    /\ IF part = "legacy root" THEN LegacyRoot!Init
       ELSE legacy = Off /\ root = Off /\ accounts = Off /\ created = Off /\
            legacyPc = Off /\ reported = Off /\ blocked = Off /\ ends = Off

Next ==
    /\ UNCHANGED part
    /\ IF part = "repair" THEN Repair!Next ELSE UNCHANGED repairVars
    /\ IF part = "archives" THEN Archives!Next ELSE UNCHANGED archiveVars
    /\ IF part = "folder" THEN Folder!Next ELSE UNCHANGED folderVars
    /\ IF part = "exports" THEN Exports!Next ELSE UNCHANGED exportVars
    /\ IF part = "export command" THEN Dest!Next
       ELSE IF part = "commands" THEN Commands!Next
       ELSE UNCHANGED commandVars
    /\ IF part = "schema" THEN Schema!Next ELSE UNCHANGED schemaVars
    /\ IF part = "legacy root" THEN LegacyRoot!Next ELSE UNCHANGED legacyVars

Spec == Init /\ [][Next]_vars

-----------------------------------------------------------------------------
\* Repair and swap (RepairAndSwap, CheckOpenProject): a project that can be
\* opened holds the last commit and no older copy takes its place; wherever a
\* repair fails or the process ends the last commit is in the project file or
\* beside it; the open handle answers, and a damage notice is about the file
\* that is open.
RepairKeepsWork ==
    part = "repair" => /\ Repair!TypeOK
                       /\ Repair!NoSilentRollback
                       /\ Repair!LastCommitKept
                       /\ Repair!HandleAnswers
                       /\ Repair!DamageNoticeTrue

\* Backups (SecureArchive, RestoreArchive): what lies at an archive's path is a
\* whole archive of a version that was current while the call ran, whatever
\* the process's end left behind, and a restored project is what the manifest
\* records.
BackupsFaithful ==
    part = "archives" => /\ Archives!TypeOK
                         /\ Archives!PublishedWhole
                         /\ Archives!BackupCurrent
                         /\ Archives!RestoredAsRecorded

\* The projects' folder (confineProjectPath, reserveProjectDir): a path the
\* frontend gives back, its bytes mangled or not, never finds another project
\* than the one listed, and two calls never get one folder.
PathsFindTheirProject ==
    part = "folder" => Folder!TypeOK /\ Folder!NeverAnotherProject /\ Folder!FoldersApart

\* Exports (WriteNewPrivateStream, ExportDocument and its signed forms): a file
\* at a destination is whole; a signature beside it is of it; an export that
\* fails leaves nothing that claims what it lacks, and one that succeeds has
\* everything it was asked for.
ExportsWhole ==
    part = "exports" => /\ Exports!TypeOK
                        /\ Exports!PublishedWhole
                        /\ Exports!SidecarsDescribe
                        /\ Exports!FailsClosed
                        /\ Exports!SuccessComplete

\* The command line (runHeadless): an export never writes over the project, its
\* journals or a support file by another name, another case or a link; exit
\* status zero means that what was asked for was done; --stats counts what is
\* there.
CommandsHonest ==
    /\ part = "export command" => Dest!TypeOK /\ Dest!StorageUntouched
    /\ part = "commands" => Commands!SuccessIsTrue /\ Commands!StatsExact

\* Upgrades (InitDB and its migrations, migrateLegacyRoot): an amount reads as
\* it was entered and lists come in order however often an opening stopped half
\* way; a data root reported as moved is whole, comes from one place and keeps
\* what was made since.
UpgradesKeepData ==
    /\ part = "schema" => Schema!TypeOK /\ Schema!AmountsKept /\ Schema!OrderedWhenOpen
    /\ part = "legacy root" => /\ LegacyRoot!TypeOK
                               /\ LegacyRoot!ReportedMeansWhole
                               /\ LegacyRoot!NoMix
                               /\ LegacyRoot!NewDataKept

\* What a step may never do to a file: a repair puts nothing in the project's
\* place that did not pass the check, an export replaces no file, and a
\* migration neither empties a table nor rewrites the audit trail.
NothingOverwritten ==
    [][/\ part = "repair" => Repair!OnlyCheckedSwappedIn
       /\ part = "exports" => Exports!NothingReplaced
       /\ part = "schema" => Schema!RowsKept /\ Schema!AuditTextKept]_vars

\* The calls differ only in their names.
Symmetry == Permutations(Calls)

-----------------------------------------------------------------------------
(* Proofs: repair and swap, for any number of commits and openings         *)

\* TypeOK in two parts.
FilesAndHandles ==
    /\ live \in Repair!File /\ bak \in Repair!File /\ corrupt \in Repair!File
    /\ committed \in 1 .. MaxVersion
    /\ handle \in 0 .. MaxHandles /\ opened \in 0 .. MaxHandles
    /\ openCheck \in [h : 0 .. MaxHandles, damaged : BOOLEAN, dismissed : BOOLEAN]
    /\ checker \in [at : {"idle", "check", "store"}, h : 0 .. MaxHandles, damaged : BOOLEAN]
    /\ repair \in Repair!Phases
RepairFlags == hurt \in BOOLEAN /\ open \in BOOLEAN

\* Where a repair is, it has a file to repair and the copy it will publish.
\* Until the live file is moved it is the project, and from then on .corrupt is;
\* the copy that is swapped in was made of the last commit and passed the check.
RepairUnderWay ==
    /\ repair \in {"heal", "swap", "close", "move", "reopen"} => live.v = committed
    /\ repair \in {"heal", "swap", "close", "move", "publish", "reopen"} => handle # 0
    /\ repair \in {"swap", "close", "move", "publish"} => bak.v = committed
    /\ repair \in {"close", "move", "publish"} => bak.ok
    /\ repair = "publish" => live = Repair!NoFile /\ corrupt.v = committed
    /\ repair \in {"move", "publish", "reopen"} => ~open
    /\ repair \in {"heal", "swap"} => open
    /\ open => live # Repair!NoFile

\* Handles are counted up, so a new one is not that of an old check.
HandlesCounted == handle <= opened /\ openCheck.h <= opened /\ checker.h <= opened

\* An open file that is bad, a repair under way, a check in flight that found
\* damage: each means that the file was damaged under the handle it is about.
DamageHappened ==
    handle # 0 =>
        /\ live # Repair!NoFile /\ ~live.ok => hurt
        /\ repair # "idle" => hurt
        /\ checker.at = "store" /\ checker.h = handle /\ checker.damaged => hurt
        /\ openCheck.h = handle /\ openCheck.damaged => hurt

\* The inductive invariant.
RepairInv ==
    /\ FilesAndHandles /\ RepairFlags /\ Repair!NoSilentRollback /\ Repair!LastCommitKept /\ Repair!HandleAnswers
    /\ RepairUnderWay /\ HandlesCounted /\ DamageHappened

\* The two parts are TypeOK.
LEMMA RepairTypes == Repair!TypeOK <=> FilesAndHandles /\ RepairFlags
  BY Zenon DEF Repair!TypeOK, FilesAndHandles, RepairFlags

\* No file and a torn snapshot are among the contents of a name.
LEMMA NoneAndTorn ==
  ASSUME Repair!BoundsAssumption
  PROVE  Repair!NoFile \in Repair!File /\ Repair!Torn \in Repair!File
  BY DEF Repair!BoundsAssumption, Repair!NoFile, Repair!Torn, Repair!File

\* Nothing is open and nothing under way at first.
LEMMA RepairInit == ASSUME Repair!BoundsAssumption, Repair!Init PROVE RepairInv
<1> USE DEF Repair!Init, Repair!BoundsAssumption, Repair!NoFile
<1>1. FilesAndHandles  BY DEF FilesAndHandles, Repair!File, Repair!NoCheck, Repair!Phases
<1>2. RepairFlags  BY Zenon DEF RepairFlags
<1>3. Repair!NoSilentRollback /\ Repair!LastCommitKept /\ Repair!HandleAnswers
  BY DEF Repair!NoSilentRollback, Repair!LastCommitKept, Repair!HandleAnswers
<1>4. RepairUnderWay  BY DEF RepairUnderWay
<1>5. HandlesCounted  BY DEF HandlesCounted, Repair!NoCheck
<1>6. DamageHappened  BY DEF DamageHappened
<1> QED  BY <1>1, <1>2, <1>3, <1>4, <1>5, <1>6 DEF RepairInv

\* What a fresh handle knows is about the file as it was opened.
LEMMA FreshHandle ==
  ASSUME RepairInv, Repair!Reopened, openCheck' = openCheck, checker' = checker, live' = live,
         repair' = "idle"
  PROVE  DamageHappened'
<1>1. handle' # checker.h /\ handle' # openCheck.h
  BY DEF Repair!Reopened, RepairInv, HandlesCounted, FilesAndHandles
<1>2. hurt' = ~live.ok  BY Zenon DEF Repair!Reopened
<1> QED  BY <1>1, <1>2, Zenon DEF DamageHappened

\* The flags stay Boolean.
LEMMA RepairFlagsStep == ASSUME RepairInv, Repair!Next PROVE RepairFlags'
<1> USE DEF RepairInv, FilesAndHandles, RepairFlags, Repair!files, Repair!ghosts, Repair!File
<1>1. CASE Repair!OpenProject  BY <1>1 DEF Repair!OpenProject, Repair!Reopened
<1>2. CASE Repair!Reopen  BY <1>2 DEF Repair!Reopen, Repair!Reopened
<1>3. CASE Repair!Recover  BY <1>3 DEF Repair!Recover, Repair!Reopened
<1> QED
  BY <1>1, <1>2, <1>3
  DEF Repair!Next, Repair!RepairStep, Repair!CloseProject, Repair!Edit, Repair!Damage,
      Repair!CheckBegin, Repair!CheckRun, Repair!CheckStore,
      Repair!DismissOpenProjectCheck, Repair!RepairHealthy, Repair!RepairBegin,
      Repair!WriteSnapshot, Repair!SwapCheck,
      Repair!CloseLive, Repair!MoveLive, Repair!Publish, Repair!HeadlessRepair, Repair!Crash,
      Repair!Unlocked

\* Every step keeps files, handles and checks in their sets.
LEMMA FilesAndHandlesStep ==
  ASSUME Repair!BoundsAssumption, RepairInv, Repair!Next
  PROVE  FilesAndHandles'
<1> USE DEF RepairInv, Repair!BoundsAssumption, FilesAndHandles, RepairFlags, Repair!File,
            Repair!NoFile, Repair!Phases, Repair!Unlocked, Repair!files, Repair!ghosts,
            Repair!NoSilentRollback, Repair!LastCommitKept, Repair!HandleAnswers,
            RepairUnderWay,
            HandlesCounted, DamageHappened, Repair!NoCheck, Repair!Torn
<1>1. CASE Repair!OpenProject  BY <1>1 DEF Repair!OpenProject, Repair!Reopened
<1>2. CASE Repair!CloseProject  BY <1>2 DEF Repair!CloseProject
<1>3. CASE Repair!Edit
  <2>1. PICK ok \in {live.ok, TRUE} : live' = [v |-> committed + 1, ok |-> ok]
    BY <1>3 DEF Repair!Edit
  <2>2. ok \in BOOLEAN  BY <2>1
  <2>3. committed + 1 \in 0 .. MaxVersion /\ committed' \in 1 .. MaxVersion
    BY <1>3 DEF Repair!Edit
  <2>4. live' \in Repair!File  BY <2>1, <2>2, <2>3
  <2> QED  BY <1>3, <2>3, <2>4 DEF Repair!Edit
<1>4. CASE Repair!Damage  BY <1>4 DEF Repair!Damage
<1>5. CASE Repair!CheckBegin  BY <1>5 DEF Repair!CheckBegin
<1>6. CASE Repair!CheckRun  BY <1>6 DEF Repair!CheckRun
<1>7. CASE Repair!CheckStore  BY <1>7 DEF Repair!CheckStore
<1>8. CASE Repair!DismissOpenProjectCheck  BY <1>8 DEF Repair!DismissOpenProjectCheck
<1>9. CASE Repair!RepairHealthy  BY <1>9 DEF Repair!RepairHealthy
<1>10. CASE Repair!RepairBegin  BY <1>10 DEF Repair!RepairBegin
<1>11. CASE Repair!WriteSnapshot
  <2>1. bak' \in Repair!File
    <3>1. CASE bak' \in {Repair!NoFile, Repair!Torn}  BY <3>1, NoneAndTorn, Zenon
    <3>2. CASE \E ok \in BOOLEAN : bak' = [v |-> live.v, ok |-> ok]
      <4>1. PICK ok \in BOOLEAN : bak' = [v |-> live.v, ok |-> ok]  BY <3>2
      <4>2. live.v \in 0 .. MaxVersion  OBVIOUS
      <4> QED  BY <4>1, <4>2
    <3> QED  BY <1>11, <3>1, <3>2 DEF Repair!WriteSnapshot
  <2> QED  BY <1>11, <2>1 DEF Repair!WriteSnapshot
<1>12. CASE Repair!SwapCheck
  <2>1. corrupt' \in Repair!File  BY <1>12, NoneAndTorn, Zenon DEF Repair!SwapCheck
  <2> QED  BY <1>12, <2>1 DEF Repair!SwapCheck
<1>13. CASE Repair!CloseLive  BY <1>13 DEF Repair!CloseLive
<1>14. CASE Repair!MoveLive
  <2>1. corrupt' \in Repair!File /\ live' \in Repair!File
    BY <1>14, NoneAndTorn, Zenon DEF Repair!MoveLive
  <2> QED  BY <1>14, <2>1 DEF Repair!MoveLive
<1>15. CASE Repair!Publish  BY <1>15 DEF Repair!Publish
<1>16. CASE Repair!Reopen
  <2>1. handle' \in 0 .. MaxHandles /\ opened' \in 0 .. MaxHandles
    <3>1. CASE Repair!Reopened  BY <3>1 DEF Repair!Reopened
    <3>2. CASE UNCHANGED <<handle, opened>>  BY <3>2
    <3> QED  BY <1>16, <3>1, <3>2 DEF Repair!Reopen
  <2>2. repair' \in Repair!Phases  BY <1>16 DEF Repair!Reopen
  <2> QED  BY <1>16, <2>1, <2>2 DEF Repair!Reopen
<1>17. CASE Repair!Recover  BY <1>17 DEF Repair!Recover, Repair!Reopened
<1>18. CASE Repair!HeadlessRepair
  <2>1. [v |-> live.v, ok |-> TRUE] \in Repair!File /\ [v |-> live.v,
        ok |-> FALSE] \in Repair!File
    OBVIOUS
  <2>2. bak' \in Repair!File  BY <1>18, <2>1, NoneAndTorn, Zenon DEF Repair!HeadlessRepair
  <2> QED  BY <1>18, <2>2 DEF Repair!HeadlessRepair
<1>19. CASE Repair!Crash  BY <1>19 DEF Repair!Crash
<1> QED  BY <1>1, <1>2, <1>3, <1>4, <1>5, <1>6, <1>7, <1>8, <1>9, <1>10,
            <1>11, <1>12, <1>13, <1>14, <1>15, <1>16, <1>17, <1>18, <1>19 DEF Repair!Next,
                  Repair!RepairStep

\* Every step keeps the last commit, and leaves a repair what it needs.
LEMMA WorkStep ==
  ASSUME Repair!BoundsAssumption, RepairInv, Repair!Next
  PROVE  (Repair!NoSilentRollback /\ Repair!LastCommitKept /\ Repair!HandleAnswers /\ RepairUnderWay)'
<1> USE DEF RepairInv, Repair!BoundsAssumption, FilesAndHandles, RepairFlags, Repair!File,
            Repair!NoFile, Repair!Phases, Repair!Unlocked, Repair!files, Repair!ghosts,
            Repair!NoSilentRollback, Repair!LastCommitKept, Repair!HandleAnswers,
            RepairUnderWay,
            HandlesCounted, DamageHappened, Repair!NoCheck, Repair!Torn
<1>1. CASE Repair!OpenProject  BY <1>1 DEF Repair!OpenProject, Repair!Reopened
<1>2. CASE Repair!CloseProject  BY <1>2 DEF Repair!CloseProject
<1>3. CASE Repair!Edit  BY <1>3 DEF Repair!Edit
<1>4. CASE Repair!Damage  BY <1>4 DEF Repair!Damage
<1>5. CASE Repair!CheckBegin  BY <1>5 DEF Repair!CheckBegin
<1>6. CASE Repair!CheckRun  BY <1>6 DEF Repair!CheckRun
<1>7. CASE Repair!CheckStore  BY <1>7 DEF Repair!CheckStore
<1>8. CASE Repair!DismissOpenProjectCheck  BY <1>8 DEF Repair!DismissOpenProjectCheck
<1>9. CASE Repair!RepairHealthy  BY <1>9 DEF Repair!RepairHealthy
<1>10. CASE Repair!RepairBegin  BY <1>10 DEF Repair!RepairBegin
<1>11. CASE Repair!WriteSnapshot  BY <1>11 DEF Repair!WriteSnapshot
<1>12. CASE Repair!SwapCheck  BY <1>12 DEF Repair!SwapCheck
<1>13. CASE Repair!CloseLive  BY <1>13 DEF Repair!CloseLive
<1>14. CASE Repair!MoveLive  BY <1>14 DEF Repair!MoveLive
<1>15. CASE Repair!Publish  BY <1>15 DEF Repair!Publish
<1>16. CASE Repair!Reopen
  <2>1. UNCHANGED <<live, bak, corrupt, committed>>  BY <1>16 DEF Repair!Reopen
  <2>2. live # Repair!NoFile /\ live.v = committed  BY <1>16 DEF Repair!Reopen
  <2>3. repair' \in {"idle", "recover"} /\ (repair' = "idle" => handle' # 0 /\ open')
    <3>1. repair' = "recover" \/ (repair' = "idle" /\ Repair!Reopened)
      BY <1>16, Zenon DEF Repair!Reopen
    <3>2. Repair!Reopened => handle' # 0  BY DEF Repair!Reopened
    <3>3. Repair!Reopened => open'  BY Zenon DEF Repair!Reopened
    <3> QED  BY <3>1, <3>2, <3>3
  <2> QED  BY <2>1, <2>2, <2>3
<1>17. CASE Repair!Recover  BY <1>17 DEF Repair!Recover, Repair!Reopened
<1>18. CASE Repair!HeadlessRepair  BY <1>18 DEF Repair!HeadlessRepair
<1>19. CASE Repair!Crash  BY <1>19 DEF Repair!Crash
<1> QED  BY <1>1, <1>2, <1>3, <1>4, <1>5, <1>6, <1>7, <1>8, <1>9, <1>10,
            <1>11, <1>12, <1>13, <1>14, <1>15, <1>16, <1>17, <1>18, <1>19 DEF Repair!Next,
                  Repair!RepairStep

\* Every step keeps the handles counted.
LEMMA HandlesStep ==
  ASSUME Repair!BoundsAssumption, RepairInv, Repair!Next
  PROVE  HandlesCounted'
<1> USE DEF RepairInv, Repair!BoundsAssumption, FilesAndHandles, RepairFlags, Repair!File,
            Repair!NoFile, Repair!Phases, Repair!Unlocked, Repair!files, Repair!ghosts,
            Repair!NoSilentRollback, Repair!LastCommitKept, Repair!HandleAnswers,
            RepairUnderWay,
            HandlesCounted, DamageHappened, Repair!NoCheck, Repair!Torn
<1>1. CASE Repair!OpenProject  BY <1>1 DEF Repair!OpenProject, Repair!Reopened
<1>2. CASE Repair!CloseProject  BY <1>2 DEF Repair!CloseProject
<1>3. CASE Repair!Edit  BY <1>3 DEF Repair!Edit
<1>4. CASE Repair!Damage  BY <1>4 DEF Repair!Damage
<1>5. CASE Repair!CheckBegin  BY <1>5 DEF Repair!CheckBegin
<1>6. CASE Repair!CheckRun  BY <1>6 DEF Repair!CheckRun
<1>7. CASE Repair!CheckStore  BY <1>7 DEF Repair!CheckStore
<1>8. CASE Repair!DismissOpenProjectCheck  BY <1>8 DEF Repair!DismissOpenProjectCheck
<1>9. CASE Repair!RepairHealthy  BY <1>9 DEF Repair!RepairHealthy
<1>10. CASE Repair!RepairBegin  BY <1>10 DEF Repair!RepairBegin
<1>11. CASE Repair!WriteSnapshot  BY <1>11 DEF Repair!WriteSnapshot
<1>12. CASE Repair!SwapCheck  BY <1>12 DEF Repair!SwapCheck
<1>13. CASE Repair!CloseLive  BY <1>13 DEF Repair!CloseLive
<1>14. CASE Repair!MoveLive  BY <1>14 DEF Repair!MoveLive
<1>15. CASE Repair!Publish  BY <1>15 DEF Repair!Publish
<1>16. CASE Repair!Reopen
  <2>1. CASE Repair!Reopened  BY <1>16, <2>1 DEF Repair!Reopen, Repair!Reopened
  <2>2. CASE ~Repair!Reopened  BY <1>16, <2>2 DEF Repair!Reopen
  <2> QED  BY <2>1, <2>2
<1>17. CASE Repair!Recover  BY <1>17 DEF Repair!Recover, Repair!Reopened
<1>18. CASE Repair!HeadlessRepair  BY <1>18 DEF Repair!HeadlessRepair
<1>19. CASE Repair!Crash  BY <1>19 DEF Repair!Crash
<1> QED  BY <1>1, <1>2, <1>3, <1>4, <1>5, <1>6, <1>7, <1>8, <1>9, <1>10,
            <1>11, <1>12, <1>13, <1>14, <1>15, <1>16, <1>17, <1>18, <1>19 DEF Repair!Next,
                  Repair!RepairStep

\* Every step that finds damage is about damage that happened.
LEMMA DamageStep == ASSUME Repair!BoundsAssumption, RepairInv, Repair!Next PROVE DamageHappened'
<1> USE DEF RepairInv, Repair!BoundsAssumption, FilesAndHandles, RepairFlags, Repair!File,
            Repair!NoFile, Repair!Phases, Repair!Unlocked, Repair!files, Repair!ghosts,
            Repair!NoSilentRollback, Repair!LastCommitKept, Repair!HandleAnswers,
            RepairUnderWay,
            HandlesCounted, DamageHappened, Repair!NoCheck, Repair!Torn
<1>1. CASE Repair!OpenProject
  <2>1. CASE Repair!Reopened  BY <1>1, <2>1, FreshHandle, Zenon DEF Repair!OpenProject
  <2>2. CASE ~Repair!Reopened  BY <1>1, <2>2 DEF Repair!OpenProject
  <2> QED  BY <2>1, <2>2
<1>2. CASE Repair!CloseProject  BY <1>2 DEF Repair!CloseProject
<1>3. CASE Repair!Edit  BY <1>3 DEF Repair!Edit
<1>4. CASE Repair!Damage  BY <1>4 DEF Repair!Damage
<1>5. CASE Repair!CheckBegin  BY <1>5 DEF Repair!CheckBegin
<1>6. CASE Repair!CheckRun  BY <1>6 DEF Repair!CheckRun
<1>7. CASE Repair!CheckStore  BY <1>7 DEF Repair!CheckStore
<1>8. CASE Repair!DismissOpenProjectCheck  BY <1>8 DEF Repair!DismissOpenProjectCheck
<1>9. CASE Repair!RepairHealthy  BY <1>9 DEF Repair!RepairHealthy
<1>10. CASE Repair!RepairBegin  BY <1>10 DEF Repair!RepairBegin
<1>11. CASE Repair!WriteSnapshot  BY <1>11 DEF Repair!WriteSnapshot
<1>12. CASE Repair!SwapCheck  BY <1>12 DEF Repair!SwapCheck
<1>13. CASE Repair!CloseLive  BY <1>13 DEF Repair!CloseLive
<1>14. CASE Repair!MoveLive  BY <1>14 DEF Repair!MoveLive
<1>15. CASE Repair!Publish  BY <1>15 DEF Repair!Publish
<1>16. CASE Repair!Reopen
  <2>1. CASE Repair!Reopened  BY <1>16, <2>1, FreshHandle, Zenon DEF Repair!Reopen
  <2>2. CASE ~Repair!Reopened  BY <1>16, <2>2 DEF Repair!Reopen
  <2> QED  BY <2>1, <2>2
<1>17. CASE Repair!Recover
  <2>1. CASE Repair!Reopened  BY <1>17, <2>1, FreshHandle, Zenon DEF Repair!Recover
  <2>2. CASE ~Repair!Reopened  BY <1>17, <2>2 DEF Repair!Recover
  <2> QED  BY <2>1, <2>2
<1>18. CASE Repair!HeadlessRepair  BY <1>18 DEF Repair!HeadlessRepair
<1>19. CASE Repair!Crash  BY <1>19 DEF Repair!Crash
<1> QED  BY <1>1, <1>2, <1>3, <1>4, <1>5, <1>6, <1>7, <1>8, <1>9, <1>10,
            <1>11, <1>12, <1>13, <1>14, <1>15, <1>16, <1>17, <1>18, <1>19 DEF Repair!Next,
                  Repair!RepairStep

\* The invariant is inductive.
LEMMA RepairNext ==
  ASSUME Repair!BoundsAssumption, RepairInv, [Repair!Next]_repairVars
  PROVE  RepairInv'
<1>1. CASE UNCHANGED repairVars
  BY <1>1
  DEF repairVars, RepairInv, FilesAndHandles, RepairFlags, Repair!Unlocked,
      Repair!NoSilentRollback, Repair!LastCommitKept,
              Repair!HandleAnswers, RepairUnderWay, HandlesCounted, DamageHappened
<1>2. CASE Repair!Next
  BY <1>2, RepairFlagsStep, FilesAndHandlesStep, WorkStep, HandlesStep, DamageStep, Zenon
  DEF RepairInv
<1> QED  BY <1>1, <1>2

\* RepairAndSwap and CheckOpenProject keep the work: whatever fails, whenever the
\* process ends and however often the project is opened, what can be opened is the
\* last commit, the last commit is on disk, a handle that is kept answers, and a damage
\* notice is about the file that is open.
THEOREM RepairsKeepWork == Spec => []RepairKeepsWork
<1> DEFINE I == part = "repair" => RepairInv
<1>1. Init => I  BY RepairInit, PartsAssumption DEF Init
<1>2. I /\ [Next]_vars => I'
  <2> SUFFICES ASSUME I, [Next]_vars, part' = "repair" PROVE RepairInv'  OBVIOUS
  <2>1. part = "repair" /\ [Repair!Next]_repairVars  BY DEF Next, vars
  <2> QED  BY <2>1, RepairNext, PartsAssumption
<1>3. I => RepairKeepsWork
  <2> SUFFICES ASSUME RepairInv
               PROVE  /\ Repair!TypeOK /\ Repair!NoSilentRollback /\ Repair!LastCommitKept
                      /\ Repair!HandleAnswers /\ Repair!DamageNoticeTrue
    BY DEF RepairKeepsWork
  <2> QED  BY RepairTypes, Zenon DEF RepairInv, DamageHappened, Repair!DamageNoticeTrue
<1> QED  BY <1>1, <1>2, <1>3, PTL DEF Spec

-----------------------------------------------------------------------------
(* Proofs: backups, for any number of calls, versions and process ends     *)

ArchiveBusy == {"open", "project", "cert", "manifest", "close", "publish", "audit"}
ArchiveOver == {"audit", "done", "failed", "gone"}
ArchiveFile == [project : Archives!Versions \cup {None}, cert : Archives!Certs \cup {None},
                projectSum : Archives!Versions \cup {None},
                certSum : Archives!Certs \cup {None}, whole : BOOLEAN]

ArchiveTypes ==
    /\ archiveLive \in Archives!Versions /\ cert \in Archives!Certs \cup {None}
    /\ certs \in Archives!Certs /\ snapshot \in Archives!Versions \cup {None}
    /\ building \in Calls \cup {None} /\ archive \in Calls \cup {None}
    /\ file \in [Calls -> ArchiveFile]
    /\ pc \in [Calls -> ArchiveBusy \cup ArchiveOver \cup {"idle"}]
    /\ basis \in [Calls -> Archives!Versions]
    /\ restore \in [step : {"none", "extracted", "restored", "refused"}, folder : BOOLEAN,
                    project : Archives!Versions \cup {None}, named : BOOLEAN]

\* One call is under way at a time, and it owns the temporary files.
ArchiveUnderWay ==
    \A c \in Calls :
        /\ pc[c] \in ArchiveBusy => \A d \in Calls : pc[d] \in ArchiveBusy => d = c
        /\ pc[c] \in {"open", "project", "cert", "manifest"} =>
               snapshot # None /\ snapshot >= basis[c]
        /\ pc[c] \in {"project", "cert", "manifest", "close", "publish"} => building = c
        /\ pc[c] \in {"cert", "manifest", "close", "publish", "audit"} => file[c].project # None
        /\ pc[c] \in {"close", "publish", "audit", "done"} =>
               file[c].projectSum # None /\ file[c].projectSum >= basis[c]
        /\ pc[c] \in {"publish", "audit"} => file[c].whole

\* Whose archive is published writes it no more.
ArchivePublished ==
    archive # None =>
        /\ file[archive].whole /\ file[archive].project # None
        /\ pc[archive] \in ArchiveOver

\* What a restore took out was recorded by a call that writes no more.
RestoreRecorded ==
    /\ restore.step \in {"extracted", "restored"} =>
           /\ restore.folder /\ restore.project # None
           /\ \E c \in Calls : pc[c] \in ArchiveOver /\ file[c].projectSum = restore.project
    /\ restore.step = "restored" => restore.named

\* The inductive invariant.
ArchiveInv == ArchiveTypes /\ ArchiveUnderWay /\ ArchivePublished /\ RestoreRecorded

\* Nothing is published at first.
LEMMA ArchiveInit == ASSUME Archives!ArchivesAssumption, Archives!Init PROVE ArchiveInv
<1> USE DEF Archives!Init, Archives!ArchivesAssumption, Archives!Empty, Archives!NoRestore,
            Archives!Versions, Archives!Certs
<1>1. ArchiveTypes  BY DEF ArchiveTypes, ArchiveFile, ArchiveBusy, ArchiveOver
<1>2. ArchiveUnderWay  BY DEF ArchiveUnderWay, ArchiveBusy
<1>3. ArchivePublished  BY DEF ArchivePublished
<1>4. RestoreRecorded  BY DEF RestoreRecorded
<1> QED  BY <1>1, <1>2, <1>3, <1>4 DEF ArchiveInv

\* While a call is under way no other one begins.
LEMMA OthersAreQuiet ==
  ASSUME Archives!Running = {}, NEW c \in Calls, ArchiveTypes
  PROVE  pc[c] \notin ArchiveBusy
  BY DEF Archives!Running, ArchiveBusy, ArchiveTypes

\* The entries of an archive keep their types.
LEMMA ArchiveEntries ==
  ASSUME NEW f \in ArchiveFile, NEW v \in Archives!Versions \cup {None},
         NEW w \in Archives!Certs \cup {None}
  PROVE  /\ [f EXCEPT !.projectSum = v, !.certSum = w] \in ArchiveFile
         /\ [f EXCEPT !.whole = TRUE] \in ArchiveFile
<1>1. [f EXCEPT !.projectSum = v, !.certSum = w] \in ArchiveFile  BY DEF ArchiveFile
<1>2. [f EXCEPT !.whole = TRUE] \in ArchiveFile  BY DEF ArchiveFile
<1> QED  BY <1>1, <1>2

\* Every step of a call keeps the invariant.
LEMMA ArchiveCallStep ==
  ASSUME Archives!ArchivesAssumption, ArchiveInv, NEW c \in Calls,
         \/ Archives!TakeSnapshot(c) \/ Archives!OpenArchive(c) \/ Archives!AddProject(c)
         \/ Archives!AddCert(c) \/ Archives!WriteManifest(c) \/ Archives!CloseArchive(c)
         \/ Archives!Publish(c) \/ Archives!Fail(c) \/ Archives!Audit(c)
  PROVE  ArchiveInv'
<1>0. /\ [file[c] EXCEPT !.projectSum = snapshot, !.certSum = cert] \in ArchiveFile
      /\ [file[c] EXCEPT !.whole = TRUE] \in ArchiveFile
  BY ArchiveEntries DEF ArchiveInv, ArchiveTypes
<1> USE DEF ArchiveInv, Archives!ArchivesAssumption, ArchiveTypes, ArchiveUnderWay,
            ArchivePublished, RestoreRecorded, ArchiveFile, ArchiveBusy, ArchiveOver,
            Archives!source, Archives!Goto, Archives!Empty, Archives!Versions, Archives!Certs
<1>1. CASE Archives!TakeSnapshot(c)
  <2>1. \A d \in Calls : pc[d] \notin ArchiveBusy
    BY <1>1, OthersAreQuiet DEF Archives!TakeSnapshot
  <2> QED  BY <1>1, <2>1 DEF Archives!TakeSnapshot
<1>2. CASE Archives!OpenArchive(c)  BY <1>2 DEF Archives!OpenArchive
<1>3. CASE Archives!AddProject(c)  BY <1>3 DEF Archives!AddProject
<1>4. CASE Archives!AddCert(c)  BY <1>4 DEF Archives!AddCert
<1>5. CASE Archives!WriteManifest(c)
  <2>1. ArchiveTypes'
    <3>1. file' \in [Calls -> ArchiveFile]  BY <1>0, <1>5 DEF Archives!WriteManifest
    <3> QED  BY <1>5, <3>1 DEF Archives!WriteManifest
  <2>2. ArchiveUnderWay'  BY <1>5 DEF Archives!WriteManifest
  <2>3. ArchivePublished'  BY <1>5 DEF Archives!WriteManifest
  <2>4. RestoreRecorded'  BY <1>5 DEF Archives!WriteManifest
  <2> QED  BY <2>1, <2>2, <2>3, <2>4 DEF ArchiveInv
<1>6. CASE Archives!CloseArchive(c)
  <2>1. ArchiveTypes'
    <3>1. file' \in [Calls -> ArchiveFile]  BY <1>0, <1>6 DEF Archives!CloseArchive
    <3> QED  BY <1>6, <3>1 DEF Archives!CloseArchive
  <2>2. ArchiveUnderWay'  BY <1>6 DEF Archives!CloseArchive
  <2>3. ArchivePublished'  BY <1>6 DEF Archives!CloseArchive
  <2>4. RestoreRecorded'  BY <1>6 DEF Archives!CloseArchive
  <2> QED  BY <2>1, <2>2, <2>3, <2>4 DEF ArchiveInv
<1>7. CASE Archives!Publish(c)  BY <1>7 DEF Archives!Publish
<1>8. CASE Archives!Fail(c)  BY <1>8 DEF Archives!Fail
<1>9. CASE Archives!Audit(c)  BY <1>9 DEF Archives!Audit
<1> QED  BY <1>1, <1>2, <1>3, <1>4, <1>5, <1>6, <1>7, <1>8, <1>9

\* So does every other step.
LEMMA ArchiveWorldStep ==
  ASSUME Archives!ArchivesAssumption, ArchiveInv,
         \/ Archives!Edit \/ Archives!Damage \/ Archives!ChangeCert \/ Archives!Alter
         \/ Archives!Extract \/ Archives!Adopt \/ Archives!Crash
  PROVE  ArchiveInv'
<1> USE DEF ArchiveInv, Archives!ArchivesAssumption, ArchiveTypes, ArchiveUnderWay,
            ArchivePublished, RestoreRecorded, ArchiveFile, ArchiveBusy, ArchiveOver,
            Archives!source, Archives!Versions, Archives!Certs
<1>1. CASE Archives!Edit  BY <1>1 DEF Archives!Edit
<1>2. CASE Archives!Damage  BY <1>2 DEF Archives!Damage
<1>3. CASE Archives!ChangeCert  BY <1>3 DEF Archives!ChangeCert
<1>4. CASE Archives!Alter  BY <1>4 DEF Archives!Alter, Archives!Running
<1>5. CASE Archives!Extract
  <2>1. archive \in Calls /\ file[archive] \in ArchiveFile  BY <1>5 DEF Archives!Extract
  <2>2. CASE Archives!Accepted(file[archive])
    <3>1. restore' = [restore EXCEPT !.step = "extracted", !.folder = TRUE,
                                     !.project = file[archive].project]
      BY <1>5, <2>2 DEF Archives!Extract
    <3>2. file[archive].projectSum = file[archive].project /\ file[archive].project # None
      BY <2>1, <2>2 DEF Archives!Accepted
    <3>3. restore'.step = "extracted" /\ restore'.folder
          /\ restore'.project = file[archive].project
      BY <3>1
    <3>4. RestoreRecorded'  BY <1>5, <2>1, <3>2, <3>3 DEF Archives!Extract
    <3>5. ArchiveTypes'  BY <1>5, <2>1, <3>1 DEF Archives!Extract
    <3> QED  BY <1>5, <3>4, <3>5 DEF Archives!Extract
  <2>3. CASE ~Archives!Accepted(file[archive])
    <3>1. restore' = [restore EXCEPT !.step = "refused"]
      BY <1>5, <2>3 DEF Archives!Extract
    <3> QED  BY <1>5, <3>1 DEF Archives!Extract
  <2> QED  BY <2>2, <2>3
<1>6. CASE Archives!Adopt
  <2>1. CASE restore' = [restore EXCEPT !.step = "restored", !.named = TRUE]
    <3>1. restore'.step = "restored" /\ restore'.named /\ restore'.folder
          /\ restore'.project = restore.project
      BY <1>6, <2>1 DEF Archives!Adopt
    <3>2. RestoreRecorded'  BY <1>6, <3>1 DEF Archives!Adopt
    <3>3. ArchiveTypes'  BY <1>6, <2>1 DEF Archives!Adopt
    <3> QED  BY <1>6, <3>2, <3>3 DEF Archives!Adopt
  <2>2. CASE restore' = [restore EXCEPT !.step = "refused", !.folder = FALSE,
                                        !.project = None]
    BY <1>6, <2>2 DEF Archives!Adopt
  <2> QED  BY <1>6, <2>1, <2>2 DEF Archives!Adopt
<1>7. CASE Archives!Crash  BY <1>7 DEF Archives!Crash, Archives!Running, Archives!NoRestore
<1> QED  BY <1>1, <1>2, <1>3, <1>4, <1>5, <1>6, <1>7

\* The invariant is inductive.
LEMMA ArchiveNext ==
  ASSUME Archives!ArchivesAssumption, ArchiveInv, [Archives!Next]_archiveVars
  PROVE  ArchiveInv'
<1>1. CASE UNCHANGED archiveVars
  BY <1>1
  DEF archiveVars, ArchiveInv, ArchiveTypes, ArchiveUnderWay, ArchivePublished, RestoreRecorded
<1>2. CASE Archives!Next
  BY <1>2, ArchiveCallStep, ArchiveWorldStep, Zenon DEF Archives!Next
<1> QED  BY <1>1, <1>2

\* SecureArchive and RestoreArchive: whatever fails and whenever the process ends, what
\* lies at an archive's path is a whole archive, a backup that succeeded holds at least what
\* was committed when it was asked for, and what a restore adopts is what some backup
\* recorded, altered archives included.
THEOREM BackupsAreFaithful == Spec => []BackupsFaithful
<1> DEFINE I == part = "archives" => ArchiveInv
<1>1. Init => I  BY ArchiveInit, PartsAssumption DEF Init
<1>2. I /\ [Next]_vars => I'
  <2> SUFFICES ASSUME I, [Next]_vars, part' = "archives" PROVE ArchiveInv'  OBVIOUS
  <2>1. part = "archives" /\ [Archives!Next]_archiveVars  BY DEF Next, vars
  <2> QED  BY <2>1, ArchiveNext, PartsAssumption
<1>3. I => BackupsFaithful
  <2> SUFFICES ASSUME ArchiveInv
               PROVE  /\ Archives!TypeOK /\ Archives!PublishedWhole
                      /\ Archives!BackupCurrent /\ Archives!RestoredAsRecorded
    BY DEF BackupsFaithful
  <2>1. Archives!TypeOK
    BY PartsAssumption
    DEF ArchiveInv, ArchiveTypes, ArchiveFile, RestoreRecorded, Archives!TypeOK
  <2>2. Archives!PublishedWhole
    BY DEF ArchiveInv, ArchivePublished, Archives!PublishedWhole
  <2>3. Archives!BackupCurrent
    BY DEF ArchiveInv, ArchiveUnderWay, Archives!BackupCurrent
  <2>4. Archives!RestoredAsRecorded
    BY DEF ArchiveInv, RestoreRecorded, Archives!RestoredAsRecorded
  <2> QED  BY <2>1, <2>2, <2>3, <2>4
<1> QED  BY <1>1, <1>2, <1>3, PTL DEF Spec

-----------------------------------------------------------------------------
(* Proofs: the projects' folder, for any folder to begin with *)

FolderSteps == {"idle", "reserve", "reserved", "log", "done", "failed", "gone"}
FolderCall == [step : FolderSteps, try : Nat \ {0}, name : STRING, src : STRING, basis : Int]
FolderNew == Folder!Range(NewNames)

FolderTypes ==
    /\ files \subseteq Folder!File
    /\ reserved \subseteq STRING
    /\ shown \subseteq [path : Seq(STRING), id : STRING]
    /\ call \in [Makers -> FolderCall]
    /\ saves \in 0 .. MaxSaves

\* No two project files have one path or one identity; a call that has not made its project
\* has no file.
FolderApart ==
    /\ \A f \in files : /\ f.path # <<>> /\ f.id # "none"
                        /\ \A i \in DOMAIN f.path : f.path[i] # "none"
                        /\ f.id \in Makers => call[f.id].step \in {"log", "done", "gone"}
    /\ \A f, g \in files : f.path = g.path \/ f.id = g.id => f = g
    /\ folderOpen = "none" \/ \E f \in files : f.id = folderOpen

\* A name of this second is used once: what lies or was listed below it came after its
\* reservation, and nothing lies there while the call that reserved it has yet to write.
FolderReserved ==
    /\ \A f \in files : f.path[1] \in FolderNew => f.path[1] \in reserved
    /\ \A s \in shown : s.path[1] \in FolderNew => s.path[1] \in reserved
    /\ \A c \in Makers : call[c].name # "none" => call[c].name \in reserved \cap FolderNew
    /\ \A c \in Makers : call[c].step = "reserved" =>
           /\ call[c].name # "none"
           /\ \A f \in files : f.path[1] # call[c].name
           /\ \A s \in shown : s.path[1] # call[c].name
    /\ Folder!FoldersApart

\* A listed path still reads as the project it was listed for, unless no project reads so.
FolderShown ==
    \A s \in shown :
        /\ s.path # <<>>
        /\ \A i \in DOMAIN s.path : s.path[i] \notin Mangled
        /\ \A f \in files : f.link = FALSE /\ Folder!WirePath(f.path) = s.path =>
               \E g \in files : /\ g.link = FALSE /\ g.id = s.id
                                /\ Folder!WirePath(g.path) = s.path

\* The inductive invariant.
FolderInv ==
    /\ FolderTypes /\ FolderApart /\ FolderReserved /\ FolderShown
    /\ Folder!NeverAnotherProject

LEMMA FolderNames ==
  ASSUME Folder!FolderAssumption
  PROVE  /\ MaxSaves \in Nat /\ Makers \subseteq STRING /\ "none" \in STRING \ Makers
         /\ Replaced \in STRING /\ Replaced \notin Mangled /\ Replaced # "none"
         /\ NewNames \in Seq(STRING) /\ FolderNew \subseteq STRING
         /\ \A n \in FolderNew : n \notin Mangled /\ n # Replaced /\ n # "none"
         /\ \A i \in DOMAIN NewNames : NewNames[i] \in FolderNew
         /\ \A n \in FolderNew : \E i \in DOMAIN NewNames : n = NewNames[i]
<1>1. NewNames \in Seq(STRING) /\ Folder!Range(NewNames) \cap (Mangled \cup {Replaced, "none"}) = {}
  BY DEF Folder!FolderAssumption
<1>2. \A n \in FolderNew : \E i \in DOMAIN NewNames : n = NewNames[i]
  BY DEF FolderNew, Folder!Range
<1>3. \A i \in DOMAIN NewNames : NewNames[i] \in FolderNew
  BY DEF FolderNew, Folder!Range
<1>4. FolderNew \subseteq STRING  BY <1>1, <1>2
<1> QED  BY <1>1, <1>2, <1>3, <1>4 DEF Folder!FolderAssumption, FolderNew

\* A name as the frontend sees it.
LEMMA FolderWire ==
  ASSUME Folder!FolderAssumption, NEW p \in Seq(STRING)
  PROVE  /\ Folder!WirePath(p) \in Seq(STRING) /\ Len(Folder!WirePath(p)) = Len(p)
         /\ \A i \in 1 .. Len(p) : /\ Folder!WirePath(p)[i] = Folder!Wire(p[i])
                                   /\ Folder!WirePath(p)[i] \notin Mangled
                                   /\ Folder!WirePath(p)[i] # Replaced =>
                                          p[i] = Folder!WirePath(p)[i]
<1>1. \A i \in 1 .. Len(p) : Folder!Wire(p[i]) \in STRING
  BY FolderNames DEF Folder!Wire
<1>2. Folder!WirePath(p) = [i \in 1 .. Len(p) |-> Folder!Wire(p[i])]  BY DEF Folder!WirePath
<1>3. Folder!WirePath(p) \in Seq(STRING) /\ Len(Folder!WirePath(p)) = Len(p)
  BY <1>1, <1>2
<1> QED  BY <1>2, <1>3, FolderNames DEF Folder!Wire

\* matchWireProjectName: what a part of a path is matched with reads as that part, and
\* nothing else there does.
LEMMA FolderMatch ==
  ASSUME Folder!FolderAssumption, NEW prefix \in Seq(STRING), NEW x \in STRING,
         x \notin Mangled, Folder!Match(prefix, x) # "none",
         NEW k \in Nat, k = Len(prefix) + 1
  PROVE  /\ Folder!Wire(Folder!Match(prefix, x)) = x
         /\ \A g \in files :
              /\ g.link = FALSE /\ Len(g.path) > Len(prefix)
              /\ \A i \in DOMAIN prefix : g.path[i] = prefix[i]
              /\ Folder!Wire(g.path[k]) = x
              => g.path[k] = Folder!Match(prefix, x)
<1>1. CASE x # Replaced
  BY <1>1, FolderNames DEF Folder!Match, Folder!Wire
<1>2. CASE x = Replaced
  <2> DEFINE M == Folder!Matches(prefix, x)
             n == Folder!Match(prefix, x)
  <2>1. PICK m \in M : M = {m}  BY <1>2 DEF Folder!Match
  <2>2. n = m  BY <1>2, <2>1 DEF Folder!Match
  <2>3. Folder!Wire(m) = x  BY <2>1 DEF Folder!Matches
  <2>4. ASSUME NEW g \in files, g.link = FALSE, Len(g.path) > Len(prefix),
               \A i \in DOMAIN prefix : g.path[i] = prefix[i],
               Folder!Wire(g.path[k]) = x
        PROVE  g.path[k] = n
    <3>1. g.path[k] \in M  BY <2>4 DEF Folder!Matches
    <3> QED  BY <2>1, <2>2, <3>1
  <2> QED  BY <2>2, <2>3, <2>4
<1> QED  BY <1>1, <1>2

\* confineProjectPath: a listed path finds the only file that reads so, or none.
LEMMA FolderConfine ==
  ASSUME Folder!FolderAssumption, FolderInv, NEW s \in shown, Folder!Confine(s.path) # "none"
  PROVE  \E f \in files :
             /\ f.id = Folder!Confine(s.path) /\ f.id = s.id
             /\ f.link = FALSE /\ Folder!WirePath(f.path) = s.path
             /\ \A g \in files : g.link = FALSE /\ Folder!WirePath(g.path) = s.path => g = f
<1> DEFINE p == s.path
           one == Folder!Match(<<>>, p[1])
           two == Folder!Match(<<one>>, p[2])
           path == IF Len(p) = 1 THEN <<one>> ELSE <<one, two>>
           there == {f \in files : f.path = path /\ ~f.link}
<1>1. p \in Seq(STRING) /\ p # <<>> /\ \A i \in DOMAIN p : p[i] \notin Mangled
  BY DEF FolderInv, FolderTypes, FolderShown
<1>2. Len(p) \in {1, 2} /\ there # {} /\ Folder!Confine(p) = (CHOOSE f \in there : TRUE).id
  <2>1. ~(Len(p) > 2 \/ there = {}) /\ Folder!Confine(p) = (CHOOSE f \in there : TRUE).id
    BY DEF Folder!Confine
  <2> QED  BY <1>1, <2>1
<1>3. PICK f \in there : f = (CHOOSE g \in there : TRUE)  BY <1>2
<1>4. /\ f \in files /\ f.link = FALSE /\ f.path = path /\ f.id = Folder!Confine(p)
      /\ f.path \in Seq(STRING) /\ \A i \in DOMAIN f.path : f.path[i] # "none"
  BY <1>2, <1>3 DEF FolderInv, FolderTypes, FolderApart, Folder!File
<1>5. f.path[1] = one /\ Len(f.path) = Len(p) /\ one # "none" /\ one \in STRING
      /\ (Len(p) = 2 => f.path[2] = two /\ two # "none" /\ two \in STRING)
  <2> HIDE DEF one, two
  <2>1. CASE Len(p) = 1
    <3>1. f.path = <<one>>  BY <1>4, <2>1
    <3>2. f.path[1] = one /\ Len(f.path) = 1 /\ 1 \in DOMAIN f.path  BY <3>1
    <3> QED  BY <1>4, <2>1, <3>2
  <2>2. CASE Len(p) = 2
    <3>1. f.path = <<one, two>>  BY <1>4, <2>2
    <3>2. f.path[1] = one /\ f.path[2] = two /\ Len(f.path) = 2 /\ 1 \in DOMAIN f.path
          /\ 2 \in DOMAIN f.path
      BY <3>1
    <3> QED  BY <1>4, <2>2, <3>2
  <2> QED  BY <1>2, <2>1, <2>2
<1>6. p[1] \in STRING /\ p[1] \notin Mangled /\ (Len(p) = 2 => p[2] \in STRING /\ p[2] \notin Mangled)
  BY <1>1, <1>2
<1>7. /\ Folder!Wire(one) = p[1]
      /\ \A g \in files : g.link = FALSE /\ Len(g.path) > 0 /\ Folder!Wire(g.path[1]) = p[1]
             => g.path[1] = one
  <2> DEFINE pre == <<>>
  <2>1. pre \in Seq(STRING) /\ 1 = Len(pre) + 1 /\ Len(pre) = 0 /\ ~ \E i : i \in DOMAIN pre
    OBVIOUS
  <2>2. one = Folder!Match(pre, p[1])  OBVIOUS
  <2> HIDE DEF pre, one, p
  <2>3. one # "none" /\ p[1] \in STRING /\ p[1] \notin Mangled  BY <1>5, <1>6
  <2>4. /\ Folder!Wire(one) = p[1]
        /\ \A g \in files :
              /\ g.link = FALSE /\ Len(g.path) > Len(pre)
              /\ \A i \in DOMAIN pre : g.path[i] = pre[i]
              /\ Folder!Wire(g.path[1]) = p[1]
              => g.path[1] = one
    <3>1. 1 \in Nat  OBVIOUS
    <3> QED  BY <2>1, <2>2, <2>3, <3>1, FolderMatch, Zenon
  <2> QED  BY <2>1, <2>4
<1>8. ASSUME Len(p) = 2
      PROVE  /\ Folder!Wire(two) = p[2]
             /\ \A g \in files : /\ g.link = FALSE /\ Len(g.path) > 1 /\ g.path[1] = one
                                 /\ Folder!Wire(g.path[2]) = p[2]
                    => g.path[2] = two
  <2>1. <<one>> \in Seq(STRING) /\ Len(<<one>>) = 1 /\ \A i \in DOMAIN <<one>> : i = 1 /\ <<one>>[i] = one
    BY <1>5
  <2> DEFINE pre == <<one>>
  <2>2. pre \in Seq(STRING) /\ Len(pre) = 1 /\ \A i \in DOMAIN pre : i = 1 /\ pre[i] = one
    BY <2>1
  <2>3. two = Folder!Match(pre, p[2])  OBVIOUS
  <2> HIDE DEF pre, two, one, p
  <2>4. two # "none" /\ p[2] \in STRING /\ p[2] \notin Mangled /\ 2 = Len(pre) + 1
    BY <1>5, <1>6, <1>8, <2>2
  <2>5. /\ Folder!Wire(two) = p[2]
        /\ \A g \in files :
              /\ g.link = FALSE /\ Len(g.path) > Len(pre)
              /\ \A i \in DOMAIN pre : g.path[i] = pre[i]
              /\ Folder!Wire(g.path[2]) = p[2]
              => g.path[2] = two
    <3>1. 2 \in Nat  OBVIOUS
    <3> QED  BY <2>2, <2>3, <2>4, <3>1, FolderMatch, Zenon
  <2> QED  BY <2>2, <2>5
<1> HIDE DEF one, two
<1>9. Folder!WirePath(f.path) = p
  <2>1. /\ Folder!WirePath(f.path) \in Seq(STRING) /\ Len(Folder!WirePath(f.path)) = Len(p)
        /\ \A i \in 1 .. Len(p) : Folder!WirePath(f.path)[i] = Folder!Wire(f.path[i])
    BY <1>4, <1>5, FolderWire
  <2>2. \A i \in 1 .. Len(p) : Folder!WirePath(f.path)[i] = p[i]
    <3>1. CASE Len(p) = 1  BY <1>5, <1>7, <2>1, <3>1
    <3>2. CASE Len(p) = 2
      <4>1. Folder!Wire(two) = p[2] /\ f.path[2] = two  BY <1>5, <1>8, <3>2
      <4> QED  BY <1>5, <1>7, <2>1, <3>2, <4>1
    <3> QED  BY <1>2, <3>1, <3>2
  <2> QED  BY <1>1, <2>1, <2>2
<1>10. ASSUME NEW g \in files, g.link = FALSE, Folder!WirePath(g.path) = p PROVE g = f
  <2>1. g.path \in Seq(STRING)  BY DEF FolderInv, FolderTypes, Folder!File
  <2>2. Len(g.path) = Len(p) /\ \A i \in 1 .. Len(p) : Folder!Wire(g.path[i]) = p[i]
    BY <1>10, <2>1, FolderWire
  <2>3. g.path[1] = one  BY <1>2, <1>7, <1>10, <2>2
  <2>4. ASSUME Len(p) = 2 PROVE g.path[2] = two
    <3>1. /\ \A d \in files : /\ d.link = FALSE /\ Len(d.path) > 1 /\ d.path[1] = one
                              /\ Folder!Wire(d.path[2]) = p[2]
                 => d.path[2] = two
      BY <1>8, <2>4
    <3>2. Len(g.path) > 1 /\ Folder!Wire(g.path[2]) = p[2]  BY <2>2, <2>4
    <3> QED  BY <1>10, <2>3, <3>1, <3>2
  <2>5. g.path = f.path  BY <1>2, <1>4, <1>5, <2>1, <2>2, <2>3, <2>4
  <2> QED  BY <1>4, <2>5 DEF FolderInv, FolderApart
<1>11. f.id = s.id
  <2>1. PICK g \in files : g.link = FALSE /\ g.id = s.id /\ Folder!WirePath(g.path) = p
    BY <1>4, <1>9 DEF FolderInv, FolderShown
  <2> QED  BY <1>10, <2>1
<1> QED  BY <1>4, <1>9, <1>10, <1>11

\* A path from the list is touched: the project it was listed for, or nothing.
LEMMA FolderTouch ==
  ASSUME Folder!FolderAssumption, FolderInv, NEW s \in shown, Folder!Touch(s)
  PROVE  /\ Folder!NeverAnotherProject'
         /\ Folder!Confine(s.path) = "none" \/
            \E f \in files : f.id = Folder!Confine(s.path)
<1>1. Folder!Confine(s.path) \in {"none", s.id}  BY FolderConfine
<1>2. touched'.meant = s.id /\ touched'.found = Folder!Confine(s.path)
  BY DEF Folder!Touch
<1> QED  BY <1>1, <1>2, FolderConfine DEF Folder!NeverAnotherProject

LEMMA FolderNoCall == ASSUME Folder!FolderAssumption PROVE Folder!NoCall \in FolderCall
<1>1. 1 \in Nat \ {0} /\ 0 \in Int  OBVIOUS
<1>2. "none" \in STRING  BY FolderNames
<1>3. "idle" \in FolderSteps  BY DEF FolderSteps
<1> QED  BY <1>1, <1>2, <1>3 DEF Folder!NoCall, FolderCall

LEMMA FolderInit == ASSUME Folder!FolderAssumption, Folder!Init PROVE FolderInv
<1> USE DEF Folder!Init
<1>1. files \in Trees /\ call = [c \in Makers |-> Folder!NoCall]  OBVIOUS
<1>2. /\ files \subseteq Folder!File
      /\ \A f \in files : /\ f.path # <<>> /\ f.path[1] \notin FolderNew
                          /\ \A i \in DOMAIN f.path : f.path[i] # "none"
                          /\ f.id \notin Makers \cup {"none"}
      /\ \A f, g \in files : f.path = g.path \/ f.id = g.id => f = g
  BY <1>1 DEF Folder!FolderAssumption, FolderNew, Folder!Range
<1>3. Folder!NoCall \in FolderCall  BY FolderNoCall
<1>4. FolderTypes
  BY <1>1, <1>2, <1>3, FolderNames DEF FolderTypes
<1>5. FolderApart  BY <1>2 DEF FolderApart
<1>6. \A c \in Makers : call[c].name = "none" /\ call[c].step = "idle"
  BY <1>1 DEF Folder!NoCall
<1>7. FolderReserved  BY <1>2, <1>6 DEF FolderReserved, Folder!FoldersApart
<1>8. FolderShown  BY DEF FolderShown
<1> QED  BY <1>4, <1>5, <1>7, <1>8 DEF FolderInv, Folder!NeverAnotherProject

\* The steps that leave the files alone: what they do to a call.
LEMMA FolderCallStep ==
  ASSUME Folder!FolderAssumption, FolderInv, UNCHANGED <<files, saves>>, shown' \subseteq shown,
         folderOpen' = "none" \/ \E f \in files : f.id = folderOpen',
         Folder!NeverAnotherProject', reserved \subseteq reserved', reserved' \subseteq STRING,
         call' \in [Makers -> FolderCall],
         \A c \in Makers : call[c].step \in {"log", "done", "gone"} =>
                               call'[c].step \in {"log", "done", "gone"},
         \A c \in Makers : call'[c].name # call[c].name =>
             \/ call'[c].name = "none"
             \/ /\ call'[c].name \in (reserved' \cap FolderNew) \ reserved
                /\ \A f \in files : f.path[1] # call'[c].name
                /\ \A d \in Makers : d # c => call'[d].name = call[d].name,
         \A c \in Makers : call'[c].step = "reserved" =>
             /\ call'[c].name # "none"
             /\ call'[c].name = call[c].name => call[c].step = "reserved"
  PROVE  FolderInv'
<1>1. FolderTypes'  BY DEF FolderInv, FolderTypes
<1>2. FolderApart'  BY DEF FolderInv, FolderApart
<1>3. FolderShown'
  <2>1. UNCHANGED files /\ shown' \subseteq shown  OBVIOUS
  <2> QED  BY <2>1 DEF FolderInv, FolderShown, Folder!WirePath, Folder!Wire
<1>4. ASSUME NEW c \in Makers, NEW d \in Makers, c # d,
             call'[c].name # "none", call'[d].name # "none"
      PROVE  call'[c].name # call'[d].name
  <2>1. \A e \in Makers : call[e].name # "none" => call[e].name \in reserved
    BY DEF FolderInv, FolderReserved
  <2>2. CASE call'[c].name # call[c].name
    <3>1. call'[c].name \notin reserved /\ call'[d].name = call[d].name  BY <1>4, <2>2
    <3> QED  BY <1>4, <2>1, <3>1
  <2>3. CASE call'[d].name # call[d].name
    <3>1. call'[d].name \notin reserved /\ call'[c].name = call[c].name  BY <1>4, <2>3
    <3> QED  BY <1>4, <2>1, <3>1
  <2>4. CASE call'[c].name = call[c].name /\ call'[d].name = call[d].name
    BY <1>4, <2>4 DEF FolderInv, FolderReserved, Folder!FoldersApart
  <2> QED  BY <2>2, <2>3, <2>4
<1>5. FolderReserved'
  <2>1. /\ \A f \in files : f.path[1] \in FolderNew => f.path[1] \in reserved
        /\ \A s \in shown : s.path[1] \in FolderNew => s.path[1] \in reserved
        /\ \A c \in Makers : call[c].name # "none" => call[c].name \in reserved \cap FolderNew
    BY DEF FolderInv, FolderReserved
  <2>2. \A c \in Makers : call'[c].name # "none" => call'[c].name \in reserved' \cap FolderNew
    BY <2>1
  <2>3. ASSUME NEW c \in Makers, call'[c].step = "reserved"
        PROVE  /\ call'[c].name # "none"
               /\ \A f \in files : f.path[1] # call'[c].name
               /\ \A s \in shown : s.path[1] # call'[c].name
    <3>1. call'[c].name # "none"  BY <2>3
    <3>2. CASE call'[c].name = call[c].name
      <4>1. call[c].step = "reserved"  BY <2>3, <3>2
      <4> QED  BY <3>1, <3>2, <4>1 DEF FolderInv, FolderReserved
    <3>3. CASE call'[c].name # call[c].name
      <4>1. call'[c].name \in FolderNew /\ call'[c].name \notin reserved
            /\ \A f \in files : f.path[1] # call'[c].name
        BY <3>1, <3>3
      <4> QED  BY <2>1, <3>1, <4>1
    <3> QED  BY <3>2, <3>3
  <2>4. Folder!FoldersApart'  BY <1>4 DEF Folder!FoldersApart
  <2>5. /\ \A f \in files' : f.path[1] \in FolderNew => f.path[1] \in reserved'
        /\ \A s \in shown' : s.path[1] \in FolderNew => s.path[1] \in reserved'
    BY <2>1
  <2> HIDE DEF FolderNew
  <2> QED  BY <2>2, <2>3, <2>4, <2>5 DEF FolderReserved, FolderNew
<1> QED  BY <1>1, <1>2, <1>3, <1>5 DEF FolderInv

\* enumerateProjects: the list is made anew.
LEMMA FolderList ==
  ASSUME Folder!FolderAssumption, FolderInv, Folder!ListProjects PROVE FolderInv'
<1>1. UNCHANGED <<files, reserved, folderOpen, touched, call, saves>>
  BY DEF Folder!ListProjects
<1>2. \A s \in shown' : \E f \in files :
         f.link = FALSE /\ s = [path |-> Folder!WirePath(f.path), id |-> f.id]
  BY DEF Folder!ListProjects, Folder!Listed, FolderInv, FolderTypes, Folder!File
<1>3. \A s \in shown' :
         /\ s \in [path : Seq(STRING), id : STRING] /\ s.path # <<>>
         /\ \A i \in DOMAIN s.path : s.path[i] \notin Mangled
         /\ \E f \in files : /\ f.link = FALSE /\ f.id = s.id
                             /\ Folder!WirePath(f.path) = s.path
                             /\ s.path[1] \in FolderNew => f.path[1] = s.path[1]
  <2> TAKE s \in shown'
  <2>1. PICK f \in files :
           f.link = FALSE /\ s = [path |-> Folder!WirePath(f.path), id |-> f.id]
    BY <1>2
  <2>2. f.path \in Seq(STRING) /\ f.id \in STRING /\ f.path # <<>>
    BY DEF FolderInv, FolderTypes, FolderApart, Folder!File
  <2>3. s.path = Folder!WirePath(f.path) /\ s.id = f.id  BY <2>1
  <2>4. /\ s.path \in Seq(STRING) /\ Len(s.path) = Len(f.path) /\ Len(f.path) > 0
        /\ \A i \in 1 .. Len(f.path) : /\ s.path[i] \notin Mangled
                                       /\ s.path[i] # Replaced => f.path[i] = s.path[i]
    BY <2>2, <2>3, FolderWire
  <2>5. s.path[1] \in FolderNew => f.path[1] = s.path[1]  BY <2>2, <2>4, FolderNames
  <2>6. s \in [path : Seq(STRING), id : STRING]  BY <2>1, <2>2, <2>3, <2>4
  <2>7. s.path # <<>> /\ \A i \in DOMAIN s.path : s.path[i] \notin Mangled  BY <2>4
  <2> QED  BY <2>1, <2>3, <2>5, <2>6, <2>7
<1>4. FolderTypes'  BY <1>1, <1>3 DEF FolderInv, FolderTypes
<1>5. FolderApart'  BY <1>1 DEF FolderInv, FolderApart
<1>6. FolderShown'
  <2>1. \A s \in shown' :
           /\ s.path # <<>> /\ \A i \in DOMAIN s.path : s.path[i] \notin Mangled
           /\ \E g \in files' : /\ g.link = FALSE /\ g.id = s.id
                                /\ Folder!WirePath(g.path) = s.path
    BY <1>1, <1>3, Zenon
  <2> QED  BY <2>1, Zenon DEF FolderShown
<1>7. FolderReserved'
  <2>1. ASSUME NEW s \in shown', s.path[1] \in FolderNew PROVE s.path[1] \in reserved
    <3>1. PICK f \in files : f.path[1] = s.path[1]  BY <1>3, <2>1, Zenon
    <3> QED  BY <2>1, <3>1 DEF FolderInv, FolderReserved
  <2>2. ASSUME NEW c \in Makers, call[c].step = "reserved", NEW s \in shown'
        PROVE  s.path[1] # call[c].name
    <3>1. /\ call[c].name \in FolderNew /\ \A f \in files : f.path[1] # call[c].name
      BY <2>2 DEF FolderInv, FolderReserved
    <3>2. s.path[1] \in FolderNew => \E f \in files : f.path[1] = s.path[1]
      BY <1>3, <2>2, Zenon
    <3> QED  BY <3>1, <3>2
  <2>3. Folder!FoldersApart'  BY <1>1 DEF FolderInv, FolderReserved, Folder!FoldersApart
  <2>4. /\ \A f \in files : f.path[1] \in FolderNew => f.path[1] \in reserved
        /\ \A c \in Makers : call[c].name # "none" => call[c].name \in reserved \cap FolderNew
        /\ \A c \in Makers : call[c].step = "reserved" =>
               call[c].name # "none" /\ \A f \in files : f.path[1] # call[c].name
    BY DEF FolderInv, FolderReserved
  <2> QED  BY <1>1, <2>1, <2>2, <2>3, <2>4 DEF FolderReserved
<1>8. Folder!NeverAnotherProject'  BY <1>1 DEF FolderInv, Folder!NeverAnotherProject
<1> QED  BY <1>4, <1>5, <1>6, <1>7, <1>8 DEF FolderInv

\* What a file holds changes; where it lies and whose it is does not.
LEMMA FolderMapped ==
  ASSUME Folder!FolderAssumption, FolderInv, NEW T \in [files -> Folder!File],
         files' = {T[f] : f \in files},
         \A f \in files : T[f].path = f.path /\ T[f].link = f.link /\ T[f].id = f.id,
         UNCHANGED <<reserved, shown, touched>>,
         folderOpen' \in {folderOpen, "none"}, saves' \in 0 .. MaxSaves,
         call' \in [Makers -> FolderCall],
         \A c \in Makers : /\ call'[c].name = call[c].name
                           /\ call'[c].step = call[c].step \/
                              (call[c].step = "log" /\ call'[c].step = "done")
  PROVE  FolderInv'
<1>1. \A f \in files : T[f] \in files' /\ T[f] \in Folder!File  OBVIOUS
<1>2. \A g \in files' : \E f \in files : g = T[f]  OBVIOUS
<1>3. \A g \in files' : \E f \in files : g.path = f.path /\ g.link = f.link /\ g.id = f.id
  BY <1>2
<1>4. \A f \in files : \E g \in files' : g.path = f.path /\ g.link = f.link /\ g.id = f.id
  BY <1>1
<1>5. FolderTypes'  BY <1>1, <1>2 DEF FolderInv, FolderTypes
<1>6. FolderApart'
  <2>1. \A f \in files' : /\ f.path # <<>> /\ f.id # "none"
                          /\ \A i \in DOMAIN f.path : f.path[i] # "none"
                          /\ f.id \in Makers => call'[f.id].step \in {"log", "done", "gone"}
    <3> SUFFICES ASSUME NEW f \in files'
                 PROVE  /\ f.path # <<>> /\ f.id # "none"
                        /\ \A i \in DOMAIN f.path : f.path[i] # "none"
                        /\ f.id \in Makers => call'[f.id].step \in {"log", "done", "gone"}
      OBVIOUS
    <3>1. PICK g \in files : f.path = g.path /\ f.id = g.id  BY <1>3
    <3>2. /\ g.path # <<>> /\ g.id # "none" /\ \A i \in DOMAIN g.path : g.path[i] # "none"
          /\ g.id \in Makers => call[g.id].step \in {"log", "done", "gone"}
      BY DEF FolderInv, FolderApart
    <3> QED  BY <3>1, <3>2
  <2>2. ASSUME NEW f \in files', NEW g \in files', f.path = g.path \/ f.id = g.id PROVE f = g
    <3>1. PICK x \in files : f = T[x]  BY <1>2
    <3>2. PICK y \in files : g = T[y]  BY <1>2
    <3>3. x = y  BY <2>2, <3>1, <3>2 DEF FolderInv, FolderApart
    <3> QED  BY <3>1, <3>2, <3>3
  <2>3. folderOpen' = "none" \/ \E f \in files' : f.id = folderOpen'
    BY <1>4 DEF FolderInv, FolderApart
  <2>4. \A f, g \in files' : f.path = g.path \/ f.id = g.id => f = g  BY <2>2
  <2> QED  BY <2>1, <2>3, <2>4 DEF FolderApart
<1>7. FolderReserved'
  <2>1. /\ \A f \in files : f.path[1] \in FolderNew => f.path[1] \in reserved
        /\ \A s \in shown : s.path[1] \in FolderNew => s.path[1] \in reserved
        /\ \A c \in Makers : call[c].name # "none" => call[c].name \in reserved \cap FolderNew
        /\ \A c \in Makers : call[c].step = "reserved" =>
             /\ call[c].name # "none"
             /\ \A f \in files : f.path[1] # call[c].name
             /\ \A s \in shown : s.path[1] # call[c].name
    BY DEF FolderInv, FolderReserved
  <2>2. Folder!FoldersApart'  BY DEF FolderInv, FolderReserved, Folder!FoldersApart
  <2>3. \A f \in files' : f.path[1] \in FolderNew => f.path[1] \in reserved
    BY <1>3, <2>1
  <2>4. \A c \in Makers : call'[c].step = "reserved" =>
             /\ call'[c].name # "none"
             /\ \A f \in files' : f.path[1] # call'[c].name
             /\ \A s \in shown : s.path[1] # call'[c].name
    BY <1>3, <2>1
  <2> QED  BY <2>1, <2>2, <2>3, <2>4 DEF FolderReserved
<1>8. FolderShown'
  <2>1. ASSUME NEW s \in shown
        PROVE  /\ s.path # <<>> /\ \A i \in DOMAIN s.path : s.path[i] \notin Mangled
               /\ \A f \in files' : f.link = FALSE /\ Folder!WirePath(f.path) = s.path =>
                     \E g \in files' : /\ g.link = FALSE /\ g.id = s.id
                                       /\ Folder!WirePath(g.path) = s.path
    <3>1. /\ s.path # <<>> /\ \A i \in DOMAIN s.path : s.path[i] \notin Mangled
          /\ \A f \in files : f.link = FALSE /\ Folder!WirePath(f.path) = s.path =>
                 \E g \in files : /\ g.link = FALSE /\ g.id = s.id
                                  /\ Folder!WirePath(g.path) = s.path
      BY DEF FolderInv, FolderShown
    <3>2. ASSUME NEW f \in files', f.link = FALSE, Folder!WirePath(f.path) = s.path
          PROVE  \E g \in files' : /\ g.link = FALSE /\ g.id = s.id
                                   /\ Folder!WirePath(g.path) = s.path
      <4>1. PICK x \in files : f.path = x.path /\ f.link = x.link  BY <1>3
      <4>2. PICK y \in files : y.link = FALSE /\ y.id = s.id /\ Folder!WirePath(y.path) = s.path
        BY <3>1, <3>2, <4>1
      <4>3. PICK g \in files' : g.path = y.path /\ g.link = y.link /\ g.id = y.id  BY <1>4
      <4> QED  BY <4>2, <4>3
    <3> QED  BY <3>1, <3>2
  <2> QED  BY <2>1 DEF FolderShown
<1>9. Folder!NeverAnotherProject'  BY DEF FolderInv, Folder!NeverAnotherProject
<1> QED  BY <1>5, <1>6, <1>7, <1>8, <1>9 DEF FolderInv

\* DeleteProject: the project the path was listed for is gone, and nothing else reads so.
LEMMA FolderDelete ==
  ASSUME Folder!FolderAssumption, FolderInv, NEW s \in shown, Folder!Delete(s)
  PROVE  FolderInv'
<1> DEFINE q == Folder!Confine(s.path)
<1>1. /\ UNCHANGED <<reserved, shown, call, saves>> /\ Folder!Touch(s)
      /\ files' = {f \in files : f.id # q}
      /\ folderOpen' = IF folderOpen = q THEN "none" ELSE folderOpen
  BY DEF Folder!Delete
<1>2. Folder!NeverAnotherProject'  BY <1>1, FolderTouch
<1>3. FolderTypes'  BY <1>1 DEF FolderInv, FolderTypes
<1>4. FolderApart'  BY <1>1 DEF FolderInv, FolderApart
<1>5. FolderReserved'
  <2>1. Folder!FoldersApart'  BY <1>1 DEF FolderInv, FolderReserved, Folder!FoldersApart
  <2> QED  BY <1>1, <2>1 DEF FolderInv, FolderReserved
<1>6. ASSUME NEW t \in shown, NEW f \in files, f.id # q, f.link = FALSE,
             Folder!WirePath(f.path) = t.path
      PROVE  \E g \in files : /\ g.id # q /\ g.link = FALSE /\ g.id = t.id
                              /\ Folder!WirePath(g.path) = t.path
  <2>1. PICK g \in files : g.link = FALSE /\ g.id = t.id /\ Folder!WirePath(g.path) = t.path
    BY <1>6 DEF FolderInv, FolderShown
  <2>2. CASE g.id # q  BY <2>1, <2>2
  <2>3. CASE g.id = q
    <3>1. q # "none"  BY <2>3 DEF FolderInv, FolderApart
    <3>2. PICK x \in files :
             /\ x.id = q /\ Folder!WirePath(x.path) = s.path
             /\ \A y \in files : y.link = FALSE /\ Folder!WirePath(y.path) = s.path => y = x
      BY <3>1, FolderConfine
    <3>3. g = x  BY <2>3, <3>2 DEF FolderInv, FolderApart
    <3>4. f = x  BY <1>6, <2>1, <3>2, <3>3
    <3> QED  BY <1>6, <3>2, <3>4
  <2> QED  BY <2>2, <2>3
<1>7. FolderShown'
  <2> HIDE DEF q
  <2>1. ASSUME NEW t \in shown
        PROVE  /\ t.path # <<>> /\ \A i \in DOMAIN t.path : t.path[i] \notin Mangled
               /\ \A f \in files' : f.link = FALSE /\ Folder!WirePath(f.path) = t.path =>
                     \E g \in files' : /\ g.link = FALSE /\ g.id = t.id
                                       /\ Folder!WirePath(g.path) = t.path
    <3>1. t.path # <<>> /\ \A i \in DOMAIN t.path : t.path[i] \notin Mangled
      BY DEF FolderInv, FolderShown
    <3> QED  BY <1>1, <1>6, <3>1
  <2> QED  BY <1>1, <2>1 DEF FolderShown
<1> QED  BY <1>2, <1>3, <1>4, <1>5, <1>7 DEF FolderInv

\* CreateProject and CloneProject write into the folder the call reserved: no file is
\* there, none was listed there, and the call has none elsewhere.
LEMMA FolderWrites ==
  ASSUME Folder!FolderAssumption, FolderInv, NEW c \in Makers, NEW m \in Nat,
         call[c].step = "reserved",
         files' = Folder!Written(Folder!NewFile(c, m, Folder!NoLog)),
         UNCHANGED <<reserved, shown, folderOpen, touched, saves>>,
         call' \in [Makers -> FolderCall],
         call'[c].step \in {"log", "done"}, call'[c].name = call[c].name,
         \A d \in Makers : d # c => call'[d] = call[d]
  PROVE  FolderInv'
<1> DEFINE n == call[c].name
           w == Folder!NewFile(c, m, Folder!NoLog)
<1>1. /\ n # "none" /\ n \in reserved /\ n \in FolderNew
      /\ \A f \in files : f.path[1] # n
      /\ \A s \in shown : s.path[1] # n
  BY DEF FolderInv, FolderReserved
<1>2. n \in STRING /\ c \in STRING /\ c # "none" /\ "project" \in STRING /\ n \notin Mangled
      /\ n # Replaced
  <2>1. "project" \in STRING  BY DEF Folder!FolderAssumption
  <2> QED  BY <1>1, <2>1, FolderNames
<1>3. /\ w.path = <<n, "project">> /\ w.link = FALSE /\ w.id = c /\ w.main = m /\ w.wal = -1
      /\ w = [path |-> <<n, "project">>, link |-> FALSE, id |-> c, main |-> m, wal |-> -1]
  BY DEF Folder!NewFile, Folder!NoLog
<1> HIDE DEF n, w
<1>4. w.path \in Seq(STRING) /\ w.path[1] = n /\ w.path[2] = "project" /\ Len(w.path) = 2
  BY <1>2, <1>3
<1>5. w \in Folder!File  BY <1>2, <1>3, <1>4 DEF Folder!File
<1>6. \A f \in files : f.path # w.path  BY <1>1, <1>4
<1>7. files' = files \cup {w}
  <2>1. files' = {g \in files : g.path # w.path} \cup {w}  BY DEF Folder!Written, w
  <2> QED  BY <1>6, <2>1
<1>8. \A f \in files : f.id # c
  BY DEF FolderInv, FolderApart
<1>9. FolderTypes'  BY <1>5, <1>7 DEF FolderInv, FolderTypes
<1>10. FolderApart'
  <2>1. \A f \in files' : /\ f.path # <<>> /\ f.id # "none"
                          /\ \A i \in DOMAIN f.path : f.path[i] # "none"
                          /\ f.id \in Makers => call'[f.id].step \in {"log", "done", "gone"}
    <3> SUFFICES ASSUME NEW f \in files'
                 PROVE  /\ f.path # <<>> /\ f.id # "none"
                        /\ \A i \in DOMAIN f.path : f.path[i] # "none"
                        /\ f.id \in Makers => call'[f.id].step \in {"log", "done", "gone"}
      OBVIOUS
    <3>1. CASE f = w  BY <1>1, <1>2, <1>3, <1>4, <3>1
    <3>2. CASE f \in files
      <4>1. /\ f.path # <<>> /\ f.id # "none" /\ \A i \in DOMAIN f.path : f.path[i] # "none"
            /\ f.id \in Makers => call[f.id].step \in {"log", "done", "gone"}
        BY <3>2 DEF FolderInv, FolderApart
      <4> QED  BY <1>8, <3>2, <4>1
    <3> QED  BY <1>7, <3>1, <3>2
  <2>2. \A f, g \in files' : f.path = g.path \/ f.id = g.id => f = g
    <3>1. \A f, g \in files : f.path = g.path \/ f.id = g.id => f = g
      BY DEF FolderInv, FolderApart
    <3> QED  BY <1>3, <1>6, <1>7, <1>8, <3>1
  <2>3. folderOpen' = "none" \/ \E f \in files' : f.id = folderOpen'
    BY <1>7 DEF FolderInv, FolderApart
  <2> QED  BY <2>1, <2>2, <2>3 DEF FolderApart
<1>11. FolderReserved'
  <2>1. /\ \A f \in files : f.path[1] \in FolderNew => f.path[1] \in reserved
        /\ \A s \in shown : s.path[1] \in FolderNew => s.path[1] \in reserved
        /\ \A d \in Makers : call[d].name # "none" => call[d].name \in reserved \cap FolderNew
        /\ \A d \in Makers : call[d].step = "reserved" =>
             /\ call[d].name # "none"
             /\ \A f \in files : f.path[1] # call[d].name
             /\ \A s \in shown : s.path[1] # call[d].name
    BY DEF FolderInv, FolderReserved
  <2>2. \A d \in Makers : call'[d].name = call[d].name
        /\ (call'[d].step = "reserved" => d # c /\ call[d].step = "reserved")
    OBVIOUS
  <2>3. Folder!FoldersApart'
    BY <2>2 DEF FolderInv, FolderReserved, Folder!FoldersApart
  <2>4. \A f \in files' : f.path[1] \in FolderNew => f.path[1] \in reserved
    BY <1>1, <1>4, <1>7, <2>1
  <2>5. ASSUME NEW d \in Makers, call'[d].step = "reserved"
        PROVE  /\ call'[d].name # "none"
               /\ \A f \in files' : f.path[1] # call'[d].name
               /\ \A s \in shown : s.path[1] # call'[d].name
    <3>1. d # c /\ call[d].step = "reserved" /\ call'[d].name = call[d].name  BY <2>2, <2>5
    <3>2. call[d].name # n
      BY <1>1, <2>1, <3>1 DEF FolderInv, FolderReserved, Folder!FoldersApart, n
    <3> QED  BY <1>4, <1>7, <2>1, <3>1, <3>2
  <2> QED  BY <2>1, <2>2, <2>3, <2>4, <2>5 DEF FolderReserved
<1>12. FolderShown'
  <2>1. ASSUME NEW s \in shown
        PROVE  /\ s.path # <<>> /\ \A i \in DOMAIN s.path : s.path[i] \notin Mangled
               /\ \A f \in files' : f.link = FALSE /\ Folder!WirePath(f.path) = s.path =>
                     \E g \in files' : /\ g.link = FALSE /\ g.id = s.id
                                       /\ Folder!WirePath(g.path) = s.path
    <3>1. /\ s.path # <<>> /\ \A i \in DOMAIN s.path : s.path[i] \notin Mangled
          /\ \A f \in files : f.link = FALSE /\ Folder!WirePath(f.path) = s.path =>
                 \E g \in files : /\ g.link = FALSE /\ g.id = s.id
                                  /\ Folder!WirePath(g.path) = s.path
      BY DEF FolderInv, FolderShown
    <3>2. Folder!WirePath(w.path) # s.path
      <4>1. 1 \in 1 .. Len(w.path)  BY <1>4
      <4>2. Folder!WirePath(w.path)[1] = n  BY <1>2, <1>4, <4>1, FolderWire DEF Folder!Wire
      <4> QED  BY <1>1, <4>2
    <3> QED  BY <1>7, <3>1, <3>2
  <2> QED  BY <2>1 DEF FolderShown
<1>13. Folder!NeverAnotherProject'  BY DEF FolderInv, Folder!NeverAnotherProject
<1> QED  BY <1>9, <1>10, <1>11, <1>12, <1>13 DEF FolderInv

\* The steps that only change what a project's file or log holds.
LEMMA FolderSaves ==
  ASSUME Folder!FolderAssumption, FolderInv,
         \/ Folder!Save \/ Folder!Close
         \/ \E c \in Makers : Folder!CloneLog(c) /\ files' # files
  PROVE  FolderInv'
<1>1. files \subseteq Folder!File /\ saves \in 0 .. MaxSaves /\ MaxSaves \in Nat
      /\ call \in [Makers -> FolderCall]
  BY FolderNames DEF FolderInv, FolderTypes
<1>2. CASE Folder!Save
  <2> DEFINE T == [f \in files |-> IF f.id = folderOpen THEN [f EXCEPT !.wal = saves'] ELSE f]
  <2>1. saves' \in 0 .. MaxSaves /\ saves' \in Nat  BY <1>1, <1>2 DEF Folder!Save
  <2>2. ASSUME NEW f \in files
        PROVE  T[f] \in Folder!File /\ T[f].path = f.path /\ T[f].link = f.link /\ T[f].id = f.id
    BY <1>1, <2>1 DEF Folder!File
  <2>3. files' = {T[f] : f \in files}  BY <1>2 DEF Folder!Save
  <2>4. UNCHANGED <<reserved, shown, folderOpen, touched, call>>  BY <1>2 DEF Folder!Save
  <2>5. T \in [files -> Folder!File]
        /\ \A f \in files : T[f].path = f.path /\ T[f].link = f.link /\ T[f].id = f.id
    BY <2>2
  <2> HIDE DEF T
  <2> QED  BY <1>1, <2>1, <2>3, <2>4, <2>5, FolderMapped
<1>3. CASE Folder!Close
  <2> DEFINE T == [f \in files |-> IF f.id = folderOpen THEN Folder!Merged(f) ELSE f]
  <2>2. ASSUME NEW f \in files
        PROVE  T[f] \in Folder!File /\ T[f].path = f.path /\ T[f].link = f.link /\ T[f].id = f.id
    <3>1. f \in Folder!File  BY <1>1
    <3>2. Folder!Committed(f) \in Nat
      BY <3>1 DEF Folder!File, Folder!Committed, Folder!NoLog
    <3> QED  BY <3>1, <3>2 DEF Folder!File, Folder!Merged, Folder!NoLog
  <2>3. files' = {T[f] : f \in files}  BY <1>3 DEF Folder!Close
  <2>4. UNCHANGED <<reserved, shown, touched, call, saves>> /\ folderOpen' = "none"
    BY <1>3 DEF Folder!Close
  <2>5. T \in [files -> Folder!File]
        /\ \A f \in files : T[f].path = f.path /\ T[f].link = f.link /\ T[f].id = f.id
    BY <2>2
  <2> HIDE DEF T
  <2> QED  BY <1>1, <2>3, <2>4, <2>5, FolderMapped
<1>4. ASSUME NEW c \in Makers, Folder!CloneLog(c), files' # files PROVE FolderInv'
  <2>1. PICK src \in files :
          files' = {IF f.id = c THEN [f EXCEPT !.wal = src.wal] ELSE f : f \in files}
    BY <1>4 DEF Folder!CloneLog
  <2> DEFINE T == [f \in files |-> IF f.id = c THEN [f EXCEPT !.wal = src.wal] ELSE f]
  <2>2. ASSUME NEW f \in files
        PROVE  T[f] \in Folder!File /\ T[f].path = f.path /\ T[f].link = f.link /\ T[f].id = f.id
    BY <1>1, <2>1 DEF Folder!File
  <2>3. files' = {T[f] : f \in files}  BY <2>1
  <2>4. /\ UNCHANGED <<reserved, shown, folderOpen, touched, saves>>
        /\ call[c].step = "log" /\ call' = [call EXCEPT ![c].step = "done"]
    BY <1>4 DEF Folder!CloneLog
  <2>5. T \in [files -> Folder!File]
        /\ \A f \in files : T[f].path = f.path /\ T[f].link = f.link /\ T[f].id = f.id
    BY <2>2
  <2>6. call' \in [Makers -> FolderCall] /\ \A d \in Makers :
           /\ call'[d].name = call[d].name
           /\ call'[d].step = call[d].step \/ (call[d].step = "log" /\ call'[d].step = "done")
    BY <1>1, <2>4 DEF FolderCall, FolderSteps
  <2> HIDE DEF T
  <2> QED  BY <1>1, <2>3, <2>4, <2>5, <2>6, FolderMapped
<1> QED  BY <1>2, <1>3, <1>4

\* The steps of a call up to its folder, its failures, and the end of the process.
LEMMA FolderQuiet ==
  ASSUME Folder!FolderAssumption, FolderInv, UNCHANGED files,
         \/ Folder!Crash \/ \E s \in shown : Folder!Open(s)
         \/ \E c \in Makers :
               \/ \E s \in shown : Folder!AskClone(c, s)
               \/ Folder!AskCreate(c) \/ Folder!Reserve(c) \/ Folder!Create(c)
               \/ Folder!CloneLog(c) \/ Folder!CloneGone(c)
  PROVE  FolderInv'
<1>1. /\ call \in [Makers -> FolderCall] /\ reserved \subseteq STRING
      /\ folderOpen = "none" \/ \E f \in files : f.id = folderOpen
      /\ Folder!NeverAnotherProject
  BY DEF FolderInv, FolderTypes, FolderApart
<1>2. CASE Folder!Crash
  <2>1. Folder!NoCall \in FolderCall /\ Folder!NoCall.name = "none"
    BY FolderNoCall DEF Folder!NoCall
  <2>2. \A c \in Makers : call'[c] =
           IF call[c].step = "done" THEN call[c] ELSE [Folder!NoCall EXCEPT !.step = "gone"]
    BY <1>2 DEF Folder!Crash
  <2>3. [Folder!NoCall EXCEPT !.step = "gone"] \in FolderCall
        /\ [Folder!NoCall EXCEPT !.step = "gone"].name = "none"
        /\ [Folder!NoCall EXCEPT !.step = "gone"].step = "gone"
    BY <2>1 DEF FolderCall, FolderSteps
  <2>4. call' \in [Makers -> FolderCall]
    BY <1>1, <1>2, <2>3 DEF Folder!Crash
  <2>5. /\ UNCHANGED <<files, reserved, touched, saves>> /\ shown' = {} /\ folderOpen' = "none"
    BY <1>2 DEF Folder!Crash
  <2>6. Folder!NeverAnotherProject'  BY <1>1, <2>5 DEF Folder!NeverAnotherProject
  <2> QED  BY <1>1, <2>2, <2>3, <2>4, <2>5, <2>6, FolderCallStep
<1>3. ASSUME NEW s \in shown, Folder!Open(s) PROVE FolderInv'
  <2>1. /\ UNCHANGED <<files, reserved, shown, call, saves>> /\ Folder!Touch(s)
        /\ folderOpen' = Folder!Confine(s.path)
    BY <1>3 DEF Folder!Open
  <2>2. /\ Folder!NeverAnotherProject'
        /\ folderOpen' = "none" \/ \E f \in files : f.id = folderOpen'
    BY <2>1, FolderTouch
  <2>3. \A d \in Makers : call[d].step = "reserved" => call[d].name # "none"
    BY DEF FolderInv, FolderReserved
  <2> QED  BY <1>1, <2>1, <2>2, <2>3, FolderCallStep
<1>4. ASSUME NEW c \in Makers, NEW s \in shown, Folder!AskClone(c, s) PROVE FolderInv'
  <2>1. /\ UNCHANGED <<files, reserved, shown, folderOpen, saves>> /\ Folder!Touch(s)
        /\ Folder!Confine(s.path) # "none" /\ call[c].step = "idle"
        /\ call' = [call EXCEPT ![c].step = "reserve", ![c].src = Folder!Confine(s.path)]
    BY <1>4 DEF Folder!AskClone
  <2>2. Folder!Confine(s.path) \in STRING
    BY <2>1, FolderConfine DEF FolderInv, FolderTypes, Folder!File
  <2>3. /\ call' \in [Makers -> FolderCall]
        /\ \A d \in Makers : /\ call'[d].name = call[d].name
                             /\ d # c => call'[d].step = call[d].step
        /\ call'[c].step = "reserve"
    BY <1>1, <2>1, <2>2 DEF FolderCall, FolderSteps
  <2>4. \A d \in Makers : call[d].step = "reserved" => call[d].name # "none"
    BY DEF FolderInv, FolderReserved
  <2> QED  BY <1>1, <2>1, <2>3, <2>4, FolderTouch, FolderCallStep
<1>5. ASSUME NEW c \in Makers, Folder!Reserve(c) PROVE FolderInv'
  <2>1. /\ UNCHANGED <<files, shown, folderOpen, touched, saves>>
        /\ call[c].step = "reserve" /\ call[c].try <= Len(NewNames)
        /\ call[c].try \in Nat \ {0}
    BY <1>1, <1>5 DEF Folder!Reserve, FolderCall
  <2>2. Folder!NeverAnotherProject'  BY <1>1, <2>1 DEF Folder!NeverAnotherProject
  <2>3. \A d \in Makers : call[d].step = "reserved" => call[d].name # "none"
    BY DEF FolderInv, FolderReserved
  <2> DEFINE n == NewNames[call[c].try]
  <2>4. CASE call' = [call EXCEPT ![c].try = @ + 1] /\ UNCHANGED reserved
    <3>1. /\ call' \in [Makers -> FolderCall]
          /\ \A d \in Makers : call'[d].name = call[d].name /\ call'[d].step = call[d].step
      BY <1>1, <2>1, <2>4 DEF FolderCall
    <3> QED  BY <1>1, <2>1, <2>2, <2>3, <2>4, <3>1, FolderCallStep
  <2>5. CASE /\ reserved' = reserved \cup {n} /\ n \notin Folder!Taken
             /\ call' = [call EXCEPT ![c].step = "reserved", ![c].name = n]
    <3>1. call[c].try \in DOMAIN NewNames  BY <2>1, FolderNames
    <3>2. n \in FolderNew /\ n \in STRING /\ n # "none"  BY <3>1, FolderNames
    <3>3. n \notin reserved /\ \A f \in files : f.path[1] # n
      <4>1. \A f \in files : f.path \in Seq(STRING) /\ f.path # <<>>
        BY DEF FolderInv, FolderTypes, FolderApart, Folder!File
      <4>2. \A f \in files : Head(f.path) = f.path[1]  BY <4>1
      <4> QED  BY <2>5, <4>2 DEF Folder!Taken
    <3> HIDE DEF n
    <3>4. /\ call' \in [Makers -> FolderCall]
          /\ call'[c].name = n /\ call'[c].step = "reserved"
          /\ \A d \in Makers : d # c => call'[d] = call[d]
      BY <1>1, <2>5, <3>2 DEF FolderCall, FolderSteps
    <3>5. reserved \subseteq reserved' /\ reserved' \subseteq STRING /\ n \in reserved'
      BY <1>1, <2>5, <3>2
    <3>6. call[c].name # n
      BY <3>2, <3>3 DEF FolderInv, FolderReserved
    <3> QED  BY <1>1, <2>1, <2>2, <2>3, <3>2, <3>3, <3>4, <3>5, <3>6, FolderCallStep
  <2> QED  BY <1>5, <2>4, <2>5 DEF Folder!Reserve, Folder!FolderName
<1>6. ASSUME NEW c \in Makers, NEW x \in FolderSteps \ {"reserved"},
             call' = [call EXCEPT ![c].step = x],
             call[c].step \in {"log", "done", "gone"} => x \in {"log", "done", "gone"},
             UNCHANGED <<reserved, shown, folderOpen, touched, saves>>
      PROVE  FolderInv'
  <2>1. Folder!NeverAnotherProject'  BY <1>1, <1>6 DEF Folder!NeverAnotherProject
  <2>2. /\ call' \in [Makers -> FolderCall]
        /\ \A d \in Makers : /\ call'[d].name = call[d].name
                             /\ d # c => call'[d].step = call[d].step
        /\ call'[c].step = x
    BY <1>1, <1>6 DEF FolderCall
  <2>3. \A d \in Makers : call[d].step = "reserved" => call[d].name # "none"
    BY DEF FolderInv, FolderReserved
  <2> QED  BY <1>1, <1>6, <2>1, <2>2, <2>3, FolderCallStep
<1>7. ASSUME NEW c \in Makers, Folder!AskCreate(c) PROVE FolderInv'
  BY <1>6, <1>7 DEF Folder!AskCreate, FolderSteps
<1>8. ASSUME NEW c \in Makers, Folder!Create(c), call' = [call EXCEPT ![c].step = "failed"]
      PROVE  FolderInv'
  BY <1>6, <1>8 DEF Folder!Create, FolderSteps
<1>9. ASSUME NEW c \in Makers, Folder!CloneLog(c) PROVE FolderInv'
  BY <1>6, <1>9 DEF Folder!CloneLog, FolderSteps
<1>10. ASSUME NEW c \in Makers, Folder!CloneGone(c) PROVE FolderInv'
  BY <1>6, <1>10 DEF Folder!CloneGone, FolderSteps
<1>11. ASSUME NEW c \in Makers, Folder!Create(c), call' = [call EXCEPT ![c].step = "done"]
      PROVE  FolderInv'
  BY <1>6, <1>11 DEF Folder!Create, FolderSteps
<1> QED  BY <1>2, <1>3, <1>4, <1>5, <1>7, <1>8, <1>9, <1>10, <1>11 DEF Folder!Create

\* Every step of the folder keeps the invariant.
LEMMA FolderNext ==
  ASSUME Folder!FolderAssumption, FolderInv, [Folder!Next]_folderVars
  PROVE  FolderInv'
<1>1. CASE UNCHANGED folderVars
  <2>1. UNCHANGED <<files, reserved, shown, folderOpen, touched, call, saves>>
    BY <1>1 DEF folderVars
  <2> QED
    BY <2>1 DEF FolderInv, FolderTypes, FolderApart, FolderReserved, FolderShown,
       Folder!FoldersApart, Folder!NeverAnotherProject
<1>2. ASSUME NEW c \in Makers, Folder!Create(c), call' = [call EXCEPT ![c].step = "done"],
             files' = Folder!Written(Folder!NewFile(c, 0, Folder!NoLog))
      PROVE  FolderInv'
  <2>1. /\ UNCHANGED <<reserved, shown, folderOpen, touched, saves>> /\ call[c].step = "reserved"
        /\ call \in [Makers -> FolderCall] /\ 0 \in Nat
    BY <1>2 DEF Folder!Create, FolderInv, FolderTypes
  <2>2. /\ call' \in [Makers -> FolderCall] /\ call'[c].step = "done"
        /\ call'[c].name = call[c].name /\ \A d \in Makers : d # c => call'[d] = call[d]
    BY <1>2, <2>1 DEF FolderCall, FolderSteps
  <2> QED  BY <1>2, <2>1, <2>2, FolderWrites
<1>3. ASSUME NEW c \in Makers, Folder!CloneMain(c) PROVE FolderInv'
  <2> DEFINE src == Folder!FileOf(call[c].src)
  <2>1. /\ UNCHANGED <<reserved, shown, folderOpen, touched, saves>> /\ call[c].step = "reserved"
        /\ call \in [Makers -> FolderCall] /\ call[c].src \in Folder!Ids
    BY <1>3 DEF Folder!CloneMain, FolderInv, FolderTypes
  <2>2. src \in files
    <3>1. \E f \in files : f.id = call[c].src  BY <2>1 DEF Folder!Ids
    <3> QED  BY <3>1 DEF Folder!FileOf
  <2>3. src.main \in Nat /\ Folder!Committed(src) \in Nat
    BY <2>2 DEF FolderInv, FolderTypes, Folder!File, Folder!Committed, Folder!NoLog
  <2>4. \/ /\ files' = Folder!Written(Folder!NewFile(c, Folder!Committed(src), Folder!NoLog))
           /\ call' = [call EXCEPT ![c].step = "done", ![c].basis = Folder!Committed(src)]
        \/ /\ files' = Folder!Written(Folder!NewFile(c, src.main, Folder!NoLog))
           /\ call' = [call EXCEPT ![c].step = "log", ![c].basis = Folder!Committed(src)]
    BY <1>3 DEF Folder!CloneMain
  <2> HIDE DEF src
  <2>5. /\ call' \in [Makers -> FolderCall] /\ call'[c].step \in {"log", "done"}
        /\ call'[c].name = call[c].name /\ \A d \in Makers : d # c => call'[d] = call[d]
    BY <2>1, <2>3, <2>4 DEF FolderCall, FolderSteps
  <2> QED  BY <2>1, <2>3, <2>4, <2>5, FolderWrites
<1>4. CASE Folder!ListProjects  BY <1>4, FolderList
<1>5. CASE Folder!Save  BY <1>5, FolderSaves
<1>6. CASE Folder!Close  BY <1>6, FolderSaves
<1>7. CASE Folder!Crash  BY <1>7, FolderQuiet DEF Folder!Crash
<1>8. ASSUME NEW s \in shown, Folder!Open(s) PROVE FolderInv'
  BY <1>8, FolderQuiet DEF Folder!Open
<1>9. ASSUME NEW s \in shown, Folder!Delete(s) PROVE FolderInv'  BY <1>9, FolderDelete
<1>10. ASSUME NEW c \in Makers,
              \/ \E s \in shown : Folder!AskClone(c, s)
              \/ Folder!AskCreate(c) \/ Folder!Reserve(c) \/ Folder!Create(c)
              \/ Folder!CloneMain(c) \/ Folder!CloneLog(c) \/ Folder!CloneGone(c)
       PROVE  FolderInv'
  <2>1. CASE \E s \in shown : Folder!AskClone(c, s)
    BY <2>1, FolderQuiet DEF Folder!AskClone
  <2>2. CASE Folder!AskCreate(c)  BY <2>2, FolderQuiet DEF Folder!AskCreate
  <2>3. CASE Folder!Reserve(c)  BY <2>3, FolderQuiet DEF Folder!Reserve
  <2>4. CASE Folder!Create(c)
    <3>1. CASE UNCHANGED files  BY <2>4, <3>1, FolderQuiet
    <3>2. CASE ~UNCHANGED files
      <4>1. /\ files' = Folder!Written(Folder!NewFile(c, 0, Folder!NoLog))
            /\ call' = [call EXCEPT ![c].step = "done"]
        BY <2>4, <3>2 DEF Folder!Create
      <4> QED  BY <1>2, <2>4, <4>1
    <3> QED  BY <3>1, <3>2
  <2>5. CASE Folder!CloneMain(c)  BY <1>3, <2>5
  <2>6. CASE Folder!CloneLog(c)  BY <2>6, FolderQuiet, FolderSaves
  <2>7. CASE Folder!CloneGone(c)  BY <2>7, FolderQuiet DEF Folder!CloneGone
  <2> QED  BY <1>10, <2>1, <2>2, <2>3, <2>4, <2>5, <2>6, <2>7
<1> QED  BY <1>1, <1>4, <1>5, <1>6, <1>7, <1>8, <1>9, <1>10 DEF Folder!Next

\* confineProjectPath, reserveProjectDir: for every folder to begin with, whatever its
\* names look like at the frontend, a listed path never finds another project, however
\* stale the list; and two calls never get one folder.
THEOREM PathsFindProjects == Spec => []PathsFindTheirProject
<1> DEFINE I == part = "folder" => FolderInv
<1>1. Init => I  BY FolderInit, PartsAssumption DEF Init
<1>2. I /\ [Next]_vars => I'
  <2> SUFFICES ASSUME I, [Next]_vars, part' = "folder" PROVE FolderInv'
    OBVIOUS
  <2>1. part = "folder" /\ [Folder!Next]_folderVars  BY DEF Next, vars
  <2> QED  BY <2>1, FolderNext, PartsAssumption
<1>3. I => PathsFindTheirProject
  <2> SUFFICES ASSUME FolderInv
               PROVE  Folder!TypeOK /\ Folder!NeverAnotherProject /\ Folder!FoldersApart
    BY DEF PathsFindTheirProject
  <2>1. Folder!TypeOK
    BY DEF FolderInv, FolderTypes, FolderApart, FolderCall, FolderSteps, Folder!TypeOK, Folder!Ids
  <2> QED  BY <2>1 DEF FolderInv, FolderReserved
<1> QED  BY <1>1, <1>2, <1>3, PTL DEF Spec

-----------------------------------------------------------------------------
(* Proofs: exports, for any number of calls, names, edits and choice of jobs *)

ExportHead == {"look", "timestamp", "preflight", "read", "verify", "rows", "sign"}
ExportTail == {"create", "write", "link", "unlink", "gpg"}
ExportLevels == {"unsigned", "B", "T"}
ExportCall == [pc : Exports!Pcs, job : Jobs \cup {"plain"},
               base : Bases \cup {CHOOSE b \in Bases : TRUE}, at : 1 .. 3,
               read : Exports!Docs, seen : 0 .. MaxEdits, rows : 0 .. MaxEdits,
               stamp : BOOLEAN, level : ExportLevels, result : {"none", "ok", "error"}]
ExportArtifacts == [by : Calls, of : Exports!Docs, level : ExportLevels, whole : BOOLEAN]

ExportTypes ==
    /\ doc \in Exports!Docs /\ events \in 0 .. MaxEdits
    /\ exportFiles \in [Exports!Destinations -> Exports!Files]
    /\ temps \in [Calls -> ExportArtifacts \cup {Exports!NoFile}]
    /\ calls \in [Calls -> ExportCall]
    /\ log \subseteq [call : Calls, ok : BOOLEAN]

\* The level the settings asked for when they were read.
ExportLevel(k) == IF k.stamp THEN "T" ELSE "B"

\* The destination of the i-th artifact of a call.
ExportPlace(k, i) == <<k.base, Exports!Artifacts(k.job)[i]>>

\* Where a call is: nothing is out before its first file, and a call that signs has
\* signed at the level it was to before it writes.
ExportWhere(c) ==
    LET k == calls[c] IN
    /\ k.at \in DOMAIN Exports!Artifacts(k.job)
    /\ k.pc # "idle" => k.base \in Bases
    /\ k.pc \in ExportHead \cup {"idle"} => k.at = 1 /\ k.result = "none" /\ Exports!By(c) = {}
    /\ k.pc \in ExportHead =>
           \E i \in DOMAIN Exports!Route[k.job] : Exports!Route[k.job][i] = k.pc
    /\ k.pc \in ExportTail =>
           k.result = "none" /\ (k.job \in Exports!PAdES => k.level = ExportLevel(k))

\* What a call has published is whole, of what it read, at the level it signed with, and
\* at its own destinations: at all of those before the one it is at.
ExportOut(c) ==
    LET k == calls[c] IN
    /\ \A p \in Exports!By(c) :
           /\ exportFiles[p] = Exports!Artifact(c, k.read, k.level, TRUE)
           /\ k.job \in Exports!PAdES => k.level = ExportLevel(k)
           /\ \E i \in DOMAIN Exports!Artifacts(k.job) : i <= k.at /\ p = ExportPlace(k, i)
    /\ \A i \in 1 .. 3 : i < k.at => ExportPlace(k, i) \in Exports!By(c)
    /\ k.pc = "write" => temps[c] = Exports!Artifact(c, k.read, k.level, FALSE)
    /\ k.pc = "link" => temps[c] = Exports!Artifact(c, k.read, k.level, TRUE)
    /\ k.pc = "unlink" => ExportPlace(k, k.at) \in Exports!By(c)

\* A call that succeeded, or is recorded as signed, is over and has all its files.
ExportOver(c) ==
    calls[c].result = "ok" \/ [call |-> c, ok |-> TRUE] \in log =>
        /\ calls[c].pc = "done"
        /\ \A i \in DOMAIN Exports!Artifacts(calls[c].job) :
               ExportPlace(calls[c], i) \in Exports!By(c)

\* The inductive invariant.
ExportInv ==
    ExportTypes /\ \A c \in Calls : ExportWhere(c) /\ ExportOut(c) /\ ExportOver(c)

\* The artifacts of a job: the file itself first, then at most a manifest and a signature.
LEMMA ExportArtifactNames ==
  ASSUME NEW job
  PROVE  /\ Exports!Artifacts(job) \in Seq({"main", "manifest", "asc"})
         /\ Len(Exports!Artifacts(job)) \in 1 .. 3
         /\ DOMAIN Exports!Artifacts(job) = 1 .. Len(Exports!Artifacts(job))
         /\ Exports!Artifacts(job)[1] = "main"
         /\ \A i \in DOMAIN Exports!Artifacts(job) : i # 1 =>
                Exports!Artifacts(job)[i] \in {"manifest", "asc"}
<1>1. Exports!Artifacts(job) \in {<<"main", "manifest", "asc">>, <<"main", "manifest">>,
                                  <<"main", "asc">>, <<"main">>}
  BY DEF Exports!Artifacts
<1>2. CASE Exports!Artifacts(job) = <<"main", "manifest", "asc">>  BY <1>2
<1>3. CASE Exports!Artifacts(job) = <<"main", "manifest">>  BY <1>3
<1>4. CASE Exports!Artifacts(job) = <<"main", "asc">>  BY <1>4
<1>5. CASE Exports!Artifacts(job) = <<"main">>  BY <1>5
<1> QED  BY <1>1, <1>2, <1>3, <1>4, <1>5

\* The route of a job: every step but the last has one that follows, the last is the
\* first file, and a job that signs in the PDF comes there from signing.
LEMMA ExportRoutes ==
  ASSUME NEW job \in Exports!AllJobs
  PROVE  LET r == Exports!Route[job] IN
         /\ 1 \in DOMAIN r /\ r[1] \in ExportHead
         /\ \A i \in DOMAIN r : r[i] \in ExportHead =>
                /\ i + 1 \in DOMAIN r
                /\ r[i + 1] \in ExportHead \cup {"create"}
                /\ \A j \in DOMAIN r : r[j] = r[i] => j = i
                /\ job \in Exports!PAdES /\ r[i + 1] = "create" => r[i] = "sign"
<1> USE DEF Exports!Route, ExportHead, Exports!PAdES
<1>1. CASE job = "plain"  BY <1>1
<1>2. CASE job = "evidence"  BY <1>2
<1>3. CASE job = "draft"  BY <1>3
<1>4. CASE job = "certified"  BY <1>4
<1>5. CASE job = "gpg"  BY <1>5
<1>6. CASE job = "draftgpg"  BY <1>6
<1>7. CASE job = "pades"  BY <1>7
<1>8. CASE job = "reportpades"  BY <1>8
<1> QED  BY <1>1, <1>2, <1>3, <1>4, <1>5, <1>6, <1>7, <1>8 DEF Exports!AllJobs

\* Nothing is out at first.
LEMMA ExportInit == ASSUME Exports!ExportsAssumption, Exports!Init PROVE ExportInv
<1> USE DEF Exports!Init, Exports!ExportsAssumption
<1>1. \A c \in Calls : Exports!By(c) = {}
  BY DEF Exports!By, Exports!NoFile
<1>2. Exports!Idle \in ExportCall
  BY DEF Exports!Idle, ExportCall, Exports!Pcs, Exports!Docs, ExportLevels
<1>3. ExportTypes
  BY <1>2 DEF ExportTypes, Exports!Docs, Exports!Files
<1>0. \A c \in Calls : /\ calls[c].pc = "idle" /\ calls[c].at = 1 /\ calls[c].result = "none"
  BY DEF Exports!Idle
<1>4. \A c \in Calls : ExportWhere(c)
  <2>1. \A job : 1 \in DOMAIN Exports!Artifacts(job)  BY ExportArtifactNames
  <2> QED  BY <1>0, <1>1, <2>1 DEF ExportWhere, ExportHead, ExportTail
<1>5. \A c \in Calls : ExportOut(c)
  <2> SUFFICES ASSUME NEW c \in Calls PROVE ExportOut(c)  OBVIOUS
  <2>1. ~(\E p : p \in Exports!By(c)) /\ ~(\E i \in 1 .. 3 : i < calls[c].at)
        /\ calls[c].pc \notin {"write", "link", "unlink"}
    BY <1>0, <1>1
  <2> QED  BY <2>1, Zenon DEF ExportOut
<1>6. \A c \in Calls : ExportOver(c)
  BY <1>1 DEF ExportOver, Exports!Idle
<1> QED  BY <1>3, <1>4, <1>5, <1>6 DEF ExportInv

\* A call is not disturbed by a file of somebody else at a destination that was free.
LEMMA ExportOther ==
  ASSUME Exports!ExportsAssumption, NEW c \in Calls, ExportWhere(c), ExportOut(c), ExportOver(c),
         calls'[c] = calls[c], temps'[c] = temps[c],
         [call |-> c, ok |-> TRUE] \in log' => [call |-> c, ok |-> TRUE] \in log,
         \A p \in Exports!Destinations :
             exportFiles'[p] = exportFiles[p] \/
             (exportFiles[p] = Exports!NoFile /\ exportFiles'[p].by # c)
  PROVE  (ExportWhere(c) /\ ExportOut(c) /\ ExportOver(c))'
<1>1. Exports!NoFile.by # c  BY DEF Exports!ExportsAssumption, Exports!NoFile
<1>2. Exports!By(c)' = Exports!By(c)  BY <1>1 DEF Exports!By
<1>3. \A p \in Exports!By(c) : exportFiles'[p] = exportFiles[p]  BY <1>1 DEF Exports!By
<1>4. ExportWhere(c)'  BY <1>2 DEF ExportWhere, ExportLevel
<1>5. ExportOut(c)'
  <2>1. \A p \in Exports!By(c)' :
           /\ exportFiles'[p] = Exports!Artifact(c, calls'[c].read, calls'[c].level, TRUE)
           /\ calls'[c].job \in Exports!PAdES => calls'[c].level = ExportLevel(calls'[c])
           /\ \E i \in DOMAIN Exports!Artifacts(calls'[c].job) :
                  i <= calls'[c].at /\ p = ExportPlace(calls'[c], i)
    BY <1>2, <1>3, Zenon DEF ExportOut
  <2> QED  BY <1>2, <2>1, Zenon DEF ExportOut, ExportPlace, ExportLevel
<1>6. ExportOver(c)'  BY <1>2 DEF ExportOver, ExportPlace
<1> QED  BY <1>4, <1>5, <1>6

\* What is out stays so while the call keeps what it read, its level and its place.
LEMMA ExportOutKept ==
  ASSUME NEW c \in Calls, ExportOut(c), UNCHANGED exportFiles,
         calls'[c].at = calls[c].at, calls'[c].job = calls[c].job,
         calls'[c].base = calls[c].base, calls'[c].read = calls[c].read,
         calls'[c].level = calls[c].level, calls'[c].stamp = calls[c].stamp,
         calls'[c].pc # "unlink",
         calls'[c].pc \in {"write", "link"} =>
             temps'[c] = Exports!Artifact(c, calls[c].read, calls[c].level, calls'[c].pc = "link")
  PROVE  ExportOut(c)'
<1>1. Exports!By(c)' = Exports!By(c)  BY DEF Exports!By
<1>2. \A i : ExportPlace(calls'[c], i) = ExportPlace(calls[c], i)  BY DEF ExportPlace
<1>3. ExportLevel(calls'[c]) = ExportLevel(calls[c])  BY DEF ExportLevel
<1>4. \A p \in Exports!By(c)' :
         /\ exportFiles'[p] = Exports!Artifact(c, calls'[c].read, calls'[c].level, TRUE)
         /\ calls'[c].job \in Exports!PAdES => calls'[c].level = ExportLevel(calls'[c])
         /\ \E i \in DOMAIN Exports!Artifacts(calls'[c].job) :
                i <= calls'[c].at /\ p = ExportPlace(calls'[c], i)
  <2> SUFFICES ASSUME NEW p \in Exports!By(c)
               PROVE  /\ exportFiles'[p] =
                            Exports!Artifact(c, calls'[c].read, calls'[c].level, TRUE)
                      /\ calls'[c].job \in Exports!PAdES =>
                             calls'[c].level = ExportLevel(calls'[c])
                      /\ \E i \in DOMAIN Exports!Artifacts(calls'[c].job) :
                             i <= calls'[c].at /\ p = ExportPlace(calls'[c], i)
    BY <1>1
  <2>1. /\ exportFiles[p] = Exports!Artifact(c, calls[c].read, calls[c].level, TRUE)
        /\ calls[c].job \in Exports!PAdES => calls[c].level = ExportLevel(calls[c])
        /\ \E i \in DOMAIN Exports!Artifacts(calls[c].job) :
               i <= calls[c].at /\ p = ExportPlace(calls[c], i)
    BY Zenon DEF ExportOut
  <2> QED  BY <1>2, <1>3, <2>1
<1>5. \A i \in 1 .. 3 : i < calls'[c].at => ExportPlace(calls'[c], i) \in Exports!By(c)'
  BY <1>1, <1>2 DEF ExportOut
<1>6. /\ calls'[c].pc = "write" =>
             temps'[c] = Exports!Artifact(c, calls'[c].read, calls'[c].level, FALSE)
      /\ calls'[c].pc = "link" =>
             temps'[c] = Exports!Artifact(c, calls'[c].read, calls'[c].level, TRUE)
  BY DEF Exports!Artifact
<1> QED  BY <1>4, <1>5, <1>6, Zenon DEF ExportOut, ExportPlace, ExportLevel

\* A call that does not touch its files keeps what is out; so does one that ends.
LEMMA ExportFails ==
  ASSUME Exports!ExportsAssumption, ExportInv, NEW c \in Calls, NEW x,
         calls[c].pc \notin {"idle", "done"}, Exports!Fail(c, x),
         UNCHANGED <<doc, events, exportFiles>>,
         temps' \in {temps, [temps EXCEPT ![c] = Exports!NoFile]}
  PROVE  ExportInv'
<1>1. calls[c] \in ExportCall /\ calls \in [Calls -> ExportCall]
  BY DEF ExportInv, ExportTypes
<1>2. calls' = [calls EXCEPT ![c] = [calls[c] EXCEPT !.pc = "done", !.result = "error"]]
  BY <1>1 DEF Exports!Fail
<1>3. calls'[c] \in ExportCall /\ calls' \in [Calls -> ExportCall]
      /\ calls'[c].pc = "done" /\ calls'[c].result = "error"
      /\ calls'[c].at = calls[c].at /\ calls'[c].job = calls[c].job
      /\ calls'[c].base = calls[c].base /\ calls'[c].read = calls[c].read
      /\ calls'[c].level = calls[c].level /\ calls'[c].stamp = calls[c].stamp
  BY <1>1, <1>2 DEF ExportCall, Exports!Pcs
<1>4. /\ log' \subseteq [call : Calls, ok : BOOLEAN]
      /\ \A d \in Calls : [call |-> d, ok |-> TRUE] \in log' => [call |-> d, ok |-> TRUE] \in log
  <2>1. [call |-> c, ok |-> FALSE] \in [call : Calls, ok : BOOLEAN]  OBVIOUS
  <2>2. log' \subseteq log \cup {[call |-> c, ok |-> FALSE]}  BY DEF Exports!Fail
  <2>3. \A d : [call |-> d, ok |-> TRUE] # [call |-> c, ok |-> FALSE]  OBVIOUS
  <2> QED  BY <2>1, <2>2, <2>3 DEF ExportInv, ExportTypes
<1>5. ExportTypes'  BY <1>3, <1>4 DEF ExportInv, ExportTypes
<1>6. \A d \in Calls : d # c => (ExportWhere(d) /\ ExportOut(d) /\ ExportOver(d))'
  <2> SUFFICES ASSUME NEW d \in Calls, d # c
               PROVE  (ExportWhere(d) /\ ExportOut(d) /\ ExportOver(d))'
    OBVIOUS
  <2>1. calls'[d] = calls[d] /\ temps'[d] = temps[d]
    BY <1>1, <1>2 DEF ExportInv, ExportTypes
  <2> QED  BY <1>4, <2>1, ExportOther DEF ExportInv
<1>7. Exports!By(c)' = Exports!By(c)  BY DEF Exports!By
<1>8. ExportWhere(c)'
  BY <1>1, <1>3, <1>7 DEF ExportInv, ExportWhere, ExportHead, ExportTail
<1>9. ExportOut(c)'
  <2>1. ExportOut(c)  BY DEF ExportInv
  <2> QED  BY <1>3, <2>1, ExportOutKept
<1>10. ExportOver(c)'  BY <1>3, <1>4 DEF ExportInv, ExportOver
<1> QED  BY <1>5, <1>6, <1>8, <1>9, <1>10 DEF ExportInv

\* The calls beside the one that moves keep the invariant.
LEMMA ExportOthers ==
  ASSUME Exports!ExportsAssumption, ExportInv, NEW c \in Calls, NEW r,
         calls' = [calls EXCEPT ![c] = r],
         \A d \in Calls : d # c => temps'[d] = temps[d],
         \A d \in Calls : d # c =>
             ([call |-> d, ok |-> TRUE] \in log' => [call |-> d, ok |-> TRUE] \in log),
         \A p \in Exports!Destinations :
             exportFiles'[p] = exportFiles[p] \/
             (exportFiles[p] = Exports!NoFile /\ exportFiles'[p].by = c)
  PROVE  /\ calls'[c] = r
         /\ \A d \in Calls : d # c => (ExportWhere(d) /\ ExportOut(d) /\ ExportOver(d))'
<1>1. calls \in [Calls -> ExportCall]  BY DEF ExportInv, ExportTypes
<1>2. ASSUME NEW d \in Calls, d # c PROVE (ExportWhere(d) /\ ExportOut(d) /\ ExportOver(d))'
  <2>1. calls'[d] = calls[d]  BY <1>1, <1>2
  <2>2. ExportWhere(d) /\ ExportOut(d) /\ ExportOver(d)  BY DEF ExportInv
  <2>3. \A p \in Exports!Destinations :
             exportFiles'[p] = exportFiles[p] \/
             (exportFiles[p] = Exports!NoFile /\ exportFiles'[p].by # d)
    BY <1>2
  <2>4. temps'[d] = temps[d]  BY <1>2
  <2>5. [call |-> d, ok |-> TRUE] \in log' => [call |-> d, ok |-> TRUE] \in log  BY <1>2
  <2> QED  BY <2>1, <2>2, <2>3, <2>4, <2>5, ExportOther
<1> QED  BY <1>1, <1>2

\* The head of a call: the step that follows on its route.
LEMMA ExportMoves ==
  ASSUME Exports!ExportsAssumption, ExportInv, NEW c \in Calls, NEW r \in ExportCall,
         calls[c].pc \in ExportHead, calls' = [calls EXCEPT ![c] = r],
         UNCHANGED <<doc, events, exportFiles, temps, log>>,
         r.pc = Exports!After(c), r.job = calls[c].job, r.base = calls[c].base,
         r.at = calls[c].at, r.result = calls[c].result,
         calls[c].pc = "sign" => r.level = ExportLevel(r)
  PROVE  ExportInv'
<1> DEFINE k == calls[c]
           route == Exports!Route[k.job]
<1>1. calls \in [Calls -> ExportCall] /\ k \in ExportCall /\ calls' \in [Calls -> ExportCall]
  BY DEF ExportInv, ExportTypes
<1>2. calls'[c] = r /\ \A d \in Calls : d # c => (ExportWhere(d) /\ ExportOut(d) /\ ExportOver(d))'
  BY ExportOthers
<1>3. k.job \in Exports!AllJobs
  BY <1>1 DEF ExportCall, Exports!ExportsAssumption, Exports!AllJobs, Exports!Route
<1>4. PICK i \in DOMAIN route : route[i] = k.pc  BY DEF ExportInv, ExportWhere
<1>5. r.pc = route[i + 1]
  <2>1. (CHOOSE j \in DOMAIN route : route[j] = k.pc) = i  BY <1>3, <1>4, ExportRoutes
  <2> QED  BY <2>1 DEF Exports!After
<1>6. /\ i + 1 \in DOMAIN route /\ r.pc \in ExportHead \cup {"create"}
      /\ k.job \in Exports!PAdES /\ r.pc = "create" => k.pc = "sign"
  BY <1>3, <1>4, <1>5, ExportRoutes
<1>7. Exports!By(c)' = Exports!By(c) /\ Exports!By(c) = {}
  BY DEF ExportInv, ExportWhere, Exports!By
<1>8. k.at = 1 /\ k.result = "none" /\ k.at \in DOMAIN Exports!Artifacts(k.job)
      /\ k.base \in Bases
  BY DEF ExportInv, ExportWhere, ExportHead
<1>9. ExportWhere(c)'
  <2>1. r.pc \in ExportHead =>
           \E j \in DOMAIN Exports!Route[r.job] : Exports!Route[r.job][j] = r.pc
    BY <1>5, <1>6
  <2>2. r.pc \in ExportTail => (r.job \in Exports!PAdES => r.level = ExportLevel(r))
    BY <1>6 DEF ExportTail, ExportHead
  <2>3. r.at = 1 /\ r.result = "none" /\ r.at \in DOMAIN Exports!Artifacts(r.job)
        /\ r.base \in Bases /\ r.job = k.job
    BY <1>8
  <2> QED  BY <1>2, <1>7, <2>1, <2>2, <2>3 DEF ExportWhere, ExportLevel
<1>10. ExportOut(c)'
  <2>1. /\ ~(\E p : p \in Exports!By(c)') /\ ~(\E j \in 1 .. 3 : j < calls'[c].at)
        /\ calls'[c].pc \notin {"write", "link", "unlink"}
    BY <1>2, <1>6, <1>7, <1>8 DEF ExportHead
  <2> QED  BY <2>1, Zenon DEF ExportOut
<1>11. ExportOver(c)'
  <2>1. [call |-> c, ok |-> TRUE] \notin log  BY DEF ExportInv, ExportOver, ExportHead
  <2> QED  BY <1>2, <1>8, <2>1 DEF ExportOver
<1>12. ExportTypes'  BY <1>1 DEF ExportInv, ExportTypes
<1> QED  BY <1>2, <1>9, <1>10, <1>11, <1>12 DEF ExportInv

\* Every step of the head keeps the invariant.
LEMMA ExportHeadStep ==
  ASSUME Exports!ExportsAssumption, ExportInv, NEW c \in Calls,
         \/ Exports!EnsureAvailable(c) \/ Exports!PrepareTimestamp(c) \/ Exports!Preflight(c)
         \/ Exports!Read(c) \/ Exports!VerifyEvidence(c) \/ Exports!ListEvidence(c)
         \/ Exports!ApplyPAdES(c)
  PROVE  ExportInv'
<1> DEFINE k == calls[c]
<1>1. calls \in [Calls -> ExportCall] /\ k \in ExportCall /\ doc \in Exports!Docs
      /\ events \in 0 .. MaxEdits
  BY DEF ExportInv, ExportTypes
<1>2. /\ UNCHANGED <<doc, events, exportFiles, temps>>
      /\ k.pc \in ExportHead /\ k.pc \notin {"idle", "done"}
  BY DEF Exports!EnsureAvailable, Exports!PrepareTimestamp, Exports!Preflight, Exports!Read,
         Exports!VerifyEvidence, Exports!ListEvidence, Exports!ApplyPAdES, ExportHead
<1>3. CASE \E x : Exports!Fail(c, x)  BY <1>2, <1>3, ExportFails
<1>4. CASE ~ \E x : Exports!Fail(c, x)
  <2>1. Exports!After(c) \in Exports!Pcs
    <3>1. k.job \in Exports!AllJobs
      BY <1>1 DEF ExportCall, Exports!ExportsAssumption, Exports!AllJobs, Exports!Route
    <3>2. PICK i \in DOMAIN Exports!Route[k.job] : Exports!Route[k.job][i] = k.pc
      BY <1>2 DEF ExportInv, ExportWhere
    <3>3. (CHOOSE j \in DOMAIN Exports!Route[k.job] : Exports!Route[k.job][j] = k.pc) = i
      BY <1>2, <3>1, <3>2, ExportRoutes
    <3>4. Exports!Route[k.job][i + 1] \in ExportHead \cup {"create"}
      BY <1>2, <3>1, <3>2, ExportRoutes
    <3> QED  BY <3>3, <3>4 DEF Exports!After, ExportHead, Exports!Pcs
  <2>2. \E r \in ExportCall :
           /\ calls' = [calls EXCEPT ![c] = r] /\ log' = log
           /\ r.pc = Exports!After(c) /\ r.job = k.job /\ r.base = k.base
           /\ r.at = k.at /\ r.result = k.result
           /\ k.pc = "sign" => r.level = ExportLevel(r)
    <3>1. CASE calls' = [calls EXCEPT ![c].pc = Exports!After(c)] /\ log' = log /\ k.pc # "sign"
      <4> DEFINE r == [k EXCEPT !.pc = Exports!After(c)]
      <4>1. r \in ExportCall /\ calls' = [calls EXCEPT ![c] = r]
        BY <1>1, <2>1, <3>1 DEF ExportCall
      <4> QED  BY <1>1, <3>1, <4>1 DEF ExportCall
    <3>2. CASE /\ \E stamp \in BOOLEAN :
                     calls' = [calls EXCEPT ![c].pc = Exports!After(c), ![c].stamp = stamp]
               /\ log' = log /\ k.pc # "sign"
      <4>1. PICK stamp \in BOOLEAN :
                     calls' = [calls EXCEPT ![c].pc = Exports!After(c), ![c].stamp = stamp]
        BY <3>2
      <4> DEFINE r == [k EXCEPT !.pc = Exports!After(c), !.stamp = stamp]
      <4>2. r \in ExportCall /\ calls' = [calls EXCEPT ![c] = r]
        BY <1>1, <2>1, <4>1 DEF ExportCall
      <4> QED  BY <1>1, <3>2, <4>2 DEF ExportCall
    <3>3. CASE /\ calls' = [calls EXCEPT ![c].read = doc, ![c].pc = Exports!After(c)]
               /\ log' = log /\ k.pc # "sign"
      <4> DEFINE r == [k EXCEPT !.read = doc, !.pc = Exports!After(c)]
      <4>1. r \in ExportCall /\ calls' = [calls EXCEPT ![c] = r]
        BY <1>1, <2>1, <3>3 DEF ExportCall
      <4> QED  BY <1>1, <3>3, <4>1 DEF ExportCall
    <3>4. CASE /\ calls' = [calls EXCEPT ![c].pc = Exports!After(c), ![c].seen = events]
               /\ log' = log /\ k.pc # "sign"
      <4> DEFINE r == [k EXCEPT !.pc = Exports!After(c), !.seen = events]
      <4>1. r \in ExportCall /\ calls' = [calls EXCEPT ![c] = r]
        BY <1>1, <2>1, <3>4 DEF ExportCall
      <4> QED  BY <1>1, <3>4, <4>1 DEF ExportCall
    <3>5. CASE /\ calls' = [calls EXCEPT ![c].pc = Exports!After(c), ![c].rows = events]
               /\ log' = log /\ k.pc # "sign"
      <4> DEFINE r == [k EXCEPT !.pc = Exports!After(c), !.rows = events]
      <4>1. r \in ExportCall /\ calls' = [calls EXCEPT ![c] = r]
        BY <1>1, <2>1, <3>5 DEF ExportCall
      <4> QED  BY <1>1, <3>5, <4>1 DEF ExportCall
    <3>6. CASE /\ calls' = [calls EXCEPT ![c].pc = Exports!After(c),
                                         ![c].level = IF k.stamp THEN "T" ELSE "B"]
               /\ log' = log
      <4> DEFINE r == [k EXCEPT !.pc = Exports!After(c), !.level = IF k.stamp THEN "T" ELSE "B"]
      <4>1. r \in ExportCall /\ calls' = [calls EXCEPT ![c] = r]
        BY <1>1, <2>1, <3>6 DEF ExportCall, ExportLevels
      <4>2. r.level = ExportLevel(r)  BY <1>1 DEF ExportCall, ExportLevel
      <4> QED  BY <1>1, <3>6, <4>1, <4>2 DEF ExportCall
    <3> QED
      BY <1>4, <3>1, <3>2, <3>3, <3>4, <3>5, <3>6
      DEF Exports!EnsureAvailable, Exports!PrepareTimestamp, Exports!Preflight, Exports!Read,
          Exports!VerifyEvidence, Exports!ListEvidence, Exports!ApplyPAdES, Exports!Go
  <2> QED  BY <1>2, <2>2, ExportMoves
<1> QED  BY <1>3, <1>4

\* A call starts at the first step of its job's route.
LEMMA ExportStart ==
  ASSUME Exports!ExportsAssumption, ExportInv, NEW c \in Calls, NEW job, NEW base \in Bases,
         Exports!Start(c, job, base)
  PROVE  ExportInv'
<1> DEFINE k == calls[c]
           r == [k EXCEPT !.pc = Exports!Route[job][1], !.job = job, !.base = base]
<1>1. calls \in [Calls -> ExportCall] /\ k \in ExportCall  BY DEF ExportInv, ExportTypes
<1>2. /\ k.pc = "idle" /\ job \in Jobs /\ calls' = [calls EXCEPT ![c] = r]
      /\ UNCHANGED <<doc, events, exportFiles, temps, log>>
  BY <1>1 DEF Exports!Start
<1>3. job \in Exports!AllJobs  BY <1>2 DEF Exports!ExportsAssumption
<1>4. 1 \in DOMAIN Exports!Route[job] /\ Exports!Route[job][1] \in ExportHead
  BY <1>3, ExportRoutes
<1>5. r \in ExportCall /\ r.pc = Exports!Route[job][1] /\ r.job = job /\ r.base = base
      /\ r.at = k.at /\ r.result = k.result
  BY <1>1, <1>2, <1>4 DEF ExportCall, ExportHead, Exports!Pcs
<1> HIDE DEF r
<1>6. calls'[c] = r /\ \A d \in Calls : d # c => (ExportWhere(d) /\ ExportOut(d) /\ ExportOver(d))'
  BY <1>2, ExportOthers
<1>7. Exports!By(c)' = Exports!By(c) /\ Exports!By(c) = {} /\ k.at = 1 /\ k.result = "none"
      /\ [call |-> c, ok |-> TRUE] \notin log
  BY <1>2 DEF ExportInv, ExportWhere, ExportOver, Exports!By
<1>8. ExportWhere(c)'
  <2>1. 1 \in DOMAIN Exports!Artifacts(job)  BY ExportArtifactNames
  <2>2. \E j \in DOMAIN Exports!Route[r.job] : Exports!Route[r.job][j] = r.pc  BY <1>4, <1>5
  <2>3. r.pc \notin ExportTail  BY <1>4, <1>5 DEF ExportHead, ExportTail
  <2> QED  BY <1>5, <1>6, <1>7, <2>1, <2>2, <2>3 DEF ExportWhere
<1>9. ExportOut(c)'
  <2>1. /\ ~(\E p : p \in Exports!By(c)') /\ ~(\E j \in 1 .. 3 : j < calls'[c].at)
        /\ calls'[c].pc \notin {"write", "link", "unlink"}
    BY <1>4, <1>5, <1>6, <1>7 DEF ExportHead
  <2> QED  BY <2>1, Zenon DEF ExportOut
<1>10. ExportOver(c)'  BY <1>2, <1>5, <1>6, <1>7 DEF ExportOver
<1>11. ExportTypes'  BY <1>1, <1>2, <1>5 DEF ExportInv, ExportTypes
<1> QED  BY <1>6, <1>8, <1>9, <1>10, <1>11 DEF ExportInv

\* A step of a call between the files it publishes: it goes on to another step of the
\* tail and has the temporary file that step works on.
LEMMA ExportProceeds ==
  ASSUME Exports!ExportsAssumption, ExportInv, NEW c \in Calls,
         calls[c].pc \in ExportTail, NEW x \in {"create", "write", "link", "gpg"},
         calls' = [calls EXCEPT ![c].pc = x], UNCHANGED <<doc, events, exportFiles, log>>,
         temps' \in [Calls -> ExportArtifacts \cup {Exports!NoFile}],
         \A d \in Calls : d # c => temps'[d] = temps[d],
         x \in {"write", "link"} =>
             temps'[c] = Exports!Artifact(c, calls[c].read, calls[c].level, x = "link")
  PROVE  ExportInv'
<1> DEFINE k == calls[c]
           r == [k EXCEPT !.pc = x]
<1>1. calls \in [Calls -> ExportCall] /\ k \in ExportCall  BY DEF ExportInv, ExportTypes
<1>2. calls' = [calls EXCEPT ![c] = r]  BY <1>1
<1>3. r \in ExportCall /\ r.pc = x /\ r.job = k.job /\ r.base = k.base /\ r.at = k.at
      /\ r.result = k.result /\ r.read = k.read /\ r.level = k.level /\ r.stamp = k.stamp
  BY <1>1 DEF ExportCall, Exports!Pcs
<1> HIDE DEF r
<1>4. calls'[c] = r /\ \A d \in Calls : d # c => (ExportWhere(d) /\ ExportOut(d) /\ ExportOver(d))'
  BY <1>2, ExportOthers
<1>5. ExportWhere(c) /\ ExportOut(c) /\ ExportOver(c)  BY DEF ExportInv
<1>6. ExportWhere(c)'
  BY <1>3, <1>4, <1>5 DEF ExportWhere, ExportHead, ExportTail, ExportLevel
<1>7. ExportOut(c)'
  <2>1. calls'[c].pc # "unlink"  BY <1>3, <1>4
  <2> QED  BY <1>3, <1>4, <1>5, <2>1, ExportOutKept
<1>8. ExportOver(c)'
  <2>1. [call |-> c, ok |-> TRUE] \notin log /\ k.result # "ok"
    BY <1>5 DEF ExportOver, ExportTail
  <2> QED  BY <1>3, <1>4, <2>1 DEF ExportOver
<1>9. ExportTypes'  BY <1>1, <1>2, <1>3 DEF ExportInv, ExportTypes
<1> QED  BY <1>4, <1>6, <1>7, <1>8, <1>9 DEF ExportInv

\* What a call writes is what it read: a detached signature is made of the file the call
\* has published.
LEMMA ExportContent ==
  ASSUME Exports!ExportsAssumption, ExportInv, NEW c \in Calls
  PROVE  Exports!Content(c) = calls[c].read
<1> DEFINE k == calls[c]
<1>1. ExportWhere(c) /\ ExportOut(c) /\ k \in ExportCall  BY DEF ExportInv, ExportTypes
<1>2. CASE Exports!Destination(c)[2] # "asc"  BY <1>2 DEF Exports!Content
<1>3. CASE Exports!Destination(c)[2] = "asc"
  <2>1. Exports!Artifacts(k.job)[k.at] = "asc"  BY <1>3 DEF Exports!Destination
  <2>2. k.at # 1 /\ Exports!Artifacts(k.job)[1] = "main"  BY <2>1, ExportArtifactNames
  <2>3. ExportPlace(k, 1) \in Exports!By(c)
    BY <1>1, <2>2 DEF ExportOut, ExportCall
  <2>4. ExportPlace(k, 1) = <<k.base, "main">>  BY <2>2 DEF ExportPlace
  <2>5. exportFiles[<<k.base, "main">>] = Exports!Artifact(c, k.read, k.level, TRUE)
    BY <1>1, <2>3, <2>4, Zenon DEF ExportOut
  <2> QED  BY <1>3, <2>5 DEF Exports!Content, Exports!Artifact
<1> QED  BY <1>2, <1>3

LEMMA ExportCreate ==
  ASSUME Exports!ExportsAssumption, ExportInv, NEW c \in Calls, Exports!Create(c)
  PROVE  ExportInv'
<1> DEFINE k == calls[c]
           f == Exports!Artifact(c, k.read, k.level, FALSE)
<1>1. k \in ExportCall /\ temps \in [Calls -> ExportArtifacts \cup {Exports!NoFile}]
      /\ k.pc = "create"
  BY DEF ExportInv, ExportTypes, Exports!Create
<1>2. CASE Exports!Fail(c, Exports!Recorded(c)) /\ UNCHANGED temps
  BY <1>1, <1>2, ExportFails DEF Exports!Create
<1>3. CASE /\ temps' = [temps EXCEPT ![c] =
                          Exports!Artifact(c, Exports!Content(c), k.level, FALSE)]
           /\ Exports!Go(c, "write") /\ UNCHANGED log
  <2>1. temps' = [temps EXCEPT ![c] = f]  BY <1>3, ExportContent
  <2>2. f \in ExportArtifacts
    BY <1>1 DEF ExportCall, ExportArtifacts, Exports!Artifact
  <2>3. temps' \in [Calls -> ExportArtifacts \cup {Exports!NoFile}]
        /\ (\A d \in Calls : d # c => temps'[d] = temps[d]) /\ temps'[c] = f
    BY <1>1, <2>1, <2>2
  <2>4. f = Exports!Artifact(c, k.read, k.level, "write" = "link")  BY DEF Exports!Artifact
  <2>5. calls' = [calls EXCEPT ![c].pc = "write"] /\ UNCHANGED <<doc, events, exportFiles, log>>
        /\ k.pc \in ExportTail
    BY <1>1, <1>3 DEF Exports!Create, Exports!Go, ExportTail
  <2> HIDE DEF f
  <2> QED  BY <2>3, <2>4, <2>5, ExportProceeds
<1> QED  BY <1>2, <1>3 DEF Exports!Create

LEMMA ExportWrite ==
  ASSUME Exports!ExportsAssumption, ExportInv, NEW c \in Calls, Exports!Write(c)
  PROVE  ExportInv'
<1> DEFINE k == calls[c]
           f == Exports!Artifact(c, k.read, k.level, TRUE)
<1>1. k \in ExportCall /\ temps \in [Calls -> ExportArtifacts \cup {Exports!NoFile}]
      /\ k.pc = "write"
  BY DEF ExportInv, ExportTypes, Exports!Write
<1>2. CASE /\ temps' \in {[temps EXCEPT ![c] = Exports!NoFile], temps}
           /\ Exports!Fail(c, Exports!Recorded(c))
  BY <1>1, <1>2, ExportFails DEF Exports!Write
<1>3. CASE /\ temps' = [temps EXCEPT ![c].whole = TRUE]
           /\ Exports!Go(c, "link") /\ UNCHANGED log
  <2>1. temps[c] = Exports!Artifact(c, k.read, k.level, FALSE)
    BY <1>1 DEF ExportInv, ExportOut
  <2>2. temps' = [temps EXCEPT ![c] = f]
    <3>1. temps' = [temps EXCEPT ![c] = [temps[c] EXCEPT !.whole = TRUE]]  BY <1>1, <1>3
    <3> DEFINE g == [temps[c] EXCEPT !.whole = TRUE]
    <3>2. temps[c] \in ExportArtifacts /\ f \in ExportArtifacts
      BY <1>1, <2>1 DEF ExportCall, ExportArtifacts, Exports!Artifact
    <3>3. /\ g \in ExportArtifacts /\ g.by = temps[c].by /\ g.of = temps[c].of
          /\ g.level = temps[c].level /\ g.whole = TRUE
      BY <3>2 DEF ExportArtifacts
    <3>4. /\ f.by = temps[c].by /\ f.of = temps[c].of /\ f.level = temps[c].level
          /\ f.whole = TRUE
      BY <2>1 DEF Exports!Artifact
    <3>5. g = f
      <4> HIDE DEF f, g
      <4> QED  BY <3>2, <3>3, <3>4 DEF ExportArtifacts
    <3> QED  BY <3>1, <3>5
  <2>3. f \in ExportArtifacts
    BY <1>1 DEF ExportCall, ExportArtifacts, Exports!Artifact
  <2>4. temps' \in [Calls -> ExportArtifacts \cup {Exports!NoFile}]
        /\ (\A d \in Calls : d # c => temps'[d] = temps[d]) /\ temps'[c] = f
    BY <1>1, <2>2, <2>3
  <2>5. f = Exports!Artifact(c, k.read, k.level, "link" = "link")  BY DEF Exports!Artifact
  <2>6. calls' = [calls EXCEPT ![c].pc = "link"] /\ UNCHANGED <<doc, events, exportFiles, log>>
        /\ k.pc \in ExportTail
    BY <1>1, <1>3 DEF Exports!Write, Exports!Go, ExportTail
  <2> HIDE DEF f
  <2> QED  BY <2>4, <2>5, <2>6, ExportProceeds
<1> QED  BY <1>2, <1>3 DEF Exports!Write

LEMMA ExportSigns ==
  ASSUME Exports!ExportsAssumption, ExportInv, NEW c \in Calls, Exports!SignDetached(c)
  PROVE  ExportInv'
<1>1. temps \in [Calls -> ExportArtifacts \cup {Exports!NoFile}] /\ calls[c].pc = "gpg"
      /\ UNCHANGED <<doc, events, exportFiles, temps>>
  BY DEF ExportInv, ExportTypes, Exports!SignDetached
<1>2. CASE Exports!Fail(c, TRUE)  BY <1>1, <1>2, ExportFails
<1>3. CASE Exports!Go(c, "create") /\ UNCHANGED log
  BY <1>1, <1>3, ExportProceeds DEF Exports!Go, ExportTail
<1> QED  BY <1>2, <1>3 DEF Exports!SignDetached

\* The destinations of a call's artifacts.
LEMMA ExportPlaces ==
  ASSUME Exports!ExportsAssumption, ExportInv, NEW c \in Calls, calls[c].pc # "idle",
         NEW i \in DOMAIN Exports!Artifacts(calls[c].job)
  PROVE  ExportPlace(calls[c], i) \in Exports!Destinations
<1>1. calls[c].base \in Bases  BY DEF ExportInv, ExportWhere
<1>2. Exports!Artifacts(calls[c].job)[i] \in {"main", "manifest", "asc"}
  BY ExportArtifactNames
<1> QED  BY <1>1, <1>2 DEF ExportPlace, Exports!Destinations

\* The link publishes the whole temporary file at a destination that is free.
LEMMA ExportLink ==
  ASSUME Exports!ExportsAssumption, ExportInv, NEW c \in Calls, Exports!Link(c)
  PROVE  ExportInv' /\ Exports!NothingReplaced
<1> DEFINE k == calls[c]
           f == Exports!Artifact(c, k.read, k.level, TRUE)
           r == [k EXCEPT !.pc = "unlink"]
           q == ExportPlace(k, k.at)
<1>1. /\ k \in ExportCall /\ temps \in [Calls -> ExportArtifacts \cup {Exports!NoFile}]
      /\ k.pc = "link" /\ calls \in [Calls -> ExportCall]
      /\ exportFiles \in [Exports!Destinations -> Exports!Files]
      /\ doc' = doc /\ events' = events
  BY DEF ExportInv, ExportTypes, Exports!Link
<1>2. CASE /\ temps' \in {[temps EXCEPT ![c] = Exports!NoFile], temps}
           /\ Exports!Fail(c, Exports!Recorded(c)) /\ UNCHANGED exportFiles
  <2>1. ExportInv'  BY <1>1, <1>2, ExportFails
  <2> QED  BY <1>2, <2>1 DEF Exports!NothingReplaced
<1>3. CASE /\ exportFiles[Exports!Destination(c)] = Exports!NoFile
           /\ exportFiles' = [exportFiles EXCEPT ![Exports!Destination(c)] = temps[c]]
           /\ Exports!Go(c, "unlink") /\ UNCHANGED <<temps, log>>
  <2>1. ExportWhere(c) /\ ExportOut(c) /\ ExportOver(c) /\ temps[c] = f
    BY <1>1 DEF ExportInv, ExportOut
  <2>2. Exports!Destination(c) = q  BY DEF Exports!Destination, ExportPlace
  <2>3. k.at \in DOMAIN Exports!Artifacts(k.job) /\ q \in Exports!Destinations
    BY <1>1, <2>1, ExportPlaces DEF ExportWhere
  <2>4. f \in ExportArtifacts /\ f.by = c
    BY <1>1 DEF ExportCall, ExportArtifacts, Exports!Artifact
  <2>5. f \in Exports!Files  BY <2>4 DEF Exports!Files, ExportArtifacts, ExportLevels
  <2>6. /\ exportFiles' \in [Exports!Destinations -> Exports!Files]
        /\ exportFiles[q] = Exports!NoFile /\ exportFiles'[q] = f
        /\ \A p \in Exports!Destinations : p # q => exportFiles'[p] = exportFiles[p]
    BY <1>1, <1>3, <2>1, <2>2, <2>3, <2>5
  <2> HIDE DEF f, q
  <2>7. calls' = [calls EXCEPT ![c] = r]  BY <1>1, <1>3 DEF Exports!Go
  <2>8. r \in ExportCall /\ r.pc = "unlink" /\ r.job = k.job /\ r.base = k.base /\ r.at = k.at
      /\ r.result = k.result /\ r.read = k.read /\ r.level = k.level /\ r.stamp = k.stamp
    BY <1>1 DEF ExportCall, Exports!Pcs
  <2> HIDE DEF r
  <2>9. \A p \in Exports!Destinations :
             exportFiles'[p] = exportFiles[p] \/
             (exportFiles[p] = Exports!NoFile /\ exportFiles'[p].by = c)
    BY <2>4, <2>6
  <2>10. calls'[c] = r /\ \A d \in Calls : d # c => (ExportWhere(d) /\ ExportOut(d) /\ ExportOver(d))'
    BY <1>3, <2>7, <2>9, ExportOthers
  <2>11. \A p : p \in Exports!By(c)' <=> p \in Exports!By(c) \/ p = q
    BY <2>3, <2>4, <2>6 DEF Exports!By
  <2>12. \A p \in Exports!By(c) : p # q /\ exportFiles'[p] = exportFiles[p]
    BY <2>6 DEF Exports!By, Exports!NoFile, Exports!ExportsAssumption
  <2>13. ExportWhere(c)'
    BY <1>1, <2>1, <2>8, <2>10 DEF ExportWhere, ExportHead, ExportTail, ExportLevel
  <2>14. ExportOut(c)'
    <3>0. \A i : ExportPlace(r, i) = ExportPlace(k, i)  BY <2>8 DEF ExportPlace
    <3>1. \A p \in Exports!By(c) :
             /\ exportFiles[p] = f
             /\ \E i \in DOMAIN Exports!Artifacts(k.job) : i <= k.at /\ p = ExportPlace(k, i)
      BY <2>1, Zenon DEF ExportOut, f
    <3>2. r.job \in Exports!PAdES => r.level = ExportLevel(r)
      BY <1>1, <2>1, <2>8 DEF ExportWhere, ExportTail, ExportLevel
    <3>3. k.at <= k.at  BY <1>1 DEF ExportCall
    <3>4. \A p \in Exports!By(c)' :
             /\ exportFiles'[p] = f
             /\ \E i \in DOMAIN Exports!Artifacts(r.job) : i <= r.at /\ p = ExportPlace(r, i)
      <4> SUFFICES ASSUME NEW p \in Exports!By(c)'
                   PROVE  /\ exportFiles'[p] = f
                          /\ \E i \in DOMAIN Exports!Artifacts(k.job) :
                                 i <= k.at /\ p = ExportPlace(k, i)
        BY <2>8, <3>0
      <4>1. CASE p = q  BY <2>3, <2>6, <3>3, <4>1 DEF q
      <4>2. CASE p # q
        <5>1. p \in Exports!By(c) /\ exportFiles'[p] = exportFiles[p]
          BY <2>11, <2>12, <4>2
        <5> QED  BY <3>1, <5>1
      <4> QED  BY <4>1, <4>2
    <3>5. \A i \in 1 .. 3 : i < r.at => ExportPlace(r, i) \in Exports!By(c)'
      BY <2>1, <2>8, <2>11, <3>0 DEF ExportOut
    <3>6. ExportPlace(r, r.at) \in Exports!By(c)'  BY <2>8, <2>11, <3>0 DEF q
    <3>7. r.pc \notin {"write", "link"} /\ f = Exports!Artifact(c, r.read, r.level, TRUE)
      BY <2>8 DEF f
    <3> QED  BY <2>10, <3>2, <3>4, <3>5, <3>6, <3>7, Zenon DEF ExportOut
  <2>15. ExportOver(c)'
    <3>1. [call |-> c, ok |-> TRUE] \notin log /\ k.result # "ok"  BY <1>1, <2>1 DEF ExportOver
    <3> QED  BY <1>3, <2>8, <2>10, <3>1 DEF ExportOver
  <2>16. ExportTypes'  BY <1>1, <1>3, <2>6, <2>7, <2>8 DEF ExportInv, ExportTypes
  <2>17. Exports!NothingReplaced  BY <2>6 DEF Exports!NothingReplaced
  <2> QED  BY <2>10, <2>13, <2>14, <2>15, <2>16, <2>17 DEF ExportInv
<1> QED  BY <1>2, <1>3 DEF Exports!Link

\* After a file is out the call goes on to the next one, or is done and has them all.
LEMMA ExportUnlink ==
  ASSUME Exports!ExportsAssumption, ExportInv, NEW c \in Calls, Exports!Unlink(c)
  PROVE  ExportInv'
<1> DEFINE k == calls[c]
           n == Len(Exports!Artifacts(k.job))
<1>1. /\ k \in ExportCall /\ temps \in [Calls -> ExportArtifacts \cup {Exports!NoFile}]
      /\ k.pc = "unlink" /\ calls \in [Calls -> ExportCall]
      /\ UNCHANGED <<doc, events, exportFiles>>
  BY DEF ExportInv, ExportTypes, Exports!Unlink
<1>2. CASE /\ temps' \in {[temps EXCEPT ![c] = Exports!NoFile], temps}
           /\ Exports!Fail(c, Exports!Recorded(c))
  BY <1>1, <1>2, ExportFails
<1>3. ExportWhere(c) /\ ExportOut(c) /\ ExportOver(c)  BY DEF ExportInv
<1>4. n \in 1 .. 3 /\ DOMAIN Exports!Artifacts(k.job) = 1 .. n /\ k.at \in 1 .. n
  BY <1>3, ExportArtifactNames DEF ExportWhere
<1>5. \A i \in 1 .. 3 : i <= k.at => ExportPlace(k, i) \in Exports!By(c)
  <2>1. \A i \in 1 .. 3 : i < k.at => ExportPlace(k, i) \in Exports!By(c)
    BY <1>3 DEF ExportOut
  <2>2. ExportPlace(k, k.at) \in Exports!By(c)  BY <1>1, <1>3 DEF ExportOut
  <2> QED  BY <1>4, <2>1, <2>2
<1>6. Exports!By(c)' = Exports!By(c)  BY <1>1 DEF Exports!By
<1>7. \A p \in Exports!By(c) :
         /\ exportFiles[p] = Exports!Artifact(c, k.read, k.level, TRUE)
         /\ \E i \in DOMAIN Exports!Artifacts(k.job) : i <= k.at /\ p = ExportPlace(k, i)
  BY <1>3, Zenon DEF ExportOut
<1>8. k.job \in Exports!PAdES => k.level = ExportLevel(k)
  BY <1>1, <1>3 DEF ExportWhere, ExportTail
<1>9. [call |-> c, ok |-> TRUE] \notin log /\ k.result = "none"
  BY <1>1, <1>3 DEF ExportOver, ExportWhere, ExportTail
<1> DEFINE x == IF Exports!Artifacts(k.job)[k.at + 1] = "asc" THEN "gpg" ELSE "create"
<1>10. CASE /\ temps' = [temps EXCEPT ![c] = Exports!NoFile] /\ k.at # n
            /\ calls' = [calls EXCEPT ![c].at = @ + 1, ![c].pc = x] /\ UNCHANGED log
  <2> DEFINE r == [k EXCEPT !.at = @ + 1, !.pc = x]
  <2>1. x \in {"gpg", "create"}  OBVIOUS
  <2>2. k.at + 1 \in 1 .. n /\ k.at + 1 \in 1 .. 3
    <3> HIDE DEF n
    <3> QED  BY <1>4, <1>10
  <2> HIDE DEF x
  <2>3. calls' = [calls EXCEPT ![c] = r]  BY <1>1, <1>10
  <2>4. r \in ExportCall /\ r.pc = x /\ r.job = k.job /\ r.base = k.base /\ r.at = k.at + 1
      /\ r.result = k.result /\ r.read = k.read /\ r.level = k.level /\ r.stamp = k.stamp
    BY <1>1, <2>1, <2>2 DEF ExportCall, Exports!Pcs
  <2> HIDE DEF r
  <2>5. /\ \A d \in Calls : d # c => temps'[d] = temps[d]
        /\ temps' \in [Calls -> ExportArtifacts \cup {Exports!NoFile}]
    BY <1>1, <1>10
  <2>6. calls'[c] = r /\ \A d \in Calls : d # c => (ExportWhere(d) /\ ExportOut(d) /\ ExportOver(d))'
    BY <1>1, <1>10, <2>3, <2>5, ExportOthers
  <2>7. ExportWhere(c)'
    BY <1>1, <1>3, <1>4, <1>8, <1>9, <2>1, <2>2, <2>4, <2>6
    DEF ExportWhere, ExportHead, ExportTail, ExportLevel
  <2>8. ExportOut(c)'
    <3>0. \A i : ExportPlace(r, i) = ExportPlace(k, i)  BY <2>4 DEF ExportPlace
    <3>1. \A i \in 1 .. 3 : i < r.at => ExportPlace(r, i) \in Exports!By(c)'
      BY <1>4, <1>5, <1>6, <2>4, <3>0
    <3>2. \A p \in Exports!By(c)' :
             /\ exportFiles'[p] = Exports!Artifact(c, r.read, r.level, TRUE)
             /\ \E i \in DOMAIN Exports!Artifacts(r.job) : i <= r.at /\ p = ExportPlace(r, i)
      <4> SUFFICES ASSUME NEW p \in Exports!By(c)
                   PROVE  /\ exportFiles'[p] = Exports!Artifact(c, r.read, r.level, TRUE)
                          /\ \E i \in DOMAIN Exports!Artifacts(k.job) :
                                 i <= r.at /\ p = ExportPlace(k, i)
        BY <1>6, <2>4, <3>0
      <4>1. exportFiles'[p] = Exports!Artifact(c, r.read, r.level, TRUE)  BY <1>1, <1>7, <2>4
      <4>2. PICK i \in DOMAIN Exports!Artifacts(k.job) : i <= k.at /\ p = ExportPlace(k, i)
        BY <1>7
      <4>3. i <= r.at  BY <1>4, <2>4, <4>2
      <4> QED  BY <4>1, <4>2, <4>3
    <3>3. (r.job \in Exports!PAdES => r.level = ExportLevel(r))
          /\ r.pc \notin {"write", "link", "unlink"}
      BY <1>8, <2>1, <2>4 DEF ExportLevel
    <3> QED  BY <2>6, <3>1, <3>2, <3>3, Zenon DEF ExportOut
  <2>9. ExportOver(c)'  BY <1>9, <1>10, <2>4, <2>6 DEF ExportOver
  <2>10. ExportTypes'  BY <1>1, <1>10, <2>3, <2>4, <2>5 DEF ExportInv, ExportTypes
  <2> QED  BY <2>6, <2>7, <2>8, <2>9, <2>10 DEF ExportInv
<1>11. CASE /\ temps' = [temps EXCEPT ![c] = Exports!NoFile] /\ k.at = n
            /\ calls' = [calls EXCEPT ![c].pc = "done", ![c].result = "ok"]
            /\ log' \subseteq log \cup {[call |-> c, ok |-> TRUE]}
  <2> DEFINE r == [k EXCEPT !.pc = "done", !.result = "ok"]
  <2>1. calls' = [calls EXCEPT ![c] = r]  BY <1>1, <1>11
  <2>2. r \in ExportCall /\ r.pc = "done" /\ r.job = k.job /\ r.base = k.base /\ r.at = k.at
      /\ r.result = "ok" /\ r.read = k.read /\ r.level = k.level /\ r.stamp = k.stamp
    BY <1>1 DEF ExportCall, Exports!Pcs
  <2> HIDE DEF r
  <2>3. /\ \A d \in Calls : d # c => temps'[d] = temps[d]
        /\ temps' \in [Calls -> ExportArtifacts \cup {Exports!NoFile}]
    BY <1>1, <1>11
  <2>4. /\ \A d \in Calls : d # c =>
             ([call |-> d, ok |-> TRUE] \in log' => [call |-> d, ok |-> TRUE] \in log)
        /\ log' \subseteq [call : Calls, ok : BOOLEAN]
    <3>1. [call |-> c, ok |-> TRUE] \in [call : Calls, ok : BOOLEAN]  OBVIOUS
    <3>2. \A d : d # c => [call |-> d, ok |-> TRUE] # [call |-> c, ok |-> TRUE]  OBVIOUS
    <3> QED  BY <1>11, <3>1, <3>2 DEF ExportInv, ExportTypes
  <2>5. calls'[c] = r /\ \A d \in Calls : d # c => (ExportWhere(d) /\ ExportOut(d) /\ ExportOver(d))'
    BY <1>1, <2>1, <2>3, <2>4, ExportOthers
  <2>6. ExportWhere(c)'
    BY <1>1, <1>3, <2>2, <2>5 DEF ExportWhere, ExportHead, ExportTail
  <2>7. ExportOut(c)'
    <3>1. calls'[c].pc \notin {"write", "link", "unlink"}  BY <2>2, <2>5
    <3> QED  BY <1>1, <1>3, <2>2, <2>5, <3>1, ExportOutKept
  <2>8. ExportOver(c)'
    <3>1. \A i \in DOMAIN Exports!Artifacts(k.job) : ExportPlace(k, i) \in Exports!By(c)
      BY <1>4, <1>5, <1>11
    <3>2. \A i : ExportPlace(r, i) = ExportPlace(k, i)  BY <2>2 DEF ExportPlace
    <3> QED  BY <1>6, <2>2, <2>5, <3>1, <3>2 DEF ExportOver
  <2>9. ExportTypes'  BY <1>1, <2>1, <2>2, <2>3, <2>4 DEF ExportInv, ExportTypes
  <2> QED  BY <2>5, <2>6, <2>7, <2>8, <2>9 DEF ExportInv
<1> QED  BY <1>2, <1>10, <1>11 DEF Exports!Unlink

\* What others do leaves every call as it is.
LEMMA ExportWorld ==
  ASSUME Exports!ExportsAssumption, ExportInv,
         \/ Exports!SaveDocument \/ Exports!AppendEvent
         \/ \E p \in Exports!Destinations : Exports!UserPuts(p)
  PROVE  ExportInv' /\ Exports!NothingReplaced
<1>1. /\ ExportTypes /\ MaxEdits \in Nat
      /\ doc \in Exports!Docs /\ events \in 0 .. MaxEdits
      /\ exportFiles \in [Exports!Destinations -> Exports!Files]
  BY DEF ExportInv, ExportTypes, Exports!ExportsAssumption
<1>2. UNCHANGED <<temps, calls, log>>
  BY DEF Exports!SaveDocument, Exports!AppendEvent, Exports!UserPuts
<1>3. doc' \in Exports!Docs /\ events' \in 0 .. MaxEdits
  <2>1. CASE Exports!SaveDocument
    <3>1. doc.version \in 0 .. MaxEdits /\ doc.version < MaxEdits
      BY <1>1, <2>1 DEF Exports!SaveDocument, Exports!Docs
    <3>2. doc.version + 1 \in 0 .. MaxEdits  BY <1>1, <3>1
    <3> QED  BY <1>1, <2>1, <3>2 DEF Exports!SaveDocument, Exports!Docs
  <2>2. CASE Exports!AppendEvent  BY <1>1, <2>2 DEF Exports!AppendEvent
  <2>3. CASE \E p \in Exports!Destinations : Exports!UserPuts(p)
    BY <1>1, <2>3 DEF Exports!UserPuts
  <2> QED  BY <2>1, <2>2, <2>3
<1>4. /\ exportFiles' \in [Exports!Destinations -> Exports!Files]
      /\ \A p \in Exports!Destinations : exportFiles'[p] = exportFiles[p] \/
             (exportFiles[p] = Exports!NoFile /\ exportFiles'[p] = Exports!UserFile)
  <2>1. CASE Exports!SaveDocument  BY <1>1, <2>1 DEF Exports!SaveDocument
  <2>2. CASE Exports!AppendEvent  BY <1>1, <2>2 DEF Exports!AppendEvent
  <2>3. CASE \E p \in Exports!Destinations : Exports!UserPuts(p)
    <3>1. PICK p \in Exports!Destinations : Exports!UserPuts(p)  BY <2>3
    <3>2. Exports!UserFile \in Exports!Files  BY DEF Exports!Files
    <3> QED  BY <1>1, <3>1, <3>2 DEF Exports!UserPuts
  <2> QED  BY <2>1, <2>2, <2>3
<1>5. ExportTypes'  BY <1>1, <1>2, <1>3, <1>4 DEF ExportTypes
<1>6. \A c \in Calls : (ExportWhere(c) /\ ExportOut(c) /\ ExportOver(c))'
  <2> SUFFICES ASSUME NEW c \in Calls
               PROVE  (ExportWhere(c) /\ ExportOut(c) /\ ExportOver(c))'
    OBVIOUS
  <2>1. Exports!UserFile.by # c  BY DEF Exports!UserFile, Exports!ExportsAssumption
  <2>2. \A p \in Exports!Destinations : exportFiles'[p] = exportFiles[p] \/
             (exportFiles[p] = Exports!NoFile /\ exportFiles'[p].by # c)
    BY <1>4, <2>1
  <2> QED  BY <1>2, <2>2, ExportOther DEF ExportInv
<1>7. Exports!NothingReplaced  BY <1>4 DEF Exports!NothingReplaced
<1> QED  BY <1>5, <1>6, <1>7 DEF ExportInv

\* The end of the process: what is out stays out.
LEMMA ExportCrash ==
  ASSUME Exports!ExportsAssumption, ExportInv, Exports!Crash
  PROVE  ExportInv' /\ Exports!NothingReplaced
<1>1. calls \in [Calls -> ExportCall] /\ UNCHANGED <<doc, events, exportFiles, temps, log>>
  BY DEF ExportInv, ExportTypes, Exports!Crash
<1>2. calls' = [c \in Calls |-> IF calls[c].pc = "idle" THEN calls[c]
                                ELSE [calls[c] EXCEPT !.pc = "done"]]
  BY DEF Exports!Crash
<1>3. ASSUME NEW c \in Calls
      PROVE  calls'[c] \in ExportCall /\ (ExportWhere(c) /\ ExportOut(c) /\ ExportOver(c))'
  <2> DEFINE k == calls[c]
             r == [k EXCEPT !.pc = "done"]
  <2>1. k \in ExportCall /\ ExportWhere(c) /\ ExportOut(c) /\ ExportOver(c)
    BY <1>1 DEF ExportInv
  <2>2. CASE calls'[c] = k  BY <1>1, <2>1, <2>2, ExportOther
  <2>3. CASE k.pc # "idle" /\ calls'[c] = r
    <3>1. r \in ExportCall /\ r.pc = "done" /\ r.job = k.job /\ r.base = k.base
          /\ r.at = k.at /\ r.result = k.result /\ r.read = k.read /\ r.level = k.level
          /\ r.stamp = k.stamp
      BY <2>1 DEF ExportCall, Exports!Pcs
    <3> HIDE DEF r
    <3>2. Exports!By(c)' = Exports!By(c)  BY <1>1 DEF Exports!By
    <3>3. ExportWhere(c)'
      BY <2>1, <2>3, <3>1, <3>2 DEF ExportWhere, ExportHead, ExportTail
    <3>4. ExportOut(c)'  BY <1>1, <2>1, <2>3, <3>1, ExportOutKept
    <3>5. \A i : ExportPlace(r, i) = ExportPlace(k, i)  BY <3>1 DEF ExportPlace
    <3>6. ExportOver(c)'  BY <1>1, <2>1, <2>3, <3>1, <3>2, <3>5 DEF ExportOver
    <3> QED  BY <2>3, <3>1, <3>3, <3>4, <3>6
  <2> QED  BY <1>2, <2>2, <2>3
<1>4. calls' \in [Calls -> ExportCall]  BY <1>2, <1>3
<1>5. ExportTypes'  BY <1>1, <1>4 DEF ExportInv, ExportTypes
<1> QED  BY <1>1, <1>3, <1>5 DEF ExportInv, Exports!NothingReplaced

\* Every step of the exports keeps the invariant and replaces no file.
LEMMA ExportNext ==
  ASSUME Exports!ExportsAssumption, ExportInv, [Exports!Next]_exportVars
  PROVE  ExportInv' /\ Exports!NothingReplaced
<1>1. CASE UNCHANGED exportVars
  <2>1. UNCHANGED <<doc, events, exportFiles, temps, calls, log>>  BY <1>1 DEF exportVars
  <2>2. ExportTypes'  BY <2>1 DEF ExportInv, ExportTypes
  <2>3. \A c \in Calls : (ExportWhere(c) /\ ExportOut(c) /\ ExportOver(c))'
    BY <2>1, ExportOther DEF ExportInv
  <2> QED  BY <2>1, <2>2, <2>3 DEF ExportInv, Exports!NothingReplaced
<1>2. ASSUME NEW c \in Calls, Exports!Step(c) PROVE ExportInv' /\ Exports!NothingReplaced
  <2>1. CASE \E base \in Bases : Exports!Export(c, base)
    <3>0. PICK base \in Bases : \E job : Exports!Start(c, job, base)
      BY <2>1
      DEF Exports!Export, Exports!ExportDocumentAs, Exports!ExportDocumentPDF,
          Exports!ExportScheduleReportAs, Exports!ExportChartMonteCarloRiskReport,
          Exports!ExportFinancialReportPDF, Exports!SigmaExportProjectReport,
          Exports!ExportProjectICS, Exports!ExportAuditVerificationReport,
          Exports!ExportCostEntryAttachmentsZip, Exports!SaveRecoveryCodes,
          Exports!ExportAuditRepairEvidence, Exports!ExportDocumentPDFGnuPG,
          Exports!ExportDocumentPDFSigned, Exports!ExportCombinedReportWithOptions,
          Exports!ExportCombinedReportGnuPG, Exports!ExportCombinedReportSigned
    <3>1. PICK job : Exports!Start(c, job, base)  BY <3>0
    <3>2. exportFiles' = exportFiles  BY <3>1 DEF Exports!Start
    <3> QED  BY <3>1, <3>2, ExportStart DEF Exports!NothingReplaced
  <2>2. CASE \/ Exports!EnsureAvailable(c) \/ Exports!PrepareTimestamp(c) \/ Exports!Preflight(c)
             \/ Exports!Read(c) \/ Exports!VerifyEvidence(c) \/ Exports!ListEvidence(c)
             \/ Exports!ApplyPAdES(c)
    <3>1. exportFiles' = exportFiles
      BY <2>2 DEF Exports!EnsureAvailable, Exports!PrepareTimestamp, Exports!Preflight,
         Exports!Read, Exports!VerifyEvidence, Exports!ListEvidence, Exports!ApplyPAdES
    <3> QED  BY <2>2, <3>1, ExportHeadStep DEF Exports!NothingReplaced
  <2>3. CASE Exports!Create(c)
    BY <2>3, ExportCreate DEF Exports!Create, Exports!NothingReplaced
  <2>4. CASE Exports!Write(c)
    BY <2>4, ExportWrite DEF Exports!Write, Exports!NothingReplaced
  <2>5. CASE Exports!Link(c)  BY <2>5, ExportLink
  <2>6. CASE Exports!Unlink(c)
    BY <2>6, ExportUnlink DEF Exports!Unlink, Exports!NothingReplaced
  <2>7. CASE Exports!SignDetached(c)
    BY <2>7, ExportSigns DEF Exports!SignDetached, Exports!NothingReplaced
  <2> QED  BY <1>2, <2>1, <2>2, <2>3, <2>4, <2>5, <2>6, <2>7 DEF Exports!Step
<1> QED  BY <1>1, <1>2, ExportWorld, ExportCrash DEF Exports!Next

\* What the invariant promises of the files.
LEMMA ExportPromises ==
  ASSUME Exports!ExportsAssumption, ExportInv
  PROVE  /\ Exports!TypeOK /\ Exports!PublishedWhole /\ Exports!SidecarsDescribe
         /\ Exports!FailsClosed /\ Exports!SuccessComplete
<1>1. ExportTypes /\ \A c \in Calls : ExportWhere(c) /\ ExportOut(c) /\ ExportOver(c)
  BY DEF ExportInv
<1>2. \A c \in Calls : \A p \in Exports!By(c) :
         /\ exportFiles[p] = Exports!Artifact(c, calls[c].read, calls[c].level, TRUE)
         /\ calls[c].job \in Exports!PAdES => calls[c].level = ExportLevel(calls[c])
         /\ \E i \in DOMAIN Exports!Artifacts(calls[c].job) :
                i <= calls[c].at /\ p = ExportPlace(calls[c], i)
  BY <1>1, Zenon DEF ExportOut
<1>3. Exports!TypeOK
  <2>1. \A c \in Calls : temps[c] \in Exports!Files \ {Exports!UserFile}
    <3>1. ASSUME NEW c \in Calls PROVE temps[c] \in Exports!Files \ {Exports!UserFile}
      <4>1. CASE temps[c] = Exports!NoFile
        BY <4>1 DEF Exports!Files, Exports!NoFile, Exports!UserFile
      <4>2. CASE temps[c] \in ExportArtifacts
        <5>1. temps[c] \in Exports!Files
          BY <4>2 DEF Exports!Files, ExportArtifacts, ExportLevels
        <5>2. temps[c].by \in Calls  BY <4>2 DEF ExportArtifacts
        <5> QED  BY <5>1, <5>2 DEF Exports!UserFile, Exports!ExportsAssumption
      <4> QED  BY <1>1, <4>1, <4>2 DEF ExportTypes
    <3> QED  BY <3>1
  <2>2. \A c \in Calls : calls[c] \in ExportCall /\ ExportWhere(c)
    BY <1>1 DEF ExportTypes
  <2> QED  BY <1>1, <2>1, <2>2 DEF Exports!TypeOK, ExportTypes, ExportCall, ExportWhere
<1>4. Exports!PublishedWhole
  <2> SUFFICES ASSUME NEW c \in Calls, NEW p \in Exports!By(c) PROVE exportFiles[p].whole
    BY DEF Exports!PublishedWhole
  <2>1. exportFiles[p] = Exports!Artifact(c, calls[c].read, calls[c].level, TRUE)  BY <1>2
  <2> QED  BY <2>1 DEF Exports!Artifact
<1>5. Exports!SidecarsDescribe
  <2> SUFFICES ASSUME NEW c \in Calls, NEW b \in Bases, NEW a \in {"manifest", "asc"},
                      <<b, a>> \in Exports!By(c)
               PROVE  /\ <<b, "main">> \in Exports!By(c)
                      /\ exportFiles[<<b, a>>].of = exportFiles[<<b, "main">>].of
    BY DEF Exports!SidecarsDescribe
  <2>1. PICK i \in DOMAIN Exports!Artifacts(calls[c].job) :
           i <= calls[c].at /\ <<b, a>> = ExportPlace(calls[c], i)
    BY <1>2
  <2>2. calls[c].base = b /\ Exports!Artifacts(calls[c].job)[i] = a  BY <2>1 DEF ExportPlace
  <2>3. i # 1 /\ Exports!Artifacts(calls[c].job)[1] = "main" /\ i \in 1 .. 3
    BY <2>2, ExportArtifactNames
  <2>4. calls[c].at \in 1 .. 3  BY <1>1 DEF ExportTypes, ExportCall
  <2>5. ExportPlace(calls[c], 1) \in Exports!By(c)
    <3>1. 1 < calls[c].at  BY <2>1, <2>3, <2>4
    <3>2. ExportOut(c)  BY <1>1
    <3> QED  BY <3>1, <3>2 DEF ExportOut
  <2>6. <<b, "main">> \in Exports!By(c)  BY <2>2, <2>3, <2>5 DEF ExportPlace
  <2>7. exportFiles[<<b, a>>] = exportFiles[<<b, "main">>]  BY <1>2, <2>6
  <2> QED  BY <2>6, <2>7
<1>6. Exports!FailsClosed
  <2> SUFFICES ASSUME NEW c \in Calls, calls[c].job \in Exports!PAdES, NEW p \in Exports!By(c)
               PROVE  exportFiles[p].level = ExportLevel(calls[c])
    BY DEF Exports!FailsClosed, ExportLevel
  <2>1. /\ exportFiles[p] = Exports!Artifact(c, calls[c].read, calls[c].level, TRUE)
        /\ calls[c].level = ExportLevel(calls[c])
    BY <1>2
  <2> QED  BY <2>1 DEF Exports!Artifact
<1>7. Exports!SuccessComplete
  BY <1>1 DEF Exports!SuccessComplete, ExportOver, ExportPlace
<1> QED  BY <1>3, <1>4, <1>5, <1>6, <1>7

\* Whatever the calls, the saves and the user do and wherever the process ends, a file at
\* a destination is whole, its manifest and signature are of it, it has the signature that
\* was asked for, and a call that succeeded has all its files (WriteNewPrivateStream).
THEOREM ExportsAreWhole == Spec => []ExportsWhole
<1> DEFINE I == part = "exports" => ExportInv
<1>1. Init => I  BY ExportInit, PartsAssumption DEF Init
<1>2. I /\ [Next]_vars => I'
  <2> SUFFICES ASSUME I, [Next]_vars, part' = "exports" PROVE ExportInv'
    OBVIOUS
  <2>1. part = "exports" /\ [Exports!Next]_exportVars  BY DEF Next, vars
  <2> QED  BY <2>1, ExportNext, PartsAssumption
<1>3. I => ExportsWhole  BY ExportPromises, PartsAssumption DEF ExportsWhole
<1> QED  BY <1>1, <1>2, <1>3, PTL DEF Spec

-----------------------------------------------------------------------------
(* Proofs: the schema, for any amounts and any number of openings that stop *)

SchemaFile ==
    [tables : SUBSET Schema!Tables, full : SUBSET Schema!Tables,
     cols : SUBSET (Schema!Added \cup {"nano"}), sigma : {"new", "old"},
     major : [Schema!Money -> Nat], minor : [Schema!Money -> Nat],
     text : [Schema!Rows -> Schema!Forms], nano : [Schema!Rows -> Nat],
     audit : {"trimmed"}, index : {"none", "text", "nano"}]

SchemaTypes ==
    /\ schemaFile \in SchemaFile /\ schemaPc \in 0 .. 18 /\ stops \in 0 .. MaxStops
    /\ entered \in [Schema!Money -> Nat]

\* What the opening has done so far is in the file, and the table is rebuilt on a
\* connection that does not cascade.
SchemaProgress ==
    /\ schemaFile.full \subseteq schemaFile.tables
    /\ schemaFile.tables = {} => schemaFile.cols = {}
    /\ schemaPc > 1 => schemaFile.tables = Schema!Tables
    /\ schemaPc = 3 /\ schemaFile.sigma = "old" => fk = FALSE
    /\ schemaPc > 3 => schemaFile.sigma = "new"
    /\ schemaPc > 6 => "industry" \in schemaFile.cols
    /\ schemaPc > 7 => "budget" \in schemaFile.cols
    /\ schemaPc > 9 => "agile_enabled" \in schemaFile.cols
    /\ schemaPc > 10 => "rate" \in schemaFile.cols
    /\ schemaPc > 12 => "item_name" \in schemaFile.cols
    /\ schemaPc > 14 => "nano" \in schemaFile.cols
    /\ schemaPc > 16 => schemaFile.index = "nano"

\* Rows have their numeric key or none, and after the backfills all have it.
SchemaOrder ==
    \A r \in Schema!Rows :
        /\ schemaFile.nano[r] \in {0, Schema!Instant[r]}
        /\ schemaPc > 13 => schemaFile.text[r] \in {"bad", "fixed"}
        /\ schemaPc > 15 /\ schemaFile.text[r] # "bad" =>
               schemaFile.nano[r] = Schema!Instant[r]

\* The older field always has the amount; the newer one has it or nothing.
SchemaAmounts ==
    \A m \in Schema!Money :
        /\ schemaFile.major[m] = entered[m]
        /\ schemaFile.minor[m] = 0 \/ schemaFile.minor[m] = 100 * entered[m]

\* The inductive invariant.
SchemaInv == SchemaTypes /\ SchemaProgress /\ SchemaOrder /\ SchemaAmounts

\* The tables a file of an older version has are tables.
LEMMA OldTables ==
  /\ Schema!V1Tables \subseteq Schema!Tables /\ Schema!PlanTables \subseteq Schema!Tables
  /\ Schema!PeopleTables \subseteq Schema!Tables /\ Schema!SigmaTables \subseteq Schema!Tables
  /\ "sigma_projects" \in Schema!Tables /\ "project" \in Schema!PlanTables
  /\ "scenarios" \in Schema!PlanTables /\ "sigma_charters" \in Schema!SigmaTables
  /\ "sigma_voc" \in Schema!SigmaTables
  BY Zenon DEF Schema!Tables, Schema!PlanTables, Schema!SigmaTables

\* Both instants are numbers.
LEMMA Instants == \A r \in Schema!Rows : Schema!Instant[r] \in Nat
  BY DEF Schema!Rows, Schema!Instant

\* A new file and a file of an older version hold the amounts and rows they began with.
LEMMA SchemaInit == ASSUME Schema!SchemaAssumption, Schema!Init PROVE SchemaInv
<1>0. /\ entered \in [Schema!Money -> Nat] /\ schemaPc = 0 /\ stops = 0 /\ MaxStops \in Nat
      /\ schemaFile = Schema!NewFile => entered = [m \in Schema!Money |-> 0]
  <2>1. entered \in [Schema!Money -> Amounts]  BY DEF Schema!Init
  <2>2. entered \in [Schema!Money -> Nat]  BY <2>1 DEF Schema!SchemaAssumption
  <2>3. schemaPc = 0 /\ stops = 0  BY DEF Schema!Init
  <2>4. schemaFile = Schema!NewFile => entered = [m \in Schema!Money |-> 0]
    BY DEF Schema!Init
  <2> QED  BY <2>2, <2>3, <2>4 DEF Schema!SchemaAssumption
<1>1. CASE schemaFile = Schema!NewFile
  <2>1. entered = [m \in Schema!Money |-> 0]  BY <1>0, <1>1
  <2>2. schemaFile \in SchemaFile
    BY <1>1 DEF Schema!NewFile, SchemaFile, Schema!Forms
  <2>3. SchemaTypes  BY <1>0, <2>2 DEF SchemaTypes
  <2>4. SchemaProgress
    <3>1. schemaFile.full = {} /\ schemaFile.cols = {}  BY <1>1 DEF Schema!NewFile
    <3> QED  BY <1>0, <3>1 DEF SchemaProgress
  <2>5. SchemaOrder  BY <1>0, <1>1 DEF Schema!NewFile, SchemaOrder
  <2>6. SchemaAmounts  BY <1>1, <2>1 DEF Schema!NewFile, SchemaAmounts
  <2> QED  BY <2>3, <2>4, <2>5, <2>6 DEF SchemaInv
<1>2. CASE schemaFile # Schema!NewFile
  <2>1. PICK v \in 1 .. 2, f \in [Schema!Rows -> Schema!Forms] :
             schemaFile = Schema!OldFile(v, entered, f)
    BY <1>2 DEF Schema!Init
  <2>2. /\ schemaFile.major = entered /\ schemaFile.text = f
        /\ schemaFile.nano = [r \in Schema!Rows |-> 0]
        /\ \/ schemaFile.minor = [m \in Schema!Money |-> 0]
           \/ schemaFile.minor = [m \in Schema!Money |-> 100 * entered[m]]
    BY <2>1 DEF Schema!OldFile, Schema!NewFile
  <2>3. /\ schemaFile.tables =
             IF v = 1 THEN Schema!V1Tables \cup Schema!PlanTables \cup Schema!PeopleTables
                           \cup Schema!SigmaTables \cup {"sigma_projects"}
             ELSE Schema!Tables
        /\ schemaFile.full = {"project", "sigma_projects", "sigma_charters", "sigma_voc",
                              "scenarios"}
        /\ schemaFile.cols = IF v = 1 THEN {} ELSE {"industry", "budget", "rate"}
    BY <2>1 DEF Schema!OldFile, Schema!NewFile
  <2>4. schemaFile.full \subseteq schemaFile.tables
        /\ schemaFile.tables \subseteq Schema!Tables /\ schemaFile.tables # {}
    BY <2>3, OldTables
  <2>5. schemaFile.minor \in [Schema!Money -> Nat]  BY <1>0, <2>2
  <2>6. schemaFile \in SchemaFile
    <3>1. schemaFile = [tables |-> schemaFile.tables, full |-> schemaFile.full,
                        cols |-> schemaFile.cols, sigma |-> schemaFile.sigma,
                        major |-> schemaFile.major, minor |-> schemaFile.minor,
                        text |-> schemaFile.text, nano |-> schemaFile.nano,
                        audit |-> schemaFile.audit, index |-> schemaFile.index]
      BY <2>1 DEF Schema!OldFile, Schema!NewFile
    <3>2. schemaFile.cols \subseteq Schema!Added \cup {"nano"}  BY <2>3 DEF Schema!Added
    <3>3. schemaFile.sigma \in {"new", "old"} /\ schemaFile.audit = "trimmed"
          /\ schemaFile.index = "text"
      BY <2>1 DEF Schema!OldFile, Schema!NewFile
    <3>4. schemaFile.nano \in [Schema!Rows -> Nat]  BY <2>2
    <3> QED  BY <1>0, <2>1, <2>2, <2>4, <2>5, <3>1, <3>2, <3>3, <3>4 DEF SchemaFile
  <2>7. SchemaTypes  BY <1>0, <2>6 DEF SchemaTypes
  <2>8. SchemaProgress  BY <1>0, <2>4 DEF SchemaProgress
  <2>9. SchemaOrder  BY <1>0, <2>2 DEF SchemaOrder
  <2>10. SchemaAmounts  BY <1>0, <2>2 DEF SchemaAmounts
  <2> QED  BY <2>7, <2>8, <2>9, <2>10 DEF SchemaInv
<1> QED  BY <1>1, <1>2

\* The steps of an opening, by number.
LEMMA SchemaSteps ==
  /\ Len(Schema!Steps) = 17 /\ Schema!End = 18
  /\ Schema!Steps[1] = "schema" /\ Schema!Steps[2] = "fk_off" /\ Schema!Steps[3] = "rebuild"
  /\ Schema!Steps[4] = "fk_on" /\ Schema!Steps[5] = "probe" /\ Schema!Steps[6] = "industry"
  /\ Schema!Steps[7] = "budget" /\ Schema!Steps[8] = "fill_budget"
  /\ Schema!Steps[9] = "agile_enabled" /\ Schema!Steps[10] = "rate"
  /\ Schema!Steps[11] = "fill_rate" /\ Schema!Steps[12] = "item_name"
  /\ Schema!Steps[13] = "retext" /\ Schema!Steps[14] = "nano"
  /\ Schema!Steps[15] = "fill_nano" /\ Schema!Steps[16] = "index"
  /\ Schema!Steps[17] = "private"
  BY DEF Schema!Steps, Schema!End

\* What the statements do.
LEMMA SchemaStatements ==
  ASSUME NEW f
  PROVE  /\ Schema!Do("schema", f) = Schema!MigrateSchema(f)
         /\ Schema!Do("rebuild", f) = Schema!Rebuild(f)
         /\ \A s \in {"industry", "budget", "agile_enabled", "rate", "item_name", "nano"} :
                Schema!Do(s, f) = Schema!AddColumn(f, s)
         /\ Schema!Do("fill_budget", f) = Schema!Backfill(f, "budget")
         /\ Schema!Do("fill_rate", f) = Schema!Backfill(f, "rate")
         /\ Schema!Do("retext", f) = Schema!RetrofitTimestampFormat(f)
         /\ Schema!Do("fill_nano", f) = Schema!BackfillUnixNano(f)
         /\ Schema!Do("index", f) = Schema!RepointUnixNanoIndex(f)
         /\ \A s \in {"fk_off", "fk_on", "probe", "private"} : Schema!Do(s, f) = f
  BY DEF Schema!Do, Schema!Added

\* A step of the migration, by what it does to the file.
LEMMA SchemaMigrateFile ==
  ASSUME Schema!Migrate
  PROVE  /\ schemaPc \in 1 .. 17 /\ schemaPc' = schemaPc + 1 /\ UNCHANGED <<entered, stops>>
         /\ schemaPc = 1 => schemaFile' = Schema!MigrateSchema(schemaFile)
         /\ schemaPc = 2 => fk' = (schemaFile.sigma # "old")
         /\ schemaPc = 3 => schemaFile' = Schema!Rebuild(schemaFile)
         /\ schemaPc \in {2, 4, 5, 17} => schemaFile' = schemaFile
         /\ schemaPc = 6 => schemaFile' = Schema!AddColumn(schemaFile, "industry")
         /\ schemaPc = 7 => schemaFile' = Schema!AddColumn(schemaFile, "budget")
         /\ schemaPc = 8 => schemaFile' = Schema!Backfill(schemaFile, "budget")
         /\ schemaPc = 9 => schemaFile' = Schema!AddColumn(schemaFile, "agile_enabled")
         /\ schemaPc = 10 => schemaFile' = Schema!AddColumn(schemaFile, "rate")
         /\ schemaPc = 11 => schemaFile' = Schema!Backfill(schemaFile, "rate")
         /\ schemaPc = 12 => schemaFile' = Schema!AddColumn(schemaFile, "item_name")
         /\ schemaPc = 13 => schemaFile' = Schema!RetrofitTimestampFormat(schemaFile)
         /\ schemaPc = 14 => schemaFile' = Schema!AddColumn(schemaFile, "nano")
         /\ schemaPc = 15 => schemaFile' = Schema!BackfillUnixNano(schemaFile)
         /\ schemaPc = 16 => schemaFile' = Schema!RepointUnixNanoIndex(schemaFile)
<1>1. schemaPc \in 1 .. 17 /\ schemaPc' = schemaPc + 1 /\ UNCHANGED <<entered, stops>>
      /\ schemaFile' = Schema!Do(Schema!Steps[schemaPc], schemaFile)
  BY SchemaSteps DEF Schema!Migrate
<1>2. schemaPc = 2 => fk' = (schemaFile.sigma # "old")
  BY SchemaSteps DEF Schema!Migrate, Schema!ForeignKeys
<1> QED  BY <1>1, <1>2, SchemaSteps, SchemaStatements

\* A column is added to the others.
LEMMA SchemaColumn ==
  ASSUME SchemaInv, Schema!Migrate, NEW s \in Schema!Added \cup {"nano"},
         schemaFile' = Schema!AddColumn(schemaFile, s), schemaPc > 3,
         schemaPc = 6 => s = "industry", schemaPc = 7 => s = "budget",
         schemaPc = 9 => s = "agile_enabled", schemaPc = 10 => s = "rate",
         schemaPc = 12 => s = "item_name", schemaPc = 14 => s = "nano",
         schemaPc \notin {3, 13, 15, 16}
  PROVE  SchemaInv' /\ Schema!RowsKept /\ Schema!AuditTextKept
<1>1. schemaFile \in SchemaFile /\ schemaPc \in 1 .. 17 /\ schemaPc' = schemaPc + 1
      /\ UNCHANGED <<entered, stops>>
  BY SchemaMigrateFile DEF SchemaInv, SchemaTypes
<1>2. schemaFile' = [schemaFile EXCEPT !.cols = @ \cup {s}]  BY DEF Schema!AddColumn
<1>3. schemaFile' \in SchemaFile  BY <1>1, <1>2 DEF SchemaFile
<1>4. /\ schemaFile'.tables = schemaFile.tables /\ schemaFile'.full = schemaFile.full
      /\ schemaFile'.sigma = schemaFile.sigma /\ schemaFile'.index = schemaFile.index
      /\ schemaFile'.major = schemaFile.major /\ schemaFile'.minor = schemaFile.minor
      /\ schemaFile'.text = schemaFile.text /\ schemaFile'.nano = schemaFile.nano
      /\ schemaFile'.audit = schemaFile.audit
      /\ schemaFile'.cols = schemaFile.cols \cup {s}
  BY <1>1, <1>2 DEF SchemaFile
<1>5. SchemaTypes'  BY <1>1, <1>3 DEF SchemaInv, SchemaTypes
<1>6. SchemaProgress'
  <2>1. schemaFile.tables = Schema!Tables  BY <1>1 DEF SchemaInv, SchemaProgress
  <2>2. Schema!Tables # {}  BY OldTables
  <2> QED  BY <1>1, <1>4, <2>1, <2>2 DEF SchemaInv, SchemaProgress
<1>7. SchemaOrder'  BY <1>1, <1>4 DEF SchemaInv, SchemaOrder
<1>8. SchemaAmounts'  BY <1>1, <1>4 DEF SchemaInv, SchemaAmounts
<1> QED  BY <1>4, <1>5, <1>6, <1>7, <1>8 DEF SchemaInv, Schema!RowsKept, Schema!AuditTextKept

\* The tables that are missing are made, and the columns they are made with.
LEMMA SchemaTablesMade ==
  ASSUME SchemaInv, Schema!Migrate, schemaPc = 1
  PROVE  SchemaInv' /\ Schema!RowsKept /\ Schema!AuditTextKept
<1>1. schemaFile \in SchemaFile /\ schemaPc' = 2 /\ UNCHANGED <<entered, stops>>
      /\ schemaFile' = Schema!MigrateSchema(schemaFile)
  BY SchemaMigrateFile DEF SchemaInv, SchemaTypes
<1>2. /\ schemaFile'.tables = Schema!Tables /\ schemaFile'.full = schemaFile.full
      /\ schemaFile'.sigma = schemaFile.sigma /\ schemaFile'.index \in {"text", "nano"}
      /\ schemaFile'.major = schemaFile.major /\ schemaFile'.minor = schemaFile.minor
      /\ schemaFile'.text = schemaFile.text /\ schemaFile'.nano = schemaFile.nano
      /\ schemaFile'.audit = schemaFile.audit
      /\ schemaFile'.cols \subseteq Schema!Added \cup {"nano"}
  BY <1>1 DEF SchemaFile, Schema!MigrateSchema, Schema!Added
<1>3. schemaFile' \in SchemaFile
  <2>1. schemaFile' = [tables |-> schemaFile'.tables, full |-> schemaFile'.full,
                       cols |-> schemaFile'.cols, sigma |-> schemaFile'.sigma,
                       major |-> schemaFile'.major, minor |-> schemaFile'.minor,
                       text |-> schemaFile'.text, nano |-> schemaFile'.nano,
                       audit |-> schemaFile'.audit, index |-> schemaFile'.index]
    BY <1>1 DEF SchemaFile, Schema!MigrateSchema
  <2> QED  BY <1>1, <1>2, <2>1 DEF SchemaFile
<1>4. SchemaTypes'  BY <1>1, <1>3 DEF SchemaInv, SchemaTypes
<1>5. SchemaProgress'
  <2>1. Schema!Tables # {} /\ schemaFile.full \subseteq Schema!Tables
    BY <1>1, OldTables DEF SchemaFile
  <2> QED  BY <1>1, <1>2, <2>1 DEF SchemaProgress
<1>6. SchemaOrder'  BY <1>1, <1>2 DEF SchemaInv, SchemaOrder
<1>7. SchemaAmounts'  BY <1>1, <1>2 DEF SchemaInv, SchemaAmounts
<1> QED  BY <1>2, <1>4, <1>5, <1>6, <1>7 DEF SchemaInv, Schema!RowsKept, Schema!AuditTextKept

\* The rebuild of the Six Sigma table takes no rows along.
LEMMA SchemaRebuilt ==
  ASSUME SchemaInv, Schema!Migrate, schemaPc = 3
  PROVE  SchemaInv' /\ Schema!RowsKept /\ Schema!AuditTextKept
<1>1. schemaFile \in SchemaFile /\ schemaPc' = 4 /\ UNCHANGED <<entered, stops>>
      /\ schemaFile' = Schema!Rebuild(schemaFile)
  BY SchemaMigrateFile DEF SchemaInv, SchemaTypes
<1>2. schemaFile.sigma = "old" => fk = FALSE  BY DEF SchemaInv, SchemaProgress
<1>3. schemaFile' = [schemaFile EXCEPT !.sigma = "new"]
  <2>1. CASE schemaFile.sigma = "new"  BY <1>1, <2>1 DEF Schema!Rebuild, SchemaFile
  <2>2. CASE schemaFile.sigma = "old"
    <3>1. schemaFile' = [schemaFile EXCEPT !.sigma = "new", !.full = @]
      BY <1>1, <1>2, <2>2 DEF Schema!Rebuild
    <3> QED  BY <1>1, <3>1 DEF SchemaFile
  <2> QED  BY <1>1, <2>1, <2>2 DEF SchemaFile
<1>4. schemaFile' \in SchemaFile  BY <1>1, <1>3 DEF SchemaFile
<1>5. /\ schemaFile'.tables = schemaFile.tables /\ schemaFile'.full = schemaFile.full
      /\ schemaFile'.sigma = "new" /\ schemaFile'.index = schemaFile.index
      /\ schemaFile'.major = schemaFile.major /\ schemaFile'.minor = schemaFile.minor
      /\ schemaFile'.text = schemaFile.text /\ schemaFile'.nano = schemaFile.nano
      /\ schemaFile'.audit = schemaFile.audit /\ schemaFile'.cols = schemaFile.cols
  BY <1>1, <1>3 DEF SchemaFile
<1>6. SchemaTypes'  BY <1>1, <1>4 DEF SchemaInv, SchemaTypes
<1>7. SchemaProgress'  BY <1>1, <1>5 DEF SchemaInv, SchemaProgress
<1>8. SchemaOrder'  BY <1>1, <1>5 DEF SchemaInv, SchemaOrder
<1>9. SchemaAmounts'  BY <1>1, <1>5 DEF SchemaInv, SchemaAmounts
<1> QED  BY <1>5, <1>6, <1>7, <1>8, <1>9 DEF SchemaInv, Schema!RowsKept, Schema!AuditTextKept

\* The statements that leave the file alone.
LEMMA SchemaIdleStep ==
  ASSUME SchemaInv, Schema!Migrate, schemaPc \in {2, 4, 5, 17}
  PROVE  SchemaInv' /\ Schema!RowsKept /\ Schema!AuditTextKept
<1>1. schemaFile' = schemaFile /\ schemaPc' = schemaPc + 1 /\ UNCHANGED <<entered, stops>>
      /\ schemaPc \in 1 .. 17
  BY SchemaMigrateFile
<1>2. schemaPc' = 3 /\ schemaFile.sigma = "old" => fk' = FALSE
  <2>1. schemaPc = 2 => fk' = (schemaFile.sigma # "old")  BY SchemaMigrateFile
  <2>2. schemaPc' = 3 => schemaPc = 2  BY <1>1
  <2> QED  BY <2>1, <2>2
<1>3. SchemaTypes'  BY <1>1 DEF SchemaInv, SchemaTypes
<1>4. SchemaProgress'  BY <1>1, <1>2 DEF SchemaInv, SchemaProgress
<1>5. SchemaOrder'  BY <1>1 DEF SchemaInv, SchemaOrder
<1>6. SchemaAmounts'  BY <1>1 DEF SchemaInv, SchemaAmounts
<1> QED  BY <1>1, <1>3, <1>4, <1>5, <1>6 DEF SchemaInv, Schema!RowsKept, Schema!AuditTextKept

\* A backfill writes the amount or nothing.
LEMMA SchemaBackfilled ==
  ASSUME SchemaInv, Schema!Migrate, schemaPc \in {8, 11}, NEW m \in Schema!Money,
         schemaFile' = Schema!Backfill(schemaFile, m)
  PROVE  SchemaInv' /\ Schema!RowsKept /\ Schema!AuditTextKept
<1>1. schemaFile \in SchemaFile /\ schemaPc' = schemaPc + 1 /\ UNCHANGED <<entered, stops>>
      /\ schemaPc \in 1 .. 17 /\ entered \in [Schema!Money -> Nat]
  BY SchemaMigrateFile DEF SchemaInv, SchemaTypes
<1>2. PICK n \in Nat : /\ n = 0 \/ n = 100 * entered[m]
                       /\ schemaFile' = [schemaFile EXCEPT !.minor[m] = n]
  <2>1. CASE m \in probe
    <3>1. schemaFile' = [schemaFile EXCEPT !.minor[m] = schemaFile.minor[m]]
      BY <1>1, <2>1 DEF Schema!Backfill, SchemaFile
    <3>2. schemaFile.minor[m] \in Nat  BY <1>1 DEF SchemaFile
    <3>3. schemaFile.minor[m] = 0 \/ schemaFile.minor[m] = 100 * entered[m]
      BY DEF SchemaInv, SchemaAmounts
    <3> QED  BY <3>1, <3>2, <3>3
  <2>2. CASE m \notin probe
    <3> DEFINE n == IF schemaFile.minor[m] = 0 /\ schemaFile.major[m] # 0
                    THEN 100 * schemaFile.major[m] ELSE schemaFile.minor[m]
    <3>1. schemaFile' = [schemaFile EXCEPT !.minor[m] = n]  BY <2>2 DEF Schema!Backfill
    <3>2. n \in Nat /\ (n = 0 \/ n = 100 * entered[m])
      <4>1. schemaFile.minor[m] \in Nat /\ schemaFile.major[m] = entered[m]
            /\ entered[m] \in Nat
            /\ (schemaFile.minor[m] = 0 \/ schemaFile.minor[m] = 100 * entered[m])
        BY <1>1 DEF SchemaFile, SchemaInv, SchemaAmounts
      <4> QED  BY <4>1
    <3> QED  BY <3>1, <3>2
  <2> QED  BY <2>1, <2>2
<1>3. schemaFile' \in SchemaFile  BY <1>1, <1>2 DEF SchemaFile
<1>4. /\ schemaFile'.tables = schemaFile.tables /\ schemaFile'.full = schemaFile.full
      /\ schemaFile'.sigma = schemaFile.sigma /\ schemaFile'.index = schemaFile.index
      /\ schemaFile'.major = schemaFile.major
      /\ schemaFile'.minor = [schemaFile.minor EXCEPT ![m] = n]
      /\ schemaFile'.text = schemaFile.text /\ schemaFile'.nano = schemaFile.nano
      /\ schemaFile'.audit = schemaFile.audit /\ schemaFile'.cols = schemaFile.cols
  BY <1>1, <1>2 DEF SchemaFile
<1>5. SchemaTypes'  BY <1>1, <1>3 DEF SchemaInv, SchemaTypes
<1>6. SchemaProgress'  BY <1>1, <1>4 DEF SchemaInv, SchemaProgress
<1>7. SchemaOrder'  BY <1>1, <1>4 DEF SchemaInv, SchemaOrder
<1>8. SchemaAmounts'
  <2>1. schemaFile.minor \in [Schema!Money -> Nat]  BY <1>1 DEF SchemaFile
  <2> QED  BY <1>1, <1>2, <1>4, <2>1 DEF SchemaInv, SchemaAmounts
<1> QED  BY <1>4, <1>5, <1>6, <1>7, <1>8 DEF SchemaInv, Schema!RowsKept, Schema!AuditTextKept

\* The time stamps are repaired: their text, then their numeric key, then the index.
LEMMA SchemaTimes ==
  ASSUME SchemaInv, Schema!Migrate, schemaPc \in {13, 15, 16}
  PROVE  SchemaInv' /\ Schema!RowsKept /\ Schema!AuditTextKept
<1>1. schemaFile \in SchemaFile /\ schemaPc' = schemaPc + 1 /\ UNCHANGED <<entered, stops>>
      /\ schemaPc \in 1 .. 17
  BY SchemaMigrateFile DEF SchemaInv, SchemaTypes
<1>2. /\ schemaFile' \in SchemaFile
      /\ schemaFile'.tables = schemaFile.tables /\ schemaFile'.full = schemaFile.full
      /\ schemaFile'.sigma = schemaFile.sigma /\ schemaFile'.cols = schemaFile.cols
      /\ schemaFile'.major = schemaFile.major /\ schemaFile'.minor = schemaFile.minor
      /\ schemaFile'.audit = schemaFile.audit
      /\ schemaPc = 16 => schemaFile'.index = "nano"
  <2>1. CASE schemaPc = 13
    <3>1. schemaFile' = [schemaFile EXCEPT !.text =
                [r \in Schema!Rows |-> IF schemaFile.text[r] = "bad" THEN schemaFile.text[r]
                                       ELSE "fixed"]]
      BY <2>1, SchemaMigrateFile DEF Schema!RetrofitTimestampFormat
    <3> QED  BY <1>1, <2>1, <3>1 DEF SchemaFile, Schema!Forms
  <2>2. CASE schemaPc = 15
    <3>1. schemaFile' = [schemaFile EXCEPT !.nano =
                [r \in Schema!Rows |->
                    IF schemaFile.nano[r] = 0 /\ schemaFile.text[r] # "bad"
                    THEN Schema!Instant[r] ELSE schemaFile.nano[r]]]
      BY <2>2, SchemaMigrateFile DEF Schema!BackfillUnixNano
    <3> QED  BY <1>1, <2>2, <3>1, Instants DEF SchemaFile
  <2>3. CASE schemaPc = 16
    <3>1. schemaFile' = [schemaFile EXCEPT !.index = "nano"]
      BY <2>3, SchemaMigrateFile DEF Schema!RepointUnixNanoIndex
    <3> QED  BY <1>1, <2>3, <3>1 DEF SchemaFile
  <2> QED  BY <2>1, <2>2, <2>3
<1>3. SchemaTypes'  BY <1>1, <1>2 DEF SchemaInv, SchemaTypes
<1>4. SchemaProgress'  BY <1>1, <1>2 DEF SchemaInv, SchemaProgress
<1>5. SchemaOrder'
  <2>1. CASE schemaPc = 13
    <3>1. /\ schemaFile'.nano = schemaFile.nano
          /\ \A r \in Schema!Rows : schemaFile'.text[r] \in {"bad", "fixed"}
      BY <1>1, <2>1, SchemaMigrateFile DEF Schema!RetrofitTimestampFormat, SchemaFile
    <3> QED  BY <1>1, <2>1, <3>1 DEF SchemaInv, SchemaOrder
  <2>2. CASE schemaPc = 15
    <3>1. /\ schemaFile'.text = schemaFile.text
          /\ \A r \in Schema!Rows :
                schemaFile'.nano[r] = IF schemaFile.nano[r] = 0 /\ schemaFile.text[r] # "bad"
                                      THEN Schema!Instant[r] ELSE schemaFile.nano[r]
      BY <1>1, <2>2, SchemaMigrateFile DEF Schema!BackfillUnixNano, SchemaFile
    <3> QED  BY <1>1, <2>2, <3>1, Instants DEF SchemaInv, SchemaOrder
  <2>3. CASE schemaPc = 16
    <3>1. schemaFile'.text = schemaFile.text /\ schemaFile'.nano = schemaFile.nano
      BY <1>1, <2>3, SchemaMigrateFile DEF Schema!RepointUnixNanoIndex, SchemaFile
    <3> QED  BY <1>1, <2>3, <3>1 DEF SchemaInv, SchemaOrder
  <2> QED  BY <2>1, <2>2, <2>3
<1>6. SchemaAmounts'  BY <1>1, <1>2 DEF SchemaInv, SchemaAmounts
<1> QED  BY <1>2, <1>3, <1>4, <1>5, <1>6 DEF SchemaInv, Schema!RowsKept, Schema!AuditTextKept

\* Every step keeps the invariant, empties no table and leaves the audit trail's text.
LEMMA SchemaStep ==
  ASSUME Schema!SchemaAssumption, SchemaInv, Schema!Next
  PROVE  SchemaInv' /\ Schema!RowsKept /\ Schema!AuditTextKept
<1>1. CASE Schema!InitDB
  BY <1>1
  DEF Schema!InitDB, SchemaInv, SchemaTypes, SchemaProgress, SchemaOrder, SchemaAmounts,
      Schema!RowsKept, Schema!AuditTextKept
<1>2. CASE Schema!Stop
  BY <1>2, SchemaSteps
  DEF Schema!Stop, Schema!SchemaAssumption, SchemaInv, SchemaTypes, SchemaProgress,
      SchemaOrder, SchemaAmounts, Schema!RowsKept, Schema!AuditTextKept
<1>3. CASE Schema!Close
  BY <1>3, SchemaSteps
  DEF Schema!Close, SchemaInv, SchemaTypes, SchemaProgress,
      SchemaOrder, SchemaAmounts, Schema!RowsKept, Schema!AuditTextKept
<1>4. CASE Schema!SaveAmount
  <2>1. PICK m \in Schema!Money, a \in Amounts :
           /\ entered' = [entered EXCEPT ![m] = a]
           /\ schemaFile' = [schemaFile EXCEPT !.major[m] = a, !.minor[m] = 100 * a,
                                               !.full = @ \cup {"project"}]
    BY <1>4 DEF Schema!SaveAmount
  <2>2. schemaPc = 18 /\ UNCHANGED <<schemaPc, probe, fk, stops>>
    BY <1>4, SchemaSteps DEF Schema!SaveAmount
  <2>3. a \in Nat /\ "project" \in Schema!Tables
    BY OldTables DEF Schema!SchemaAssumption
  <2>4. schemaFile \in SchemaFile /\ entered \in [Schema!Money -> Nat]
        /\ schemaFile.tables = Schema!Tables
    BY <2>2 DEF SchemaInv, SchemaTypes, SchemaProgress
  <2>5. /\ schemaFile'.tables = schemaFile.tables
        /\ schemaFile'.full = schemaFile.full \cup {"project"}
        /\ schemaFile'.sigma = schemaFile.sigma /\ schemaFile'.index = schemaFile.index
        /\ schemaFile'.major = [schemaFile.major EXCEPT ![m] = a]
        /\ schemaFile'.minor = [schemaFile.minor EXCEPT ![m] = 100 * a]
        /\ schemaFile'.text = schemaFile.text /\ schemaFile'.nano = schemaFile.nano
        /\ schemaFile'.audit = schemaFile.audit /\ schemaFile'.cols = schemaFile.cols
    BY <2>1, <2>4 DEF SchemaFile
  <2>6. schemaFile' \in SchemaFile
    <3>1. schemaFile' = [tables |-> schemaFile'.tables, full |-> schemaFile'.full,
                         cols |-> schemaFile'.cols, sigma |-> schemaFile'.sigma,
                         major |-> schemaFile'.major, minor |-> schemaFile'.minor,
                         text |-> schemaFile'.text, nano |-> schemaFile'.nano,
                         audit |-> schemaFile'.audit, index |-> schemaFile'.index]
      BY <2>1, <2>4 DEF SchemaFile
    <3>2. schemaFile'.major \in [Schema!Money -> Nat]
          /\ schemaFile'.minor \in [Schema!Money -> Nat]
      BY <2>3, <2>4, <2>5 DEF SchemaFile
    <3>3. schemaFile'.full \subseteq Schema!Tables  BY <2>3, <2>4, <2>5 DEF SchemaFile
    <3> QED  BY <2>4, <2>5, <3>1, <3>2, <3>3 DEF SchemaFile
  <2>7. SchemaTypes'  BY <2>1, <2>2, <2>3, <2>4, <2>6 DEF SchemaInv, SchemaTypes
  <2>8. SchemaProgress'  BY <2>2, <2>3, <2>4, <2>5, OldTables DEF SchemaInv, SchemaProgress
  <2>9. SchemaOrder'  BY <2>2, <2>5 DEF SchemaInv, SchemaOrder
  <2>10. SchemaAmounts'
    <3>1. schemaFile.major \in [Schema!Money -> Nat] /\ schemaFile.minor \in [Schema!Money -> Nat]
      BY <2>4 DEF SchemaFile
    <3> QED  BY <2>1, <2>3, <2>4, <2>5, <3>1 DEF SchemaInv, SchemaAmounts
  <2> QED  BY <2>5, <2>7, <2>8, <2>9, <2>10
           DEF SchemaInv, Schema!RowsKept, Schema!AuditTextKept
<1>5. CASE Schema!Migrate
  <2>1. schemaPc \in {1, 3, 2, 4, 5, 17, 13, 15, 16} \/ schemaPc \in {8, 11}
        \/ schemaPc \in {6, 7, 9, 10, 12, 14}
    BY <1>5, SchemaMigrateFile
  <2>2. CASE schemaPc \in {8, 11}
    <3>1. schemaPc = 8 => schemaFile' = Schema!Backfill(schemaFile, "budget")
      BY <1>5, SchemaMigrateFile
    <3>2. schemaPc = 11 => schemaFile' = Schema!Backfill(schemaFile, "rate")
      BY <1>5, SchemaMigrateFile
    <3>3. "budget" \in Schema!Money /\ "rate" \in Schema!Money  BY DEF Schema!Money
    <3> QED  BY <1>5, <2>2, <3>1, <3>2, <3>3, SchemaBackfilled
  <2>3. CASE schemaPc \in {6, 7, 9, 10, 12, 14}
    <3>1. PICK s \in Schema!Added \cup {"nano"} :
             /\ schemaFile' = Schema!AddColumn(schemaFile, s)
             /\ schemaPc = 6 => s = "industry"
             /\ schemaPc = 7 => s = "budget"
             /\ schemaPc = 9 => s = "agile_enabled"
             /\ schemaPc = 10 => s = "rate"
             /\ schemaPc = 12 => s = "item_name"
             /\ schemaPc = 14 => s = "nano"
      BY <1>5, <2>3, SchemaMigrateFile DEF Schema!Added
    <3>2. schemaPc > 3 /\ schemaPc \notin {3, 13, 15, 16}  BY <2>3
    <3> QED  BY <1>5, <3>1, <3>2, SchemaColumn
  <2> QED  BY <1>5, <2>1, <2>2, <2>3, SchemaTablesMade, SchemaRebuilt, SchemaIdleStep,
              SchemaTimes
<1> QED  BY <1>1, <1>2, <1>3, <1>4, <1>5 DEF Schema!Next

\* The invariant is inductive, and the step properties follow from it.
LEMMA SchemaNext ==
  ASSUME Schema!SchemaAssumption, SchemaInv, [Schema!Next]_schemaVars
  PROVE  SchemaInv' /\ Schema!RowsKept /\ Schema!AuditTextKept
<1>1. CASE UNCHANGED schemaVars
  BY <1>1
  DEF schemaVars, SchemaInv, SchemaTypes, SchemaProgress, SchemaOrder, SchemaAmounts,
      Schema!RowsKept, Schema!AuditTextKept
<1> QED  BY <1>1, SchemaStep

\* The invariant gives what an upgrade of a project promises.
LEMMA SchemaPromises ==
  ASSUME Schema!SchemaAssumption, SchemaInv
  PROVE  Schema!TypeOK /\ Schema!AmountsKept /\ Schema!OrderedWhenOpen
<1>1. schemaFile \in SchemaFile  BY DEF SchemaInv, SchemaTypes
<1>2. Schema!TypeOK
  <2>1. schemaPc = 18 => schemaFile.cols = Schema!Added \cup {"nano"}
    BY <1>1 DEF SchemaInv, SchemaProgress, SchemaFile, Schema!Added
  <2> QED  BY <1>1, <2>1, SchemaSteps
           DEF SchemaInv, SchemaTypes, SchemaProgress, SchemaFile, Schema!TypeOK
<1>3. Schema!AmountsKept
  <2> SUFFICES ASSUME NEW m \in Schema!Money PROVE Schema!ReadAmount(m) = 100 * entered[m]
    BY DEF Schema!AmountsKept
  <2>1. /\ schemaFile.minor[m] \in Nat /\ entered[m] \in Nat
        /\ schemaFile.major[m] = entered[m]
        /\ schemaFile.minor[m] = 0 \/ schemaFile.minor[m] = 100 * entered[m]
    BY <1>1 DEF SchemaInv, SchemaTypes, SchemaAmounts, SchemaFile
  <2> QED  BY <2>1 DEF Schema!ReadAmount
<1>4. Schema!OrderedWhenOpen
  BY SchemaSteps DEF SchemaInv, SchemaProgress, SchemaOrder, Schema!OrderedWhenOpen
<1> QED  BY <1>2, <1>3, <1>4

-----------------------------------------------------------------------------
(* Proofs: the move of an older data root, for any list of such roots      *)

LegacyPcs == {[at |-> "off"], [at |-> "starting"], [at |-> "opening"], [at |-> "running"]}
             \cup [at : {"copying"}, from : LegacyRoot!Range(LegacyRoots), i : 1 .. 5,
                   half : BOOLEAN]

LegacyTypes ==
    /\ legacyPc \in [{"p1"} -> LegacyPcs]
    /\ root \in [LegacyRoot!Files -> [state : {"absent", "empty", "cut", "copied", "fresh"},
                                      from : LegacyRoot!Range(LegacyRoots) \cup {"none"}]]
    /\ accounts \subseteq {"alice", "zoe", "carol"} /\ created \subseteq {"carol"}
    /\ reported \in LegacyRoot!Range(LegacyRoots) \cup {"none"} /\ ends \in 0 .. MaxEnds

\* Whatever is copied, now or before an end, comes from the preferred root.
LegacyOneSource ==
    /\ \A f \in LegacyRoot!Files : root[f].from \in {"none", LegacyRoot!Preferred}
    /\ reported \in {"none", LegacyRoot!Preferred}

\* A copy under way has copied the entries it has passed, into a root nobody uses yet.
LegacyUnderWay ==
    legacyPc["p1"].at = "copying" =>
        LET c == legacyPc["p1"] IN
        /\ c.from = LegacyRoot!Preferred /\ LegacyRoot!legacyRootCandidates # {}
        /\ \A k \in 1 .. 4 : k < c.i /\ legacy[c.from][LegacyRoot!Walk[k]] # "absent" =>
               root[LegacyRoot!Walk[k]] = [state |-> "copied", from |-> c.from]
        /\ c.i > 2 => LegacyRoot!InDb \subseteq accounts
        /\ c.i > 3 => LegacyRoot!InLog(c.from) \subseteq accounts
        /\ c.half => c.i <= 4
        /\ created = {} /\ reported = "none"

\* A root in use has a system database, which no start copies over.
LegacyInUse ==
    /\ (legacyPc["p1"].at = "running" \/ created # {}) =>
           root["system.db"].state \in {"copied", "fresh"}
    /\ reported # "none" => root["system.db"].state = "copied"
    /\ LegacyRoot!ReportedMeansWhole
    /\ LegacyRoot!NewDataKept

\* The inductive invariant.
LegacyInv == LegacyTypes /\ LegacyOneSource /\ LegacyUnderWay /\ LegacyInUse

\* The entries of a data root, in the order of the walk.
LEMMA LegacyWalk ==
  /\ LegacyRoot!Files = {"alice", "system.db", "system.db-wal", "zoe"}
  /\ Len(LegacyRoot!Walk) = 4
  /\ LegacyRoot!Walk[1] = "alice" /\ LegacyRoot!Walk[2] = "system.db"
  /\ LegacyRoot!Walk[3] = "system.db-wal" /\ LegacyRoot!Walk[4] = "zoe"
<1>1. /\ DOMAIN LegacyRoot!Walk = 1 .. 4 /\ Len(LegacyRoot!Walk) = 4
      /\ LegacyRoot!Walk[1] = "alice" /\ LegacyRoot!Walk[2] = "system.db"
      /\ LegacyRoot!Walk[3] = "system.db-wal" /\ LegacyRoot!Walk[4] = "zoe"
  BY DEF LegacyRoot!Walk
<1>2. LegacyRoot!Files = {LegacyRoot!Walk[x] : x \in 1 .. 4}
  BY <1>1 DEF LegacyRoot!Files, LegacyRoot!Range
<1> QED  BY <1>1, <1>2

\* The preferred root is one of the list, and holds an install.
LEMMA LegacyPreferred ==
  ASSUME LegacyRoot!RootsAssumption, LegacyRoot!legacyRootCandidates # {}
  PROVE  /\ LegacyRoot!Preferred \in LegacyRoot!Range(LegacyRoots)
         /\ legacy[LegacyRoot!Preferred]["system.db"] # "absent"
<1> DEFINE S == LegacyRoot!legacyRootCandidates
           R == {ss \in Nat \X Nat : ss[1] < ss[2]}
<1>1. S \subseteq Nat /\ S \subseteq DOMAIN LegacyRoots
  BY DEF LegacyRoot!legacyRootCandidates, LegacyRoot!RootsAssumption
<1>2. PICK i \in S : \A j \in S : <<j, i>> \notin R
  <2>1. IsWellFoundedOn(R, Nat)  BY NatLessThanWellFounded, Zenon DEF OpToRel
  <2> HIDE DEF R
  <2> QED  BY <1>1, <2>1, WFMin
<1>3. \A j \in S : i <= j
  <2> SUFFICES ASSUME NEW j \in S PROVE i <= j  OBVIOUS
  <2>1. i \in Nat /\ j \in Nat  BY <1>1
  <2>2. ~(j < i)  BY <1>2, <2>1
  <2> QED  BY <2>1, <2>2
<1>4. PICK k \in S : LegacyRoot!Preferred = LegacyRoots[k]  BY <1>3 DEF LegacyRoot!Preferred
<1> QED  BY <1>1, <1>4 DEF LegacyRoot!Range, LegacyRoot!legacyRootCandidates,
                           LegacyRoot!HasInstall

\* The new root is empty at first.
LEMMA LegacyInit == ASSUME LegacyRoot!RootsAssumption, LegacyRoot!Init PROVE LegacyInv
<1>1. /\ root = [f \in LegacyRoot!Files |-> LegacyRoot!Absent]
      /\ accounts = {} /\ created = {} /\ reported = "none" /\ ends = 0
      /\ legacyPc = [p \in {"p1"} |-> LegacyRoot!Off]
  BY DEF LegacyRoot!Init
<1>2. LegacyTypes
  BY <1>1 DEF LegacyTypes, LegacyRoot!Absent, LegacyRoot!Off, LegacyPcs,
              LegacyRoot!RootsAssumption
<1>3. LegacyOneSource  BY <1>1 DEF LegacyOneSource, LegacyRoot!Absent
<1>4. LegacyUnderWay  BY <1>1 DEF LegacyUnderWay, LegacyRoot!Off
<1>5. LegacyInUse
  BY <1>1 DEF LegacyInUse, LegacyRoot!Off, LegacyRoot!ReportedMeansWhole,
              LegacyRoot!NewDataKept
<1> QED  BY <1>2, <1>3, <1>4, <1>5 DEF LegacyInv

\* A start either finds a system database or begins to copy the preferred root.
LEMMA LegacyBegins ==
  ASSUME LegacyRoot!RootsAssumption, LegacyInv,
         LegacyRoot!Start("p1") \/ LegacyRoot!MigrateLegacyRoot("p1")
  PROVE  LegacyInv'
<1> DEFINE c == legacyPc["p1"]
<1>1. legacyPc \in [{"p1"} -> LegacyPcs]  BY DEF LegacyInv, LegacyTypes
<1>2. UNCHANGED <<legacy, root, accounts, created, reported, ends>>
  BY DEF LegacyRoot!Start, LegacyRoot!MigrateLegacyRoot
<1>3. \/ legacyPc'["p1"] \in {[at |-> "starting"], [at |-> "opening"]}
      \/ /\ legacyPc'["p1"] = [at |-> "copying", from |-> LegacyRoot!Preferred, i |-> 1,
                               half |-> FALSE]
         /\ LegacyRoot!legacyRootCandidates # {} /\ root["system.db"].state = "absent"
  BY <1>1 DEF LegacyRoot!Start, LegacyRoot!MigrateLegacyRoot, LegacyRoot!Initialised
<1>4. legacyPc' \in [{"p1"} -> LegacyPcs]
  <2>1. DOMAIN legacyPc' = {"p1"} /\ legacyPc' = [p \in {"p1"} |-> legacyPc'[p]]
    BY <1>1 DEF LegacyRoot!Start, LegacyRoot!MigrateLegacyRoot
  <2>2. CASE legacyPc'["p1"] \in {[at |-> "starting"], [at |-> "opening"]}
    BY <2>1, <2>2 DEF LegacyPcs
  <2>3. CASE LegacyRoot!legacyRootCandidates # {} /\ legacyPc'["p1"] =
              [at |-> "copying", from |-> LegacyRoot!Preferred, i |-> 1, half |-> FALSE]
    <3>1. LegacyRoot!Preferred \in LegacyRoot!Range(LegacyRoots)  BY <2>3, LegacyPreferred
    <3>2. legacyPc'["p1"] \in LegacyPcs  BY <2>3, <3>1 DEF LegacyPcs
    <3> QED  BY <2>1, <3>2
  <2> QED  BY <1>3, <2>2, <2>3
<1>5. LegacyTypes'  BY <1>2, <1>4 DEF LegacyInv, LegacyTypes
<1>6. LegacyOneSource'
  BY <1>2 DEF LegacyInv, LegacyOneSource, LegacyRoot!Preferred,
              LegacyRoot!legacyRootCandidates, LegacyRoot!HasInstall
<1>7. legacyPc'["p1"].at = "copying" => created = {} /\ reported = "none"
  BY <1>3 DEF LegacyInv, LegacyInUse
<1>8. LegacyUnderWay'
  BY <1>2, <1>3, <1>7 DEF LegacyUnderWay, LegacyRoot!Preferred,
                          LegacyRoot!legacyRootCandidates, LegacyRoot!HasInstall
<1>9. LegacyInUse'
  BY <1>2, <1>3
  DEF LegacyInv, LegacyInUse, LegacyRoot!ReportedMeansWhole, LegacyRoot!NewDataKept,
      LegacyRoot!AccountsOf, LegacyRoot!InLog
<1> QED  BY <1>5, <1>6, <1>8, <1>9 DEF LegacyInv

\* What a step of the copy does: it passes an entry that is not there, ends with an error,
\* truncates the target of the entry, or completes it.
LegacyCopySteps(c) ==
    LET f == LegacyRoot!Walk[c.i] IN
    \/ /\ legacy[c.from][f] = "absent" /\ c.i <= 4 /\ c.half = FALSE
       /\ legacyPc'["p1"] = [c EXCEPT !.i = c.i + 1] /\ UNCHANGED <<root, accounts>>
    \/ legacyPc'["p1"] = [at |-> "opening"] /\ UNCHANGED <<root, accounts>>
    \/ /\ c.i <= 4
       /\ \E s \in {"empty", "cut"} : root' = [root EXCEPT ![f] = [state |-> s, from |-> c.from]]
       /\ accounts' = IF f = "system.db" THEN {} ELSE accounts
       /\ legacyPc'["p1"] = [c EXCEPT !.half = TRUE]
    \/ /\ c.half
       /\ root' = [root EXCEPT ![f] = [state |-> "copied", from |-> c.from]]
       /\ accounts' = CASE f = "system.db" -> LegacyRoot!InDb
                        [] f = "system.db-wal" -> accounts \cup LegacyRoot!InLog(c.from)
                        [] OTHER -> accounts
       /\ legacyPc'["p1"] = [c EXCEPT !.i = c.i + 1, !.half = FALSE]

LEMMA LegacyCopyStep ==
  ASSUME LegacyInv, LegacyRoot!OpenTarget("p1") \/ LegacyRoot!CopyRest("p1")
  PROVE  /\ LegacyCopySteps(legacyPc["p1"]) /\ legacyPc["p1"].at = "copying"
         /\ legacyPc["p1"] \in [at : {"copying"}, from : LegacyRoot!Range(LegacyRoots),
                                i : 1 .. 5, half : BOOLEAN]
         /\ legacyPc' = [p \in {"p1"} |-> legacyPc'[p]]
         /\ UNCHANGED <<legacy, created, reported, ends>>
<1>1. legacyPc \in [{"p1"} -> LegacyPcs] /\ legacyPc["p1"].at = "copying"
  BY DEF LegacyInv, LegacyTypes, LegacyRoot!OpenTarget, LegacyRoot!CopyRest
<1>2. legacyPc["p1"] \in [at : {"copying"}, from : LegacyRoot!Range(LegacyRoots),
                          i : 1 .. 5, half : BOOLEAN]
  BY <1>1 DEF LegacyPcs
<1>3. /\ legacyPc' = [p \in {"p1"} |-> legacyPc'[p]]
      /\ UNCHANGED <<legacy, created, reported, ends>>
  BY <1>1 DEF LegacyRoot!OpenTarget, LegacyRoot!CopyRest
<1>4. CASE LegacyRoot!OpenTarget("p1")
  BY <1>1, <1>2, <1>4, LegacyWalk
  DEF LegacyRoot!OpenTarget, LegacyRoot!Source, LegacyRoot!AfterError, LegacyCopySteps
<1>5. CASE LegacyRoot!CopyRest("p1")
  BY <1>1, <1>2, <1>5, LegacyWalk
  DEF LegacyRoot!CopyRest, LegacyRoot!Source, LegacyRoot!AfterError, LegacyRoot!Copied,
      LegacyCopySteps
<1> QED  BY <1>1, <1>2, <1>3, <1>4, <1>5

\* A step of the copy keeps the invariant.
LEMMA LegacyCopies ==
  ASSUME LegacyRoot!RootsAssumption, LegacyInv,
         LegacyRoot!OpenTarget("p1") \/ LegacyRoot!CopyRest("p1")
  PROVE  LegacyInv'
<1> DEFINE c == legacyPc["p1"]
           f == LegacyRoot!Walk[c.i]
<1>1. /\ c \in [at : {"copying"}, from : LegacyRoot!Range(LegacyRoots), i : 1 .. 5,
                half : BOOLEAN]
      /\ c.at = "copying" /\ LegacyCopySteps(c)
      /\ legacyPc' = [p \in {"p1"} |-> legacyPc'[p]]
      /\ UNCHANGED <<legacy, created, reported, ends>>
  BY LegacyCopyStep
<1>2. /\ c.from = LegacyRoot!Preferred /\ LegacyRoot!legacyRootCandidates # {}
      /\ \A k \in 1 .. 4 : k < c.i /\ legacy[c.from][LegacyRoot!Walk[k]] # "absent" =>
             root[LegacyRoot!Walk[k]] = [state |-> "copied", from |-> c.from]
      /\ c.i > 2 => LegacyRoot!InDb \subseteq accounts
      /\ c.i > 3 => LegacyRoot!InLog(c.from) \subseteq accounts
      /\ c.half => c.i <= 4
      /\ created = {} /\ reported = "none"
  BY <1>1 DEF LegacyInv, LegacyUnderWay
<1>3. LegacyRoot!Preferred' = LegacyRoot!Preferred
      /\ LegacyRoot!legacyRootCandidates' = LegacyRoot!legacyRootCandidates
  BY <1>1 DEF LegacyRoot!Preferred, LegacyRoot!legacyRootCandidates, LegacyRoot!HasInstall
<1>4. legacy[c.from]["system.db"] # "absent" /\ c.from \in LegacyRoot!Range(LegacyRoots)
  BY <1>2, LegacyPreferred
<1>5. \A r : LegacyRoot!InLog(r)' = LegacyRoot!InLog(r)  BY <1>1 DEF LegacyRoot!InLog
<1>6. accounts \subseteq {"alice", "zoe", "carol"} /\ reported' = "none" /\ created' = {}
      /\ reported' \in LegacyRoot!Range(LegacyRoots) \cup {"none"} /\ ends' \in 0 .. MaxEnds
  BY <1>1, <1>2 DEF LegacyInv, LegacyTypes
<1>7. /\ LegacyRoot!InDb = {"alice"}
      /\ \A r : LegacyRoot!InLog(r) \subseteq {"zoe"}
      /\ legacy[c.from]["system.db-wal"] = "absent" => LegacyRoot!InLog(c.from) = {}
  BY DEF LegacyRoot!InDb, LegacyRoot!InLog
<1>8. c.i <= 4 => f \in LegacyRoot!Files  BY <1>1, LegacyWalk
<1>9. root \in [LegacyRoot!Files -> [state : {"absent", "empty", "cut", "copied", "fresh"},
                                    from : LegacyRoot!Range(LegacyRoots) \cup {"none"}]]
      /\ \A g \in LegacyRoot!Files : root[g].from \in {"none", LegacyRoot!Preferred}
  BY DEF LegacyInv, LegacyTypes, LegacyOneSource
<1>10. LegacyInUse'
  <2>1. \/ legacyPc'["p1"] = [c EXCEPT !.i = c.i + 1] \/ legacyPc'["p1"] = [at |-> "opening"]
        \/ legacyPc'["p1"] = [c EXCEPT !.half = TRUE]
        \/ legacyPc'["p1"] = [c EXCEPT !.i = c.i + 1, !.half = FALSE]
    BY <1>1, Zenon DEF LegacyCopySteps
  <2>2. legacyPc'["p1"].at # "running"
    <3>1. CASE legacyPc'["p1"] = [c EXCEPT !.i = c.i + 1]  BY <1>1, <3>1
    <3>2. CASE legacyPc'["p1"] = [at |-> "opening"]  BY <3>2
    <3>3. CASE legacyPc'["p1"] = [c EXCEPT !.half = TRUE]  BY <1>1, <3>3
    <3>4. CASE legacyPc'["p1"] = [c EXCEPT !.i = c.i + 1, !.half = FALSE]
      BY <1>1, <3>4
    <3> QED  BY <2>1, <3>1, <3>2, <3>3, <3>4
  <2> QED  BY <1>6, <2>2 DEF LegacyInUse, LegacyRoot!ReportedMeansWhole, LegacyRoot!NewDataKept
<1>11. SUFFICES /\ legacyPc'["p1"] \in LegacyPcs /\ accounts' \subseteq {"alice", "zoe", "carol"}
                /\ root' \in [LegacyRoot!Files ->
                                [state : {"absent", "empty", "cut", "copied", "fresh"},
                                 from : LegacyRoot!Range(LegacyRoots) \cup {"none"}]]
                /\ \A g \in LegacyRoot!Files : root'[g].from \in {"none", LegacyRoot!Preferred}
                /\ LegacyUnderWay'
  <2>1. ASSUME legacyPc'["p1"] \in LegacyPcs PROVE legacyPc' \in [{"p1"} -> LegacyPcs]
    BY <1>1, <2>1
  <2> QED  BY <1>3, <1>6, <1>10, <2>1 DEF LegacyInv, LegacyTypes, LegacyOneSource
<1>12. CASE /\ legacy[c.from][f] = "absent" /\ c.i <= 4 /\ c.half = FALSE
            /\ legacyPc'["p1"] = [c EXCEPT !.i = c.i + 1] /\ UNCHANGED <<root, accounts>>
  <2>1. legacyPc'["p1"] \in LegacyPcs  BY <1>1, <1>12 DEF LegacyPcs
  <2>2. legacyPc'["p1"].from = c.from /\ legacyPc'["p1"].i = c.i + 1
        /\ legacyPc'["p1"].half = FALSE
    BY <1>1, <1>12
  <2>3. c.i # 2 /\ (c.i = 3 => LegacyRoot!InLog(c.from) = {})
    BY <1>1, <1>4, <1>7, <1>12, LegacyWalk
  <2>4. LegacyUnderWay'
    BY <1>1, <1>2, <1>3, <1>5, <1>6, <1>12, <2>2, <2>3 DEF LegacyUnderWay
  <2> QED  BY <1>6, <1>9, <1>12, <2>1, <2>4
<1>13. CASE legacyPc'["p1"] = [at |-> "opening"] /\ UNCHANGED <<root, accounts>>
  <2>1. legacyPc'["p1"] \in LegacyPcs  BY <1>13 DEF LegacyPcs
  <2>2. LegacyUnderWay'  BY <1>13 DEF LegacyUnderWay
  <2> QED  BY <1>6, <1>9, <1>13, <2>1, <2>2
<1>14. CASE /\ c.i <= 4
            /\ \E s \in {"empty", "cut"} :
                   root' = [root EXCEPT ![f] = [state |-> s, from |-> c.from]]
            /\ accounts' = IF f = "system.db" THEN {} ELSE accounts
            /\ legacyPc'["p1"] = [c EXCEPT !.half = TRUE]
  <2>1. legacyPc'["p1"] \in LegacyPcs  BY <1>1, <1>14 DEF LegacyPcs
  <2>2. legacyPc'["p1"].from = c.from /\ legacyPc'["p1"].i = c.i  BY <1>1, <1>14
  <2>3. c.i > 2 => accounts' = accounts  BY <1>1, <1>14, LegacyWalk
  <2>4. \A k \in 1 .. 4 : k < c.i => LegacyRoot!Walk[k] # f
    BY <1>1, <1>14, LegacyWalk
  <2>5. \A k \in 1 .. 4 : k < c.i => root'[LegacyRoot!Walk[k]] = root[LegacyRoot!Walk[k]]
    BY <1>8, <1>9, <1>14, <2>4, LegacyWalk
  <2>6. LegacyUnderWay'
    BY <1>1, <1>2, <1>3, <1>5, <1>6, <1>14, <2>2, <2>3, <2>5 DEF LegacyUnderWay
  <2> QED  BY <1>2, <1>4, <1>6, <1>8, <1>9, <1>14, <2>1, <2>6
<1>15. CASE /\ c.half
            /\ root' = [root EXCEPT ![f] = [state |-> "copied", from |-> c.from]]
            /\ accounts' = CASE f = "system.db" -> LegacyRoot!InDb
                             [] f = "system.db-wal" -> accounts \cup LegacyRoot!InLog(c.from)
                             [] OTHER -> accounts
            /\ legacyPc'["p1"] = [c EXCEPT !.i = c.i + 1, !.half = FALSE]
  <2>1. c.i \in 1 .. 4  BY <1>1, <1>2, <1>15
  <2>2. legacyPc'["p1"] \in LegacyPcs
    <3>1. legacyPc'["p1"] = [at |-> "copying", from |-> c.from, i |-> c.i + 1, half |-> FALSE]
      BY <1>1, <1>15
    <3> QED  BY <1>4, <2>1, <3>1 DEF LegacyPcs
  <2>3. legacyPc'["p1"].from = c.from /\ legacyPc'["p1"].i = c.i + 1
        /\ legacyPc'["p1"].half = FALSE
    BY <1>1, <1>15
  <2>4. /\ accounts' \subseteq {"alice", "zoe", "carol"}
        /\ c.i + 1 > 2 => LegacyRoot!InDb \subseteq accounts'
        /\ c.i + 1 > 3 => LegacyRoot!InLog(c.from) \subseteq accounts'
    BY <1>2, <1>6, <1>7, <1>15, <2>1, LegacyWalk
  <2>5. \A k \in 1 .. 4 : k < c.i => LegacyRoot!Walk[k] # f
    BY <2>1, LegacyWalk
  <2>6. /\ \A k \in 1 .. 4 : k < c.i => root'[LegacyRoot!Walk[k]] = root[LegacyRoot!Walk[k]]
        /\ root'[f] = [state |-> "copied", from |-> c.from]
    BY <1>8, <1>9, <1>15, <2>1, <2>5, LegacyWalk
  <2>7. \A k \in 1 .. 4 : k < c.i + 1 /\ legacy[c.from][LegacyRoot!Walk[k]] # "absent" =>
             root'[LegacyRoot!Walk[k]] = [state |-> "copied", from |-> c.from]
    <3> SUFFICES ASSUME NEW k \in 1 .. 4, k < c.i + 1,
                        legacy[c.from][LegacyRoot!Walk[k]] # "absent"
                 PROVE  root'[LegacyRoot!Walk[k]] = [state |-> "copied", from |-> c.from]
      OBVIOUS
    <3>1. k < c.i \/ k = c.i  BY <2>1
    <3> QED  BY <1>2, <2>6, <3>1
  <2>8. LegacyUnderWay'
    BY <1>1, <1>2, <1>3, <1>5, <1>6, <2>3, <2>4, <2>7 DEF LegacyUnderWay
  <2> QED  BY <1>2, <1>4, <1>8, <1>9, <1>15, <2>1, <2>2, <2>4, <2>8
<1> QED  BY <1>1, <1>12, <1>13, <1>14, <1>15 DEF LegacyCopySteps

\* The report of a whole copy, the opening of the database, and what follows.
LEMMA LegacyRuns ==
  ASSUME LegacyRoot!RootsAssumption, LegacyInv,
         \/ LegacyRoot!Reported("p1") \/ LegacyRoot!Open("p1")
         \/ LegacyRoot!CreateAccount("p1") \/ LegacyRoot!End("p1")
  PROVE  LegacyInv'
<1>0. legacyPc \in [{"p1"} -> LegacyPcs]  BY DEF LegacyInv, LegacyTypes
<1>1. LegacyRoot!Preferred' = LegacyRoot!Preferred /\ legacy' = legacy
      /\ \A r : LegacyRoot!InLog(r)' = LegacyRoot!InLog(r)
  BY DEF LegacyRoot!Preferred, LegacyRoot!legacyRootCandidates, LegacyRoot!HasInstall,
         LegacyRoot!InLog, LegacyRoot!Reported, LegacyRoot!Open, LegacyRoot!CreateAccount,
         LegacyRoot!End
<1>2. CASE LegacyRoot!Reported("p1")
  <2> DEFINE c == legacyPc["p1"]
  <2>1. /\ c.at = "copying" /\ c.i > 4 /\ reported' = c.from
        /\ legacyPc' = [legacyPc EXCEPT !["p1"] = [at |-> "opening"]]
        /\ UNCHANGED <<legacy, root, accounts, created, ends>>
    BY <1>2, LegacyWalk DEF LegacyRoot!Reported, LegacyRoot!Complete
  <2>2. c \in [at : {"copying"}, from : LegacyRoot!Range(LegacyRoots), i : 1 .. 5,
               half : BOOLEAN]
    BY <1>0, <2>1 DEF LegacyPcs
  <2>3. /\ c.from = LegacyRoot!Preferred /\ LegacyRoot!legacyRootCandidates # {}
        /\ \A k \in 1 .. 4 : legacy[c.from][LegacyRoot!Walk[k]] # "absent" =>
               root[LegacyRoot!Walk[k]] = [state |-> "copied", from |-> c.from]
        /\ LegacyRoot!InDb \subseteq accounts /\ LegacyRoot!InLog(c.from) \subseteq accounts
        /\ created = {} /\ reported = "none"
    BY <2>1, <2>2 DEF LegacyInv, LegacyUnderWay
  <2>4. legacyPc'["p1"] = [at |-> "opening"] /\ legacyPc' \in [{"p1"} -> LegacyPcs]
    BY <1>0, <2>1 DEF LegacyPcs
  <2>5. \A f \in LegacyRoot!Files : legacy[c.from][f] # "absent" =>
             root[f] = [state |-> "copied", from |-> c.from]
    BY <2>3, LegacyWalk
  <2>6. root["system.db"].state = "copied"
    BY <2>3, <2>5, LegacyPreferred, LegacyWalk
  <2>7. LegacyTypes'  BY <2>1, <2>2, <2>4 DEF LegacyInv, LegacyTypes
  <2>8. LegacyOneSource'  BY <1>1, <2>1, <2>3 DEF LegacyInv, LegacyOneSource
  <2>9. LegacyUnderWay'  BY <2>4 DEF LegacyUnderWay
  <2>10. LegacyInUse'
    <3>1. LegacyRoot!ReportedMeansWhole'
      BY <1>1, <2>1, <2>3, <2>5 DEF LegacyRoot!ReportedMeansWhole, LegacyRoot!AccountsOf
    <3> QED  BY <2>1, <2>3, <2>4, <2>6, <3>1 DEF LegacyInUse, LegacyRoot!NewDataKept
  <2> QED  BY <2>7, <2>8, <2>9, <2>10 DEF LegacyInv
<1>3. CASE LegacyRoot!Open("p1")
  <2>1. /\ legacyPc["p1"].at = "opening"
        /\ UNCHANGED <<legacy, accounts, created, reported, ends>>
        /\ \/ /\ legacyPc' = [legacyPc EXCEPT !["p1"] = [at |-> "off"]] /\ root' = root
           \/ /\ legacyPc' = [legacyPc EXCEPT !["p1"] = [at |-> "running"]]
              /\ root' = IF root["system.db"].state = "copied" THEN root
                         ELSE [root EXCEPT !["system.db"] = [state |-> "fresh", from |-> "none"]]
    BY <1>3 DEF LegacyRoot!Open, LegacyRoot!Off
  <2>2. "system.db" \in LegacyRoot!Files  BY LegacyWalk
  <2>3. /\ legacyPc'["p1"] \in {[at |-> "off"], [at |-> "running"]}
        /\ legacyPc' \in [{"p1"} -> LegacyPcs]
    BY <1>0, <2>1 DEF LegacyPcs
  <2>4. /\ root' = root \/ root' = [root EXCEPT !["system.db"] = [state |-> "fresh",
                                                                  from |-> "none"]]
        /\ root["system.db"].state = "copied" => root' = root
        /\ legacyPc'["p1"].at = "running" => root'["system.db"].state \in {"copied", "fresh"}
    BY <1>0, <2>1, <2>2 DEF LegacyInv, LegacyTypes
  <2>5. LegacyTypes'  BY <2>1, <2>2, <2>3, <2>4 DEF LegacyInv, LegacyTypes
  <2>6. LegacyOneSource'
    BY <1>1, <2>1, <2>2, <2>4 DEF LegacyInv, LegacyTypes, LegacyOneSource
  <2>7. LegacyUnderWay'  BY <2>3 DEF LegacyUnderWay
  <2>8. LegacyInUse'
    <3>1. reported # "none" => root["system.db"].state = "copied" /\ root' = root
      BY <2>4 DEF LegacyInv, LegacyInUse
    <3>2. LegacyRoot!ReportedMeansWhole'
      BY <1>1, <2>1, <3>1 DEF LegacyInv, LegacyInUse, LegacyRoot!ReportedMeansWhole,
                              LegacyRoot!AccountsOf
    <3>3. created # {} => root'["system.db"].state \in {"copied", "fresh"}
      BY <2>1, <2>2, <2>4 DEF LegacyInv, LegacyInUse, LegacyTypes
    <3> QED  BY <2>1, <2>4, <3>1, <3>2, <3>3 DEF LegacyInv, LegacyInUse, LegacyRoot!NewDataKept
  <2> QED  BY <2>5, <2>6, <2>7, <2>8 DEF LegacyInv
<1>4. CASE LegacyRoot!CreateAccount("p1")
  <2>1. /\ legacyPc["p1"].at = "running"
        /\ accounts' = accounts \cup {"carol"} /\ created' = created \cup {"carol"}
        /\ UNCHANGED <<legacy, root, legacyPc, reported, ends>>
    BY <1>4 DEF LegacyRoot!CreateAccount
  <2>2. LegacyTypes'  BY <2>1 DEF LegacyInv, LegacyTypes
  <2>3. LegacyOneSource'  BY <1>1, <2>1 DEF LegacyInv, LegacyOneSource
  <2>4. LegacyUnderWay'  BY <2>1 DEF LegacyUnderWay
  <2>5. LegacyInUse'
    BY <1>1, <2>1 DEF LegacyInv, LegacyInUse, LegacyRoot!ReportedMeansWhole,
                      LegacyRoot!AccountsOf, LegacyRoot!NewDataKept
  <2> QED  BY <2>2, <2>3, <2>4, <2>5 DEF LegacyInv
<1>5. CASE LegacyRoot!End("p1")
  <2>1. /\ legacyPc' = [legacyPc EXCEPT !["p1"] = [at |-> "off"]] /\ ends' = ends + 1
        /\ ends < MaxEnds /\ UNCHANGED <<legacy, root, accounts, created, reported>>
    BY <1>5 DEF LegacyRoot!End, LegacyRoot!Off
  <2>2. legacyPc'["p1"] = [at |-> "off"] /\ legacyPc' \in [{"p1"} -> LegacyPcs]
    BY <1>0, <2>1 DEF LegacyPcs
  <2>3. LegacyTypes'
    BY <2>1, <2>2 DEF LegacyInv, LegacyTypes, LegacyRoot!RootsAssumption
  <2>4. LegacyOneSource'  BY <1>1, <2>1 DEF LegacyInv, LegacyOneSource
  <2>5. LegacyUnderWay'  BY <2>2 DEF LegacyUnderWay
  <2>6. LegacyInUse'
    BY <1>1, <2>1, <2>2 DEF LegacyInv, LegacyInUse, LegacyRoot!ReportedMeansWhole,
                            LegacyRoot!AccountsOf, LegacyRoot!NewDataKept
  <2> QED  BY <2>3, <2>4, <2>5, <2>6 DEF LegacyInv
<1> QED  BY <1>2, <1>3, <1>4, <1>5

\* The invariant is inductive.
LEMMA LegacyNext ==
  ASSUME LegacyRoot!RootsAssumption, LegacyInv, [LegacyRoot!Next]_legacyVars
  PROVE  LegacyInv'
<1>1. CASE UNCHANGED legacyVars
  BY <1>1
  DEF legacyVars, LegacyInv, LegacyTypes, LegacyOneSource, LegacyUnderWay, LegacyInUse,
      LegacyRoot!Preferred, LegacyRoot!legacyRootCandidates, LegacyRoot!HasInstall,
      LegacyRoot!InLog, LegacyRoot!ReportedMeansWhole, LegacyRoot!AccountsOf,
      LegacyRoot!NewDataKept
<1>2. CASE LegacyRoot!Next
  <2>1. PICK p \in {"p1"} :
           \/ LegacyRoot!Start(p) \/ LegacyRoot!MigrateLegacyRoot(p) \/ LegacyRoot!OpenTarget(p)
           \/ LegacyRoot!CopyRest(p) \/ LegacyRoot!Reported(p) \/ LegacyRoot!Open(p)
           \/ LegacyRoot!CreateAccount(p) \/ LegacyRoot!End(p)
    BY <1>2, Zenon DEF LegacyRoot!Next
  <2>2. p = "p1"  OBVIOUS
  <2> QED  BY <2>1, <2>2, LegacyBegins, LegacyCopies, LegacyRuns, Zenon
<1> QED  BY <1>1, <1>2

\* The invariant gives what the move of a data root promises.
LEMMA LegacyPromises ==
  ASSUME LegacyInv
  PROVE  /\ LegacyRoot!TypeOK /\ LegacyRoot!ReportedMeansWhole /\ LegacyRoot!NoMix
         /\ LegacyRoot!NewDataKept
<1>1. LegacyRoot!TypeOK
  BY DEF LegacyInv, LegacyTypes, LegacyPcs, LegacyRoot!TypeOK
<1>2. LegacyRoot!NoMix  BY DEF LegacyInv, LegacyOneSource, LegacyRoot!NoMix
<1> QED  BY <1>1, <1>2 DEF LegacyInv, LegacyInUse

\* InitDB and MigrateLegacyRoot: however often an opening or a start stops half way, an
\* amount reads as it was entered, an open project lists its rows in order, and a data
\* root reported as moved is whole, of one origin, and keeps what was made since.
THEOREM UpgradesKeepTheData == Spec => []UpgradesKeepData
<1> DEFINE I == /\ part = "schema" => SchemaInv
                /\ part = "legacy root" => LegacyInv
<1>1. Init => I  BY SchemaInit, LegacyInit, PartsAssumption DEF Init
<1>2. I /\ [Next]_vars => I'
  <2> SUFFICES ASSUME I, [Next]_vars PROVE I'  OBVIOUS
  <2>1. ASSUME part' = "schema" PROVE SchemaInv'
    <3>1. part = "schema" /\ [Schema!Next]_schemaVars  BY <2>1 DEF Next, vars
    <3> QED  BY <3>1, SchemaNext, PartsAssumption
  <2>2. ASSUME part' = "legacy root" PROVE LegacyInv'
    <3>1. part = "legacy root" /\ [LegacyRoot!Next]_legacyVars  BY <2>2 DEF Next, vars
    <3> QED  BY <3>1, LegacyNext, PartsAssumption
  <2> QED  BY <2>1, <2>2
<1>3. I => UpgradesKeepData
  BY SchemaPromises, LegacyPromises, PartsAssumption DEF UpgradesKeepData
<1> QED  BY <1>1, <1>2, <1>3, PTL DEF Spec

-----------------------------------------------------------------------------
(* Proofs: the export command, whatever names, links and files there are    *)

DestEntries == {Dest!Nothing} \cup {Dest!File(i) : i \in 1 .. MaxFiles} \cup
               {Dest!LinkTo(n) : n \in Dest!Names}

\* What the command line finds is of its types, and no name refers to a file not yet made.
DestTyped ==
  /\ folds \in BOOLEAN /\ fs \in [Dest!Names -> DestEntries]
  /\ content \in [1 .. MaxFiles -> {"db", "journal", "other", "cut", "report", "sealed"}]
  /\ next \in 4 .. MaxFiles + 1
  /\ \A n \in Dest!Names : fs[n].kind = "file" => fs[n].ino < next
  /\ tables \in [{} -> {"absent", "empty", "partial", "whole"}]
  /\ h.at \in {"idle", "opening", "open", "checked", "writing", "exited"}
  /\ h.at = "exited" => h.code \in {0, 1}
  /\ h.at # "idle" => cfg.path \in Dest!Names /\ cfg.dest \in Dest!Names
  /\ h.at = "open" => h = [at |-> "open", src |-> h.src]
  /\ h.at = "writing" \/ "ino" \in DOMAIN h => h.ino \in 1 .. MaxFiles /\ h.ino < next

LEMMA DestFiles ==
  /\ Dest!Nothing.kind = "absent" /\ Dest!Nothing \in DestEntries
  /\ \A i : Dest!File(i).kind = "file" /\ Dest!File(i).ino = i
  /\ \A i \in 1 .. MaxFiles : Dest!File(i) \in DestEntries
BY DEF Dest!Nothing, Dest!File, DestEntries

LEMMA DestEntryKinds ==
  ASSUME NEW e \in DestEntries
  PROVE  /\ e.kind \in {"absent", "file", "link"}
         /\ e.kind = "file" => e.ino \in 1 .. MaxFiles /\ e = Dest!File(e.ino)
         /\ e.kind = "link" => e.to \in Dest!Names
         /\ e.kind = "absent" => e = Dest!Nothing
<1>1. CASE e = Dest!Nothing  BY <1>1 DEF Dest!Nothing
<1>2. ASSUME NEW i \in 1 .. MaxFiles, e = Dest!File(i) PROVE e.kind = "file" /\ e.ino = i
  BY <1>2 DEF Dest!File
<1>3. ASSUME NEW n \in Dest!Names, e = Dest!LinkTo(n) PROVE e.kind = "link" /\ e.to = n
  BY <1>3 DEF Dest!LinkTo
<1> QED  BY <1>1, <1>2, <1>3 DEF DestEntries

LEMMA DestKeys ==
  ASSUME folds \in BOOLEAN, NEW n \in Dest!Names
  PROVE  /\ Dest!Key(n) \in Dest!Names /\ Dest!Key(n).base = n.base /\ Dest!Key(n).sfx = n.sfx
         /\ folds => Dest!Key(n).bup = FALSE /\ Dest!Key(n).sup = FALSE
         /\ ~folds => Dest!Key(n) = n
BY DEF Dest!Key, Dest!Names

\* What a name resolves to, and the file it refers to.
LEMMA DestResolves ==
  ASSUME DestTyped, NEW n \in Dest!Names
  PROVE  /\ Dest!Entry(n) \in DestEntries /\ Dest!Hop(n) \in Dest!Names /\
            Dest!resolveExportDestination(n) \in Dest!Names
         /\ Dest!Stat(n) # 0 =>
              /\ Dest!Entry(Dest!resolveExportDestination(n)) = Dest!File(Dest!Stat(n))
              /\ Dest!Stat(n) \in 1 .. MaxFiles /\ Dest!Stat(n) < next
<1>1. \A m \in Dest!Names : Dest!Entry(m) \in DestEntries /\
      (Dest!Entry(m).kind = "file" => Dest!Entry(m).ino < next)
  BY DestKeys DEF DestTyped, Dest!Entry
<1>2. \A m \in Dest!Names : Dest!Hop(m) \in Dest!Names
  BY <1>1, DestEntryKinds DEF Dest!Hop
<1>3. Dest!resolveExportDestination(n) \in Dest!Names
  BY <1>2 DEF Dest!resolveExportDestination
<1>4. ASSUME Dest!Stat(n) # 0
      PROVE  /\ Dest!Entry(Dest!resolveExportDestination(n)) = Dest!File(Dest!Stat(n))
             /\ Dest!Stat(n) \in 1 .. MaxFiles /\ Dest!Stat(n) < next
  <2> DEFINE e == Dest!Entry(Dest!resolveExportDestination(n))
  <2>1. Dest!Stat(n) = IF e.kind = "file" THEN e.ino ELSE 0  BY DEF Dest!Stat
  <2>2. e \in DestEntries /\ (e.kind = "file" => e.ino < next)  BY <1>1, <1>3
  <2> HIDE DEF e
  <2>3. e.kind = "file" /\ Dest!Stat(n) = e.ino  BY <1>4, <2>1
  <2>4. e = Dest!File(Dest!Stat(n)) /\ Dest!Stat(n) \in 1 .. MaxFiles
    BY <2>2, <2>3, DestEntryKinds
  <2> QED  BY <2>2, <2>3, <2>4 DEF e
<1> QED  BY <1>1, <1>2, <1>3, <1>4

LEMMA DestTypedInit == ASSUME Dest!HeadlessAssumption, Dest!Init PROVE DestTyped
<1>0. MaxFiles \in Nat /\ MaxFiles >= 3  BY DEF Dest!HeadlessAssumption
<1>1. PICK a \in Aliases, l \in {e \in Aliases : e.kind # "file"},
           wal \in {Dest!Nothing, Dest!File(2)}, up \in {Names!Nothing, Names!File(1)} :
        fs = [n \in Dest!Names |-> CASE n = Dest!Project -> Dest!File(1)
                                  [] n = Dest!Alias -> a
                                  [] n = Dest!Link -> l
                                  [] n = Dest!With(Dest!Project, "-wal") -> wal
                                  [] n = [Dest!Project EXCEPT !.bup = TRUE] -> up
                                  [] OTHER -> Dest!Nothing]
  BY DEF Dest!Init
<1> DEFINE First == {Dest!Nothing, Dest!File(1), Dest!File(2), Dest!File(3)} \cup
                    {Dest!LinkTo(n) : n \in Dest!Names}
<1>2. a \in First /\ l \in First /\ wal \in First /\ up \in First
  BY <1>1 DEF Dest!HeadlessAssumption
<1>3. \A e \in First : e \in DestEntries /\ (e.kind = "file" => e.ino < 4)
  <2>1. \A n \in Dest!Names : Dest!LinkTo(n) \in DestEntries /\ Dest!LinkTo(n).kind = "link"
    BY DEF DestEntries, Dest!LinkTo
  <2>2. Dest!File(1) \in DestEntries /\ Dest!File(2) \in DestEntries /\ Dest!File(3) \in DestEntries
    BY <1>0, DestFiles
  <2> QED  BY <2>1, <2>2, DestFiles
<1> HIDE DEF First
<1>4. Dest!File(1) \in First /\ Dest!Nothing \in First  BY DEF First
<1>5. \A n \in Dest!Names : fs[n] \in First  BY <1>1, <1>2, <1>4
<1>6. fs \in [Dest!Names -> DestEntries]  BY <1>1, <1>3, <1>5
<1>7. \A n \in Dest!Names : fs[n].kind = "file" => fs[n].ino < 4  BY <1>3, <1>5
<1>8. /\ folds \in BOOLEAN /\ next = 4 /\ h = Dest!Idle /\ tables \in [{} -> Shapes]
      /\ content = [i \in 1 .. MaxFiles |-> CASE i = 1 -> "db" [] i = 2 -> "journal" [] OTHER -> "other"]
  BY DEF Dest!Init
<1>9. content \in [1 .. MaxFiles -> {"db", "journal", "other", "cut", "report", "sealed"}]  BY <1>8
<1>10. h.at = "idle" /\ "ino" \notin DOMAIN h  BY <1>8 DEF Dest!Idle
<1>11. tables \in [{} -> {"absent", "empty", "partial", "whole"}]
  BY <1>8 DEF Dest!HeadlessAssumption
<1> QED  BY <1>0, <1>6, <1>7, <1>8, <1>9, <1>10, <1>11 DEF DestTyped

\* A step that leaves the folder and the files alone.
LEMMA DestTypedStill ==
  ASSUME DestTyped, UNCHANGED <<folds, fs, content, next>>,
         tables' \in [{} -> {"absent", "empty", "partial", "whole"}],
         h'.at \in {"opening", "open", "checked", "exited"}, h'.at = "exited" => h'.code \in {0, 1},
         h'.at = "open" => h' = [at |-> "open", src |-> h'.src],
         cfg'.path \in Dest!Names /\ cfg'.dest \in Dest!Names, "ino" \notin DOMAIN h'
  PROVE  DestTyped'
BY DEF DestTyped

LEMMA DestTypedNext == ASSUME Dest!HeadlessAssumption, DestTyped, Dest!Next PROVE DestTyped'
<1>0. MaxFiles \in Nat /\ MaxFiles >= 3  BY DEF Dest!HeadlessAssumption
<1>e. \A k : Dest!Exit(k).at = "exited" /\ Dest!Exit(k).code = k /\ "ino" \notin DOMAIN Dest!Exit(k)
  BY DEF Dest!Exit
<1>1. CASE Dest!Start
  <2>1. h' = [at |-> "opening"] /\ cfg'.path \in Dest!Names /\ cfg'.dest \in Dest!Names
    BY <1>1 DEF Dest!Start, Dest!HeadlessAssumption
  <2>2. h'.at = "opening" /\ "ino" \notin DOMAIN h'  BY <2>1
  <2>3. UNCHANGED <<folds, fs, content, next, tables>>  BY <1>1 DEF Dest!Start
  <2>4. tables' \in [{} -> {"absent", "empty", "partial", "whole"}]  BY <2>3 DEF DestTyped
  <2> QED  BY <2>1, <2>2, <2>3, <2>4, DestTypedStill
<1>2. CASE Dest!openHeadlessDB
  <2>0. cfg'.path \in Dest!Names /\ cfg'.dest \in Dest!Names /\ UNCHANGED <<folds, fs, content, next>>
    BY <1>2 DEF Dest!openHeadlessDB, DestTyped
  <2>1. tables' \in [{} -> {"absent", "empty", "partial", "whole"}]
    <3>1. Dest!Migrated \in [{} -> {"absent", "empty", "partial", "whole"}]
      BY DEF DestTyped, Dest!Migrated
    <3>2. tables' = tables \/ tables' = Dest!Migrated  BY <1>2 DEF Dest!openHeadlessDB
    <3> QED  BY <3>1, <3>2 DEF DestTyped
  <2>2. h' = Dest!Exit(1) \/ h' = [at |-> "open", src |-> Dest!resolveExportDestination(cfg.path)]
    BY <1>2 DEF Dest!openHeadlessDB
  <2>3. /\ h'.at \in {"open", "exited"} /\ "ino" \notin DOMAIN h'
        /\ h'.at = "exited" => h'.code \in {0, 1}
        /\ h'.at = "open" => h' = [at |-> "open", src |-> h'.src]
    BY <1>e, <2>2
  <2> QED  BY <2>0, <2>1, <2>3, DestTypedStill
<1>3. CASE Dest!runHeadless
  <2>0. /\ cfg'.path \in Dest!Names /\ cfg'.dest \in Dest!Names /\
           UNCHANGED <<folds, fs, content, next, tables>>
        /\ h.at = "open"
    BY <1>3 DEF Dest!runHeadless, DestTyped
  <2>1. tables' \in [{} -> {"absent", "empty", "partial", "whole"}]  BY <2>0 DEF DestTyped
  <2>2. \/ \E k \in {0, 1} : h' = Dest!Exit(k)
        \/ \E q : h' = [at |-> "exited", code |-> 0, stats |-> q]
        \/ h' = [h EXCEPT !.at = "checked"]
    <3>1. CASE Dest!CheckIntegrity \/ Dest!runHeadlessRepair \/ Dest!Vacuum \/ Dest!DumpSchema \/
               Dest!ReadFails
      BY <3>1 DEF Dest!CheckIntegrity, Dest!runHeadlessRepair, Dest!Vacuum, Dest!DumpSchema,
         Dest!ReadFails, Dest!Ends
    <3>2. CASE Dest!printHeadlessStats
      BY <3>2 DEF Dest!printHeadlessStats, Dest!Ends
    <3>3. CASE Dest!CheckDestination
      BY <3>3 DEF Dest!CheckDestination, Dest!Ends
    <3> QED  BY <1>3, <3>1, <3>2, <3>3 DEF Dest!runHeadless
  <2>3. h = [at |-> "open", src |-> h.src]  BY <2>0 DEF DestTyped
  <2>4. /\ h'.at \in {"checked", "exited"} /\ "ino" \notin DOMAIN h'
        /\ h'.at = "exited" => h'.code \in {0, 1}
    <3>1. CASE \E k \in {0, 1} : h' = Dest!Exit(k)  BY <1>e, <3>1
    <3>2. CASE \E q : h' = [at |-> "exited", code |-> 0, stats |-> q]  BY <3>2
    <3>3. CASE h' = [h EXCEPT !.at = "checked"]
      <4>1. h' = [at |-> "checked", src |-> h.src]  BY <2>3, <3>3
      <4> QED  BY <4>1
    <3> QED  BY <2>2, <3>1, <3>2, <3>3
  <2> QED  BY <2>0, <2>1, <2>4, DestTypedStill
<1>4. CASE Dest!OpenDestination
  <2> DEFINE d == Dest!resolveExportDestination(cfg.dest)
             i == Dest!Stat(cfg.dest)
  <2>0. h.at = "checked" /\ UNCHANGED <<folds, tables, cfg>>  BY <1>4 DEF Dest!OpenDestination
  <2>1. cfg.dest \in Dest!Names /\ Dest!Key(d) \in Dest!Names
    BY <2>0, DestResolves, DestKeys DEF DestTyped
  <2>2. CASE i # 0
    <3>1. content' = [content EXCEPT ![i] = "cut"] /\ h' = [at |-> "writing", ino |-> i] /\
          UNCHANGED <<fs, next>>
      BY <1>4, <2>2 DEF Dest!OpenDestination
    <3>2. i \in 1 .. MaxFiles /\ i < next  BY <2>1, <2>2, DestResolves
    <3>3. h'.at = "writing" /\ h'.ino = i  BY <3>1
    <3> HIDE DEF i
    <3> QED  BY <2>0, <3>1, <3>2, <3>3 DEF DestTyped
  <2>3. CASE i = 0
    <3>1. /\ next <= MaxFiles /\ fs' = [fs EXCEPT ![Dest!Key(d)] = Dest!File(next)]
          /\ content' = [content EXCEPT ![next] = "cut"] /\ h' = [at |-> "writing", ino |-> next]
          /\ next' = next + 1
      BY <1>4, <2>3 DEF Dest!OpenDestination
    <3>2. next \in 1 .. MaxFiles /\ Dest!File(next) \in DestEntries
      BY <3>1, DestFiles DEF DestTyped
    <3>3. h'.at = "writing" /\ h'.ino = next  BY <3>1
    <3> HIDE DEF d
    <3>4. fs' \in [Dest!Names -> DestEntries]  BY <3>1, <3>2 DEF DestTyped
    <3>5. \A n \in Dest!Names : fs'[n].kind = "file" => fs'[n].ino < next'
      <4>1. \A n \in Dest!Names : fs'[n] = IF n = Dest!Key(d) THEN Dest!File(next) ELSE fs[n]
        BY <3>1 DEF DestTyped
      <4>2. \A n \in Dest!Names : fs[n].kind = "file" => fs[n].ino \in 1 .. MaxFiles
        BY DestEntryKinds DEF DestTyped
      <4> QED  BY <1>0, <3>1, <3>2, <4>1, <4>2, DestFiles DEF DestTyped
    <3>6. next' \in 4 .. MaxFiles + 1 /\ h'.ino < next'  BY <1>0, <3>1, <3>3 DEF DestTyped
    <3>7. content' \in [1 .. MaxFiles -> {"db", "journal", "other", "cut", "report", "sealed"}]
      BY <3>1 DEF DestTyped
    <3> QED  BY <2>0, <3>2, <3>3, <3>4, <3>5, <3>6, <3>7 DEF DestTyped
  <2> QED  BY <2>2, <2>3
<1>5. CASE Dest!WriteReport
  <2>0. h.at = "writing" /\ UNCHANGED <<folds, fs, next, tables, cfg>>
    BY <1>5 DEF Dest!WriteReport
  <2>1. h.ino \in 1 .. MaxFiles /\ h.ino < next  BY <2>0 DEF DestTyped
  <2>2. Dest!Report(cfg) \in {"sealed", "report"}  BY DEF Dest!Report
  <2>3. CASE content' = [content EXCEPT ![h.ino] = Dest!Report(cfg)] /\
             h' = [at |-> "exited", code |-> 0, ino |-> h.ino]
    <3>1. h'.at = "exited" /\ h'.code = 0 /\ h'.ino = h.ino  BY <2>3
    <3>2. content' \in [1 .. MaxFiles -> {"db", "journal", "other", "cut", "report", "sealed"}]
      BY <2>2, <2>3 DEF DestTyped
    <3> QED  BY <2>0, <2>1, <3>1, <3>2 DEF DestTyped
  <2>4. CASE h' = Dest!Exit(1) /\ UNCHANGED content
    <3>1. h'.at = "exited" /\ h'.code = 1 /\ "ino" \notin DOMAIN h'  BY <1>e, <2>4
    <3> QED  BY <2>0, <2>4, <3>1 DEF DestTyped
  <2> QED  BY <1>5, <2>3, <2>4 DEF Dest!WriteReport, Dest!Ends
<1>w. Dest!With(Dest!Project, "-wal") \in Dest!Names
  BY DEF Dest!HeadlessAssumption, Dest!With, Dest!Project, Dest!Name, Dest!Names, Dest!BaseNames
<1>6. CASE Dest!DesktopOpens
  <2> DEFINE w == Dest!With(Dest!Project, "-wal")
  <2>1. /\ next <= MaxFiles /\ fs' = [fs EXCEPT ![w] = Dest!File(next)]
        /\ content' = [content EXCEPT ![next] = "journal"] /\ next' = next + 1
        /\ UNCHANGED <<folds, tables, cfg, h>>
    BY <1>6 DEF Dest!DesktopOpens
  <2>2. next \in 1 .. MaxFiles /\ Dest!File(next) \in DestEntries /\ w \in Dest!Names
    BY <1>w, <2>1, DestFiles DEF DestTyped
  <2> HIDE DEF w
  <2>3. fs' \in [Dest!Names -> DestEntries]  BY <2>1, <2>2 DEF DestTyped
  <2>4. \A n \in Dest!Names : fs'[n].kind = "file" => fs'[n].ino < next'
    <3>1. \A n \in Dest!Names : fs'[n] = IF n = w THEN Dest!File(next) ELSE fs[n]
      BY <2>1 DEF DestTyped
    <3>2. \A n \in Dest!Names : fs[n].kind = "file" => fs[n].ino \in 1 .. MaxFiles
      BY DestEntryKinds DEF DestTyped
    <3> QED  BY <1>0, <2>1, <2>2, <3>1, <3>2, DestFiles DEF DestTyped
  <2>5. next' \in 4 .. MaxFiles + 1 /\ next <= next'  BY <1>0, <2>1 DEF DestTyped
  <2>6. content' \in [1 .. MaxFiles -> {"db", "journal", "other", "cut", "report", "sealed"}]
    BY <2>1 DEF DestTyped
  <2>7. h'.at = "writing" \/ "ino" \in DOMAIN h' => h'.ino \in 1 .. MaxFiles /\ h'.ino < next'
    BY <1>0, <2>1, <2>2 DEF DestTyped
  <2> QED  BY <2>1, <2>3, <2>4, <2>5, <2>6, <2>7 DEF DestTyped
<1>7. CASE Dest!DesktopCloses
  <2> DEFINE w == Dest!With(Dest!Project, "-wal")
  <2>1. fs' = [fs EXCEPT ![w] = Dest!Nothing] /\ UNCHANGED <<folds, content, next, tables, cfg, h>>
    BY <1>7 DEF Dest!DesktopCloses
  <2> HIDE DEF w
  <2>2. fs' \in [Dest!Names -> DestEntries]  BY <2>1, DestFiles DEF DestTyped
  <2>3. \A n \in Dest!Names : fs'[n].kind = "file" => fs'[n].ino < next
    <3>1. \A n \in Dest!Names : fs'[n] = IF n = w THEN Dest!Nothing ELSE fs[n]
      BY <2>1 DEF DestTyped
    <3> QED  BY <3>1, DestFiles DEF DestTyped
  <2> QED  BY <2>1, <2>2, <2>3 DEF DestTyped
<1> QED  BY <1>1, <1>2, <1>3, <1>4, <1>5, <1>6, <1>7 DEF Dest!Next

\* The log beside the project's plain name.
DestWal == Dest!With(Dest!Project, "-wal")

\* The names of the files that SQLite would take for a journal of the project.
DestJournals ==
  {Dest!Key(Dest!With(n, s)) : n \in {m \in Dest!Names : m.sfx = Dest!Plain /\ Dest!Entry(m) = Dest!File(1)},
                         s \in Endings \ {Dest!Plain}}

\* Before a command writes, the log is the only journal, and if it has another name then the
\* project has not.
DestFresh ==
  /\ \A n \in Dest!Names : fs[n].kind = "file" /\ n.sfx # Dest!Plain => n = DestWal
  /\ \A n \in Dest!Names : n # DestWal /\ fs[n].kind = "file" /\ fs[n] = fs[DestWal] =>
       \A m \in Dest!Names : fs[m] = Dest!File(1) => m = Dest!Project

\* What may be opened for writing: no name of the project's files, and no other name of one.
DestSafe(k) ==
  /\ fs[k].kind # "link" /\ fs[k] # Dest!File(1) /\ k \notin DestJournals
  /\ fs[k].kind = "file" => \A j \in DestJournals : fs[j] # fs[k]

\* The files of the project.
DestStored ==
  /\ fs[Dest!Project] = Dest!File(1) /\ content[1] = "db"
  /\ \A n \in Dest!Names : fs[n] = Dest!File(1) => n.sfx = Dest!Plain /\ n.sup = FALSE
  /\ \A j \in DestJournals : fs[j].kind = "file" => content[fs[j].ino] = "journal"

\* The file that a name leads to is the project; the name that writing to a name makes or cuts.
DestLeads(n) == Dest!Entry(Dest!resolveExportDestination(n)) = Dest!File(1)
DestTarget(n) == Dest!Key(Dest!resolveExportDestination(n))
DestOwns(n) == Dest!Entry(n) = Dest!File(1)

DestInv ==
  /\ DestTyped /\ DestStored
  /\ \A p \in Dest!Names : h.at = "opening" /\ cfg.path = p => DestLeads(p)
  /\ h.at = "open" => h.src \in Dest!Names
  /\ \A n \in Dest!Names : h.at = "open" /\ h.src = n => DestOwns(n)
  /\ h.at \in {"idle", "opening", "open"} => DestFresh
  /\ \A d \in Dest!Names, k \in Dest!Names :
       h.at = "checked" /\ cfg.dest = d /\ k = DestTarget(d) => DestSafe(k)
  /\ h.at = "writing" => h.ino # 1 /\ \A j \in DestJournals : fs[j] # Dest!File(h.ino)

\* A journal's name, and the plain name it belongs to.
LEMMA DestWith ==
  ASSUME folds \in BOOLEAN, NEW n \in Dest!Names, NEW s \in Endings
  PROVE  /\ Dest!With(n, s) \in Dest!Names /\ Dest!With(n, s).sfx = s /\ Dest!With(n, s).sup = FALSE
         /\ Dest!Key(Dest!With(n, s)) = Dest!With(Dest!Key(n), s)
         /\ \A t \in Endings : Dest!With(Dest!With(n, s), t) = Dest!With(n, t)
         /\ n.sfx = s /\ n.sup = FALSE => Dest!With(n, s) = n
<1>1. Dest!With(n, s) \in Dest!Names /\ Dest!With(n, s).sfx = s /\ Dest!With(n, s).sup = FALSE
  BY DEF Dest!With, Dest!Names
<1>2. Dest!Key(Dest!With(n, s)) = Dest!With(Dest!Key(n), s)
  BY DEF Dest!With, Dest!Names, Dest!Key
<1>3. \A t \in Endings : Dest!With(Dest!With(n, s), t) = Dest!With(n, t)
  BY DEF Dest!With, Dest!Names
<1>4. n.sfx = s /\ n.sup = FALSE => Dest!With(n, s) = n
  BY DEF Dest!With, Dest!Names
<1> QED  BY <1>1, <1>2, <1>3, <1>4

LEMMA DestNamed ==
  ASSUME Dest!HeadlessAssumption, folds \in BOOLEAN
  PROVE  /\ Dest!Project \in Dest!Names /\ Dest!Project.sfx = Dest!Plain /\ Dest!Project.sup = FALSE
         /\ Dest!Key(Dest!Project) = Dest!Project
         /\ DestWal \in Dest!Names /\ DestWal.sfx = "-wal" /\ "-wal" # Dest!Plain /\
            Dest!Key(DestWal) = DestWal
         /\ Dest!Plain \in Endings /\ "-wal" \in Endings
<1>1. "-wal" # Dest!Plain  BY Zenon DEF Dest!Plain
<1>2. Dest!Plain \in Endings /\ "-wal" \in Endings  BY DEF Dest!HeadlessAssumption
<1>3. /\ Dest!Project \in Dest!Names /\ Dest!Project.sfx = Dest!Plain /\ Dest!Project.sup = FALSE
      /\ Dest!Key(Dest!Project) = Dest!Project
  BY <1>2 DEF Dest!Project, Dest!Name, Dest!Names, Dest!BaseNames, Dest!Key
<1>4. /\ DestWal \in Dest!Names /\ DestWal.sfx = "-wal" /\ Dest!Key(DestWal) = DestWal
  <2>1. DestWal \in Dest!Names /\ DestWal.sfx = "-wal"  BY <1>2, <1>3, DestWith DEF DestWal
  <2>2. Dest!Key(Dest!With(Dest!Project, "-wal")) = Dest!With(Dest!Key(Dest!Project), "-wal")
    BY <1>2, <1>3, DestWith
  <2>3. Dest!Key(DestWal) = DestWal  BY <1>3, <2>2 DEF DestWal
  <2> QED  BY <2>1, <2>3
<1> QED  BY <1>1, <1>2, <1>3, <1>4

LEMMA DestJournalNames ==
  ASSUME Dest!HeadlessAssumption, DestTyped, fs[Dest!Project] = Dest!File(1)
  PROVE  /\ DestWal \in DestJournals
         /\ \A j \in DestJournals : j \in Dest!Names /\ j.sfx # Dest!Plain
<1>0. folds \in BOOLEAN  BY DEF DestTyped
<1>1. DestWal \in DestJournals
  <2>1. Dest!Entry(Dest!Project) = Dest!File(1)
    BY <1>0, DestNamed DEF Dest!Entry
  <2>2. Dest!Key(Dest!With(Dest!Project, "-wal")) = DestWal
    BY <1>0, DestNamed DEF DestWal
  <2> QED  BY <1>0, <2>1, <2>2, DestNamed DEF DestJournals
<1>2. ASSUME NEW j \in DestJournals PROVE j \in Dest!Names /\ j.sfx # Dest!Plain
  <2>1. PICK n \in Dest!Names, s \in Endings \ {Dest!Plain} : j = Dest!Key(Dest!With(n, s))
    BY <1>2 DEF DestJournals
  <2>2. Dest!With(n, s) \in Dest!Names /\ Dest!With(n, s).sfx = s
    BY <1>0, DestWith
  <2> QED  BY <1>0, <2>1, <2>2, DestKeys
<1> QED  BY <1>1, <1>2

\* A name that is no link is what it resolves to.
LEMMA DestStat ==
  ASSUME NEW n, Dest!Entry(n).kind # "link"
  PROVE  /\ Dest!resolveExportDestination(n) = n
         /\ Dest!Stat(n) = IF Dest!Entry(n).kind = "file" THEN Dest!Entry(n).ino ELSE 0
<1>1. Dest!Hop(n) = n  BY DEF Dest!Hop
<1>2. Dest!resolveExportDestination(n) = n  BY <1>1 DEF Dest!resolveExportDestination
<1> QED  BY <1>2 DEF Dest!Stat

\* CheckExportDestination lets no name pass that leads to the project's files.
LEMMA DestChecked ==
  ASSUME Dest!HeadlessAssumption, DestTyped, DestStored, DestFresh, NEW src \in Dest!Names,
         Dest!Entry(src) = Dest!File(1), NEW p \in Dest!Names, Dest!CheckExportDestination(src, p)
  PROVE  DestSafe(Dest!Key(Dest!resolveExportDestination(p)))
<1> DEFINE d == Dest!resolveExportDestination(p)
           k == Dest!Key(d)
<1>0. folds \in BOOLEAN /\ d \in Dest!Names /\ k \in Dest!Names /\ Dest!Key(src) \in Dest!Names
  BY DestResolves, DestKeys DEF DestTyped
<1>1. /\ Dest!Entry(d).kind # "link"
      /\ \A s \in Endings :
           /\ Dest!Stat(d) # 0 => Dest!Stat(Dest!With(src, s)) # Dest!Stat(d)
           /\ (s # Dest!Plain /\ d.sfx = s) =>
                (Dest!Stat(Dest!With(d, Dest!Plain)) = Dest!Stat(src) =>
                   (d.sup /\ ~Dest!exportDirectoryFoldsCase(src)))
  BY DEF Dest!CheckExportDestination, Dest!Loops
<1> HIDE DEF d
<1>2. Dest!Entry(d) = fs[k] /\ Dest!Entry(src) = fs[Dest!Key(src)]
  BY DEF Dest!Entry
<1>3. fs[k] \in DestEntries /\ fs[k].kind # "link"  BY <1>0, <1>1, <1>2 DEF DestTyped
<1> HIDE DEF k
<1>4. Dest!Stat(d) = IF fs[k].kind = "file" THEN fs[k].ino ELSE 0  BY <1>1, <1>2, DestStat
<1>5. Dest!Key(src).sfx = Dest!Plain /\ Dest!Key(src).sup = FALSE
  BY <1>0, <1>2 DEF DestStored
<1>6. ASSUME NEW n \in Dest!Names, Dest!Entry(n) = Dest!File(1) PROVE Dest!Stat(n) = 1
  <2>1. Dest!Entry(n).kind = "file" /\ Dest!Entry(n).ino = 1  BY <1>6, DestFiles
  <2> QED  BY <2>1, DestStat
<1>7. Dest!Stat(src) = 1  BY <1>6
<1>8. fs[k] # Dest!File(1)
  <2>1. Dest!Plain \in Endings  BY <1>0, DestNamed
  <2>2. Dest!Key(Dest!With(src, Dest!Plain)) = Dest!Key(src) /\
        Dest!With(src, Dest!Plain) \in Dest!Names
    <3>1. Dest!Key(Dest!With(src, Dest!Plain)) = Dest!With(Dest!Key(src), Dest!Plain) /\
          Dest!With(src, Dest!Plain) \in Dest!Names
      BY <1>0, <2>1, DestWith
    <3>2. Dest!With(Dest!Key(src), Dest!Plain) = Dest!Key(src)
      BY <1>0, <1>5, <2>1, DestWith
    <3> QED  BY <3>1, <3>2
  <2>3. Dest!Entry(Dest!With(src, Dest!Plain)) = Dest!File(1)
    BY <1>2, <2>2 DEF Dest!Entry
  <2>4. Dest!Stat(Dest!With(src, Dest!Plain)) = 1  BY <1>6, <2>2, <2>3
  <2> SUFFICES ASSUME fs[k] = Dest!File(1) PROVE FALSE  OBVIOUS
  <2>5. Dest!Stat(d) = 1  BY <1>4, DestFiles
  <2> QED  BY <1>1, <2>1, <2>4, <2>5
<1>9. k \notin DestJournals
  <2> SUFFICES ASSUME k \in DestJournals PROVE FALSE  OBVIOUS
  <2>1. PICK n \in {m \in Dest!Names : m.sfx = Dest!Plain /\ Dest!Entry(m) = Dest!File(1)},
             s \in Endings \ {Dest!Plain} :
           k = Dest!Key(Dest!With(n, s))
    BY DEF DestJournals
  <2> DEFINE m == Dest!Key(n)
  <2>2. m \in Dest!Names /\ fs[m] = Dest!File(1)
    BY <1>0, <2>1, DestKeys DEF Dest!Entry
  <2>3. m.sfx = Dest!Plain /\ m.sup = FALSE  BY <2>2 DEF DestStored
  <2>4. k = Dest!With(m, s)  BY <1>0, <2>1, DestWith
  <2> HIDE DEF m
  <2>5. k.sfx = s /\ k.sup = FALSE  BY <1>0, <2>2, <2>4, DestWith
  <2>6. d.sfx = s  BY <1>0, <2>5, DestKeys DEF k
  <2>7. Dest!Plain \in Endings  BY <1>0, DestNamed
  <2>8. Dest!Key(Dest!With(d, Dest!Plain)) = m /\ Dest!With(d, Dest!Plain) \in Dest!Names
    <3>1. Dest!Key(Dest!With(d, Dest!Plain)) = Dest!With(k, Dest!Plain) /\
          Dest!With(d, Dest!Plain) \in Dest!Names
      BY <1>0, <2>7, DestWith DEF k
    <3>2. Dest!With(Dest!With(m, s), Dest!Plain) = Dest!With(m, Dest!Plain)
      BY <1>0, <2>2, <2>7, DestWith
    <3>3. Dest!With(m, Dest!Plain) = m  BY <1>0, <2>2, <2>3, <2>7, DestWith
    <3> QED  BY <2>4, <3>1, <3>2, <3>3
  <2>9. Dest!Entry(Dest!With(d, Dest!Plain)) = Dest!File(1)
    BY <2>2, <2>8 DEF Dest!Entry
  <2>10. Dest!Stat(Dest!With(d, Dest!Plain)) = 1  BY <1>6, <2>8, <2>9
  <2>11. d.sup /\ ~Dest!exportDirectoryFoldsCase(src)  BY <1>1, <1>7, <2>1, <2>6, <2>10
  <2>12. CASE folds
    <3> DEFINE o == [src EXCEPT !.bup = ~@]
    <3>1. o \in Dest!Names /\ Dest!Key(o) = Dest!Key(src)
      BY <2>12 DEF Dest!Names, Dest!Key
    <3>2. Dest!exportDirectoryFoldsCase(src) <=> Dest!Stat(o) = Dest!Stat(src)
      BY DEF Dest!exportDirectoryFoldsCase
    <3> HIDE DEF o
    <3>3. Dest!Entry(o) = Dest!File(1)  BY <1>2, <3>1 DEF Dest!Entry
    <3>4. Dest!Stat(o) = 1  BY <1>6, <3>1, <3>3
    <3> QED  BY <1>7, <2>11, <3>2, <3>4
  <2>13. CASE ~folds
    <3>1. k = d  BY <1>0, <2>13, DestKeys DEF k
    <3> QED  BY <2>5, <2>11, <3>1
  <2> QED  BY <1>0, <2>12, <2>13
<1>10. ASSUME fs[k].kind = "file", NEW j \in DestJournals PROVE fs[j] # fs[k]
  <2> SUFFICES ASSUME fs[j] = fs[k] PROVE FALSE  OBVIOUS
  <2>1. fs[Dest!Project] = Dest!File(1)  BY DEF DestStored
  <2>2. j \in Dest!Names /\ j.sfx # Dest!Plain /\ DestWal \in DestJournals
    BY <2>1, DestJournalNames
  <2>3. j = DestWal  BY <1>10, <2>2 DEF DestFresh
  <2>4. k # DestWal  BY <1>9, <2>2
  <2>5. Dest!Key(src) = Dest!Project  BY <1>0, <1>2, <1>10, <2>3, <2>4 DEF DestFresh
  <2>6. "-wal" \in Endings  BY <1>0, DestNamed
  <2>7. Dest!Key(Dest!With(src, "-wal")) = DestWal
    BY <1>0, <2>5, <2>6, DestWith DEF DestWal
  <2>8. Dest!Entry(Dest!With(src, "-wal")) = fs[k]
    BY <2>3, <2>7 DEF Dest!Entry
  <2>9. Dest!Stat(Dest!With(src, "-wal")) = fs[k].ino  BY <1>10, <2>8, DestStat
  <2>10. Dest!Stat(d) = fs[k].ino /\ fs[k].ino \in 1 .. MaxFiles
    BY <1>3, <1>4, <1>10, DestEntryKinds
  <2> QED  BY <1>1, <2>6, <2>9, <2>10
<1> QED  BY <1>3, <1>8, <1>9, <1>10 DEF DestSafe, k, d

LEMMA DestInit == ASSUME Dest!HeadlessAssumption, Dest!Init PROVE DestInv
<1> DEFINE Up == [Dest!Project EXCEPT !.bup = TRUE]
<1>0. DestTyped /\ folds \in BOOLEAN  BY DestTypedInit DEF DestTyped
<1>1. PICK a \in Aliases, l \in {e \in Aliases : e.kind # "file"},
           wal \in {Dest!Nothing, Dest!File(2)}, up \in {Names!Nothing, Names!File(1)} :
        /\ ~(a = Dest!File(2) /\ up = Dest!File(1))
        /\ fs = [n \in Dest!Names |-> CASE n = Dest!Project -> Dest!File(1)
                                     [] n = Dest!Alias -> a
                                     [] n = Dest!Link -> l
                                     [] n = Dest!With(Dest!Project, "-wal") -> wal
                                     [] n = [Dest!Project EXCEPT !.bup = TRUE] -> up
                                     [] OTHER -> Dest!Nothing]
  BY DEF Dest!Init
<1>2. up \in {Dest!Nothing, Dest!File(1)}
  BY <1>1 DEF Names!Nothing, Names!File, Dest!Nothing, Dest!File
<1>3. /\ content = [i \in 1 .. MaxFiles |-> CASE i = 1 -> "db" [] i = 2 -> "journal" [] OTHER -> "other"]
      /\ h = Dest!Idle
  BY DEF Dest!Init
<1>4. content[1] = "db" /\ content[2] = "journal"  BY <1>3 DEF Dest!HeadlessAssumption
<1>5. h.at = "idle"  BY <1>3 DEF Dest!Idle
<1>6. /\ Dest!Alias.sfx = Dest!Plain /\ Dest!Alias.sup = FALSE /\ Dest!Link.sfx = Dest!Plain /\
         Dest!Link.sup = FALSE
      /\ Up.sfx = Dest!Plain /\ Up.sup = FALSE
  BY DEF Dest!Alias, Dest!Link, Dest!Project, Dest!Name
<1> HIDE DEF Up
<1>7. \A n \in Dest!Names :
        \/ n = Dest!Project /\ fs[n] = Dest!File(1)
        \/ n = Dest!Alias /\ fs[n] = a
        \/ n = Dest!Link /\ fs[n] = l
        \/ n = DestWal /\ fs[n] = wal
        \/ n = Up /\ fs[n] = up
        \/ fs[n] = Dest!Nothing
  BY <1>1 DEF DestWal, Up
<1>8. fs[Dest!Project] = Dest!File(1)
  <2>1. Dest!Project # Dest!Alias /\ Dest!Project # Dest!Link /\ Dest!Project # Up
    BY DEF Dest!Project, Dest!Alias, Dest!Link, Dest!Name, Up
  <2>2. Dest!Project # DestWal /\ Dest!Project \in Dest!Names
    BY <1>0, DestNamed
  <2> QED  BY <1>1, <2>1, <2>2 DEF DestWal, Up
<1>9. fs[DestWal] = wal
  <2>1. DestWal # Dest!Project /\ DestWal # Dest!Alias /\ DestWal # Dest!Link /\ DestWal # Up
    BY <1>0, <1>6, DestNamed
  <2>2. DestWal \in Dest!Names  BY <1>0, DestNamed
  <2> QED  BY <1>1, <2>1, <2>2 DEF DestWal, Up
<1>10. /\ Dest!File(1) # Dest!File(2) /\ Dest!File(1).kind = "file" /\ Dest!File(2).kind = "file"
       /\ Dest!Nothing.kind = "absent" /\ l.kind # "file" /\ Dest!File(2).ino = 2
  BY <1>1, DestFiles
<1>11. \A n \in Dest!Names : fs[n] = Dest!File(1) => n.sfx = Dest!Plain /\ n.sup = FALSE
  <2> SUFFICES ASSUME NEW n \in Dest!Names, fs[n] = Dest!File(1)
               PROVE  n.sfx = Dest!Plain /\ n.sup = FALSE
    OBVIOUS
  <2>1. fs[n] # Dest!Nothing /\ ~(fs[n] = l) /\ ~(fs[n] = wal)  BY <1>1, <1>10
  <2>2. n = Dest!Project \/ n = Dest!Alias \/ n = Up  BY <1>7, <2>1
  <2> QED  BY <1>0, <1>6, <2>2, DestNamed
<1>12. \A n \in Dest!Names : fs[n].kind = "file" /\ n.sfx # Dest!Plain => n = DestWal
  <2> SUFFICES ASSUME NEW n \in Dest!Names, fs[n].kind = "file", n.sfx # Dest!Plain PROVE n = DestWal
    OBVIOUS
  <2>1. n # Dest!Project /\ n # Dest!Alias /\ n # Dest!Link /\ n # Up
    BY <1>0, <1>6, DestNamed
  <2>2. fs[n] # Dest!Nothing  BY <1>10
  <2> QED  BY <1>7, <2>1, <2>2
<1>13. ASSUME NEW n \in Dest!Names, n # DestWal, fs[n].kind = "file", fs[n] = fs[DestWal],
              NEW m \in Dest!Names, fs[m] = Dest!File(1)
       PROVE  m = Dest!Project
  <2>1. fs[n] = Dest!File(2)  BY <1>1, <1>9, <1>10, <1>13
  <2>2. a = Dest!File(2)
    <3>1. fs[n] # l /\ fs[n] # up /\ fs[n] # Dest!Nothing /\ fs[n] # Dest!File(1)
      BY <1>2, <1>10, <2>1
    <3> QED  BY <1>7, <1>13, <2>1, <3>1
  <2>3. up # Dest!File(1)  BY <1>1, <2>2
  <2>4. fs[m] # a /\ fs[m] # l /\ fs[m] # wal /\ fs[m] # up /\ fs[m] # Dest!Nothing
    BY <1>1, <1>10, <1>13, <2>2, <2>3
  <2> QED  BY <1>7, <2>4
<1>14. DestFresh  BY <1>12, <1>13 DEF DestFresh
<1>15. ASSUME NEW j \in DestJournals, fs[j].kind = "file" PROVE content[fs[j].ino] = "journal"
  <2>1. j \in Dest!Names /\ j.sfx # Dest!Plain  BY <1>0, <1>8, DestJournalNames
  <2>2. j = DestWal  BY <1>12, <1>15, <2>1
  <2>3. fs[j] = Dest!File(2)  BY <1>1, <1>9, <1>10, <1>15, <2>2
  <2> QED  BY <1>4, <1>10, <2>3
<1>16. DestStored  BY <1>4, <1>8, <1>11, <1>15 DEF DestStored
<1> QED  BY <1>0, <1>5, <1>14, <1>16 DEF DestInv

\* A step that leaves alone the links and the names of the project.
DestKept ==
  /\ folds' = folds
  /\ \A n \in Dest!Names :
       /\ fs'[n].kind = "link" <=> fs[n].kind = "link"
       /\ fs[n].kind = "link" => fs'[n] = fs[n]
       /\ fs'[n] = Dest!File(1) <=> fs[n] = Dest!File(1)

LEMMA DestFrame ==
  ASSUME DestTyped, DestKept
  PROVE  /\ \A n \in Dest!Names :
              /\ DestOwns(n)' <=> DestOwns(n)
              /\ DestLeads(n)' <=> DestLeads(n)
              /\ DestTarget(n)' = DestTarget(n)
         /\ DestJournals' = DestJournals
<1>1. \A n : Dest!Key(n)' = Dest!Key(n)  BY DEF DestKept, Dest!Key
<1>2. \A n \in Dest!Names : Dest!Key(n) \in Dest!Names /\ Dest!Entry(n) = fs[Dest!Key(n)] /\
      Dest!Entry(n)' = fs'[Dest!Key(n)]
  BY <1>1, DestKeys DEF Dest!Entry, DestTyped
<1>3. \A n \in Dest!Names : DestOwns(n)' <=> DestOwns(n)  BY <1>2 DEF DestOwns, DestKept
<1>4. \A n \in Dest!Names : Dest!Hop(n)' = Dest!Hop(n)
  BY <1>2 DEF Dest!Hop, DestKept
<1>5. \A n \in Dest!Names : Dest!resolveExportDestination(n)' = Dest!resolveExportDestination(n)
  BY <1>4, DestResolves DEF Dest!resolveExportDestination
<1>6. \A n \in Dest!Names : DestTarget(n)' = DestTarget(n)  BY <1>1, <1>5 DEF DestTarget
<1>7. \A n \in Dest!Names : DestLeads(n)' <=> DestLeads(n)
  BY <1>3, <1>5, DestResolves DEF DestLeads, DestOwns
<1>8. DestJournals' = DestJournals  BY <1>1, <1>3 DEF DestJournals, DestOwns
<1> QED  BY <1>3, <1>6, <1>7, <1>8

LEMMA DestSame ==
  ASSUME DestTyped, UNCHANGED <<folds, fs>>
  PROVE  /\ DestKept /\ (DestFresh => DestFresh')
         /\ \A k \in Dest!Names : DestSafe(k) => DestSafe(k)'
         /\ DestStored /\ content' = content => DestStored'
<1>1. DestKept  BY DEF DestKept
<1>2. DestJournals' = DestJournals  BY <1>1, DestFrame
<1>3. DestFresh => DestFresh'  BY DEF DestFresh
<1>4. \A k \in Dest!Names : DestSafe(k) => DestSafe(k)'  BY <1>2 DEF DestSafe
<1>5. DestStored /\ content' = content => DestStored'  BY <1>2 DEF DestStored
<1> QED  BY <1>1, <1>3, <1>4, <1>5

\* One name that is no link and no name of the project comes to be another such.
LEMMA DestOne ==
  ASSUME DestTyped, folds' = folds, NEW k \in Dest!Names, NEW v, fs' = [fs EXCEPT ![k] = v],
         fs[k].kind # "link", fs[k] # Dest!File(1), v.kind # "link", v # Dest!File(1)
  PROVE  DestKept /\ \A n \in Dest!Names : fs'[n] = IF n = k THEN v ELSE fs[n]
<1>1. \A n \in Dest!Names : fs'[n] = IF n = k THEN v ELSE fs[n]  BY DEF DestTyped
<1> QED  BY <1>1 DEF DestKept

\* Cutting a file that is neither the project nor a journal.
LEMMA DestCut ==
  ASSUME DestTyped, DestStored, NEW i \in 1 .. MaxFiles, i # 1, NEW c, UNCHANGED fs,
         content' = [content EXCEPT ![i] = c], DestJournals' = DestJournals,
         DestJournals \subseteq Dest!Names, \A j \in DestJournals : fs[j] # Dest!File(i)
  PROVE  DestStored'
<1>1. content'[1] = "db"  BY DEF DestStored, DestTyped
<1>2. ASSUME NEW j \in DestJournals, fs[j].kind = "file" PROVE content'[fs[j].ino] = "journal"
  <2>1. fs[j] \in DestEntries  BY DEF DestTyped
  <2>2. fs[j].ino \in 1 .. MaxFiles /\ fs[j] = Dest!File(fs[j].ino)
    BY <1>2, <2>1, DestEntryKinds
  <2>3. fs[j].ino # i  BY <2>2
  <2> QED  BY <1>2, <2>2, <2>3 DEF DestStored, DestTyped
<1> QED  BY <1>1, <1>2 DEF DestStored

\* Making a file under a name that is no journal's.
LEMMA DestMake ==
  ASSUME Dest!HeadlessAssumption, DestTyped, DestStored, folds' = folds, NEW k \in Dest!Names,
         next <= MaxFiles,
         fs' = [fs EXCEPT ![k] = Dest!File(next)], content' = [content EXCEPT ![next] = "cut"],
         fs[k].kind # "link", fs[k] # Dest!File(1), k \notin DestJournals
  PROVE  DestStored' /\ next # 1 /\ \A j \in DestJournals' : fs'[j] # Dest!File(next)
<1>1. Dest!File(next).kind = "file" /\ Dest!File(next).ino = next /\ Dest!File(1).ino = 1
  BY DestFiles
<1>2. next # 1 /\ next \in 1 .. MaxFiles  BY DEF DestTyped
<1>3. Dest!File(next) # Dest!File(1)  BY <1>1, <1>2
<1>4. DestKept /\ \A n \in Dest!Names : fs'[n] = IF n = k THEN Dest!File(next) ELSE fs[n]
  BY <1>1, <1>3, DestOne
<1>5. DestJournals' = DestJournals  BY <1>4, DestFrame
<1>6. \A j \in DestJournals : j \in Dest!Names  BY DestJournalNames DEF DestStored
<1>7. \A j \in DestJournals : fs'[j] = fs[j]  BY <1>4, <1>6
<1>8. \A n \in Dest!Names : fs[n] # Dest!File(next)  BY <1>1 DEF DestTyped
<1>9. /\ fs'[Dest!Project] = Dest!File(1)
      /\ \A n \in Dest!Names : fs'[n] = Dest!File(1) => fs[n] = Dest!File(1)
  <2>1. Dest!Project \in Dest!Names /\ fs[Dest!Project] = Dest!File(1)
    BY DestNamed DEF DestStored, DestTyped
  <2> QED  BY <1>4, <2>1 DEF DestKept
<1>10. content'[1] = "db"  BY <1>2 DEF DestStored, DestTyped
<1>11. ASSUME NEW j \in DestJournals, fs'[j].kind = "file" PROVE content'[fs'[j].ino] = "journal"
  <2>1. fs'[j] = fs[j] /\ fs[j] \in DestEntries /\ fs[j].kind = "file"
    BY <1>6, <1>7, <1>11 DEF DestTyped
  <2>2. fs[j].ino \in 1 .. MaxFiles /\ fs[j] = Dest!File(fs[j].ino)  BY <2>1, DestEntryKinds
  <2>3. fs[j].ino # next  BY <1>6, <1>8, <2>2
  <2> QED  BY <2>1, <2>2, <2>3 DEF DestStored, DestTyped
<1>12. DestStored'  BY <1>5, <1>9, <1>10, <1>11 DEF DestStored
<1> QED  BY <1>2, <1>5, <1>6, <1>7, <1>8, <1>12

\* A step of another process, while the command stays where it is.
LEMMA DestKeep ==
  ASSUME DestTyped, DestTyped', DestInv, DestKept, UNCHANGED <<cfg, h>>, DestStored',
         DestFresh => DestFresh', \A k \in Dest!Names : DestSafe(k) => DestSafe(k)',
         h.at = "writing" => \A j \in DestJournals' : fs'[j] # Dest!File(h.ino)
  PROVE  DestInv'
<1>1. \A p \in Dest!Names : h.at = "opening" /\ cfg.path = p => DestLeads(p)'
  BY DestFrame DEF DestInv
<1>2. \A n \in Dest!Names : h.at = "open" /\ h.src = n => DestOwns(n)'
  BY DestFrame DEF DestInv
<1>3. \A d \in Dest!Names, k \in Dest!Names :
        h.at = "checked" /\ cfg.dest = d /\ k = DestTarget(d)' => DestSafe(k)'
  BY DestFrame DEF DestInv
<1> QED  BY <1>1, <1>2, <1>3 DEF DestInv

LEMMA DestNext == ASSUME Dest!HeadlessAssumption, DestInv, Dest!Next PROVE DestInv'
<1>0. DestTyped /\ DestTyped' /\ DestStored  BY DestTypedNext DEF DestInv
<1>e. \A c : Dest!Exit(c).at = "exited"  BY DEF Dest!Exit
<1>p. fs[Dest!Project] = Dest!File(1) /\ folds \in BOOLEAN
  BY <1>0 DEF DestStored, DestTyped
<1>j. DestWal \in DestJournals /\ \A j \in DestJournals : j \in Dest!Names /\ j.sfx # Dest!Plain
  BY <1>0, <1>p, DestJournalNames
<1>1. CASE Dest!Start
  <2>1. UNCHANGED <<folds, fs, content>> /\ h.at = "idle"  BY <1>1 DEF Dest!Start
  <2>2. DestKept /\ DestFresh' /\ DestStored'  BY <1>0, <2>1, DestSame DEF DestInv
  <2>3. PICK p \in {n \in AllNames : Dest!Stat(n) = 1} : cfg'.path = p /\ h' = [at |-> "opening"]
    BY <1>1 DEF Dest!Start
  <2>4. h'.at = "opening" /\ p \in Dest!Names  BY <2>3 DEF Dest!HeadlessAssumption
  <2>5. DestLeads(p)  BY <1>0, <2>3, <2>4, DestResolves DEF DestLeads
  <2>6. \A q \in Dest!Names : cfg'.path = q => DestLeads(q)'
    BY <1>0, <2>2, <2>3, <2>5, DestFrame
  <2> QED  BY <1>0, <2>2, <2>4, <2>6 DEF DestInv
<1>2. CASE Dest!openHeadlessDB
  <2>1. UNCHANGED <<folds, fs, content>> /\ h.at = "opening"  BY <1>2 DEF Dest!openHeadlessDB
  <2>2. DestKept /\ DestFresh' /\ DestStored'  BY <1>0, <2>1, DestSame DEF DestInv
  <2>3. CASE h' = Dest!Exit(1)
    <3>1. h'.at = "exited"  BY <1>e, <2>3
    <3> QED  BY <1>0, <2>2, <3>1 DEF DestInv
  <2>4. CASE h' = [at |-> "open", src |-> Dest!resolveExportDestination(cfg.path)]
    <3> DEFINE n == Dest!resolveExportDestination(cfg.path)
    <3>1. cfg.path \in Dest!Names  BY <1>0, <2>1 DEF DestTyped
    <3>2. n \in Dest!Names  BY <1>0, <3>1, DestResolves
    <3>3. DestLeads(cfg.path)  BY <2>1, <3>1 DEF DestInv
    <3>4. DestOwns(n)  BY <3>3 DEF DestLeads, DestOwns
    <3>5. h'.at = "open" /\ h'.src = n  BY <2>4
    <3> HIDE DEF n
    <3>6. \A m \in Dest!Names : h'.src = m => DestOwns(m)'
      BY <1>0, <2>2, <3>2, <3>4, <3>5, DestFrame
    <3> QED  BY <1>0, <2>2, <3>2, <3>5, <3>6 DEF DestInv
  <2> QED  BY <1>2, <2>3, <2>4 DEF Dest!openHeadlessDB
<1>3. CASE Dest!runHeadless
  <2>1. UNCHANGED <<folds, fs, content, cfg>> /\ h.at = "open"  BY <1>3 DEF Dest!runHeadless
  <2>2. DestKept /\ DestFresh /\ DestStored'  BY <1>0, <2>1, DestSame DEF DestInv
  <2>3. ASSUME h'.at = "exited" PROVE DestInv'  BY <1>0, <2>2, <2>3 DEF DestInv
  <2>4. CASE Dest!CheckIntegrity \/ Dest!runHeadlessRepair \/ Dest!Vacuum \/ Dest!DumpSchema \/
             Dest!ReadFails
    <3>1. \E c : h' = Dest!Exit(c)
      BY <2>4 DEF Dest!CheckIntegrity, Dest!runHeadlessRepair, Dest!Vacuum, Dest!DumpSchema,
         Dest!ReadFails, Dest!Ends
    <3> QED  BY <1>e, <2>3, <3>1
  <2>5. CASE Dest!printHeadlessStats
    <3>1. (\E q : h' = [at |-> "exited", code |-> 0, stats |-> q]) \/ h' = Dest!Exit(1)
      BY <2>5 DEF Dest!printHeadlessStats, Dest!Ends
    <3>2. h'.at = "exited"  BY <1>e, <3>1
    <3> QED  BY <2>3, <3>2
  <2>6. CASE Dest!CheckDestination
    <3>1. CASE h' = Dest!Exit(1)  BY <1>e, <2>3, <3>1
    <3>2. CASE h' = [h EXCEPT !.at = "checked"] /\ Dest!CheckExportDestination(h.src, cfg.dest)
      <4>1. h = [at |-> "open", src |-> h.src]  BY <1>0, <2>1 DEF DestTyped
      <4>2. h' = [at |-> "checked", src |-> h.src]  BY <3>2, <4>1
      <4>3. h'.at = "checked"  BY <4>2
      <4>4. cfg.dest \in Dest!Names  BY <1>0, <2>1 DEF DestTyped
      <4>5. h.src \in Dest!Names /\ DestOwns(h.src)  BY <2>1 DEF DestInv
      <4>6. Dest!Entry(h.src) = Dest!File(1)  BY <4>5 DEF DestOwns
      <4>7. DestSafe(DestTarget(cfg.dest))
        BY <1>0, <2>2, <3>2, <4>4, <4>5, <4>6, DestChecked DEF DestTarget
      <4>8. ASSUME NEW d \in Dest!Names, NEW k \in Dest!Names, cfg'.dest = d, k = DestTarget(d)'
            PROVE  DestSafe(k)'
        <5>1. k = DestTarget(cfg.dest)  BY <1>0, <2>1, <2>2, <4>8, DestFrame
        <5>2. DestSafe(k)  BY <4>7, <5>1
        <5> QED  BY <1>0, <2>1, <5>2, DestSame
      <4> QED  BY <1>0, <2>2, <4>3, <4>8 DEF DestInv
    <3> QED  BY <2>6, <3>1, <3>2 DEF Dest!CheckDestination, Dest!Ends
  <2> QED  BY <1>3, <2>4, <2>5, <2>6 DEF Dest!runHeadless
<1>4. CASE Dest!OpenDestination
  <2> DEFINE d == cfg.dest
             r == Dest!resolveExportDestination(d)
             k == DestTarget(d)
             i == Dest!Stat(d)
  <2>0. h.at = "checked" /\ folds' = folds  BY <1>4 DEF Dest!OpenDestination
  <2>1. d \in Dest!Names /\ r \in Dest!Names /\ k \in Dest!Names
    BY <1>0, <2>0, DestResolves, DestKeys DEF DestTyped, DestTarget
  <2>2. DestSafe(k)  BY <2>0, <2>1 DEF DestInv
  <2>3. Dest!Entry(r) = fs[k] /\ k = Dest!Key(r)
    BY DEF Dest!Entry, DestTarget
  <2>4. i = IF fs[k].kind = "file" THEN fs[k].ino ELSE 0  BY <2>3 DEF Dest!Stat
  <2>5. fs[k] \in DestEntries /\ fs[k].kind # "link" /\ fs[k] # Dest!File(1)
    BY <1>0, <2>1, <2>2 DEF DestTyped, DestSafe
  <2>6. CASE i # 0
    <3>1. /\ content' = [content EXCEPT ![i] = "cut"] /\ h' = [at |-> "writing", ino |-> i]
          /\ UNCHANGED fs
      BY <1>4, <2>6 DEF Dest!OpenDestination
    <3>2. h'.at = "writing" /\ h'.ino = i  BY <3>1
    <3> HIDE DEF d, r, k, i
    <3>3. fs[k].kind = "file" /\ i = fs[k].ino  BY <2>4, <2>6
    <3>4. fs[k] = Dest!File(i) /\ i \in 1 .. MaxFiles  BY <2>5, <3>3, DestEntryKinds
    <3>5. i # 1  BY <2>5, <3>4
    <3>6. \A j \in DestJournals : fs[j] # Dest!File(i)  BY <2>2, <3>3, <3>4 DEF DestSafe
    <3>7. DestKept  BY <1>0, <2>0, <3>1, DestSame
    <3>8. DestJournals' = DestJournals  BY <1>0, <3>7, DestFrame
    <3>9. DestStored'  BY <1>0, <1>j, <3>1, <3>4, <3>5, <3>6, <3>8, DestCut
    <3> QED  BY <1>0, <3>1, <3>2, <3>5, <3>6, <3>8, <3>9 DEF DestInv
  <2>7. CASE i = 0
    <3>1. /\ next <= MaxFiles /\ fs' = [fs EXCEPT ![k] = Dest!File(next)]
          /\ content' = [content EXCEPT ![next] = "cut"] /\ h' = [at |-> "writing", ino |-> next]
      BY <1>4, <2>7 DEF Dest!OpenDestination, DestTarget
    <3>2. h'.at = "writing" /\ h'.ino = next  BY <3>1
    <3>3. k \notin DestJournals  BY <2>2 DEF DestSafe
    <3> HIDE DEF d, r, k, i
    <3>4. DestStored' /\ next # 1 /\ \A j \in DestJournals' : fs'[j] # Dest!File(next)
      BY <1>0, <2>0, <2>1, <2>5, <3>1, <3>3, DestMake
    <3> QED  BY <1>0, <3>2, <3>4 DEF DestInv
  <2> QED  BY <2>6, <2>7
<1>5. CASE Dest!WriteReport
  <2>0. h.at = "writing" /\ UNCHANGED <<folds, fs>>  BY <1>5 DEF Dest!WriteReport
  <2>1. h.ino \in 1 .. MaxFiles /\ h.ino # 1 /\ \A j \in DestJournals : fs[j] # Dest!File(h.ino)
    BY <1>0, <2>0 DEF DestInv, DestTyped
  <2>2. h'.at = "exited"  BY <1>5, <1>e DEF Dest!WriteReport, Dest!Ends
  <2>3. DestKept  BY <1>0, <2>0, DestSame
  <2>4. DestJournals' = DestJournals  BY <1>0, <2>3, DestFrame
  <2>5. CASE content' = content
    <3>1. DestStored'  BY <1>0, <2>0, <2>5, DestSame
    <3> QED  BY <1>0, <2>2, <3>1 DEF DestInv
  <2>6. CASE content' = [content EXCEPT ![h.ino] = Dest!Report(cfg)]
    <3>1. DestStored'  BY <1>0, <1>j, <2>0, <2>1, <2>4, <2>6, DestCut
    <3> QED  BY <1>0, <2>2, <3>1 DEF DestInv
  <2> QED  BY <1>5, <2>5, <2>6 DEF Dest!WriteReport
<1>6. CASE Dest!DesktopOpens
  <2>1. /\ Dest!Entry(DestWal).kind = "absent" /\ next <= MaxFiles
        /\ fs' = [fs EXCEPT ![DestWal] = Dest!File(next)]
        /\ content' = [content EXCEPT ![next] = "journal"] /\ UNCHANGED <<folds, cfg, h>>
    BY <1>6 DEF Dest!DesktopOpens, DestWal
  <2>2. DestWal \in Dest!Names /\ Dest!Key(DestWal) = DestWal  BY <1>p, DestNamed
  <2>3. fs[DestWal].kind = "absent"  BY <2>1, <2>2 DEF Dest!Entry
  <2>4. Dest!File(next).kind = "file" /\ Dest!File(next).ino = next  BY DestFiles
  <2>5. next # 1 /\ Dest!File(next) # Dest!File(1) /\ fs[DestWal] # Dest!File(1)
    <3>1. next # 1  BY <1>0 DEF DestTyped
    <3>2. Dest!File(1).ino = 1 /\ Dest!File(1).kind = "file"  BY DestFiles
    <3> QED  BY <2>3, <2>4, <3>1, <3>2
  <2>6. DestKept /\ \A n \in Dest!Names : fs'[n] = IF n = DestWal THEN Dest!File(next) ELSE fs[n]
    BY <1>0, <2>1, <2>2, <2>3, <2>4, <2>5, DestOne
  <2>7. \A n \in Dest!Names : fs[n] # Dest!File(next)
    BY <1>0, <2>4 DEF DestTyped
  <2>8. DestJournals' = DestJournals  BY <1>0, <2>6, DestFrame
  <2>9. DestStored'
    <3>1. /\ fs'[Dest!Project] = Dest!File(1)
          /\ \A n \in Dest!Names : fs'[n] = Dest!File(1) => fs[n] = Dest!File(1)
      BY <1>0, <1>p, <2>6, DestNamed DEF DestKept
    <3>2. content'[1] = "db"  BY <1>0, <2>1, <2>5 DEF DestStored, DestTyped
    <3>3. ASSUME NEW j \in DestJournals, fs'[j].kind = "file" PROVE content'[fs'[j].ino] = "journal"
      <4>1. CASE j = DestWal
        <5>1. next \in 1 .. MaxFiles  BY <1>0, <2>1 DEF DestTyped
        <5>2. fs'[j].ino = next  BY <2>2, <2>4, <2>6, <4>1
        <5> QED  BY <1>0, <2>1, <5>1, <5>2 DEF DestTyped
      <4>2. CASE j # DestWal
        <5>1. fs'[j] = fs[j] /\ j \in Dest!Names  BY <1>j, <2>6, <4>2
        <5>2. content[fs[j].ino] = "journal" /\ fs[j].ino < next
          BY <1>0, <3>3, <5>1 DEF DestStored, DestTyped
        <5>3. fs[j] \in DestEntries  BY <1>0, <5>1 DEF DestTyped
        <5>4. fs[j].ino \in 1 .. MaxFiles  BY <3>3, <5>1, <5>3, DestEntryKinds
        <5>5. fs[j].ino # next  BY <1>0, <5>2, <5>4 DEF DestTyped
        <5> QED  BY <1>0, <2>1, <5>1, <5>2, <5>4, <5>5 DEF DestTyped
      <4> QED  BY <4>1, <4>2
    <3> QED  BY <1>0, <2>8, <3>1, <3>2, <3>3 DEF DestStored
  <2>10. DestFresh => DestFresh'
    <3> SUFFICES ASSUME DestFresh PROVE DestFresh'  OBVIOUS
    <3>1. \A n \in Dest!Names : fs'[n].kind = "file" /\ n.sfx # Dest!Plain => n = DestWal
      BY <2>6 DEF DestFresh
    <3>2. \A n \in Dest!Names : n # DestWal => fs'[n] # fs'[DestWal]  BY <2>2, <2>6, <2>7
    <3> QED  BY <3>1, <3>2 DEF DestFresh
  <2>11. \A k \in Dest!Names : DestSafe(k) => DestSafe(k)'
    <3> SUFFICES ASSUME NEW k \in Dest!Names, DestSafe(k) PROVE DestSafe(k)'  OBVIOUS
    <3>1. k # DestWal /\ k \notin DestJournals'  BY <1>j, <2>8 DEF DestSafe
    <3>2. fs'[k] = fs[k]  BY <2>6, <3>1
    <3>3. ASSUME fs[k].kind = "file", NEW j \in DestJournals PROVE fs'[j] # fs[k]
      <4>1. fs[j] # fs[k] /\ j \in Dest!Names  BY <1>j, <3>3 DEF DestSafe
      <4> QED  BY <2>6, <2>7, <4>1
    <3> QED  BY <2>8, <3>1, <3>2, <3>3 DEF DestSafe
  <2>12. h.at = "writing" => \A j \in DestJournals' : fs'[j] # Dest!File(h.ino)
    <3> SUFFICES ASSUME h.at = "writing", NEW j \in DestJournals PROVE fs'[j] # Dest!File(h.ino)
      BY <2>8
    <3>1. fs[j] # Dest!File(h.ino) /\ j \in Dest!Names  BY <1>j DEF DestInv
    <3>2. Dest!File(next) # Dest!File(h.ino)
      <4>1. h.ino # next  BY <1>0 DEF DestTyped
      <4>2. Dest!File(h.ino).ino = h.ino  BY DestFiles
      <4> QED  BY <2>4, <4>1, <4>2
    <3> QED  BY <2>6, <3>1, <3>2
  <2> QED  BY <1>0, <2>1, <2>6, <2>9, <2>10, <2>11, <2>12, DestKeep
<1>7. CASE Dest!DesktopCloses
  <2>1. /\ Dest!Entry(DestWal).kind = "file" /\ fs' = [fs EXCEPT ![DestWal] = Dest!Nothing]
        /\ UNCHANGED <<folds, content, cfg, h>>
    BY <1>7 DEF Dest!DesktopCloses, DestWal
  <2>2. DestWal \in Dest!Names /\ Dest!Key(DestWal) = DestWal /\ DestWal.sfx # Dest!Plain
    BY <1>p, DestNamed
  <2>3. fs[DestWal].kind = "file"  BY <2>1, <2>2 DEF Dest!Entry
  <2>4. Dest!Nothing.kind = "absent" /\ Dest!File(1).kind = "file"  BY DestFiles
  <2>5. fs[DestWal] # Dest!File(1)  BY <1>0, <2>2 DEF DestStored
  <2>6. DestKept /\ \A n \in Dest!Names : fs'[n] = IF n = DestWal THEN Dest!Nothing ELSE fs[n]
    BY <1>0, <2>1, <2>2, <2>3, <2>4, <2>5, DestOne
  <2>7. DestJournals' = DestJournals  BY <1>0, <2>6, DestFrame
  <2>8. DestStored'
    <3>1. /\ fs'[Dest!Project] = Dest!File(1)
          /\ \A n \in Dest!Names : fs'[n] = Dest!File(1) => fs[n] = Dest!File(1)
      BY <1>0, <1>p, <2>6, DestNamed DEF DestKept
    <3>2. \A j \in DestJournals : fs'[j].kind = "file" => fs'[j] = fs[j]  BY <1>j, <2>4, <2>6
    <3> QED  BY <1>0, <2>1, <2>7, <3>1, <3>2 DEF DestStored
  <2>9. DestFresh => DestFresh'
    <3> SUFFICES ASSUME DestFresh PROVE DestFresh'  OBVIOUS
    <3>1. \A n \in Dest!Names : fs'[n].kind = "file" /\ n.sfx # Dest!Plain => n = DestWal
      BY <2>6 DEF DestFresh
    <3>2. \A n \in Dest!Names : fs'[n].kind = "file" => fs'[n] # fs'[DestWal]
      BY <2>2, <2>4, <2>6
    <3> QED  BY <3>1, <3>2 DEF DestFresh
  <2>10. \A k \in Dest!Names : DestSafe(k) => DestSafe(k)'
    <3> SUFFICES ASSUME NEW k \in Dest!Names, DestSafe(k) PROVE DestSafe(k)'  OBVIOUS
    <3>1. k # DestWal /\ k \notin DestJournals'  BY <1>j, <2>7 DEF DestSafe
    <3>2. fs'[k] = fs[k]  BY <2>6, <3>1
    <3>3. ASSUME fs[k].kind = "file", NEW j \in DestJournals PROVE fs'[j] # fs[k]
      <4>1. fs[j] # fs[k] /\ j \in Dest!Names  BY <1>j, <3>3 DEF DestSafe
      <4> QED  BY <2>4, <2>6, <3>3, <4>1
    <3> QED  BY <2>7, <3>1, <3>2, <3>3 DEF DestSafe
  <2>11. h.at = "writing" => \A j \in DestJournals' : fs'[j] # Dest!File(h.ino)
    <3> SUFFICES ASSUME h.at = "writing", NEW j \in DestJournals PROVE fs'[j] # Dest!File(h.ino)
      BY <2>7
    <3>1. fs[j] # Dest!File(h.ino) /\ j \in Dest!Names  BY <1>j DEF DestInv
    <3>2. Dest!Nothing # Dest!File(h.ino)  BY DestFiles
    <3> QED  BY <2>6, <3>1, <3>2
  <2> QED  BY <1>0, <2>1, <2>6, <2>8, <2>9, <2>10, <2>11, DestKeep
<1> QED  BY <1>1, <1>2, <1>3, <1>4, <1>5, <1>6, <1>7 DEF Dest!Next

LEMMA DestStutter == ASSUME DestInv, UNCHANGED commandVars PROVE DestInv'
<1>1. UNCHANGED <<folds, fs, content, next, tables, damaged, cfg, h, was>>  BY DEF commandVars
<1>2. DestTyped /\ DestTyped'  BY <1>1 DEF DestInv, DestTyped
<1>3. /\ DestKept /\ DestStored' /\ (DestFresh => DestFresh')
      /\ \A k \in Dest!Names : DestSafe(k) => DestSafe(k)'
  BY <1>1, <1>2, DestSame DEF DestInv
<1>4. h.at = "writing" => \A j \in DestJournals' : fs'[j] # Dest!File(h.ino)
  BY <1>1, <1>2, <1>3, DestFrame DEF DestInv
<1> QED  BY <1>1, <1>2, <1>3, <1>4, DestKeep

\* The invariant says what the run checks.
LEMMA DestHolds == ASSUME Dest!HeadlessAssumption, DestInv PROVE Dest!TypeOK /\ Dest!StorageUntouched
<1>0. DestTyped /\ DestStored /\ folds \in BOOLEAN  BY DEF DestInv, DestTyped
<1>1. Dest!TypeOK
  <2>1. \A n \in Dest!Names : fs[n].kind \in {"absent", "file", "link"}
    BY <1>0, DestEntryKinds DEF DestTyped
  <2>2. next \in 1 .. MaxFiles + 1  BY <1>0 DEF DestTyped
  <2> QED  BY <1>0, <2>1, <2>2 DEF Dest!TypeOK, DestTyped
<1>2. ASSUME NEW n \in {m \in Dest!Names : m.sfx = Dest!Plain /\ Dest!Entry(m) = Dest!File(1)},
             NEW s \in Endings \ {Dest!Plain}, Dest!Entry(Dest!With(n, s)).kind = "file"
      PROVE  content[Dest!Entry(Dest!With(n, s)).ino] = "journal"
  <2>1. Dest!Key(Dest!With(n, s)) \in DestJournals  BY DEF DestJournals
  <2>2. Dest!Entry(Dest!With(n, s)) = fs[Dest!Key(Dest!With(n, s))]
    BY DEF Dest!Entry
  <2> QED  BY <1>0, <1>2, <2>1, <2>2 DEF DestStored
<1>3. Dest!StorageUntouched
  <2>1. content[1] = "db"  BY <1>0 DEF DestStored
  <2> QED  BY <1>2, <2>1 DEF Dest!StorageUntouched
<1> QED  BY <1>1, <1>3

-----------------------------------------------------------------------------
(* Proofs: the commands, for any choice of flags and tables                 *)

CmdEntries == {Commands!Nothing} \cup {Commands!File(i) : i \in 1 .. MaxFiles} \cup
               {Commands!LinkTo(n) : n \in Commands!Names}

\* What the command line finds is of its types, and no name refers to a file not yet made.
CmdTyped ==
  /\ folds \in BOOLEAN /\ fs \in [Commands!Names -> CmdEntries]
  /\ content \in [1 .. MaxFiles -> {"db", "journal", "other", "cut", "report", "sealed"}]
  /\ next \in 4 .. MaxFiles + 1
  /\ \A n \in Commands!Names : fs[n].kind = "file" => fs[n].ino < next
  /\ tables \in [Counted -> {"absent", "empty", "partial", "whole"}]
  /\ h.at \in {"idle", "opening", "open", "checked", "writing", "exited"}
  /\ h.at = "exited" => h.code \in {0, 1}
  /\ h.at # "idle" => cfg.path \in Commands!Names /\ cfg.dest \in Commands!Names
  /\ h.at = "open" => h = [at |-> "open", src |-> h.src]
  /\ h.at = "writing" \/ "ino" \in DOMAIN h => h.ino \in 1 .. MaxFiles /\ h.ino < next

LEMMA CmdFiles ==
  /\ Commands!Nothing.kind = "absent" /\ Commands!Nothing \in CmdEntries
  /\ \A i : Commands!File(i).kind = "file" /\ Commands!File(i).ino = i
  /\ \A i \in 1 .. MaxFiles : Commands!File(i) \in CmdEntries
BY DEF Commands!Nothing, Commands!File, CmdEntries

LEMMA CmdEntryKinds ==
  ASSUME NEW e \in CmdEntries
  PROVE  /\ e.kind \in {"absent", "file", "link"}
         /\ e.kind = "file" => e.ino \in 1 .. MaxFiles /\ e = Commands!File(e.ino)
         /\ e.kind = "link" => e.to \in Commands!Names
         /\ e.kind = "absent" => e = Commands!Nothing
<1>1. CASE e = Commands!Nothing  BY <1>1 DEF Commands!Nothing
<1>2. ASSUME NEW i \in 1 .. MaxFiles, e = Commands!File(i) PROVE e.kind = "file" /\ e.ino = i
  BY <1>2 DEF Commands!File
<1>3. ASSUME NEW n \in Commands!Names, e = Commands!LinkTo(n) PROVE e.kind = "link" /\ e.to = n
  BY <1>3 DEF Commands!LinkTo
<1> QED  BY <1>1, <1>2, <1>3 DEF CmdEntries

LEMMA CmdKeys ==
  ASSUME folds \in BOOLEAN, NEW n \in Commands!Names
  PROVE  /\ Commands!Key(n) \in Commands!Names /\ Commands!Key(n).base = n.base /\
            Commands!Key(n).sfx = n.sfx
         /\ folds => Commands!Key(n).bup = FALSE /\ Commands!Key(n).sup = FALSE
         /\ ~folds => Commands!Key(n) = n
BY DEF Commands!Key, Commands!Names

\* What a name resolves to, and the file it refers to.
LEMMA CmdResolves ==
  ASSUME CmdTyped, NEW n \in Commands!Names
  PROVE  /\ Commands!Entry(n) \in CmdEntries /\ Commands!Hop(n) \in Commands!Names /\
            Commands!resolveExportDestination(n) \in Commands!Names
         /\ Commands!Stat(n) # 0 =>
              /\ Commands!Entry(Commands!resolveExportDestination(n)) = Commands!File(Commands!Stat(n))
              /\ Commands!Stat(n) \in 1 .. MaxFiles /\ Commands!Stat(n) < next
<1>1. \A m \in Commands!Names : Commands!Entry(m) \in CmdEntries /\
      (Commands!Entry(m).kind = "file" => Commands!Entry(m).ino < next)
  BY CmdKeys DEF CmdTyped, Commands!Entry
<1>2. \A m \in Commands!Names : Commands!Hop(m) \in Commands!Names
  BY <1>1, CmdEntryKinds DEF Commands!Hop
<1>3. Commands!resolveExportDestination(n) \in Commands!Names
  BY <1>2 DEF Commands!resolveExportDestination
<1>4. ASSUME Commands!Stat(n) # 0
      PROVE  /\ Commands!Entry(Commands!resolveExportDestination(n)) = Commands!File(Commands!Stat(n))
             /\ Commands!Stat(n) \in 1 .. MaxFiles /\ Commands!Stat(n) < next
  <2> DEFINE e == Commands!Entry(Commands!resolveExportDestination(n))
  <2>1. Commands!Stat(n) = IF e.kind = "file" THEN e.ino ELSE 0  BY DEF Commands!Stat
  <2>2. e \in CmdEntries /\ (e.kind = "file" => e.ino < next)  BY <1>1, <1>3
  <2> HIDE DEF e
  <2>3. e.kind = "file" /\ Commands!Stat(n) = e.ino  BY <1>4, <2>1
  <2>4. e = Commands!File(Commands!Stat(n)) /\ Commands!Stat(n) \in 1 .. MaxFiles
    BY <2>2, <2>3, CmdEntryKinds
  <2> QED  BY <2>2, <2>3, <2>4 DEF e
<1> QED  BY <1>1, <1>2, <1>3, <1>4

LEMMA CmdTypedInit == ASSUME Commands!HeadlessAssumption, Commands!Init PROVE CmdTyped
<1>0. MaxFiles \in Nat /\ MaxFiles >= 3  BY DEF Commands!HeadlessAssumption
<1>1. PICK a \in {Names!Nothing}, l \in {e \in {Names!Nothing} : e.kind # "file"},
           wal \in {Commands!Nothing, Commands!File(2)}, up \in {Names!Nothing} :
        fs = [n \in Commands!Names |-> CASE n = Commands!Project -> Commands!File(1)
                                  [] n = Commands!Alias -> a
                                  [] n = Commands!Link -> l
                                  [] n = Commands!With(Commands!Project, "-wal") -> wal
                                  [] n = [Commands!Project EXCEPT !.bup = TRUE] -> up
                                  [] OTHER -> Commands!Nothing]
  BY DEF Commands!Init
<1> DEFINE First == {Commands!Nothing, Commands!File(1), Commands!File(2), Commands!File(3)} \cup
                    {Commands!LinkTo(n) : n \in Commands!Names}
<1>2. a \in First /\ l \in First /\ wal \in First /\ up \in First
  BY <1>1 DEF Commands!HeadlessAssumption
<1>3. \A e \in First : e \in CmdEntries /\ (e.kind = "file" => e.ino < 4)
  <2>1. \A n \in Commands!Names : Commands!LinkTo(n) \in CmdEntries /\ Commands!LinkTo(n).kind = "link"
    BY DEF CmdEntries, Commands!LinkTo
  <2>2. Commands!File(1) \in CmdEntries /\ Commands!File(2) \in CmdEntries /\
        Commands!File(3) \in CmdEntries
    BY <1>0, CmdFiles
  <2> QED  BY <2>1, <2>2, CmdFiles
<1> HIDE DEF First
<1>4. Commands!File(1) \in First /\ Commands!Nothing \in First  BY DEF First
<1>5. \A n \in Commands!Names : fs[n] \in First  BY <1>1, <1>2, <1>4
<1>6. fs \in [Commands!Names -> CmdEntries]  BY <1>1, <1>3, <1>5
<1>7. \A n \in Commands!Names : fs[n].kind = "file" => fs[n].ino < 4  BY <1>3, <1>5
<1>8. /\ folds \in BOOLEAN /\ next = 4 /\ h = Commands!Idle /\ tables \in [Counted -> Shapes]
      /\ content = [i \in 1 .. MaxFiles |-> CASE i = 1 -> "db" [] i = 2 -> "journal" [] OTHER -> "other"]
  BY DEF Commands!Init
<1>9. content \in [1 .. MaxFiles -> {"db", "journal", "other", "cut", "report", "sealed"}]  BY <1>8
<1>10. h.at = "idle" /\ "ino" \notin DOMAIN h  BY <1>8 DEF Commands!Idle
<1>11. tables \in [Counted -> {"absent", "empty", "partial", "whole"}]
  BY <1>8 DEF Commands!HeadlessAssumption
<1> QED  BY <1>0, <1>6, <1>7, <1>8, <1>9, <1>10, <1>11 DEF CmdTyped

\* A step that leaves the folder and the files alone.
LEMMA CmdTypedStill ==
  ASSUME CmdTyped, UNCHANGED <<folds, fs, content, next>>,
         tables' \in [Counted -> {"absent", "empty", "partial", "whole"}],
         h'.at \in {"opening", "open", "checked", "exited"}, h'.at = "exited" => h'.code \in {0, 1},
         h'.at = "open" => h' = [at |-> "open", src |-> h'.src],
         cfg'.path \in Commands!Names /\ cfg'.dest \in Commands!Names, "ino" \notin DOMAIN h'
  PROVE  CmdTyped'
BY DEF CmdTyped

LEMMA CmdTypedNext == ASSUME Commands!HeadlessAssumption, CmdTyped, Commands!Next PROVE CmdTyped'
<1>0. MaxFiles \in Nat /\ MaxFiles >= 3  BY DEF Commands!HeadlessAssumption
<1>e. \A k : Commands!Exit(k).at = "exited" /\ Commands!Exit(k).code = k /\
      "ino" \notin DOMAIN Commands!Exit(k)
  BY DEF Commands!Exit
<1>1. CASE Commands!Start
  <2>1. h' = [at |-> "opening"] /\ cfg'.path \in Commands!Names /\ cfg'.dest \in Commands!Names
    BY <1>1 DEF Commands!Start, Commands!HeadlessAssumption
  <2>2. h'.at = "opening" /\ "ino" \notin DOMAIN h'  BY <2>1
  <2>3. UNCHANGED <<folds, fs, content, next, tables>>  BY <1>1 DEF Commands!Start
  <2>4. tables' \in [Counted -> {"absent", "empty", "partial", "whole"}]  BY <2>3 DEF CmdTyped
  <2> QED  BY <2>1, <2>2, <2>3, <2>4, CmdTypedStill
<1>2. CASE Commands!openHeadlessDB
  <2>0. cfg'.path \in Commands!Names /\ cfg'.dest \in Commands!Names /\
        UNCHANGED <<folds, fs, content, next>>
    BY <1>2 DEF Commands!openHeadlessDB, CmdTyped
  <2>1. tables' \in [Counted -> {"absent", "empty", "partial", "whole"}]
    <3>1. Commands!Migrated \in [Counted -> {"absent", "empty", "partial", "whole"}]
      BY DEF CmdTyped, Commands!Migrated
    <3>2. tables' = tables \/ tables' = Commands!Migrated  BY <1>2 DEF Commands!openHeadlessDB
    <3> QED  BY <3>1, <3>2 DEF CmdTyped
  <2>2. h' = Commands!Exit(1) \/
        h' = [at |-> "open", src |-> Commands!resolveExportDestination(cfg.path)]
    BY <1>2 DEF Commands!openHeadlessDB
  <2>3. /\ h'.at \in {"open", "exited"} /\ "ino" \notin DOMAIN h'
        /\ h'.at = "exited" => h'.code \in {0, 1}
        /\ h'.at = "open" => h' = [at |-> "open", src |-> h'.src]
    BY <1>e, <2>2
  <2> QED  BY <2>0, <2>1, <2>3, CmdTypedStill
<1>3. CASE Commands!runHeadless
  <2>0. /\ cfg'.path \in Commands!Names /\ cfg'.dest \in Commands!Names /\
           UNCHANGED <<folds, fs, content, next, tables>>
        /\ h.at = "open"
    BY <1>3 DEF Commands!runHeadless, CmdTyped
  <2>1. tables' \in [Counted -> {"absent", "empty", "partial", "whole"}]  BY <2>0 DEF CmdTyped
  <2>2. \/ \E k \in {0, 1} : h' = Commands!Exit(k)
        \/ \E q : h' = [at |-> "exited", code |-> 0, stats |-> q]
        \/ h' = [h EXCEPT !.at = "checked"]
    <3>1. CASE Commands!CheckIntegrity \/ Commands!runHeadlessRepair \/ Commands!Vacuum \/
               Commands!DumpSchema \/ Commands!ReadFails
      BY <3>1 DEF Commands!CheckIntegrity, Commands!runHeadlessRepair, Commands!Vacuum,
         Commands!DumpSchema, Commands!ReadFails, Commands!Ends
    <3>2. CASE Commands!printHeadlessStats  BY <3>2 DEF Commands!printHeadlessStats, Commands!Ends
    <3>3. CASE Commands!CheckDestination  BY <3>3 DEF Commands!CheckDestination, Commands!Ends
    <3> QED  BY <1>3, <3>1, <3>2, <3>3 DEF Commands!runHeadless
  <2>3. h = [at |-> "open", src |-> h.src]  BY <2>0 DEF CmdTyped
  <2>4. /\ h'.at \in {"checked", "exited"} /\ "ino" \notin DOMAIN h'
        /\ h'.at = "exited" => h'.code \in {0, 1}
    <3>1. CASE \E k \in {0, 1} : h' = Commands!Exit(k)  BY <1>e, <3>1
    <3>2. CASE \E q : h' = [at |-> "exited", code |-> 0, stats |-> q]  BY <3>2
    <3>3. CASE h' = [h EXCEPT !.at = "checked"]
      <4>1. h' = [at |-> "checked", src |-> h.src]  BY <2>3, <3>3
      <4> QED  BY <4>1
    <3> QED  BY <2>2, <3>1, <3>2, <3>3
  <2> QED  BY <2>0, <2>1, <2>4, CmdTypedStill
<1>4. CASE Commands!OpenDestination
  <2> DEFINE d == Commands!resolveExportDestination(cfg.dest)
             i == Commands!Stat(cfg.dest)
  <2>0. h.at = "checked" /\ UNCHANGED <<folds, tables, cfg>>  BY <1>4 DEF Commands!OpenDestination
  <2>1. cfg.dest \in Commands!Names /\ Commands!Key(d) \in Commands!Names
    BY <2>0, CmdResolves, CmdKeys DEF CmdTyped
  <2>2. CASE i # 0
    <3>1. content' = [content EXCEPT ![i] = "cut"] /\ h' = [at |-> "writing", ino |-> i] /\
          UNCHANGED <<fs, next>>
      BY <1>4, <2>2 DEF Commands!OpenDestination
    <3>2. i \in 1 .. MaxFiles /\ i < next  BY <2>1, <2>2, CmdResolves
    <3>3. h'.at = "writing" /\ h'.ino = i  BY <3>1
    <3> HIDE DEF i
    <3> QED  BY <2>0, <3>1, <3>2, <3>3 DEF CmdTyped
  <2>3. CASE i = 0
    <3>1. /\ next <= MaxFiles /\ fs' = [fs EXCEPT ![Commands!Key(d)] = Commands!File(next)]
          /\ content' = [content EXCEPT ![next] = "cut"] /\ h' = [at |-> "writing", ino |-> next]
          /\ next' = next + 1
      BY <1>4, <2>3 DEF Commands!OpenDestination
    <3>2. next \in 1 .. MaxFiles /\ Commands!File(next) \in CmdEntries  BY <3>1, CmdFiles DEF CmdTyped
    <3>3. h'.at = "writing" /\ h'.ino = next  BY <3>1
    <3> HIDE DEF d
    <3>4. fs' \in [Commands!Names -> CmdEntries]  BY <3>1, <3>2 DEF CmdTyped
    <3>5. \A n \in Commands!Names : fs'[n].kind = "file" => fs'[n].ino < next'
      <4>1. \A n \in Commands!Names :
              fs'[n] = IF n = Commands!Key(d) THEN Commands!File(next) ELSE fs[n]
        BY <3>1 DEF CmdTyped
      <4>2. \A n \in Commands!Names : fs[n].kind = "file" => fs[n].ino \in 1 .. MaxFiles
        BY CmdEntryKinds DEF CmdTyped
      <4> QED  BY <1>0, <3>1, <3>2, <4>1, <4>2, CmdFiles DEF CmdTyped
    <3>6. next' \in 4 .. MaxFiles + 1 /\ h'.ino < next'  BY <1>0, <3>1, <3>3 DEF CmdTyped
    <3>7. content' \in [1 .. MaxFiles -> {"db", "journal", "other", "cut", "report", "sealed"}]
      BY <3>1 DEF CmdTyped
    <3> QED  BY <2>0, <3>2, <3>3, <3>4, <3>5, <3>6, <3>7 DEF CmdTyped
  <2> QED  BY <2>2, <2>3
<1>5. CASE Commands!WriteReport
  <2>0. h.at = "writing" /\ UNCHANGED <<folds, fs, next, tables, cfg>>  BY <1>5 DEF Commands!WriteReport
  <2>1. h.ino \in 1 .. MaxFiles /\ h.ino < next  BY <2>0 DEF CmdTyped
  <2>2. Commands!Report(cfg) \in {"sealed", "report"}  BY DEF Commands!Report
  <2>3. CASE content' = [content EXCEPT ![h.ino] = Commands!Report(cfg)] /\
             h' = [at |-> "exited", code |-> 0, ino |-> h.ino]
    <3>1. h'.at = "exited" /\ h'.code = 0 /\ h'.ino = h.ino  BY <2>3
    <3>2. content' \in [1 .. MaxFiles -> {"db", "journal", "other", "cut", "report", "sealed"}]
      BY <2>2, <2>3 DEF CmdTyped
    <3> QED  BY <2>0, <2>1, <3>1, <3>2 DEF CmdTyped
  <2>4. CASE h' = Commands!Exit(1) /\ UNCHANGED content
    <3>1. h'.at = "exited" /\ h'.code = 1 /\ "ino" \notin DOMAIN h'  BY <1>e, <2>4
    <3> QED  BY <2>0, <2>4, <3>1 DEF CmdTyped
  <2> QED  BY <1>5, <2>3, <2>4 DEF Commands!WriteReport, Commands!Ends
<1>w. Commands!With(Commands!Project, "-wal") \in Commands!Names
  BY DEF Commands!HeadlessAssumption, Commands!With, Commands!Project, Commands!Name,
     Commands!Names, Commands!BaseNames
<1>6. CASE Commands!DesktopOpens
  <2> DEFINE w == Commands!With(Commands!Project, "-wal")
  <2>1. /\ next <= MaxFiles /\ fs' = [fs EXCEPT ![w] = Commands!File(next)]
        /\ content' = [content EXCEPT ![next] = "journal"] /\ next' = next + 1
        /\ UNCHANGED <<folds, tables, cfg, h>>
    BY <1>6 DEF Commands!DesktopOpens
  <2>2. next \in 1 .. MaxFiles /\ Commands!File(next) \in CmdEntries /\ w \in Commands!Names
    BY <1>w, <2>1, CmdFiles DEF CmdTyped
  <2> HIDE DEF w
  <2>3. fs' \in [Commands!Names -> CmdEntries]  BY <2>1, <2>2 DEF CmdTyped
  <2>4. \A n \in Commands!Names : fs'[n].kind = "file" => fs'[n].ino < next'
    <3>1. \A n \in Commands!Names : fs'[n] = IF n = w THEN Commands!File(next) ELSE fs[n]
      BY <2>1 DEF CmdTyped
    <3>2. \A n \in Commands!Names : fs[n].kind = "file" => fs[n].ino \in 1 .. MaxFiles
      BY CmdEntryKinds DEF CmdTyped
    <3> QED  BY <1>0, <2>1, <2>2, <3>1, <3>2, CmdFiles DEF CmdTyped
  <2>5. next' \in 4 .. MaxFiles + 1 /\ next <= next'  BY <1>0, <2>1 DEF CmdTyped
  <2>6. content' \in [1 .. MaxFiles -> {"db", "journal", "other", "cut", "report", "sealed"}]
    BY <2>1 DEF CmdTyped
  <2>7. h'.at = "writing" \/ "ino" \in DOMAIN h' => h'.ino \in 1 .. MaxFiles /\ h'.ino < next'
    BY <1>0, <2>1, <2>2 DEF CmdTyped
  <2> QED  BY <2>1, <2>3, <2>4, <2>5, <2>6, <2>7 DEF CmdTyped
<1>7. CASE Commands!DesktopCloses
  <2> DEFINE w == Commands!With(Commands!Project, "-wal")
  <2>1. fs' = [fs EXCEPT ![w] = Commands!Nothing] /\ UNCHANGED <<folds, content, next, tables, cfg, h>>
    BY <1>7 DEF Commands!DesktopCloses
  <2> HIDE DEF w
  <2>2. fs' \in [Commands!Names -> CmdEntries]  BY <2>1, CmdFiles DEF CmdTyped
  <2>3. \A n \in Commands!Names : fs'[n].kind = "file" => fs'[n].ino < next
    <3>1. \A n \in Commands!Names : fs'[n] = IF n = w THEN Commands!Nothing ELSE fs[n]
      BY <2>1 DEF CmdTyped
    <3> QED  BY <3>1, CmdFiles DEF CmdTyped
  <2> QED  BY <2>1, <2>2, <2>3 DEF CmdTyped
<1> QED  BY <1>1, <1>2, <1>3, <1>4, <1>5, <1>6, <1>7 DEF Commands!Next

\* A command that is about to write has been chosen to and could prepare what it writes;
\* counts are printed at the end only.
CmdInv ==
  /\ CmdTyped
  /\ h.at \in {"checked", "writing"} =>
       Commands!Chosen \in {"export-audit", "export"} /\ Commands!Prepared(cfg)
  /\ "stats" \in DOMAIN h => h.at = "exited"
  /\ Commands!SuccessIsTrue /\ Commands!StatsExact

LEMMA CmdInit == ASSUME Commands!HeadlessAssumption, Commands!Init PROVE CmdInv
<1>1. CmdTyped  BY CmdTypedInit
<1>2. h = [at |-> "idle"]  BY DEF Commands!Init, Commands!Idle
<1>3. h.at = "idle" /\ "stats" \notin DOMAIN h  BY <1>2
<1> QED  BY <1>1, <1>3 DEF CmdInv, Commands!SuccessIsTrue, Commands!StatsExact

\* The flags decide which command runs.
LEMMA CmdChosen ==
  ASSUME cfg' = cfg
  PROVE  Commands!Chosen' = Commands!Chosen /\ (Commands!Prepared(cfg)' <=> Commands!Prepared(cfg))
<1>1. Commands!Chosen' = Commands!Chosen  BY DEF Commands!Chosen
<1> QED  BY <1>1 DEF Commands!Prepared, Commands!headlessExportPassword

\* A command that has not ended with success and counted nothing claims nothing.
LEMMA CmdSilent ==
  ASSUME CmdTyped', "stats" \notin DOMAIN h', ~(h'.at = "exited" /\ h'.code = 0),
         h'.at \in {"checked", "writing"} =>
           (Commands!Chosen \in {"export-audit", "export"} /\ Commands!Prepared(cfg))'
  PROVE  CmdInv'
BY DEF CmdInv, Commands!SuccessIsTrue, Commands!StatsExact

LEMMA CmdNext == ASSUME Commands!HeadlessAssumption, CmdInv, Commands!Next PROVE CmdInv'
<1>0. CmdTyped /\ CmdTyped'  BY CmdTypedNext DEF CmdInv
<1>e. \A k : /\ Commands!Exit(k).at = "exited" /\ Commands!Exit(k).code = k
             /\ "ino" \notin DOMAIN Commands!Exit(k) /\ "stats" \notin DOMAIN Commands!Exit(k)
  BY DEF Commands!Exit
<1>1. CASE Commands!Start
  <2>1. h' = [at |-> "opening"]  BY <1>1 DEF Commands!Start
  <2>2. h'.at = "opening" /\ "stats" \notin DOMAIN h'  BY <2>1
  <2> QED  BY <1>0, <2>2, CmdSilent
<1>2. CASE Commands!openHeadlessDB
  <2>1. h' = Commands!Exit(1) \/
        h' = [at |-> "open", src |-> Commands!resolveExportDestination(cfg.path)]
    BY <1>2 DEF Commands!openHeadlessDB
  <2>2. "stats" \notin DOMAIN h' /\ (h'.at = "open" \/ (h'.at = "exited" /\ h'.code = 1))
    BY <1>e, <2>1
  <2> QED  BY <1>0, <2>2, CmdSilent
<1>3. CASE Commands!runHeadless
  <2>0. h.at = "open" /\ UNCHANGED <<tables, damaged, cfg>>  BY <1>3 DEF Commands!runHeadless
  <2>1. Commands!Chosen' = Commands!Chosen /\ (Commands!Prepared(cfg)' <=> Commands!Prepared(cfg))
    BY <2>0, CmdChosen
  <2>2. ASSUME h' = Commands!Exit(1) PROVE CmdInv'
    <3>1. "stats" \notin DOMAIN h' /\ h'.at = "exited" /\ h'.code = 1  BY <1>e, <2>2
    <3> QED  BY <1>0, <3>1, CmdSilent
  <2>3. ASSUME h' = Commands!Exit(0), Commands!Chosen \in {"check", "repair"} => ~damaged PROVE CmdInv'
    <3>1. h'.at = "exited" /\ "stats" \notin DOMAIN h' /\ "ino" \notin DOMAIN h'  BY <1>e, <2>3
    <3>2. Commands!Chosen' \in {"check", "repair"} => ~damaged'  BY <2>0, <2>1, <2>3
    <3>3. Commands!SuccessIsTrue'  BY <3>1, <3>2 DEF Commands!SuccessIsTrue
    <3> QED  BY <1>0, <3>1, <3>3 DEF CmdInv, Commands!StatsExact
  <2>4. CASE Commands!CheckIntegrity \/ Commands!runHeadlessRepair
    <3>1. CASE damaged
      <4>1. h' = Commands!Exit(1)
        BY <2>4, <3>1 DEF Commands!CheckIntegrity, Commands!runHeadlessRepair, Commands!Ends
      <4> QED  BY <2>2, <4>1
    <3>2. CASE ~damaged
      <4>1. h' = Commands!Exit(0)
        BY <2>4, <3>2 DEF Commands!CheckIntegrity, Commands!runHeadlessRepair, Commands!Ends
      <4> QED  BY <2>3, <3>2, <4>1
    <3> QED  BY <3>1, <3>2
  <2>5. CASE Commands!Vacuum \/ Commands!DumpSchema
    <3>1. Commands!Chosen \notin {"check", "repair"} /\ (h' = Commands!Exit(0) \/ h' = Commands!Exit(1))
      BY <2>5 DEF Commands!Vacuum, Commands!DumpSchema, Commands!Ends
    <3> QED  BY <2>2, <2>3, <3>1
  <2>6. CASE Commands!printHeadlessStats
    <3>1. CASE \A t \in Counted : Commands!CountProjectRecords(t).ok
      <4>1. h' = [at |-> "exited", code |-> 0,
                  stats |-> [t \in Counted |-> Commands!CountProjectRecords(t).n]]
        BY <2>6, <3>1 DEF Commands!printHeadlessStats
      <4>2. /\ h'.at = "exited" /\ "ino" \notin DOMAIN h'
            /\ h'.stats = [t \in Counted |-> Commands!CountProjectRecords(t).n]
        BY <4>1
      <4>3. Commands!SuccessIsTrue'
        <5>1. Commands!Chosen' \notin {"check", "repair"}  BY <2>1, <2>6 DEF Commands!printHeadlessStats
        <5> QED  BY <4>2, <5>1 DEF Commands!SuccessIsTrue
      <4>4. \A t \in Counted : /\ tables[t] # "partial"
                               /\ h'.stats[t] = IF tables[t] = "whole" THEN 1 ELSE 0
        BY <3>1, <4>2 DEF Commands!CountProjectRecords
      <4>5. Commands!StatsExact'  BY <2>0, <4>4 DEF Commands!StatsExact
      <4> QED  BY <1>0, <4>2, <4>3, <4>5 DEF CmdInv
    <3>2. CASE ~(\A t \in Counted : Commands!CountProjectRecords(t).ok)
      <4>1. h' = Commands!Exit(1)  BY <2>6, <3>2 DEF Commands!printHeadlessStats, Commands!Ends
      <4> QED  BY <2>2, <4>1
    <3> QED  BY <3>1, <3>2
  <2>7. CASE Commands!CheckDestination
    <3>1. CASE h' = [h EXCEPT !.at = "checked"] /\ Commands!Prepared(cfg)
      <4>1. h = [at |-> "open", src |-> h.src]  BY <1>0, <2>0 DEF CmdTyped
      <4>2. h' = [at |-> "checked", src |-> h.src]  BY <3>1, <4>1
      <4>3. h'.at = "checked" /\ "stats" \notin DOMAIN h'  BY <4>2
      <4>4. Commands!Chosen \in {"export-audit", "export"}  BY <2>7 DEF Commands!CheckDestination
      <4> QED  BY <1>0, <2>1, <3>1, <4>3, <4>4, CmdSilent
    <3>2. CASE h' = Commands!Exit(1)  BY <2>2, <3>2
    <3> QED  BY <2>7, <3>1, <3>2 DEF Commands!CheckDestination, Commands!Ends
  <2>8. CASE Commands!ReadFails  BY <2>2, <2>8 DEF Commands!ReadFails, Commands!Ends
  <2> QED  BY <1>3, <2>4, <2>5, <2>6, <2>7, <2>8 DEF Commands!runHeadless
<1>4. CASE Commands!OpenDestination
  <2>1. h.at = "checked" /\ cfg' = cfg /\ \E k : h' = [at |-> "writing", ino |-> k]
    BY <1>4 DEF Commands!OpenDestination
  <2>2. h'.at = "writing" /\ "stats" \notin DOMAIN h'  BY <2>1
  <2>3. (Commands!Chosen \in {"export-audit", "export"} /\ Commands!Prepared(cfg))'
    BY <2>1, CmdChosen DEF CmdInv
  <2> QED  BY <1>0, <2>2, <2>3, CmdSilent
<1>5. CASE Commands!WriteReport
  <2>0. h.at = "writing" /\ cfg' = cfg  BY <1>5 DEF Commands!WriteReport
  <2>1. CASE content' = [content EXCEPT ![h.ino] = Commands!Report(cfg)]
             /\ h' = [at |-> "exited", code |-> 0, ino |-> h.ino]
    <3>1. h'.at = "exited" /\ h'.ino = h.ino /\ "stats" \notin DOMAIN h'  BY <2>1
    <3>2. content'[h.ino] = Commands!Report(cfg)  BY <1>0, <2>0, <2>1 DEF CmdTyped
    <3>3. Commands!Chosen \in {"export-audit", "export"} /\ Commands!Prepared(cfg)
      BY <2>0 DEF CmdInv
    <3>4. Commands!Report(cfg) = IF Commands!Chosen = "export" /\ cfg.seal THEN "sealed" ELSE "report"
      BY <3>3 DEF Commands!Report, Commands!Prepared, Commands!headlessExportPassword
    <3>5. Commands!Chosen' = Commands!Chosen  BY <2>0, CmdChosen
    <3>6. Commands!SuccessIsTrue'
      BY <2>0, <3>1, <3>2, <3>3, <3>4, <3>5 DEF Commands!SuccessIsTrue
    <3> QED  BY <1>0, <3>1, <3>6 DEF CmdInv, Commands!StatsExact
  <2>2. CASE h' = Commands!Exit(1)
    <3>1. "stats" \notin DOMAIN h' /\ h'.at = "exited" /\ h'.code = 1  BY <1>e, <2>2
    <3> QED  BY <1>0, <3>1, CmdSilent
  <2> QED  BY <1>5, <2>1, <2>2 DEF Commands!WriteReport, Commands!Ends
<1>6. CASE Commands!DesktopOpens \/ Commands!DesktopCloses
  <2>1. UNCHANGED <<tables, damaged, cfg, h>>
    BY <1>6 DEF Commands!DesktopOpens, Commands!DesktopCloses
  <2>2. Commands!Chosen' = Commands!Chosen /\ (Commands!Prepared(cfg)' <=> Commands!Prepared(cfg))
    BY <2>1, CmdChosen
  <2>3. "ino" \in DOMAIN h => content'[h.ino] = content[h.ino]
    <3> SUFFICES ASSUME "ino" \in DOMAIN h PROVE content'[h.ino] = content[h.ino]  OBVIOUS
    <3>1. h.ino \in 1 .. MaxFiles /\ h.ino # next  BY <1>0 DEF CmdTyped
    <3>2. content' = content \/ content' = [content EXCEPT ![next] = "journal"]
      BY <1>6 DEF Commands!DesktopOpens, Commands!DesktopCloses
    <3> QED  BY <1>0, <3>1, <3>2 DEF CmdTyped
  <2>4. Commands!SuccessIsTrue'  BY <2>1, <2>2, <2>3 DEF CmdInv, Commands!SuccessIsTrue
  <2>5. Commands!StatsExact'  BY <2>1 DEF CmdInv, Commands!StatsExact
  <2>6. (h.at \in {"checked", "writing"} =>
           Commands!Chosen \in {"export-audit", "export"} /\ Commands!Prepared(cfg))'
    BY <2>1, <2>2 DEF CmdInv
  <2> QED  BY <1>0, <2>1, <2>4, <2>5, <2>6 DEF CmdInv
<1> QED  BY <1>1, <1>2, <1>3, <1>4, <1>5, <1>6 DEF Commands!Next

LEMMA CmdStutter == ASSUME CmdInv, UNCHANGED commandVars PROVE CmdInv'
<1>1. UNCHANGED <<folds, fs, content, next, tables, damaged, cfg, h, was>>  BY DEF commandVars
<1>2. CmdTyped'  BY <1>1 DEF CmdInv, CmdTyped
<1>3. Commands!Chosen' = Commands!Chosen /\ (Commands!Prepared(cfg)' <=> Commands!Prepared(cfg))
  BY <1>1, CmdChosen
<1>4. Commands!SuccessIsTrue'  BY <1>1, <1>3 DEF CmdInv, Commands!SuccessIsTrue
<1>5. Commands!StatsExact'  BY <1>1 DEF CmdInv, Commands!StatsExact
<1> QED  BY <1>1, <1>2, <1>3, <1>4, <1>5 DEF CmdInv

\* However the names, links and hard links lie and whatever the desktop does meanwhile, an
\* export leaves the project and its journals alone, and a command that reports success did
\* what was asked and counted what is there (CheckExportDestination, runHeadless).
THEOREM CommandsAreHonest == Spec => []CommandsHonest
<1> DEFINE I == /\ part = "export command" => DestInv
                /\ part = "commands" => CmdInv
<1>1. Init => I
  <2> SUFFICES ASSUME Init PROVE I  OBVIOUS
  <2>1. ASSUME part = "export command" PROVE DestInv
    <3>1. Dest!Init  BY <2>1 DEF Init
    <3> QED  BY <3>1, DestInit, PartsAssumption
  <2>2. ASSUME part = "commands" PROVE CmdInv
    <3>1. Commands!Init  BY <2>2 DEF Init
    <3> QED  BY <3>1, CmdInit, PartsAssumption
  <2> QED  BY <2>1, <2>2
<1>2. I /\ [Next]_vars => I'
  <2> SUFFICES ASSUME I, [Next]_vars PROVE I'  OBVIOUS
  <2>1. ASSUME part' = "export command" PROVE DestInv'
    <3>1. part = "export command" /\ (Dest!Next \/ UNCHANGED commandVars)
      BY <2>1 DEF Next, vars
    <3> QED  BY <3>1, DestNext, DestStutter, PartsAssumption
  <2>2. ASSUME part' = "commands" PROVE CmdInv'
    <3>1. part = "commands" /\ (Commands!Next \/ UNCHANGED commandVars)  BY <2>2 DEF Next, vars
    <3> QED  BY <3>1, CmdNext, CmdStutter, PartsAssumption
  <2> QED  BY <2>1, <2>2
<1>3. I => CommandsHonest
  <2>1. DestInv => Dest!TypeOK /\ Dest!StorageUntouched
    BY DestHolds, PartsAssumption
  <2>2. CmdInv => Commands!SuccessIsTrue /\ Commands!StatsExact  BY DEF CmdInv
  <2> QED  BY <2>1, <2>2 DEF CommandsHonest
<1> QED  BY <1>1, <1>2, <1>3, PTL DEF Spec

-----------------------------------------------------------------------------
(* Proofs: what a step may never do to a file *)

\* RepairAndSwap, WriteNewPrivateStream and the migrations of InitDB: a repair puts only a
\* copy that passed the check in the project's place, an export replaces no file, and an
\* upgrade neither empties a table nor rewrites the audit trail.
THEOREM NothingIsOverwritten == Spec => NothingOverwritten
<1> DEFINE I == /\ part = "repair" => RepairInv
                /\ part = "exports" => ExportInv
                /\ part = "schema" => SchemaInv
           A == /\ part = "repair" => Repair!OnlyCheckedSwappedIn
                /\ part = "exports" => Exports!NothingReplaced
                /\ part = "schema" => Schema!RowsKept /\ Schema!AuditTextKept
<1>1. Init => I
  BY RepairInit, ExportInit, SchemaInit, PartsAssumption DEF Init
<1>2. I /\ [Next]_vars => I' /\ [A]_vars
  <2> SUFFICES ASSUME I, [Next]_vars PROVE I' /\ [A]_vars
    OBVIOUS
  <2>1. part' = part  BY DEF Next, vars
  <2>2. ASSUME part = "repair" PROVE RepairInv' /\ [Repair!OnlyCheckedSwappedIn]_vars
    <3>1. [Repair!Next]_repairVars /\ RepairInv  BY <2>2 DEF Next, vars
    <3>2. RepairInv'  BY <3>1, RepairNext, PartsAssumption
    <3>3. ASSUME Repair!Next, repair = "publish", repair' = "reopen" PROVE live'.ok
      <4>1. Repair!Publish
        BY <3>3 DEF Repair!Next, Repair!RepairStep, Repair!OpenProject, Repair!CloseProject,
           Repair!Edit, Repair!Damage, Repair!CheckBegin, Repair!CheckRun, Repair!CheckStore,
           Repair!DismissOpenProjectCheck, Repair!RepairHealthy, Repair!RepairBegin,
           Repair!WriteSnapshot, Repair!SwapCheck, Repair!CloseLive, Repair!MoveLive,
           Repair!Reopen, Repair!Recover, Repair!HeadlessRepair, Repair!Crash, Repair!Unlocked
      <4>2. bak.ok /\ live' = bak
        BY <3>1, <3>3, <4>1 DEF Repair!Publish, RepairInv, RepairUnderWay
      <4> QED  BY <4>2
    <3>4. CASE UNCHANGED vars  BY <3>2, <3>4
    <3>5. CASE ~UNCHANGED vars
      <4>1. Repair!Next  BY <2>2, <3>5 DEF Next
      <4> QED  BY <3>2, <3>3, <4>1 DEF Repair!OnlyCheckedSwappedIn
    <3> QED  BY <3>4, <3>5
  <2>3. ASSUME part = "exports" PROVE ExportInv' /\ Exports!NothingReplaced
    <3>1. [Exports!Next]_exportVars /\ ExportInv  BY <2>3 DEF Next, vars
    <3> QED  BY <3>1, ExportNext, PartsAssumption
  <2>4. ASSUME part = "schema" PROVE SchemaInv' /\ Schema!RowsKept /\ Schema!AuditTextKept
    <3>1. [Schema!Next]_schemaVars /\ SchemaInv  BY <2>4 DEF Next, vars
    <3> QED  BY <3>1, SchemaNext, PartsAssumption
  <2> QED  BY <2>1, <2>2, <2>3, <2>4
<1> QED  BY <1>1, <1>2, PTL DEF Spec, NothingOverwritten

=============================================================================

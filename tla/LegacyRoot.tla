----------------------------- MODULE LegacyRoot -----------------------------
(***************************************************************************)
(* Process start: the data of an older installation is copied file by file *)
(* into the new data root, then the system database there is opened or     *)
(* created.  The process may end anywhere in between, a source file may    *)
(* turn out unreadable, and a second process may start meanwhile.          *)
(*                                                                         *)
(* A root holds the system database, its write-ahead log and one folder    *)
(* for each account; WalkDir visits them in the order of their names.      *)
(***************************************************************************)
EXTENDS Naturals, Sequences, FiniteSets, SequencesExt

CONSTANTS Procs,        \* processes of the program
          Roots,        \* the legacy roots, preferred first
          Flaws,        \* how a source file may fail: "opening", "reading"
          MaxEnds       \* bound: processes that end

RootsAssumption ==
  Roots \in Seq(STRING) /\ "none" \notin Range(Roots) /\ MaxEnds \in Nat

VARIABLES legacy,     \* root -> file -> "absent", "sound", "opening" or "reading" (fails there)
          root,       \* file of the new root -> [state, from]
          accounts,   \* the accounts of the new root's system database
          created,    \* accounts created in the new root and acknowledged
          pc,         \* process -> where it is
          reported,   \* the legacy root a process reported as migrated, or "none"
          blocked,    \* the program could not start
          ends

vars == <<legacy, root, accounts, created, pc, reported, blocked, ends>>

\* In the order of the walk: a folder may sort before or after the database.
Walk == <<"alice", "system.db", "system.db-wal", "zoe">>
Files == Range(Walk)
Absent == [state |-> "absent", from |-> "none"]
Off == [at |-> "off"]

HasInstall(r) == legacy[r]["system.db"] # "absent"

\* Accounts a legacy root holds in the database, and those only in its log.
InDb == {"alice"}
InLog(r) == IF legacy[r]["system.db-wal"] = "absent" THEN {} ELSE {"zoe"}
AccountsOf(r) == InDb \cup InLog(r)

\* The places of the legacy roots that hold an install; the first one is taken.
legacyRootCandidates == {i \in DOMAIN Roots : HasInstall(Roots[i])}
Preferred ==
  Roots[CHOOSE i \in legacyRootCandidates : \A j \in legacyRootCandidates : i <= j]

Init ==
  /\ legacy \in [Range(Roots) ->
                   {l \in [Files -> {"absent", "sound"} \cup Flaws] :
                      /\ l["alice"] # "absent" /\ l["system.db-wal"] \in {"absent", "sound"}
                      /\ l["zoe"] = "absent" <=> l["system.db-wal"] = "absent"
                      /\ Cardinality({f \in Files : l[f] \in Flaws}) <= 1}]
  /\ root = [f \in Files |-> Absent]
  /\ accounts = {} /\ created = {}
  /\ pc = [p \in Procs |-> Off]
  /\ reported = "none"
  /\ blocked = FALSE
  /\ ends = 0

Start(p) ==
  /\ pc[p] = Off
  /\ pc' = [pc EXCEPT ![p] = [at |-> "starting"]]
  /\ UNCHANGED <<legacy, root, accounts, created, reported, blocked, ends>>

Initialised == root["system.db"].state # "absent"

\* A root that has a system database is left alone; otherwise the first install is copied.
MigrateLegacyRoot(p) ==
  /\ pc[p].at = "starting"
  /\ pc' = [pc EXCEPT ![p] =
              IF Initialised \/ legacyRootCandidates = {} THEN [at |-> "opening"]
              ELSE [at |-> "copying", from |-> Preferred, i |-> 1, half |-> FALSE]]
  /\ UNCHANGED <<legacy, root, accounts, created, reported, blocked, ends>>

Copied(f, r) == [state |-> "copied", from |-> r]

Source(c) == legacy[c.from][Walk[c.i]]

\* A file that cannot be opened, or read to its end, ends the migration with an error.
AfterError(c) == [at |-> "opening"]

\* copyTree takes the next entry; copyFile truncates the target before it copies.
OpenTarget(p) ==
  /\ pc[p].at = "copying" /\ pc[p].i <= Len(Walk) /\ ~pc[p].half
  /\ LET c == pc[p] IN
     \/ /\ Source(c) = "absent"
        /\ pc' = [pc EXCEPT ![p].i = @ + 1]
        /\ UNCHANGED <<root, accounts>>
     \/ /\ Source(c) = "opening"
        /\ pc' = [pc EXCEPT ![p] = AfterError(c)]
        /\ UNCHANGED <<root, accounts>>
     \/ /\ Source(c) \in {"sound", "reading"}
        /\ \E s \in {"empty", "cut"} :
             root' = [root EXCEPT ![Walk[c.i]] = [state |-> s, from |-> c.from]]
        /\ accounts' = IF Walk[c.i] = "system.db" THEN {} ELSE accounts
        /\ pc' = [pc EXCEPT ![p].half = TRUE]
  /\ UNCHANGED <<legacy, created, reported, blocked, ends>>

CopyRest(p) ==
  /\ pc[p].at = "copying" /\ pc[p].half
  /\ LET c == pc[p]
         f == Walk[c.i]
     IN  IF Source(c) = "reading"
         THEN /\ pc' = [pc EXCEPT ![p] = AfterError(c)]
              /\ UNCHANGED <<root, accounts>>
         ELSE /\ root' = [root EXCEPT ![f] = Copied(f, c.from)]
              /\ accounts' = CASE f = "system.db" -> InDb
                               [] f = "system.db-wal" -> accounts \cup InLog(c.from)
                               [] OTHER -> accounts
              /\ pc' = [pc EXCEPT ![p] = [c EXCEPT !.i = @ + 1, !.half = FALSE]]
  /\ UNCHANGED <<legacy, created, reported, blocked, ends>>

Complete(c) == c.i > Len(Walk)

Reported(p) ==
  /\ pc[p].at = "copying"
  /\ Complete(pc[p])
  /\ reported' = pc[p].from
  /\ pc' = [pc EXCEPT ![p] = [at |-> "opening"]]
  /\ UNCHANGED <<legacy, root, accounts, created, blocked, ends>>

\* The system database is opened, created when it is absent or empty, and fails when it is cut.
Open(p) ==
  /\ pc[p].at = "opening"
  /\ IF root["system.db"].state = "cut"
     THEN blocked' = TRUE /\ pc' = [pc EXCEPT ![p] = Off] /\ UNCHANGED root
     ELSE /\ pc' = [pc EXCEPT ![p] = [at |-> "running"]]
          /\ root' = IF root["system.db"].state = "copied" THEN root
                     ELSE [root EXCEPT !["system.db"] = [state |-> "fresh", from |-> "none"]]
          /\ UNCHANGED blocked
  /\ UNCHANGED <<legacy, accounts, created, reported, ends>>

CreateAccount(p) ==
  /\ pc[p].at = "running"
  /\ "carol" \notin accounts
  /\ accounts' = accounts \cup {"carol"}
  /\ created' = created \cup {"carol"}
  /\ UNCHANGED <<legacy, root, pc, reported, blocked, ends>>

\* The process quits, or ends at any point.
End(p) ==
  /\ pc[p] # Off
  /\ ends < MaxEnds
  /\ pc' = [pc EXCEPT ![p] = Off]
  /\ ends' = ends + 1
  /\ UNCHANGED <<legacy, root, accounts, created, reported, blocked>>

Next == \E p \in Procs : \/ Start(p) \/ MigrateLegacyRoot(p) \/ OpenTarget(p) \/ CopyRest(p)
                         \/ Reported(p) \/ Open(p) \/ CreateAccount(p) \/ End(p)

Spec == Init /\ [][Next]_vars

-----------------------------------------------------------------------------
\* Files, accounts and processes are what the steps make them.
TypeOK ==
  /\ \A f \in Files : /\ root[f].state \in {"absent", "empty", "cut", "copied", "fresh"}
                      /\ root[f].from \in Range(Roots) \cup {"none"}
  /\ accounts \subseteq {"alice", "zoe", "carol"} /\ created \subseteq accounts \cup {"carol"}
  /\ \A p \in Procs : pc[p].at \in {"off", "starting", "copying", "opening", "running"}
  /\ reported \in Range(Roots) \cup {"none"} /\ ends \in 0 .. MaxEnds

\* A migration that is reported is whole: every file of the legacy root and every account,
\* however often the process ended in the middle of earlier attempts (MigrateLegacyRoot).
ReportedMeansWhole ==
  reported # "none" =>
    /\ \A f \in Files : legacy[reported][f] # "absent" =>
          root[f] = [state |-> "copied", from |-> reported]
    /\ AccountsOf(reported) \subseteq accounts

\* The files of two legacy installs are never mixed in the new root, although an attempt
\* at the first may have failed half-way (legacyRootCandidates).
NoMix ==
  \A f, g \in Files : "none" \in {root[f].from, root[g].from} \/ root[f].from = root[g].from

\* An account created in the new root is never overwritten by a later start that still
\* finds a legacy install ("no-op once newRoot already has a system.db").
NewDataKept == created \subseteq accounts

\* NewApp's comment: an existing user's accounts and projects survive the move.  Stated for
\* installs all of whose files are sound.
SurvivesMove ==
  \A p \in Procs :
    /\ pc[p].at = "running" /\ legacyRootCandidates # {}
    /\ \A f \in Files : legacy[Preferred][f] \in {"absent", "sound"}
    =>
        /\ AccountsOf(Preferred) \subseteq accounts
        /\ \A f \in Files : legacy[Preferred][f] = "absent" \/ root[f].state = "copied"

\* NewApp's comment: a failed migration falls through to a clean install rather than
\* blocking startup.
NeverBlocked == ~blocked
=============================================================================

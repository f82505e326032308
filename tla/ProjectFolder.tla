---------------------------- MODULE ProjectFolder ----------------------------
(***************************************************************************)
(* The projects folder of an account (app_projects.go): how projects are   *)
(* listed, how a path that comes back from the frontend is confined to the *)
(* folder and matched with a file, how new folders are reserved, and the   *)
(* copy of a project.                                                      *)
(*                                                                         *)
(* Names cross to the frontend as JSON: a name that is not valid UTF-8     *)
(* arrives as another one (wireString).  A project is a file with an       *)
(* identity; its committed state lies in its main file and, while a        *)
(* checkpoint is due, in its write-ahead log.  A folder name is used once. *)
(***************************************************************************)
EXTENDS Integers, Sequences, FiniteSets, Functions

CONSTANTS
    Trees,      \* folders to begin with: sets of files
    Mangled,    \* names that are not valid UTF-8
    Replaced,   \* what the frontend receives for any of them; a valid name too
    Calls,      \* calls that make a new project
    None,
    Leaf,       \* the name of the project file in a new folder
    MaxSaves,   \* bound: commits
    NewNames    \* bound: the folder names of one second, in the order they are tried

\* A project file: its path below the folder, whether a link is on the way, the
\* project's identity, what its main file and its log hold.
File == [path : Seq(STRING), link : BOOLEAN, id : STRING, main : Nat, wal : Nat \cup {-1}]

\* None is neither a name nor an identity; the names of this second are new.
FolderAssumption ==
    /\ MaxSaves \in Nat /\ Calls \subseteq STRING /\ None \in STRING \ Calls /\ Leaf \in STRING \ {None}
    /\ Replaced \in STRING \ (Mangled \cup {None})
    /\ NewNames \in Seq(STRING) /\ Len(NewNames) > 0
    /\ Range(NewNames) \cap (Mangled \cup {Replaced, None}) = {}
    /\ \A t \in Trees :
         /\ t \subseteq File
         /\ \A f \in t : /\ f.path # <<>> /\ f.path[1] \notin Range(NewNames)
                         /\ None \notin Range(f.path) /\ f.id \notin Calls \cup {None}
         /\ \A f, g \in t : f.path = g.path \/ f.id = g.id => f = g

VARIABLES
    files,     \* project files: path, whether a link is on the way, identity, state
    reserved,  \* names of folders that exist without a project yet
    shown,     \* what the frontend holds: paths as listed and the project meant
    open,      \* the open project's identity
    touched,   \* the last call with a path: the project meant and the one found
    call,      \* calls that make a project
    saves

vars == <<files, reserved, shown, open, touched, call, saves>>

Wire(n) == IF n \in Mangled THEN Replaced ELSE n
WirePath(p) == [i \in DOMAIN p |-> Wire(p[i])]
Ids == {f.id : f \in files}
FileOf(id) == CHOOSE f \in files : f.id = id
NoLog == -1
Committed(f) == IF f.wal = NoLog THEN f.main ELSE f.wal
NoCall == [step |-> "idle", try |-> 1, name |-> None, src |-> None, basis |-> 0]

Init ==
    /\ files \in Trees
    /\ reserved = {} /\ shown = {} /\ open = None /\ saves = 0
    /\ touched = [meant |-> None, found |-> None]
    /\ call = [c \in Calls |-> NoCall]

-----------------------------------------------------------------------------
(* Listing and paths                                                        *)

MaxDepth == 3   \* maxProjectDiscoveryDepth

\* enumerateProjects: links are neither followed nor listed.
Listed == {f \in files : ~f.link /\ Len(f.path) <= MaxDepth}

ListProjects ==
    /\ shown' = {[path |-> WirePath(f.path), id |-> f.id] : f \in Listed}
    /\ UNCHANGED <<files, reserved, open, touched, call, saves>>

\* matchWireProjectName: real entries of one folder whose name reads as asked.
Matches(prefix, part) ==
    {f.path[Len(prefix) + 1] :
        f \in {g \in files : /\ Len(g.path) > Len(prefix) /\ ~g.link
                             /\ \A i \in DOMAIN prefix : g.path[i] = prefix[i]
                             /\ Wire(g.path[Len(prefix) + 1]) = part}}

MatchFirst(prefix, part) ==
    IF part # Replaced THEN part
    ELSE IF Matches(prefix, part) = {} THEN None
    ELSE CHOOSE n \in Matches(prefix, part) : TRUE

\* A part without the replacement character stands for itself; one with it is
\* matched with the entries there, and two that match are refused.
Match(prefix, part) ==
    IF part # Replaced THEN part
    ELSE IF \E n \in Matches(prefix, part) : Matches(prefix, part) = {n}
    THEN CHOOSE n \in Matches(prefix, part) : TRUE
    ELSE None

\* confineProjectPath: at most one folder deep, resolved part by part, and
\* the file must exist with no link on the way.
Confine(p) ==
    LET first == Match(<<>>, p[1])
        path == IF Len(p) = 1 THEN <<first>> ELSE <<first, Match(<<first>>, p[2])>>
        there == {f \in files : f.path = path /\ ~f.link}
    IN  IF Len(p) > 2 \/ there = {} THEN None ELSE (CHOOSE f \in there : TRUE).id

-----------------------------------------------------------------------------
(* Calls with a path                                                        *)

Touch(s) == touched' = [meant |-> s.id, found |-> Confine(s.path)]

\* OpenProject: the log of an unclean end is merged when it opens or closes.
Open(s) ==
    /\ open = None
    /\ Touch(s)
    /\ open' = Confine(s.path)
    /\ UNCHANGED <<files, reserved, shown, call, saves>>

Save ==
    /\ open # None /\ saves < MaxSaves
    /\ saves' = saves + 1
    /\ files' = {IF f.id = open THEN [f EXCEPT !.wal = saves'] ELSE f : f \in files}
    /\ UNCHANGED <<reserved, shown, open, touched, call>>

Merged(f) == [f EXCEPT !.main = Committed(f), !.wal = NoLog]

\* The last connection closes: what is in the log goes to the main file.
Close ==
    /\ open # None
    /\ files' = {IF f.id = open THEN Merged(f) ELSE f : f \in files}
    /\ open' = None
    /\ UNCHANGED <<reserved, shown, touched, call, saves>>

\* The process ends with the project open: its log stays.
Crash ==
    /\ open # None
    /\ open' = None /\ shown' = {}
    /\ call' = [c \in Calls |-> IF call[c].step = "done" THEN call[c] ELSE [NoCall EXCEPT !.step = "gone"]]
    /\ UNCHANGED <<files, reserved, touched, saves>>

\* DeleteProject: the open project is closed first.
Delete(s) ==
    /\ Touch(s)
    /\ files' = {f \in files : f.id # Confine(s.path)}
    /\ open' = IF open = Confine(s.path) THEN None ELSE open
    /\ UNCHANGED <<reserved, shown, call, saves>>

-----------------------------------------------------------------------------
(* New folders                                                              *)

\* A call asks for a folder of this second's name; CloneProject has looked up
\* its source before.
AskCreate(c) ==
    /\ call[c].step = "idle"
    /\ call' = [call EXCEPT ![c].step = "reserve"]
    /\ UNCHANGED <<files, reserved, shown, open, touched, saves>>

AskClone(c, s) ==
    /\ call[c].step = "idle"
    /\ Touch(s)
    /\ Confine(s.path) # None
    /\ call' = [call EXCEPT ![c].step = "reserve", ![c].src = Confine(s.path)]
    /\ UNCHANGED <<files, reserved, shown, open, saves>>

FolderName(try) == NewNames[try]
Taken == reserved \cup {Head(f.path) : f \in files}

\* mkdir fails on a name that is taken, and the next suffix is tried.
Reserve(c) ==
    /\ call[c].step = "reserve" /\ call[c].try <= Len(NewNames)
    /\ IF FolderName(call[c].try) \in Taken
       THEN call' = [call EXCEPT ![c].try = @ + 1] /\ UNCHANGED reserved
       ELSE /\ reserved' = reserved \cup {FolderName(call[c].try)}
            /\ call' = [call EXCEPT ![c].step = "reserved", ![c].name = FolderName(call[c].try)]
    /\ UNCHANGED <<files, shown, open, touched, saves>>

NewFile(c, main, wal) ==
    [path |-> <<call[c].name, Leaf>>, link |-> FALSE, id |-> c, main |-> main, wal |-> wal]

\* A file written over whatever lies at its path.
Written(f) == {g \in files : g.path # f.path} \cup {f}

\* CreateProject writes a fresh project, or fails and leaves the folder empty.
Create(c) ==
    /\ call[c].step = "reserved" /\ call[c].src = None
    /\ \/ files' = Written(NewFile(c, 0, NoLog)) /\ call' = [call EXCEPT ![c].step = "done"]
       \/ call' = [call EXCEPT ![c].step = "failed"] /\ UNCHANGED files
    /\ UNCHANGED <<reserved, shown, open, touched, saves>>

\* CloneProject of the open project: one consistent snapshot.  Else its main
\* file is copied first.
CloneMain(c) ==
    /\ call[c].step = "reserved" /\ call[c].src \in Ids
    /\ LET src == FileOf(call[c].src) IN
         /\ IF open = src.id
            THEN files' = Written(NewFile(c, Committed(src), NoLog)) /\ call' = [call EXCEPT ![c].step = "done", ![c].basis = Committed(src)]
            ELSE files' = Written(NewFile(c, src.main, NoLog)) /\ call' = [call EXCEPT ![c].step = "log", ![c].basis = Committed(src)]
    /\ UNCHANGED <<reserved, shown, open, touched, saves>>

\* Then its log, if it is there; a copy that fails is not noticed.
CloneLog(c) ==
    /\ call[c].step = "log"
    /\ \/ \E src \in {f \in files : f.id = call[c].src} :
             files' = {IF f.id = c THEN [f EXCEPT !.wal = src.wal] ELSE f : f \in files}
       \/ UNCHANGED files
    /\ call' = [call EXCEPT ![c].step = "done"]
    /\ UNCHANGED <<reserved, shown, open, touched, saves>>

\* The source is gone when it is copied.
CloneGone(c) ==
    /\ call[c].step = "reserved" /\ call[c].src # None /\ call[c].src \notin Ids
    /\ call' = [call EXCEPT ![c].step = "failed"]
    /\ UNCHANGED <<files, reserved, shown, open, touched, saves>>

Next ==
    \/ ListProjects \/ Save \/ Close \/ Crash
    \/ \E s \in shown : Open(s) \/ Delete(s) \/ \E c \in Calls : AskClone(c, s)
    \/ \E c \in Calls : AskCreate(c) \/ Reserve(c) \/ Create(c) \/ CloneMain(c) \/ CloneLog(c) \/ CloneGone(c)

Spec == Init /\ [][Next]_vars

-----------------------------------------------------------------------------
(* Properties                                                               *)

(* Types; no two project files have one path. *)
TypeOK ==
    /\ open \in Ids \cup {None}
    /\ \A f, g \in files : f.path = g.path => f = g
    /\ \A c \in Calls : call[c].step \in
           {"idle", "reserve", "make", "reserved", "log", "done", "failed", "gone"}
    /\ saves \in 0 .. MaxSaves

(* A path the frontend sends back opens, deletes or copies the project it was
   listed for, or nothing: never another one whose name reads the same there,
   also when the list is stale. *)
NeverAnotherProject == touched.found \in {None, touched.meant}

(* Calls of one second that make a project have a folder each: what one
   wrote is there when it returns and nobody wrote over it. *)
FoldersApart ==
    \A c, d \in Calls : c # d /\ call[c].name # None /\ call[d].name # None
        => call[c].name # call[d].name

(* The comment on enumerateProjects: a project in an extra folder is found
   like any other, so a listed project can be opened unless its name is
   ambiguous to the frontend or it is gone. *)
ListedOpens ==
    \A s \in shown : /\ \E f \in files : f.id = s.id
                     /\ \A t \in shown : t.path = s.path => t = s
                     => Confine(s.path) = s.id

(* The comment on CloneProject: no committed data is lost if the source had
   uncheckpointed pages. *)
ClonesComplete ==
    \A f \in files : f.id \in Calls /\ call[f.id].step = "done" /\ call[f.id].src # None /\ f.id # open =>
        Committed(f) >= call[f.id].basis

=============================================================================

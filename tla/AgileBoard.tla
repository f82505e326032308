------------------------------ MODULE AgileBoard ------------------------------
(***************************************************************************)
(* The Kanban board, its work items and sprints (agile/store.go and        *)
(* app_agile.go).  Every store call is one statement or one transaction;   *)
(* what a call is given comes from a page that may be older than the data. *)
(***************************************************************************)
EXTENDS Naturals, FiniteSets

CONSTANTS BuiltIn, Added,  \* column identifiers; "done" is built in
          Items, Sprints,
          MaxTime          \* bound on the clock

BoardAssumption ==
    /\ "done" \in BuiltIn /\ BuiltIn \cap Added = {} /\ "none" \notin Sprints
    /\ MaxTime \in Nat \ {0}

VARIABLES board,    \* a default board exists
          columns,  \* the columns of the board
          shown,    \* the columns some page has shown
          item,     \* Items -> its row; state "none" where there is no row
          sprints,  \* the sprints that exist
          now,
          logged    \* items whose deletion is in the audit trail
vars == <<board, columns, shown, item, sprints, now, logged>>

States == BuiltIn \cup Added \cup {"backlog"}
NoItem == [state |-> "none", sprint |-> "none", closed |-> 0]
Rows == [state : States, sprint : Sprints \cup {"none"}, closed : 0..MaxTime]

Init ==
    /\ board = FALSE /\ columns = {} /\ shown = {} /\ item = [i \in Items |-> NoItem]
    /\ sprints = {} /\ now = 1 /\ logged = {}

\* EnsureDefaultBoard: the board and its columns in one transaction; the
\* built-in columns are put back on a board that lacks one.
EnsureDefaultBoard ==
    /\ board' = TRUE /\ columns' = columns \cup BuiltIn
    /\ shown' = shown \cup BuiltIn
    /\ UNCHANGED <<item, sprints, now, logged>>

\* SaveColumn: the name and the limit are checked, the board must be the
\* project's; a column is added, renamed or moved.
SaveColumn ==
    /\ board
    /\ \E c \in BuiltIn \cup Added :
         columns' = columns \cup {c} /\ shown' = shown \cup {c}
    /\ UNCHANGED <<board, item, sprints, now, logged>>

\* DeleteColumn: an added column that holds nothing, checked and removed by
\* one statement.
DeleteColumn ==
    /\ \E c \in columns \ BuiltIn :
         /\ \A i \in Items : item[i].state # c
         /\ columns' = columns \ {c}
    /\ UNCHANGED <<board, shown, item, sprints, now, logged>>

Known(s) == s \in shown \cup {"backlog"}

\* SaveWorkItem: the form's row is written; a done item keeps the closing
\* time the form has or gets the clock's, any other has none.
SaveWorkItem ==
    /\ \E i \in Items, r \in Rows :
         /\ r.closed < now /\ Known(r.state)
         /\ item' = [item EXCEPT ![i] =
              [r EXCEPT !.closed = IF r.state # "done" THEN 0
                                   ELSE IF @ = 0 THEN now ELSE @]]
    /\ UNCHANGED <<board, columns, shown, sprints, now, logged>>

\* MoveWorkItem: dragging a card into "done" stamps it; out of it keeps the
\* stamp.
MoveWorkItem ==
    /\ \E i \in Items, s \in States :
         /\ item[i].state # "none" /\ Known(s)
         /\ item' = [item EXCEPT ![i].state = s, ![i].closed = IF s = "done" THEN now ELSE @]
    /\ UNCHANGED <<board, columns, shown, sprints, now, logged>>

\* DeleteWorkItem of the application: the audit entry, as well as it can be
\* written, and then the row.
DeleteWorkItem ==
    /\ \E i \in Items :
         /\ item' = [item EXCEPT ![i] = NoItem]
         /\ logged' \in {logged, logged \cup {i}}
    /\ UNCHANGED <<board, columns, shown, sprints, now>>

SaveSprint ==
    /\ \E s \in Sprints : sprints' = sprints \cup {s}
    /\ UNCHANGED <<board, columns, shown, item, now, logged>>

DeleteSprintOnly ==
    /\ \E s \in Sprints : sprints' = sprints \ {s}
    /\ UNCHANGED <<board, columns, shown, item, now, logged>>

\* DeleteSprint: its items are unlinked and it is removed, in one transaction.
DeleteSprint ==
    /\ \E s \in Sprints :
         /\ sprints' = sprints \ {s}
         /\ item' = [i \in Items |-> IF item[i].sprint = s THEN [item[i] EXCEPT !.sprint = "none"] ELSE item[i]]
    /\ UNCHANGED <<board, columns, shown, now, logged>>

Tick == now < MaxTime /\ now' = now + 1 /\ UNCHANGED <<board, columns, shown, item, sprints, logged>>

Next == EnsureDefaultBoard \/ SaveColumn \/ DeleteColumn \/ SaveWorkItem \/ MoveWorkItem
        \/ DeleteWorkItem \/ SaveSprint \/ DeleteSprint \/ Tick
Spec == Init /\ [][Next]_vars

(* ----------------------------- properties ----------------------------- *)

TypeOK ==
    /\ board \in BOOLEAN /\ columns \subseteq shown /\ shown \subseteq BuiltIn \cup Added /\ sprints \subseteq Sprints
    /\ item \in [Items -> Rows \cup {NoItem}] /\ logged \subseteq Items

\* store.go:153 - the built-in columns, by which closing is recognised, are
\* never missing from a board that exists.
BuiltInKept == board => BuiltIn \subseteq columns

\* store.go:264, store.go:391 - by whatever way an item gets to "done", it
\* has a closing time, which is not in the future.
DoneIsStamped == \A i \in Items : item[i].state = "done" => item[i].closed \in 1..now

\* store.go:210 - the step that deletes a column leaves no item in it, and
\* the one that deletes a sprint none linked to it.
NothingStranded ==
    /\ \A c \in columns \ columns' : \A i \in Items : item'[i].state # c
    /\ \A s \in sprints \ sprints' : \A i \in Items : item'[i].sprint # s

\* store.go:213 - a card moved in meanwhile is not left without a column.
CardsHaveColumns ==
    board => \A i \in Items : item[i].state \in columns \cup {"backlog", "none"}
================================================================================

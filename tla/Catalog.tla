------------------------------ MODULE Catalog ------------------------------
(***************************************************************************)
(* The reusable catalog of a user: vendors and items, each with a version. *)
(* Every bound call opens the encrypted store, works, and closes it; two   *)
(* windows edit the same records from what they last listed.              *)
(***************************************************************************)
EXTENDS Naturals, FiniteSets, Sequences

CONSTANTS
    Windows,    \* the windows
    Ids,        \* the identifiers newID can give
    Contents,   \* the contents of a record, blank ones included
    Blank,      \* the contents whose name is empty
    MaxVersion  \* bound on the versions of a record

CatalogAssumption == Blank \subseteq Contents /\ MaxVersion \in Nat \ {0}

VARIABLES
    rows,     \* catalog_vendors, or catalog_items: id -> record or none
    windows,  \* what every window has in hand: id -> record or none
    history   \* the saves accepted: which version each one was made from

vars == <<rows, windows, history>>

NoRow == [version |-> 0]
Rows == [version : 1 .. MaxVersion, content : Contents, archived : BOOLEAN]

Init ==
    /\ rows = [id \in Ids |-> NoRow]
    /\ windows = [w \in Windows |-> [id \in Ids |-> NoRow]]
    /\ history = {}

\* validateVendor, validateItem.
Valid(content) == content \notin Blank

\* ListVendors, ListItems: what the search leaves out is not changed in the
\* window.
List(w, includeArchived) ==
    /\ windows' = [windows EXCEPT ![w] =
         [id \in Ids |-> IF rows[id] # NoRow /\ (includeArchived \/ ~rows[id].archived) THEN rows[id] ELSE NoRow]]
    /\ UNCHANGED <<rows, history>>

\* The first branch of SaveVendor and SaveItem: a new identifier, version 1.
Insert(w, id, content, archived) ==
    /\ rows[id] = NoRow
    /\ Valid(content)
    /\ LET row == [version |-> 1, content |-> content, archived |-> archived]
       IN /\ rows' = [rows EXCEPT ![id] = row]
          /\ windows' = [windows EXCEPT ![w][id] = row]
          /\ history' = history \cup {[id |-> id, from |-> 0, by |-> w]}

\* The second branch: one UPDATE guarded by the version the window has; a
\* save that changed no row is a conflict.
Update(w, id, content, archived) ==
    /\ windows[w][id] # NoRow
    /\ rows[id].version < MaxVersion
    /\ Valid(content)
    /\ LET row == [version |-> windows[w][id].version + 1, content |-> content, archived |-> archived]
       IN IF rows[id].version = windows[w][id].version
          THEN /\ rows' = [rows EXCEPT ![id] = row]
               /\ windows' = [windows EXCEPT ![w][id] = row]
               /\ history' = history \cup {[id |-> id, from |-> windows[w][id].version, by |-> w]}
          ELSE UNCHANGED vars

Next ==
    \E w \in Windows :
        \/ \E includeArchived \in BOOLEAN : List(w, includeArchived)
        \/ \E id \in Ids, content \in Contents, archived \in BOOLEAN :
             Insert(w, id, content, archived) \/ Update(w, id, content, archived)

Spec == Init /\ [][Next]_vars

-----------------------------------------------------------------------------
\* The type invariant of the module.
TypeOK ==
    /\ \A id \in Ids : rows[id] \in Rows \cup {NoRow}
    /\ \A w \in Windows, id \in Ids : windows[w][id] \in Rows \cup {NoRow}
    /\ history \subseteq [id : Ids, from : 0 .. MaxVersion, by : Windows]

\* No save is lost: of the saves made from one version of a record exactly
\* one was accepted, so every accepted save was made by somebody who had
\* seen the one before it (SaveVendor, SaveItem).
NoLostSave ==
    \A h, k \in history : h.id = k.id /\ h.from = k.from => h = k

\* A window whose save was accepted has the current version in hand, so that
\* its next save is not refused for its own earlier one.
OwnSaveCurrent ==
    \A w \in Windows, id \in Ids :
        rows[id] # NoRow /\ [id |-> id, from |-> rows[id].version - 1, by |-> w] \in history
            => windows[w][id] \in {rows[id], NoRow}
=============================================================================

----------------------------- MODULE AuditChain ------------------------------
(***************************************************************************)
(* The hash chain of audit events of one project (db/audit.go).  Every     *)
(* change of a record appends its event in the transaction of the change.  *)
(* A transaction begins deferred: its first read fixes the snapshot, and a *)
(* write on a snapshot that is no longer the latest fails as busy, with    *)
(* the whole transaction.  Rows can be damaged behind the program's back;  *)
(* VerifyAuditChain is what finds out.                                     *)
(*                                                                         *)
(* A hash is modelled by what is hashed: equal hashes are of equal         *)
(* events.                                                                 *)
(***************************************************************************)
EXTENDS Integers, FiniteSets

CONSTANTS
    Writers,     \* connections that change records
    Contents,    \* what an event says: type, entity, before, after, user, times
    MaxEvents,   \* bound: sequence numbers
    MaxDamage    \* bound: rows damaged

ConstantsAssumption == MaxEvents \in Nat \ {0} /\ MaxDamage \in Nat

VARIABLES
    rows,       \* table audit_events
    commits,    \* ghost: commits to the file, which a snapshot remembers
    txn,        \* each writer's transaction
    appended,   \* ghost: the events as they were committed
    damage      \* rows damaged so far

vars == <<rows, commits, txn, appended, damage>>

NoHash == <<>>

eventHash(seq, prev, content) == <<seq, prev, content>>

Event(seq, prev, content) ==
    [seq |-> seq, prev |-> prev, content |-> content, hash |-> eventHash(seq, prev, content)]

NoTxn == [snapshot |-> 0, view |-> {}, open |-> FALSE]

Last(rs) == CHOOSE r \in rs : \A q \in rs : q.seq <= r.seq

AppendUnlinked(rs, content) ==
    IF rs = {} THEN {Event(1, NoHash, content)}
    ELSE rs \cup {Event(Last(rs).seq + 1, NoHash, content)}

\* appendAuditEventTx on the rows a transaction sees.
AppendTo(rs, content) ==
    IF rs = {} THEN {Event(1, NoHash, content)}
    ELSE rs \cup {Event(Last(rs).seq + 1, Last(rs).hash, content)}

TypeOK ==
    /\ \A r \in rows : r.seq \in 1 .. MaxEvents /\ r.content \in Contents
    /\ \A r, q \in rows : r.seq = q.seq => r = q
    /\ commits \in Nat /\ damage \in 0 .. MaxDamage
    /\ \A w \in Writers : txn[w].open \in BOOLEAN /\ txn[w].snapshot \in Nat

Init ==
    /\ rows = {} /\ commits = 1 /\ appended = {} /\ damage = 0
    /\ txn = [w \in Writers |-> NoTxn]

-----------------------------------------------------------------------------
(* Transactions                                                             *)

\* The record is read as it was before the change: the snapshot.
Begin(w) ==
    /\ ~txn[w].open
    /\ txn' = [txn EXCEPT ![w] = [snapshot |-> commits, view |-> rows, open |-> TRUE]]
    /\ UNCHANGED <<rows, commits, appended, damage>>

\* The change is written, with its event, and an approval checkpoint when the
\* change is an approval.
EventsOf(rs) ==
    LET one == {AppendTo(rs, c) : c \in Contents}
    IN  one \cup {AppendTo(r, c) : r \in one, c \in Contents}

Commit(w) ==
    /\ txn[w].open /\ txn[w].snapshot = commits
    /\ \E rs \in EventsOf(txn[w].view) :
           /\ \A r \in rs : r.seq <= MaxEvents
           /\ rows' = rs
           /\ appended' = appended \cup (rs \ rows)
    /\ commits' = commits + 1
    /\ txn' = [txn EXCEPT ![w] = NoTxn]
    /\ UNCHANGED damage

\* A stale snapshot is busy; any statement may fail; the caller may find
\* nothing to change.
Rollback(w) ==
    /\ txn[w].open
    /\ txn' = [txn EXCEPT ![w] = NoTxn]
    /\ UNCHANGED <<rows, commits, appended, damage>>

\* A row is altered, moved to another number, or lost, behind the program.
Damage ==
    /\ damage < MaxDamage /\ rows # {}
    /\ \E r \in rows :
           \/ rows' = rows \ {r}
           \/ \E c \in Contents \ {r.content} :
                  rows' = (rows \ {r}) \cup {[r EXCEPT !.content = c]}
           \/ \E s \in (1 .. MaxEvents) \ {q.seq : q \in rows} :
                  rows' = (rows \ {r}) \cup {[r EXCEPT !.seq = s]}
    /\ damage' = damage + 1
    /\ commits' = commits + 1
    /\ UNCHANGED <<txn, appended>>

Next == Damage \/ \E w \in Writers : Begin(w) \/ Commit(w) \/ Rollback(w)

Spec == Init /\ [][Next]_vars

-----------------------------------------------------------------------------
(* VerifyAuditChain                                                         *)

\* The rows before r in the order of their numbers.
Previous(rs, r) == {q \in rs : q.seq < r.seq}

\* Numbers without a gap from 1, each row linked to the one before it, each
\* hash that of its row.
Verifies(rs) ==
    /\ {r.seq : r \in rs} = 1 .. Cardinality(rs)
    /\ \A r \in rs :
           /\ r.prev = IF r.seq = 1 THEN NoHash ELSE Last(Previous(rs, r)).hash
           /\ r.hash = eventHash(r.seq, r.prev, r.content)

-----------------------------------------------------------------------------
(* Properties                                                               *)

\* As long as no row was damaged the chain verifies, whichever transactions
\* run beside each other and whichever of them fail.
IntactVerifies == damage = 0 => Verifies(rows)

\* A chain that verifies holds only events as they were committed, each on
\* top of the event it was committed on: an altered or moved row, or one lost
\* from the middle, is found.
VerifiedRowsWereAppended == Verifies(rows) => rows \subseteq appended
=============================================================================

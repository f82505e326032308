--------------------------- MODULE AccessNotices ---------------------------
(***************************************************************************)
(* Telling a user that an administrator opened their data.  The events of *)
(* one account are a sequence whose positions are their AUTOINCREMENT     *)
(* ids; access_notices keeps the newest one acknowledged.  The user may   *)
(* be signed in at several windows, each showing the notice it read.      *)
(***************************************************************************)
EXTENDS Naturals, Sequences, FiniteSets

CONSTANTS
    Windows,    \* the windows at which the user is signed in
    MaxEvents   \* bound: events of the account

EventsAssumption == MaxEvents \in Nat

VARIABLES
    events,        \* the events of the account, in the order of their ids
    acknowledged,  \* acknowledged_through, 0 when there is no row
    shown,         \* what every window shows: the ids of its notice
    seen,          \* the events some window has shown
    told           \* ghost: what the records of acknowledgements count, added up

vars == <<events, acknowledged, shown, seen, told>>

\* An access, a key made because nobody held the old one (by another
\* account or by this one), and the record of an acknowledgement.
Event(action, own, accesses, keys) == [action |-> action, own |-> own, accesses |-> accesses, keys |-> keys]

Init ==
    /\ events = <<>>
    /\ acknowledged = 0
    /\ shown = [w \in Windows |-> {}]
    /\ seen = {}
    /\ told = [accesses |-> 0, keys |-> 0]

\* noticeFilter: the user's own new key is a record, not a notice.
Notices ==
    {i \in DOMAIN events :
        \/ events[i].action = "admin_access"
        \/ events[i].action = "escrow_key_new" /\ ~events[i].own}

\* Written by the operations of an administrator.
RecordEvent(action, own) ==
    /\ Len(events) < MaxEvents
    /\ events' = Append(events, Event(action, own, 0, 0))
    /\ UNCHANGED <<acknowledged, shown, seen, told>>

\* UnreadAccessNotices, at sign-in and when the window asks again.
UnreadAccessNotices == {i \in Notices : i > acknowledged}

MyDataAccessNotices(w) ==
    /\ shown' = [shown EXCEPT ![w] = UnreadAccessNotices]
    /\ seen' = seen \cup UnreadAccessNotices
    /\ UNCHANGED <<events, acknowledged, told>>

Counted(action, from, through) ==
    Cardinality({i \in Notices : i > from /\ i <= through /\ events[i].action = action})

\* The record of an acknowledgement through an event, with what it counts.
Record(through) ==
    LET accesses == Counted("admin_access", acknowledged, through)
        keys == Counted("escrow_key_new", acknowledged, through)
    IN  /\ acknowledged' = through
        /\ events' = Append(events, Event("access_notice_read", TRUE, accesses, keys))
        /\ told' = [accesses |-> told.accesses + accesses, keys |-> told.keys + keys]

\* Mutant: everything recorded so far is acknowledged.
AcknowledgeAll(w) ==
    /\ shown[w] # {}
    /\ Len(events) < MaxEvents
    /\ Record(Len(events))
    /\ shown' = [shown EXCEPT ![w] = {}]
    /\ UNCHANGED seen

\* AcknowledgeAccessNotices with the newest event the window shows, in one
\* write transaction.
Acknowledge(w) ==
    /\ shown[w] # {}
    /\ Len(events) < MaxEvents
    /\ \E through \in shown[w] :
         /\ \A i \in shown[w] : i <= through
         /\ IF through <= acknowledged
            THEN UNCHANGED <<events, acknowledged, told>>
            ELSE Record(through)
    /\ shown' = [shown EXCEPT ![w] = {}]
    /\ UNCHANGED seen

Next ==
    \/ \E own \in BOOLEAN : RecordEvent("escrow_key_new", own)
    \/ RecordEvent("admin_access", FALSE)
    \/ \E w \in Windows : MyDataAccessNotices(w) \/ Acknowledge(w)

Spec == Init /\ [][Next]_vars

-----------------------------------------------------------------------------
\* The type invariant of the module.
TypeOK ==
    /\ events \in Seq([action : {"admin_access", "escrow_key_new", "access_notice_read"}, own : BOOLEAN,
                       accesses : 0 .. MaxEvents, keys : 0 .. MaxEvents])
    /\ acknowledged \in 0 .. Len(events)
    /\ shown \in [Windows -> SUBSET DOMAIN events]
    /\ seen \subseteq DOMAIN events

\* An access nobody has shown the user stays in the notice: one recorded
\* between the reading of the notice and its acknowledgement is not taken
\* for read (AcknowledgeAccessNotices).
UnseenStaysUnread ==
    \A i \in Notices : i \notin seen => i > acknowledged

\* The records of acknowledgements count every notice read exactly once,
\* also when two windows acknowledge notices that overlap.
EachCountedOnce ==
    /\ told.accesses = Counted("admin_access", 0, acknowledged)
    /\ told.keys = Counted("escrow_key_new", 0, acknowledged)
=============================================================================

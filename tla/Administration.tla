---------------------------- MODULE Administration ----------------------------
(***************************************************************************)
(* Administrators of a GoPMgr machine and the administrator (escrow) key   *)
(* they hold: internal/users (super_admin.go, succession.go, store.go,     *)
(* account_status.go, escrow_enroll.go, escrow_rotation.go,                *)
(* escrow_new_key.go, escrow_recovery.go, escrow_access.go).               *)
(*                                                                         *)
(* Every operation is one BEGIN IMMEDIATE transaction on system.db, run by *)
(* any of the processes on the machine, so the module is a state db and    *)
(* one action per transaction: what a transaction reads and writes in      *)
(* between is an operator from database states to database states.  A      *)
(* refused operation rolls back and is no step.  What crosses              *)
(* transactions is the escrow key a process opened (OpenEscrow) for the    *)
(* account it is about to create, and the replacement of the key that an   *)
(* account change leaves to a later transaction.                           *)
(*                                                                         *)
(* Left out: what only editing system.db by hand can cause (swapped public *)
(* keys, forged grants, the attestations that detect them), and the        *)
(* account_events history.                                                 *)
(***************************************************************************)
EXTENDS Integers, FiniteSets, TLC

CONSTANTS
    Users,        \* usernames
    Nobody,       \* no username
    MaxKeys,      \* bound: escrow keys ever made
    MaxOpen,      \* bound: processes that hold the key open at once
    Damageable    \* accounts whose stored private key can be damaged

ASSUME UsersAssumption == IsFiniteSet(Users)
ASSUME NobodyAssumption == Nobody \notin Users
ASSUME BoundAssumption == MaxKeys \in Nat /\ MaxOpen \in Nat /\ Damageable \subseteq Users

VARIABLES
    db,           \* system.db
    opened        \* the keys that processes hold open, to create an account

vars == <<db, opened>>

\* Escrow keys are numbered as they are made; 0 is no key.  The key in use is
\* key, the others are retired.  Of the time stamps only what counts for a
\* takeover is kept: a role is lapsed once the takeover period has passed since
\* its holder last signed in and since they were given it.
Database ==
    [rank      : [Users -> Nat],             \* order of creation; 0: no account
     admin     : SUBSET Users,               \* is_admin
     disabled  : SUBSET Users,
     super     : Users \cup {Nobody},        \* super_admin
     standby   : Users \cup {Nobody},        \* super_succession
     lapsed    : SUBSET {"super", "standby"},
     protected : SUBSET Users,               \* takeover_protection, not ended
     key       : Nat,                        \* escrow_keys, the active one
     personal  : SUBSET Users,               \* personal_keys
     damaged   : SUBSET Users,               \* ... whose private half does not open
     pin       : [Users -> Nat],             \* escrow_pins
     sealed    : [Users -> Nat],             \* sealed_deks
     grant     : [Users -> Nat],             \* escrow_grants
     stale     : SUBSET Users,               \* ... sealed to a replaced personal key
     due       : BOOLEAN,                    \* escrow_rotation_pending
     recovery  : Nat,                        \* escrow_recovery, the key it opens
     kept      : BOOLEAN,                    \* ... confirmed
     knows     : SUBSET Users]               \* history: who was given the active key, and
                                             \* has not been found unable to open it

-----------------------------------------------------------------------------
(* Roles                                                                    *)

Accounts(d) == {u \in Users : d.rank[u] > 0}

EnabledAdmins(d) == d.admin \ d.disabled

\* earliestEnabledAdmin.
Earliest(d) ==
    CHOOSE u \in EnabledAdmins(d) : \A v \in EnabledAdmins(d) : d.rank[u] <= d.rank[v]

\* ensureSuperTx: whoever gets the role now counts as active.
EnsureSuper(d) ==
    IF d.super \in EnabledAdmins(d) \/ EnabledAdmins(d) = {}
    THEN d
    ELSE [d EXCEPT !.super = Earliest(d), !.lapsed = @ \ {"super"}]

\* requireSuperTx.
IsSuper(d, a) == a \in EnabledAdmins(d) /\ EnsureSuper(d).super = a

\* Mutant: the super administrator may change their own account.
MayChangeOwn(d, a, u) ==
    /\ a \in EnabledAdmins(d)
    /\ u \in d.admin => IsSuper(d, a)

\* requireAccountActionTx.
MayChange(d, a, u) ==
    /\ a \in EnabledAdmins(d)
    /\ u \in d.admin => IsSuper(d, a) /\ u # a

\* What requireAccountActionTx leaves behind when it succeeds.
Checked(d, u) == IF u \in d.admin THEN EnsureSuper(d) ELSE d

\* guardLastEnabledAdmin.
NotLastAdmin(d, u) == u \in EnabledAdmins(d) => Cardinality(EnabledAdmins(d)) > 1

-----------------------------------------------------------------------------
(* Grants and enrollment                                                    *)

\* markRotationPendingTx.
MarkDue(d) == IF d.key = 0 THEN d ELSE [d EXCEPT !.due = TRUE]

\* removeGrantTx.
RemoveGrant(d, u) == [d EXCEPT !.grant[u] = 0, !.stale = @ \ {u}]

\* Mutant: the grant goes, but the key is not to be replaced.
RevokeUnmarked(d, u) == RemoveGrant(d, u)

\* revokeGrantTx, and removeSubordinateGrantTx.
Revoke(d, u) == IF d.grant[u] = 0 THEN d ELSE MarkDue(RemoveGrant(d, u))

\* clearStandbyTx.
ClearStandby(d, u) ==
    IF d.standby = u THEN [d EXCEPT !.standby = Nobody, !.lapsed = @ \ {"standby"}] ELSE d

\* readSuccessionTx: the standby in the table is not trusted on its own.
ReadSuccession(d) ==
    LET e == EnsureSuper(d)
        s == e.standby
    IN  IF s = Nobody THEN e
        ELSE IF s = e.super THEN ClearStandby(e, s)
        ELSE IF s \notin EnabledAdmins(e) THEN ClearStandby(Revoke(e, s), s)
        ELSE e

\* Mutant: a key opened in an earlier transaction is used as it is.
SessionKey(d, session) == IF session = 0 THEN d.key ELSE session

\* The key an enrollment seals to.  A session opened in an earlier
\* transaction may hold a key that has been replaced since: then the active
\* key is used instead.
SealingKey(d, session) == IF session = d.key THEN session ELSE d.key

\* enrollTx with ensurePersonalKey: a private key that does not open is
\* replaced with a new pair, which a grant sealed to the old one does not fit.
\* Nothing is sealed to a key other than the pinned one.
Enroll(d, u, session) ==
    LET k == SealingKey(d, session)
        e == [d EXCEPT !.personal = @ \cup {u},
                       !.damaged = @ \ {u},
                       !.stale = IF u \in d.damaged /\ d.grant[u] # 0 THEN @ \cup {u} ELSE @]
    IN  IF d.key = 0 THEN d
        ELSE IF d.pin[u] \notin {0, k} THEN e
        ELSE [e EXCEPT !.pin[u] = k, !.sealed[u] = k]

\* openGrantTx succeeds ...
Opens(d, a) ==
    /\ d.key # 0
    /\ d.grant[a] = d.key
    /\ a \in d.personal \ (d.damaged \cup d.stale)
    /\ d.pin[a] = d.key

\* ... or finds a grant that cannot be used, and removes it.
AfterOpen(d, a) ==
    IF /\ ~Opens(d, a)
       /\ d.key # 0 /\ d.grant[a] = d.key /\ a \in d.personal /\ d.pin[a] # 0
    THEN [RemoveGrant(d, a) EXCEPT !.knows = @ \ {a}]
    ELSE d

\* grantTx, with attestAndGrantTx.
Grant(d, u) ==
    [d EXCEPT !.grant[u] = d.key, !.stale = @ \ {u}, !.knows = @ \cup {u}]

\* passKeyTx.
PassKey(d, a, u) == IF Opens(d, a) THEN Grant(d, u) ELSE AfterOpen(d, a)

-----------------------------------------------------------------------------
(* Replacing the key                                                        *)

\* Mutant: the grants of the replaced key stay.
RotatedKeepingGrants(d, a, keep) ==
    LET k == d.key + 1
        old == {u \in Users : d.sealed[u] = d.key}
        to == {a} \cup (keep \cap d.personal)
    IN  [d EXCEPT !.key = k,
                  !.sealed = [u \in Users |-> IF u \in old THEN k ELSE 0],
                  !.pin = [u \in Users |-> IF u \in old THEN k ELSE 0],
                  !.grant = [u \in Users |-> IF u \in to \/ d.grant[u] # 0 THEN k ELSE 0],
                  !.stale = @ \ to,
                  !.knows = to,
                  !.due = FALSE, !.recovery = 0, !.kept = FALSE]

\* rotateTx with resealTx: every key sealed to the old key is sealed, and
\* its account's pin moved, to the new one; the new key goes to a and keep
\* and to nobody else; the recovery code is void.
Rotated(d, a, keep) ==
    LET k == d.key + 1
        old == {u \in Users : d.sealed[u] = d.key}
        to == {a} \cup (keep \cap d.personal)
    IN  [d EXCEPT !.key = k,
                  !.sealed = [u \in Users |-> IF u \in old THEN k ELSE 0],
                  !.pin = [u \in Users |-> IF u \in old THEN k ELSE 0],
                  !.grant = [u \in Users |-> IF u \in to THEN k ELSE 0],
                  !.stale = {},
                  !.knows = to,
                  !.due = FALSE, !.recovery = 0, !.kept = FALSE]

\* A rotation can succeed only if a can open the new grant, which takes the
\* pin that resealing a's own key leaves.
CanRotate(d, a) == Opens(d, a) /\ d.sealed[a] = d.key /\ d.key < MaxKeys

\* rotateInSavepointTx: a rotation that fails is rolled back and stays due.
Rotations(d, a, keep) ==
    {MarkDue(d)} \cup (IF CanRotate(d, a) THEN {Rotated(d, a, keep)} ELSE {})

\* rotateWithOwnKeyTx.
RotateWithOwnKey(d, a, keep) ==
    IF Opens(d, a) THEN Rotations(d, a, keep) ELSE {MarkDue(AfterOpen(d, a))}

\* rotatorTx.
Rotator(d, a) ==
    LET e == ReadSuccession(d)
    IN  \/ a = e.super
        \/ a = e.standby /\ e.super # Nobody /\ e.grant[e.super] = 0

\* runPendingRotationTx, of someone whose grant opens.
RunPending(d, a) ==
    IF ~d.due THEN {d}
    ELSE IF Rotator(d, a) THEN Rotations(ReadSuccession(d), a, {})
    ELSE {ReadSuccession(d)}

\* enrollAdminSessionTx, with bootstrapTx for the first key.
EnrollAdmin(d, a) ==
    LET e == ReadSuccession(d)
        f == Enroll(e, a, 0)
        work == IF Opens(f, a) THEN RunPending(f, a) ELSE {AfterOpen(f, a)}
    IN  IF a \notin EnabledAdmins(d) THEN {Enroll(d, a, 0)}
        ELSE IF a = e.standby THEN work
        ELSE IF a # e.super THEN {Enroll(Revoke(e, a), a, 0)}
        ELSE IF e.key = 0 THEN {Grant(Enroll([e EXCEPT !.key = 1], a, 1), a)}
        ELSE work

-----------------------------------------------------------------------------
(* Initial states: an empty machine, or one from before the super           *)
(* administrator existed, with any accounts and administrators, each of     *)
(* whom may hold the key.                                                   *)

Empty ==
    [rank |-> [u \in Users |-> 0], admin |-> {}, disabled |-> {}, super |-> Nobody,
     standby |-> Nobody, lapsed |-> {}, protected |-> {}, key |-> 0,
     personal |-> {}, damaged |-> {}, pin |-> [u \in Users |-> 0],
     sealed |-> [u \in Users |-> 0], grant |-> [u \in Users |-> 0], stale |-> {},
     due |-> FALSE, recovery |-> 0, kept |-> FALSE, knows |-> {}]

Ranks(S) ==
    {r \in [Users -> 0 .. Cardinality(S)] :
        /\ \A u \in Users : r[u] > 0 <=> u \in S
        /\ \A u, v \in S : r[u] = r[v] => u = v}

Legacy(r, admin, enrolled, holders) ==
    LET k == IF enrolled = {} THEN 0 ELSE 1
        marked(S) == [u \in Users |-> IF u \in S THEN k ELSE 0]
    IN  [Empty EXCEPT !.rank = r, !.admin = admin, !.key = k,
                      !.personal = enrolled, !.pin = marked(enrolled),
                      !.sealed = marked(enrolled), !.grant = marked(holders),
                      !.knows = holders]

Init ==
    /\ \/ db = Empty
       \/ \E S \in SUBSET Users \ {{}}, admin \in SUBSET Users, enrolled \in SUBSET Users :
          \E r \in Ranks(S), holders \in SUBSET (admin \cap enrolled) :
          /\ admin \subseteq S /\ enrolled \subseteq S
          /\ enrolled # {} => holders # {}
          /\ db = Legacy(r, admin, enrolled, holders)
    /\ opened = {}

-----------------------------------------------------------------------------
(* Accounts                                                                 *)

\* Sign-in: last_login, and the escrow session unless enrolling fails and is
\* rolled back.
SignIn(u) ==
    LET roles == (IF u = db.super THEN {"super"} ELSE {})
                     \cup (IF u = db.standby THEN {"standby"} ELSE {})
        d == [db EXCEPT !.lapsed = @ \ roles]
    IN  /\ u \in Accounts(db) \ db.disabled
        /\ \E e \in {d} \cup EnrollAdmin(d, u) : db' = e
        /\ UNCHANGED opened

\* OpenEscrow, before an administrator creates an account.
OpenEscrow(a) ==
    /\ Cardinality(opened) < MaxOpen
    /\ a \in Accounts(db)
    /\ opened' = opened \cup {o \in {[by |-> a, key |-> db.key]} : Opens(db, a)}
    /\ db' = AfterOpen(db, a)

\* CreateAccountWithPrincipal, by the first account itself or by an enabled
\* administrator; only the super administrator creates administrators.  The
\* new account is enrolled with the key a's process opened, or without one
\* (session = 0); enrolling may fail, and is then left to the account's sign-in.
CreateAccount(a, u, isAdmin, session) ==
    LET first == Accounts(db) = {}
        d == IF isAdmin /\ ~first THEN EnsureSuper(db) ELSE db
        e == [d EXCEPT !.rank[u] = Cardinality(Accounts(db)) + 1,
                       !.admin = IF isAdmin THEN @ \cup {u} ELSE @]
    IN  /\ u \notin Accounts(db)
        /\ IF first THEN a = u /\ isAdmin
           ELSE a \in EnabledAdmins(db) /\ (isAdmin => IsSuper(db, a))
        /\ session # 0 => [by |-> a, key |-> session] \in opened
        /\ db' \in {e, Enroll(e, u, session)}
        /\ opened' = opened \ {[by |-> a, key |-> session]}

\* PromoteAdmin.
PromoteAdmin(a, u) ==
    /\ IsSuper(db, a)
    /\ u \in Accounts(db) \ db.admin
    /\ u \in db.personal
    /\ db' = [EnsureSuper(db) EXCEPT !.admin = @ \cup {u}]
    /\ UNCHANGED opened

\* Mutant: demoting an administrator does not ask whether they are protected.
DemoteProtected(a, u) ==
    LET d == ClearStandby(Revoke(EnsureSuper(db), u), u) IN
    /\ u \in db.admin
    /\ MayChange(db, a, u)
    /\ NotLastAdmin(db, u)
    /\ db' = [d EXCEPT !.admin = @ \ {u}]
    /\ UNCHANGED opened

\* SetAdmin(a, u, false).
Demote(a, u) ==
    LET d == ClearStandby(Revoke(EnsureSuper(db), u), u) IN
    /\ u \in db.admin
    /\ MayChange(db, a, u)
    /\ u \notin db.protected
    /\ NotLastAdmin(db, u)
    /\ db' = [d EXCEPT !.admin = @ \ {u}]
    /\ UNCHANGED opened

\* ClaimAdmin.
ClaimAdmin(u) ==
    /\ EnabledAdmins(db) = {}
    /\ u \in Accounts(db) \ db.disabled
    /\ db' = EnsureSuper([db EXCEPT !.admin = @ \cup {u}])
    /\ UNCHANGED opened

\* SetDisabled(a, u, true).
Disable(a, u) ==
    LET d == ClearStandby(Revoke(Checked(db, u), u), u) IN
    /\ u \in Accounts(db) \ db.disabled
    /\ MayChange(db, a, u)
    /\ u \notin db.protected
    /\ NotLastAdmin(db, u)
    /\ db' = [d EXCEPT !.disabled = @ \cup {u}]
    /\ UNCHANGED opened

\* SetDisabled(a, u, false).
Enable(a, u) ==
    /\ u \in db.disabled
    /\ MayChange(db, a, u)
    /\ db' = [Checked(db, u) EXCEPT !.disabled = @ \ {u}]
    /\ UNCHANGED opened

\* The row of u and every row that cascades with it.
Deleted(d, u) ==
    [d EXCEPT !.rank = [v \in Users |-> IF v = u THEN 0
                                        ELSE IF @[v] > @[u] THEN @[v] - 1 ELSE @[v]],
              !.admin = @ \ {u}, !.disabled = @ \ {u},
              !.protected = @ \ {u}, !.personal = @ \ {u}, !.damaged = @ \ {u},
              !.pin[u] = 0, !.sealed[u] = 0, !.grant[u] = 0, !.stale = @ \ {u}]

\* PurgeAccount's transaction.
PurgeAccount(a, u) ==
    /\ u \in Accounts(db)
    /\ MayChange(db, a, u)
    /\ u \notin db.protected
    /\ NotLastAdmin(db, u)
    /\ db' = Deleted(Revoke(ClearStandby(Checked(db, u), u), u), u)
    /\ UNCHANGED opened

-----------------------------------------------------------------------------
(* The super administrator and the standby                                  *)

\* RequireSuper, and Succession, which an administrator's panel reads.
ReadRoles(a) ==
    /\ a \in EnabledAdmins(db)
    /\ db' \in {ReadSuccession(db)} \cup (IF IsSuper(db, a) THEN {EnsureSuper(db)} ELSE {})
    /\ UNCHANGED opened

\* HandOverSuper: the role moves even if the key cannot be passed, and the
\* key is always to be replaced.
HandOverSuper(a, u) ==
    LET d == PassKey(EnsureSuper(db), a, u)
        e == [d EXCEPT !.super = u, !.lapsed = @ \ {"super"}, !.protected = @ \ {u}]
    IN  /\ IsSuper(db, a)
        /\ u # a
        /\ u \in EnabledAdmins(db)
        /\ u \in db.personal
        /\ db' = MarkDue(RemoveGrant(ClearStandby(e, u), a))
        /\ UNCHANGED opened

\* SetStandby(a, s), with s = Nobody to remove the standby.  A standby who
\* is replaced loses the key, which is then replaced too.  A longer takeover
\* period may make the others active again.
SetStandby(a, s) ==
    LET d == ReadSuccession(db)
        old == d.standby
        replaced == old \notin {Nobody, s}
        held == replaced /\ d.grant[old] # 0
        e == IF replaced THEN ClearStandby(RemoveGrant(d, old), old) ELSE d
        f == IF s # Nobody THEN PassKey(e, a, s) ELSE e
        g == [f EXCEPT !.standby = s]
        h == IF s \notin {Nobody, old} THEN [g EXCEPT !.lapsed = @ \ {"standby"}] ELSE g
    IN  /\ IsSuper(db, a)
        /\ s # Nobody => s # a /\ s \in EnabledAdmins(db) /\ s \in db.personal
        /\ \E back \in SUBSET h.lapsed :
             LET i == [h EXCEPT !.lapsed = @ \ back] IN
             \E e2 \in (IF held THEN RotateWithOwnKey(i, a, {s} \ {Nobody}) ELSE {i}) : db' = e2
        /\ UNCHANGED opened

\* takeoverRefusal.
MayTakeOver(d, a) ==
    /\ d.super \notin {Nobody, a}
    /\ d.standby \notin {Nobody, a} => "standby" \in d.lapsed
    /\ "super" \in d.lapsed

\* TakeOverSuper: the former super administrator is protected and loses the
\* key.  If they held it, it is replaced now by a claimant who opens it, and
\* later otherwise.
TakeOverSuper(a) ==
    LET d == ReadSuccession(db)
        held == d.grant[d.super] # 0
        e == [d EXCEPT !.super = a, !.lapsed = @ \ {"super"},
                       !.protected = (@ \ {a}) \cup {d.super}]
        f == RemoveGrant(ClearStandby(e, a), d.super)
        g == AfterOpen(f, a)
    IN  /\ a \in EnabledAdmins(db)
        /\ MayTakeOver(d, a)
        /\ \E e2 \in (IF ~held THEN {g}
                      ELSE IF Opens(f, a) THEN Rotations(f, a, {})
                      ELSE {MarkDue(g)}) : db' = e2
        /\ UNCHANGED opened

-----------------------------------------------------------------------------
(* The administrator key                                                    *)

\* RunPendingRotation, after an account change.
RunPendingRotation(a) ==
    /\ a \in Accounts(db)
    /\ db.due
    /\ \E e \in (IF Opens(db, a) THEN RunPending(db, a) ELSE {AfterOpen(db, a)}) : db' = e
    /\ UNCHANGED opened

\* ReplaceEscrowKey, keeping the key for the standby if keep says so.
ReplaceEscrowKey(a, keep) ==
    LET d == IF keep THEN ReadSuccession(db) ELSE EnsureSuper(db) IN
    /\ IsSuper(db, a)
    /\ keep => d.standby # Nobody
    /\ IF Opens(d, a)
       THEN CanRotate(d, a) /\ db' = Rotated(d, a, IF keep THEN {d.standby} ELSE {})
       ELSE db' = AfterOpen(d, a)
    /\ UNCHANGED opened

\* CreateNewEscrowKey: nobody holds the key any more.  Nothing can be
\* resealed, so every other account starts over with the new key.
CreateNewEscrowKey(a) ==
    LET d == AfterOpen(EnsureSuper(db), a)
        k == d.key + 1
        none == [u \in Users |-> 0]
        e == [d EXCEPT !.key = k, !.grant = none, !.stale = {}, !.sealed = none,
                       !.pin = [none EXCEPT ![a] = k],
                       !.recovery = 0, !.kept = FALSE, !.due = FALSE, !.knows = {}]
    IN  /\ IsSuper(db, a)
        /\ db.key # 0 /\ db.key < MaxKeys
        /\ ~Opens(EnsureSuper(db), a)                                 \* ErrHoldsEscrowKey
        /\ \A u \in EnabledAdmins(d) \ {a} : d.grant[u] # d.key       \* ErrKeyStillHeld
        /\ db' = Grant(Enroll(e, a, k), a)
        /\ UNCHANGED opened

\* OpenUserForAdmin, of an account u enrolled in the active key: all that
\* it writes besides the history is the removal of a grant that fails.
OpenUserForAdmin(a, u) ==
    /\ IsSuper(db, a)
    /\ u \in Accounts(db) \ {a}
    /\ db.key # 0 /\ db.sealed[u] = db.key
    /\ db' = AfterOpen(EnsureSuper(db), a)
    /\ UNCHANGED opened

\* CreateEscrowRecoveryCode.
CreateRecoveryCode(a) ==
    LET d == EnsureSuper(db) IN
    /\ IsSuper(db, a)
    /\ db' = IF Opens(d, a) THEN [d EXCEPT !.recovery = d.key, !.kept = FALSE]
             ELSE AfterOpen(d, a)
    /\ UNCHANGED opened

\* ConfirmEscrowRecoveryCode, with the code typed back right.
ConfirmRecoveryCode(a) ==
    /\ IsSuper(db, a)
    /\ db.key # 0 /\ db.recovery = db.key
    /\ db' = [EnsureSuper(db) EXCEPT !.kept = TRUE]
    /\ UNCHANGED opened

\* RecoverEscrowKey: the key goes back to the super administrator if their
\* own pin names it, and a replacement that is due runs.
RecoverEscrowKey(a) ==
    LET d == EnsureSuper(db)
        e == [d EXCEPT !.personal = @ \cup {a}, !.damaged = @ \ {a}]
    IN  /\ IsSuper(db, a)
        /\ db.key # 0 /\ db.recovery = db.key
        /\ d.pin[a] = d.key
        /\ db' \in RunPending(Grant(e, a), a)
        /\ UNCHANGED opened

-----------------------------------------------------------------------------
(* The environment                                                          *)

\* The takeover period passes without a sign-in of the holder of a role.
Lapse(role) ==
    /\ role \notin db.lapsed
    /\ (IF role = "super" THEN db.super ELSE db.standby) # Nobody
    /\ db' = [db EXCEPT !.lapsed = @ \cup {role}]
    /\ UNCHANGED opened

\* The days of protection after a takeover are over.
ProtectionEnds(u) ==
    /\ u \in db.protected
    /\ db' = [db EXCEPT !.protected = @ \ {u}]
    /\ UNCHANGED opened

\* The wrapped private half of u's personal key is damaged.
Damage(u) ==
    /\ u \in Damageable \cap (db.personal \ db.damaged)
    /\ db' = [db EXCEPT !.damaged = @ \cup {u}]
    /\ UNCHANGED opened

-----------------------------------------------------------------------------

Next ==
    \/ \E u \in Users : SignIn(u)
    \/ \E a \in Users : OpenEscrow(a)
    \/ \E a, u \in Users, isAdmin \in BOOLEAN, session \in 0 .. db.key :
          CreateAccount(a, u, isAdmin, session)
    \/ \E a, u \in Users : PromoteAdmin(a, u)
    \/ \E a, u \in Users : Demote(a, u)
    \/ \E u \in Users : ClaimAdmin(u)
    \/ \E a, u \in Users : Disable(a, u)
    \/ \E a, u \in Users : Enable(a, u)
    \/ \E a, u \in Users : PurgeAccount(a, u)
    \/ \E a \in Users : ReadRoles(a)
    \/ \E a, u \in Users : HandOverSuper(a, u)
    \/ \E a \in Users, s \in Users \cup {Nobody} : SetStandby(a, s)
    \/ \E a \in Users : TakeOverSuper(a)
    \/ \E a \in Users : RunPendingRotation(a)
    \/ \E a \in Users, keep \in BOOLEAN : ReplaceEscrowKey(a, keep)
    \/ \E a \in Users : CreateNewEscrowKey(a)
    \/ \E a, u \in Users : OpenUserForAdmin(a, u)
    \/ \E a \in Users : CreateRecoveryCode(a)
    \/ \E a \in Users : ConfirmRecoveryCode(a)
    \/ \E a \in Users : RecoverEscrowKey(a)
    \/ \E role \in {"super", "standby"} : Lapse(role)
    \/ \E u \in Users : ProtectionEnds(u)
    \/ \E u \in Users : Damage(u)

Spec == Init /\ [][Next]_vars

\* For TLC: usernames are interchangeable; ties in the order of creation do not occur.
Symmetry == Permutations(Users)

\* Who could replace the key now: the super administrator, or the standby where the
\* super administrator has no grant.
MayReplace(a) ==
    /\ CanRotate(db, a)
    /\ a = db.super \/ (a = db.standby /\ db.super # Nobody /\ db.grant[db.super] = 0)

\* A sign-in, of somebody who could replace the key, in which no statement fails: the
\* replacement that is due runs if it can.
SignInSucceeds(u) ==
    /\ u \in Accounts(db) \ db.disabled
    /\ db.due /\ MayReplace(u)
    /\ \E d \in {[db EXCEPT !.lapsed = @ \ {r \in {"super", "standby"} : u = db[r]}]} :
       \E outcomes \in {EnrollAdmin(d, u)} :
       \E e \in outcomes :
         /\ e.due => \A f \in outcomes : f.due
         /\ db' = e
    /\ UNCHANGED opened

\* Whoever could replace the key signs in sooner or later, and the database does not
\* fail them every time.
FairSpec == Spec /\ \A u \in Users : WF_vars(SignInSucceeds(u))

-----------------------------------------------------------------------------
(* Properties                                                               *)

\* The type of the database and of the open keys; ranks number the accounts
\* in order, and only accounts have rows that refer to them.
TypeOK ==
    /\ db \in Database
    /\ opened \subseteq [by : Users, key : 1 .. db.key]
    /\ \A u \in Accounts(db) : db.rank[u] <= Cardinality(Accounts(db))
    /\ \A u, v \in Accounts(db) : db.rank[u] = db.rank[v] => u = v
    /\ db.admin \cup db.disabled \cup db.protected \cup db.personal \subseteq Accounts(db)

\* No sequence of demotions, disablings, deletions, hand-overs and takeovers
\* leaves the role with someone who cannot use it: the super administrator,
\* once there is one, and the standby are two different administrators who
\* can sign in (enabledAdminCount's comment, ErrTargetIsSuper).
RolesFilled ==
    /\ db.super # Nobody => db.super \in EnabledAdmins(db)
    /\ db.standby # Nobody => db.standby \in EnabledAdmins(db) \ {db.super}

\* A former super administrator stays an administrator who can sign in for
\* the days a takeover protects them (requireUnprotectedTx).
ProtectedStayAdmins == db.protected \subseteq EnabledAdmins(db)

\* Pins, sealed keys, grants and the recovery code never name a retired
\* escrow key, whatever was opened before a replacement and used after it:
\* what they name could not be opened by anybody.
NothingNamesRetiredKey ==
    \A u \in Users :
        /\ {db.pin[u], db.sealed[u], db.grant[u], db.recovery} \subseteq {0, db.key}
        /\ db.sealed[u] = db.pin[u]

\* Nobody stops holding the key in use without a trace: whoever was given it,
\* and was not found unable to open it, still has the grant, or the key is to be
\* replaced.  However the accounts and roles change in between, no departed
\* administrator is left with a key that stays in use ("Rotation runs when
\* someone stops holding the key").
DepartedMarked == \A u \in db.knows : db.grant[u] # 0 \/ db.due

\* Whoever a step gives the administrator key to (a new grant, or a grant of
\* a new key) is the super administrator or the standby once the step is done:
\* a replacement hands the new key to nobody else who held the old one
\* (rotateTx, passKeyTx, enrollAdminSessionTx).
GivenOnlyToRoles ==
    [][\A u \in Users : db'.grant[u] # 0 /\ (db.grant[u] = 0 \/ db'.key # db.key) =>
          u \in {db'.super, db'.standby}]_vars

\* A replacement that is due does not stay due for ever while somebody stays able to
\* do it: one of their sign-ins runs it, whatever else happens to the accounts in between
\* (rotatorTx: "the super administrator, or the standby when the super administrator
\* holds no key").
DueIsReplaced == \A a \in Users : []<>~(db.due /\ MayReplace(a))

=============================================================================

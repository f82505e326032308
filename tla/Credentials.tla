----------------------------- MODULE Credentials -----------------------------
(***************************************************************************)
(* Custody of an account's data-encryption key (DEK): internal/users of    *)
(* GoPMgr (store.go, credentials.go, password_change.go, recovery.go,      *)
(* recovery_rotation.go, account_identity.go).                             *)
(*                                                                         *)
(* Several GoPMgr processes share one system.db.  A write transaction      *)
(* (inWriteTx: BEGIN IMMEDIATE) is one step; the reads an operation does   *)
(* before it, outside any lock, are steps of their own, so that another    *)
(* process can change, delete or recreate the account in between.          *)
(*                                                                         *)
(* Users are ordinary accounts.  The administrator who creates, disables   *)
(* and deletes them is the super administrator, an account outside Users,  *)
(* so the role checks of those operations succeed; the roles themselves    *)
(* are not state of this module.                                           *)
(***************************************************************************)
EXTENDS Integers, FiniteSets, TLC

CONSTANTS
    Users,           \* usernames
    Passwords,       \* passwords that satisfy ValidatePassword
    Clients,         \* GoPMgr processes, each running one operation at a time
    Ids,             \* random account identities ("ac1:...")
    Keys,            \* random data-encryption keys
    CodesPerSet,     \* RecoveryCodeCount
    SignInAttempts,  \* signInAttempts
    MaxGen,          \* bound: highest authorization generation reached
    MaxRow,          \* bound: highest recovery_codes row id handed out
    NoUser, NoPassword, NoId, NoKey

ASSUME CountAssumption ==
    /\ CodesPerSet \in Nat \ {0}
    /\ SignInAttempts \in Nat \ {0}
    /\ MaxGen \in Nat
    /\ MaxRow \in Nat

ASSUME SentinelAssumption ==
    /\ NoUser \notin Users
    /\ NoPassword \notin Passwords
    /\ NoId \notin Ids
    /\ NoKey \notin Keys

VARIABLES
    rows,      \* the users table, joined with account_identity_registry
    nextRow,   \* AUTOINCREMENT of recovery_codes
    folder,    \* the incarnation whose creation made the folder of a username
    drawn,     \* identities drawn so far
    minted,    \* keys generated so far
    op,        \* the operation each client is in the middle of
    session,   \* the session each client's last sign-in established
    pending,   \* the prepared, not yet stored recovery codes of each client
    dekOf,     \* history: the first key stored for an incarnation
    crossed    \* history: incarnations given codes prepared for another one

vars == <<rows, nextRow, folder, drawn, minted, op, session, pending, dekOf, crossed>>

-----------------------------------------------------------------------------
(* Values                                                                   *)

\* A salted Argon2id hash.  Two hashes are equal only if they are the same
\* write: the incarnation and generation of the write stand for the salt.
Hash == [pw   : Passwords \cup {NoPassword},
         id   : Ids \cup {NoId},
         gen  : Nat,
         weak : BOOLEAN]          \* auth.NeedsRehash

\* The DEK wrapped under a password; key = NoKey is the empty column.
Wrap == [key : Keys \cup {NoKey}, pw : Passwords \cup {NoPassword}]

\* One recovery_codes row; key = NoKey is a legacy code without a wrap.
Code == [row : Nat, key : Keys \cup {NoKey}, used : BOOLEAN]

\* A users row with its identity; id = NoId means there is no such row.
Row == [id       : Ids \cup {NoId},
        gen      : Nat,
        hash     : Hash,
        wrap     : Wrap,
        disabled : BOOLEAN,
        codes    : SUBSET Code]

NoHash == [pw |-> NoPassword, id |-> NoId, gen |-> 0, weak |-> FALSE]
NoWrap == [key |-> NoKey, pw |-> NoPassword]
NoRow  == [id |-> NoId, gen |-> 0, hash |-> NoHash, wrap |-> NoWrap,
           disabled |-> FALSE, codes |-> {}]

Kinds == {"idle", "signin", "issue", "change", "prepare", "purge"}

\* An operation between its unlocked reads and its write: the typed
\* passwords, the snapshot it read, and the key it unwrapped or made.
Op == [kind  : Kinds,
       phase : {"idle", "read", "commit"},
       user  : Users \cup {NoUser},
       pw    : Passwords \cup {NoPassword},
       new   : Passwords \cup {NoPassword},
       id    : Ids \cup {NoId},
       hash  : Hash,
       wrap  : Wrap,
       key   : Keys \cup {NoKey},
       tries : 0 .. SignInAttempts]

Idle == [kind |-> "idle", phase |-> "idle", user |-> NoUser, pw |-> NoPassword,
         new |-> NoPassword, id |-> NoId, hash |-> NoHash, wrap |-> NoWrap,
         key |-> NoKey, tries |-> 0]

\* The Principal and DEK a sign-in returned, with the hash it had checked.
Session == [user : Users \cup {NoUser}, id : Ids \cup {NoId}, gen : Nat,
            hash : Hash, key : Keys \cup {NoKey}]

NoSession == [user |-> NoUser, id |-> NoId, gen |-> 0, hash |-> NoHash,
              key |-> NoKey]

\* PendingRecoveryCodes.  id and seen are history: the incarnation whose key
\* the codes wrap, and the codes stored when the basis was read.
Pending == [user  : Users \cup {NoUser}, id : Ids \cup {NoId},
            key   : Keys \cup {NoKey}, basis : Nat \X (SUBSET Nat) \X Nat,
            seen  : SUBSET Code]

NoPending == [user |-> NoUser, id |-> NoId, key |-> NoKey,
              basis |-> <<0, {}, 0>>, seen |-> {}]

Exists(u) == rows[u].id # NoId

\* The client's session is one of an account in Users.
SignedIn(c) == session[c].id # NoId

-----------------------------------------------------------------------------
(* What an operation computes                                               *)

\* unlockKey: the keys an attempt may end up holding for row r.  A stored
\* wrap opens only under its own password; an account without one gets a
\* key made now.
UnlockKey(r, pw) ==
    IF r.wrap.key # NoKey
    THEN {k \in {r.wrap.key} : r.wrap.pw = pw}
    ELSE Keys \ minted

\* newRecoveryCodeSet and replaceRecoveryCodes: the rows that replace the
\* stored ones, with ids that AUTOINCREMENT never hands out again.
NewCodes(k) ==
    {[row |-> nextRow + i, key |-> k, used |-> FALSE] : i \in 1 .. CodesPerSet}

\* MAX(id): the one highest row id, or none.
HighestRow(codes) == {c.row : c \in {d \in codes : \A e \in codes : e.row <= d.row}}

\* Mutant: the basis forgets SUM(used).
BasisWithoutUsed(codes) == <<Cardinality(codes), HighestRow(codes), 0>>

\* recoveryCodesBasis: COUNT(*), MAX(id), SUM(used).
Basis(codes) ==
    <<Cardinality(codes), HighestRow(codes), Cardinality({c \in codes : c.used})>>

\* auth.HashPassword of a password stored in row r.
NewHash(r, pw) == [pw |-> pw, id |-> r.id, gen |-> r.gen + 1, weak |-> FALSE]

\* storeCredentialWorkTx on row r: the rehash, then the new wrap, each
\* counted by the account_identity_users_state trigger.  The columns are
\* written only over the values the attempt read, which the caller has
\* just checked in the same transaction.
StoreWork(r, o, rehash) ==
    LET h == IF rehash /\ r.hash.weak THEN 1 ELSE 0
        w == IF r.wrap.key = NoKey THEN 1 ELSE 0
    IN  [id       |-> r.id,
         gen      |-> r.gen + h + w,
         hash     |-> IF h = 1 THEN NewHash(r, o.pw) ELSE r.hash,
         wrap     |-> IF w = 1 THEN [key |-> o.key, pw |-> o.pw] ELSE r.wrap,
         disabled |-> r.disabled,
         codes    |-> r.codes]

\* Mutant: the new password is stored without re-wrapping the key.
SetPasswordHashOnly(r, pw, k) ==
    [r EXCEPT !.gen = @ + 1, !.hash = NewHash(r, pw)]

\* One UPDATE of password_hash and wrapped_dek_pw together.  Without a key
\* (k = NoKey) the column stays empty.
SetPassword(r, pw, k) ==
    [id       |-> r.id,
     gen      |-> r.gen + 1,
     hash     |-> NewHash(r, pw),
     wrap     |-> IF k = NoKey THEN NoWrap ELSE [key |-> k, pw |-> pw],
     disabled |-> r.disabled,
     codes    |-> r.codes]

\* History: the first key stored for incarnation i is its DEK for good.
RecordKey(i, k) ==
    dekOf' = IF dekOf[i] = NoKey THEN [dekOf EXCEPT ![i] = k] ELSE dekOf

-----------------------------------------------------------------------------
(* Initial states: an installation that may hold accounts made before       *)
(* ADR-001, without a key, with a weak hash, with or without legacy codes.  *)

LegacyCodes == {[row |-> i, key |-> NoKey, used |-> FALSE] : i \in 1 .. CodesPerSet}

LegacyRow(i, pw, codes) ==
    [id |-> i, gen |-> 1,
     hash |-> [pw |-> pw, id |-> i, gen |-> 1, weak |-> TRUE],
     wrap |-> NoWrap, disabled |-> FALSE, codes |-> codes]

Init ==
    /\ \/ /\ rows = [u \in Users |-> NoRow]
          /\ folder = [u \in Users |-> NoId]
          /\ drawn = {}
          /\ nextRow = 0
       \/ \E u \in Users, i \in Ids, pw \in Passwords, codes \in {{}, LegacyCodes} :
          /\ rows = [v \in Users |-> IF v = u THEN LegacyRow(i, pw, codes) ELSE NoRow]
          /\ folder = [v \in Users |-> IF v = u THEN i ELSE NoId]
          /\ drawn = {i}
          /\ nextRow = IF codes = {} THEN 0 ELSE CodesPerSet
    /\ minted = {}
    /\ op = [c \in Clients |-> Idle]
    /\ session = [c \in Clients |-> NoSession]
    /\ pending = [c \in Clients |-> NoPending]
    /\ dekOf = [i \in Ids |-> NoKey]
    /\ crossed = {}

-----------------------------------------------------------------------------
(* Reads outside any lock.                                                  *)

EndOp(c) == op' = [op EXCEPT ![c] = Idle]

\* readCredentialRow followed by checkPassword (and, for a sign-in, the
\* disabled check) and unlockKey: a refused attempt ends the operation.
Snapshot(c, kind, u, pw, tries, k) ==
    /\ op' = [op EXCEPT ![c] =
            [kind |-> kind, phase |-> "commit", user |-> u, pw |-> pw,
             new |-> NoPassword, id |-> rows[u].id, hash |-> rows[u].hash,
             wrap |-> rows[u].wrap, key |-> k, tries |-> tries]]
    /\ minted' = minted \cup {k}
    /\ UNCHANGED <<rows, nextRow, folder, drawn, session, pending, dekOf, crossed>>

Verifies(kind, u, pw) ==
    /\ Exists(u)
    /\ rows[u].hash.pw = pw
    /\ kind = "signin" => ~rows[u].disabled

\* SignIn and IssueRecoveryCodesWithPassword: the first attempt's reads.
Attempt(c, kind, u, pw) ==
    /\ op[c].kind = "idle"
    /\ kind = "issue" => ~SignedIn(c)      \* the administrator's process
    /\ Verifies(kind, u, pw)
    /\ \E k \in UnlockKey(rows[u], pw) : Snapshot(c, kind, u, pw, 1, k)

\* The next attempt of one whose snapshot had gone stale.
Reattempt(c) ==
    /\ op[c].phase = "read"
    /\ LET o == op[c] IN
       IF Verifies(o.kind, o.user, o.pw) /\ UnlockKey(rows[o.user], o.pw) # {}
       THEN \E k \in UnlockKey(rows[o.user], o.pw) :
                Snapshot(c, o.kind, o.user, o.pw, o.tries, k)
       ELSE /\ EndOp(c)
            /\ UNCHANGED <<rows, nextRow, folder, drawn, minted, session, pending,
                            dekOf, crossed>>

-----------------------------------------------------------------------------
(* The write transaction of a sign-in and of a recovery code issue:         *)
(* requireSameCredentialsTx and what follows it.                            *)

SameIncarnation(o) == rows[o.user].id = o.id

\* Mutant: only the hash is compared, not the wrap.
SameHash(o) == rows[o.user].hash = o.hash

SameCredentials(o) == rows[o.user].hash = o.hash /\ rows[o.user].wrap = o.wrap

Committing(c, kind) == op[c].kind = kind /\ op[c].phase = "commit"

\* The account whose password was checked is gone, or is disabled now.
Refused(c) ==
    /\ \/ /\ Committing(c, "signin") \/ Committing(c, "issue")
          /\ ~SameIncarnation(op[c])
       \/ /\ Committing(c, "signin")
          /\ SameIncarnation(op[c])
          /\ SameCredentials(op[c])
          /\ rows[op[c].user].disabled
    /\ EndOp(c)
    /\ UNCHANGED <<rows, nextRow, folder, drawn, minted, session, pending, dekOf, crossed>>

\* Mutant: one attempt too many.
StaleOnceMore(c) ==
    /\ Committing(c, "signin") \/ Committing(c, "issue")
    /\ SameIncarnation(op[c])
    /\ ~SameCredentials(op[c])
    /\ op' = [op EXCEPT ![c].phase = "read", ![c].tries = @ + 1]
    /\ UNCHANGED <<rows, nextRow, folder, drawn, minted, session, pending, dekOf, crossed>>

\* errStaleCredentials: try again, up to signInAttempts (ErrSignInContended).
Stale(c) ==
    /\ Committing(c, "signin") \/ Committing(c, "issue")
    /\ SameIncarnation(op[c])
    /\ ~SameCredentials(op[c])
    /\ \/ op[c].tries = SignInAttempts /\ EndOp(c)
       \/ /\ op[c].tries < SignInAttempts
          /\ op' = [op EXCEPT ![c].phase = "read", ![c].tries = @ + 1]
    /\ UNCHANGED <<rows, nextRow, folder, drawn, minted, session, pending, dekOf, crossed>>

\* SignIn and SignInHeadless, then Login's setSessionLocked, which drops the
\* previous session's pending codes.
SignInCommit(c) ==
    LET o == op[c]
        r == StoreWork(rows[o.user], o, TRUE)
    IN  /\ Committing(c, "signin")
        /\ SameIncarnation(o)
        /\ SameCredentials(o)
        /\ ~rows[o.user].disabled
        /\ r.gen <= MaxGen
        /\ rows' = [rows EXCEPT ![o.user] = r]
        /\ RecordKey(r.id, r.wrap.key)
        /\ session' = [session EXCEPT ![c] =
                [user |-> o.user, id |-> r.id, gen |-> r.gen, hash |-> r.hash, key |-> o.key]]
        /\ pending' = [pending EXCEPT ![c] = NoPending]
        /\ EndOp(c)
        /\ UNCHANGED <<nextRow, folder, drawn, minted, crossed>>

\* IssueRecoveryCodesWithPassword: the key, if new, and the codes together.
IssueCommit(c) ==
    LET o == op[c]
        r == StoreWork(rows[o.user], o, FALSE)
    IN  /\ Committing(c, "issue")
        /\ SameIncarnation(o)
        /\ SameCredentials(o)
        /\ r.gen <= MaxGen
        /\ nextRow + CodesPerSet <= MaxRow
        /\ rows' = [rows EXCEPT ![o.user] = [r EXCEPT !.codes = NewCodes(o.key)]]
        /\ nextRow' = nextRow + CodesPerSet
        /\ RecordKey(r.id, r.wrap.key)
        /\ EndOp(c)
        /\ UNCHANGED <<folder, drawn, minted, session, pending, crossed>>

-----------------------------------------------------------------------------
(* The signed-in user's own operations.  They name the account by the       *)
(* session's username alone.                                                *)

\* ChangePassword reads the hash and the wrap and prepares the new ones.
ChangeRead(c, pw, new) ==
    LET u == session[c].user IN
    /\ SignedIn(c)
    /\ op[c].kind = "idle"
    /\ Exists(u)
    /\ rows[u].hash.pw = pw
    /\ rows[u].wrap.key # NoKey /\ rows[u].wrap.pw = pw
    /\ op' = [op EXCEPT ![c] =
            [Idle EXCEPT !.kind = "change", !.phase = "commit", !.user = u, !.new = new,
                         !.hash = rows[u].hash, !.wrap = rows[u].wrap,
                         !.key = rows[u].wrap.key]]
    /\ UNCHANGED <<rows, nextRow, folder, drawn, minted, session, pending, dekOf, crossed>>

\* The compare-and-swap on the hash and wrap that were read.  When it finds
\* no such row nothing is written (ErrPasswordChangedElsewhere).
ChangeSwap(c) ==
    LET o == op[c] IN
    /\ Committing(c, "change")
    /\ IF Exists(o.user) /\ SameCredentials(o)
       THEN /\ rows[o.user].gen < MaxGen
            /\ rows' = [rows EXCEPT ![o.user] = SetPassword(@, o.new, o.key)]
       ELSE UNCHANGED rows
    /\ EndOp(c)
    /\ UNCHANGED <<nextRow, folder, drawn, minted, session, pending, dekOf, crossed>>

\* History: codes made for incarnation i are being stored for username u.
Cross(u, i) ==
    crossed' = IF rows[u].id = i THEN crossed ELSE crossed \cup {rows[u].id}

\* IssueRecoveryCodes of the session: its key, wrapped for its username.
IssueRecoveryCodes(c) ==
    LET s == session[c] IN
    /\ SignedIn(c)
    /\ op[c].kind = "idle"
    /\ Exists(s.user)
    /\ nextRow + CodesPerSet <= MaxRow
    /\ rows' = [rows EXCEPT ![s.user].codes = NewCodes(s.key)]
    /\ nextRow' = nextRow + CodesPerSet
    /\ Cross(s.user, s.id)
    /\ UNCHANGED <<folder, drawn, minted, op, session, pending, dekOf>>

\* PrepareRecoveryCodes: one read for the password and the key ...
PrepareRead(c, pw) ==
    LET u == session[c].user IN
    /\ SignedIn(c)
    /\ op[c].kind = "idle"
    /\ Exists(u)
    /\ rows[u].hash.pw = pw
    /\ rows[u].wrap.key # NoKey /\ rows[u].wrap.pw = pw
    /\ op' = [op EXCEPT ![c] =
            [Idle EXCEPT !.kind = "prepare", !.phase = "commit", !.user = u,
                         !.id = rows[u].id, !.key = rows[u].wrap.key]]
    /\ UNCHANGED <<rows, nextRow, folder, drawn, minted, session, pending, dekOf, crossed>>

\* ... and another for the basis.  Nothing is stored.
PrepareBasis(c) ==
    LET o == op[c] IN
    /\ Committing(c, "prepare")
    /\ pending' = [pending EXCEPT ![c] =
            [user |-> o.user, id |-> o.id, key |-> o.key,
             basis |-> Basis(rows[o.user].codes), seen |-> rows[o.user].codes]]
    /\ EndOp(c)
    /\ UNCHANGED <<rows, nextRow, folder, drawn, minted, session, dekOf, crossed>>

\* ConfirmRecoveryCodes takes the prepared set, and stores it if the basis
\* is unchanged and the username still has a row (a foreign key).
Confirm(c) ==
    LET p == pending[c] IN
    /\ SignedIn(c)
    /\ op[c].kind = "idle"
    /\ p.id # NoId
    /\ pending' = [pending EXCEPT ![c] = NoPending]
    /\ IF Exists(p.user) /\ Basis(rows[p.user].codes) = p.basis
       THEN /\ nextRow + CodesPerSet <= MaxRow
            /\ rows' = [rows EXCEPT ![p.user].codes = NewCodes(p.key)]
            /\ nextRow' = nextRow + CodesPerSet
            /\ Cross(p.user, p.id)
       ELSE UNCHANGED <<rows, nextRow, crossed>>
    /\ UNCHANGED <<folder, drawn, minted, op, session, dekOf>>

\* DiscardRecoveryCodes.
Discard(c) ==
    /\ pending[c].id # NoId
    /\ pending' = [pending EXCEPT ![c] = NoPending]
    /\ UNCHANGED <<rows, nextRow, folder, drawn, minted, op, session, dekOf, crossed>>

\* ResetWithRecoveryCode, by whoever holds an unused code of u: the scan and
\* the writes are one transaction, whose write fails if its reads are stale.
Reset(u, new) ==
    /\ Exists(u)
    /\ rows[u].gen < MaxGen
    /\ \E code \in rows[u].codes :
        /\ ~code.used
        /\ code.key = NoKey => rows[u].wrap.key = NoKey   \* else ErrLegacyRecoveryCode
        /\ rows' = [rows EXCEPT ![u] =
                [SetPassword(rows[u], new, code.key) EXCEPT
                    !.codes = (@ \ {code}) \cup {[code EXCEPT !.used = TRUE]}]]
        /\ IF code.key = NoKey THEN UNCHANGED dekOf ELSE RecordKey(rows[u].id, code.key)
    /\ UNCHANGED <<nextRow, folder, drawn, minted, op, session, pending, crossed>>

-----------------------------------------------------------------------------
(* The administrator's operations.                                          *)

\* Mutant: an existing folder is taken over instead of refused.
CreateAccountInFolder(u, pw) ==
    /\ ~Exists(u)
    /\ 2 <= MaxGen
    /\ \E i \in Ids \ drawn, k \in Keys \ minted :
        /\ rows' = [rows EXCEPT ![u] =
                [id |-> i, gen |-> 2,
                 hash |-> [pw |-> pw, id |-> i, gen |-> 1, weak |-> FALSE],
                 wrap |-> [key |-> k, pw |-> pw], disabled |-> FALSE, codes |-> {}]]
        /\ folder' = [folder EXCEPT ![u] = i]
        /\ drawn' = drawn \cup {i}
        /\ minted' = minted \cup {k}
        /\ RecordKey(i, k)
    /\ UNCHANGED <<nextRow, op, session, pending, crossed>>

\* CreateAccountWithPrincipal: the name is free, the folder is new, the
\* identity and the key are fresh.  The row is inserted at generation 1 and
\* given its wrap in the same transaction, which makes it generation 2.
CreateAccount(u, pw) ==
    /\ ~Exists(u)
    /\ folder[u] = NoId                                    \* ErrUserFolderExists
    /\ 2 <= MaxGen
    /\ \E i \in Ids \ drawn, k \in Keys \ minted :
        /\ rows' = [rows EXCEPT ![u] =
                [id |-> i, gen |-> 2,
                 hash |-> [pw |-> pw, id |-> i, gen |-> 1, weak |-> FALSE],
                 wrap |-> [key |-> k, pw |-> pw], disabled |-> FALSE, codes |-> {}]]
        /\ folder' = [folder EXCEPT ![u] = i]
        /\ drawn' = drawn \cup {i}
        /\ minted' = minted \cup {k}
        /\ RecordKey(i, k)
    /\ UNCHANGED <<nextRow, op, session, pending, crossed>>

\* The process dies after the folder is made and before COMMIT.
CreateInterrupted(u) ==
    /\ ~Exists(u)
    /\ folder[u] = NoId
    /\ \E i \in Ids \ drawn :
        /\ folder' = [folder EXCEPT ![u] = i]
        /\ drawn' = drawn \cup {i}
    /\ UNCHANGED <<rows, nextRow, minted, op, session, pending, dekOf, crossed>>

\* Mutant: the state trigger does not watch the disabled column.
SetDisabledUncounted(u, d) ==
    /\ Exists(u)
    /\ rows[u].disabled # d
    /\ rows[u].gen < MaxGen
    /\ rows' = [rows EXCEPT ![u].disabled = d]
    /\ UNCHANGED <<nextRow, folder, drawn, minted, op, session, pending, dekOf, crossed>>

\* SetDisabled; setting what is set already changes nothing.
SetDisabled(u, d) ==
    /\ Exists(u)
    /\ rows[u].disabled # d
    /\ rows[u].gen < MaxGen
    /\ rows' = [rows EXCEPT ![u].disabled = d, ![u].gen = @ + 1]
    /\ UNCHANGED <<nextRow, folder, drawn, minted, op, session, pending, dekOf, crossed>>

\* PurgeAccount deletes the row, and with it the codes, and retires the
\* identity in one transaction ...
Purge(c, u) ==
    /\ op[c].kind = "idle"
    /\ ~SignedIn(c)                        \* the administrator's process
    /\ Exists(u)
    /\ rows' = [rows EXCEPT ![u] = NoRow]
    /\ op' = [op EXCEPT ![c] = [Idle EXCEPT !.kind = "purge", !.phase = "commit", !.user = u]]
    /\ UNCHANGED <<nextRow, folder, drawn, minted, session, pending, dekOf, crossed>>

\* ... and then removes the folder of the username, or fails to
\* (ErrPurgeIncomplete).
PurgeFolder(c) ==
    /\ Committing(c, "purge")
    /\ \/ folder' = [folder EXCEPT ![op[c].user] = NoId]
       \/ UNCHANGED folder
    /\ EndOp(c)
    /\ UNCHANGED <<rows, nextRow, drawn, minted, session, pending, dekOf, crossed>>

\* Someone removes a leftover folder by hand, as ErrPurgeIncomplete and
\* ErrUserFolderExists ask.  Assumed: not under a purge that is still
\* removing it.
RemoveLeftover(u) ==
    /\ ~Exists(u)
    /\ folder[u] # NoId
    /\ \A c \in Clients : ~(Committing(c, "purge") /\ op[c].user = u)
    /\ folder' = [folder EXCEPT ![u] = NoId]
    /\ UNCHANGED <<rows, nextRow, drawn, minted, op, session, pending, dekOf, crossed>>

\* A process ends, or crashes, at any point; Logout is the case where no
\* operation is under way.
Exit(c) ==
    /\ op[c] # Idle \/ SignedIn(c)
    /\ EndOp(c)
    /\ session' = [session EXCEPT ![c] = NoSession]
    /\ pending' = [pending EXCEPT ![c] = NoPending]
    /\ UNCHANGED <<rows, nextRow, folder, drawn, minted, dekOf, crossed>>

-----------------------------------------------------------------------------

ClientStep(c) ==
    \/ \E u \in Users, pw \in Passwords, kind \in {"signin", "issue"} : Attempt(c, kind, u, pw)
    \/ Reattempt(c)
    \/ Refused(c)
    \/ Stale(c)
    \/ SignInCommit(c)
    \/ IssueCommit(c)
    \/ \E pw, new \in Passwords : ChangeRead(c, pw, new)
    \/ ChangeSwap(c)
    \/ IssueRecoveryCodes(c)
    \/ \E pw \in Passwords : PrepareRead(c, pw)
    \/ PrepareBasis(c)
    \/ Confirm(c)
    \/ Discard(c)
    \/ \E u \in Users : Purge(c, u)
    \/ PurgeFolder(c)
    \/ Exit(c)

AccountStep(u) ==
    \/ \E pw \in Passwords : CreateAccount(u, pw)
    \/ CreateInterrupted(u)
    \/ \E d \in BOOLEAN : SetDisabled(u, d)
    \/ \E pw \in Passwords : Reset(u, pw)
    \/ RemoveLeftover(u)

Next ==
    \/ \E c \in Clients : ClientStep(c)
    \/ \E u \in Users : AccountStep(u)

Spec == Init /\ [][Next]_vars

\* For TLC: processes, passwords, identities and keys are interchangeable.
Symmetry == Permutations(Clients) \cup Permutations(Passwords) \cup Permutations(Ids) \cup Permutations(Keys)

-----------------------------------------------------------------------------
(* Properties                                                               *)

\* The type of every variable; an account has finitely many codes.
TypeOK ==
    /\ rows \in [Users -> Row]
    /\ \A u \in Users : IsFiniteSet(rows[u].codes)
    /\ nextRow \in Nat
    /\ folder \in [Users -> Ids \cup {NoId}]
    /\ drawn \subseteq Ids
    /\ minted \subseteq Keys
    /\ op \in [Clients -> Op]
    /\ session \in [Clients -> Session]
    /\ pending \in [Clients -> Pending]
    /\ dekOf \in [Ids -> Keys \cup {NoKey}]
    /\ crossed \subseteq Ids

\* What a client holds is complete: an operation has the password it checked
\* and the key that password opened, a session and prepared codes have a key.
Shape ==
    \A c \in Clients :
        LET o == op[c]
            s == session[c]
            p == pending[c]
        IN  /\ o.kind # "idle" => o.user \in Users
            /\ o.phase = "read" => o.kind \in {"signin", "issue"}
            /\ o.kind \in {"signin", "issue"} =>
                 /\ o.pw \in Passwords /\ o.id \in Ids /\ o.key \in Keys
                 /\ o.hash.pw = o.pw
                 /\ o.wrap.key \in {NoKey, o.key}
            /\ o.kind = "change" =>
                 o.new \in Passwords /\ o.key \in Keys /\ o.wrap.key = o.key
            /\ o.kind = "prepare" => o.id \in Ids /\ o.key \in Keys
            /\ s.id # NoId => s.user \in Users /\ s.key \in Keys
            /\ p.id # NoId => p.user \in Users /\ p.key \in Keys

\* Whatever sign-ins, password changes, code issues, resets and deletions
\* race, every way into an account (its password wrap and each recovery code
\* that wraps a key) opens the one key the incarnation was first given, so
\* that its encrypted projects stay readable.  The only exception is an
\* incarnation that was given codes made in a session of another incarnation
\* of its name: see PreparedCodesRecoverStoredKey, and IssueRecoveryCodes,
\* which names the account by username too.
KeyCustody ==
    \A u \in Users : Exists(u) /\ rows[u].id \notin crossed =>
        /\ rows[u].wrap.key = dekOf[rows[u].id]
        /\ \A code \in rows[u].codes : code.key \in {NoKey, dekOf[rows[u].id]}

\* A sign-in, retried or not, never returns the key of another incarnation
\* than the one whose identity it returns (signIn's Principal and DEK).
SessionHoldsOwnKey ==
    \A c \in Clients : SignedIn(c) /\ session[c].id \notin crossed =>
        session[c].key = dekOf[session[c].id]

\* Identities name one incarnation each, and none that was not drawn yet is
\* in use or has a key.
IncarnationsDistinct ==
    /\ \A u, v \in Users : Exists(u) /\ rows[u].id = rows[v].id => u = v
    /\ \A u \in Users : Exists(u) => rows[u].id \in drawn
    /\ \A c \in Clients : SignedIn(c) => session[c].id \in drawn
    /\ \A i \in Ids \ drawn : dekOf[i] = NoKey

\* A key read in order to prepare codes, and the codes prepared with it, stay
\* the key of the incarnation they were read from.
PreparedHoldOwnKey ==
    \A c \in Clients :
        /\ op[c].kind = "prepare" /\ op[c].id \notin crossed =>
               op[c].key = dekOf[op[c].id]
        /\ pending[c].id # NoId /\ pending[c].id \notin crossed =>
               pending[c].key = dekOf[pending[c].id]

\* The inductive invariant behind KeyCustody and SessionHoldsOwnKey.
CustodyInv ==
    TypeOK /\ Shape /\ IncarnationsDistinct /\ KeyCustody /\ SessionHoldsOwnKey
        /\ PreparedHoldOwnKey

\* The password that signs in is the password that unwraps the key: no
\* operation leaves password_hash and wrapped_dek_pw from different writes.
PasswordOpensKey ==
    \A u \in Users : rows[u].wrap.key # NoKey => rows[u].wrap.pw = rows[u].hash.pw

\* As long as the registry still has the identity and the generation of a
\* session's Principal, the account is enabled and has the hash the sign-in
\* checked (or stored): the account_identity_users_state trigger misses no
\* change.
GenerationWitness ==
    \A c \in Clients : LET s == session[c] IN
        SignedIn(c) /\ rows[s.user].id = s.id /\ rows[s.user].gen = s.gen =>
            rows[s.user].hash = s.hash /\ ~rows[s.user].disabled

\* Prepared codes never silently replace codes other than those that were
\* stored when they were prepared: an equal basis means the same codes, used
\* and unused (ErrRecoveryCodesChanged).
BasisDetectsChange ==
    \A c \in Clients : LET p == pending[c] IN
        p.id # NoId /\ Exists(p.user) /\ Basis(rows[p.user].codes) = p.basis =>
            rows[p.user].codes = p.seen

\* Removing the folder of a deleted account never takes the folder of the
\* account created after it under the same name, nor of a live one.
FolderKept ==
    \A u \in Users : Exists(u) => folder[u] = rows[u].id

\* PrepareRecoveryCodes' comment: the DEK is "wrapped into every new code, so
\* the codes always recover the stored key" (recovery_rotation.go:60).  It
\* does not hold when the set is stored: ConfirmRecoveryCodes accepts a set
\* prepared for one incarnation for the next one of the same name when both
\* had no codes, because the basis does not name the account.
PreparedCodesRecoverStoredKey ==
    \A c \in Clients : LET p == pending[c] IN
        p.id # NoId /\ Exists(p.user) /\ Basis(rows[p.user].codes) = p.basis =>
            p.key = rows[p.user].wrap.key

=============================================================================

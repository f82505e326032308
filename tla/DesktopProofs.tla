---------------------------- MODULE DesktopProofs ----------------------------
(***************************************************************************)
(* Proofs about Desktop, for every set of accounts and of concurrent calls *)
(* and every number of sign-ins and deletions.                             *)
(***************************************************************************)
EXTENDS Desktop, TLAPS

-----------------------------------------------------------------------------
(* The inductive invariant                                                  *)

\* A session: SessionCoherent, of a state a of the App.
Coherent(a) ==
    /\ a \in App
    /\ {a.db, a.pending, a.accepted} \subseteq {Nobody, a.user}
    /\ a.access # Nobody => a.since = a.epoch /\ a.user \in Admins \ {a.access}
    /\ a.view => a.access # Nobody

\* A call k beside the session a: the call is never ahead of the session, and
\* in the same session it has the session's user; a key it holds is its own
\* user's.  Opening and deleting are about the user's own files,
\* administrator access is about another account's.
Attached(k, a) ==
    /\ k.epoch <= a.epoch
    /\ k.op # "none" /\ k.epoch = a.epoch => k.user = a.user
    /\ k.key \in {Nobody, k.user}
    /\ k.op = "none" <=> k.at = "idle"
    /\ k.op \in {"login", "first", "delete", "access", "view"} => k.target \in Accounts
    /\ k.op \in {"open", "delete"} => k.user \in Accounts
    /\ k.op = "access" => k.user \in Admins \ {k.target}

\* One deletion at a time, and what its steps so far leave for the rest: a
\* project that was read is there until it is removed, a removal is preceded
\* by its request and the record of it by the removal.
DeletionInProgress ==
    /\ \A c, d \in deleting : c = d
    /\ \A c \in deleting : LET u == call[c].target IN
        /\ call[c].at \in {"record", "remove"} => file[u] # "none"
        /\ call[c].at = "remove" => log[u].removals < log[u].requested
        /\ call[c].at = "removed" => log[u].deleted < log[u].removals

\* The inductive invariant.
DesktopInv ==
    /\ TypeOK
    /\ Coherent(app)
    /\ \A c \in Calls : Attached(call[c], app)
    /\ DeletionInProgress
    /\ DeletionsRecorded

-----------------------------------------------------------------------------
(* Sessions                                                                 *)

\* A change of the session from a to b: the epoch never goes back, and an
\* epoch has one user.
Later(a, b) == b.epoch >= a.epoch /\ (b.epoch = a.epoch => b.user = a.user)

\* Ending the access, closing the project, signing out and signing in leave
\* nothing of another session behind.
LEMMA SessionChanges ==
    ASSUME NEW a, Coherent(a)
    PROVE  /\ Coherent(WithoutAccess(a)) /\ Later(a, WithoutAccess(a))
           /\ Coherent(WithoutProject(a)) /\ Later(a, WithoutProject(a))
           /\ Later(a, a)
<1>1. a \in App /\ a.epoch \in Nat /\ 0 \in 0 .. MaxEpoch
  BY BoundsAssumption DEF Coherent, App
<1>2. Coherent(WithoutAccess(a)) /\ Later(a, WithoutAccess(a))
  <2>. DEFINE b == WithoutAccess(a)
  <2>1. b \in App
    BY <1>1 DEF App, Someone, WithoutAccess
  <2>2. /\ b.user = a.user /\ b.epoch = a.epoch /\ b.db = a.db /\ b.pending = a.pending
        /\ b.accepted = a.accepted /\ b.access = Nobody /\ b.view = FALSE
    BY <1>1 DEF App, WithoutAccess
  <2>. QED BY <1>1, <2>1, <2>2 DEF Coherent, Later
<1>3. Coherent(WithoutProject(a)) /\ Later(a, WithoutProject(a))
  <2>. DEFINE b == WithoutProject(a)
  <2>1. b \in App
    BY <1>1 DEF App, Someone, WithoutProject
  <2>2. /\ b.user = a.user /\ b.epoch = a.epoch /\ b.db = Nobody /\ b.pending = a.pending
        /\ b.accepted = a.accepted /\ b.access = a.access /\ b.since = a.since
        /\ b.view = a.view
    BY <1>1 DEF App, WithoutProject
  <2>. QED BY <1>1, <2>1, <2>2 DEF Coherent, Later
<1>. QED BY <1>1, <1>2, <1>3 DEF Later

\* Signing out, or in, leaves a coherent session that is later than the one before.
LEMMA SessionEnds ==
    ASSUME NEW a, Coherent(a), a.epoch < MaxEpoch
    PROVE  /\ Coherent(Cleared(a)) /\ Later(a, Cleared(a))
           /\ \A u \in Accounts : Coherent(SignedIn(a, u)) /\ Later(a, SignedIn(a, u))
<1>1. /\ a \in App /\ a.epoch \in Nat /\ a.epoch + 1 \in 0 .. MaxEpoch
      /\ 0 \in 0 .. MaxEpoch
  BY BoundsAssumption DEF Coherent, App
<1>. DEFINE b == Cleared(a)
<1>2. b \in App
  BY <1>1 DEF App, Someone, Cleared, WithoutAccess, WithoutProject
<1>3. /\ b.user = Nobody /\ b.epoch = a.epoch + 1 /\ b.db = Nobody /\ b.pending = Nobody
      /\ b.accepted = Nobody /\ b.access = Nobody /\ b.view = FALSE
  BY <1>1 DEF App, Cleared, WithoutAccess, WithoutProject
<1>4. Coherent(b) /\ Later(a, b)
  BY <1>1, <1>2, <1>3 DEF Coherent, Later
<1>5. ASSUME NEW u \in Accounts
      PROVE  Coherent(SignedIn(a, u)) /\ Later(a, SignedIn(a, u))
  <2>. DEFINE e == SignedIn(a, u)
  <2>1. e \in App
    BY <1>2 DEF SignedIn, App, Someone
  <2>2. /\ e.user = u /\ e.epoch = a.epoch + 1 /\ e.db = Nobody /\ e.pending = Nobody
        /\ e.accepted = Nobody /\ e.access = Nobody /\ e.view = FALSE
    BY <1>2, <1>3 DEF SignedIn, App
  <2>. QED BY <1>1, <2>1, <2>2 DEF Coherent, Later
<1>. QED BY <1>4, <1>5

\* A call stays attached to every later session.
LEMMA StaysAttached ==
    ASSUME NEW k \in Call, NEW a \in App, NEW b \in App, Attached(k, a), Later(a, b)
    PROVE  Attached(k, b)
<1>1. k.epoch \in Nat /\ a.epoch \in Nat /\ b.epoch \in Nat
  BY BoundsAssumption DEF Call, App
<1>. QED BY <1>1 DEF Attached, Later

-----------------------------------------------------------------------------
(* Steps that are no step of a deletion                                     *)

\* A step of the session alone.
LEMMA SessionStep ==
    ASSUME DesktopInv, Coherent(app'), Later(app, app'),
           UNCHANGED <<call, deleting, file, log>>
    PROVE  DesktopInv'
<1>1. \A c \in Calls : Attached(call[c], app')
  BY StaysAttached DEF DesktopInv, TypeOK, Coherent
<1>. QED BY <1>1 DEF DesktopInv, TypeOK, Coherent, DeletionInProgress, DeletionsRecorded

\* A step of one call that deletes nothing, and of the session: no file goes.
LEMMA CallStep ==
    ASSUME DesktopInv, NEW c \in Calls, NEW k \in Call,
           Coherent(app'), Later(app, app'), Attached(k, app'),
           call' = [call EXCEPT ![c] = k],
           call[c].op # "delete", k.op # "delete",
           file' \in [Accounts -> {"project", "empty", "none"}],
           \A u \in Accounts : file[u] # "none" => file'[u] # "none",
           UNCHANGED <<deleting, log>>
    PROVE  DesktopInv'
<1>1. \A d \in Calls : call'[d] = IF d = c THEN k ELSE call[d]
  BY DEF DesktopInv, TypeOK
<1>2. \A d \in Calls : Attached(call'[d], app')
  <2>1. \A d \in Calls : Attached(call[d], app')
    BY StaysAttached DEF DesktopInv, TypeOK, Coherent
  <2>. QED BY <1>1, <2>1
<1>3. TypeOK'
  <2>1. deleting' = {d \in Calls : call'[d].op = "delete"}
    BY <1>1 DEF DesktopInv, TypeOK
  <2>. QED BY <2>1 DEF DesktopInv, TypeOK, Coherent
<1>4. DeletionInProgress'
  <2>1. \A d \in deleting : call'[d] = call[d] /\ call[d].target \in Accounts
    BY <1>1 DEF DesktopInv, TypeOK, Attached
  <2>. QED BY <2>1 DEF DesktopInv, DeletionInProgress
<1>5. DeletionsRecorded'
  BY DEF DesktopInv, DeletionsRecorded
<1>. QED BY <1>2, <1>3, <1>4, <1>5 DEF DesktopInv

\* A call that is not running fits any session.
LEMMA IdleAttached ==
    ASSUME NEW a \in App
    PROVE  Idle \in Call /\ Attached(Idle, a) /\ Idle.op = "none"
<1>1. a.epoch \in Nat /\ 0 \in 0 .. MaxEpoch
  BY BoundsAssumption DEF App
<1>. QED BY <1>1 DEF Idle, Call, Someone, Attached

\* The end of a call that deletes nothing, with a change of the session.
LEMMA ReturnStep ==
    ASSUME DesktopInv, NEW c \in Calls, Coherent(app'), Later(app, app'),
           Return(c), call[c].op # "delete", UNCHANGED <<deleting, file, log>>
    PROVE  DesktopInv'
<1>1. Idle \in Call /\ Attached(Idle, app') /\ Idle.op = "none"
  BY IdleAttached DEF Coherent
<1>2. file \in [Accounts -> {"project", "empty", "none"}]
  BY DEF DesktopInv, TypeOK
<1>. QED BY <1>1, <1>2, CallStep DEF Return

\* The start of a call that deletes nothing.
LEMMA BeginStep ==
    ASSUME DesktopInv, NEW c \in Calls,
           NEW op \in {"login", "first", "open", "create", "codes", "prepare",
                       "encrypt", "access", "check"},
           NEW at \in {"work", "key", "publish"}, NEW target \in Someone,
           Begin(c, op, at, target), UNCHANGED <<app, deleting, file, log>>,
           op \in {"login", "first", "access"} => target \in Accounts,
           op = "open" => app.user \in Accounts,
           op = "access" => app.user \in Admins \ {target}
    PROVE  DesktopInv'
<1>. DEFINE k == Begun(op, at, target)
<1>1. k \in Call /\ k.op # "delete"
  BY DEF Begun, Call, Someone, DesktopInv, TypeOK, App
<1>2. Attached(k, app)
  <2>1. app.epoch \in Nat
    BY BoundsAssumption DEF DesktopInv, TypeOK, App
  <2>. QED BY <2>1 DEF Attached, Begun
<1>3. call[c].op # "delete"
  BY DEF Begin, DesktopInv, Attached
<1>4. Coherent(app) /\ Later(app, app)
  BY SessionChanges DEF DesktopInv
<1>5. file \in [Accounts -> {"project", "empty", "none"}]
  BY DEF DesktopInv, TypeOK
<1>. QED BY <1>1, <1>2, <1>3, <1>4, <1>5, CallStep DEF Begin

\* A late call that has a key of the session there is is one of its user's.
LEMMA OwnKey ==
    ASSUME DesktopInv, NEW c \in Calls, call[c].op # "none", SessionKey(c) # Nobody
    PROVE  SessionKey(c) = app.user /\ call[c].user = app.user /\ app.user \in Accounts
  BY DEF SessionKey, DesktopInv, Attached, TypeOK, App, Someone

\* Signing in and out, and the beginnings of calls.
LEMMA BeginsKeepInv ==
    ASSUME DesktopInv, NEW c \in Calls,
           \/ \E u \in Accounts : LoginBegin(c, u) \/ FirstBegin(c, u) \/ AccessBegin(c, u)
           \/ OpenBegin(c) \/ CreateBegin(c) \/ EncryptBegin(c) \/ CodesBegin(c)
           \/ PrepareBegin(c) \/ CheckBegin(c)
    PROVE  DesktopInv'
<1>u. app.user \in Someone /\ Nobody \in Someone /\ Accounts \subseteq Someone
  BY DEF DesktopInv, TypeOK, App, Someone
<1>1. ASSUME NEW u \in Accounts, LoginBegin(c, u) \/ FirstBegin(c, u) \/ AccessBegin(c, u)
      PROVE  DesktopInv'
  <2>1. CASE LoginBegin(c, u)
    BY <1>u, <2>1, BeginStep DEF LoginBegin
  <2>2. CASE FirstBegin(c, u)
    BY <1>u, <2>2, BeginStep DEF FirstBegin
  <2>3. CASE AccessBegin(c, u)
    BY <1>u, <2>3, BeginStep DEF AccessBegin
  <2>. QED BY <1>1, <2>1, <2>2, <2>3
<1>2. CASE OpenBegin(c)
  <2>1. app.user \in Accounts
    BY <1>2, <1>u DEF OpenBegin, Someone
  <2>. QED BY <1>2, <1>u, <2>1, BeginStep DEF OpenBegin
<1>3. CASE CreateBegin(c)
  BY <1>u, <1>3, BeginStep DEF CreateBegin
<1>4. CASE EncryptBegin(c)
  BY <1>u, <1>4, BeginStep DEF EncryptBegin
<1>5. CASE CodesBegin(c)
  BY <1>u, <1>5, BeginStep DEF CodesBegin
<1>6. CASE PrepareBegin(c)
  BY <1>u, <1>6, BeginStep DEF PrepareBegin
<1>7. CASE CheckBegin(c)
  BY <1>u, <1>7, BeginStep DEF CheckBegin
<1>. QED BY <1>1, <1>2, <1>3, <1>4, <1>5, <1>6, <1>7

\* The steps that end a call that deletes nothing.
LEMMA ReturnsKeepInv ==
    ASSUME DesktopInv, NEW c \in Calls,
           \/ LoginPublish(c) \/ FirstPublish(c) \/ Refuse(c) \/ WorkWithKey(c)
           \/ PreparePublish(c) \/ AccessPublish(c) \/ CheckFails(c) \/ ViewPublish(c)
    PROVE  DesktopInv'
<1>c. Coherent(app) /\ Attached(call[c], app) /\ call[c] \in Call /\ app \in App
  BY DEF DesktopInv, TypeOK
<1>s. /\ Coherent(WithoutAccess(app)) /\ Later(app, WithoutAccess(app)) /\ Later(app, app)
  BY <1>c, SessionChanges
<1>1. CASE LoginPublish(c)
  <2>1. call[c].target \in Accounts /\ call[c].op # "delete"
    BY <1>1, <1>c DEF LoginPublish, At, Attached
  <2>2. /\ Coherent(SignedIn(app, call[c].target)) /\ Later(app, SignedIn(app, call[c].target))
    BY <1>1, <1>c, <2>1, SessionEnds DEF LoginPublish
  <2>. QED BY <1>1, <1>c, <1>s, <2>1, <2>2, ReturnStep DEF LoginPublish
<1>2. CASE FirstPublish(c)
  <2>1. call[c].target \in Accounts /\ call[c].op # "delete"
    BY <1>2, <1>c DEF FirstPublish, At, Attached
  <2>2. /\ Coherent(SignedIn(app, call[c].target)) /\ Later(app, SignedIn(app, call[c].target))
    BY <1>2, <1>c, <2>1, SessionEnds DEF FirstPublish
  <2>. QED BY <1>2, <1>c, <1>s, <2>1, <2>2, ReturnStep DEF FirstPublish
<1>3. CASE Refuse(c)
  BY <1>3, <1>c, <1>s, ReturnStep DEF Refuse
<1>4. CASE WorkWithKey(c)
  BY <1>4, <1>c, <1>s, ReturnStep DEF WorkWithKey
<1>5. CASE PreparePublish(c)
  <2>. DEFINE b == [app EXCEPT !.pending = call[c].user]
  <2>1. CASE SameSession(c)
    <3>1. call[c].user = app.user /\ call[c].op # "delete"
      BY <1>5, <1>c, <2>1 DEF PreparePublish, At, SameSession, Attached
    <3>2. b \in App
      BY <1>c, <3>1 DEF App
    <3>3. /\ b.user = app.user /\ b.epoch = app.epoch /\ b.db = app.db
          /\ b.pending = app.user /\ b.accepted = app.accepted /\ b.access = app.access
          /\ b.since = app.since /\ b.view = app.view
      BY <1>c, <3>1 DEF App
    <3>4. Coherent(b) /\ Later(app, b)
      BY <1>c, <1>s, <3>2, <3>3 DEF Coherent, Later
    <3>. QED BY <1>5, <2>1, <3>1, <3>4, ReturnStep DEF PreparePublish
  <2>2. CASE ~SameSession(c)
    BY <1>5, <1>c, <1>s, <2>2, ReturnStep DEF PreparePublish, At
  <2>. QED BY <2>1, <2>2
<1>6. CASE AccessPublish(c)
  <2>. DEFINE b == [WithoutAccess(app) EXCEPT !.access = call[c].target,
                                              !.since = call[c].epoch]
  <2>1. CASE SameSession(c)
    <3>1. /\ call[c].epoch = app.epoch /\ call[c].op # "delete"
          /\ app.user \in Admins \ {call[c].target} /\ call[c].target \in Accounts
      BY <1>6, <1>c, <2>1 DEF AccessPublish, At, SameSession, Attached
    <3>2. b \in App
      BY <1>c, <1>s, <3>1 DEF Coherent, App, Someone
    <3>3. /\ b.user = app.user /\ b.epoch = app.epoch /\ b.db = app.db
          /\ b.pending = app.pending /\ b.accepted = app.accepted
          /\ b.access = call[c].target /\ b.since = app.epoch /\ b.view = FALSE
      BY <1>c, <1>s, <3>1 DEF App, WithoutAccess
    <3>4. Coherent(b) /\ Later(app, b)
      BY <1>c, <1>s, <3>1, <3>2, <3>3 DEF Coherent, Later
    <3>. QED BY <1>6, <2>1, <3>1, <3>4, ReturnStep DEF AccessPublish
  <2>2. CASE ~SameSession(c)
    BY <1>6, <1>c, <1>s, <2>2, ReturnStep DEF AccessPublish, At
  <2>. QED BY <2>1, <2>2
<1>7. CASE CheckFails(c)
  BY <1>7, <1>c, <1>s, ReturnStep DEF CheckFails, At
<1>8. CASE ViewPublish(c)
  <2>. DEFINE b == [app EXCEPT !.view = TRUE]
  <2>1. CASE /\ app.access = call[c].target
             /\ app.since = call[c].epoch /\ SameSession(c)
    <3>1. app.access # Nobody /\ call[c].op # "delete"
      BY <1>8, <1>c, <2>1, NobodyAssumption DEF ViewPublish, At, Attached
    <3>2. b \in App
      BY <1>c DEF App
    <3>3. /\ b.user = app.user /\ b.epoch = app.epoch /\ b.db = app.db
          /\ b.pending = app.pending /\ b.accepted = app.accepted
          /\ b.access = app.access /\ b.since = app.since
      BY <1>c DEF App
    <3>4. Coherent(b) /\ Later(app, b)
      BY <1>c, <1>s, <3>1, <3>2, <3>3 DEF Coherent, Later
    <3>. QED BY <1>8, <2>1, <3>1, <3>4, ReturnStep DEF ViewPublish
  <2>2. CASE ~(/\ app.access = call[c].target
               /\ app.since = call[c].epoch /\ SameSession(c))
    BY <1>8, <1>c, <1>s, <2>2, ReturnStep DEF ViewPublish, At
  <2>. QED BY <2>1, <2>2
<1>. QED BY <1>1, <1>2, <1>3, <1>4, <1>5, <1>6, <1>7, <1>8

\* The steps in the middle of calls that delete nothing, and OpenFinish.
LEMMA WorkKeepsInv ==
    ASSUME DesktopInv, NEW c \in Calls,
           \/ OpenFinish(c) \/ TakeKey(c) \/ AccessOpen(c) \/ AccessStop(c) \/ ViewOpen(c)
    PROVE  DesktopInv'
<1>c. Coherent(app) /\ Attached(call[c], app) /\ call[c] \in Call /\ app \in App
  BY DEF DesktopInv, TypeOK
<1>s. /\ Coherent(WithoutAccess(app)) /\ Later(app, WithoutAccess(app)) /\ Later(app, app)
      /\ Coherent(WithoutProject(app)) /\ Later(app, WithoutProject(app))
  BY <1>c, SessionChanges
<1>f. file \in [Accounts -> {"project", "empty", "none"}] /\ call \in [Calls -> Call]
  BY DEF DesktopInv, TypeOK
<1>1. CASE OpenFinish(c)
  <2>. DEFINE u == call[c].user
  <2>1. call[c].op # "delete" /\ call[c].op # "none" /\ Return(c) /\ UNCHANGED <<deleting, log>>
    BY <1>1 DEF OpenFinish, At
  <2>2. CASE UNCHANGED <<app, file>>
    BY <1>c, <1>s, <2>1, <2>2, ReturnStep
  <2>3. ASSUME SessionKey(c) # Nobody, app' = [app EXCEPT !.db = u, !.dbPath = u],
               UNCHANGED file
        PROVE  DesktopInv'
    <3>1. u = app.user
      BY <2>1, <2>3, OwnKey
    <3>2. app' \in App
      BY <1>c, <2>3, <3>1 DEF App
    <3>3. /\ app'.user = app.user /\ app'.epoch = app.epoch /\ app'.db = app.user
          /\ app'.pending = app.pending /\ app'.accepted = app.accepted
          /\ app'.access = app.access /\ app'.since = app.since /\ app'.view = app.view
      BY <1>c, <2>3, <3>1 DEF App
    <3>4. Coherent(app') /\ Later(app, app')
      BY <1>c, <1>s, <3>2, <3>3 DEF Coherent, Later
    <3>. QED BY <2>1, <2>3, <3>4, ReturnStep
  <2>4. ASSUME SessionKey(c) # Nobody, app' = [app EXCEPT !.db = Nobody],
               file' \in {file} \cup (IF file[u] = "none" /\ u \in Flat
                                      THEN {[file EXCEPT ![u] = "empty"]} ELSE {})
        PROVE  DesktopInv'
    <3>1. app' \in App
      BY <1>c, <2>4 DEF App, Someone
    <3>2. /\ app'.user = app.user /\ app'.epoch = app.epoch /\ app'.db = Nobody
          /\ app'.pending = app.pending /\ app'.accepted = app.accepted
          /\ app'.access = app.access /\ app'.since = app.since /\ app'.view = app.view
      BY <1>c, <2>4 DEF App
    <3>3. Coherent(app') /\ Later(app, app')
      BY <1>c, <1>s, <3>1, <3>2 DEF Coherent, Later
    <3>4. Idle \in Call /\ Attached(Idle, app') /\ Idle.op = "none"
      BY <3>1, IdleAttached
    <3>5. /\ file' \in [Accounts -> {"project", "empty", "none"}]
          /\ \A v \in Accounts : file[v] # "none" => file'[v] # "none"
      BY <1>f, <2>4
    <3>. QED BY <2>1, <3>3, <3>4, <3>5, CallStep DEF Return
  <2>. QED BY <1>1, <2>2, <2>3, <2>4 DEF OpenFinish
<1>2. CASE TakeKey(c)
  <2>1. call[c].op # "delete" /\ call[c].op # "none" /\ UNCHANGED <<deleting, file, log>>
    BY <1>2, <1>c DEF TakeKey, Attached
  <2>2. Coherent(app') /\ Later(app, app') /\ app' \in App
    BY <1>2, <1>c, <1>s DEF TakeKey, Coherent
  <2>3. CASE SessionKey(c) = Nobody
    BY <1>2, <2>1, <2>2, <2>3, ReturnStep DEF TakeKey
  <2>4. CASE SessionKey(c) # Nobody
    <3>. DEFINE k == [call[c] EXCEPT !.at = "work", !.key = SessionKey(c)]
    <3>1. call' = [call EXCEPT ![c] = k]
      BY <1>2, <1>f, <2>4 DEF TakeKey, Call
    <3>2. SessionKey(c) = call[c].user
      BY <2>1, <2>4, OwnKey
    <3>3. k \in Call
      BY <1>c, <3>2 DEF Call
    <3>4. /\ k.op = call[c].op /\ k.at = "work" /\ k.user = call[c].user
          /\ k.epoch = call[c].epoch /\ k.key = call[c].user /\ k.target = call[c].target
      BY <1>c, <3>2 DEF Call
    <3>5. Attached(k, app)
      BY <1>c, <2>1, <3>4 DEF Attached
    <3>6. Attached(k, app')
      BY <1>c, <2>2, <3>3, <3>5, StaysAttached
    <3>. QED BY <1>f, <2>1, <2>2, <3>1, <3>3, <3>4, <3>6, CallStep
  <2>. QED BY <2>3, <2>4
<1>3. CASE AccessOpen(c)
  <2>1. call[c].op = "access" /\ UNCHANGED <<app, deleting, file, log>>
    BY <1>3 DEF AccessOpen, At
  <2>2. CASE Return(c)
    BY <1>c, <1>s, <2>1, <2>2, ReturnStep
  <2>3. CASE call' = [call EXCEPT ![c].at = "stop", ![c].key = Nobody]
    <3>. DEFINE k == [call[c] EXCEPT !.at = "stop", !.key = Nobody]
    <3>1. call' = [call EXCEPT ![c] = k]
      BY <1>f, <2>3 DEF Call
    <3>2. k \in Call
      BY <1>c DEF Call, Someone
    <3>3. /\ k.op = "access" /\ k.at = "stop" /\ k.user = call[c].user
          /\ k.epoch = call[c].epoch /\ k.key = Nobody /\ k.target = call[c].target
      BY <1>c, <2>1 DEF Call
    <3>4. Attached(k, app)
      BY <1>c, <2>1, <3>3 DEF Attached
    <3>. QED BY <1>c, <1>s, <1>f, <2>1, <3>1, <3>2, <3>3, <3>4, CallStep
  <2>. QED BY <1>3, <2>2, <2>3 DEF AccessOpen
<1>4. CASE AccessStop(c)
  <2>. DEFINE k == [call[c] EXCEPT !.at = "publish"]
  <2>1. /\ call[c].op = "access" /\ UNCHANGED <<deleting, file, log>>
        /\ app' = WithoutAccess(app)
    BY <1>4 DEF AccessStop, At
  <2>2. call' = [call EXCEPT ![c] = k]
    BY <1>4, <1>f DEF AccessStop, Continue, Call
  <2>3. k \in Call
    BY <1>c DEF Call
  <2>4. /\ k.op = "access" /\ k.at = "publish" /\ k.user = call[c].user
        /\ k.epoch = call[c].epoch /\ k.key = call[c].key /\ k.target = call[c].target
    BY <1>c, <2>1 DEF Call
  <2>5. Attached(k, app)
    BY <1>c, <2>1, <2>4 DEF Attached
  <2>6. Attached(k, app')
    BY <1>c, <1>s, <2>1, <2>3, <2>5, StaysAttached DEF Coherent
  <2>. QED BY <1>s, <1>f, <2>1, <2>2, <2>3, <2>4, <2>6, CallStep
<1>5. CASE ViewOpen(c)
  <2>1. call[c].op = "check" /\ UNCHANGED <<app, deleting, file, log>>
    BY <1>5 DEF ViewOpen, At
  <2>2. CASE Return(c)
    BY <1>c, <1>s, <2>1, <2>2, ReturnStep
  <2>3. CASE /\ app.access # Nobody /\ app.since = app.epoch
             /\ call' = [call EXCEPT ![c].op = "view", ![c].at = "publish",
                                     ![c].target = app.access]
    <3>. DEFINE k == [call[c] EXCEPT !.op = "view", !.at = "publish", !.target = app.access]
    <3>1. call' = [call EXCEPT ![c] = k]
      BY <1>f, <2>3 DEF Call
    <3>2. app.access \in Accounts
      BY <1>c, <2>3 DEF App, Someone
    <3>3. k \in Call
      BY <1>c, <3>2 DEF Call, Someone
    <3>4. /\ k.op = "view" /\ k.at = "publish" /\ k.user = call[c].user
          /\ k.epoch = call[c].epoch /\ k.key = call[c].key /\ k.target = app.access
      BY <1>c, <2>1 DEF Call
    <3>5. Attached(k, app)
      BY <1>c, <2>1, <3>2, <3>4 DEF Attached
    <3>. QED BY <1>c, <1>s, <1>f, <2>1, <3>1, <3>3, <3>4, <3>5, CallStep
  <2>. QED BY <1>5, <2>2, <2>3 DEF ViewOpen
<1>. QED BY <1>1, <1>2, <1>3, <1>4, <1>5

\* The steps of the session alone.
LEMMA SessionKeepsInv ==
    ASSUME DesktopInv,
           \/ Logout \/ CloseProject \/ RepairAndSwap \/ AcceptWithoutCodes \/ TakeCodes
           \/ AdminStopUserData
    PROVE  DesktopInv'
<1>c. Coherent(app) /\ app \in App
  BY DEF DesktopInv, TypeOK
<1>s. /\ Coherent(WithoutAccess(app)) /\ Later(app, WithoutAccess(app)) /\ Later(app, app)
      /\ Coherent(WithoutProject(app)) /\ Later(app, WithoutProject(app))
  BY <1>c, SessionChanges
<1>1. CASE Logout
  BY <1>1, <1>c, SessionEnds, SessionStep DEF Logout
<1>2. CASE CloseProject
  BY <1>2, <1>c, <1>s, SessionStep DEF CloseProject
<1>3. CASE RepairAndSwap
  BY <1>3, <1>c, <1>s, SessionStep DEF RepairAndSwap
<1>4. CASE AcceptWithoutCodes
  <2>1. app' \in App
    BY <1>4, <1>c DEF AcceptWithoutCodes, App
  <2>2. /\ app'.user = app.user /\ app'.epoch = app.epoch /\ app'.db = app.db
        /\ app'.pending = app.pending /\ app'.accepted = app.user
        /\ app'.access = app.access /\ app'.since = app.since /\ app'.view = app.view
    BY <1>4, <1>c DEF AcceptWithoutCodes, App
  <2>3. Coherent(app') /\ Later(app, app')
    BY <1>c, <1>s, <2>1, <2>2 DEF Coherent, Later
  <2>. QED BY <1>4, <2>3, SessionStep DEF AcceptWithoutCodes
<1>5. CASE TakeCodes
  <2>1. app' \in App
    BY <1>5, <1>c DEF TakeCodes, App, Someone
  <2>2. /\ app'.user = app.user /\ app'.epoch = app.epoch /\ app'.db = app.db
        /\ app'.pending = Nobody /\ app'.accepted = app.accepted
        /\ app'.access = app.access /\ app'.since = app.since /\ app'.view = app.view
    BY <1>5, <1>c DEF TakeCodes, App
  <2>3. Coherent(app') /\ Later(app, app')
    BY <1>c, <1>s, <2>1, <2>2 DEF Coherent, Later
  <2>. QED BY <1>5, <2>3, SessionStep DEF TakeCodes
<1>6. CASE AdminStopUserData
  BY <1>6, <1>s, SessionStep DEF AdminStopUserData
<1>. QED BY <1>1, <1>2, <1>3, <1>4, <1>5, <1>6

-----------------------------------------------------------------------------
(* Steps of a deletion                                                      *)

\* A step of the only deletion, to another call record of its own or to the
\* end: what the rest of the invariant needs.
LEMMA DeleteStep ==
    ASSUME DesktopInv, NEW c \in Calls, NEW k \in Call,
           Coherent(app'), Later(app, app'), Attached(k, app'),
           call' = [call EXCEPT ![c] = k],
           deleting \subseteq {c},
           k.op \in {"delete", "none"},
           deleting' = IF k.op = "delete" THEN {c} ELSE {},
           file' \in [Accounts -> {"project", "empty", "none"}],
           log' \in [Accounts -> [requested : Nat, deleted : Nat, removals : Nat]],
           DeletionsRecorded',
           k.op = "delete" =>
             /\ k.at \in {"record", "remove"} => file'[k.target] # "none"
             /\ k.at = "remove" => log'[k.target].removals < log'[k.target].requested
             /\ k.at = "removed" => log'[k.target].deleted < log'[k.target].removals
    PROVE  DesktopInv'
<1>1. \A d \in Calls : call'[d] = IF d = c THEN k ELSE call[d]
  BY DEF DesktopInv, TypeOK
<1>2. \A d \in Calls : Attached(call'[d], app')
  <2>1. \A d \in Calls : Attached(call[d], app')
    BY StaysAttached DEF DesktopInv, TypeOK, Coherent
  <2>. QED BY <1>1, <2>1
<1>3. TypeOK'
  <2>1. \A d \in Calls : call[d].op = "delete" => d = c
    BY DEF DesktopInv, TypeOK
  <2>2. deleting' = {d \in Calls : call'[d].op = "delete"}
    BY <1>1, <2>1
  <2>. QED BY <2>2 DEF DesktopInv, TypeOK, Coherent
<1>4. DeletionInProgress'
  BY <1>1 DEF DeletionInProgress
<1>. QED BY <1>2, <1>3, <1>4 DEF DesktopInv

\* The steps of a deletion keep the invariant.
LEMMA DeletionKeepsInv ==
    ASSUME DesktopInv, NEW c \in Calls,
           \/ DeleteBegin(c) \/ DeleteLook(c) \/ DeleteClose(c) \/ DeleteRead(c)
           \/ DeleteRecord(c) \/ DeleteRemove(c) \/ DeleteOutcome(c)
    PROVE  DesktopInv'
<1>c. Coherent(app) /\ Attached(call[c], app) /\ call[c] \in Call /\ app \in App
  BY DEF DesktopInv, TypeOK
<1>s. /\ Later(app, app)
      /\ Coherent(WithoutProject(app)) /\ Later(app, WithoutProject(app))
  BY <1>c, SessionChanges
<1>f. /\ file \in [Accounts -> {"project", "empty", "none"}] /\ call \in [Calls -> Call]
      /\ log \in [Accounts -> [requested : Nat, deleted : Nat, removals : Nat]]
      /\ DeletionsRecorded
  BY DEF DesktopInv, TypeOK
<1>d. call[c].op = "delete" => deleting = {c} /\ call[c].target \in Accounts
  BY DEF DesktopInv, TypeOK, DeletionInProgress, Attached
<1>i. Idle \in Call /\ Attached(Idle, app) /\ Idle.op = "none"
  BY <1>c, IdleAttached
<1>n. DeletionsRecorded' <=>
        \A u \in Accounts : log'[u].deleted <= log'[u].removals
                            /\ log'[u].removals <= log'[u].requested
  BY DEF DeletionsRecorded
\* A deletion that ends before it has removed anything.
<1>r. ASSUME call[c].op = "delete", DeleteReturn(c), UNCHANGED <<app, file, log>>
      PROVE  DesktopInv'
  <2>1. deleting' = {} /\ call' = [call EXCEPT ![c] = Idle]
    BY <1>d, <1>r DEF DeleteReturn, Return
  <2>2. DeletionsRecorded'
    BY <1>f, <1>r DEF DeletionsRecorded
  <2>. QED BY <1>c, <1>s, <1>f, <1>d, <1>i, <1>r, <2>1, <2>2, DeleteStep
\* The call goes on, with another key or not.
<1>m. ASSUME NEW at \in {"close", "key", "record", "remove", "removed", "failed"},
             NEW key \in {call[c].key, call[c].user}, call[c].op = "delete"
      PROVE  LET k == [call[c] EXCEPT !.at = at, !.key = key]
             IN  /\ k \in Call /\ Attached(k, app) /\ k.op = "delete" /\ k.at = at
                 /\ k.target = call[c].target
  <2>. DEFINE k == [call[c] EXCEPT !.at = at, !.key = key]
  <2>1. k \in Call
    BY <1>c DEF Call
  <2>2. /\ k.op = "delete" /\ k.at = at /\ k.user = call[c].user
        /\ k.epoch = call[c].epoch /\ k.key = key /\ k.target = call[c].target
    BY <1>c, <1>m DEF Call
  <2>. QED BY <1>c, <1>m, <2>1, <2>2 DEF Attached
<1>1. CASE DeleteBegin(c)
  <2>. DEFINE k == Begun("delete", "work", app.user)
  <2>1. app.user \in Accounts
    BY <1>1, <1>c DEF DeleteBegin, App, Someone
  <2>2. k \in Call /\ k.op = "delete" /\ k.at = "work"
    BY <1>c, <2>1 DEF Begun, Call, App, Someone
  <2>3. Attached(k, app)
    <3>1. app.epoch \in Nat
      BY <1>c, BoundsAssumption DEF App
    <3>. QED BY <2>1, <3>1 DEF Attached, Begun
  <2>4. /\ deleting = {} /\ deleting' = {c} /\ call' = [call EXCEPT ![c] = k]
        /\ UNCHANGED <<app, file, log>>
    BY <1>1 DEF DeleteBegin, Begin
  <2>5. DeletionsRecorded'
    BY <1>f, <2>4 DEF DeletionsRecorded
  <2>. QED BY <1>c, <1>s, <1>f, <2>2, <2>3, <2>4, <2>5, DeleteStep
<1>2. CASE DeleteLook(c)
  <2>1. call[c].op = "delete" /\ UNCHANGED <<app, deleting, file, log>>
    BY <1>2 DEF DeleteLook, At
  <2>2. PICK at \in {"close", "key"} : Continue(c, at)
    BY <1>2 DEF DeleteLook
  <2>. DEFINE k == [call[c] EXCEPT !.at = at, !.key = call[c].key]
  <2>3. call' = [call EXCEPT ![c] = k]
    BY <1>f, <2>2 DEF Continue, Call
  <2>4. k \in Call /\ Attached(k, app) /\ k.op = "delete" /\ k.at = at
    <3>1. CASE at = "close"
      BY <1>m, <2>1, <3>1
    <3>2. CASE at = "key"
      BY <1>m, <2>1, <3>2
    <3>. QED BY <2>2, <3>1, <3>2
  <2>5. DeletionsRecorded'
    BY <1>f, <2>1 DEF DeletionsRecorded
  <2>. QED BY <1>c, <1>s, <1>f, <1>d, <2>1, <2>3, <2>4, <2>5, DeleteStep
<1>3. CASE DeleteClose(c)
  <2>. DEFINE k == [call[c] EXCEPT !.at = "key", !.key = call[c].key]
  <2>1. /\ call[c].op = "delete" /\ UNCHANGED <<deleting, file, log>>
        /\ call' = [call EXCEPT ![c] = k]
    BY <1>3, <1>f DEF DeleteClose, At, Continue, Call
  <2>2. Coherent(app') /\ Later(app, app') /\ app' \in App
    BY <1>3, <1>c, <1>s DEF DeleteClose, Coherent
  <2>3. k \in Call /\ Attached(k, app) /\ k.op = "delete" /\ k.at = "key"
    BY <1>m, <2>1
  <2>4. Attached(k, app')
    BY <1>c, <2>2, <2>3, StaysAttached
  <2>5. DeletionsRecorded'
    BY <1>f, <2>1 DEF DeletionsRecorded
  <2>. QED BY <1>f, <1>d, <2>1, <2>2, <2>3, <2>4, <2>5, DeleteStep
<1>4. CASE DeleteRead(c)
  <2>1. call[c].op = "delete" /\ UNCHANGED <<app, file, log>>
    BY <1>4 DEF DeleteRead, At
  <2>2. ASSUME SessionKey(c) # Nobody, file[call[c].target] # "none",
               call' = [call EXCEPT ![c].at = "record", ![c].key = SessionKey(c)],
               UNCHANGED deleting
        PROVE  DesktopInv'
    <3>. DEFINE k == [call[c] EXCEPT !.at = "record", !.key = SessionKey(c)]
    <3>1. call' = [call EXCEPT ![c] = k]
      BY <1>f, <2>2 DEF Call
    <3>2. SessionKey(c) = call[c].user
      BY <2>1, <2>2, OwnKey
    <3>3. /\ k \in Call /\ Attached(k, app) /\ k.op = "delete" /\ k.at = "record"
          /\ k.target = call[c].target
      BY <1>m, <2>1, <3>2
    <3>4. DeletionsRecorded'
      BY <1>f, <2>1 DEF DeletionsRecorded
    <3>. QED BY <1>c, <1>s, <1>f, <1>d, <2>1, <2>2, <3>1, <3>3, <3>4, DeleteStep
  <2>. QED BY <1>4, <1>r, <2>1, <2>2 DEF DeleteRead
<1>5. CASE DeleteRecord(c)
  <2>. DEFINE u == call[c].target
  <2>1. call[c].op = "delete" /\ call[c].at = "record" /\ UNCHANGED <<app, file>>
    BY <1>5 DEF DeleteRecord, At
  <2>2. ASSUME SessionKey(c) # Nobody,
               log' = [log EXCEPT ![u].requested = @ + 1],
               call' = [call EXCEPT ![c].at = "remove", ![c].key = SessionKey(c)],
               UNCHANGED deleting
        PROVE  DesktopInv'
    <3>. DEFINE k == [call[c] EXCEPT !.at = "remove", !.key = SessionKey(c)]
    <3>1. call' = [call EXCEPT ![c] = k]
      BY <1>f, <2>2 DEF Call
    <3>2. SessionKey(c) = call[c].user
      BY <2>1, <2>2, OwnKey
    <3>3. /\ k \in Call /\ Attached(k, app) /\ k.op = "delete" /\ k.at = "remove"
          /\ k.target = u
      BY <1>m, <2>1, <3>2
    <3>4. /\ log' \in [Accounts -> [requested : Nat, deleted : Nat, removals : Nat]]
          /\ \A v \in Accounts :
               /\ log'[v].requested = IF v = u THEN log[v].requested + 1 ELSE log[v].requested
               /\ log'[v].deleted = log[v].deleted /\ log'[v].removals = log[v].removals
      BY <1>d, <1>f, <2>1, <2>2
    <3>5. /\ DeletionsRecorded' /\ log'[u].removals < log'[u].requested
      <4>1. \A v \in Accounts :
              log[v].requested \in Nat /\ log[v].deleted \in Nat /\ log[v].removals \in Nat
        BY <1>f
      <4>. QED BY <1>d, <1>f, <1>n, <2>1, <3>4, <4>1 DEF DeletionsRecorded
    <3>6. file[u] # "none"
      BY <1>d, <2>1 DEF DesktopInv, DeletionInProgress
    <3>. QED BY <1>c, <1>s, <1>f, <1>d, <2>1, <2>2, <3>1, <3>3, <3>4, <3>5, <3>6, DeleteStep
  <2>. QED BY <1>5, <1>r, <2>1, <2>2 DEF DeleteRecord
<1>6. CASE DeleteRemove(c)
  <2>. DEFINE u == call[c].target
  <2>1. call[c].op = "delete" /\ call[c].at = "remove" /\ UNCHANGED <<app, deleting>>
    BY <1>6 DEF DeleteRemove, At
  <2>2. file[u] # "none" /\ log[u].removals < log[u].requested
    BY <1>d, <2>1 DEF DesktopInv, DeletionInProgress
  <2>3. ASSUME file' = [file EXCEPT ![u] = "none"],
               log' = IF file[u] = "none" THEN log ELSE [log EXCEPT ![u].removals = @ + 1],
               Continue(c, "removed")
        PROVE  DesktopInv'
    <3>. DEFINE k == [call[c] EXCEPT !.at = "removed", !.key = call[c].key]
    <3>1. call' = [call EXCEPT ![c] = k]
      BY <1>f, <2>3 DEF Continue, Call
    <3>2. /\ k \in Call /\ Attached(k, app) /\ k.op = "delete" /\ k.at = "removed"
          /\ k.target = u
      BY <1>m, <2>1
    <3>3. /\ log' \in [Accounts -> [requested : Nat, deleted : Nat, removals : Nat]]
          /\ \A v \in Accounts :
               /\ log'[v].removals = IF v = u THEN log[v].removals + 1 ELSE log[v].removals
               /\ log'[v].deleted = log[v].deleted /\ log'[v].requested = log[v].requested
      BY <1>d, <1>f, <2>1, <2>2, <2>3
    <3>4. /\ DeletionsRecorded' /\ log'[u].deleted < log'[u].removals
      <4>1. \A v \in Accounts :
              log[v].requested \in Nat /\ log[v].deleted \in Nat /\ log[v].removals \in Nat
        BY <1>f
      <4>. QED BY <1>d, <1>f, <1>n, <2>1, <2>2, <3>3, <4>1 DEF DeletionsRecorded
    <3>5. file' \in [Accounts -> {"project", "empty", "none"}]
      BY <1>f, <2>3
    <3>. QED BY <1>c, <1>s, <1>d, <2>1, <3>1, <3>2, <3>3, <3>4, <3>5, DeleteStep
  <2>4. ASSUME Continue(c, "failed"), UNCHANGED <<file, log>>
        PROVE  DesktopInv'
    <3>. DEFINE k == [call[c] EXCEPT !.at = "failed", !.key = call[c].key]
    <3>1. call' = [call EXCEPT ![c] = k]
      BY <1>f, <2>4 DEF Continue, Call
    <3>2. k \in Call /\ Attached(k, app) /\ k.op = "delete" /\ k.at = "failed"
      BY <1>m, <2>1
    <3>3. DeletionsRecorded'
      BY <1>f, <2>4 DEF DeletionsRecorded
    <3>. QED BY <1>c, <1>s, <1>f, <1>d, <2>1, <2>4, <3>1, <3>2, <3>3, DeleteStep
  <2>. QED BY <1>6, <2>3, <2>4 DEF DeleteRemove
<1>7. CASE DeleteOutcome(c)
  <2>. DEFINE u == call[c].target
  <2>1. call[c].op = "delete" /\ DeleteReturn(c) /\ UNCHANGED <<app, file>>
    BY <1>7 DEF DeleteOutcome
  <2>2. CASE UNCHANGED log
    BY <1>r, <2>1, <2>2
  <2>3. ASSUME call[c].at = "removed", log' = [log EXCEPT ![u].deleted = @ + 1]
        PROVE  DesktopInv'
    <3>1. deleting' = {} /\ call' = [call EXCEPT ![c] = Idle]
      BY <1>d, <2>1 DEF DeleteReturn, Return
    <3>2. log[u].deleted < log[u].removals
      BY <1>d, <2>1, <2>3 DEF DesktopInv, DeletionInProgress
    <3>3. /\ log' \in [Accounts -> [requested : Nat, deleted : Nat, removals : Nat]]
          /\ \A v \in Accounts :
               /\ log'[v].deleted = IF v = u THEN log[v].deleted + 1 ELSE log[v].deleted
               /\ log'[v].removals = log[v].removals /\ log'[v].requested = log[v].requested
      BY <1>d, <1>f, <2>1, <2>3
    <3>4. DeletionsRecorded'
      <4>1. \A v \in Accounts :
              log[v].requested \in Nat /\ log[v].deleted \in Nat /\ log[v].removals \in Nat
        BY <1>f
      <4>. QED BY <1>d, <1>f, <1>n, <2>1, <3>2, <3>3, <4>1 DEF DeletionsRecorded
    <3>. QED BY <1>c, <1>s, <1>f, <1>d, <1>i, <2>1, <3>1, <3>3, <3>4, DeleteStep
  <2>. QED BY <1>7, <2>2, <2>3 DEF DeleteOutcome
<1>. QED BY <1>1, <1>2, <1>3, <1>4, <1>5, <1>6, <1>7

-----------------------------------------------------------------------------
(* The invariant                                                            *)

\* The invariant holds at first.
LEMMA InitInv == Init => DesktopInv
<1>. SUFFICES ASSUME Init PROVE DesktopInv
  OBVIOUS
<1>1. NewApp \in App /\ Coherent(NewApp)
  BY BoundsAssumption DEF NewApp, App, Someone, Coherent
<1>2. Idle \in Call /\ Attached(Idle, NewApp) /\ Idle.op = "none"
  BY <1>1, IdleAttached
<1>3. TypeOK
  BY <1>1, <1>2 DEF Init, TypeOK
<1>4. DeletionInProgress /\ DeletionsRecorded
  BY DEF Init, DeletionInProgress, DeletionsRecorded
<1>. QED BY <1>1, <1>2, <1>3, <1>4 DEF Init, DesktopInv

\* A restarted process is as a new one, beside the files and the logs there are.
LEMMA RestartKeepsInv ==
    ASSUME DesktopInv, Restart
    PROVE  DesktopInv'
<1>1. NewApp \in App /\ Coherent(NewApp)
  BY BoundsAssumption DEF NewApp, App, Someone, Coherent
<1>2. Idle \in Call /\ Attached(Idle, NewApp) /\ Idle.op = "none"
  BY <1>1, IdleAttached
<1>3. TypeOK'
  BY <1>1, <1>2 DEF Restart, TypeOK, DesktopInv
<1>4. DeletionInProgress' /\ DeletionsRecorded'
  BY DEF Restart, DesktopInv, DeletionInProgress, DeletionsRecorded
<1>. QED BY <1>1, <1>2, <1>3, <1>4 DEF Restart, DesktopInv

\* Every step keeps the invariant.
LEMMA NextKeepsInv == DesktopInv /\ [Next]_vars => DesktopInv'
<1>. SUFFICES ASSUME DesktopInv, [Next]_vars PROVE DesktopInv'
  OBVIOUS
<1>1. ASSUME NEW c \in Calls, NEW u \in Accounts,
             LoginBegin(c, u) \/ FirstBegin(c, u) \/ AccessBegin(c, u)
      PROVE  DesktopInv'
  BY <1>1, BeginsKeepInv
<1>2. ASSUME NEW c \in Calls,
             \/ LoginPublish(c) \/ FirstPublish(c) \/ Refuse(c) \/ WorkWithKey(c)
             \/ PreparePublish(c) \/ AccessPublish(c) \/ CheckFails(c) \/ ViewPublish(c)
      PROVE  DesktopInv'
  BY <1>2, ReturnsKeepInv
<1>3. ASSUME NEW c \in Calls,
             \/ OpenBegin(c) \/ CreateBegin(c) \/ EncryptBegin(c) \/ CodesBegin(c)
             \/ PrepareBegin(c) \/ CheckBegin(c)
      PROVE  DesktopInv'
  BY <1>3, BeginsKeepInv
<1>4. ASSUME NEW c \in Calls,
             \/ OpenFinish(c) \/ TakeKey(c) \/ AccessOpen(c) \/ AccessStop(c) \/ ViewOpen(c)
      PROVE  DesktopInv'
  BY <1>4, WorkKeepsInv
<1>5. ASSUME NEW c \in Calls,
             \/ DeleteBegin(c) \/ DeleteLook(c) \/ DeleteClose(c) \/ DeleteRead(c)
             \/ DeleteRecord(c) \/ DeleteRemove(c) \/ DeleteOutcome(c)
      PROVE  DesktopInv'
  BY <1>5, DeletionKeepsInv
<1>6. CASE \/ Logout \/ CloseProject \/ RepairAndSwap \/ AcceptWithoutCodes \/ TakeCodes
           \/ AdminStopUserData
  BY <1>6, SessionKeepsInv
<1>7. CASE Restart
  BY <1>7, RestartKeepsInv
<1>8. CASE UNCHANGED vars
  BY <1>8 DEF vars, DesktopInv, TypeOK, Coherent, DeletionInProgress, DeletionsRecorded
<1>. QED BY <1>1, <1>2, <1>3, <1>4, <1>5, <1>6, <1>7, <1>8 DEF Next

\* The type of every variable of the session, in every reachable state.
THEOREM DesktopTypes == Spec => []TypeOK
<1>1. DesktopInv => TypeOK
  BY DEF DesktopInv
<1>. QED BY <1>1, InitInv, NextKeepsInv, PTL DEF Spec

\* A call never holds a key of another account than the one it began for,
\* whoever signs out or in while it runs (sessionDEK).
THEOREM KeysFitFolders == Spec => []KeyFitsFolder
<1>1. DesktopInv => KeyFitsFolder
  BY DEF DesktopInv, Attached, KeyFitsFolder
<1>. QED BY <1>1, InitInv, NextKeepsInv, PTL DEF Spec

\* Whatever is open, prepared or accepted is of the user who is signed in
\* now (setSessionLocked, clearSessionLocked).
THEOREM SessionsCoherent == Spec => []SessionCoherent
<1>1. DesktopInv => SessionCoherent
  BY DEF DesktopInv, Coherent, SessionCoherent
<1>. QED BY <1>1, InitInv, NextKeepsInv, PTL DEF Spec

\* No project is removed without a request in the deletion log, nor recorded
\* as deleted without having been removed, wherever the process ends
\* (DeleteProject).
THEOREM DeletionsAreRecorded == Spec => []DeletionsRecorded
<1>1. DesktopInv => DeletionsRecorded
  BY DEF DesktopInv
<1>. QED BY <1>1, InitInv, NextKeepsInv, PTL DEF Spec

\* A call of an earlier session ends, goes on, closes the project or ends
\* the access of the session there is, and changes nothing else of it: "a
\* sign-out or another sign-in that finished meanwhile is never overtaken by
\* a late completion" (session_state.go).
THEOREM LateCallsAreHarmless == Spec => LateCallsPublishNothing
<1>1. ASSUME DesktopInv, [Next]_vars, NEW c \in Calls, LateStep(c)
      PROVE  app' \in {app, WithoutProject(app), WithoutAccess(app)}
  <2>. DEFINE Harmless == app' \in {app, WithoutProject(app), WithoutAccess(app)}
  <2>c. Attached(call[c], app) /\ call[c] \in Call /\ call \in [Calls -> Call] /\ app \in App
    BY <1>1 DEF DesktopInv, TypeOK
  <2>l. /\ call[c].op # "none" /\ call'[c] # call[c] /\ call[c].epoch # app.epoch
        /\ app'.epoch >= app.epoch
    BY <1>1, <2>c DEF LateStep, Attached
  <2>o. ASSUME NEW d \in Calls, d # c, NEW k, call' = [call EXCEPT ![d] = k]
        PROVE  FALSE
    BY <2>c, <2>l, <2>o
  <2>1. ASSUME NEW d \in Calls, NEW u \in Accounts,
               LoginBegin(d, u) \/ FirstBegin(d, u) \/ AccessBegin(d, u)
        PROVE  Harmless
    BY <2>1 DEF LoginBegin, FirstBegin, AccessBegin
  <2>2. ASSUME NEW d \in Calls,
               \/ Refuse(d) \/ WorkWithKey(d) \/ CheckFails(d)
               \/ OpenBegin(d) \/ CreateBegin(d) \/ EncryptBegin(d) \/ CodesBegin(d)
               \/ PrepareBegin(d) \/ CheckBegin(d) \/ TakeKey(d) \/ AccessOpen(d)
               \/ AccessStop(d) \/ ViewOpen(d)
               \/ DeleteBegin(d) \/ DeleteLook(d) \/ DeleteClose(d) \/ DeleteRead(d)
               \/ DeleteRecord(d) \/ DeleteRemove(d) \/ DeleteOutcome(d)
        PROVE  Harmless
    BY <2>2 DEF Refuse, WorkWithKey, CheckFails, OpenBegin, CreateBegin, EncryptBegin,
                CodesBegin, PrepareBegin, CheckBegin, TakeKey, AccessOpen, AccessStop,
                ViewOpen, DeleteBegin, DeleteLook, DeleteClose, DeleteRead, DeleteRecord,
                DeleteRemove, DeleteOutcome
  <2>3. ASSUME NEW d \in Calls,
               LoginPublish(d) \/ FirstPublish(d) \/ PreparePublish(d) \/ AccessPublish(d)
                   \/ ViewPublish(d) \/ OpenFinish(d)
        PROVE  Harmless
    <3>1. d = c
      BY <2>3, <2>o DEF LoginPublish, FirstPublish, PreparePublish, AccessPublish,
                        ViewPublish, OpenFinish, Return
    <3>2. ~SameSession(c) /\ SessionKey(c) = Nobody
      BY <2>l DEF SameSession, SessionKey
    <3>. QED BY <2>3, <3>1, <3>2 DEF LoginPublish, FirstPublish, PreparePublish,
                                     AccessPublish, ViewPublish, OpenFinish
  <2>4. CASE \/ Logout \/ CloseProject \/ RepairAndSwap \/ AcceptWithoutCodes \/ TakeCodes
             \/ AdminStopUserData \/ UNCHANGED vars
    BY <2>l, <2>4 DEF Logout, CloseProject, RepairAndSwap, AcceptWithoutCodes, TakeCodes,
                      AdminStopUserData, vars
  <2>5. CASE Restart
    <3>1. app'.epoch = 0
      BY <2>5 DEF Restart, NewApp
    <3>2. call[c].epoch \in Nat /\ app.epoch \in Nat /\ call[c].epoch <= app.epoch
      BY <2>c, BoundsAssumption DEF Attached, Call, App
    <3>. QED BY <2>l, <3>1, <3>2
  <2>. QED BY <1>1, <2>1, <2>2, <2>3, <2>4, <2>5 DEF Next
<1>2. DesktopInv /\ [Next]_vars =>
        [\A c \in Calls : LateStep(c) =>
            app' \in {app, WithoutProject(app), WithoutAccess(app)}]_vars
  BY <1>1
<1>. QED BY <1>2, InitInv, NextKeepsInv, PTL DEF Spec, LateCallsPublishNothing

=============================================================================

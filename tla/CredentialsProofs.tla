-------------------------- MODULE CredentialsProofs --------------------------
(***************************************************************************)
(* Proofs about Credentials, for every set of users, passwords, clients,   *)
(* identities and keys and every number of codes and attempts.             *)
(***************************************************************************)
EXTENDS Credentials, FiniteSetTheorems, TLAPS

-----------------------------------------------------------------------------
(* Lemmas about the operators                                               *)

\* A set of codes numbered from a range of row ids is a finite set of codes.
LEMMA NumberedCodes ==
    ASSUME NEW n \in Nat, NEW k \in Keys \cup {NoKey}
    PROVE  LET S == {[row |-> n + i, key |-> k, used |-> FALSE] : i \in 1 .. CodesPerSet}
           IN  S \in SUBSET Code /\ IsFiniteSet(S)
<1>. DEFINE f == [i \in 1 .. CodesPerSet |-> [row |-> n + i, key |-> k, used |-> FALSE]]
            S == {[row |-> n + i, key |-> k, used |-> FALSE] : i \in 1 .. CodesPerSet}
<1>1. ASSUME NEW x \in S PROVE x \in Code
  <2>1. PICK i \in 1 .. CodesPerSet : x = [row |-> n + i, key |-> k, used |-> FALSE]
    OBVIOUS
  <2>2. n + i \in Nat
    BY CountAssumption
  <2>. QED BY <2>1, <2>2 DEF Code
<1>2. IsFiniteSet(1 .. CodesPerSet)
  BY FS_Interval, CountAssumption
<1>3. f \in Surjection(1 .. CodesPerSet, S)
  BY DEF Surjection
<1>4. IsFiniteSet(S)
  BY <1>2, <1>3, FS_Surjection
<1>. QED BY <1>1, <1>4

\* A fresh set of codes is a finite set of codes.
LEMMA NewCodesType ==
    ASSUME NEW k \in Keys \cup {NoKey}, nextRow \in Nat
    PROVE  NewCodes(k) \in SUBSET Code /\ IsFiniteSet(NewCodes(k))
  BY NumberedCodes DEF NewCodes

\* Every fresh code wraps the key it was made with.
LEMMA NewCodesKey ==
    ASSUME NEW k
    PROVE  \A code \in NewCodes(k) : code.key = k
  BY DEF NewCodes

\* The basis of a finite set of codes is two counts and a set of row ids.
LEMMA BasisType ==
    ASSUME NEW S \in SUBSET Code, IsFiniteSet(S)
    PROVE  Basis(S) \in Nat \X (SUBSET Nat) \X Nat
<1>1. Cardinality(S) \in Nat
  BY FS_CardinalityType
<1>2. Cardinality({c \in S : c.used}) \in Nat
  <2>1. {c \in S : c.used} \in SUBSET S
    OBVIOUS
  <2>2. IsFiniteSet({c \in S : c.used})
    BY <2>1, FS_Subset
  <2>. QED BY <2>2, FS_CardinalityType
<1>3. HighestRow(S) \in SUBSET Nat
  BY DEF HighestRow, Code
<1>. QED BY <1>1, <1>2, <1>3 DEF Basis

\* Storing an attempt's work keeps the row a row, and its codes.
LEMMA StoreWorkType ==
    ASSUME NEW r \in Row, NEW o \in Op, NEW rehash \in BOOLEAN
    PROVE  /\ StoreWork(r, o, rehash) \in Row
           /\ StoreWork(r, o, rehash).codes = r.codes
  BY DEF StoreWork, NewHash, Row, Op, Hash, Wrap

\* Setting a password keeps the row a row, and its codes.
LEMMA SetPasswordType ==
    ASSUME NEW r \in Row, NEW pw \in Passwords, NEW k \in Keys \cup {NoKey}
    PROVE  SetPassword(r, pw, k) \in Row /\ SetPassword(r, pw, k).codes = r.codes
  BY DEF SetPassword, NewHash, NoWrap, Row, Hash, Wrap

\* The sentinels are values of their types.
LEMMA SentinelTypes ==
    /\ NoHash \in Hash
    /\ NoWrap \in Wrap
    /\ NoRow \in Row
    /\ Idle \in Op
    /\ NoSession \in Session
    /\ NoPending \in Pending
<1>1. NoHash \in Hash
  BY DEF NoHash, Hash
<1>2. NoWrap \in Wrap
  BY DEF NoWrap, Wrap
<1>3. NoRow \in Row
  BY <1>1, <1>2 DEF NoRow, Row
<1>4. Idle \in Op
  BY <1>1, <1>2, CountAssumption DEF Idle, Op, Kinds
<1>5. NoSession \in Session
  BY <1>1 DEF NoSession, Session
<1>6. NoPending \in Pending
  BY DEF NoPending, Pending
<1>. QED BY <1>1, <1>2, <1>3, <1>4, <1>5, <1>6

-----------------------------------------------------------------------------
(* Type correctness                                                         *)

\* The initial states have their type.
LEMMA InitType == Init => TypeOK /\ Shape
<1>. SUFFICES ASSUME Init PROVE TypeOK /\ Shape
  OBVIOUS
<1>s. Shape
  BY DEF Init, Shape, Idle, NoSession, NoPending
<1>. USE SentinelTypes
<1>1. CASE rows = [u \in Users |-> NoRow] /\ folder = [u \in Users |-> NoId]
           /\ drawn = {} /\ nextRow = 0
  <2>1. IsFiniteSet({})
    BY FS_EmptySet
  <2>2. TypeOK
    BY <1>1, <2>1 DEF Init, TypeOK, NoRow
  <2>. QED BY <1>s, <2>2
<1>2. ASSUME NEW u \in Users, NEW i \in Ids, NEW pw \in Passwords,
             NEW codes \in {{}, LegacyCodes},
             rows = [v \in Users |-> IF v = u THEN LegacyRow(i, pw, codes) ELSE NoRow],
             folder = [v \in Users |-> IF v = u THEN i ELSE NoId],
             drawn = {i},
             nextRow = IF codes = {} THEN 0 ELSE CodesPerSet
      PROVE  TypeOK
  <2>1. LegacyCodes \in SUBSET Code /\ IsFiniteSet(LegacyCodes)
    <3>1. LegacyCodes = {[row |-> 0 + j, key |-> NoKey, used |-> FALSE] : j \in 1 .. CodesPerSet}
      BY CountAssumption DEF LegacyCodes
    <3>. QED BY <3>1, NumberedCodes
  <2>2. codes \in SUBSET Code /\ IsFiniteSet(codes)
    BY <2>1, FS_EmptySet
  <2>3. LegacyRow(i, pw, codes) \in Row /\ LegacyRow(i, pw, codes).codes = codes
    BY <2>2 DEF LegacyRow, Row, Hash
  <2>4. IsFiniteSet(NoRow.codes)
    BY FS_EmptySet DEF NoRow
  <2>5. rows \in [Users -> Row] /\ \A v \in Users : IsFiniteSet(rows[v].codes)
    BY <1>2, <2>2, <2>3, <2>4
  <2>. QED BY <1>2, <2>5, CountAssumption DEF Init, TypeOK
<1>. QED BY <1>s, <1>1, <1>2 DEF Init

\* A sign-in or an issue of codes that has verified a password keeps the types.
LEMMA AttemptType ==
    ASSUME TypeOK, Shape, NEW c \in Clients, NEW kind \in {"signin", "issue"},
           NEW u \in Users, NEW pw \in Passwords, NEW tries \in 0 .. SignInAttempts,
           NEW k \in UnlockKey(rows[u], pw), Verifies(kind, u, pw),
           Snapshot(c, kind, u, pw, tries, k)
    PROVE  TypeOK' /\ Shape'
<1>1. k \in Keys /\ rows[u].wrap.key \in {NoKey, k}
  BY DEF UnlockKey, TypeOK, Row, Wrap
<1>2. rows[u] \in Row
  BY DEF TypeOK
<1>. DEFINE o == [kind |-> kind, phase |-> "commit", user |-> u, pw |-> pw,
                  new |-> NoPassword, id |-> rows[u].id, hash |-> rows[u].hash,
                  wrap |-> rows[u].wrap, key |-> k, tries |-> tries]
<1>3. o \in Op
  BY <1>1, <1>2 DEF Op, Row, Kinds
<1>4. TypeOK'
  BY <1>1, <1>3 DEF Snapshot, TypeOK
<1>5. rows[u].id \in Ids /\ rows[u].hash.pw = pw
  BY <1>2 DEF Verifies, Exists, Row
<1>6. op'[c] = o /\ \A d \in Clients : d # c => op'[d] = op[d]
  BY DEF Snapshot, TypeOK
<1>7. session' = session /\ pending' = pending
  BY DEF Snapshot
<1>8. Shape'
  BY <1>1, <1>5, <1>6, <1>7 DEF Shape
<1>. QED BY <1>4, <1>8

\* Replacing the codes of one row, and nothing else of it.
LEMMA ReplaceCodesType ==
    ASSUME TypeOK, NEW u \in Users, NEW S \in SUBSET Code, IsFiniteSet(S)
    PROVE  /\ [rows EXCEPT ![u].codes = S] \in [Users -> Row]
           /\ \A v \in Users : IsFiniteSet([rows EXCEPT ![u].codes = S][v].codes)
  BY DEF TypeOK, Row

\* Replacing one row.
LEMMA ReplaceRowType ==
    ASSUME TypeOK, NEW u \in Users, NEW r \in Row, IsFiniteSet(r.codes)
    PROVE  /\ [rows EXCEPT ![u] = r] \in [Users -> Row]
           /\ \A v \in Users : IsFiniteSet([rows EXCEPT ![u] = r][v].codes)
  BY DEF TypeOK

\* Recording the first key of an incarnation.
LEMMA RecordKeyType ==
    ASSUME TypeOK, NEW i \in Ids, NEW k \in Keys \cup {NoKey}, RecordKey(i, k)
    PROVE  dekOf' \in [Ids -> Keys \cup {NoKey}]
  BY DEF TypeOK, RecordKey

\* The steps of the processes keep the types.
LEMMA ClientStepType ==
    ASSUME TypeOK, Shape, NEW c \in Clients, ClientStep(c)
    PROVE  TypeOK' /\ Shape'
<1>. USE SentinelTypes
<1>o. op[c] \in Op /\ session[c] \in Session /\ pending[c] \in Pending
  BY DEF TypeOK
<1>1. ASSUME NEW u \in Users, NEW pw \in Passwords, NEW kind \in {"signin", "issue"},
             Attempt(c, kind, u, pw)
      PROVE  TypeOK' /\ Shape'
  <2>1. 1 \in 0 .. SignInAttempts
    BY CountAssumption
  <2>. QED BY <1>1, <2>1, AttemptType DEF Attempt
<1>i. ASSUME EndOp(c), UNCHANGED <<rows, nextRow, folder, drawn, minted, session, pending,
                                   dekOf, crossed>>
      PROVE  TypeOK' /\ Shape'
  <2>1. TypeOK'
    BY <1>i DEF TypeOK, EndOp
  <2>2. Shape'
    BY <1>i DEF TypeOK, EndOp, Shape, Idle
  <2>. QED BY <2>1, <2>2
<1>2. CASE Reattempt(c)
  <2>. DEFINE o == op[c]
  <2>1. /\ o.kind \in {"signin", "issue"} /\ o.user \in Users /\ o.pw \in Passwords
        /\ o.tries \in 0 .. SignInAttempts
    BY <1>2, <1>o DEF Reattempt, Shape, Op
  <2>2. CASE /\ Verifies(o.kind, o.user, o.pw)
             /\ \E k \in UnlockKey(rows[o.user], o.pw) :
                    Snapshot(c, o.kind, o.user, o.pw, o.tries, k)
    BY <2>1, <2>2, AttemptType
  <2>3. CASE EndOp(c) /\ UNCHANGED <<rows, nextRow, folder, drawn, minted, session, pending,
                                     dekOf, crossed>>
    BY <1>i, <2>3
  <2>. QED BY <1>2, <2>2, <2>3 DEF Reattempt, EndOp
<1>3. CASE Refused(c)
  BY <1>3, <1>i DEF Refused
<1>4. CASE Stale(c)
  <2>1. CASE EndOp(c)
    BY <1>4, <1>i, <2>1 DEF Stale
  <2>2. CASE /\ op[c].tries < SignInAttempts
             /\ op' = [op EXCEPT ![c].phase = "read", ![c].tries = @ + 1]
    <3>1. op[c].tries + 1 \in 0 .. SignInAttempts
      BY <1>o, <2>2, CountAssumption DEF Op
    <3>2. TypeOK'
      BY <1>4, <1>o, <2>2, <3>1 DEF Stale, TypeOK, Op
    <3>3. op[c].kind \in {"signin", "issue"}
      BY <1>4 DEF Stale, Committing
    <3>4. Shape'
      BY <1>4, <1>o, <2>2, <3>3 DEF Stale, TypeOK, Op, Shape
    <3>. QED BY <3>2, <3>4
  <2>. QED BY <1>4, <2>1, <2>2 DEF Stale
<1>5. CASE SignInCommit(c)
  <2>. DEFINE o == op[c]
              r == StoreWork(rows[o.user], o, TRUE)
  <2>1. o.user \in Users /\ o.key \in Keys /\ o.id \in Ids
    BY <1>5 DEF SignInCommit, Committing, Shape
  <2>2. rows[o.user] \in Row /\ IsFiniteSet(rows[o.user].codes)
    BY <2>1 DEF TypeOK
  <2>3. r \in Row /\ IsFiniteSet(r.codes)
    BY <1>o, <2>2, StoreWorkType
  <2>4. r.id \in Ids
    BY <1>5, <2>1 DEF SignInCommit, SameIncarnation, StoreWork
  <2>5. rows' = [rows EXCEPT ![o.user] = r]
    BY <1>5 DEF SignInCommit
  <2>6. dekOf' \in [Ids -> Keys \cup {NoKey}]
    BY <1>5, <2>3, <2>4, RecordKeyType DEF SignInCommit, Row, Wrap
  <2>. DEFINE s == [user |-> o.user, id |-> r.id, gen |-> r.gen, hash |-> r.hash, key |-> o.key]
  <2>7. s \in Session
    BY <2>1, <2>3, <2>4 DEF Session, Row
  <2>8. /\ session' = [session EXCEPT ![c] = s]
        /\ pending' = [pending EXCEPT ![c] = NoPending]
        /\ op' = [op EXCEPT ![c] = Idle]
        /\ UNCHANGED <<nextRow, folder, drawn, minted, crossed>>
    BY <1>5 DEF SignInCommit, EndOp
  <2>9. TypeOK'
    BY <2>1, <2>3, <2>5, <2>6, <2>7, <2>8, ReplaceRowType DEF TypeOK
  <2>10. Shape'
    BY <2>1, <2>8 DEF Shape, TypeOK, Idle, NoPending
  <2>. QED BY <2>9, <2>10
<1>6. CASE IssueCommit(c)
  <2>. DEFINE o == op[c]
              r == StoreWork(rows[o.user], o, FALSE)
              q == [r EXCEPT !.codes = NewCodes(o.key)]
  <2>1. o.user \in Users /\ o.key \in Keys /\ o.id \in Ids
    BY <1>6 DEF IssueCommit, Committing, Shape
  <2>2. rows[o.user] \in Row
    BY <2>1 DEF TypeOK
  <2>3. r \in Row
    BY <1>o, <2>2, StoreWorkType
  <2>4. r.id \in Ids
    BY <1>6, <2>1 DEF IssueCommit, SameIncarnation, StoreWork
  <2>5. NewCodes(o.key) \in SUBSET Code /\ IsFiniteSet(NewCodes(o.key))
    BY <2>1, NewCodesType DEF TypeOK
  <2>6. q \in Row /\ IsFiniteSet(q.codes)
    BY <2>3, <2>5 DEF Row
  <2>7. rows' = [rows EXCEPT ![o.user] = q]
    BY <1>6 DEF IssueCommit
  <2>8. dekOf' \in [Ids -> Keys \cup {NoKey}]
    BY <1>6, <2>3, <2>4, RecordKeyType DEF IssueCommit, Row, Wrap
  <2>9. /\ nextRow' \in Nat
        /\ op' = [op EXCEPT ![c] = Idle]
        /\ UNCHANGED <<folder, drawn, minted, session, pending, crossed>>
    BY <1>6, CountAssumption DEF IssueCommit, EndOp, TypeOK
  <2>10. TypeOK'
    BY <2>1, <2>6, <2>7, <2>8, <2>9, ReplaceRowType DEF TypeOK
  <2>11. Shape'
    BY <2>9 DEF Shape, TypeOK, Idle
  <2>. QED BY <2>10, <2>11
<1>7. ASSUME NEW pw \in Passwords, NEW new \in Passwords, ChangeRead(c, pw, new)
      PROVE  TypeOK' /\ Shape'
  <2>. DEFINE u == session[c].user
              o == [Idle EXCEPT !.kind = "change", !.phase = "commit", !.user = u, !.new = new,
                                !.hash = rows[u].hash, !.wrap = rows[u].wrap,
                                !.key = rows[u].wrap.key]
  <2>1. u \in Users
    BY <1>7 DEF ChangeRead, SignedIn, Shape
  <2>2. rows[u] \in Row /\ rows[u].wrap.key \in Keys
    BY <1>7, <2>1 DEF ChangeRead, TypeOK, Row, Wrap
  <2>3. o \in Op
    BY <2>1, <2>2 DEF Op, Row, Kinds, Idle
  <2>4. op' = [op EXCEPT ![c] = o]
        /\ UNCHANGED <<rows, nextRow, folder, drawn, minted, session, pending, dekOf, crossed>>
    BY <1>7 DEF ChangeRead
  <2>5. TypeOK'
    BY <2>3, <2>4 DEF TypeOK
  <2>6. Shape'
    BY <2>1, <2>2, <2>4 DEF Shape, TypeOK, Idle
  <2>. QED BY <2>5, <2>6
<1>8. CASE ChangeSwap(c)
  <2>. DEFINE o == op[c]
  <2>1. o.user \in Users /\ o.key \in Keys /\ o.new \in Passwords
    BY <1>8 DEF ChangeSwap, Committing, Shape
  <2>2. rows[o.user] \in Row /\ IsFiniteSet(rows[o.user].codes)
    BY <2>1 DEF TypeOK
  <2>3. /\ SetPassword(rows[o.user], o.new, o.key) \in Row
        /\ IsFiniteSet(SetPassword(rows[o.user], o.new, o.key).codes)
    BY <2>1, <2>2, SetPasswordType
  <2>4. rows' \in [Users -> Row] /\ \A v \in Users : IsFiniteSet(rows'[v].codes)
    <3>1. CASE rows' = [rows EXCEPT ![o.user] = SetPassword(@, o.new, o.key)]
      BY <2>1, <2>3, <3>1, ReplaceRowType DEF TypeOK
    <3>2. CASE UNCHANGED rows
      BY <3>2 DEF TypeOK
    <3>. QED BY <1>8, <3>1, <3>2 DEF ChangeSwap
  <2>5. /\ op' = [op EXCEPT ![c] = Idle]
        /\ UNCHANGED <<nextRow, folder, drawn, minted, session, pending, dekOf, crossed>>
    BY <1>8 DEF ChangeSwap, EndOp
  <2>6. TypeOK'
    BY <2>4, <2>5 DEF TypeOK
  <2>7. Shape'
    BY <2>5 DEF Shape, TypeOK, Idle
  <2>. QED BY <2>6, <2>7
<1>9. CASE IssueRecoveryCodes(c)
  <2>. DEFINE s == session[c]
  <2>1. s.user \in Users /\ s.key \in Keys
    BY <1>9 DEF IssueRecoveryCodes, SignedIn, Shape
  <2>2. NewCodes(s.key) \in SUBSET Code /\ IsFiniteSet(NewCodes(s.key))
    BY <2>1, NewCodesType DEF TypeOK
  <2>3. rows' = [rows EXCEPT ![s.user].codes = NewCodes(s.key)]
    BY <1>9 DEF IssueRecoveryCodes
  <2>4. rows' \in [Users -> Row] /\ \A v \in Users : IsFiniteSet(rows'[v].codes)
    BY <2>1, <2>2, <2>3, ReplaceCodesType
  <2>5. crossed' \subseteq Ids /\ nextRow' \in Nat
    BY <1>9, <2>1, CountAssumption DEF IssueRecoveryCodes, Cross, Exists, TypeOK, Row
  <2>6. UNCHANGED <<folder, drawn, minted, op, session, pending, dekOf>>
    BY <1>9 DEF IssueRecoveryCodes
  <2>7. TypeOK'
    BY <2>4, <2>5, <2>6 DEF TypeOK
  <2>8. Shape'
    BY <2>6 DEF Shape
  <2>. QED BY <2>7, <2>8
<1>10. ASSUME NEW pw \in Passwords, PrepareRead(c, pw)
       PROVE  TypeOK' /\ Shape'
  <2>. DEFINE u == session[c].user
              o == [Idle EXCEPT !.kind = "prepare", !.phase = "commit", !.user = u,
                                !.id = rows[u].id, !.key = rows[u].wrap.key]
  <2>1. u \in Users
    BY <1>10 DEF PrepareRead, SignedIn, Shape
  <2>2. rows[u] \in Row /\ rows[u].wrap.key \in Keys /\ rows[u].id \in Ids
    BY <1>10, <2>1 DEF PrepareRead, Exists, TypeOK, Row, Wrap
  <2>3. o \in Op
    BY <2>1, <2>2 DEF Op, Row, Kinds, Idle
  <2>4. op' = [op EXCEPT ![c] = o]
        /\ UNCHANGED <<rows, nextRow, folder, drawn, minted, session, pending, dekOf, crossed>>
    BY <1>10 DEF PrepareRead
  <2>5. TypeOK'
    BY <2>3, <2>4 DEF TypeOK
  <2>6. Shape'
    BY <2>1, <2>2, <2>4 DEF Shape, TypeOK, Idle
  <2>. QED BY <2>5, <2>6
<1>11. CASE PrepareBasis(c)
  <2>. DEFINE o == op[c]
              codes == rows[o.user].codes
              p == [user |-> o.user, id |-> o.id, key |-> o.key,
                    basis |-> Basis(codes), seen |-> codes]
  <2>1. o.user \in Users /\ o.id \in Ids /\ o.key \in Keys
    BY <1>11 DEF PrepareBasis, Committing, Shape
  <2>2. codes \in SUBSET Code /\ IsFiniteSet(codes)
    BY <2>1 DEF TypeOK, Row
  <2>3. p \in Pending
    BY <2>1, <2>2, BasisType DEF Pending
  <2>4. /\ pending' = [pending EXCEPT ![c] = p]
        /\ op' = [op EXCEPT ![c] = Idle]
        /\ UNCHANGED <<rows, nextRow, folder, drawn, minted, session, dekOf, crossed>>
    BY <1>11 DEF PrepareBasis, EndOp
  <2>5. TypeOK'
    BY <2>3, <2>4 DEF TypeOK
  <2>6. Shape'
    BY <2>1, <2>4 DEF Shape, TypeOK, Idle
  <2>. QED BY <2>5, <2>6
<1>12. CASE Confirm(c)
  <2>. DEFINE p == pending[c]
  <2>1. p.user \in Users /\ p.key \in Keys
    BY <1>12 DEF Confirm, Shape
  <2>2. NewCodes(p.key) \in SUBSET Code /\ IsFiniteSet(NewCodes(p.key))
    BY <2>1, NewCodesType DEF TypeOK
  <2>3. /\ rows' \in [Users -> Row] /\ \A v \in Users : IsFiniteSet(rows'[v].codes)
        /\ crossed' \subseteq Ids /\ nextRow' \in Nat
    <3>1. CASE /\ Exists(p.user)
               /\ rows' = [rows EXCEPT ![p.user].codes = NewCodes(p.key)]
               /\ nextRow' = nextRow + CodesPerSet
               /\ Cross(p.user, p.id)
      <4>1. rows' \in [Users -> Row] /\ \A v \in Users : IsFiniteSet(rows'[v].codes)
        BY <2>1, <2>2, <3>1, ReplaceCodesType
      <4>2. crossed' \subseteq Ids /\ nextRow' \in Nat
        BY <2>1, <3>1, CountAssumption DEF Cross, Exists, TypeOK, Row
      <4>. QED BY <4>1, <4>2
    <3>2. CASE UNCHANGED <<rows, nextRow, crossed>>
      BY <3>2 DEF TypeOK
    <3>. QED BY <1>12, <3>1, <3>2 DEF Confirm
  <2>4. /\ pending' = [pending EXCEPT ![c] = NoPending]
        /\ UNCHANGED <<folder, drawn, minted, op, session, dekOf>>
    BY <1>12 DEF Confirm
  <2>5. TypeOK'
    BY <2>3, <2>4 DEF TypeOK
  <2>6. Shape'
    BY <2>4 DEF Shape, TypeOK, NoPending
  <2>. QED BY <2>5, <2>6
<1>13. CASE Discard(c)
  <2>1. TypeOK'
    BY <1>13 DEF Discard, TypeOK
  <2>2. Shape'
    BY <1>13 DEF Discard, Shape, TypeOK, NoPending
  <2>. QED BY <2>1, <2>2
<1>14. ASSUME NEW u \in Users, Purge(c, u)
       PROVE  TypeOK' /\ Shape'
  <2>1. NoRow \in Row /\ IsFiniteSet(NoRow.codes)
    BY FS_EmptySet DEF NoRow
  <2>. DEFINE o == [Idle EXCEPT !.kind = "purge", !.phase = "commit", !.user = u]
  <2>2. o \in Op
    BY DEF Op, Kinds, Idle
  <2>3. /\ rows' = [rows EXCEPT ![u] = NoRow]
        /\ op' = [op EXCEPT ![c] = o]
        /\ UNCHANGED <<nextRow, folder, drawn, minted, session, pending, dekOf, crossed>>
    BY <1>14 DEF Purge
  <2>4. TypeOK'
    BY <2>1, <2>2, <2>3, ReplaceRowType DEF TypeOK
  <2>5. Shape'
    BY <2>3 DEF Shape, TypeOK, Idle
  <2>. QED BY <2>4, <2>5
<1>15. CASE PurgeFolder(c)
  <2>1. TypeOK'
    BY <1>15 DEF PurgeFolder, EndOp, TypeOK
  <2>2. Shape'
    BY <1>15 DEF PurgeFolder, EndOp, Shape, TypeOK, Idle
  <2>. QED BY <2>1, <2>2
<1>16. CASE Exit(c)
  <2>1. TypeOK'
    BY <1>16 DEF Exit, EndOp, TypeOK
  <2>2. Shape'
    BY <1>16 DEF Exit, EndOp, Shape, TypeOK, Idle, NoSession, NoPending
  <2>. QED BY <2>1, <2>2
<1>. QED
  BY <1>1, <1>2, <1>3, <1>4, <1>5, <1>6, <1>7, <1>8, <1>9, <1>10, <1>11, <1>12, <1>13,
     <1>14, <1>15, <1>16 DEF ClientStep

\* The steps on accounts keep the types.
LEMMA AccountStepType ==
    ASSUME TypeOK, Shape, NEW u \in Users, AccountStep(u)
    PROVE  TypeOK' /\ Shape'
<1>r. rows[u] \in Row /\ IsFiniteSet(rows[u].codes)
  BY DEF TypeOK
<1>1. ASSUME NEW pw \in Passwords, CreateAccount(u, pw)
      PROVE  TypeOK' /\ Shape'
  <2>1. PICK i \in Ids \ drawn, k \in Keys \ minted :
          /\ rows' = [rows EXCEPT ![u] =
                [id |-> i, gen |-> 2,
                 hash |-> [pw |-> pw, id |-> i, gen |-> 1, weak |-> FALSE],
                 wrap |-> [key |-> k, pw |-> pw], disabled |-> FALSE, codes |-> {}]]
          /\ folder' = [folder EXCEPT ![u] = i]
          /\ drawn' = drawn \cup {i}
          /\ minted' = minted \cup {k}
          /\ RecordKey(i, k)
    BY <1>1 DEF CreateAccount
  <2>. DEFINE r == [id |-> i, gen |-> 2,
                    hash |-> [pw |-> pw, id |-> i, gen |-> 1, weak |-> FALSE],
                    wrap |-> [key |-> k, pw |-> pw], disabled |-> FALSE, codes |-> {}]
  <2>2. r \in Row /\ IsFiniteSet(r.codes)
    BY FS_EmptySet DEF Row, Hash, Wrap
  <2>3. rows' \in [Users -> Row] /\ \A v \in Users : IsFiniteSet(rows'[v].codes)
    BY <2>1, <2>2, ReplaceRowType
  <2>4. dekOf' \in [Ids -> Keys \cup {NoKey}]
    BY <2>1, RecordKeyType
  <2>5. UNCHANGED <<nextRow, op, session, pending, crossed>>
    BY <1>1 DEF CreateAccount
  <2>6. TypeOK'
    BY <2>1, <2>3, <2>4, <2>5 DEF TypeOK
  <2>. QED BY <2>5, <2>6 DEF Shape
<1>2. CASE CreateInterrupted(u)
  BY <1>2 DEF CreateInterrupted, TypeOK, Shape
<1>3. ASSUME NEW d \in BOOLEAN, SetDisabled(u, d)
      PROVE  TypeOK' /\ Shape'
  <2>1. /\ rows' = [rows EXCEPT ![u].disabled = d, ![u].gen = @ + 1]
        /\ UNCHANGED <<nextRow, folder, drawn, minted, op, session, pending, dekOf, crossed>>
    BY <1>3 DEF SetDisabled
  <2>2. rows' \in [Users -> Row] /\ \A v \in Users : IsFiniteSet(rows'[v].codes)
    BY <1>r, <2>1 DEF TypeOK, Row
  <2>3. TypeOK'
    BY <2>1, <2>2 DEF TypeOK
  <2>. QED BY <2>1, <2>3 DEF Shape
<1>4. ASSUME NEW pw \in Passwords, Reset(u, pw)
      PROVE  TypeOK' /\ Shape'
  <2>1. PICK code \in rows[u].codes :
          /\ rows' = [rows EXCEPT ![u] =
                [SetPassword(rows[u], pw, code.key) EXCEPT
                    !.codes = (@ \ {code}) \cup {[code EXCEPT !.used = TRUE]}]]
          /\ IF code.key = NoKey THEN UNCHANGED dekOf ELSE RecordKey(rows[u].id, code.key)
    BY <1>4 DEF Reset
  <2>2. code \in Code /\ [code EXCEPT !.used = TRUE] \in Code
    BY <1>r DEF Row, Code
  <2>. DEFINE S == (rows[u].codes \ {code}) \cup {[code EXCEPT !.used = TRUE]}
              r == SetPassword(rows[u], pw, code.key)
  <2>3. S \in SUBSET Code /\ IsFiniteSet(S)
    BY <1>r, <2>2, FS_RemoveElement, FS_AddElement DEF Row
  <2>4. r \in Row /\ r.codes = rows[u].codes
    BY <1>r, <2>2, SetPasswordType DEF Code
  <2>5. [r EXCEPT !.codes = S] \in Row /\ IsFiniteSet([r EXCEPT !.codes = S].codes)
    BY <2>3, <2>4 DEF Row
  <2>6. rows' = [rows EXCEPT ![u] = [r EXCEPT !.codes = S]]
    BY <2>1, <2>4
  <2>7. dekOf' \in [Ids -> Keys \cup {NoKey}]
    <3>1. rows[u].id \in Ids
      BY <1>4, <1>r DEF Reset, Exists, Row
    <3>. QED BY <2>1, <2>2, <3>1, RecordKeyType DEF Code, TypeOK
  <2>8. UNCHANGED <<nextRow, folder, drawn, minted, op, session, pending, crossed>>
    BY <1>4 DEF Reset
  <2>9. TypeOK'
    BY <2>5, <2>6, <2>7, <2>8, ReplaceRowType DEF TypeOK
  <2>. QED BY <2>8, <2>9 DEF Shape
<1>5. CASE RemoveLeftover(u)
  BY <1>5 DEF RemoveLeftover, TypeOK, Shape
<1>. QED BY <1>1, <1>2, <1>3, <1>4, <1>5 DEF AccountStep

\* Every behaviour of the account store is well typed, and what a client
\* holds between its reads and its write is complete.
THEOREM TypeCorrect == Spec => [](TypeOK /\ Shape)
<1>1. Init => TypeOK /\ Shape
  BY InitType
<1>2. TypeOK /\ Shape /\ [Next]_vars => TypeOK' /\ Shape'
  <2>. SUFFICES ASSUME TypeOK, Shape, [Next]_vars PROVE TypeOK' /\ Shape'
    OBVIOUS
  <2>1. ASSUME NEW c \in Clients, ClientStep(c) PROVE TypeOK' /\ Shape'
    BY <2>1, ClientStepType
  <2>2. ASSUME NEW u \in Users, AccountStep(u) PROVE TypeOK' /\ Shape'
    BY <2>2, AccountStepType
  <2>3. CASE UNCHANGED vars
    BY <2>3 DEF vars, TypeOK, Shape
  <2>. QED BY <2>1, <2>2, <2>3 DEF Next
<1>. QED BY <1>1, <1>2, PTL DEF Spec

-----------------------------------------------------------------------------
(* Custody of the key.  A step changes at most one row, and gives a key to  *)
(* at most the incarnation of that row; a key once given stays.             *)

\* What recording a key changes.
LEMMA KeyRecorded ==
    ASSUME TypeOK, NEW i \in Ids, NEW k \in Keys \cup {NoKey}, RecordKey(i, k)
    PROVE  /\ dekOf[i] = NoKey => dekOf'[i] = k
           /\ \A j \in Ids : dekOf[j] # NoKey => dekOf'[j] = dekOf[j]
           /\ \A j \in Ids : j # i => dekOf'[j] = dekOf[j]
  BY DEF TypeOK, RecordKey

\* A client keeps what it holds, drops it, or takes a key of its own account.
HoldersStep ==
    \A d \in Clients :
        /\ \/ op'[d] = op[d]
           \/ op'[d].kind # "prepare"
           \/ op'[d].id \notin crossed' => op'[d].key = dekOf'[op'[d].id]
        /\ \/ session'[d] = session[d]
           \/ session'[d].id = NoId
           \/ session'[d].id \in drawn /\
              (session'[d].id \notin crossed' => session'[d].key = dekOf'[session'[d].id])
        /\ \/ pending'[d] = pending[d]
           \/ pending'[d].id = NoId
           \/ pending'[d].id \notin crossed' => pending'[d].key = dekOf'[pending'[d].id]

\* Keys that clients hold stay the keys of their incarnations.
LEMMA HoldersKept ==
    ASSUME CustodyInv, TypeOK', Shape', HoldersStep,
           \A j \in Ids : dekOf[j] # NoKey => dekOf'[j] = dekOf[j],
           crossed \subseteq crossed', drawn \subseteq drawn'
    PROVE  /\ SessionHoldsOwnKey' /\ PreparedHoldOwnKey'
           /\ \A d \in Clients : SignedIn(d)' => session'[d].id \in drawn'
<1>1. ASSUME NEW d \in Clients, session'[d].id # NoId
      PROVE  /\ session'[d].id \in drawn'
             /\ session'[d].id \notin crossed' => session'[d].key = dekOf'[session'[d].id]
  <2>1. session[d] \in Session /\ (session[d].id # NoId => session[d].key \in Keys)
    BY DEF CustodyInv, TypeOK, Shape
  <2>. QED BY <1>1, <2>1, SentinelAssumption
           DEF CustodyInv, HoldersStep, SessionHoldsOwnKey, IncarnationsDistinct, SignedIn, Session
<1>2. ASSUME NEW d \in Clients, op'[d].kind = "prepare", op'[d].id \notin crossed'
      PROVE  op'[d].key = dekOf'[op'[d].id]
  <2>1. op[d].kind = "prepare" => op[d].id \in Ids /\ op[d].key \in Keys
    BY DEF CustodyInv, Shape
  <2>. QED BY <1>2, <2>1, SentinelAssumption DEF CustodyInv, HoldersStep, PreparedHoldOwnKey
<1>3. ASSUME NEW d \in Clients, pending'[d].id # NoId, pending'[d].id \notin crossed'
      PROVE  pending'[d].key = dekOf'[pending'[d].id]
  <2>1. pending[d] \in Pending /\ (pending[d].id # NoId => pending[d].key \in Keys)
    BY DEF CustodyInv, TypeOK, Shape
  <2>. QED BY <1>3, <2>1, SentinelAssumption
           DEF CustodyInv, HoldersStep, PreparedHoldOwnKey, Pending
<1>. QED BY <1>1, <1>2, <1>3 DEF SessionHoldsOwnKey, PreparedHoldOwnKey, SignedIn

\* A step that leaves the store alone.
LEMMA ClientOnlyStep ==
    ASSUME CustodyInv, TypeOK', Shape', HoldersStep, UNCHANGED <<rows, drawn, dekOf, crossed>>
    PROVE  CustodyInv'
<1>1. SessionHoldsOwnKey' /\ PreparedHoldOwnKey'
      /\ \A d \in Clients : SignedIn(d)' => session'[d].id \in drawn'
  BY HoldersKept
<1>2. IncarnationsDistinct'
  BY <1>1 DEF CustodyInv, IncarnationsDistinct, Exists, SignedIn
<1>3. KeyCustody'
  BY DEF CustodyInv, KeyCustody, Exists
<1>. QED BY <1>1, <1>2, <1>3 DEF CustodyInv

\* A step that changes one row keeps custody if it does for that row.
LEMMA OneRowStep ==
    ASSUME CustodyInv, TypeOK', Shape', HoldersStep,
           NEW u \in Users, NEW r \in Row, rows' = [rows EXCEPT ![u] = r],
           \A j \in Ids : dekOf[j] # NoKey => dekOf'[j] = dekOf[j],
           \A j \in Ids : j # r.id => dekOf'[j] = dekOf[j],
           crossed \subseteq crossed', drawn \subseteq drawn',
           r.id \in {rows[u].id, NoId} \cup (Ids \ drawn),
           r.id # NoId => r.id \in drawn',
           r.id # NoId /\ r.id \notin crossed' =>
               /\ r.wrap.key = dekOf'[r.id]
               /\ \A code \in r.codes : code.key \in {NoKey, dekOf'[r.id]}
    PROVE  CustodyInv'
<1>t. rows \in [Users -> Row]
  BY DEF CustodyInv, TypeOK
<1>v. rows'[u] = r /\ \A v \in Users : v # u => rows'[v] = rows[v]
  BY <1>t
<1>1. SessionHoldsOwnKey' /\ PreparedHoldOwnKey'
      /\ \A d \in Clients : SignedIn(d)' => session'[d].id \in drawn'
  BY HoldersKept
<1>2. ASSUME NEW v \in Users, v # u, rows[v].id # NoId
      PROVE  rows[v].id \in Ids /\ rows[v].id \in drawn /\ rows[v].id # r.id
  BY <1>2, <1>t DEF CustodyInv, IncarnationsDistinct, Exists, Row
<1>3. IncarnationsDistinct'
  <2>1. ASSUME NEW v \in Users, NEW w \in Users, rows'[v].id # NoId, rows'[v].id = rows'[w].id
        PROVE  v = w
    BY <2>1, <1>v, <1>2 DEF CustodyInv, IncarnationsDistinct, Exists
  <2>2. ASSUME NEW v \in Users, rows'[v].id # NoId
        PROVE  rows'[v].id \in drawn'
    BY <2>2, <1>v, <1>2
  <2>3. ASSUME NEW i \in Ids \ drawn' PROVE dekOf'[i] = NoKey
    BY <2>3, SentinelAssumption DEF CustodyInv, IncarnationsDistinct
  <2>. QED BY <1>1, <2>1, <2>2, <2>3 DEF IncarnationsDistinct, Exists
<1>4. KeyCustody'
  <2>. SUFFICES ASSUME NEW v \in Users, rows'[v].id # NoId, rows'[v].id \notin crossed'
                PROVE  /\ rows'[v].wrap.key = dekOf'[rows'[v].id]
                       /\ \A code \in rows'[v].codes : code.key \in {NoKey, dekOf'[rows'[v].id]}
    BY DEF KeyCustody, Exists
  <2>1. CASE v = u
    BY <2>1, <1>v
  <2>2. CASE v # u
    <3>1. dekOf'[rows[v].id] = dekOf[rows[v].id] /\ rows[v].id \notin crossed
      BY <2>2, <1>v, <1>2
    <3>. QED BY <2>2, <3>1, <1>v DEF CustodyInv, KeyCustody, Exists
  <2>. QED BY <2>1, <2>2
<1>. QED BY <1>1, <1>3, <1>4 DEF CustodyInv

\* The steps of the processes keep every key in custody.
LEMMA ClientStepCustody ==
    ASSUME CustodyInv, TypeOK', Shape', NEW c \in Clients, ClientStep(c)
    PROVE  CustodyInv'
<1>t. TypeOK /\ Shape
  BY DEF CustodyInv
<1>o. op[c] \in Op /\ session[c] \in Session /\ pending[c] \in Pending
  BY <1>t DEF TypeOK
<1>i. ASSUME UNCHANGED <<session, pending, rows, drawn, dekOf, crossed>>,
             NEW o, op' = [op EXCEPT ![c] = o], o.kind # "prepare"
      PROVE  CustodyInv'
  <2>1. HoldersStep
    BY <1>i, <1>t DEF HoldersStep, TypeOK
  <2>. QED BY <1>i, <2>1, ClientOnlyStep
<1>1. ASSUME NEW u \in Users, NEW pw \in Passwords, NEW kind \in {"signin", "issue"},
             NEW tries, NEW k, Snapshot(c, kind, u, pw, tries, k)
      PROVE  CustodyInv'
  <2>. DEFINE o == [kind |-> kind, phase |-> "commit", user |-> u, pw |-> pw,
                    new |-> NoPassword, id |-> rows[u].id, hash |-> rows[u].hash,
                    wrap |-> rows[u].wrap, key |-> k, tries |-> tries]
  <2>1. o.kind # "prepare"
    OBVIOUS
  <2>2. op' = [op EXCEPT ![c] = o] /\ UNCHANGED <<session, pending, rows, drawn, dekOf, crossed>>
    BY <1>1 DEF Snapshot
  <2>. HIDE DEF o
  <2>. QED BY <2>1, <2>2, <1>i
<1>e. ASSUME EndOp(c), UNCHANGED <<session, pending, rows, drawn, dekOf, crossed>>
      PROVE  CustodyInv'
  <2>1. Idle.kind # "prepare"
    BY DEF Idle
  <2>. QED BY <1>e, <1>i, <2>1 DEF EndOp
<1>2. CASE Reattempt(c)
  <2>1. op[c].kind \in {"signin", "issue"} /\ op[c].user \in Users /\ op[c].pw \in Passwords
    BY <1>2, <1>t DEF Reattempt, Shape
  <2>2. CASE \E k \in UnlockKey(rows[op[c].user], op[c].pw) :
                Snapshot(c, op[c].kind, op[c].user, op[c].pw, op[c].tries, k)
    BY <2>1, <2>2, <1>1
  <2>3. CASE EndOp(c) /\ UNCHANGED <<session, pending, rows, drawn, dekOf, crossed>>
    BY <2>3, <1>e
  <2>. QED BY <1>2, <2>2, <2>3 DEF Reattempt
<1>3. CASE Refused(c)
  BY <1>3, <1>e DEF Refused
<1>4. CASE Stale(c)
  <2>1. CASE EndOp(c)
    BY <1>4, <1>e, <2>1 DEF Stale
  <2>2. CASE op' = [op EXCEPT ![c].phase = "read", ![c].tries = @ + 1]
    <3>1. HoldersStep
      BY <1>4, <1>o, <1>t, <2>2 DEF Stale, HoldersStep, TypeOK, Committing, Op
    <3>. QED BY <1>4, <3>1, ClientOnlyStep DEF Stale
  <2>. QED BY <1>4, <2>1, <2>2 DEF Stale
<1>5. CASE SignInCommit(c)
  <2>. DEFINE o == op[c]
              u == o.user
              r == StoreWork(rows[u], o, TRUE)
  <2>1. u \in Users /\ o.key \in Keys /\ o.id \in Ids /\ o.wrap.key \in {NoKey, o.key}
    BY <1>5, <1>t DEF SignInCommit, Committing, Shape
  <2>2. rows[u] \in Row /\ rows[u].id = o.id /\ rows[u].wrap = o.wrap /\ o.id \in drawn
    BY <1>5, <1>t, <2>1, SentinelAssumption
       DEF SignInCommit, SameIncarnation, SameCredentials, TypeOK, CustodyInv,
           IncarnationsDistinct, Exists
  <2>3. r \in Row
    BY <1>o, <2>2, StoreWorkType
  <2>4. r.id = o.id /\ r.codes = rows[u].codes /\ r.wrap.key = o.key
    BY <2>1, <2>2 DEF StoreWork
  <2>5. /\ rows' = [rows EXCEPT ![u] = r]
        /\ RecordKey(o.id, o.key)
        /\ session' = [session EXCEPT ![c] =
                [user |-> u, id |-> r.id, gen |-> r.gen, hash |-> r.hash, key |-> o.key]]
        /\ pending' = [pending EXCEPT ![c] = NoPending]
        /\ op' = [op EXCEPT ![c] = Idle]
        /\ UNCHANGED <<drawn, crossed>>
    BY <1>5, <2>4 DEF SignInCommit, EndOp
  <2>6. /\ dekOf[o.id] = NoKey => dekOf'[o.id] = o.key
        /\ \A j \in Ids : dekOf[j] # NoKey => dekOf'[j] = dekOf[j]
        /\ \A j \in Ids : j # o.id => dekOf'[j] = dekOf[j]
    BY <1>t, <2>1, <2>5, KeyRecorded
  <2>7. o.id \notin crossed =>
          /\ dekOf'[o.id] = o.key
          /\ \A code \in rows[u].codes : code.key \in {NoKey, dekOf'[o.id]}
    <3>1. SUFFICES ASSUME o.id \notin crossed
                   PROVE  /\ dekOf'[o.id] = o.key
                          /\ \A code \in rows[u].codes : code.key \in {NoKey, dekOf'[o.id]}
      OBVIOUS
    <3>2. /\ o.wrap.key = dekOf[o.id]
          /\ \A code \in rows[u].codes : code.key \in {NoKey, dekOf[o.id]}
      BY <2>1, <2>2, <3>1, SentinelAssumption DEF CustodyInv, KeyCustody, Exists
    <3>3. dekOf'[o.id] = o.key
      BY <2>1, <2>6, <3>2, SentinelAssumption
    <3>. QED BY <2>1, <3>2, <3>3
  <2>8. HoldersStep
    BY <1>t, <2>2, <2>4, <2>5, <2>7 DEF HoldersStep, TypeOK, Idle, NoPending
  <2>. HIDE DEF r
  <2>. QED BY <2>1, <2>2, <2>3, <2>4, <2>5, <2>6, <2>7, <2>8, OneRowStep
<1>6. CASE IssueCommit(c)
  <2>. DEFINE o == op[c]
              u == o.user
              r == StoreWork(rows[u], o, FALSE)
              q == [r EXCEPT !.codes = NewCodes(o.key)]
  <2>1. u \in Users /\ o.key \in Keys /\ o.id \in Ids /\ o.wrap.key \in {NoKey, o.key}
    BY <1>6, <1>t DEF IssueCommit, Committing, Shape
  <2>2. rows[u] \in Row /\ rows[u].id = o.id /\ rows[u].wrap = o.wrap /\ o.id \in drawn
    BY <1>6, <1>t, <2>1, SentinelAssumption
       DEF IssueCommit, SameIncarnation, SameCredentials, TypeOK, CustodyInv,
           IncarnationsDistinct, Exists
  <2>3. r \in Row
    BY <1>o, <2>2, StoreWorkType
  <2>4. NewCodes(o.key) \in SUBSET Code /\ \A code \in NewCodes(o.key) : code.key = o.key
    BY <1>t, <2>1, NewCodesType, NewCodesKey DEF TypeOK
  <2>5. q \in Row /\ q.id = o.id /\ q.codes = NewCodes(o.key) /\ r.id = o.id
        /\ q.wrap.key = o.key /\ r.wrap.key = o.key
    BY <2>1, <2>2, <2>3, <2>4 DEF StoreWork, Row
  <2>6. /\ rows' = [rows EXCEPT ![u] = q]
        /\ RecordKey(o.id, o.key)
        /\ op' = [op EXCEPT ![c] = Idle]
        /\ UNCHANGED <<drawn, session, pending, crossed>>
    BY <1>6, <2>5 DEF IssueCommit, EndOp
  <2>7. /\ dekOf[o.id] = NoKey => dekOf'[o.id] = o.key
        /\ \A j \in Ids : dekOf[j] # NoKey => dekOf'[j] = dekOf[j]
        /\ \A j \in Ids : j # o.id => dekOf'[j] = dekOf[j]
    BY <1>t, <2>1, <2>6, KeyRecorded
  <2>8. o.id \notin crossed => dekOf'[o.id] = o.key
    <3>1. o.id \notin crossed => o.wrap.key = dekOf[o.id]
      BY <2>1, <2>2, SentinelAssumption DEF CustodyInv, KeyCustody, Exists
    <3>. QED BY <2>1, <2>7, <3>1, SentinelAssumption
  <2>9. HoldersStep
    BY <1>t, <2>6 DEF HoldersStep, TypeOK, Idle
  <2>. HIDE DEF q, r
  <2>10. \A code \in q.codes : code.key \in {NoKey, o.key}
    BY <2>4, <2>5
  <2>. QED BY <2>1, <2>2, <2>5, <2>6, <2>7, <2>8, <2>9, <2>10, OneRowStep
<1>7. ASSUME NEW pw \in Passwords, NEW new \in Passwords, ChangeRead(c, pw, new)
      PROVE  CustodyInv'
  <2>. DEFINE u == session[c].user
              o == [Idle EXCEPT !.kind = "change", !.phase = "commit", !.user = u, !.new = new,
                                !.hash = rows[u].hash, !.wrap = rows[u].wrap,
                                !.key = rows[u].wrap.key]
  <2>1. o.kind # "prepare"
    BY DEF Idle
  <2>2. op' = [op EXCEPT ![c] = o] /\ UNCHANGED <<session, pending, rows, drawn, dekOf, crossed>>
    BY <1>7 DEF ChangeRead
  <2>. HIDE DEF o
  <2>. QED BY <2>1, <2>2, <1>i
<1>8. CASE ChangeSwap(c)
  <2>. DEFINE o == op[c]
              u == o.user
              r == SetPassword(rows[u], o.new, o.key)
  <2>1. CASE UNCHANGED rows
    BY <1>8, <1>e, <2>1 DEF ChangeSwap
  <2>2. CASE Exists(u) /\ SameCredentials(o) /\ rows' = [rows EXCEPT ![u] = r]
    <3>1. u \in Users /\ o.key \in Keys /\ o.new \in Passwords /\ o.wrap.key = o.key
      BY <1>8, <1>t DEF ChangeSwap, Committing, Shape
    <3>2. rows[u] \in Row /\ rows[u].id \in drawn /\ rows[u].wrap.key = o.key
      BY <1>t, <2>2, <3>1
         DEF SameCredentials, TypeOK, CustodyInv, IncarnationsDistinct
    <3>3. r \in Row /\ r.codes = rows[u].codes
      BY <3>1, <3>2, SetPasswordType
    <3>4. r.id = rows[u].id /\ r.wrap.key = rows[u].wrap.key
      BY <3>1, <3>2, SentinelAssumption DEF SetPassword
    <3>5. /\ op' = [op EXCEPT ![c] = Idle]
          /\ UNCHANGED <<drawn, session, pending, dekOf, crossed>>
      BY <1>8 DEF ChangeSwap, EndOp
    <3>6. HoldersStep
      BY <1>t, <3>5 DEF HoldersStep, TypeOK, Idle
    <3>7. rows[u].id \notin crossed =>
            /\ rows[u].wrap.key = dekOf[rows[u].id]
            /\ \A code \in rows[u].codes : code.key \in {NoKey, dekOf[rows[u].id]}
      BY <2>2, <3>1 DEF CustodyInv, KeyCustody
    <3>. HIDE DEF r
    <3>. QED BY <2>2, <3>1, <3>2, <3>3, <3>4, <3>5, <3>6, <3>7, OneRowStep
  <2>. QED BY <1>8, <2>1, <2>2 DEF ChangeSwap
<1>9. ASSUME NEW u \in Users, NEW i \in Ids, NEW k \in Keys, Exists(u),
             i \notin crossed => k = dekOf[i],
             rows' = [rows EXCEPT ![u].codes = NewCodes(k)], Cross(u, i),
             HoldersStep, UNCHANGED <<drawn, dekOf>>
      PROVE  CustodyInv'
  <2>. DEFINE r == [rows[u] EXCEPT !.codes = NewCodes(k)]
  <2>1. rows[u] \in Row /\ rows[u].id \in drawn
    BY <1>9, <1>t DEF TypeOK, CustodyInv, IncarnationsDistinct
  <2>2. NewCodes(k) \in SUBSET Code /\ \A code \in NewCodes(k) : code.key = k
    BY <1>t, <1>9, NewCodesType, NewCodesKey DEF TypeOK
  <2>3. r \in Row /\ r.id = rows[u].id /\ r.wrap = rows[u].wrap /\ r.codes = NewCodes(k)
    BY <2>1, <2>2 DEF Row
  <2>4. rows' = [rows EXCEPT ![u] = r]
    BY <1>9, <1>t DEF TypeOK
  <2>5. crossed \subseteq crossed' /\ (rows[u].id \notin crossed' => rows[u].id = i)
    BY <1>9 DEF Cross
  <2>6. rows[u].id \notin crossed' =>
          /\ rows[u].wrap.key = dekOf[rows[u].id]
          /\ \A code \in NewCodes(k) : code.key = dekOf[rows[u].id]
    BY <1>9, <2>2, <2>5 DEF CustodyInv, KeyCustody
  <2>7. r.id # NoId /\ r.id \notin crossed' =>
          /\ r.wrap.key = dekOf'[r.id]
          /\ \A code \in r.codes : code.key \in {NoKey, dekOf'[r.id]}
    BY <1>9, <2>3, <2>6
  <2>8. HoldersStep /\ drawn' = drawn /\ dekOf' = dekOf
    BY <1>9
  <2>. HIDE DEF r
  <2>. QED BY <2>1, <2>3, <2>4, <2>5, <2>7, <2>8, OneRowStep
<1>10. CASE IssueRecoveryCodes(c)
  <2>. DEFINE s == session[c]
  <2>1. s.user \in Users /\ s.key \in Keys /\ s.id \in Ids /\ (s.id \notin crossed => s.key = dekOf[s.id])
    BY <1>10, <1>t, <1>o
       DEF IssueRecoveryCodes, SignedIn, Shape, Session, CustodyInv, SessionHoldsOwnKey
  <2>2. HoldersStep
    BY <1>10 DEF IssueRecoveryCodes, HoldersStep
  <2>. QED BY <1>9, <1>10, <2>1, <2>2 DEF IssueRecoveryCodes
<1>11. ASSUME NEW pw \in Passwords, PrepareRead(c, pw)
       PROVE  CustodyInv'
  <2>. DEFINE u == session[c].user
              o == [Idle EXCEPT !.kind = "prepare", !.phase = "commit", !.user = u,
                                !.id = rows[u].id, !.key = rows[u].wrap.key]
  <2>1. u \in Users /\ Exists(u)
    BY <1>11, <1>t DEF PrepareRead, SignedIn, Shape
  <2>2. o.id \notin crossed => o.key = dekOf[o.id]
    BY <2>1 DEF CustodyInv, KeyCustody, Idle
  <2>3. op' = [op EXCEPT ![c] = o] /\ UNCHANGED <<session, pending, rows, drawn, dekOf, crossed>>
    BY <1>11 DEF PrepareRead
  <2>. HIDE DEF o
  <2>4. HoldersStep
    BY <1>t, <2>2, <2>3 DEF HoldersStep, TypeOK
  <2>. QED BY <2>3, <2>4, ClientOnlyStep
<1>12. CASE PrepareBasis(c)
  <2>. DEFINE o == op[c]
              p == [user |-> o.user, id |-> o.id, key |-> o.key,
                    basis |-> Basis(rows[o.user].codes), seen |-> rows[o.user].codes]
  <2>1. p.id \notin crossed => p.key = dekOf[p.id]
    BY <1>12 DEF PrepareBasis, Committing, CustodyInv, PreparedHoldOwnKey
  <2>2. /\ pending' = [pending EXCEPT ![c] = p] /\ op' = [op EXCEPT ![c] = Idle]
        /\ UNCHANGED <<session, rows, drawn, dekOf, crossed>>
    BY <1>12 DEF PrepareBasis, EndOp
  <2>. HIDE DEF p
  <2>3. HoldersStep
    BY <1>t, <2>1, <2>2 DEF HoldersStep, TypeOK, Idle
  <2>. QED BY <2>2, <2>3, ClientOnlyStep
<1>13. CASE Confirm(c)
  <2>. DEFINE p == pending[c]
  <2>1. p.user \in Users /\ p.key \in Keys /\ p.id \in Ids /\ (p.id \notin crossed => p.key = dekOf[p.id])
    BY <1>13, <1>t, <1>o
       DEF Confirm, Shape, Pending, CustodyInv, PreparedHoldOwnKey
  <2>2. pending' = [pending EXCEPT ![c] = NoPending] /\ UNCHANGED <<drawn, op, session, dekOf>>
    BY <1>13 DEF Confirm
  <2>3. HoldersStep
    BY <1>t, <2>2 DEF HoldersStep, TypeOK, NoPending
  <2>4. CASE UNCHANGED <<rows, nextRow, crossed>>
    BY <2>2, <2>3, <2>4, ClientOnlyStep
  <2>5. CASE /\ Exists(p.user)
             /\ rows' = [rows EXCEPT ![p.user].codes = NewCodes(p.key)]
             /\ Cross(p.user, p.id)
    BY <1>9, <2>1, <2>2, <2>3, <2>5
  <2>. QED BY <1>13, <2>4, <2>5 DEF Confirm
<1>14. CASE Discard(c)
  <2>1. HoldersStep
    BY <1>14, <1>t DEF Discard, HoldersStep, TypeOK, NoPending
  <2>. QED BY <1>14, <2>1, ClientOnlyStep DEF Discard
<1>15. ASSUME NEW u \in Users, Purge(c, u)
       PROVE  CustodyInv'
  <2>. DEFINE o == [Idle EXCEPT !.kind = "purge", !.phase = "commit", !.user = u]
  <2>1. /\ rows' = [rows EXCEPT ![u] = NoRow]
        /\ op' = [op EXCEPT ![c] = o]
        /\ UNCHANGED <<drawn, session, pending, dekOf, crossed>>
    BY <1>15 DEF Purge
  <2>2. HoldersStep
    BY <1>t, <2>1 DEF HoldersStep, TypeOK, Idle
  <2>3. NoRow \in Row /\ NoRow.id = NoId
    BY SentinelTypes DEF NoRow
  <2>. HIDE DEF o
  <2>. QED BY <2>1, <2>2, <2>3, OneRowStep
<1>16. CASE PurgeFolder(c)
  BY <1>16, <1>e DEF PurgeFolder
<1>17. CASE Exit(c)
  <2>1. HoldersStep
    BY <1>17, <1>t DEF Exit, EndOp, HoldersStep, TypeOK, Idle, NoSession, NoPending
  <2>. QED BY <1>17, <2>1, ClientOnlyStep DEF Exit
<1>18. ASSUME NEW u \in Users, NEW pw \in Passwords, NEW kind \in {"signin", "issue"},
              Attempt(c, kind, u, pw)
       PROVE  CustodyInv'
  BY <1>1, <1>18 DEF Attempt
<1>. QED
  BY <1>2, <1>3, <1>4, <1>5, <1>6, <1>7, <1>8, <1>10, <1>11, <1>12, <1>13, <1>14, <1>15,
     <1>16, <1>17, <1>18 DEF ClientStep

\* The steps on accounts keep every key in custody.
LEMMA AccountStepCustody ==
    ASSUME CustodyInv, TypeOK', Shape', NEW u \in Users, AccountStep(u)
    PROVE  CustodyInv'
<1>t. TypeOK /\ Shape /\ rows[u] \in Row
  BY DEF CustodyInv, TypeOK
<1>h. ASSUME UNCHANGED <<op, session, pending>> PROVE HoldersStep
  BY <1>h DEF HoldersStep
<1>1. ASSUME NEW pw \in Passwords, CreateAccount(u, pw)
      PROVE  CustodyInv'
  <2>1. PICK i \in Ids \ drawn, k \in Keys \ minted :
          /\ rows' = [rows EXCEPT ![u] =
                [id |-> i, gen |-> 2,
                 hash |-> [pw |-> pw, id |-> i, gen |-> 1, weak |-> FALSE],
                 wrap |-> [key |-> k, pw |-> pw], disabled |-> FALSE, codes |-> {}]]
          /\ drawn' = drawn \cup {i}
          /\ RecordKey(i, k)
    BY <1>1 DEF CreateAccount
  <2>. DEFINE r == [id |-> i, gen |-> 2,
                    hash |-> [pw |-> pw, id |-> i, gen |-> 1, weak |-> FALSE],
                    wrap |-> [key |-> k, pw |-> pw], disabled |-> FALSE, codes |-> {}]
  <2>2. r \in Row
    BY DEF Row, Hash, Wrap
  <2>3. dekOf[i] = NoKey
    BY DEF CustodyInv, IncarnationsDistinct
  <2>4. /\ dekOf'[i] = k
        /\ \A j \in Ids : dekOf[j] # NoKey => dekOf'[j] = dekOf[j]
        /\ \A j \in Ids : j # i => dekOf'[j] = dekOf[j]
    BY <1>t, <2>1, <2>3, KeyRecorded
  <2>5. UNCHANGED <<op, session, pending, crossed>>
    BY <1>1 DEF CreateAccount
  <2>6. r.id = i /\ r.wrap.key = k /\ r.codes = {} /\ rows' = [rows EXCEPT ![u] = r]
    BY <2>1
  <2>7. r.id \in Ids \ drawn /\ r.id \in drawn' /\ drawn \subseteq drawn'
    BY <2>1
  <2>8. HoldersStep
    BY <1>h, <2>5
  <2>9. /\ r.wrap.key = dekOf'[r.id]
        /\ \A code \in r.codes : code.key \in {NoKey, dekOf'[r.id]}
    BY <2>4
  <2>10. /\ \A j \in Ids : dekOf[j] # NoKey => dekOf'[j] = dekOf[j]
         /\ \A j \in Ids : j # r.id => dekOf'[j] = dekOf[j]
    BY <2>4
  <2>. HIDE DEF r
  <2>. QED BY <2>2, <2>5, <2>6, <2>7, <2>8, <2>9, <2>10, OneRowStep
<1>2. CASE CreateInterrupted(u)
  <2>1. drawn \subseteq drawn' /\ UNCHANGED <<rows, op, session, pending, dekOf, crossed>>
    BY <1>2 DEF CreateInterrupted
  <2>2. IncarnationsDistinct'
    BY <2>1 DEF CustodyInv, IncarnationsDistinct, Exists, SignedIn
  <2>3. KeyCustody' /\ SessionHoldsOwnKey' /\ PreparedHoldOwnKey'
    BY <2>1 DEF CustodyInv, KeyCustody, SessionHoldsOwnKey, PreparedHoldOwnKey, Exists, SignedIn
  <2>. QED BY <2>2, <2>3 DEF CustodyInv
<1>3. ASSUME NEW d \in BOOLEAN, SetDisabled(u, d)
      PROVE  CustodyInv'
  <2>. DEFINE q == rows[u]
              r == [q EXCEPT !.disabled = d, !.gen = q.gen + 1]
  <2>q. /\ q \in Row /\ q.gen \in Nat /\ d \in BOOLEAN
        /\ q = [id |-> q.id, gen |-> q.gen, hash |-> q.hash, wrap |-> q.wrap,
                disabled |-> q.disabled, codes |-> q.codes]
    BY <1>t DEF Row
  <2>e. r = [id |-> q.id, gen |-> q.gen + 1, hash |-> q.hash, wrap |-> q.wrap,
             disabled |-> d, codes |-> q.codes]
    <3>. DEFINE a == [q EXCEPT !.disabled = d]
    <3>1. a = [id |-> q.id, gen |-> q.gen, hash |-> q.hash, wrap |-> q.wrap,
               disabled |-> d, codes |-> q.codes]
      <4>. HIDE DEF q
      <4>. QED BY <2>q
    <3>2. r = [a EXCEPT !.gen = q.gen + 1]
      <4>. HIDE DEF q
      <4>. QED BY <2>q
    <3>. HIDE DEF a, q
    <3>. QED BY <3>1, <3>2
  <2>1. r \in Row /\ r.id = rows[u].id /\ r.wrap = rows[u].wrap /\ r.codes = rows[u].codes
    <3>. HIDE DEF r
    <3>. QED BY <2>q, <2>e DEF Row
  <2>2. rows' = [rows EXCEPT ![u] = r]
    BY <1>3, <1>t DEF SetDisabled, TypeOK
  <2>3. UNCHANGED <<op, session, pending, dekOf, crossed, drawn>>
    BY <1>3 DEF SetDisabled
  <2>4. /\ rows[u].id \in drawn
        /\ rows[u].id \notin crossed =>
            /\ rows[u].wrap.key = dekOf[rows[u].id]
            /\ \A code \in rows[u].codes : code.key \in {NoKey, dekOf[rows[u].id]}
    BY <1>3 DEF SetDisabled, CustodyInv, KeyCustody, IncarnationsDistinct
  <2>. HIDE DEF r
  <2>. QED BY <1>h, <2>1, <2>2, <2>3, <2>4, OneRowStep
<1>4. ASSUME NEW pw \in Passwords, Reset(u, pw)
      PROVE  CustodyInv'
  <2>1. PICK code \in rows[u].codes :
          /\ code.key = NoKey => rows[u].wrap.key = NoKey
          /\ rows' = [rows EXCEPT ![u] =
                [SetPassword(rows[u], pw, code.key) EXCEPT
                    !.codes = (@ \ {code}) \cup {[code EXCEPT !.used = TRUE]}]]
          /\ IF code.key = NoKey THEN UNCHANGED dekOf ELSE RecordKey(rows[u].id, code.key)
    BY <1>4 DEF Reset
  <2>2. /\ code \in Code /\ [code EXCEPT !.used = TRUE] \in Code
        /\ [code EXCEPT !.used = TRUE].key = code.key
    BY <1>t DEF Row, Code
  <2>. DEFINE S == (rows[u].codes \ {code}) \cup {[code EXCEPT !.used = TRUE]}
              q == SetPassword(rows[u], pw, code.key)
              r == [q EXCEPT !.codes = S]
              i == rows[u].id
  <2>3. q \in Row /\ q.codes = rows[u].codes
    BY <1>t, <2>2, SetPasswordType DEF Code
  <2>4. r \in Row /\ r.id = i /\ r.codes = S /\ r.wrap.key = code.key
    BY <1>t, <2>2, <2>3 DEF Row, SetPassword, NoWrap
  <2>5. rows' = [rows EXCEPT ![u] = r]
    BY <2>1, <2>3
  <2>6. i \in Ids /\ i \in drawn /\ UNCHANGED <<op, session, pending, crossed, drawn>>
    BY <1>4, <1>t DEF Reset, Exists, Row, CustodyInv, IncarnationsDistinct
  <2>7. /\ code.key # NoKey /\ dekOf[i] = NoKey => dekOf'[i] = code.key
        /\ \A j \in Ids : dekOf[j] # NoKey => dekOf'[j] = dekOf[j]
        /\ \A j \in Ids : j # i => dekOf'[j] = dekOf[j]
        /\ code.key = NoKey => dekOf'[i] = dekOf[i]
    BY <1>t, <2>1, <2>2, <2>6, KeyRecorded DEF Code
  <2>8. i \notin crossed =>
          /\ code.key = dekOf[i]
          /\ \A d \in S : d.key \in {NoKey, dekOf[i]}
    BY <1>4, <2>1, <2>2 DEF Reset, CustodyInv, KeyCustody
  <2>9. i \notin crossed => dekOf'[i] = dekOf[i]
    BY <2>6, <2>7, <2>8
  <2>. HIDE DEF r, S
  <2>. QED BY <1>h, <2>4, <2>5, <2>6, <2>7, <2>8, <2>9, OneRowStep
<1>5. CASE RemoveLeftover(u)
  BY <1>5 DEF RemoveLeftover, CustodyInv, IncarnationsDistinct, KeyCustody, SessionHoldsOwnKey,
              PreparedHoldOwnKey, Exists, SignedIn
<1>. QED BY <1>1, <1>2, <1>3, <1>4, <1>5 DEF AccountStep

\* The invariant holds at first.
LEMMA InitCustody == Init => CustodyInv
<1>. SUFFICES ASSUME Init PROVE CustodyInv
  OBVIOUS
<1>1. TypeOK /\ Shape
  BY InitType
<1>2. SessionHoldsOwnKey /\ PreparedHoldOwnKey
  BY DEF Init, SessionHoldsOwnKey, PreparedHoldOwnKey, SignedIn, NoSession, NoPending, Idle
<1>c. \A c \in Clients : ~SignedIn(c)
  BY DEF Init, SignedIn, NoSession
<1>d. \A i \in Ids : dekOf[i] = NoKey
  BY DEF Init
<1>3. ASSUME rows = [u \in Users |-> NoRow]
      PROVE  IncarnationsDistinct /\ KeyCustody
  BY <1>3, <1>c, <1>d DEF IncarnationsDistinct, KeyCustody, Exists, NoRow
<1>4. ASSUME NEW u \in Users, NEW i \in Ids, NEW pw \in Passwords,
             NEW codes \in {{}, LegacyCodes},
             rows = [v \in Users |-> IF v = u THEN LegacyRow(i, pw, codes) ELSE NoRow],
             drawn = {i}
      PROVE  IncarnationsDistinct /\ KeyCustody
  <2>1. /\ rows[u].id = i /\ rows[u].wrap.key = NoKey /\ rows[u].codes = codes
        /\ \A v \in Users : v # u => rows[v].id = NoId
    BY <1>4 DEF LegacyRow, NoRow, NoWrap
  <2>2. \A code \in codes : code.key = NoKey
    BY <1>4 DEF LegacyCodes
  <2>3. IncarnationsDistinct
    BY <1>4, <1>c, <1>d, <2>1, SentinelAssumption DEF IncarnationsDistinct, Exists
  <2>4. KeyCustody
    BY <1>d, <2>1, <2>2 DEF KeyCustody, Exists
  <2>. QED BY <2>3, <2>4
<1>5. IncarnationsDistinct /\ KeyCustody
  BY <1>3, <1>4 DEF Init
<1>. QED BY <1>1, <1>2, <1>5 DEF CustodyInv

\* The inductive invariant of key custody holds in every reachable state.
THEOREM CustodyInvariant == Spec => []CustodyInv
<1>1. Init => CustodyInv
  BY InitCustody
<1>2. CustodyInv /\ [Next]_vars => CustodyInv'
  <2>. SUFFICES ASSUME CustodyInv, [Next]_vars PROVE CustodyInv'
    OBVIOUS
  <2>t. TypeOK /\ Shape
    BY DEF CustodyInv
  <2>1. ASSUME NEW c \in Clients, ClientStep(c) PROVE CustodyInv'
    BY <2>t, <2>1, ClientStepType, ClientStepCustody
  <2>2. ASSUME NEW u \in Users, AccountStep(u) PROVE CustodyInv'
    BY <2>t, <2>2, AccountStepType, AccountStepCustody
  <2>3. CASE UNCHANGED vars
    BY <2>3 DEF vars, CustodyInv, TypeOK, Shape, IncarnationsDistinct, KeyCustody,
                SessionHoldsOwnKey, PreparedHoldOwnKey, Exists, SignedIn
  <2>. QED BY <2>1, <2>2, <2>3 DEF Next
<1>. QED BY <1>1, <1>2, PTL DEF Spec

\* Every way into an account opens the one key its incarnation was given,
\* whatever operations race (signIn, ChangePassword, ResetWithRecoveryCode,
\* IssueRecoveryCodesWithPassword), unless codes made in a session of another
\* incarnation of the name were stored for it.
THEOREM KeysStayInCustody == Spec => []KeyCustody
<1>1. CustodyInv => KeyCustody
  BY DEF CustodyInv
<1>. QED BY <1>1, CustodyInvariant, PTL

\* A sign-in returns the key of the incarnation whose Principal it returns.
THEOREM SessionsHoldOwnKey == Spec => []SessionHoldsOwnKey
<1>1. CustodyInv => SessionHoldsOwnKey
  BY DEF CustodyInv
<1>. QED BY <1>1, CustodyInvariant, PTL

-----------------------------------------------------------------------------
(* What a step does to the accounts.  Every step leaves the table alone, or *)
(* changes one row: it deletes the account, creates it, or keeps it.        *)

\* A code is used up.
Spent(S, code) == (S \ {code}) \cup {[code EXCEPT !.used = TRUE]}

\* An account r becomes q by an operation other than its deletion: every
\* change of the hash or of the disabled column is counted; the password and
\* the wrap go together; the codes stay, or one is used up, or a fresh set
\* replaces them.
Kept(r, q) ==
    /\ q.id = r.id /\ q.gen >= r.gen
    /\ q.gen = r.gen => q.hash = r.hash /\ q.disabled = r.disabled
    /\ r.wrap.key = NoKey \/ r.wrap.pw = r.hash.pw =>
           q.wrap.key = NoKey \/ q.wrap.pw = q.hash.pw
    /\ \/ q.codes = r.codes /\ nextRow' = nextRow
       \/ \E code \in r.codes : q.codes = Spent(r.codes, code) /\ nextRow' = nextRow
       \/ \E k \in Keys : q.codes = NewCodes(k) /\ nextRow' = nextRow + CodesPerSet

\* A new account of an identity that no other ever had.
Created(u, q) ==
    /\ ~Exists(u) /\ q.id \in Ids \ drawn /\ q.codes = {}
    /\ q.wrap.pw = q.hash.pw
    /\ nextRow' = nextRow

RowsStep ==
    \/ UNCHANGED <<rows, nextRow>>
    \/ \E u \in Users : LET q == rows'[u] IN
        /\ \A v \in Users : v # u => rows'[v] = rows[v]
        /\ \/ q = NoRow /\ nextRow' = nextRow
           \/ Created(u, q)
           \/ Exists(u) /\ Kept(rows[u], q)

\* What a step does to a session: it stays, ends, or is the one that a
\* sign-in establishes with what it has read and written.
SessionStep(c) ==
    \/ session'[c] \in {session[c], NoSession}
    \/ LET s == session'[c]
           r == rows'[s.user]
       IN  /\ s.user \in Users
           /\ r.id = s.id /\ r.gen = s.gen /\ r.hash = s.hash /\ ~r.disabled

\* What a step does to prepared codes: they stay, go, or are prepared for the
\* codes that are stored.
PendingStep(c) ==
    \/ pending'[c] \in {pending[c], NoPending}
    \/ LET p == pending'[c] IN
       /\ p.user \in Users
       /\ p.seen = rows[p.user].codes /\ p.basis = Basis(p.seen)
       /\ UNCHANGED <<rows, nextRow>>

-----------------------------------------------------------------------------
(* The invariants that are inductive beside CustodyInv                      *)

\* A session never knows a later generation of its account than the registry
\* has; GenerationWitness is the case of equality.
SessionsNotAhead ==
    \A c \in Clients : LET s == session[c] IN
        SignedIn(c) /\ rows[s.user].id = s.id => s.gen <= rows[s.user].gen

\* A purge that has not removed the folder yet is the only one of its name,
\* and the name cannot be used again meanwhile: the folder is still there.
PurgesOwnFolder ==
    \A c \in Clients : op[c].kind = "purge" =>
        /\ op[c].phase = "commit" /\ ~Exists(op[c].user) /\ folder[op[c].user] # NoId
        /\ \A d \in Clients : op[d].kind = "purge" /\ op[d].user = op[c].user => d = c

\* A set of codes as the table may hold it when n row ids were handed out:
\* its row ids are among them, of one code each, and one is the highest.
CodeSet(S, n) ==
    /\ \A c \in S : c.row <= n
    /\ \A c, d \in S : c.row = d.row => c = d
    /\ S # {} => \E c \in S : \A d \in S : d.row <= c.row

\* S holds the codes of T, some used up since.
Since(T, S) ==
    /\ \A c \in S : \E d \in T : d.row = c.row /\ d.key = c.key /\ (d.used => c.used)
    /\ \A d \in T : \E c \in S : d.row = c.row /\ d.key = c.key /\ (d.used => c.used)

\* S was stored when the codes T had gone.
Newer(T, S) == S # {} /\ \A c \in S, d \in T : d.row < c.row

\* The codes stored now for the name that prepared codes are for: none, the
\* ones of then, or later ones.
CodesFollow ==
    /\ \A u \in Users : CodeSet(rows[u].codes, nextRow)
    /\ \A c \in Clients : pending[c].id # NoId =>
        LET T == pending[c].seen
            S == rows[pending[c].user].codes
        IN  /\ CodeSet(T, nextRow) /\ IsFiniteSet(T) /\ pending[c].basis = Basis(T)
            /\ S = {} \/ Since(T, S) \/ Newer(T, S)

\* The record of an account is as its operators say.
LEMMA StoreWorkKeeps ==
    ASSUME NEW r \in Row, NEW o \in Op, NEW rehash \in BOOLEAN,
           r.hash.pw = o.pw
    PROVE  LET q == StoreWork(r, o, rehash) IN
           /\ q.id = r.id /\ q.gen >= r.gen /\ q.disabled = r.disabled /\ q.codes = r.codes
           /\ q.gen = r.gen => q.hash = r.hash
           /\ r.wrap.key = NoKey \/ r.wrap.pw = r.hash.pw =>
                  q.wrap.key = NoKey \/ q.wrap.pw = q.hash.pw
<1>. DEFINE q == StoreWork(r, o, rehash)
<1>1. r.gen \in Nat
  BY DEF Row
<1>2. CASE rehash /\ r.hash.weak
  BY <1>1, <1>2 DEF StoreWork, NewHash
<1>3. CASE ~(rehash /\ r.hash.weak)
  BY <1>1, <1>3 DEF StoreWork, NewHash
<1>. QED BY <1>2, <1>3

\* A new password counts a generation and keeps the identity and the codes.
LEMMA SetPasswordKeeps ==
    ASSUME NEW r \in Row, NEW pw \in Passwords, NEW k \in Keys \cup {NoKey}
    PROVE  LET q == SetPassword(r, pw, k) IN
           /\ q.id = r.id /\ q.gen > r.gen /\ q.codes = r.codes
           /\ q.wrap.key = NoKey \/ q.wrap.pw = q.hash.pw
<1>1. r.gen \in Nat
  BY DEF Row
<1>. QED BY <1>1 DEF SetPassword, NewHash, NoWrap

\* The steps of the processes change one row at most, in one of the three ways.
LEMMA ClientStepRows ==
    ASSUME CustodyInv, NEW c \in Clients, ClientStep(c)
    PROVE  RowsStep /\ \A d \in Clients : SessionStep(d) /\ PendingStep(d)
<1>. DEFINE Others == \A d \in Clients : SessionStep(d) /\ PendingStep(d)
<1>t. /\ TypeOK /\ Shape /\ rows \in [Users -> Row] /\ op[c] \in Op
      /\ session \in [Clients -> Session] /\ pending \in [Clients -> Pending]
  BY DEF CustodyInv, TypeOK
<1>i. ASSUME UNCHANGED <<rows, nextRow, session, pending>>
      PROVE  RowsStep /\ Others
  BY <1>i DEF RowsStep, SessionStep, PendingStep
<1>1. ASSUME NEW u \in Users, NEW pw \in Passwords, NEW kind \in {"signin", "issue"},
             Attempt(c, kind, u, pw)
      PROVE  RowsStep /\ Others
  BY <1>1, <1>i DEF Attempt, Snapshot
<1>2. CASE Reattempt(c)
  BY <1>2, <1>i DEF Reattempt, Snapshot
<1>3. CASE Refused(c)
  BY <1>3, <1>i DEF Refused
<1>4. CASE Stale(c)
  BY <1>4, <1>i DEF Stale
<1>5. CASE SignInCommit(c)
  <2>. DEFINE o == op[c]
              r == StoreWork(rows[o.user], o, TRUE)
  <2>1. o.user \in Users /\ o.hash.pw = o.pw /\ o.id \in Ids
    BY <1>5, <1>t DEF SignInCommit, Committing, Shape
  <2>2. /\ rows[o.user] \in Row /\ rows[o.user].hash.pw = o.pw /\ Exists(o.user)
    BY <1>5, <1>t, <2>1, SentinelAssumption
       DEF SignInCommit, SameCredentials, SameIncarnation, Exists
  <2>3. /\ rows' = [rows EXCEPT ![o.user] = r] /\ ~rows[o.user].disabled
        /\ session' = [session EXCEPT ![c] =
              [user |-> o.user, id |-> r.id, gen |-> r.gen, hash |-> r.hash, key |-> o.key]]
        /\ pending' = [pending EXCEPT ![c] = NoPending]
        /\ nextRow' = nextRow
    BY <1>5 DEF SignInCommit
  <2>4. /\ r.id = rows[o.user].id /\ r.gen >= rows[o.user].gen
        /\ r.disabled = rows[o.user].disabled /\ r.codes = rows[o.user].codes
        /\ Kept(rows[o.user], r)
    BY <1>t, <2>2, <2>3, StoreWorkKeeps DEF Kept
  <2>5. rows'[o.user] = r /\ \A v \in Users : v # o.user => rows'[v] = rows[v]
    BY <1>t, <2>1, <2>3
  <2>. HIDE DEF r
  <2>6. RowsStep
    BY <2>1, <2>2, <2>4, <2>5 DEF RowsStep
  <2>7. SessionStep(c)
    BY <1>t, <2>1, <2>3, <2>4, <2>5 DEF SessionStep
  <2>8. \A d \in Clients : d # c => SessionStep(d)
    BY <1>t, <2>3 DEF SessionStep
  <2>9. \A d \in Clients : PendingStep(d)
    BY <1>t, <2>3 DEF PendingStep
  <2>. QED BY <2>6, <2>7, <2>8, <2>9
<1>6. CASE IssueCommit(c)
  <2>. DEFINE o == op[c]
              r == StoreWork(rows[o.user], o, FALSE)
              q == [r EXCEPT !.codes = NewCodes(o.key)]
  <2>1. o.user \in Users /\ o.hash.pw = o.pw /\ o.id \in Ids /\ o.key \in Keys
    BY <1>6, <1>t DEF IssueCommit, Committing, Shape
  <2>2. /\ rows[o.user] \in Row /\ rows[o.user].hash.pw = o.pw /\ Exists(o.user)
    BY <1>6, <1>t, <2>1, SentinelAssumption
       DEF IssueCommit, SameCredentials, SameIncarnation, Exists
  <2>3. /\ rows' = [rows EXCEPT ![o.user] = q]
        /\ UNCHANGED <<session, pending>> /\ nextRow' = nextRow + CodesPerSet
    BY <1>6 DEF IssueCommit
  <2>4. r \in Row
    BY <1>t, <2>2, StoreWorkType
  <2>5. /\ q.id = r.id /\ q.gen = r.gen /\ q.hash = r.hash /\ q.disabled = r.disabled
        /\ q.wrap = r.wrap /\ q.codes = NewCodes(o.key)
    BY <2>4 DEF Row
  <2>6. /\ r.id = rows[o.user].id /\ r.gen >= rows[o.user].gen
        /\ r.disabled = rows[o.user].disabled
        /\ r.gen = rows[o.user].gen => r.hash = rows[o.user].hash
        /\ rows[o.user].wrap.key = NoKey \/ rows[o.user].wrap.pw = rows[o.user].hash.pw =>
               r.wrap.key = NoKey \/ r.wrap.pw = r.hash.pw
    BY <1>t, <2>2, StoreWorkKeeps
  <2>7. rows'[o.user] = q /\ \A v \in Users : v # o.user => rows'[v] = rows[v]
    BY <1>t, <2>1, <2>3
  <2>. HIDE DEF r, q
  <2>8. Kept(rows[o.user], q)
    BY <2>1, <2>3, <2>5, <2>6 DEF Kept
  <2>9. RowsStep
    BY <2>1, <2>2, <2>7, <2>8 DEF RowsStep
  <2>. QED BY <2>3, <2>9 DEF SessionStep, PendingStep
<1>7. ASSUME NEW pw \in Passwords, NEW new \in Passwords, ChangeRead(c, pw, new)
      PROVE  RowsStep /\ Others
  BY <1>7, <1>i DEF ChangeRead
<1>8. CASE ChangeSwap(c)
  <2>. DEFINE o == op[c]
              q == SetPassword(rows[o.user], o.new, o.key)
  <2>1. o.user \in Users /\ o.key \in Keys /\ o.new \in Passwords
    BY <1>8, <1>t DEF ChangeSwap, Committing, Shape
  <2>2. UNCHANGED <<nextRow, session, pending>>
    BY <1>8 DEF ChangeSwap
  <2>3. CASE UNCHANGED rows
    BY <1>i, <2>2, <2>3
  <2>4. ASSUME Exists(o.user), rows' = [rows EXCEPT ![o.user] = q]
        PROVE  RowsStep /\ Others
    <3>r. rows[o.user] \in Row /\ rows[o.user].gen \in Nat
      BY <1>t, <2>1 DEF Row
    <3>1. /\ q.id = rows[o.user].id /\ q.gen > rows[o.user].gen
          /\ q.codes = rows[o.user].codes
          /\ q.wrap.key = NoKey \/ q.wrap.pw = q.hash.pw
      BY <2>1, <3>r, SetPasswordKeeps
    <3>2. q.gen \in Nat
      BY <3>r, <2>1, SetPasswordType DEF Row
    <3>3. rows'[o.user] = q /\ \A v \in Users : v # o.user => rows'[v] = rows[v]
      BY <1>t, <2>1, <2>4
    <3>. HIDE DEF q
    <3>4. Kept(rows[o.user], q)
      BY <2>2, <3>r, <3>1, <3>2 DEF Kept
    <3>5. RowsStep
      BY <2>1, <2>4, <3>3, <3>4 DEF RowsStep
    <3>. QED BY <2>2, <3>5 DEF SessionStep, PendingStep
  <2>. QED BY <1>8, <2>3, <2>4 DEF ChangeSwap
<1>n. ASSUME NEW u \in Users, NEW k \in Keys, Exists(u),
             rows' = [rows EXCEPT ![u].codes = NewCodes(k)],
             nextRow' = nextRow + CodesPerSet
      PROVE  RowsStep
  <2>. DEFINE q == rows'[u]
  <2>1. rows[u] \in Row /\ rows[u].gen \in Nat
    BY <1>t DEF Row
  <2>2. /\ q.id = rows[u].id /\ q.gen = rows[u].gen /\ q.hash = rows[u].hash
        /\ q.disabled = rows[u].disabled /\ q.wrap = rows[u].wrap /\ q.codes = NewCodes(k)
        /\ \A v \in Users : v # u => rows'[v] = rows[v]
    BY <1>t, <1>n, <2>1 DEF Row
  <2>. HIDE DEF q
  <2>3. Kept(rows[u], q)
    BY <1>n, <2>1, <2>2 DEF Kept
  <2>. QED BY <1>n, <2>2, <2>3 DEF RowsStep, q
<1>9. CASE IssueRecoveryCodes(c)
  <2>1. session[c].user \in Users /\ session[c].key \in Keys
    BY <1>9, <1>t DEF IssueRecoveryCodes, SignedIn, Shape
  <2>2. RowsStep
    BY <1>9, <1>n, <2>1 DEF IssueRecoveryCodes
  <2>. QED BY <1>9, <2>2 DEF IssueRecoveryCodes, SessionStep, PendingStep
<1>10. ASSUME NEW pw \in Passwords, PrepareRead(c, pw)
       PROVE  RowsStep /\ Others
  BY <1>10, <1>i DEF PrepareRead
<1>11. CASE PrepareBasis(c)
  <2>. DEFINE o == op[c]
              p == [user |-> o.user, id |-> o.id, key |-> o.key,
                    basis |-> Basis(rows[o.user].codes), seen |-> rows[o.user].codes]
  <2>1. o.user \in Users
    BY <1>11, <1>t DEF PrepareBasis, Committing, Shape
  <2>2. pending' = [pending EXCEPT ![c] = p] /\ UNCHANGED <<rows, nextRow, session>>
    BY <1>11 DEF PrepareBasis
  <2>3. p.user = o.user /\ p.seen = rows[o.user].codes /\ p.basis = Basis(rows[o.user].codes)
    OBVIOUS
  <2>4. pending'[c] = p /\ \A d \in Clients : d # c => pending'[d] = pending[d]
    BY <1>t, <2>2
  <2>. HIDE DEF p
  <2>5. \A d \in Clients : PendingStep(d)
    BY <2>1, <2>2, <2>3, <2>4 DEF PendingStep
  <2>. QED BY <2>2, <2>5 DEF RowsStep, SessionStep
<1>12. CASE Confirm(c)
  <2>. DEFINE p == pending[c]
  <2>1. p.user \in Users /\ p.key \in Keys
    BY <1>12, <1>t DEF Confirm, Shape
  <2>2. pending' = [pending EXCEPT ![c] = NoPending] /\ UNCHANGED session
    BY <1>12 DEF Confirm
  <2>3. RowsStep
    <3>1. CASE UNCHANGED <<rows, nextRow>>
      BY <3>1 DEF RowsStep
    <3>2. CASE /\ Exists(p.user) /\ nextRow' = nextRow + CodesPerSet
               /\ rows' = [rows EXCEPT ![p.user].codes = NewCodes(p.key)]
      BY <1>n, <2>1, <3>2
    <3>. QED BY <1>12, <3>1, <3>2 DEF Confirm
  <2>. QED BY <1>t, <2>2, <2>3 DEF SessionStep, PendingStep
<1>13. CASE Discard(c)
  BY <1>13, <1>t DEF Discard, RowsStep, SessionStep, PendingStep
<1>14. ASSUME NEW u \in Users, Purge(c, u)
       PROVE  RowsStep /\ Others
  <2>1. rows'[u] = NoRow /\ \A v \in Users : v # u => rows'[v] = rows[v]
    BY <1>14, <1>t DEF Purge
  <2>2. nextRow' = nextRow /\ UNCHANGED <<session, pending>>
    BY <1>14 DEF Purge
  <2>. QED BY <2>1, <2>2 DEF RowsStep, SessionStep, PendingStep
<1>15. CASE PurgeFolder(c)
  BY <1>15, <1>i DEF PurgeFolder
<1>16. CASE Exit(c)
  BY <1>16, <1>t DEF Exit, RowsStep, SessionStep, PendingStep
<1>. QED
  BY <1>1, <1>2, <1>3, <1>4, <1>5, <1>6, <1>7, <1>8, <1>9, <1>10, <1>11, <1>12, <1>13,
     <1>14, <1>15, <1>16 DEF ClientStep

\* The steps on accounts change one row at most, in one of the three ways.
LEMMA AccountStepRows ==
    ASSUME CustodyInv, NEW u \in Users, AccountStep(u)
    PROVE  RowsStep /\ \A d \in Clients : SessionStep(d) /\ PendingStep(d)
<1>. DEFINE Others == \A d \in Clients : SessionStep(d) /\ PendingStep(d)
<1>t. TypeOK /\ rows \in [Users -> Row] /\ rows[u] \in Row /\ rows[u].gen \in Nat
  BY DEF CustodyInv, TypeOK, Row
<1>o. ASSUME UNCHANGED <<session, pending>> PROVE Others
  BY <1>o DEF SessionStep, PendingStep
<1>1. ASSUME NEW pw \in Passwords, CreateAccount(u, pw)
      PROVE  RowsStep /\ Others
  <2>1. PICK i \in Ids \ drawn, k \in Keys \ minted :
          rows' = [rows EXCEPT ![u] =
                [id |-> i, gen |-> 2,
                 hash |-> [pw |-> pw, id |-> i, gen |-> 1, weak |-> FALSE],
                 wrap |-> [key |-> k, pw |-> pw], disabled |-> FALSE, codes |-> {}]]
    BY <1>1 DEF CreateAccount
  <2>2. ~Exists(u) /\ nextRow' = nextRow /\ UNCHANGED <<session, pending>>
    BY <1>1 DEF CreateAccount
  <2>3. /\ rows'[u].id = i /\ rows'[u].codes = {} /\ rows'[u].wrap.pw = pw
        /\ rows'[u].hash.pw = pw /\ \A v \in Users : v # u => rows'[v] = rows[v]
    BY <1>t, <2>1
  <2>4. Created(u, rows'[u])
    BY <2>2, <2>3 DEF Created
  <2>. QED BY <1>o, <2>2, <2>3, <2>4 DEF RowsStep
<1>2. CASE CreateInterrupted(u)
  BY <1>2, <1>o DEF CreateInterrupted, RowsStep
<1>3. ASSUME NEW d \in BOOLEAN, SetDisabled(u, d)
      PROVE  RowsStep /\ Others
  <2>1. Exists(u) /\ UNCHANGED <<nextRow, session, pending>>
        /\ rows' = [rows EXCEPT ![u].disabled = d, ![u].gen = @ + 1]
    BY <1>3 DEF SetDisabled
  <2>. DEFINE q == rows'[u]
  <2>2. /\ q.id = rows[u].id /\ q.gen = rows[u].gen + 1 /\ q.hash = rows[u].hash
        /\ q.wrap = rows[u].wrap /\ q.codes = rows[u].codes
        /\ \A v \in Users : v # u => rows'[v] = rows[v]
    BY <1>t, <2>1 DEF Row
  <2>. HIDE DEF q
  <2>3. Kept(rows[u], q)
    BY <1>t, <2>1, <2>2 DEF Kept
  <2>. QED BY <1>o, <2>1, <2>2, <2>3 DEF RowsStep, q
<1>4. ASSUME NEW pw \in Passwords, Reset(u, pw)
      PROVE  RowsStep /\ Others
  <2>1. PICK code \in rows[u].codes :
          rows' = [rows EXCEPT ![u] =
                [SetPassword(rows[u], pw, code.key) EXCEPT
                    !.codes = (@ \ {code}) \cup {[code EXCEPT !.used = TRUE]}]]
    BY <1>4 DEF Reset
  <2>2. code.key \in Keys \cup {NoKey}
    BY <1>t DEF Row, Code
  <2>. DEFINE r == SetPassword(rows[u], pw, code.key)
              q == rows'[u]
  <2>3. /\ r \in Row /\ r.id = rows[u].id /\ r.gen > rows[u].gen /\ r.codes = rows[u].codes
        /\ r.wrap.key = NoKey \/ r.wrap.pw = r.hash.pw
    BY <1>t, <2>2, SetPasswordType, SetPasswordKeeps
  <2>4. rows' = [rows EXCEPT ![u] = [r EXCEPT !.codes = Spent(rows[u].codes, code)]]
    BY <2>1, <2>3 DEF Spent
  <2>. HIDE DEF r
  <2>5. q = [r EXCEPT !.codes = Spent(rows[u].codes, code)]
        /\ \A v \in Users : v # u => rows'[v] = rows[v]
    BY <1>t, <2>4
  <2>6. /\ q.id = r.id /\ q.gen = r.gen /\ q.hash = r.hash /\ q.wrap = r.wrap
        /\ q.codes = Spent(rows[u].codes, code) /\ r.gen \in Nat
    BY <2>3, <2>5 DEF Row
  <2>7. Exists(u) /\ UNCHANGED <<nextRow, session, pending>>
    BY <1>4 DEF Reset
  <2>. HIDE DEF q
  <2>8. Kept(rows[u], q)
    BY <1>t, <2>3, <2>6, <2>7 DEF Kept
  <2>. QED BY <1>o, <2>5, <2>7, <2>8 DEF RowsStep, q
<1>5. CASE RemoveLeftover(u)
  BY <1>5, <1>o DEF RemoveLeftover, RowsStep
<1>. QED BY <1>1, <1>2, <1>3, <1>4, <1>5 DEF AccountStep

\* Every step changes one row at most, and sessions and prepared codes only as
\* stated.
LEMMA NextRows ==
    CustodyInv /\ [Next]_vars =>
        RowsStep /\ \A d \in Clients : SessionStep(d) /\ PendingStep(d)
<1>. SUFFICES ASSUME CustodyInv, [Next]_vars
              PROVE  RowsStep /\ \A d \in Clients : SessionStep(d) /\ PendingStep(d)
  OBVIOUS
<1>1. CASE UNCHANGED vars
  BY <1>1 DEF vars, RowsStep, SessionStep, PendingStep
<1>. QED BY <1>1, ClientStepRows, AccountStepRows DEF Next

-----------------------------------------------------------------------------
(* The password, and the generation                                         *)

\* The password that signs in is the one that opens the key: the hash and
\* the wrap of an account are always of one write (storeCredentialWorkTx,
\* ChangePassword, ResetWithRecoveryCode).
THEOREM PasswordsOpenKeys == Spec => []PasswordOpensKey
<1>1. Init => PasswordOpensKey
  <2>. SUFFICES ASSUME Init, NEW u \in Users PROVE rows[u].wrap.key = NoKey
    BY DEF PasswordOpensKey
  <2>. QED BY DEF Init, NoRow, LegacyRow, NoWrap
<1>2. CustodyInv /\ PasswordOpensKey /\ [Next]_vars => PasswordOpensKey'
  <2>. SUFFICES ASSUME CustodyInv, PasswordOpensKey, [Next]_vars, NEW v \in Users
                PROVE  rows'[v].wrap.key # NoKey => rows'[v].wrap.pw = rows'[v].hash.pw
    BY DEF PasswordOpensKey
  <2>1. RowsStep
    BY NextRows
  <2>2. rows[v].wrap.key # NoKey => rows[v].wrap.pw = rows[v].hash.pw
    BY DEF PasswordOpensKey
  <2>3. NoRow.wrap.key = NoKey
    BY DEF NoRow, NoWrap
  <2>. QED BY <2>1, <2>2, <2>3 DEF RowsStep, Created, Kept
<1>. QED BY <1>1, <1>2, CustodyInvariant, PTL DEF Spec

\* No session gets ahead of its account, and the generation tells what has changed.
LEMMA GenerationKept ==
    CustodyInv /\ SessionsNotAhead /\ GenerationWitness /\ [Next]_vars =>
        SessionsNotAhead' /\ GenerationWitness'
<1>. SUFFICES ASSUME CustodyInv, SessionsNotAhead, GenerationWitness, [Next]_vars,
                     NEW c \in Clients, session'[c].id # NoId,
                     rows'[session'[c].user].id = session'[c].id
              PROVE  /\ session'[c].gen <= rows'[session'[c].user].gen
                     /\ rows'[session'[c].user].gen = session'[c].gen =>
                          /\ rows'[session'[c].user].hash = session'[c].hash
                          /\ ~rows'[session'[c].user].disabled
  BY DEF SessionsNotAhead, GenerationWitness, SignedIn
<1>. DEFINE s == session'[c]
            r == rows[s.user]
            q == rows'[s.user]
<1>1. RowsStep /\ SessionStep(c)
  BY NextRows
<1>2. CASE s.user \in Users /\ q.id = s.id /\ q.gen = s.gen /\ q.hash = s.hash /\ ~q.disabled
  <2>1. TypeOK'
    <3>1. TypeOK /\ Shape
      BY DEF CustodyInv
    <3>. QED BY <3>1, ClientStepType, AccountStepType DEF Next, vars, TypeOK
  <2>2. q.gen \in Nat
    BY <1>2, <2>1 DEF TypeOK, Row
  <2>. QED BY <1>2, <2>2
<1>3. CASE s = session[c]
  <2>1. SignedIn(c) /\ s.user \in Users /\ s.id \in drawn /\ s.gen \in Nat
    BY <1>3 DEF SignedIn, CustodyInv, Shape, IncarnationsDistinct, TypeOK, Session
  <2>2. r \in Row /\ r.gen \in Nat
    BY <2>1 DEF CustodyInv, TypeOK, Row
  <2>3. /\ r.id = s.id => s.gen <= r.gen
        /\ r.id = s.id /\ r.gen = s.gen => r.hash = s.hash /\ ~r.disabled
    BY <1>3, <2>1 DEF SessionsNotAhead, GenerationWitness
  <2>4. q = r \/ q = NoRow \/ Created(s.user, q) \/ Kept(r, q)
    BY <1>1, <2>1 DEF RowsStep
  <2>5. CASE q = r
    BY <2>3, <2>5
  <2>6. q # NoRow
    BY <1>3 DEF NoRow
  <2>7. ~Created(s.user, q)
    BY <2>1 DEF Created
  <2>8. CASE Kept(r, q)
    <3>1. TypeOK'
      <4>1. TypeOK /\ Shape
        BY DEF CustodyInv
      <4>. QED BY <4>1, ClientStepType, AccountStepType DEF Next, vars, TypeOK
    <3>2. q.gen \in Nat
      BY <2>1, <3>1 DEF TypeOK, Row
    <3>. QED BY <2>1, <2>2, <2>3, <2>8, <3>2 DEF Kept
  <2>. QED BY <2>4, <2>5, <2>6, <2>7, <2>8
<1>. QED BY <1>1, <1>2, <1>3 DEF SessionStep, NoSession

\* A Principal whose identity and generation the registry still has is one of
\* an enabled account with the hash its sign-in checked
\* (account_identity_users_state).
THEOREM GenerationsWitness == Spec => []GenerationWitness
<1>1. Init => SessionsNotAhead /\ GenerationWitness
  BY DEF Init, SessionsNotAhead, GenerationWitness, SignedIn, NoSession
<1>. QED BY <1>1, GenerationKept, CustodyInvariant, PTL DEF Spec

-----------------------------------------------------------------------------
(* The folder                                                               *)

\* A step that neither creates nor deletes an account nor touches a folder.
LEMMA FoldersUntouched ==
    ASSUME FolderKept, PurgesOwnFolder, folder' = folder,
           \A u \in Users : rows'[u].id = rows[u].id,
           \A d \in Clients : op'[d].kind = "purge" => op'[d] = op[d] /\ op[d].user \in Users
    PROVE  FolderKept' /\ PurgesOwnFolder'
  BY DEF FolderKept, PurgesOwnFolder, Exists

\* The steps of the processes remove only the folder of the account they purge.
LEMMA ClientStepFolders ==
    ASSUME CustodyInv, FolderKept, PurgesOwnFolder, NEW c \in Clients, ClientStep(c)
    PROVE  FolderKept' /\ PurgesOwnFolder'
<1>t. /\ TypeOK /\ Shape /\ rows \in [Users -> Row] /\ op \in [Clients -> Op]
      /\ \A d \in Clients : op[d].kind = "purge" => op[d].user \in Users
  BY DEF CustodyInv, TypeOK, Shape
\* Steps that leave the accounts or their identities as they are.
<1>u. ASSUME UNCHANGED <<rows, folder>>,
             NEW o, o.kind # "purge", op' = [op EXCEPT ![c] = o]
      PROVE  FolderKept' /\ PurgesOwnFolder'
  <2>1. \A d \in Clients : op'[d] = IF d = c THEN o ELSE op[d]
    BY <1>t, <1>u
  <2>. QED BY <1>t, <1>u, <2>1, FoldersUntouched
<1>k. Idle.kind # "purge"
  BY DEF Idle
<1>1. ASSUME NEW u \in Users, NEW pw \in Passwords, NEW kind \in {"signin", "issue"},
             Attempt(c, kind, u, pw)
      PROVE  FolderKept' /\ PurgesOwnFolder'
  BY <1>1, <1>u DEF Attempt, Snapshot
<1>2. CASE Reattempt(c)
  <2>1. op[c].kind # "purge"
    BY <1>2, <1>t DEF Reattempt, Shape
  <2>. QED BY <1>2, <1>u, <1>k, <2>1 DEF Reattempt, Snapshot, EndOp
<1>3. CASE Refused(c)
  BY <1>3, <1>u, <1>k DEF Refused, EndOp
<1>4. CASE Stale(c)
  <2>1. CASE EndOp(c)
    BY <1>4, <1>u, <1>k, <2>1 DEF Stale, EndOp
  <2>2. CASE op' = [op EXCEPT ![c].phase = "read", ![c].tries = @ + 1]
    <3>1. op' = [op EXCEPT ![c] = [op[c] EXCEPT !.phase = "read", !.tries = @ + 1]]
      BY <1>t, <2>2 DEF Op
    <3>2. [op[c] EXCEPT !.phase = "read", !.tries = @ + 1].kind = op[c].kind
      BY <1>t DEF Op
    <3>3. op[c].kind # "purge"
      BY <1>4 DEF Stale, Committing
    <3>. QED BY <1>4, <1>u, <3>1, <3>2, <3>3 DEF Stale
  <2>. QED BY <1>4, <2>1, <2>2 DEF Stale
\* Steps that end the operation and keep the identities.
<1>e. ASSUME NEW u \in Users, NEW q, rows' = [rows EXCEPT ![u] = q], q.id = rows[u].id,
             UNCHANGED folder, EndOp(c)
      PROVE  FolderKept' /\ PurgesOwnFolder'
  <2>1. \A d \in Clients : op'[d] = IF d = c THEN Idle ELSE op[d]
    BY <1>t, <1>e DEF EndOp
  <2>2. \A v \in Users : rows'[v].id = rows[v].id
    BY <1>t, <1>e
  <2>. QED BY <1>t, <1>e, <1>k, <2>1, <2>2, FoldersUntouched
<1>5. CASE SignInCommit(c)
  <2>1. op[c].user \in Users
    BY <1>5, <1>t DEF SignInCommit, Committing, Shape
  <2>2. StoreWork(rows[op[c].user], op[c], TRUE).id = rows[op[c].user].id
    BY DEF StoreWork
  <2>. QED BY <1>5, <1>e, <2>1, <2>2 DEF SignInCommit
<1>6. CASE IssueCommit(c)
  <2>1. op[c].user \in Users
    BY <1>6, <1>t DEF IssueCommit, Committing, Shape
  <2>. DEFINE r == StoreWork(rows[op[c].user], op[c], FALSE)
              q == [r EXCEPT !.codes = NewCodes(op[c].key)]
  <2>2. q.id = rows[op[c].user].id
    BY DEF StoreWork
  <2>3. rows' = [rows EXCEPT ![op[c].user] = q] /\ UNCHANGED folder /\ EndOp(c)
    BY <1>6 DEF IssueCommit
  <2>. HIDE DEF q
  <2>. QED BY <1>e, <2>1, <2>2, <2>3
<1>7. ASSUME NEW pw \in Passwords, NEW new \in Passwords, ChangeRead(c, pw, new)
      PROVE  FolderKept' /\ PurgesOwnFolder'
  BY <1>7, <1>u DEF ChangeRead, Idle
<1>8. CASE ChangeSwap(c)
  <2>1. op[c].user \in Users
    BY <1>8, <1>t DEF ChangeSwap, Committing, Shape
  <2>2. SetPassword(rows[op[c].user], op[c].new, op[c].key).id = rows[op[c].user].id
    BY DEF SetPassword
  <2>3. CASE rows' = [rows EXCEPT ![op[c].user] =
                          SetPassword(rows[op[c].user], op[c].new, op[c].key)]
    BY <1>8, <1>e, <2>1, <2>2, <2>3 DEF ChangeSwap
  <2>4. CASE UNCHANGED rows
    BY <1>8, <1>u, <1>k, <2>4 DEF ChangeSwap, EndOp
  <2>. QED BY <1>8, <1>t, <2>1, <2>3, <2>4 DEF ChangeSwap
\* Steps that replace codes and leave every operation as it is.
<1>n. ASSUME NEW u \in Users, NEW S, rows' = [rows EXCEPT ![u].codes = S],
             UNCHANGED <<folder, op>>
      PROVE  FolderKept' /\ PurgesOwnFolder'
  <2>1. \A v \in Users : rows'[v].id = rows[v].id
    BY <1>t, <1>n DEF Row
  <2>. QED BY <1>t, <1>n, <2>1, FoldersUntouched
<1>9. CASE IssueRecoveryCodes(c)
  <2>1. session[c].user \in Users
    BY <1>9, <1>t DEF IssueRecoveryCodes, SignedIn, Shape
  <2>. QED BY <1>9, <1>n, <2>1 DEF IssueRecoveryCodes
<1>10. ASSUME NEW pw \in Passwords, PrepareRead(c, pw)
       PROVE  FolderKept' /\ PurgesOwnFolder'
  BY <1>10, <1>u DEF PrepareRead, Idle
<1>11. CASE PrepareBasis(c)
  BY <1>11, <1>u, <1>k DEF PrepareBasis, EndOp
<1>12. CASE Confirm(c)
  <2>1. pending[c].user \in Users
    BY <1>12, <1>t DEF Confirm, Shape
  <2>2. CASE rows' = [rows EXCEPT ![pending[c].user].codes = NewCodes(pending[c].key)]
    BY <1>12, <1>n, <2>1, <2>2 DEF Confirm
  <2>3. CASE UNCHANGED rows
    BY <1>12, <1>t, <2>3, FoldersUntouched DEF Confirm
  <2>. QED BY <1>12, <2>2, <2>3 DEF Confirm
<1>13. CASE Discard(c)
  BY <1>13, <1>t, FoldersUntouched DEF Discard
<1>14. ASSUME NEW u \in Users, Purge(c, u)
       PROVE  FolderKept' /\ PurgesOwnFolder'
  <2>. DEFINE o == [Idle EXCEPT !.kind = "purge", !.phase = "commit", !.user = u]
  <2>1. o.kind = "purge" /\ o.phase = "commit" /\ o.user = u
    BY DEF Idle
  <2>2. /\ \A d \in Clients : op'[d] = IF d = c THEN o ELSE op[d]
        /\ \A v \in Users : rows'[v] = IF v = u THEN NoRow ELSE rows[v]
        /\ folder' = folder
    BY <1>14, <1>t DEF Purge
  <2>3. NoRow.id = NoId
    BY DEF NoRow
  <2>4. folder[u] = rows[u].id /\ rows[u].id # NoId
    BY <1>14 DEF Purge, Exists, FolderKept
  <2>. HIDE DEF o
  <2>5. \A d \in Clients : op[d].kind = "purge" => op[d].user # u
    BY <1>14 DEF Purge, PurgesOwnFolder
  <2>6. FolderKept'
    BY <2>2, <2>3 DEF FolderKept, Exists
  <2>7. PurgesOwnFolder'
    BY <1>t, <2>1, <2>2, <2>3, <2>4, <2>5 DEF PurgesOwnFolder, Exists
  <2>. QED BY <2>6, <2>7
<1>15. CASE PurgeFolder(c)
  <2>1. /\ \A d \in Clients : op'[d] = IF d = c THEN Idle ELSE op[d]
        /\ rows' = rows /\ op[c].kind = "purge"
    BY <1>15, <1>t DEF PurgeFolder, EndOp, Committing
  <2>2. /\ op[c].user \in Users /\ ~Exists(op[c].user)
        /\ \A d \in Clients : op[d].kind = "purge" /\ op[d].user = op[c].user => d = c
    BY <1>t, <2>1 DEF PurgesOwnFolder
  <2>3. \A u \in Users : u # op[c].user => folder'[u] = folder[u]
    BY <1>15, <1>t DEF PurgeFolder, TypeOK
  <2>4. FolderKept'
    BY <2>1, <2>2, <2>3 DEF FolderKept, Exists
  <2>5. PurgesOwnFolder'
    BY <1>t, <1>k, <2>1, <2>2, <2>3 DEF PurgesOwnFolder, Exists
  <2>. QED BY <2>4, <2>5
<1>16. CASE Exit(c)
  BY <1>16, <1>u, <1>k DEF Exit, EndOp
<1>. QED
  BY <1>1, <1>2, <1>3, <1>4, <1>5, <1>6, <1>7, <1>8, <1>9, <1>10, <1>11, <1>12, <1>13,
     <1>14, <1>15, <1>16 DEF ClientStep

\* The steps on accounts keep the folders.
LEMMA AccountStepFolders ==
    ASSUME CustodyInv, FolderKept, PurgesOwnFolder, NEW u \in Users, AccountStep(u)
    PROVE  FolderKept' /\ PurgesOwnFolder'
<1>t. /\ TypeOK /\ rows \in [Users -> Row] /\ folder \in [Users -> Ids \cup {NoId}]
      /\ \A d \in Clients : op[d].kind = "purge" => op[d].user \in Users
  BY DEF CustodyInv, TypeOK, Shape
\* A folder is made only where there is none, so under no purge.
<1>f. ASSUME ~Exists(u), folder[u] = NoId, NEW i \in Ids,
             folder' = [folder EXCEPT ![u] = i], UNCHANGED op,
             \A v \in Users : v # u => rows'[v] = rows[v],
             rows'[u].id \in {NoId, i}
      PROVE  FolderKept' /\ PurgesOwnFolder'
  <2>1. \A d \in Clients : op[d].kind = "purge" => op[d].user # u
    BY <1>f DEF PurgesOwnFolder
  <2>2. \A v \in Users : folder'[v] = IF v = u THEN i ELSE folder[v]
    BY <1>t, <1>f
  <2>. QED BY <1>t, <1>f, <2>1, <2>2 DEF FolderKept, PurgesOwnFolder, Exists
<1>1. ASSUME NEW pw \in Passwords, CreateAccount(u, pw)
      PROVE  FolderKept' /\ PurgesOwnFolder'
  <2>1. PICK i \in Ids \ drawn, k \in Keys \ minted :
          /\ rows' = [rows EXCEPT ![u] =
                [id |-> i, gen |-> 2,
                 hash |-> [pw |-> pw, id |-> i, gen |-> 1, weak |-> FALSE],
                 wrap |-> [key |-> k, pw |-> pw], disabled |-> FALSE, codes |-> {}]]
          /\ folder' = [folder EXCEPT ![u] = i]
    BY <1>1 DEF CreateAccount
  <2>2. rows'[u].id = i /\ \A v \in Users : v # u => rows'[v] = rows[v]
    BY <1>t, <2>1
  <2>. QED BY <1>1, <1>f, <2>1, <2>2 DEF CreateAccount
<1>2. CASE CreateInterrupted(u)
  <2>1. rows[u].id = NoId
    BY <1>2 DEF CreateInterrupted, Exists
  <2>. QED BY <1>2, <1>f, <2>1 DEF CreateInterrupted
<1>3. ASSUME NEW d \in BOOLEAN, SetDisabled(u, d)
      PROVE  FolderKept' /\ PurgesOwnFolder'
  <2>1. \A v \in Users : rows'[v].id = rows[v].id
    BY <1>3, <1>t DEF SetDisabled, Row
  <2>. QED BY <1>3, <1>t, <2>1, FoldersUntouched DEF SetDisabled
<1>4. ASSUME NEW pw \in Passwords, Reset(u, pw)
      PROVE  FolderKept' /\ PurgesOwnFolder'
  <2>1. PICK code \in rows[u].codes :
          rows' = [rows EXCEPT ![u] =
                [SetPassword(rows[u], pw, code.key) EXCEPT
                    !.codes = (@ \ {code}) \cup {[code EXCEPT !.used = TRUE]}]]
    BY <1>4 DEF Reset
  <2>2. \A v \in Users : rows'[v].id = rows[v].id
    BY <1>t, <2>1 DEF SetPassword
  <2>. QED BY <1>4, <1>t, <2>2, FoldersUntouched DEF Reset
<1>5. CASE RemoveLeftover(u)
  <2>1. /\ ~Exists(u) /\ UNCHANGED <<rows, op>>
        /\ \A v \in Users : v # u => folder'[v] = folder[v]
    BY <1>5, <1>t DEF RemoveLeftover
  <2>2. \A d \in Clients : op[d].kind = "purge" => op[d].user # u
    BY <1>5 DEF RemoveLeftover, Committing, PurgesOwnFolder
  <2>. QED BY <1>t, <2>1, <2>2 DEF FolderKept, PurgesOwnFolder, Exists
<1>. QED BY <1>1, <1>2, <1>3, <1>4, <1>5 DEF AccountStep

\* Every account has the folder its own creation made: a purge of an earlier
\* account of the name never removes it (PurgeAccount, ErrUserFolderExists).
THEOREM FoldersAreKept == Spec => []FolderKept
<1>1. Init => FolderKept /\ PurgesOwnFolder
  <2>. SUFFICES ASSUME Init PROVE FolderKept /\ PurgesOwnFolder
    OBVIOUS
  <2>1. PurgesOwnFolder
    BY DEF Init, PurgesOwnFolder, Idle
  <2>2. FolderKept
    BY DEF Init, FolderKept, Exists, NoRow, LegacyRow
  <2>. QED BY <2>1, <2>2
<1>2. CustodyInv /\ FolderKept /\ PurgesOwnFolder /\ [Next]_vars =>
        FolderKept' /\ PurgesOwnFolder'
  <2>. SUFFICES ASSUME CustodyInv, FolderKept, PurgesOwnFolder, [Next]_vars
                PROVE  FolderKept' /\ PurgesOwnFolder'
    OBVIOUS
  <2>1. CASE UNCHANGED vars
    BY <2>1 DEF vars, FolderKept, PurgesOwnFolder, Exists
  <2>. QED BY <2>1, ClientStepFolders, AccountStepFolders DEF Next
<1>. QED BY <1>1, <1>2, CustodyInvariant, PTL DEF Spec

-----------------------------------------------------------------------------
(* The basis of prepared codes                                              *)

\* Equal bases mean equal codes, where the one set follows the other: the
\* highest row id tells a replaced set, the number of used codes a used code.
LEMMA SameBasis ==
    ASSUME NEW S \in SUBSET Code, NEW T \in SUBSET Code, IsFiniteSet(S), IsFiniteSet(T),
           NEW n, CodeSet(S, n), CodeSet(T, n), S = {} \/ Since(T, S) \/ Newer(T, S),
           Basis(S) = Basis(T)
    PROVE  S = T
<1>1. HighestRow(S) = HighestRow(T)
  BY DEF Basis
<1>2. Cardinality({c \in S : c.used}) = Cardinality({c \in T : c.used})
  BY DEF Basis
<1>h. ASSUME NEW U \in SUBSET Code, CodeSet(U, n), U # {} PROVE HighestRow(U) # {}
  BY <1>h DEF CodeSet, HighestRow
<1>3. CASE S = {}
  <2>1. HighestRow(S) = {}
    BY <1>3 DEF HighestRow
  <2>. QED BY <1>1, <1>3, <1>h, <2>1
<1>4. CASE Newer(T, S)
  <2>1. HighestRow(S) # {}
    BY <1>4, <1>h DEF Newer
  <2>2. PICK c \in S : c.row \in HighestRow(S)
    BY <2>1 DEF HighestRow
  <2>3. PICK d \in T : d.row = c.row
    BY <1>1, <2>2 DEF HighestRow
  <2>4. c.row \in Nat /\ d.row < c.row
    BY <1>4 DEF Newer, Code
  <2>. QED BY <2>3, <2>4
<1>5. CASE Since(T, S)
  <2>. DEFINE US == {c \in S : c.used}
              UT == {c \in T : c.used}
  <2>e. ASSUME NEW c \in Code, NEW d \in Code, c.row = d.row, c.key = d.key, c.used = d.used
        PROVE  c = d
    BY <2>e DEF Code
  <2>1. UT \in SUBSET US
    <3>. SUFFICES ASSUME NEW d \in T, d.used PROVE d \in US
      OBVIOUS
    <3>1. PICK c \in S : d.row = c.row /\ d.key = c.key /\ (d.used => c.used)
      BY <1>5 DEF Since
    <3>2. c.used = d.used
      BY <3>1 DEF Code
    <3>3. c = d
      BY <2>e, <3>1, <3>2
    <3>. QED BY <3>3
  <2>2. IsFiniteSet(US)
    <3>1. US \in SUBSET S
      OBVIOUS
    <3>. QED BY <3>1, FS_Subset
  <2>3. US = UT
    <3>. HIDE DEF US, UT
    <3>1. Cardinality(US) = Cardinality(UT)
      BY <1>2 DEF US, UT
    <3>. QED BY <2>1, <2>2, <3>1, FS_Subset
  <2>4. ASSUME NEW c \in S PROVE c \in T
    <3>1. PICK d \in T : d.row = c.row /\ d.key = c.key /\ (d.used => c.used)
      BY <1>5 DEF Since
    <3>2. CASE c.used
      BY <2>3, <3>2
    <3>3. CASE ~c.used
      <4>1. c.used = d.used
        BY <3>1, <3>3 DEF Code
      <4>. QED BY <2>e, <3>1, <4>1
    <3>. QED BY <3>2, <3>3
  <2>5. ASSUME NEW d \in T PROVE d \in S
    <3>1. PICK c \in S : d.row = c.row /\ d.key = c.key /\ (d.used => c.used)
      BY <1>5 DEF Since
    <3>2. c \in T
      BY <2>4
    <3>3. c = d
      BY <3>1, <3>2 DEF CodeSet
    <3>. QED BY <3>3
  <2>. QED BY <2>4, <2>5
<1>. QED BY <1>3, <1>4, <1>5

\* A fresh set of codes is one, and newer than every code there was.
LEMMA FreshCodes ==
    ASSUME nextRow \in Nat, NEW k, nextRow' = nextRow + CodesPerSet
    PROVE  /\ CodeSet(NewCodes(k), nextRow')
           /\ \A T \in SUBSET Code : CodeSet(T, nextRow) => Newer(T, NewCodes(k))
<1>. DEFINE S == NewCodes(k)
<1>n. CodesPerSet \in Nat \ {0}
  BY CountAssumption
<1>1. \A c \in S : \E i \in 1 .. CodesPerSet : c = [row |-> nextRow + i, key |-> k, used |-> FALSE]
  BY DEF NewCodes
<1>2. ASSUME NEW c \in S
      PROVE  /\ c.row \in Nat /\ nextRow < c.row /\ c.row <= nextRow + CodesPerSet
             /\ c = [row |-> c.row, key |-> k, used |-> FALSE]
  <2>1. PICK i \in 1 .. CodesPerSet : c = [row |-> nextRow + i, key |-> k, used |-> FALSE]
    BY <1>1
  <2>2. c.row = nextRow + i /\ i \in Nat
    BY <1>n, <2>1
  <2>. QED BY <1>n, <2>1, <2>2
<1>3. [row |-> nextRow + CodesPerSet, key |-> k, used |-> FALSE] \in S
  <2>1. CodesPerSet \in 1 .. CodesPerSet
    BY <1>n
  <2>. QED BY <2>1, Zenon DEF NewCodes
<1>. HIDE DEF S
<1>4. \E c \in S : \A d \in S : d.row <= c.row
  <2>. DEFINE top == [row |-> nextRow + CodesPerSet, key |-> k, used |-> FALSE]
  <2>1. top \in S /\ \A d \in S : d.row <= top.row
    BY <1>2, <1>3
  <2>. HIDE DEF top
  <2>. QED BY <2>1
<1>5. \A c, d \in S : c.row = d.row => c = d
  BY <1>2
<1>6. \A c \in S : c.row <= nextRow'
  BY <1>2
<1>7. ASSUME NEW T \in SUBSET Code, CodeSet(T, nextRow) PROVE Newer(T, S)
  <2>1. \A d \in T : d.row \in Nat /\ d.row <= nextRow
    BY <1>7 DEF CodeSet, Code
  <2>. QED BY <1>2, <1>3, <2>1 DEF Newer
<1>. QED BY <1>4, <1>5, <1>6, <1>7 DEF CodeSet, S


\* Codes of which one is used up.
LEMMA SpentCodes ==
    ASSUME NEW S \in SUBSET Code, NEW code \in S, NEW n, CodeSet(S, n)
    PROVE  /\ CodeSet(Spent(S, code), n)
           /\ \A T \in SUBSET Code : Since(T, S) => Since(T, Spent(S, code))
           /\ \A T \in SUBSET Code : Newer(T, S) => Newer(T, Spent(S, code))
<1>. DEFINE e == [code EXCEPT !.used = TRUE]
            R == Spent(S, code)
<1>1. e \in Code /\ e.row = code.row /\ e.key = code.key /\ e.used = TRUE
  BY DEF Code
<1>2. R = (S \ {code}) \cup {e}
  BY DEF Spent
<1>. HIDE DEF e, R
<1>3. \A c \in R : \E d \in S : d.row = c.row /\ d.key = c.key /\ (d.used => c.used)
  BY <1>1, <1>2
<1>4. \A d \in S : \E c \in R : d.row = c.row /\ d.key = c.key /\ (d.used => c.used)
  BY <1>1, <1>2
<1>5. CodeSet(R, n)
  <2>1. \A c \in R : c.row <= n
    BY <1>1, <1>2 DEF CodeSet
  <2>2. \A c, d \in R : c.row = d.row => c = d
    BY <1>1, <1>2 DEF CodeSet
  <2>3. R # {} => \E c \in R : \A d \in R : d.row <= c.row
    BY <1>3, <1>4 DEF CodeSet
  <2>. QED BY <2>1, <2>2, <2>3 DEF CodeSet
<1>6. ASSUME NEW T \in SUBSET Code, Since(T, S) PROVE Since(T, R)
  <2>1. ASSUME NEW c \in R
        PROVE  \E d \in T : d.row = c.row /\ d.key = c.key /\ (d.used => c.used)
    <3>1. PICK b \in S : b.row = c.row /\ b.key = c.key /\ (b.used => c.used)
      BY <1>3
    <3>2. PICK d \in T : d.row = b.row /\ d.key = b.key /\ (d.used => b.used)
      BY <1>6 DEF Since
    <3>. QED BY <3>1, <3>2
  <2>2. ASSUME NEW d \in T
        PROVE  \E c \in R : d.row = c.row /\ d.key = c.key /\ (d.used => c.used)
    <3>1. PICK b \in S : d.row = b.row /\ d.key = b.key /\ (d.used => b.used)
      BY <1>6 DEF Since
    <3>2. PICK c \in R : b.row = c.row /\ b.key = c.key /\ (b.used => c.used)
      BY <1>4
    <3>. QED BY <3>1, <3>2
  <2>. QED BY <2>1, <2>2 DEF Since
<1>7. ASSUME NEW T \in SUBSET Code, Newer(T, S) PROVE Newer(T, R)
  BY <1>1, <1>2, <1>7 DEF Newer
<1>. QED BY <1>5, <1>6, <1>7 DEF R

\* What a step does to the codes of a name, and to what they follow.
LEMMA CodesStep ==
    ASSUME CustodyInv, RowsStep, NEW u \in Users, CodeSet(rows[u].codes, nextRow)
    PROVE  LET S == rows[u].codes
               R == rows'[u].codes
           IN  /\ nextRow' >= nextRow /\ nextRow' \in Nat
               /\ CodeSet(R, nextRow')
               /\ \A T \in SUBSET Code :
                    CodeSet(T, nextRow) /\ (S = {} \/ Since(T, S) \/ Newer(T, S)) =>
                        R = {} \/ Since(T, R) \/ Newer(T, R)
<1>. DEFINE S == rows[u].codes
            R == rows'[u].codes
            Goal == /\ nextRow' >= nextRow /\ nextRow' \in Nat
                    /\ CodeSet(R, nextRow')
                    /\ \A T \in SUBSET Code :
                         CodeSet(T, nextRow) /\ (S = {} \/ Since(T, S) \/ Newer(T, S)) =>
                             R = {} \/ Since(T, R) \/ Newer(T, R)
<1>t. nextRow \in Nat /\ S \in SUBSET Code /\ CodesPerSet \in Nat
  BY CountAssumption DEF CustodyInv, TypeOK, Row
<1>e. CodeSet({}, nextRow)
  BY DEF CodeSet
<1>a. \A n \in Nat : n >= nextRow /\ CodeSet(S, nextRow) => CodeSet(S, n)
  BY <1>t DEF CodeSet, Code
<1>1. ASSUME R = S, nextRow' \in {nextRow, nextRow + CodesPerSet} PROVE Goal
  <2>1. nextRow' \in Nat /\ nextRow' >= nextRow
    BY <1>1, <1>t
  <2>. QED BY <1>1, <1>a, <2>1
<1>2. ASSUME R = {}, nextRow' = nextRow PROVE Goal
  BY <1>2, <1>e, <1>t
<1>3. ASSUME NEW code \in S, R = Spent(S, code), nextRow' = nextRow PROVE Goal
  <2>1. CodeSet(R, nextRow)
    BY <1>3, <1>t, SpentCodes
  <2>2. ASSUME NEW T \in SUBSET Code, S = {} \/ Since(T, S) \/ Newer(T, S)
        PROVE  R = {} \/ Since(T, R) \/ Newer(T, R)
    BY <1>3, <1>t, <2>2, SpentCodes
  <2>. QED BY <1>3, <1>t, <2>1, <2>2
<1>4. ASSUME NEW k \in Keys, R = NewCodes(k), nextRow' = nextRow + CodesPerSet PROVE Goal
  <2>1. CodeSet(R, nextRow') /\ \A T \in SUBSET Code : CodeSet(T, nextRow) => Newer(T, R)
    BY <1>4, <1>t, FreshCodes
  <2>. QED BY <1>4, <1>t, <2>1
<1>5. CASE UNCHANGED <<rows, nextRow>>
  BY <1>1, <1>5
<1>6. ASSUME NEW v \in Users, \A w \in Users : w # v => rows'[w] = rows[w],
             \/ rows'[v] = NoRow /\ nextRow' = nextRow
             \/ Created(v, rows'[v])
             \/ Exists(v) /\ Kept(rows[v], rows'[v])
      PROVE  Goal
  <2>1. nextRow' \in {nextRow, nextRow + CodesPerSet}
    BY <1>6 DEF Created, Kept
  <2>2. CASE u # v
    BY <1>1, <1>6, <2>1, <2>2
  <2>3. CASE u = v
    <3>1. CASE rows'[u] = NoRow /\ nextRow' = nextRow
      BY <1>2, <3>1 DEF NoRow
    <3>2. CASE Created(u, rows'[u])
      BY <1>2, <3>2 DEF Created
    <3>3. CASE Kept(rows[u], rows'[u])
      BY <1>1, <1>3, <1>4, <3>3 DEF Kept
    <3>. QED BY <1>6, <2>3, <3>1, <3>2, <3>3
  <2>. QED BY <2>2, <2>3
<1>7. CASE ~UNCHANGED <<rows, nextRow>>
  <2>1. PICK v \in Users :
          /\ \A w \in Users : w # v => rows'[w] = rows[w]
          /\ \/ rows'[v] = NoRow /\ nextRow' = nextRow
             \/ Created(v, rows'[v])
             \/ Exists(v) /\ Kept(rows[v], rows'[v])
    BY <1>7, Zenon DEF RowsStep
  <2>. HIDE DEF Goal
  <2>2. Goal
    BY <1>6, <2>1
  <2>. QED BY <2>2 DEF Goal
<1>. QED BY <1>5, <1>7

\* Every step keeps stored codes newer than, or the remains of, those a process
\* has seen.
LEMMA CodesFollowKept == CustodyInv /\ CodesFollow /\ [Next]_vars => CodesFollow'
<1>. SUFFICES ASSUME CustodyInv, CodesFollow, [Next]_vars PROVE CodesFollow'
  OBVIOUS
<1>1. RowsStep /\ \A c \in Clients : PendingStep(c)
  BY NextRows
<1>t. nextRow \in Nat
  BY DEF CustodyInv, TypeOK
<1>2. \A u \in Users : CodeSet(rows'[u].codes, nextRow')
  BY <1>1, CodesStep DEF CodesFollow
<1>3. ASSUME NEW c \in Clients, pending'[c].id # NoId
      PROVE  LET T == pending'[c].seen
                 R == rows'[pending'[c].user].codes
             IN  /\ CodeSet(T, nextRow') /\ IsFiniteSet(T) /\ pending'[c].basis = Basis(T)
                 /\ R = {} \/ Since(T, R) \/ Newer(T, R)
  <2>. DEFINE p == pending'[c]
              T == p.seen
              S == rows[p.user].codes
              R == rows'[p.user].codes
  <2>1. CASE p = pending[c]
    <3>1. /\ CodeSet(T, nextRow) /\ IsFiniteSet(T) /\ p.basis = Basis(T)
          /\ S = {} \/ Since(T, S) \/ Newer(T, S)
      BY <1>3, <2>1 DEF CodesFollow
    <3>2. p.user \in Users /\ T \in SUBSET Code
      BY <1>3, <2>1 DEF CustodyInv, Shape, TypeOK, Pending
    <3>3. CodeSet(S, nextRow)
      BY <3>2 DEF CodesFollow
    <3>4. nextRow' >= nextRow /\ nextRow' \in Nat /\ (R = {} \/ Since(T, R) \/ Newer(T, R))
      BY <1>1, <3>1, <3>2, <3>3, CodesStep
    <3>5. CodeSet(T, nextRow')
      BY <1>t, <3>1, <3>2, <3>4 DEF CodeSet, Code
    <3>. QED BY <3>1, <3>4, <3>5
  <2>2. CASE /\ p.user \in Users /\ T = rows[p.user].codes /\ p.basis = Basis(T)
             /\ UNCHANGED <<rows, nextRow>>
    <3>1. CodeSet(T, nextRow) /\ IsFiniteSet(T) /\ R = T
      BY <2>2 DEF CodesFollow, CustodyInv, TypeOK
    <3>2. Since(T, T)
      BY DEF Since
    <3>. QED BY <2>2, <3>1, <3>2
  <2>3. p # NoPending
    BY <1>3 DEF NoPending
  <2>. QED BY <1>1, <2>1, <2>2, <2>3 DEF PendingStep
<1>. QED BY <1>2, <1>3 DEF CodesFollow

\* Codes that replace others at ConfirmRecoveryCodes replace just those that
\* were stored when they were prepared: COUNT(*), MAX(id) and SUM(used) tell
\* every other set apart (ErrRecoveryCodesChanged).
THEOREM BasisDetectsChanges == Spec => []BasisDetectsChange
<1>1. Init => CodesFollow
  <2>. SUFFICES ASSUME Init PROVE CodesFollow
    OBVIOUS
  <2>1. \A c \in Clients : pending[c].id = NoId
    BY DEF Init, NoPending
  <2>2. CodeSet({}, nextRow)
    BY DEF CodeSet
  <2>3. CodeSet(LegacyCodes, CodesPerSet)
    <3>n. CodesPerSet \in Nat \ {0}
      BY CountAssumption
    <3>1. ASSUME NEW c \in LegacyCodes
          PROVE  /\ c.row \in Nat /\ c.row <= CodesPerSet
                 /\ c = [row |-> c.row, key |-> NoKey, used |-> FALSE]
      <4>1. PICK i \in 1 .. CodesPerSet : c = [row |-> i, key |-> NoKey, used |-> FALSE]
        BY DEF LegacyCodes
      <4>2. c.row = i /\ i \in Nat
        BY <3>n, <4>1
      <4>. QED BY <3>n, <4>1, <4>2
    <3>. DEFINE top == [row |-> CodesPerSet, key |-> NoKey, used |-> FALSE]
    <3>2. top \in LegacyCodes /\ top.row = CodesPerSet
      <4>1. CodesPerSet \in 1 .. CodesPerSet
        BY <3>n
      <4>. QED BY <4>1, Zenon DEF LegacyCodes
    <3>. HIDE DEF top
    <3>. QED BY <3>1, <3>2 DEF CodeSet
  <2>4. \A u \in Users : CodeSet(rows[u].codes, nextRow)
    <3>1. CASE rows = [u \in Users |-> NoRow]
      BY <2>2, <3>1 DEF NoRow
    <3>2. ASSUME NEW u \in Users, NEW i \in Ids, NEW pw \in Passwords,
                 NEW codes \in {{}, LegacyCodes},
                 rows = [v \in Users |-> IF v = u THEN LegacyRow(i, pw, codes) ELSE NoRow],
                 nextRow = IF codes = {} THEN 0 ELSE CodesPerSet
          PROVE  \A v \in Users : CodeSet(rows[v].codes, nextRow)
      <4>1. CodeSet(codes, nextRow)
        BY <2>2, <2>3, <3>2
      <4>2. \A v \in Users : rows[v].codes \in {{}, codes}
        BY <3>2 DEF LegacyRow, NoRow
      <4>. QED BY <2>2, <4>1, <4>2
    <3>. QED BY <3>1, <3>2 DEF Init
  <2>. QED BY <2>1, <2>4 DEF CodesFollow
<1>2. CustodyInv /\ CodesFollow => BasisDetectsChange
  <2>. SUFFICES ASSUME CustodyInv, CodesFollow, NEW c \in Clients, pending[c].id # NoId,
                       Basis(rows[pending[c].user].codes) = pending[c].basis
                PROVE  rows[pending[c].user].codes = pending[c].seen
    BY DEF BasisDetectsChange
  <2>. DEFINE T == pending[c].seen
              S == rows[pending[c].user].codes
  <2>1. pending[c].user \in Users /\ T \in SUBSET Code
    BY DEF CustodyInv, Shape, TypeOK, Pending
  <2>2. S \in SUBSET Code /\ IsFiniteSet(S) /\ CodeSet(S, nextRow)
    BY <2>1 DEF CustodyInv, TypeOK, Row, CodesFollow
  <2>3. /\ CodeSet(T, nextRow) /\ IsFiniteSet(T) /\ pending[c].basis = Basis(T)
        /\ S = {} \/ Since(T, S) \/ Newer(T, S)
    BY DEF CodesFollow
  <2>. QED BY <2>1, <2>2, <2>3, SameBasis
<1>. QED BY <1>1, <1>2, CodesFollowKept, CustodyInvariant, PTL DEF Spec

=============================================================================

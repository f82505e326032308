------------------------- MODULE AdministrationProofs -------------------------
(***************************************************************************)
(* Proofs about Administration, for every finite set of usernames and any  *)
(* number of keys, open keys and damaged private keys.                     *)
(*                                                                         *)
(* Every transaction of the module is a composition of operators from      *)
(* database to database.  Each operator has one lemma here, that says what *)
(* of the roles (RoleStep) and of the keys (KeyStep) it keeps; an action   *)
(* is a path of such steps, and what holds along every path (Path) is the  *)
(* inductive invariant Good and who may have been given the key.           *)
(***************************************************************************)
EXTENDS Administration, FiniteSetTheorems, WellFoundedInduction, NaturalsInduction, TLAPS

-----------------------------------------------------------------------------
(* The inductive invariant                                                  *)

\* Ranks number the accounts in order, and only accounts have rows that refer
\* to them.
AccountsOK(d) ==
    /\ \A u \in Accounts(d) : d.rank[u] <= Cardinality(Accounts(d))
    /\ \A u, v \in Accounts(d) : d.rank[u] = d.rank[v] => u = v
    /\ d.admin \cup d.disabled \cup d.protected \cup d.personal \subseteq Accounts(d)

\* Whoever has a role can use it, and there is no standby without a super
\* administrator: ensureSuperTx could otherwise give the standby both roles.
RolesOK(d) ==
    /\ d.super # Nobody => d.super \in EnabledAdmins(d)
    /\ d.standby # Nobody => d.super # Nobody /\ d.standby \in EnabledAdmins(d) \ {d.super}
    /\ d.protected \subseteq EnabledAdmins(d)

\* Only the active key is named, and whoever was given it is accounted for,
\* but for those in X, whose grant a transaction has removed and whose
\* replacement of the key it has still to run or to mark.
KeysOK(d, X) ==
    /\ \A u \in Users : d.pin[u] \in {0, d.key} /\ d.grant[u] \in {0, d.key}
    /\ d.sealed = d.pin
    /\ d.recovery \in {0, d.key}
    /\ \A u \in d.knows \ X : d.grant[u] # 0 \/ d.due
    /\ d.key = 0 => d.knows = {}

Good(d, X) == d \in Database /\ AccountsOK(d) /\ RolesOK(d) /\ KeysOK(d, X)

-----------------------------------------------------------------------------
(* Steps on a database                                                      *)

SameAccounts(d, e) ==
    e.rank = d.rank /\ e.admin = d.admin /\ e.disabled = d.disabled

SameRoles(d, e) ==
    /\ SameAccounts(d, e)
    /\ e.super = d.super /\ e.standby = d.standby /\ e.protected = d.protected

SameKeys(d, e) ==
    /\ e.key = d.key /\ e.pin = d.pin /\ e.sealed = d.sealed /\ e.grant = d.grant
    /\ e.recovery = d.recovery /\ e.due = d.due /\ e.knows = d.knows
    /\ e.personal = d.personal

\* Only members of S are given the key, or a new key.
Given(d, e, S) ==
    \A u \in Users : e.grant[u] # 0 /\ (d.grant[u] = 0 \/ e.key # d.key) => u \in S

\* A change of the roles alone.
RoleStep(d, e) ==
    e \in Database /\ SameAccounts(d, e) /\ SameKeys(d, e) /\ RolesOK(e)

\* A change of the keys alone.
KeyStep(d, e, S, X) ==
    /\ e \in Database /\ SameRoles(d, e) /\ KeysOK(e, X)
    /\ e.key >= d.key
    /\ e.personal \subseteq d.personal \cup Accounts(d)
    /\ Given(d, e, S)

\* Any sequence of changes.
Path(d, e, S, X) == Good(e, X) /\ e.key >= d.key /\ Given(d, e, S)

\* A change of the roles alone is a path on which nobody is given the key.
LEMMA RolePath ==
    ASSUME NEW d, NEW e, NEW S, NEW X, Good(d, X), RoleStep(d, e)
    PROVE  Path(d, e, S, X)
<1>1. KeysOK(e, X)
  BY DEF Good, RoleStep, KeysOK, SameKeys
<1>2. Accounts(e) = Accounts(d)
  BY DEF RoleStep, SameAccounts, Accounts
<1>3. AccountsOK(e)
  BY <1>2 DEF Good, AccountsOK, RoleStep, SameAccounts, SameKeys, RolesOK, EnabledAdmins
<1>4. Given(d, e, S) /\ e.key >= d.key
  BY DEF Good, Given, RoleStep, SameKeys, Database
<1>. QED BY <1>1, <1>3, <1>4 DEF Path, Good, RoleStep

\* A change of the keys alone is a path.
LEMMA KeyPath ==
    ASSUME NEW d, NEW e, NEW S, NEW X, NEW Y, Good(d, X), KeyStep(d, e, S, Y)
    PROVE  Path(d, e, S, Y)
<1>1. Accounts(e) = Accounts(d) /\ EnabledAdmins(e) = EnabledAdmins(d)
  BY DEF KeyStep, SameRoles, SameAccounts, Accounts, EnabledAdmins
<1>2. AccountsOK(e)
  BY <1>1 DEF Good, AccountsOK, KeyStep, SameRoles, SameAccounts
<1>3. RolesOK(e)
  BY <1>1 DEF Good, RolesOK, KeyStep, SameRoles
<1>. QED BY <1>2, <1>3 DEF Path, Good, KeyStep

\* Changes of the keys compose.
LEMMA KeyStepTrans ==
    ASSUME NEW d \in Database, NEW e, NEW f, NEW S, NEW X, NEW Y,
           KeyStep(d, e, S, X), KeyStep(e, f, S, Y)
    PROVE  KeyStep(d, f, S, Y)
<1>1. SameRoles(d, f)
  BY DEF KeyStep, SameRoles, SameAccounts
<1>2. f.key >= d.key
  BY DEF KeyStep, Database
<1>3. f.personal \subseteq d.personal \cup Accounts(d)
  BY DEF KeyStep, SameRoles, SameAccounts, Accounts
<1>4. Given(d, f, S)
  BY DEF KeyStep, Given
<1>. QED BY <1>1, <1>2, <1>3, <1>4 DEF KeyStep

\* Paths compose, and whoever is given the key on the way is in S.
LEMMA PathsCompose ==
    ASSUME NEW d, NEW e, NEW f, NEW S, NEW T, NEW X, NEW Y,
           d \in Database, Path(d, e, S, X), Path(e, f, T, Y)
    PROVE  Path(d, f, S \cup T, Y)
<1>1. d.key \in Nat /\ e.key \in Nat /\ f.key \in Nat
  BY DEF Path, Good, Database
<1>2. Given(d, f, S \cup T)
  BY DEF Path, Given
<1>. QED BY <1>1, <1>2 DEF Path

\* More may be given the key than are.
LEMMA PathMore ==
    ASSUME NEW d, NEW e, NEW S, NEW X, NEW T, Path(d, e, S, X), S \cap Users \subseteq T
    PROVE  Path(d, e, T, X)
  BY DEF Path, Given

-----------------------------------------------------------------------------
(* Roles                                                                    *)

\* Among enabled administrators there is one who was created first.
LEMMA EarliestExists ==
    ASSUME NEW d \in Database, EnabledAdmins(d) # {}
    PROVE  Earliest(d) \in EnabledAdmins(d)
<1>. DEFINE A == EnabledAdmins(d)
            T == {d.rank[u] : u \in A}
            R == {ss \in Nat \X Nat : ss[1] < ss[2]}
<1>1. A \subseteq Users /\ d.rank \in [Users -> Nat]
  BY DEF Database, EnabledAdmins
<1>2. T \subseteq Nat /\ T # {}
  BY <1>1
<1>3. IsWellFoundedOn(R, Nat)
  BY NatLessThanWellFounded, Zenon DEF OpToRel
<1>4. PICK x \in T : \A y \in T : ~(<<y, x>> \in R)
  <2>. HIDE DEF T, R
  <2>. QED BY <1>2, <1>3, WFMin
<1>5. \A y \in T : x <= y
  <2>. SUFFICES ASSUME NEW y \in T PROVE x <= y
    OBVIOUS
  <2>. HIDE DEF T
  <2>1. x \in Nat /\ y \in Nat /\ <<y, x>> \notin R
    BY <1>2, <1>4
  <2>. QED BY <2>1
<1>6. PICK u \in A : x = d.rank[u]
  BY <1>4
<1>7. \A v \in A : d.rank[u] <= d.rank[v]
  BY <1>5, <1>6
<1>. QED BY <1>6, <1>7 DEF Earliest

\* ensureSuperTx fills the role only where it is empty.
LEMMA EnsureSuperStep ==
    ASSUME NEW d \in Database, RolesOK(d)
    PROVE  LET e == EnsureSuper(d)
           IN  /\ RoleStep(d, e)
               /\ e.standby = d.standby /\ e.protected = d.protected
               /\ d.super # Nobody => e.super = d.super
               /\ EnabledAdmins(d) # {} => e.super # Nobody
<1>1. CASE d.super \in EnabledAdmins(d) \/ EnabledAdmins(d) = {}
  <2>1. EnsureSuper(d) = d
    BY <1>1 DEF EnsureSuper
  <2>2. d.super \in EnabledAdmins(d) => d.super # Nobody
    BY NobodyAssumption DEF Database, EnabledAdmins
  <2>. QED BY <1>1, <2>1, <2>2 DEF RoleStep, SameAccounts, SameKeys
<1>2. CASE ~(d.super \in EnabledAdmins(d) \/ EnabledAdmins(d) = {})
  <2>. DEFINE x == Earliest(d)
              e == [d EXCEPT !.super = x, !.lapsed = @ \ {"super"}]
  <2>1. x \in EnabledAdmins(d) /\ x \in Users /\ x # Nobody
    BY <1>2, EarliestExists, NobodyAssumption DEF Database, EnabledAdmins
  <2>2. EnsureSuper(d) = e
    BY <1>2 DEF EnsureSuper
  <2>3. d.super = Nobody /\ d.standby = Nobody
    BY <1>2 DEF RolesOK
  <2>. HIDE DEF x
  <2>4. e \in Database /\ e.super = x
    BY <2>1 DEF Database
  <2>5. SameAccounts(d, e) /\ SameKeys(d, e) /\ e.standby = d.standby /\ e.protected = d.protected
    BY DEF SameAccounts, SameKeys, Database
  <2>6. EnabledAdmins(e) = EnabledAdmins(d)
    BY <2>5 DEF EnabledAdmins, SameAccounts
  <2>. HIDE DEF e
  <2>7. RolesOK(e)
    BY <2>1, <2>3, <2>4, <2>5, <2>6 DEF RolesOK
  <2>. QED BY <2>1, <2>2, <2>3, <2>4, <2>5, <2>7 DEF RoleStep
<1>. QED BY <1>1, <1>2

\* While the roles are in order, reading the succession repairs nothing but
\* an empty super administrator.
LEMMA ReadSuccessionStep ==
    ASSUME NEW d \in Database, RolesOK(d)
    PROVE  ReadSuccession(d) = EnsureSuper(d)
<1>1. RolesOK(EnsureSuper(d))
  BY EnsureSuperStep DEF RoleStep
<1>. QED BY <1>1 DEF ReadSuccession, RolesOK

\* clearStandbyTx takes the standby away from u.
LEMMA ClearStandbyFacts ==
    ASSUME NEW d \in Database, NEW u \in Users
    PROVE  LET e == ClearStandby(d, u)
           IN  /\ e \in Database /\ SameAccounts(d, e) /\ SameKeys(d, e)
               /\ e.super = d.super /\ e.protected = d.protected
               /\ e.standby # u /\ e.standby \in {d.standby, Nobody}
<1>1. CASE d.standby # u
  BY <1>1 DEF ClearStandby, SameAccounts, SameKeys
<1>2. CASE d.standby = u
  <2>. DEFINE e == [d EXCEPT !.standby = Nobody, !.lapsed = @ \ {"standby"}]
  <2>1. ClearStandby(d, u) = e
    BY <1>2 DEF ClearStandby
  <2>2. e \in Database /\ e.standby = Nobody
    BY DEF Database
  <2>3. SameAccounts(d, e) /\ SameKeys(d, e) /\ e.super = d.super /\ e.protected = d.protected
    BY DEF SameAccounts, SameKeys, Database
  <2>. HIDE DEF e
  <2>. QED BY <2>1, <2>2, <2>3, NobodyAssumption
<1>. QED BY <1>1, <1>2

\* Taking the standby away from u leaves the roles in order.
LEMMA ClearStandbyStep ==
    ASSUME NEW d \in Database, RolesOK(d), NEW u \in Users
    PROVE  LET e == ClearStandby(d, u)
           IN  /\ RoleStep(d, e)
               /\ e.super = d.super /\ e.protected = d.protected
               /\ e.standby # u /\ e.standby \in {d.standby, Nobody}
<1>. DEFINE e == ClearStandby(d, u)
<1>1. /\ e \in Database /\ SameAccounts(d, e) /\ SameKeys(d, e)
      /\ e.super = d.super /\ e.protected = d.protected
      /\ e.standby # u /\ e.standby \in {d.standby, Nobody}
  BY ClearStandbyFacts
<1>. HIDE DEF e
<1>2. EnabledAdmins(e) = EnabledAdmins(d)
  BY <1>1 DEF EnabledAdmins, SameAccounts
<1>3. RolesOK(e)
  BY <1>1, <1>2 DEF RolesOK
<1>. QED BY <1>1, <1>3 DEF RoleStep, e

\* The role goes to u, who is not the standby any more, and P are protected.
LEMMA NewSuperStep ==
    ASSUME NEW d \in Database, RolesOK(d), NEW u \in EnabledAdmins(d),
           NEW P \in SUBSET EnabledAdmins(d)
    PROVE  LET e == [d EXCEPT !.super = u, !.lapsed = @ \ {"super"}, !.protected = P]
               f == ClearStandby(e, u)
           IN  RoleStep(d, f) /\ f.super = u
<1>. DEFINE e == [d EXCEPT !.super = u, !.lapsed = @ \ {"super"}, !.protected = P]
            f == ClearStandby(e, u)
<1>0. u \in Users /\ u # Nobody /\ P \in SUBSET Users
  BY NobodyAssumption DEF Database, EnabledAdmins
<1>1. /\ e \in Database /\ e.super = u /\ e.protected = P /\ e.standby = d.standby
      /\ SameAccounts(d, e) /\ SameKeys(d, e)
  BY <1>0 DEF Database, SameAccounts, SameKeys
<1>. HIDE DEF e
<1>2. /\ f \in Database /\ SameAccounts(e, f) /\ SameKeys(e, f)
      /\ f.super = u /\ f.protected = P
      /\ f.standby # u /\ f.standby \in {d.standby, Nobody}
  BY <1>0, <1>1, ClearStandbyFacts
<1>. HIDE DEF f
<1>3. SameAccounts(d, f) /\ SameKeys(d, f)
  BY <1>1, <1>2 DEF SameAccounts, SameKeys
<1>4. EnabledAdmins(f) = EnabledAdmins(d)
  BY <1>3 DEF SameAccounts, EnabledAdmins
<1>5. RolesOK(f)
  BY <1>0, <1>2, <1>4 DEF RolesOK
<1>. QED BY <1>2, <1>3, <1>5 DEF RoleStep, e, f

\* The standby becomes s, or nobody.
LEMMA NewStandbyStep ==
    ASSUME NEW d \in Database, RolesOK(d), d.super # Nobody,
           NEW s \in (EnabledAdmins(d) \ {d.super}) \cup {Nobody}
    PROVE  LET e == [d EXCEPT !.standby = s]
           IN  RoleStep(d, e) /\ e.super = d.super /\ e.standby = s
<1>. DEFINE e == [d EXCEPT !.standby = s]
<1>0. s \in Users \cup {Nobody}
  BY DEF Database, EnabledAdmins
<1>1. /\ e \in Database /\ e.super = d.super /\ e.protected = d.protected /\ e.standby = s
      /\ SameAccounts(d, e) /\ SameKeys(d, e)
  BY <1>0 DEF Database, SameAccounts, SameKeys
<1>. HIDE DEF e
<1>2. EnabledAdmins(e) = EnabledAdmins(d)
  BY <1>1 DEF SameAccounts, EnabledAdmins
<1>3. RolesOK(e)
  BY <1>1, <1>2 DEF RolesOK
<1>. QED BY <1>1, <1>3 DEF RoleStep, e

\* Time passes, or somebody signs in.
LEMMA LapsedStep ==
    ASSUME NEW d \in Database, RolesOK(d), NEW L \in SUBSET {"super", "standby"}
    PROVE  LET e == [d EXCEPT !.lapsed = L]
           IN  /\ RoleStep(d, e)
               /\ e.super = d.super /\ e.standby = d.standby /\ e.protected = d.protected
<1>. DEFINE e == [d EXCEPT !.lapsed = L]
<1>1. /\ e \in Database /\ e.super = d.super /\ e.protected = d.protected
      /\ e.standby = d.standby /\ SameAccounts(d, e) /\ SameKeys(d, e)
  BY DEF Database, SameAccounts, SameKeys
<1>. HIDE DEF e
<1>2. RolesOK(e)
  BY <1>1 DEF RolesOK, SameAccounts, EnabledAdmins
<1>. QED BY <1>1, <1>2 DEF RoleStep, e

\* Whom requireAccountActionTx lets a change is not the super administrator.
LEMMA CheckedStep ==
    ASSUME NEW d \in Database, RolesOK(d), NEW a, NEW u \in Users, MayChange(d, a, u)
    PROVE  LET e == Checked(d, u)
           IN  RoleStep(d, e) /\ e.super # u /\ e.protected = d.protected
<1>1. CASE u \in d.admin
  <2>1. Checked(d, u) = EnsureSuper(d) /\ EnsureSuper(d).super = a /\ u # a
    BY <1>1 DEF Checked, MayChange, IsSuper
  <2>. QED BY <2>1, EnsureSuperStep
<1>2. CASE u \notin d.admin
  <2>1. Checked(d, u) = d
    BY <1>2 DEF Checked
  <2>2. d.super # u
    BY <1>2, NobodyAssumption DEF RolesOK, EnabledAdmins
  <2>. QED BY <2>1, <2>2 DEF RoleStep, SameAccounts, SameKeys
<1>. QED BY <1>1, <1>2

-----------------------------------------------------------------------------
(* Accounts                                                                 *)

\* What the other lemmas of this section need of a change of the accounts that
\* leaves the roles and the keys alone.
LEMMA AccountPath ==
    ASSUME NEW d, NEW e \in Database, NEW S, NEW X, Good(d, X),
           SameKeys(d, e), AccountsOK(e),
           e.super = d.super, e.standby = d.standby, e.protected = d.protected,
           ({d.super, d.standby} \ {Nobody}) \cup d.protected \subseteq EnabledAdmins(e)
    PROVE  Path(d, e, S, X)
<1>1. RolesOK(e)
  BY DEF Good, RolesOK
<1>2. KeysOK(e, X)
  BY DEF Good, KeysOK, SameKeys
<1>3. Given(d, e, S) /\ e.key >= d.key
  BY DEF Good, Given, SameKeys, Database
<1>. QED BY <1>1, <1>2, <1>3 DEF Path, Good

\* An account becomes an administrator.
LEMMA AddAdminPath ==
    ASSUME NEW d, NEW S, NEW X, Good(d, X), NEW u \in Accounts(d)
    PROVE  Path(d, [d EXCEPT !.admin = @ \cup {u}], S, X)
<1>. DEFINE e == [d EXCEPT !.admin = @ \cup {u}]
<1>0. d \in Database /\ u \in Users
  BY DEF Good, Accounts
<1>1. /\ e \in Database /\ SameKeys(d, e) /\ e.rank = d.rank /\ e.admin = d.admin \cup {u}
      /\ e.disabled = d.disabled
      /\ e.super = d.super /\ e.standby = d.standby /\ e.protected = d.protected
  BY <1>0 DEF Database, SameKeys
<1>. HIDE DEF e
<1>2. Accounts(e) = Accounts(d)
  BY <1>1 DEF Accounts
<1>3. AccountsOK(e)
  BY <1>1, <1>2 DEF Good, AccountsOK, SameKeys
<1>4. ({d.super, d.standby} \ {Nobody}) \cup d.protected \subseteq EnabledAdmins(e)
  BY <1>1 DEF Good, RolesOK, EnabledAdmins
<1>5. Path(d, e, S, X)
  BY <1>1, <1>3, <1>4, AccountPath
<1>. QED BY <1>5 DEF e

\* Somebody without a role and without protection stops being one.
LEMMA DropAdminPath ==
    ASSUME NEW d, NEW S, NEW X, Good(d, X), NEW u \in Users,
           u \notin {d.super, d.standby} \cup d.protected
    PROVE  Path(d, [d EXCEPT !.admin = @ \ {u}], S, X)
<1>. DEFINE e == [d EXCEPT !.admin = @ \ {u}]
<1>0. d \in Database
  BY DEF Good
<1>1. /\ e \in Database /\ SameKeys(d, e) /\ e.rank = d.rank /\ e.admin = d.admin \ {u}
      /\ e.disabled = d.disabled
      /\ e.super = d.super /\ e.standby = d.standby /\ e.protected = d.protected
  BY <1>0 DEF Database, SameKeys
<1>. HIDE DEF e
<1>2. Accounts(e) = Accounts(d)
  BY <1>1 DEF Accounts
<1>3. AccountsOK(e)
  BY <1>1, <1>2 DEF Good, AccountsOK, SameKeys
<1>4. ({d.super, d.standby} \ {Nobody}) \cup d.protected \subseteq EnabledAdmins(e)
  BY <1>1 DEF Good, RolesOK, EnabledAdmins
<1>5. Path(d, e, S, X)
  BY <1>1, <1>3, <1>4, AccountPath
<1>. QED BY <1>5 DEF e

\* Somebody without a role and without protection is disabled.
LEMMA DisabledPath ==
    ASSUME NEW d, NEW S, NEW X, Good(d, X), NEW u \in Accounts(d),
           u \notin {d.super, d.standby} \cup d.protected
    PROVE  Path(d, [d EXCEPT !.disabled = @ \cup {u}], S, X)
<1>. DEFINE e == [d EXCEPT !.disabled = @ \cup {u}]
<1>0. d \in Database /\ u \in Users
  BY DEF Good, Accounts
<1>1. /\ e \in Database /\ SameKeys(d, e) /\ e.rank = d.rank /\ e.admin = d.admin
      /\ e.disabled = d.disabled \cup {u}
      /\ e.super = d.super /\ e.standby = d.standby /\ e.protected = d.protected
  BY <1>0 DEF Database, SameKeys
<1>. HIDE DEF e
<1>2. Accounts(e) = Accounts(d)
  BY <1>1 DEF Accounts
<1>3. AccountsOK(e)
  BY <1>1, <1>2 DEF Good, AccountsOK, SameKeys
<1>4. ({d.super, d.standby} \ {Nobody}) \cup d.protected \subseteq EnabledAdmins(e)
  BY <1>1 DEF Good, RolesOK, EnabledAdmins
<1>5. Path(d, e, S, X)
  BY <1>1, <1>3, <1>4, AccountPath
<1>. QED BY <1>5 DEF e

\* An account is enabled.
LEMMA EnabledPath ==
    ASSUME NEW d, NEW S, NEW X, Good(d, X), NEW u
    PROVE  Path(d, [d EXCEPT !.disabled = @ \ {u}], S, X)
<1>. DEFINE e == [d EXCEPT !.disabled = @ \ {u}]
<1>0. d \in Database
  BY DEF Good
<1>1. /\ e \in Database /\ SameKeys(d, e) /\ e.rank = d.rank /\ e.admin = d.admin
      /\ e.disabled = d.disabled \ {u}
      /\ e.super = d.super /\ e.standby = d.standby /\ e.protected = d.protected
  BY <1>0 DEF Database, SameKeys
<1>. HIDE DEF e
<1>2. Accounts(e) = Accounts(d)
  BY <1>1 DEF Accounts
<1>3. AccountsOK(e)
  BY <1>1, <1>2 DEF Good, AccountsOK, SameKeys
<1>4. ({d.super, d.standby} \ {Nobody}) \cup d.protected \subseteq EnabledAdmins(e)
  BY <1>1 DEF Good, RolesOK, EnabledAdmins
<1>5. Path(d, e, S, X)
  BY <1>1, <1>3, <1>4, AccountPath
<1>. QED BY <1>5 DEF e

\* There are finitely many accounts.
LEMMA AccountsFinite ==
    ASSUME NEW d
    PROVE  IsFiniteSet(Accounts(d)) /\ Cardinality(Accounts(d)) \in Nat
  BY UsersAssumption, FS_Subset, FS_CardinalityType DEF Accounts

\* A new account is the last one.
LEMMA NewAccountPath ==
    ASSUME NEW d, NEW S, NEW X, Good(d, X), NEW u \in Users \ Accounts(d), NEW isAdmin \in BOOLEAN
    PROVE  LET e == [d EXCEPT !.rank[u] = Cardinality(Accounts(d)) + 1,
                              !.admin = IF isAdmin THEN @ \cup {u} ELSE @]
           IN  Path(d, e, S, X) /\ u \in Accounts(e)
<1>. DEFINE n == Cardinality(Accounts(d))
            A == IF isAdmin THEN d.admin \cup {u} ELSE d.admin
            e == [d EXCEPT !.rank[u] = n + 1,
                           !.admin = IF isAdmin THEN @ \cup {u} ELSE @]
<1>0. d \in Database /\ n \in Nat /\ IsFiniteSet(Accounts(d))
  BY AccountsFinite DEF Good
<1>. HIDE DEF n
<1>1. /\ e \in Database /\ SameKeys(d, e) /\ e.rank = [d.rank EXCEPT ![u] = n + 1]
      /\ e.admin = A /\ e.disabled = d.disabled
      /\ e.super = d.super /\ e.standby = d.standby /\ e.protected = d.protected
  <2>. DEFINE q == [d.rank EXCEPT ![u] = n + 1]
  <2>1. q \in [Users -> Nat] /\ A \in SUBSET Users
    BY <1>0 DEF Database
  <2>2. e = [d EXCEPT !.rank = q, !.admin = A]
    BY <1>0 DEF Database
  <2>. HIDE DEF q, A, e
  <2>3. e \in Database
    BY <1>0, <2>1, <2>2 DEF Database
  <2>4. SameKeys(d, e)
    BY <1>0, <2>2 DEF Database, SameKeys
  <2>5. /\ e.rank = q /\ e.admin = A /\ e.disabled = d.disabled
        /\ e.super = d.super /\ e.standby = d.standby /\ e.protected = d.protected
    BY <1>0, <2>2 DEF Database
  <2>. QED BY <2>3, <2>4, <2>5 DEF q
<1>2. d.rank \in [Users -> Nat]
  BY <1>0 DEF Database
<1>. HIDE DEF e
<1>3. Accounts(e) = Accounts(d) \cup {u}
  BY <1>0, <1>1, <1>2 DEF Accounts
<1>4. Cardinality(Accounts(e)) = n + 1
  BY <1>0, <1>3, FS_AddElement DEF n
<1>5. AccountsOK(e)
  <2>1. \A v \in Accounts(d) : v \in Users /\ e.rank[v] = d.rank[v] /\ d.rank[v] \in Nat /\ d.rank[v] <= n
    BY <1>1, <1>2 DEF Good, AccountsOK, Accounts, n
  <2>2. e.rank[u] = n + 1
    BY <1>1, <1>2
  <2>3. \A v \in Accounts(e) : e.rank[v] <= Cardinality(Accounts(e))
    BY <1>0, <1>3, <1>4, <2>1, <2>2
  <2>4. \A v, w \in Accounts(e) : e.rank[v] = e.rank[w] => v = w
    BY <1>0, <1>3, <2>1, <2>2 DEF Good, AccountsOK
  <2>5. e.admin \cup e.disabled \cup e.protected \cup e.personal \subseteq Accounts(e)
    BY <1>1, <1>3 DEF Good, AccountsOK, SameKeys
  <2>. QED BY <2>3, <2>4, <2>5 DEF AccountsOK
<1>6. ({d.super, d.standby} \ {Nobody}) \cup d.protected \subseteq EnabledAdmins(e)
  BY <1>1 DEF Good, RolesOK, EnabledAdmins
<1>7. Path(d, e, S, X)
  BY <1>1, <1>5, <1>6, AccountPath
<1>. QED BY <1>3, <1>7 DEF e, n

\* A deleted account leaves no gap in the order, and no row behind.
LEMMA DeletedPath ==
    ASSUME NEW d, NEW S, Good(d, {}), NEW u \in Accounts(d),
           u \notin {d.super, d.standby} \cup d.protected, d.grant[u] = 0
    PROVE  Path(d, Deleted(d, u), S, {})
<1>. DEFINE n == Cardinality(Accounts(d))
            r == d.rank
            q == [v \in Users |-> IF v = u THEN 0 ELSE IF r[v] > r[u] THEN r[v] - 1 ELSE r[v]]
            e == Deleted(d, u)
<1>0. d \in Database /\ n \in Nat /\ IsFiniteSet(Accounts(d)) /\ u \in Users
  BY AccountsFinite DEF Good, Accounts
<1>1. r \in [Users -> Nat] /\ r[u] > 0
  BY <1>0 DEF Database, Accounts
<1>2. q \in [Users -> Nat]
  BY <1>0, <1>1
<1>3. e = [d EXCEPT !.rank = q,
              !.admin = @ \ {u}, !.disabled = @ \ {u},
              !.protected = @ \ {u}, !.personal = @ \ {u}, !.damaged = @ \ {u},
              !.pin[u] = 0, !.sealed[u] = 0, !.grant[u] = 0, !.stale = @ \ {u}]
  BY <1>0 DEF Deleted, Database
<1>. HIDE DEF e, n, q
<1>4. /\ e.rank = q /\ e.admin = d.admin \ {u} /\ e.disabled = d.disabled \ {u}
      /\ e.protected = d.protected \ {u} /\ e.personal = d.personal \ {u}
      /\ e.super = d.super /\ e.standby = d.standby
      /\ e.key = d.key /\ e.recovery = d.recovery /\ e.due = d.due /\ e.knows = d.knows
  BY <1>0, <1>3 DEF Database
<1>5. /\ e.pin = [d.pin EXCEPT ![u] = 0] /\ e.sealed = [d.sealed EXCEPT ![u] = 0]
      /\ e.grant = [d.grant EXCEPT ![u] = 0]
  BY <1>0, <1>3 DEF Database
<1>6. e \in Database
  <2>. DEFINE p == [d.pin EXCEPT ![u] = 0]
              s == [d.sealed EXCEPT ![u] = 0]
              g == [d.grant EXCEPT ![u] = 0]
  <2>1. p \in [Users -> Nat] /\ s \in [Users -> Nat] /\ g \in [Users -> Nat]
    BY <1>0 DEF Database
  <2>2. e = [d EXCEPT !.rank = q,
              !.admin = @ \ {u}, !.disabled = @ \ {u},
              !.protected = @ \ {u}, !.personal = @ \ {u}, !.damaged = @ \ {u},
              !.pin = p, !.sealed = s, !.grant = g, !.stale = @ \ {u}]
    BY <1>3
  <2>. HIDE DEF p, s, g
  <2>. QED BY <1>0, <1>2, <2>1, <2>2 DEF Database
<1>7. \A v \in Users : /\ q[v] = IF v = u THEN 0 ELSE IF r[v] > r[u] THEN r[v] - 1 ELSE r[v]
                       /\ r[v] \in Nat
  BY <1>1 DEF q
<1>. HIDE DEF r
<1>8. Accounts(d) = {v \in Users : r[v] > 0}
  BY DEF Accounts, r
<1>9. Accounts(e) = Accounts(d) \ {u}
  BY <1>0, <1>1, <1>4, <1>7, <1>8 DEF Accounts
<1>10. Cardinality(Accounts(e)) = n - 1
  BY <1>0, <1>9, FS_RemoveElement DEF n
<1>11. AccountsOK(e)
  <2>1. /\ \A v \in Accounts(d) : v \in Users /\ r[v] <= n
        /\ \A v, w \in Accounts(d) : r[v] = r[w] => v = w
        /\ d.admin \cup d.disabled \cup d.protected \cup d.personal \subseteq Accounts(d)
    BY <1>8 DEF Good, AccountsOK, n, r
  <2>2. \A v \in Accounts(e) : e.rank[v] <= n - 1
    BY <1>0, <1>1, <1>4, <1>7, <1>9, <2>1
  <2>3. \A v, w \in Accounts(e) : e.rank[v] = e.rank[w] => v = w
    BY <1>0, <1>1, <1>4, <1>7, <1>9, <2>1
  <2>. QED BY <1>4, <1>9, <1>10, <2>1, <2>2, <2>3 DEF AccountsOK
<1>12. RolesOK(e)
  BY <1>4 DEF Good, RolesOK, EnabledAdmins
<1>13. KeysOK(e, {}) /\ Given(d, e, S)
  <2>1. /\ d.pin \in [Users -> Nat] /\ d.sealed \in [Users -> Nat] /\ d.grant \in [Users -> Nat]
        /\ d.key \in Nat /\ d.knows \subseteq Users
    BY <1>0 DEF Database
  <2>2. KeysOK(e, {})
    BY <1>0, <1>4, <1>5, <2>1 DEF Good, KeysOK
  <2>. QED BY <1>0, <1>4, <1>5, <2>1, <2>2 DEF Given
<1>. QED BY <1>0, <1>4, <1>6, <1>11, <1>12, <1>13 DEF Path, Good, Database, e

-----------------------------------------------------------------------------
(* Grants and keys                                                          *)

\* Doing nothing changes no key.
LEMMA KeyStepSame ==
    ASSUME NEW d \in Database, NEW X, KeysOK(d, X), NEW S
    PROVE  KeyStep(d, d, S, X)
  BY DEF KeyStep, SameRoles, SameAccounts, Given, Database

\* markRotationPendingTx accounts for everyone.
LEMMA MarkDueStep ==
    ASSUME NEW d \in Database, NEW X, KeysOK(d, X), NEW S
    PROVE  KeyStep(d, MarkDue(d), S, {}) /\ MarkDue(d).grant = d.grant
<1>1. CASE d.key = 0
  <2>1. MarkDue(d) = d
    BY <1>1 DEF MarkDue
  <2>2. KeysOK(d, {})
    BY <1>1 DEF KeysOK
  <2>. QED BY <2>1, <2>2, KeyStepSame
<1>2. CASE d.key # 0
  <2>. DEFINE e == [d EXCEPT !.due = TRUE]
  <2>1. MarkDue(d) = e
    BY <1>2 DEF MarkDue
  <2>2. e \in Database /\ SameRoles(d, e) /\ e.due = TRUE
    BY DEF Database, SameRoles, SameAccounts
  <2>3. /\ e.key = d.key /\ e.pin = d.pin /\ e.sealed = d.sealed /\ e.grant = d.grant
        /\ e.recovery = d.recovery /\ e.knows = d.knows /\ e.personal = d.personal
    BY DEF Database
  <2>. HIDE DEF e
  <2>4. KeysOK(e, {})
    BY <2>2, <2>3 DEF KeysOK
  <2>5. Given(d, e, S) /\ e.key >= d.key
    BY <2>3 DEF Given, Database
  <2>. QED BY <2>1, <2>2, <2>3, <2>4, <2>5 DEF KeyStep
<1>. QED BY <1>1, <1>2

\* removeGrantTx changes nothing but the grant of u.
LEMMA RemoveGrantFacts ==
    ASSUME NEW d \in Database, NEW u \in Users
    PROVE  LET e == RemoveGrant(d, u)
           IN  /\ e \in Database /\ SameRoles(d, e)
               /\ e.key = d.key /\ e.pin = d.pin /\ e.sealed = d.sealed
               /\ e.grant = [d.grant EXCEPT ![u] = 0]
               /\ e.recovery = d.recovery /\ e.knows = d.knows /\ e.personal = d.personal
               /\ e.due = d.due
<1>. DEFINE e == RemoveGrant(d, u)
<1>1. /\ e.key = d.key /\ e.pin = d.pin /\ e.sealed = d.sealed
      /\ e.grant = [d.grant EXCEPT ![u] = 0]
      /\ e.recovery = d.recovery /\ e.knows = d.knows /\ e.personal = d.personal
      /\ e.due = d.due
  BY DEF RemoveGrant, Database
<1>2. SameRoles(d, e)
  BY DEF RemoveGrant, Database, SameRoles, SameAccounts
<1>3. e \in Database
  BY DEF RemoveGrant, Database
<1>. QED BY <1>1, <1>2, <1>3

\* Without its grant u is not accounted for, unless there was none.
LEMMA RemoveGrantStep ==
    ASSUME NEW d \in Database, KeysOK(d, {}), NEW u \in Users, NEW S
    PROVE  LET e == RemoveGrant(d, u)
           IN  KeyStep(d, e, S, {u}) /\ (d.grant[u] = 0 => KeyStep(d, e, S, {}))
<1>. DEFINE e == RemoveGrant(d, u)
<1>1. /\ e \in Database /\ SameRoles(d, e)
      /\ e.key = d.key /\ e.pin = d.pin /\ e.sealed = d.sealed
      /\ e.grant = [d.grant EXCEPT ![u] = 0]
      /\ e.recovery = d.recovery /\ e.knows = d.knows /\ e.personal = d.personal
      /\ e.due = d.due
  BY RemoveGrantFacts
<1>2. d.grant \in [Users -> Nat] /\ d.key \in Nat /\ d.knows \subseteq Users
  BY DEF Database
<1>. HIDE DEF e
<1>3. KeysOK(e, {u}) /\ (d.grant[u] = 0 => KeysOK(e, {}))
  BY <1>1, <1>2 DEF KeysOK
<1>4. Given(d, e, S)
  BY <1>1, <1>2 DEF Given
<1>. QED BY <1>1, <1>2, <1>3, <1>4 DEF KeyStep, e

\* revokeGrantTx
LEMMA RevokeStep ==
    ASSUME NEW d \in Database, KeysOK(d, {}), NEW u \in Users, NEW S
    PROVE  KeyStep(d, Revoke(d, u), S, {}) /\ Revoke(d, u).grant[u] = 0
<1>1. CASE d.grant[u] = 0
  BY <1>1, KeyStepSame DEF Revoke
<1>2. CASE d.grant[u] # 0
  <2>. DEFINE e == RemoveGrant(d, u)
  <2>1. Revoke(d, u) = MarkDue(e)
    BY <1>2 DEF Revoke
  <2>2. e \in Database /\ e.grant[u] = 0
    <3>1. d.grant \in [Users -> Nat]
      BY DEF Database
    <3>. QED BY <3>1, RemoveGrantFacts
  <2>3. KeyStep(d, e, S, {u})
    BY RemoveGrantStep
  <2>. HIDE DEF e
  <2>4. KeyStep(e, MarkDue(e), S, {}) /\ MarkDue(e).grant = e.grant
    BY <2>2, <2>3, MarkDueStep DEF KeyStep
  <2>. QED BY <2>1, <2>2, <2>3, <2>4, KeyStepTrans
<1>. QED BY <1>1, <1>2

\* enrollTx seals to the active key, whatever key the process holds open.
LEMMA EnrollStep ==
    ASSUME NEW d \in Database, KeysOK(d, {}), NEW u \in Accounts(d), NEW session, NEW S
    PROVE  KeyStep(d, Enroll(d, u, session), S, {})
<1>. DEFINE e == [d EXCEPT !.personal = @ \cup {u},
                           !.damaged = @ \ {u},
                           !.stale = IF u \in d.damaged /\ d.grant[u] # 0 THEN @ \cup {u} ELSE @]
            k == d.key
            f == [e EXCEPT !.pin[u] = k, !.sealed[u] = k]
<1>0. u \in Users
  BY DEF Accounts
<1>1. SealingKey(d, session) = k
  BY DEF SealingKey
<1>2. Enroll(d, u, session) \in {d, e} \/ (k # 0 /\ Enroll(d, u, session) = f)
  BY <1>1 DEF Enroll
<1>3. /\ e \in Database /\ SameRoles(d, e)
      /\ e.key = d.key /\ e.pin = d.pin /\ e.sealed = d.sealed /\ e.grant = d.grant
      /\ e.recovery = d.recovery /\ e.knows = d.knows /\ e.due = d.due
      /\ e.personal = d.personal \cup {u}
  BY <1>0 DEF Database, SameRoles, SameAccounts
<1>. HIDE DEF e
<1>4. KeyStep(d, e, S, {})
  <2>1. KeysOK(e, {})
    BY <1>3 DEF KeysOK
  <2>. QED BY <1>3, <2>1 DEF KeyStep, Given, Database
<1>5. /\ f \in Database /\ SameRoles(e, f)
      /\ f.key = e.key /\ f.grant = e.grant
      /\ f.pin = [e.pin EXCEPT ![u] = k] /\ f.sealed = [e.sealed EXCEPT ![u] = k]
      /\ f.recovery = e.recovery /\ f.knows = e.knows /\ f.due = e.due
      /\ f.personal = e.personal
  BY <1>0, <1>3 DEF Database, SameRoles, SameAccounts
<1>. HIDE DEF f
<1>6. KeyStep(e, f, S, {})
  <2>1. KeysOK(f, {})
    BY <1>0, <1>3, <1>4, <1>5 DEF KeysOK, KeyStep, Database
  <2>. QED BY <1>3, <1>5, <2>1 DEF KeyStep, Given, Database
<1>. QED BY <1>2, <1>3, <1>4, <1>6, KeyStepTrans, KeyStepSame

\* openGrantTx removes nothing but a grant that does not open.
LEMMA AfterOpenStep ==
    ASSUME NEW d \in Database, NEW X, KeysOK(d, X), NEW a \in Users, NEW S
    PROVE  KeyStep(d, AfterOpen(d, a), S, X)
<1>. DEFINE e == RemoveGrant(d, a)
            f == [e EXCEPT !.knows = @ \ {a}]
<1>1. AfterOpen(d, a) \in {d, f}
  BY DEF AfterOpen
<1>2. /\ e \in Database /\ SameRoles(d, e)
      /\ e.key = d.key /\ e.pin = d.pin /\ e.sealed = d.sealed
      /\ e.grant = [d.grant EXCEPT ![a] = 0]
      /\ e.recovery = d.recovery /\ e.knows = d.knows /\ e.personal = d.personal
      /\ e.due = d.due
  BY RemoveGrantFacts
<1>3. d.grant \in [Users -> Nat] /\ d.key \in Nat /\ d.knows \subseteq Users
  BY DEF Database
<1>. HIDE DEF e
<1>4. /\ f \in Database /\ SameRoles(e, f) /\ f.due = e.due
      /\ f.key = e.key /\ f.pin = e.pin /\ f.sealed = e.sealed /\ f.grant = e.grant
      /\ f.recovery = e.recovery /\ f.knows = e.knows \ {a} /\ f.personal = e.personal
  BY <1>2 DEF Database, SameRoles, SameAccounts
<1>. HIDE DEF f
<1>5. KeysOK(f, X)
  BY <1>2, <1>3, <1>4 DEF KeysOK
<1>6. Given(d, f, S) /\ SameRoles(d, f)
  BY <1>2, <1>3, <1>4 DEF Given, SameRoles, SameAccounts
<1>7. KeyStep(d, f, S, X)
  BY <1>2, <1>3, <1>4, <1>5, <1>6 DEF KeyStep
<1>. QED BY <1>1, <1>7, KeyStepSame

\* grantTx
LEMMA GrantStep ==
    ASSUME NEW d \in Database, NEW X, KeysOK(d, X), d.key # 0, NEW u \in Users, NEW S, u \in S
    PROVE  KeyStep(d, Grant(d, u), S, X)
<1>. DEFINE e == Grant(d, u)
<1>1. /\ e \in Database /\ SameRoles(d, e)
      /\ e.key = d.key /\ e.pin = d.pin /\ e.sealed = d.sealed /\ e.due = d.due
      /\ e.grant = [d.grant EXCEPT ![u] = d.key]
      /\ e.recovery = d.recovery /\ e.knows = d.knows \cup {u} /\ e.personal = d.personal
  BY DEF Grant, Database, SameRoles, SameAccounts
<1>2. d.grant \in [Users -> Nat] /\ d.key \in Nat /\ d.knows \subseteq Users
  BY DEF Database
<1>. HIDE DEF e
<1>3. KeysOK(e, X)
  BY <1>1, <1>2 DEF KeysOK
<1>4. Given(d, e, S)
  BY <1>1, <1>2 DEF Given
<1>. QED BY <1>1, <1>2, <1>3, <1>4 DEF KeyStep, e

\* passKeyTx
LEMMA PassKeyStep ==
    ASSUME NEW d \in Database, NEW X, KeysOK(d, X), NEW a \in Users, NEW u \in Users, NEW S, u \in S
    PROVE  KeyStep(d, PassKey(d, a, u), S, X)
<1>1. Opens(d, a) => d.key # 0
  BY DEF Opens
<1>. QED BY <1>1, GrantStep, AfterOpenStep DEF PassKey

\* rotateTx: those who knew the old key know nothing that is in use.
LEMMA RotatedStep ==
    ASSUME NEW d \in Database, NEW X, KeysOK(d, X), NEW a \in Users, NEW keep,
           NEW S, a \in S, keep \subseteq S
    PROVE  KeyStep(d, Rotated(d, a, keep), S, {})
<1>. DEFINE k == d.key + 1
            old == {u \in Users : d.sealed[u] = d.key}
            to == {a} \cup (keep \cap d.personal)
            e == Rotated(d, a, keep)
<1>0. d.key \in Nat /\ k \in Nat /\ k # 0 /\ to \subseteq Users /\ to \subseteq S
  BY DEF Database
<1>1. /\ e.key = k
      /\ e.sealed = [u \in Users |-> IF u \in old THEN k ELSE 0]
      /\ e.pin = [u \in Users |-> IF u \in old THEN k ELSE 0]
      /\ e.grant = [u \in Users |-> IF u \in to THEN k ELSE 0]
      /\ e.knows = to /\ e.due = FALSE /\ e.recovery = 0 /\ e.personal = d.personal
  BY DEF Rotated, Database
<1>2. SameRoles(d, e)
  BY DEF Rotated, Database, SameRoles, SameAccounts
<1>3. e \in Database
  <2>. DEFINE p == [u \in Users |-> IF u \in old THEN k ELSE 0]
              g == [u \in Users |-> IF u \in to THEN k ELSE 0]
  <2>1. e = [d EXCEPT !.key = k, !.sealed = p, !.pin = p, !.grant = g, !.stale = {},
                      !.knows = to, !.due = FALSE, !.recovery = 0, !.kept = FALSE]
    BY DEF Rotated
  <2>2. p \in [Users -> Nat] /\ g \in [Users -> Nat]
    BY <1>0
  <2>. HIDE DEF e, to, old, k, p, g
  <2>. QED BY <1>0, <2>1, <2>2 DEF Database
<1>. HIDE DEF e, to, old, k
<1>4. KeysOK(e, {})
  BY <1>0, <1>1 DEF KeysOK
<1>5. Given(d, e, S)
  BY <1>0, <1>1 DEF Given
<1>. QED BY <1>0, <1>1, <1>2, <1>3, <1>4, <1>5 DEF KeyStep, k, e

\* rotateInSavepointTx
LEMMA RotationsStep ==
    ASSUME NEW d \in Database, NEW X, KeysOK(d, X), NEW a \in Users, NEW keep,
           NEW S, a \in S, keep \subseteq S, NEW e \in Rotations(d, a, keep)
    PROVE  KeyStep(d, e, S, {})
  BY MarkDueStep, RotatedStep DEF Rotations

\* rotateWithOwnKeyTx
LEMMA RotateWithOwnKeyStep ==
    ASSUME NEW d \in Database, NEW X, KeysOK(d, X), NEW a \in Users, NEW keep,
           NEW S, a \in S, keep \subseteq S, NEW e \in RotateWithOwnKey(d, a, keep)
    PROVE  KeyStep(d, e, S, {})
<1>1. CASE Opens(d, a)
  BY <1>1, RotationsStep DEF RotateWithOwnKey
<1>2. CASE ~Opens(d, a)
  <2>1. KeyStep(d, AfterOpen(d, a), S, X)
    BY AfterOpenStep
  <2>2. KeyStep(AfterOpen(d, a), MarkDue(AfterOpen(d, a)), S, {})
    BY <2>1, MarkDueStep DEF KeyStep
  <2>3. e = MarkDue(AfterOpen(d, a))
    BY <1>2 DEF RotateWithOwnKey
  <2>. QED BY <2>1, <2>2, <2>3, KeyStepTrans
<1>. QED BY <1>1, <1>2

-----------------------------------------------------------------------------
(* Transactions                                                             *)

\* What every transaction does: the invariant holds when it is done, and
\* whoever it has given the key to has a role.
Turn(d, e) == Path(d, e, {e.super, e.standby}, {})

\* A transaction that begins with a path on which nobody is given the key.
LEMMA TurnAfter ==
    ASSUME NEW d \in Database, NEW e, NEW f, NEW X, Path(d, e, {}, X), Turn(e, f)
    PROVE  Turn(d, f)
<1>1. Path(d, f, {} \cup {f.super, f.standby}, {})
  BY PathsCompose DEF Turn
<1>. QED BY <1>1 DEF Turn

\* A transaction on which nobody is given the key.
LEMMA QuietTurn ==
    ASSUME NEW d, NEW e, Path(d, e, {}, {})
    PROVE  Turn(d, e)
  BY PathMore DEF Turn

\* The super administrator as EnsureSuper finds them.
LEMMA EnsureSuperPath ==
    ASSUME NEW d, NEW S, Good(d, {})
    PROVE  LET e == EnsureSuper(d)
           IN  /\ Path(d, e, S, {}) /\ Good(e, {}) /\ RoleStep(d, e)
               /\ e = ReadSuccession(d)
               /\ d.super # Nobody => e.super = d.super
               /\ \A a : IsSuper(d, a) => a = e.super /\ a \in Users
<1>1. d \in Database /\ RolesOK(d)
  BY DEF Good
<1>2. RoleStep(d, EnsureSuper(d)) /\ (d.super # Nobody => EnsureSuper(d).super = d.super)
  BY <1>1, EnsureSuperStep
<1>3. Path(d, EnsureSuper(d), S, {})
  BY <1>2, RolePath
<1>4. ReadSuccession(d) = EnsureSuper(d)
  BY <1>1, ReadSuccessionStep
<1>5. \A a : IsSuper(d, a) => a = EnsureSuper(d).super /\ a \in Users
  BY <1>1 DEF IsSuper, EnabledAdmins, Database
<1>. QED BY <1>2, <1>3, <1>4, <1>5 DEF Path

\* runPendingRotationTx
LEMMA RunPendingTurn ==
    ASSUME NEW d, Good(d, {}), NEW a \in Users, NEW f \in RunPending(d, a)
    PROVE  Turn(d, f) /\ (d.super # Nobody => f.super = d.super)
<1>. DEFINE e == EnsureSuper(d)
<1>0. d \in Database
  BY DEF Good
<1>1. /\ Path(d, e, {}, {}) /\ Good(e, {}) /\ e = ReadSuccession(d)
      /\ d.super # Nobody => e.super = d.super
  BY EnsureSuperPath
<1>2. CASE f = d
  <2>1. Path(d, d, {}, {})
    BY <1>0, KeyPath, KeyStepSame DEF Good
  <2>. QED BY <1>2, <2>1, QuietTurn
<1>3. CASE f = e
  BY <1>1, <1>3, QuietTurn
<1>4. CASE Rotator(d, a) /\ f \in Rotations(e, a, {})
  <2>. DEFINE S == {e.super, e.standby}
  <2>1. a \in S
    BY <1>1, <1>4 DEF Rotator
  <2>2. e \in Database /\ KeysOK(e, {})
    BY <1>1 DEF Good
  <2>. HIDE DEF S, e
  <2>3. KeyStep(e, f, S, {})
    BY <1>4, <2>1, <2>2, RotationsStep
  <2>4. Path(e, f, S, {})
    BY <1>1, <2>3, KeyPath
  <2>5. f.super = e.super /\ f.standby = e.standby
    BY <2>3 DEF KeyStep, SameRoles
  <2>6. Turn(e, f)
    BY <2>4, <2>5 DEF Turn, S
  <2>7. Turn(d, f)
    BY <1>0, <1>1, <2>6, TurnAfter
  <2>. QED BY <1>1, <2>5, <2>7
<1>5. f = d \/ f = e \/ (Rotator(d, a) /\ f \in Rotations(e, a, {}))
  BY <1>1 DEF RunPending
<1>. QED BY <1>2, <1>3, <1>4, <1>5

\* enrollAdminSessionTx
LEMMA EnrollAdminTurn ==
    ASSUME NEW d, Good(d, {}), NEW a \in Accounts(d), NEW x \in EnrollAdmin(d, a)
    PROVE  Turn(d, x)
<1>. DEFINE e == EnsureSuper(d)
            f == Enroll(e, a, 0)
            n == Enroll(d, a, 0)
            v == Revoke(e, a)
            w == Enroll(v, a, 0)
            b == [e EXCEPT !.key = 1]
            y == Enroll(b, a, 1)
<1>0. d \in Database /\ KeysOK(d, {}) /\ a \in Users
  BY DEF Good, Accounts
<1>1. Path(d, e, {}, {}) /\ Good(e, {}) /\ RoleStep(d, e) /\ e = ReadSuccession(d)
  BY EnsureSuperPath
<1>2. a \in Accounts(e) /\ e \in Database /\ KeysOK(e, {})
  BY <1>1 DEF Good, RoleStep, SameAccounts, Accounts
<1>3. \/ x = n
      \/ x \in RunPending(f, a)
      \/ x = AfterOpen(f, a)
      \/ x = w
      \/ a = e.super /\ e.key = 0 /\ x = Grant(y, a)
  BY <1>1 DEF EnrollAdmin
<1>. HIDE DEF e
<1>4. CASE x = n
  <2>1. KeyStep(d, n, {}, {})
    BY <1>0, EnrollStep
  <2>. QED BY <1>4, <2>1, KeyPath, QuietTurn
<1>5. KeyStep(e, f, {}, {}) /\ Path(e, f, {}, {}) /\ Good(f, {}) /\ f \in Database /\ KeysOK(f, {})
  <2>1. KeyStep(e, f, {}, {})
    BY <1>2, EnrollStep
  <2>2. Path(e, f, {}, {})
    BY <1>1, <2>1, KeyPath
  <2>. QED BY <2>1, <2>2 DEF Path, Good
<1>6. CASE x \in RunPending(f, a)
  <2>. HIDE DEF f
  <2>1. Turn(f, x)
    BY <1>0, <1>5, <1>6, RunPendingTurn
  <2>2. Turn(e, x)
    BY <1>2, <1>5, <2>1, TurnAfter
  <2>. QED BY <1>0, <1>1, <2>2, TurnAfter
<1>7. CASE x = AfterOpen(f, a)
  <2>. HIDE DEF f
  <2>1. KeyStep(f, x, {}, {})
    BY <1>0, <1>5, <1>7, AfterOpenStep
  <2>2. Turn(f, x)
    BY <1>5, <2>1, KeyPath, QuietTurn
  <2>3. Turn(e, x)
    BY <1>2, <1>5, <2>2, TurnAfter
  <2>. QED BY <1>0, <1>1, <2>3, TurnAfter
<1>8. CASE x = w
  <2>1. KeyStep(e, v, {}, {})
    BY <1>0, <1>2, RevokeStep
  <2>2. v \in Database /\ KeysOK(v, {}) /\ a \in Accounts(v)
    BY <1>2, <2>1 DEF KeyStep, SameRoles, SameAccounts, Accounts
  <2>. HIDE DEF v
  <2>3. KeyStep(v, w, {}, {})
    BY <2>2, EnrollStep
  <2>. HIDE DEF w
  <2>4. KeyStep(e, x, {}, {})
    BY <1>2, <1>8, <2>1, <2>3, KeyStepTrans
  <2>5. Turn(e, x)
    BY <1>1, <2>4, KeyPath, QuietTurn
  <2>. QED BY <1>0, <1>1, <2>5, TurnAfter
<1>9. CASE a = e.super /\ e.key = 0 /\ x = Grant(y, a)
  <2>1. /\ b \in Database /\ SameRoles(e, b) /\ b.key = 1
        /\ b.pin = e.pin /\ b.sealed = e.sealed /\ b.grant = e.grant /\ b.due = e.due
        /\ b.recovery = e.recovery /\ b.knows = e.knows /\ b.personal = e.personal
    BY <1>2 DEF Database, SameRoles, SameAccounts
  <2>. HIDE DEF b
  <2>2. KeyStep(e, b, {}, {})
    <3>1. KeysOK(b, {})
      BY <1>2, <1>9, <2>1 DEF KeysOK
    <3>2. Given(e, b, {})
      BY <1>2, <1>9, <2>1 DEF KeysOK, Given
    <3>. QED BY <1>9, <2>1, <3>1, <3>2 DEF KeyStep
  <2>3. KeysOK(b, {}) /\ a \in Accounts(b)
    BY <1>2, <2>1, <2>2 DEF KeyStep, SameRoles, SameAccounts, Accounts
  <2>4. KeyStep(b, y, {}, {})
    BY <2>1, <2>3, EnrollStep
  <2>5. y \in Database /\ KeysOK(y, {}) /\ y.key # 0
    BY <2>1, <2>4 DEF KeyStep, Database
  <2>. HIDE DEF y
  <2>6. KeyStep(y, x, {a}, {})
    BY <1>0, <1>9, <2>5, GrantStep
  <2>7. x.super = a
    BY <1>9, <2>1, <2>4, <2>6 DEF KeyStep, SameRoles
  <2>8. KeyStep(e, y, {}, {})
    BY <1>2, <2>2, <2>4, KeyStepTrans
  <2>9. Path(e, y, {}, {}) /\ Good(y, {})
    BY <1>1, <2>8, KeyPath DEF Path
  <2>10. Path(y, x, {x.super, x.standby}, {})
    BY <2>6, <2>7, <2>9, KeyPath, PathMore
  <2>11. Turn(e, x)
    BY <1>2, <2>9, <2>10, TurnAfter DEF Turn
  <2>. QED BY <1>0, <1>1, <2>11, TurnAfter
<1>. QED BY <1>3, <1>4, <1>6, <1>7, <1>8, <1>9

\* Signing in: the last login and, if it succeeds, the enrollment.
LEMMA SignInTurn ==
    ASSUME Good(db, {}), NEW u \in Users, SignIn(u)
    PROVE  Turn(db, db')
<1>. DEFINE roles == (IF u = db.super THEN {"super"} ELSE {})
                         \cup (IF u = db.standby THEN {"standby"} ELSE {})
            L == db.lapsed \ roles
            d == [db EXCEPT !.lapsed = L]
<1>0. db \in Database /\ RolesOK(db) /\ L \in SUBSET {"super", "standby"}
  BY DEF Good, Database
<1>1. u \in Accounts(db) /\ (db' = d \/ db' \in EnrollAdmin(d, u))
  BY DEF SignIn
<1>. HIDE DEF L
<1>2. RoleStep(db, d)
  BY <1>0, LapsedStep
<1>3. Path(db, d, {}, {}) /\ Good(d, {}) /\ u \in Accounts(d)
  BY <1>1, <1>2, RolePath DEF Path, RoleStep, SameAccounts, Accounts
<1>. HIDE DEF d
<1>4. CASE db' = d
  BY <1>3, <1>4, QuietTurn
<1>5. CASE db' \in EnrollAdmin(d, u)
  <2>1. Turn(d, db')
    BY <1>3, <1>5, EnrollAdminTurn
  <2>. QED BY <1>0, <1>3, <2>1, TurnAfter
<1>. QED BY <1>1, <1>4, <1>5

\* AfterOpen, at the end of a transaction.
LEMMA AfterOpenTurn ==
    ASSUME NEW d, Good(d, {}), NEW a \in Users
    PROVE  Turn(d, AfterOpen(d, a))
<1>1. KeyStep(d, AfterOpen(d, a), {}, {})
  BY AfterOpenStep DEF Good
<1>. QED BY <1>1, KeyPath, QuietTurn

\* CreateAccountWithPrincipal, whichever key the process still holds open.
LEMMA CreateAccountTurn ==
    ASSUME Good(db, {}), NEW a \in Users, NEW u \in Users, NEW isAdmin \in BOOLEAN, NEW session,
           CreateAccount(a, u, isAdmin, session)
    PROVE  Turn(db, db')
<1>. DEFINE d == IF isAdmin /\ ~(Accounts(db) = {}) THEN EnsureSuper(db) ELSE db
            e == [d EXCEPT !.rank[u] = Cardinality(Accounts(db)) + 1,
                           !.admin = IF isAdmin THEN @ \cup {u} ELSE @]
<1>0. db \in Database
  BY DEF Good
<1>1. u \notin Accounts(db) /\ db' \in {e, Enroll(e, u, session)}
  BY DEF CreateAccount
<1>2. Path(db, d, {}, {}) /\ Good(d, {}) /\ Accounts(d) = Accounts(db)
  <2>1. Path(db, db, {}, {})
    BY <1>0, KeyPath, KeyStepSame DEF Good
  <2>2. Path(db, EnsureSuper(db), {}, {}) /\ Accounts(EnsureSuper(db)) = Accounts(db)
    BY EnsureSuperPath DEF RoleStep, SameAccounts, Accounts
  <2>. QED BY <2>1, <2>2 DEF Path
<1>. HIDE DEF d
<1>3. e = [d EXCEPT !.rank[u] = Cardinality(Accounts(d)) + 1,
                    !.admin = IF isAdmin THEN @ \cup {u} ELSE @]
  BY <1>2
<1>. HIDE DEF e
<1>4. Path(d, e, {}, {}) /\ u \in Accounts(e)
  BY <1>1, <1>2, <1>3, NewAccountPath
<1>5. Path(db, e, {}, {}) /\ Good(e, {}) /\ e \in Database /\ KeysOK(e, {})
  <2>1. Path(db, e, {} \cup {}, {})
    BY <1>0, <1>2, <1>4, PathsCompose
  <2>. QED BY <2>1 DEF Path, Good
<1>6. CASE db' = e
  BY <1>5, <1>6, QuietTurn
<1>7. CASE db' = Enroll(e, u, session)
  <2>1. KeyStep(e, db', {}, {})
    BY <1>4, <1>5, <1>7, EnrollStep
  <2>2. Turn(e, db')
    BY <1>5, <2>1, KeyPath, QuietTurn
  <2>. QED BY <1>0, <1>5, <2>2, TurnAfter
<1>. QED BY <1>1, <1>6, <1>7

\* PromoteAdmin adds an administrator.
LEMMA PromoteAdminTurn ==
    ASSUME Good(db, {}), NEW a \in Users, NEW u \in Users, PromoteAdmin(a, u)
    PROVE  Turn(db, db')
<1>. DEFINE e == EnsureSuper(db)
<1>0. db \in Database
  BY DEF Good
<1>1. u \in Accounts(db) /\ db' = [e EXCEPT !.admin = @ \cup {u}]
  BY DEF PromoteAdmin
<1>2. Path(db, e, {}, {}) /\ Good(e, {}) /\ RoleStep(db, e)
  BY EnsureSuperPath
<1>3. u \in Accounts(e)
  BY <1>1, <1>2 DEF RoleStep, SameAccounts, Accounts
<1>. HIDE DEF e
<1>4. Turn(e, db')
  BY <1>1, <1>2, <1>3, AddAdminPath, QuietTurn
<1>. QED BY <1>0, <1>2, <1>4, TurnAfter

\* Losing the key and the standby before losing the account: neither role is left.
LEMMA StrippedPath ==
    ASSUME NEW d, Good(d, {}), NEW u \in Users, d.super # u, u \notin d.protected
    PROVE  LET e == ClearStandby(Revoke(d, u), u)
           IN  /\ Path(d, e, {}, {}) /\ Good(e, {})
               /\ u \notin {e.super, e.standby} \cup e.protected
               /\ Accounts(e) = Accounts(d)
<1>. DEFINE r == Revoke(d, u)
            e == ClearStandby(r, u)
<1>0. d \in Database
  BY DEF Good
<1>1. KeyStep(d, r, {}, {})
  BY RevokeStep DEF Good
<1>2. Path(d, r, {}, {}) /\ Good(r, {})
  BY <1>1, KeyPath DEF Path
<1>. HIDE DEF r
<1>3. /\ RoleStep(r, e) /\ e.super = r.super /\ e.protected = r.protected /\ e.standby # u
  BY <1>2, ClearStandbyStep DEF Good
<1>. HIDE DEF e
<1>4. Path(r, e, {}, {})
  BY <1>2, <1>3, RolePath
<1>5. Path(d, e, {} \cup {}, {})
  BY <1>0, <1>2, <1>4, PathsCompose
<1>6. Accounts(e) = Accounts(d) /\ u \notin {e.super, e.standby} \cup e.protected
  BY <1>1, <1>3 DEF KeyStep, SameRoles, SameAccounts, RoleStep, Accounts
<1>. QED BY <1>5, <1>6 DEF Path, e, r

\* SetAdmin(a, u, false): u is stripped of the key and the standby first.
LEMMA DemoteTurn ==
    ASSUME Good(db, {}), NEW a \in Users, NEW u \in Users, Demote(a, u)
    PROVE  Turn(db, db')
<1>. DEFINE c == EnsureSuper(db)
            d == ClearStandby(Revoke(c, u), u)
<1>0. db \in Database /\ RolesOK(db)
  BY DEF Good
<1>1. MayChange(db, a, u) /\ u \in db.admin /\ u \notin db.protected
      /\ db' = [d EXCEPT !.admin = @ \ {u}]
  BY DEF Demote
<1>2. c.super # u /\ c.protected = db.protected
  BY <1>0, <1>1, EnsureSuperStep DEF MayChange, IsSuper
<1>3. Path(db, c, {}, {}) /\ Good(c, {})
  BY EnsureSuperPath
<1>. HIDE DEF c
<1>4. Path(c, d, {}, {}) /\ Good(d, {}) /\ u \notin {d.super, d.standby} \cup d.protected
  BY <1>1, <1>2, <1>3, StrippedPath
<1>. HIDE DEF d
<1>5. Turn(d, db')
  BY <1>1, <1>4, DropAdminPath, QuietTurn
<1>6. Turn(c, db')
  BY <1>3, <1>4, <1>5, TurnAfter DEF Good
<1>. QED BY <1>0, <1>3, <1>6, TurnAfter

\* ClaimAdmin fills an empty role.
LEMMA ClaimAdminTurn ==
    ASSUME Good(db, {}), NEW u \in Users, ClaimAdmin(u)
    PROVE  Turn(db, db')
<1>. DEFINE d == [db EXCEPT !.admin = @ \cup {u}]
<1>1. u \in Accounts(db) /\ db' = EnsureSuper(d)
  BY DEF ClaimAdmin
<1>2. Path(db, d, {}, {}) /\ Good(d, {})
  BY <1>1, AddAdminPath DEF Path
<1>. HIDE DEF d
<1>3. Turn(d, db')
  BY <1>1, <1>2, EnsureSuperPath, QuietTurn
<1>. QED BY <1>2, <1>3, TurnAfter DEF Good

\* SetDisabled(a, u, true): u is stripped of the key and the standby first.
LEMMA DisableTurn ==
    ASSUME Good(db, {}), NEW a \in Users, NEW u \in Users, Disable(a, u)
    PROVE  Turn(db, db')
<1>. DEFINE c == Checked(db, u)
            d == ClearStandby(Revoke(c, u), u)
<1>0. db \in Database /\ RolesOK(db)
  BY DEF Good
<1>1. /\ MayChange(db, a, u) /\ u \in Accounts(db) /\ u \notin db.protected
      /\ db' = [d EXCEPT !.disabled = @ \cup {u}]
  BY DEF Disable
<1>2. RoleStep(db, c) /\ c.super # u /\ c.protected = db.protected
  BY <1>0, <1>1, CheckedStep
<1>3. Path(db, c, {}, {}) /\ Good(c, {}) /\ u \in Accounts(c)
  BY <1>1, <1>2, RolePath DEF Path, RoleStep, SameAccounts, Accounts
<1>. HIDE DEF c
<1>4. /\ Path(c, d, {}, {}) /\ Good(d, {}) /\ u \notin {d.super, d.standby} \cup d.protected
      /\ Accounts(d) = Accounts(c)
  BY <1>1, <1>2, <1>3, StrippedPath
<1>. HIDE DEF d
<1>5. Turn(d, db')
  BY <1>1, <1>3, <1>4, DisabledPath, QuietTurn
<1>6. Turn(c, db')
  BY <1>3, <1>4, <1>5, TurnAfter DEF Good
<1>. QED BY <1>0, <1>3, <1>6, TurnAfter

\* SetDisabled(a, u, false).
LEMMA EnableTurn ==
    ASSUME Good(db, {}), NEW a \in Users, NEW u \in Users, Enable(a, u)
    PROVE  Turn(db, db')
<1>. DEFINE c == Checked(db, u)
<1>0. db \in Database /\ RolesOK(db)
  BY DEF Good
<1>1. MayChange(db, a, u) /\ db' = [c EXCEPT !.disabled = @ \ {u}]
  BY DEF Enable
<1>2. RoleStep(db, c)
  BY <1>0, <1>1, CheckedStep
<1>3. Path(db, c, {}, {}) /\ Good(c, {})
  BY <1>2, RolePath DEF Path
<1>. HIDE DEF c
<1>4. Turn(c, db')
  BY <1>1, <1>3, EnabledPath, QuietTurn
<1>. QED BY <1>0, <1>3, <1>4, TurnAfter

\* PurgeAccount: u is stripped of the standby and the key first.
LEMMA PurgeAccountTurn ==
    ASSUME Good(db, {}), NEW a \in Users, NEW u \in Users, PurgeAccount(a, u)
    PROVE  Turn(db, db')
<1>. DEFINE c == Checked(db, u)
            s == ClearStandby(c, u)
            d == Revoke(s, u)
<1>0. db \in Database /\ RolesOK(db)
  BY DEF Good
<1>1. MayChange(db, a, u) /\ u \in Accounts(db) /\ u \notin db.protected /\ db' = Deleted(d, u)
  BY DEF PurgeAccount
<1>2. RoleStep(db, c) /\ c.super # u /\ c.protected = db.protected
  BY <1>0, <1>1, CheckedStep
<1>3. Path(db, c, {}, {}) /\ Good(c, {}) /\ c \in Database /\ RolesOK(c)
  BY <1>2, RolePath DEF Path, Good
<1>. HIDE DEF c
<1>4. RoleStep(c, s) /\ s.super = c.super /\ s.protected = c.protected /\ s.standby # u
  BY <1>3, ClearStandbyStep
<1>5. Path(c, s, {}, {}) /\ Good(s, {}) /\ s \in Database /\ KeysOK(s, {})
  BY <1>3, <1>4, RolePath DEF Path, Good
<1>. HIDE DEF s
<1>6. KeyStep(s, d, {}, {}) /\ d.grant[u] = 0
  BY <1>5, RevokeStep
<1>7. Path(s, d, {}, {}) /\ Good(d, {})
  BY <1>5, <1>6, KeyPath DEF Path
<1>8. u \in Accounts(d) /\ u \notin {d.super, d.standby} \cup d.protected
  BY <1>1, <1>2, <1>4, <1>6 DEF KeyStep, RoleStep, SameRoles, SameAccounts, Accounts
<1>. HIDE DEF d
<1>9. Turn(d, db')
  BY <1>1, <1>6, <1>7, <1>8, DeletedPath, QuietTurn
<1>10. Turn(s, db')
  BY <1>5, <1>7, <1>9, TurnAfter
<1>11. Turn(c, db')
  BY <1>3, <1>5, <1>10, TurnAfter
<1>. QED BY <1>0, <1>3, <1>11, TurnAfter

\* RequireSuper and Succession fill an empty role at most.
LEMMA ReadRolesTurn ==
    ASSUME Good(db, {}), NEW a \in Users, ReadRoles(a)
    PROVE  Turn(db, db')
<1>1. db' \in {ReadSuccession(db), EnsureSuper(db)}
  BY DEF ReadRoles
<1>2. EnsureSuper(db) = ReadSuccession(db) /\ Path(db, EnsureSuper(db), {}, {})
  BY EnsureSuperPath
<1>. QED BY <1>1, <1>2, QuietTurn

\* HandOverSuper gives the key to the new super administrator only.
LEMMA HandOverSuperTurn ==
    ASSUME Good(db, {}), NEW a \in Users, NEW u \in Users, HandOverSuper(a, u)
    PROVE  Turn(db, db')
<1>. DEFINE c == EnsureSuper(db)
            d == PassKey(c, a, u)
            P == d.protected \ {u}
            e == [d EXCEPT !.super = u, !.lapsed = @ \ {"super"}, !.protected = P]
            f == ClearStandby(e, u)
            g == RemoveGrant(f, a)
<1>0. db \in Database /\ u \in EnabledAdmins(db) /\ db' = MarkDue(g)
  BY DEF Good, HandOverSuper
<1>1. Path(db, c, {}, {}) /\ Good(c, {}) /\ RoleStep(db, c) /\ c \in Database /\ KeysOK(c, {})
  BY EnsureSuperPath DEF Good
<1>. HIDE DEF c
<1>2. KeyStep(c, d, {u}, {})
  BY <1>1, PassKeyStep
<1>3. Path(c, d, {u}, {}) /\ Good(d, {}) /\ d \in Database /\ RolesOK(d)
  BY <1>1, <1>2, KeyPath DEF Path, Good
<1>4. EnabledAdmins(d) = EnabledAdmins(db)
  BY <1>1, <1>2 DEF KeyStep, RoleStep, SameRoles, SameAccounts, EnabledAdmins
<1>. HIDE DEF d
<1>5. P \in SUBSET EnabledAdmins(d) /\ u \in EnabledAdmins(d)
  BY <1>0, <1>3, <1>4 DEF RolesOK
<1>. HIDE DEF P
<1>6. RoleStep(d, f) /\ f.super = u
  BY <1>3, <1>5, NewSuperStep
<1>. HIDE DEF f
<1>7. Path(d, f, {}, {}) /\ Good(f, {}) /\ f \in Database /\ KeysOK(f, {})
  BY <1>3, <1>6, RolePath DEF Path, Good
<1>8. KeyStep(f, g, {}, {a}) /\ g \in Database /\ KeysOK(g, {a})
  BY <1>7, RemoveGrantStep DEF KeyStep
<1>. HIDE DEF g
<1>9. KeyStep(g, db', {}, {})
  BY <1>0, <1>8, MarkDueStep
<1>10. KeyStep(f, db', {}, {})
  BY <1>7, <1>8, <1>9, KeyStepTrans
<1>11. Path(f, db', {}, {}) /\ db'.super = u
  BY <1>6, <1>7, <1>10, KeyPath DEF KeyStep, SameRoles
<1>12. Path(d, db', {} \cup {}, {})
  BY <1>3, <1>7, <1>11, PathsCompose
<1>13. Path(c, db', {u} \cup ({} \cup {}), {})
  BY <1>1, <1>3, <1>12, PathsCompose
<1>14. Turn(c, db')
  BY <1>11, <1>13, PathMore DEF Turn
<1>. QED BY <1>0, <1>1, <1>14, TurnAfter

\* SetStandby: between the removal of the old grant and the replacement of the
\* key, the replaced standby is the one whom KeysOK excepts.
LEMMA SetStandbyTurn ==
    ASSUME Good(db, {}), NEW a \in Users, NEW s \in Users \cup {Nobody}, SetStandby(a, s)
    PROVE  Turn(db, db')
<1>. DEFINE d == ReadSuccession(db)
            old == d.standby
            replaced == old \notin {Nobody, s}
            held == replaced /\ d.grant[old] # 0
            X == IF held THEN {old} ELSE {}
            e == IF replaced THEN ClearStandby(RemoveGrant(d, old), old) ELSE d
            f == IF s # Nobody THEN PassKey(e, a, s) ELSE e
            g == [f EXCEPT !.standby = s]
            h == IF s \notin {Nobody, old} THEN [g EXCEPT !.lapsed = @ \ {"standby"}] ELSE g
<1>0. /\ db \in Database /\ IsSuper(db, a)
      /\ s # Nobody => s # a /\ s \in EnabledAdmins(db)
  BY DEF Good, SetStandby
<1>1. PICK back \in SUBSET h.lapsed :
        LET i == [h EXCEPT !.lapsed = @ \ back]
        IN  db' \in (IF held THEN RotateWithOwnKey(i, a, {s} \ {Nobody}) ELSE {i})
  BY DEF SetStandby
<1>. DEFINE i == [h EXCEPT !.lapsed = @ \ back]
<1>2. Path(db, d, {}, {}) /\ Good(d, {}) /\ RoleStep(db, d) /\ d.super = a
      /\ d \in Database /\ KeysOK(d, {})
  BY <1>0, EnsureSuperPath DEF Good
<1>3. EnabledAdmins(d) = EnabledAdmins(db) /\ old \in Users \cup {Nobody}
  BY <1>2 DEF RoleStep, SameAccounts, EnabledAdmins, Database
<1>. HIDE DEF d
<1>4. Path(d, e, {}, X) /\ Good(e, X) /\ e.super = a /\ EnabledAdmins(e) = EnabledAdmins(d)
  <2>1. CASE ~replaced
    <3>1. KeyStep(d, d, {}, {})
      BY <1>2, KeyStepSame
    <3>2. Path(d, d, {}, {})
      BY <1>2, <3>1, KeyPath
    <3>. QED BY <1>2, <2>1, <3>2 DEF Path
  <2>2. CASE replaced
    <3>. DEFINE r == RemoveGrant(d, old)
    <3>0. old \in Users
      BY <1>3, <2>2
    <3>1. KeyStep(d, r, {}, X)
      BY <1>2, <2>2, <3>0, RemoveGrantStep
    <3>2. Path(d, r, {}, X) /\ Good(r, X) /\ r \in Database /\ RolesOK(r) /\ r.super = a
      BY <1>2, <3>1, KeyPath DEF Path, Good, KeyStep, SameRoles
    <3>. HIDE DEF X, old
    <3>3. e = ClearStandby(r, old)
      BY <2>2
    <3>. HIDE DEF r, e
    <3>4. RoleStep(r, e) /\ e.super = r.super
      BY <3>0, <3>2, <3>3, ClearStandbyStep
    <3>5. Path(r, e, {}, X)
      BY <3>2, <3>4, RolePath
    <3>6. Path(d, e, {} \cup {}, X)
      BY <1>2, <3>2, <3>5, PathsCompose
    <3>7. EnabledAdmins(e) = EnabledAdmins(d)
      BY <3>1, <3>4 DEF KeyStep, RoleStep, SameRoles, SameAccounts, EnabledAdmins
    <3>. QED BY <3>2, <3>4, <3>6, <3>7 DEF Path
  <2>. QED BY <2>1, <2>2
<1>. HIDE DEF e, X
<1>5. Path(e, f, {s}, X) /\ Good(f, X) /\ f.super = a /\ EnabledAdmins(f) = EnabledAdmins(e)
  <2>0. e \in Database /\ KeysOK(e, X)
    BY <1>4 DEF Good
  <2>1. KeyStep(e, f, {s}, X)
    BY <2>0, PassKeyStep, KeyStepSame
  <2>2. Path(e, f, {s}, X)
    BY <1>4, <2>1, KeyPath
  <2>. QED BY <1>4, <2>1, <2>2 DEF Path, KeyStep, SameRoles, SameAccounts, EnabledAdmins
<1>. HIDE DEF f
<1>6. Path(f, g, {}, X) /\ Good(g, X) /\ g.super = a /\ g.standby = s
  <2>1. s \in (EnabledAdmins(f) \ {f.super}) \cup {Nobody} /\ f.super # Nobody
    BY <1>0, <1>3, <1>4, <1>5, NobodyAssumption
  <2>2. RoleStep(f, g) /\ g.super = f.super /\ g.standby = s
    BY <1>5, <2>1, NewStandbyStep DEF Good
  <2>. HIDE DEF g
  <2>3. Path(f, g, {}, X)
    BY <1>5, <2>2, RolePath
  <2>. QED BY <1>5, <2>2, <2>3 DEF Path
<1>. HIDE DEF g
<1>7. ASSUME NEW y, Good(y, X), NEW B
      PROVE  LET z == [y EXCEPT !.lapsed = @ \ B]
             IN  Path(y, z, {}, X) /\ Good(z, X) /\ z.super = y.super /\ z.standby = y.standby
  <2>. DEFINE L == y.lapsed \ B
              z == [y EXCEPT !.lapsed = L]
  <2>1. y \in Database /\ RolesOK(y) /\ L \in SUBSET {"super", "standby"}
    BY <1>7 DEF Good, Database
  <2>. HIDE DEF L
  <2>2. RoleStep(y, z) /\ z.super = y.super /\ z.standby = y.standby
    BY <2>1, LapsedStep
  <2>. HIDE DEF z
  <2>3. Path(y, z, {}, X)
    BY <1>7, <2>2, RolePath
  <2>. QED BY <2>2, <2>3 DEF Path, z, L
<1>8. Path(g, h, {}, X) /\ Good(h, X) /\ h.super = a /\ h.standby = s
  <2>1. KeyStep(g, g, {}, X)
    BY <1>6, KeyStepSame DEF Good
  <2>2. Path(g, g, {}, X)
    BY <1>6, <2>1, KeyPath
  <2>3. LET z == [g EXCEPT !.lapsed = @ \ {"standby"}]
        IN  Path(g, z, {}, X) /\ Good(z, X) /\ z.super = a /\ z.standby = s
    BY <1>6, <1>7
  <2>. QED BY <1>6, <2>2, <2>3
<1>. HIDE DEF h
<1>9. Path(h, i, {}, X) /\ Good(i, X) /\ i.super = a /\ i.standby = s
  BY <1>7, <1>8
<1>10. db' \in (IF held THEN RotateWithOwnKey(i, a, {s} \ {Nobody}) ELSE {i})
  BY <1>1
<1>. HIDE DEF i
<1>11. Path(i, db', {a, s}, {}) /\ db'.super = a /\ db'.standby = s
  <2>0. i \in Database /\ KeysOK(i, X)
    BY <1>9 DEF Good
  <2>1. CASE held
    <3>1. db' \in RotateWithOwnKey(i, a, {s} \ {Nobody})
      BY <1>10, <2>1
    <3>2. KeyStep(i, db', {a, s}, {})
      BY <2>0, <3>1, RotateWithOwnKeyStep
    <3>. QED BY <1>9, <3>2, KeyPath DEF KeyStep, SameRoles
  <2>2. CASE ~held
    <3>1. db' = i /\ X = {}
      BY <1>10, <2>2 DEF X
    <3>2. KeyStep(i, db', {a, s}, {})
      BY <2>0, <3>1, KeyStepSame
    <3>. QED BY <1>9, <3>1, <3>2, KeyPath
  <2>. QED BY <2>1, <2>2
<1>. HIDE DEF held, replaced, old
<1>12. Path(h, db', {} \cup {a, s}, {})
  BY <1>8, <1>9, <1>11, PathsCompose DEF Good
<1>13. Path(g, db', {} \cup ({} \cup {a, s}), {})
  BY <1>6, <1>8, <1>12, PathsCompose DEF Good
<1>14. Path(f, db', {} \cup ({} \cup ({} \cup {a, s})), {})
  BY <1>5, <1>6, <1>13, PathsCompose DEF Good
<1>15. Path(e, db', {s} \cup ({} \cup ({} \cup ({} \cup {a, s}))), {})
  BY <1>4, <1>5, <1>14, PathsCompose DEF Good
<1>16. Turn(e, db')
  BY <1>11, <1>15, PathMore DEF Turn
<1>17. Turn(d, db')
  BY <1>2, <1>4, <1>16, TurnAfter
<1>. QED BY <1>0, <1>2, <1>17, TurnAfter

\* TakeOverSuper: the same for the former super administrator.
LEMMA TakeOverSuperTurn ==
    ASSUME Good(db, {}), NEW a \in Users, TakeOverSuper(a)
    PROVE  Turn(db, db')
<1>. DEFINE d == ReadSuccession(db)
            x == d.super
            held == d.grant[x] # 0
            P == (d.protected \ {a}) \cup {x}
            e == [d EXCEPT !.super = a, !.lapsed = @ \ {"super"}, !.protected = P]
            c == ClearStandby(e, a)
            f == RemoveGrant(c, x)
            g == AfterOpen(f, a)
            X == IF held THEN {x} ELSE {}
<1>0. /\ db \in Database /\ a \in EnabledAdmins(db) /\ x # Nobody
      /\ db' \in (IF ~held THEN {g}
                  ELSE IF Opens(f, a) THEN Rotations(f, a, {})
                  ELSE {MarkDue(g)})
  BY DEF Good, TakeOverSuper, MayTakeOver
<1>1. Path(db, d, {}, {}) /\ Good(d, {}) /\ RoleStep(db, d) /\ d \in Database /\ RolesOK(d)
  BY EnsureSuperPath DEF Good
<1>2. EnabledAdmins(d) = EnabledAdmins(db)
  BY <1>1 DEF RoleStep, SameAccounts, EnabledAdmins
<1>. HIDE DEF d
<1>3. P \in SUBSET EnabledAdmins(d) /\ a \in EnabledAdmins(d) /\ x \in Users
  BY <1>0, <1>1, <1>2 DEF RolesOK, EnabledAdmins, Database
<1>. HIDE DEF P
<1>4. RoleStep(d, c) /\ c.super = a
  BY <1>1, <1>3, NewSuperStep
<1>. HIDE DEF c, x
<1>5. Path(d, c, {}, {}) /\ Good(c, {}) /\ c \in Database /\ KeysOK(c, {}) /\ c.grant = d.grant
  BY <1>1, <1>4, RolePath DEF Path, Good, RoleStep, SameKeys
<1>6. KeyStep(c, f, {}, X)
  BY <1>3, <1>5, RemoveGrantStep
<1>7. Path(c, f, {}, X) /\ Good(f, X) /\ f.super = a /\ f \in Database /\ KeysOK(f, X)
  BY <1>4, <1>5, <1>6, KeyPath DEF Path, Good, KeyStep, SameRoles
<1>. HIDE DEF f
<1>8. KeyStep(f, g, {}, X)
  BY <1>7, AfterOpenStep
<1>. HIDE DEF g
<1>9. KeyStep(f, db', {a}, {})
  <2>1. CASE ~held
    <3>1. db' = g /\ X = {}
      BY <1>0, <2>1
    <3>. QED BY <1>8, <3>1 DEF KeyStep, Given
  <2>2. CASE held /\ Opens(f, a)
    <3>1. db' \in Rotations(f, a, {})
      BY <1>0, <2>2
    <3>. QED BY <1>7, <3>1, RotationsStep
  <2>3. CASE held /\ ~Opens(f, a)
    <3>1. db' = MarkDue(g)
      BY <1>0, <2>3
    <3>2. g \in Database /\ KeysOK(g, X)
      BY <1>8 DEF KeyStep
    <3>3. KeyStep(g, db', {}, {})
      BY <3>1, <3>2, MarkDueStep
    <3>4. KeyStep(f, db', {}, {})
      BY <1>7, <1>8, <3>3, KeyStepTrans
    <3>. QED BY <3>4 DEF KeyStep, Given
  <2>. QED BY <2>1, <2>2, <2>3
<1>10. Path(f, db', {a}, {}) /\ db'.super = a
  BY <1>7, <1>9, KeyPath DEF KeyStep, SameRoles
<1>11. Turn(f, db')
  BY <1>10, PathMore DEF Turn
<1>. HIDE DEF X
<1>12. Turn(c, db')
  BY <1>5, <1>7, <1>11, TurnAfter
<1>13. Turn(d, db')
  BY <1>1, <1>5, <1>12, TurnAfter
<1>. QED BY <1>0, <1>1, <1>13, TurnAfter

\* RunPendingRotation.
LEMMA RunPendingRotationTurn ==
    ASSUME Good(db, {}), NEW a \in Users, RunPendingRotation(a)
    PROVE  Turn(db, db')
<1>1. db' \in RunPending(db, a) \/ db' = AfterOpen(db, a)
  BY DEF RunPendingRotation
<1>. QED BY <1>1, RunPendingTurn, AfterOpenTurn

\* ReplaceEscrowKey gives the new key to the super administrator and, if asked
\* to, the standby.
LEMMA ReplaceEscrowKeyTurn ==
    ASSUME Good(db, {}), NEW a \in Users, NEW keep \in BOOLEAN, ReplaceEscrowKey(a, keep)
    PROVE  Turn(db, db')
<1>. DEFINE d == EnsureSuper(db)
            S == {d.super, d.standby}
<1>0. db \in Database /\ IsSuper(db, a)
  BY DEF Good, ReplaceEscrowKey
<1>1. /\ Path(db, d, {}, {}) /\ Good(d, {}) /\ d = ReadSuccession(db) /\ a = d.super
      /\ d \in Database /\ KeysOK(d, {})
  BY <1>0, EnsureSuperPath DEF Good
<1>2. \/ db' = AfterOpen(d, a)
      \/ \E K \in {{d.standby}, {}} : db' = Rotated(d, a, K)
  BY <1>1 DEF ReplaceEscrowKey
<1>. HIDE DEF d
<1>3. KeyStep(d, db', S, {})
  BY <1>1, <1>2, AfterOpenStep, RotatedStep
<1>4. Path(d, db', S, {}) /\ S = {db'.super, db'.standby}
  BY <1>1, <1>3, KeyPath DEF KeyStep, SameRoles
<1>5. Turn(d, db')
  BY <1>4 DEF Turn
<1>. QED BY <1>0, <1>1, <1>5, TurnAfter

\* CreateNewEscrowKey: everybody starts over.
LEMMA CreateNewEscrowKeyTurn ==
    ASSUME Good(db, {}), NEW a \in Users, CreateNewEscrowKey(a)
    PROVE  Turn(db, db')
<1>. DEFINE c == EnsureSuper(db)
            d == AfterOpen(c, a)
            k == d.key + 1
            none == [u \in Users |-> 0]
            p == [none EXCEPT ![a] = k]
            e == [d EXCEPT !.key = k, !.grant = none, !.stale = {}, !.sealed = none,
                           !.pin = p,
                           !.recovery = 0, !.kept = FALSE, !.due = FALSE, !.knows = {}]
            y == Enroll(e, a, k)
<1>0. db \in Database /\ IsSuper(db, a) /\ db' = Grant(y, a)
  BY DEF Good, CreateNewEscrowKey
<1>1. /\ Path(db, c, {}, {}) /\ Good(c, {}) /\ RoleStep(db, c) /\ a = c.super
      /\ c \in Database /\ KeysOK(c, {}) /\ a \in EnabledAdmins(c)
  BY <1>0, EnsureSuperPath DEF Good, IsSuper, RoleStep, SameAccounts, EnabledAdmins
<1>. HIDE DEF c
<1>2. KeyStep(c, d, {}, {})
  BY <1>1, AfterOpenStep
<1>3. /\ Path(c, d, {}, {}) /\ Good(d, {}) /\ d \in Database /\ d.super = a
      /\ a \in Accounts(d)
  BY <1>1, <1>2, KeyPath DEF Path, Good, KeyStep, SameRoles, SameAccounts, AccountsOK, EnabledAdmins
<1>. HIDE DEF d
<1>4. k \in Nat /\ k # 0 /\ k > d.key /\ d.key \in Nat /\ none \in [Users -> Nat] /\ p \in [Users -> Nat]
      /\ p[a] = k
  BY <1>3 DEF Database
<1>. HIDE DEF k, none, p
<1>5. /\ e \in Database /\ SameRoles(d, e) /\ e.key = k /\ e.grant = none /\ e.sealed = none
      /\ e.pin = p /\ e.recovery = 0 /\ e.due = FALSE /\ e.knows = {} /\ e.personal = d.personal
  <2>1. e \in Database
    BY <1>3, <1>4 DEF Database
  <2>2. SameRoles(d, e)
    BY <1>3 DEF Database, SameRoles, SameAccounts
  <2>3. /\ e.key = k /\ e.grant = none /\ e.sealed = none
        /\ e.pin = p /\ e.recovery = 0 /\ e.due = FALSE /\ e.knows = {} /\ e.personal = d.personal
    BY <1>3 DEF Database
  <2>. QED BY <2>1, <2>2, <2>3
<1>. HIDE DEF e
<1>6. /\ y \in Database /\ SameRoles(d, y) /\ y.key = k /\ y.grant = none
      /\ y.sealed = [none EXCEPT ![a] = k] /\ y.pin = [p EXCEPT ![a] = k]
      /\ y.recovery = 0 /\ y.due = FALSE /\ y.knows = {}
      /\ y.personal = d.personal \cup {a}
  <2>. DEFINE q == [p EXCEPT ![a] = k]
              s == [none EXCEPT ![a] = k]
              st == IF a \in e.damaged /\ e.grant[a] # 0 THEN e.stale \cup {a} ELSE e.stale
  <2>1. SealingKey(e, k) = k /\ e.key # 0 /\ e.pin[a] \in {0, k}
    BY <1>4, <1>5 DEF SealingKey
  <2>2. y = [e EXCEPT !.personal = @ \cup {a}, !.damaged = @ \ {a}, !.stale = st,
                      !.pin = q, !.sealed = s]
    BY <1>5, <2>1 DEF Enroll, Database
  <2>3. q \in [Users -> Nat] /\ s \in [Users -> Nat] /\ st \in SUBSET Users
    BY <1>4, <1>5 DEF Database
  <2>. HIDE DEF q, s, st, y
  <2>4. y \in Database
    BY <1>5, <2>2, <2>3 DEF Database
  <2>5. SameRoles(e, y)
    BY <1>5, <2>2 DEF Database, SameRoles, SameAccounts
  <2>6. /\ y.key = e.key /\ y.grant = e.grant /\ y.sealed = s /\ y.pin = q
        /\ y.recovery = e.recovery /\ y.due = e.due /\ y.knows = e.knows
        /\ y.personal = e.personal \cup {a}
    BY <1>5, <2>2 DEF Database
  <2>7. SameRoles(d, y)
    BY <1>5, <2>5 DEF SameRoles, SameAccounts
  <2>. QED BY <1>5, <2>4, <2>6, <2>7 DEF q, s
<1>. HIDE DEF y
<1>7. KeyStep(d, y, {}, {}) /\ KeysOK(y, {})
  <2>1. \A u \in Users : /\ y.pin[u] = (IF u = a THEN k ELSE 0) /\ y.grant[u] = 0
                         /\ y.sealed[u] = (IF u = a THEN k ELSE 0)
    BY <1>4, <1>6 DEF none, p
  <2>2. y.sealed = y.pin
    <3>1. y.sealed \in [Users -> Nat] /\ y.pin \in [Users -> Nat]
      BY <1>6 DEF Database
    <3>. QED BY <2>1, <3>1
  <2>3. KeysOK(y, {})
    BY <1>6, <2>1, <2>2 DEF KeysOK
  <2>4. Given(d, y, {})
    BY <2>1 DEF Given
  <2>. QED BY <1>3, <1>4, <1>6, <2>3, <2>4 DEF KeyStep
<1>8. KeyStep(y, db', {a}, {})
  BY <1>0, <1>4, <1>6, <1>7, GrantStep
<1>9. Path(d, y, {}, {}) /\ Good(y, {})
  BY <1>3, <1>7, KeyPath DEF Path
<1>10. Path(y, db', {a}, {}) /\ db'.super = a
  BY <1>3, <1>6, <1>8, <1>9, KeyPath DEF KeyStep, SameRoles
<1>11. Turn(y, db')
  BY <1>10, PathMore DEF Turn
<1>12. Turn(d, db')
  BY <1>3, <1>9, <1>11, TurnAfter
<1>13. Turn(c, db')
  BY <1>1, <1>3, <1>12, TurnAfter
<1>. QED BY <1>0, <1>1, <1>13, TurnAfter

\* OpenUserForAdmin removes a grant that fails at most.
LEMMA OpenUserForAdminTurn ==
    ASSUME Good(db, {}), NEW a \in Users, NEW u \in Users, OpenUserForAdmin(a, u)
    PROVE  Turn(db, db')
<1>1. Path(db, EnsureSuper(db), {}, {}) /\ Good(EnsureSuper(db), {})
  BY EnsureSuperPath
<1>2. Turn(EnsureSuper(db), db')
  BY <1>1, AfterOpenTurn DEF OpenUserForAdmin
<1>. QED BY <1>1, <1>2, TurnAfter DEF Good

\* The recovery code opens the key in use.
LEMMA RecoveryTurn ==
    ASSUME NEW d, Good(d, {}), NEW r \in {0, d.key}, NEW b \in BOOLEAN
    PROVE  Turn(d, [d EXCEPT !.recovery = r, !.kept = b])
<1>. DEFINE e == [d EXCEPT !.recovery = r, !.kept = b]
<1>0. d \in Database
  BY DEF Good
<1>r. r \in Nat
  BY <1>0 DEF Database
<1>1. /\ e \in Database /\ SameRoles(d, e) /\ e.recovery = r
      /\ e.key = d.key /\ e.pin = d.pin /\ e.sealed = d.sealed /\ e.grant = d.grant
      /\ e.due = d.due /\ e.knows = d.knows /\ e.personal = d.personal
  BY <1>0, <1>r DEF Database, SameRoles, SameAccounts
<1>. HIDE DEF e
<1>2. KeysOK(e, {})
  BY <1>1 DEF Good, KeysOK
<1>3. KeyStep(d, e, {}, {})
  BY <1>0, <1>1, <1>2 DEF KeyStep, Given, Database
<1>4. Turn(d, e)
  BY <1>3, KeyPath, QuietTurn
<1>. QED BY <1>4 DEF e

\* CreateEscrowRecoveryCode is for the key in use.
LEMMA CreateRecoveryCodeTurn ==
    ASSUME Good(db, {}), NEW a \in Users, CreateRecoveryCode(a)
    PROVE  Turn(db, db')
<1>. DEFINE d == EnsureSuper(db)
<1>1. Path(db, d, {}, {}) /\ Good(d, {})
  BY EnsureSuperPath
<1>2. db' = [d EXCEPT !.recovery = d.key, !.kept = FALSE] \/ db' = AfterOpen(d, a)
  BY DEF CreateRecoveryCode
<1>. HIDE DEF d
<1>3. Turn(d, db')
  BY <1>1, <1>2, RecoveryTurn, AfterOpenTurn
<1>. QED BY <1>1, <1>3, TurnAfter DEF Good

\* ConfirmEscrowRecoveryCode changes no key.
LEMMA ConfirmRecoveryCodeTurn ==
    ASSUME Good(db, {}), NEW a \in Users, ConfirmRecoveryCode(a)
    PROVE  Turn(db, db')
<1>. DEFINE d == EnsureSuper(db)
<1>1. Path(db, d, {}, {}) /\ Good(d, {})
  BY EnsureSuperPath
<1>2. db' = [d EXCEPT !.kept = TRUE]
  BY DEF ConfirmRecoveryCode
<1>. HIDE DEF d
<1>3. d \in Database /\ d.recovery \in {0, d.key}
  BY <1>1 DEF Good, KeysOK
<1>4. db' = [d EXCEPT !.recovery = d.recovery, !.kept = TRUE]
  BY <1>2, <1>3 DEF Database
<1>5. Turn(d, db')
  BY <1>1, <1>3, <1>4, RecoveryTurn
<1>. QED BY <1>1, <1>5, TurnAfter DEF Good

\* RecoverEscrowKey gives the key to the super administrator, who stays it while
\* a replacement runs.
LEMMA RecoverEscrowKeyTurn ==
    ASSUME Good(db, {}), NEW a \in Users, RecoverEscrowKey(a)
    PROVE  Turn(db, db')
<1>. DEFINE d == EnsureSuper(db)
            e == [d EXCEPT !.personal = @ \cup {a}, !.damaged = @ \ {a}]
            f == Grant(e, a)
<1>0. db \in Database /\ IsSuper(db, a) /\ db.key # 0 /\ db' \in RunPending(f, a)
  BY DEF Good, RecoverEscrowKey
<1>1. /\ Path(db, d, {}, {}) /\ Good(d, {}) /\ RoleStep(db, d) /\ a = d.super
      /\ d \in Database /\ a \in EnabledAdmins(d) /\ d.key # 0
  BY <1>0, EnsureSuperPath
     DEF Good, IsSuper, RoleStep, SameAccounts, SameKeys, EnabledAdmins
<1>. HIDE DEF d
<1>2. a \in Accounts(d)
  BY <1>1 DEF Good, AccountsOK, EnabledAdmins
<1>3. /\ e \in Database /\ SameRoles(d, e) /\ e.recovery = d.recovery
      /\ e.key = d.key /\ e.pin = d.pin /\ e.sealed = d.sealed /\ e.grant = d.grant
      /\ e.due = d.due /\ e.knows = d.knows /\ e.personal = d.personal \cup {a}
  BY <1>1 DEF Database, SameRoles, SameAccounts
<1>. HIDE DEF e
<1>4. KeyStep(d, e, {}, {})
  <2>1. KeysOK(e, {})
    BY <1>1, <1>3 DEF Good, KeysOK
  <2>. QED BY <1>1, <1>2, <1>3, <2>1 DEF KeyStep, Given, Database
<1>5. Path(d, e, {}, {}) /\ Good(e, {}) /\ KeysOK(e, {})
  BY <1>1, <1>4, KeyPath DEF Path, Good
<1>6. KeyStep(e, f, {a}, {})
  BY <1>1, <1>3, <1>5, GrantStep
<1>7. Path(e, f, {a}, {}) /\ Good(f, {}) /\ f.super = a /\ a # Nobody
  BY <1>1, <1>3, <1>5, <1>6, KeyPath, NobodyAssumption DEF Path, KeyStep, SameRoles
<1>. HIDE DEF f
<1>8. Turn(f, db') /\ db'.super = a
  BY <1>0, <1>7, RunPendingTurn
<1>9. Path(e, db', {a} \cup {db'.super, db'.standby}, {})
  BY <1>3, <1>7, <1>8, PathsCompose DEF Turn
<1>10. Turn(e, db')
  BY <1>8, <1>9, PathMore DEF Turn
<1>11. Turn(d, db')
  BY <1>1, <1>5, <1>10, TurnAfter
<1>. QED BY <1>0, <1>1, <1>11, TurnAfter

\* The takeover period passes.
LEMMA LapseTurn ==
    ASSUME Good(db, {}), NEW role \in {"super", "standby"}, Lapse(role)
    PROVE  Turn(db, db')
<1>. DEFINE L == db.lapsed \cup {role}
<1>1. db \in Database /\ RolesOK(db) /\ L \in SUBSET {"super", "standby"}
  BY DEF Good, Database
<1>2. db' = [db EXCEPT !.lapsed = L]
  BY DEF Lapse
<1>. HIDE DEF L
<1>3. RoleStep(db, db')
  BY <1>1, <1>2, LapsedStep
<1>. QED BY <1>3, RolePath, QuietTurn

\* The protection after a takeover ends.
LEMMA ProtectionEndsTurn ==
    ASSUME Good(db, {}), NEW u \in Users, ProtectionEnds(u)
    PROVE  Turn(db, db')
<1>1. db \in Database /\ RolesOK(db) /\ db' = [db EXCEPT !.protected = @ \ {u}]
  BY DEF Good, ProtectionEnds
<1>2. /\ db' \in Database /\ SameAccounts(db, db') /\ SameKeys(db, db')
      /\ db'.super = db.super /\ db'.standby = db.standby
      /\ db'.protected = db.protected \ {u}
  BY <1>1 DEF Database, SameAccounts, SameKeys
<1>3. RolesOK(db')
  BY <1>1, <1>2 DEF RolesOK, EnabledAdmins, SameAccounts
<1>4. RoleStep(db, db')
  BY <1>2, <1>3 DEF RoleStep
<1>. QED BY <1>4, RolePath, QuietTurn

\* A private key is damaged.
LEMMA DamageTurn ==
    ASSUME Good(db, {}), NEW u \in Users, Damage(u)
    PROVE  Turn(db, db')
<1>1. db \in Database /\ RolesOK(db) /\ db' = [db EXCEPT !.damaged = @ \cup {u}]
  BY DEF Good, Damage
<1>2. /\ db' \in Database /\ SameAccounts(db, db') /\ SameKeys(db, db')
      /\ db'.super = db.super /\ db'.standby = db.standby
      /\ db'.protected = db.protected
  BY <1>1 DEF Database, SameAccounts, SameKeys
<1>3. RolesOK(db')
  BY <1>1, <1>2 DEF RolesOK, EnabledAdmins, SameAccounts
<1>4. RoleStep(db, db')
  BY <1>2, <1>3 DEF RoleStep
<1>. QED BY <1>4, RolePath, QuietTurn

-----------------------------------------------------------------------------
(* The invariant and the theorems                                           *)

OpenedOK == opened \subseteq [by : Users, key : 1 .. db.key]

\* A machine from before the super administrator existed is in order.
LEMMA LegacyGood ==
    ASSUME NEW S \in SUBSET Users, NEW admin \in SUBSET S, NEW enrolled \in SUBSET S,
           NEW r \in Ranks(S), NEW holders \in SUBSET (admin \cap enrolled)
    PROVE  Good(Legacy(r, admin, enrolled, holders), {})
<1>. DEFINE d == Legacy(r, admin, enrolled, holders)
            k == IF enrolled = {} THEN 0 ELSE 1
            en == [u \in Users |-> IF u \in enrolled THEN k ELSE 0]
            ho == [u \in Users |-> IF u \in holders THEN k ELSE 0]
            c == Cardinality(S)
<1>0. IsFiniteSet(S) /\ c \in Nat
  BY UsersAssumption, FS_Subset, FS_CardinalityType
<1>. HIDE DEF c
<1>1. /\ r \in [Users -> 0 .. c]
      /\ \A u \in Users : r[u] > 0 <=> u \in S
      /\ \A u, v \in S : r[u] = r[v] => u = v
  BY DEF Ranks, c
<1>2. r \in [Users -> Nat] /\ k \in Nat /\ en \in [Users -> Nat] /\ ho \in [Users -> Nat]
  BY <1>0, <1>1
<1>3. d = [rank |-> r, admin |-> admin, disabled |-> {}, super |-> Nobody,
           standby |-> Nobody, lapsed |-> {}, protected |-> {}, key |-> k,
           personal |-> enrolled, damaged |-> {}, pin |-> en, sealed |-> en, grant |-> ho,
           stale |-> {}, due |-> FALSE, recovery |-> 0, kept |-> FALSE, knows |-> holders]
  <2>1. d = [Empty EXCEPT !.rank = r, !.admin = admin, !.key = k,
                          !.personal = enrolled, !.pin = en, !.sealed = en, !.grant = ho,
                          !.knows = holders]
    BY DEF Legacy
  <2>. HIDE DEF d, k, en, ho
  <2>. QED BY <2>1 DEF Empty
<1>4. \A u \in Users : en[u] \in {0, k} /\ ho[u] \in {0, k} /\ (u \in holders => ho[u] = k)
  OBVIOUS
<1>5. holders # {} => k = 1
  OBVIOUS
<1>. HIDE DEF d, k, en, ho
<1>6. d \in Database
  BY <1>2, <1>3 DEF Database
<1>7. Accounts(d) = S
  BY <1>1, <1>3 DEF Accounts
<1>8. AccountsOK(d)
  <2>1. /\ d.rank = r /\ d.admin = admin /\ d.disabled = {} /\ d.protected = {}
        /\ d.personal = enrolled
    BY <1>3
  <2>2. \A u \in S : r[u] <= c
    BY <1>0, <1>1
  <2>. QED BY <1>1, <1>7, <2>1, <2>2 DEF AccountsOK, c
<1>9. RolesOK(d)
  BY <1>3 DEF RolesOK
<1>10. KeysOK(d, {})
  BY <1>3, <1>4, <1>5 DEF KeysOK
<1>. QED BY <1>6, <1>8, <1>9, <1>10 DEF Good, d

\* An empty machine is in order.
LEMMA EmptyGood == Good(Empty, {})
<1>1. Empty \in Database
  BY DEF Empty, Database
<1>2. Accounts(Empty) = {}
  BY DEF Empty, Accounts
<1>3. AccountsOK(Empty)
  BY <1>2 DEF Empty, AccountsOK
<1>4. RolesOK(Empty) /\ KeysOK(Empty, {})
  BY DEF Empty, RolesOK, KeysOK
<1>. QED BY <1>1, <1>3, <1>4 DEF Good

\* Every initial state is in order.
LEMMA InitGood == Init => Good(db, {}) /\ OpenedOK
<1>. SUFFICES ASSUME Init PROVE Good(db, {}) /\ OpenedOK
  OBVIOUS
<1>1. OpenedOK
  BY DEF Init, OpenedOK
<1>2. CASE db = Empty
  BY <1>1, <1>2, EmptyGood
<1>3. CASE db # Empty
  <2>1. PICK S \in SUBSET Users \ {{}}, admin \in SUBSET Users, enrolled \in SUBSET Users :
             \E r \in Ranks(S), holders \in SUBSET (admin \cap enrolled) :
             /\ admin \subseteq S /\ enrolled \subseteq S
             /\ db = Legacy(r, admin, enrolled, holders)
    BY <1>3 DEF Init
  <2>. QED BY <1>1, <2>1, LegacyGood
<1>. QED BY <1>2, <1>3

\* Every step is a transaction, or nothing.
LEMMA NextTurn ==
    ASSUME Good(db, {}), Next
    PROVE  Turn(db, db')
<1>1. CASE \E u \in Users : SignIn(u)
  BY <1>1, SignInTurn
<1>2. CASE \E a \in Users : OpenEscrow(a)
  <2>1. PICK a \in Users : OpenEscrow(a)
    BY <1>2
  <2>. QED BY <2>1, AfterOpenTurn DEF OpenEscrow
<1>3. CASE \E a, u \in Users, isAdmin \in BOOLEAN, session \in 0 .. db.key :
             CreateAccount(a, u, isAdmin, session)
  BY <1>3, CreateAccountTurn
<1>4. CASE \E a, u \in Users : PromoteAdmin(a, u)
  BY <1>4, PromoteAdminTurn
<1>5. CASE \E a, u \in Users : Demote(a, u)
  BY <1>5, DemoteTurn
<1>6. CASE \E u \in Users : ClaimAdmin(u)
  BY <1>6, ClaimAdminTurn
<1>7. CASE \E a, u \in Users : Disable(a, u)
  BY <1>7, DisableTurn
<1>8. CASE \E a, u \in Users : Enable(a, u)
  BY <1>8, EnableTurn
<1>9. CASE \E a, u \in Users : PurgeAccount(a, u)
  BY <1>9, PurgeAccountTurn
<1>10. CASE \E a \in Users : ReadRoles(a)
  BY <1>10, ReadRolesTurn
<1>11. CASE \E a, u \in Users : HandOverSuper(a, u)
  BY <1>11, HandOverSuperTurn
<1>12. CASE \E a \in Users, s \in Users \cup {Nobody} : SetStandby(a, s)
  BY <1>12, SetStandbyTurn
<1>13. CASE \E a \in Users : TakeOverSuper(a)
  BY <1>13, TakeOverSuperTurn
<1>14. CASE \E a \in Users : RunPendingRotation(a)
  BY <1>14, RunPendingRotationTurn
<1>15. CASE \E a \in Users, keep \in BOOLEAN : ReplaceEscrowKey(a, keep)
  BY <1>15, ReplaceEscrowKeyTurn
<1>16. CASE \E a \in Users : CreateNewEscrowKey(a)
  BY <1>16, CreateNewEscrowKeyTurn
<1>17. CASE \E a, u \in Users : OpenUserForAdmin(a, u)
  BY <1>17, OpenUserForAdminTurn
<1>18. CASE \E a \in Users : CreateRecoveryCode(a)
  BY <1>18, CreateRecoveryCodeTurn
<1>19. CASE \E a \in Users : ConfirmRecoveryCode(a)
  BY <1>19, ConfirmRecoveryCodeTurn
<1>20. CASE \E a \in Users : RecoverEscrowKey(a)
  BY <1>20, RecoverEscrowKeyTurn
<1>21. CASE \E role \in {"super", "standby"} : Lapse(role)
  BY <1>21, LapseTurn
<1>22. CASE \E u \in Users : ProtectionEnds(u)
  BY <1>22, ProtectionEndsTurn
<1>23. CASE \E u \in Users : Damage(u)
  BY <1>23, DamageTurn
<1>. QED BY <1>1, <1>2, <1>3, <1>4, <1>5, <1>6, <1>7, <1>8, <1>9, <1>10, <1>11, <1>12, <1>13,
            <1>14, <1>15, <1>16, <1>17, <1>18, <1>19, <1>20, <1>21, <1>22, <1>23 DEF Next

\* A process opens the active key, and only the key that it has used is closed.
LEMMA NextOpened ==
    ASSUME Next
    PROVE  \/ opened' \subseteq opened
           \/ db.key # 0 /\ \E a \in Users : opened' \subseteq opened \cup {[by |-> a, key |-> db.key]}
<1>1. ASSUME NEW a \in Users, OpenEscrow(a)
      PROVE  \/ opened' \subseteq opened
             \/ db.key # 0 /\ opened' \subseteq opened \cup {[by |-> a, key |-> db.key]}
  BY <1>1 DEF OpenEscrow, Opens
<1>2. ASSUME NEW a, NEW u, NEW isAdmin, NEW session, CreateAccount(a, u, isAdmin, session)
      PROVE  opened' \subseteq opened
  BY <1>2 DEF CreateAccount
<1>3. ASSUME ~(\E a \in Users : OpenEscrow(a)),
             ~(\E a, u \in Users, isAdmin \in BOOLEAN, session \in 0 .. db.key :
                  CreateAccount(a, u, isAdmin, session))
      PROVE  UNCHANGED opened
  BY <1>3 DEF Next, SignIn, PromoteAdmin, Demote, ClaimAdmin, Disable, Enable, PurgeAccount,
              ReadRoles, HandOverSuper, SetStandby, TakeOverSuper, RunPendingRotation,
              ReplaceEscrowKey, CreateNewEscrowKey, OpenUserForAdmin, CreateRecoveryCode,
              ConfirmRecoveryCode, RecoverEscrowKey, Lapse, ProtectionEnds, Damage
<1>. QED BY <1>1, <1>2, <1>3

\* Every step keeps the invariant, and is a transaction or changes nothing.
LEMMA GoodKept ==
    ASSUME Good(db, {}), OpenedOK, [Next]_vars
    PROVE  /\ Good(db', {}) /\ OpenedOK'
           /\ vars' = vars \/ Turn(db, db')
<1>1. CASE vars' = vars
  BY <1>1 DEF vars, OpenedOK
<1>2. CASE Next
  <2>1. Turn(db, db')
    BY <1>2, NextTurn
  <2>2. Good(db', {}) /\ db'.key >= db.key /\ db.key \in Nat /\ db'.key \in Nat
    BY <2>1 DEF Turn, Path, Good, Database
  <2>3. \A o : o \in [by : Users, key : 1 .. db.key] => o \in [by : Users, key : 1 .. db'.key]
    BY <2>2
  <2>4. \A a \in Users : db.key # 0 => [by |-> a, key |-> db.key] \in [by : Users, key : 1 .. db'.key]
    BY <2>2
  <2>5. OpenedOK'
    BY <1>2, <2>3, <2>4, NextOpened DEF OpenedOK
  <2>. QED BY <2>1, <2>2, <2>5
<1>. QED BY <1>1, <1>2

\* The inductive invariant holds in every state.
LEMMA GoodInvariant == Spec => [](Good(db, {}) /\ OpenedOK)
<1>1. Init => Good(db, {}) /\ OpenedOK
  BY InitGood
<1>2. Good(db, {}) /\ OpenedOK /\ [Next]_vars => (Good(db, {}) /\ OpenedOK)'
  BY GoodKept
<1>. QED BY <1>1, <1>2, PTL DEF Spec

\* Type correctness: in every state of the machine the database has its type,
\* the accounts are numbered in the order of their creation without gaps or
\* ties, and nothing refers to an account that was deleted (the cascades of
\* PurgeAccount).
THEOREM AdministrationTypes == Spec => []TypeOK
<1>1. Good(db, {}) /\ OpenedOK => TypeOK
  BY DEF Good, AccountsOK, OpenedOK, TypeOK
<1>. QED BY <1>1, GoodInvariant, PTL

\* The roles are always with two different administrators who can sign in,
\* whoever demotes, disables, deletes, hands over to or takes over from whom
\* (super_admin.go, succession.go).
THEOREM RolesAreFilled == Spec => []RolesFilled
<1>1. Good(db, {}) /\ OpenedOK => RolesFilled
  BY DEF Good, RolesOK, RolesFilled
<1>. QED BY <1>1, GoodInvariant, PTL

\* Nothing takes the account or the rights of a protected former super
\* administrator (requireUnprotectedTx).
THEOREM ProtectionHolds == Spec => []ProtectedStayAdmins
<1>1. Good(db, {}) /\ OpenedOK => ProtectedStayAdmins
  BY DEF Good, RolesOK, ProtectedStayAdmins
<1>. QED BY <1>1, GoodInvariant, PTL

\* However replacements of the key interleave with what was opened before
\* them, nothing names a key that nobody can open (rotateTx, enrollTx).
THEOREM OnlyActiveKeyNamed == Spec => []NothingNamesRetiredKey
<1>1. Good(db, {}) /\ OpenedOK => NothingNamesRetiredKey
  <2>. SUFFICES ASSUME Good(db, {}), NEW u \in Users
                PROVE  /\ {db.pin[u], db.sealed[u], db.grant[u], db.recovery} \subseteq {0, db.key}
                       /\ db.sealed[u] = db.pin[u]
    BY DEF NothingNamesRetiredKey
  <2>. QED BY DEF Good, KeysOK
<1>. QED BY <1>1, GoodInvariant, PTL

\* Whoever was given the key in use still has the grant, or the key is to be
\* replaced (revokeGrantTx, markRotationPendingTx).
THEOREM DeparturesAreMarked == Spec => []DepartedMarked
<1>1. Good(db, {}) /\ OpenedOK => DepartedMarked
  BY DEF Good, KeysOK, DepartedMarked
<1>. QED BY <1>1, GoodInvariant, PTL

\* No transaction gives the key to anybody who has no role when it is done
\* (rotateTx, passKeyTx, enrollAdminSessionTx).
THEOREM KeyGoesToRoles == Spec => GivenOnlyToRoles
<1>. DEFINE A == \A u \in Users : db'.grant[u] # 0 /\ (db.grant[u] = 0 \/ db'.key # db.key) =>
                     u \in {db'.super, db'.standby}
<1>1. Good(db, {}) /\ OpenedOK /\ [Next]_vars => [A]_vars
  <2>. SUFFICES ASSUME Good(db, {}), OpenedOK, [Next]_vars PROVE A \/ vars' = vars
    OBVIOUS
  <2>1. vars' = vars \/ Turn(db, db')
    BY GoodKept
  <2>2. Turn(db, db') => A
    BY DEF Turn, Path, Given
  <2>. QED BY <2>1, <2>2
<1>. QED BY <1>1, GoodInvariant, PTL DEF Spec, GivenOnlyToRoles

=============================================================================

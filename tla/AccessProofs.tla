---------------------------- MODULE AccessProofs ----------------------------
(***************************************************************************)
(* Proofs about Access, for any users, organizations and requests on the    *)
(* way.  Links is what makes the invariants inductive: users that do not    *)
(* exist are nobody's manager and in no organization, so that creating one  *)
(* disturbs nothing; and a key never acts as anything but an admin.         *)
(***************************************************************************)
EXTENDS Access, TLAPS

Links ==
  /\ \A u \in Users : role[u] = "none" =>
       /\ org[u] = NoOrg /\ manager[u] = NoUser
       /\ u \notin active /\ u \notin keys
  /\ \A u \in Users : role[u] # "none" => org[u] \in Orgs
  /\ \A u \in Users : manager[u] # NoUser => role[manager[u]] # "none"
  /\ \A s \in waiting :
       /\ role[s.actor] # "none"
       /\ s.actor \in keys => s.role = "admin"

AccessInv == TypeOK /\ Links /\ OrgBoundary /\ KeysMatchUsers /\ OneOwner

\* A session that is served belongs to a user that exists; a key's is an admin's.
LEMMA ServedExists ==
  ASSUME AccessInv, NEW s \in Sessions, NEW roles, Served(s, roles)
  PROVE  /\ s.actor \in Users /\ role[s.actor] # "none"
         /\ org[s.actor] \in Orgs
         /\ s.role \in roles
         /\ s.actor \in keys => s.role = "admin"
         /\ waiting' \subseteq waiting
  BY DEF AccessInv, TypeOK, Links, KeysMatchUsers, Served, Authenticated, Sessions

\* Creating a user in an organization under a manager of it, or under nobody,
\* keeps all invariants, when a new owner is the first user and a new key an
\* admin without a manager.
LEMMA CreateKeepsInv ==
  ASSUME AccessInv, NEW u \in Users, NEW asRole \in UserRole, NEW o \in Orgs,
         NEW under \in Users \cup {NoUser},
         CreateUser(u, asRole, o, under),
         under # NoUser => role[under] # "none" /\ org[under] = o,
         asRole = "owner" => \A v \in Users : org[v] # o,
         \/ UNCHANGED keys
         \/ keys' = keys \cup {u} /\ asRole = "admin" /\ under = NoUser,
         UNCHANGED revoked, waiting' \subseteq waiting
  PROVE  AccessInv'
<1> USE NamesAssumption DEF AccessInv
<1>1. role[u] = "none" /\ u \notin keys /\ asRole # "none"
  BY DEF CreateUser, Exists, TypeOK, Links, UserRole
<1>2. TypeOK'
  BY DEF CreateUser, TypeOK, UserRole
<1>3. \A v \in Users :
        /\ role'[v] = IF v = u THEN asRole ELSE role[v]
        /\ org'[v] = IF v = u THEN o ELSE org[v]
        /\ manager'[v] = IF v = u THEN under ELSE manager[v]
        /\ v \in active' <=> v = u \/ v \in active
        /\ v \in keys' => v = u \/ v \in keys
  BY DEF CreateUser, TypeOK
<1>4. Links'
  <2>1. \A v \in Users : role'[v] = "none" =>
          /\ org'[v] = NoOrg /\ manager'[v] = NoUser
          /\ v \notin active' /\ v \notin keys'
    BY <1>1, <1>3 DEF Links
  <2>2. \A v \in Users : role'[v] # "none" => org'[v] \in Orgs
    BY <1>3 DEF Links
  <2>3. \A v \in Users : manager'[v] # NoUser => role'[manager'[v]] # "none"
    BY <1>1, <1>3 DEF Links, TypeOK
  <2>4. \A s \in waiting' : role'[s.actor] # "none" /\ (s.actor \in keys' => s.role = "admin")
    BY <1>1, <1>3 DEF Links, TypeOK, Sessions
  <2> QED BY <2>1, <2>2, <2>3, <2>4 DEF Links
<1>5. OrgBoundary'
  BY <1>1, <1>3 DEF OrgBoundary, Links, TypeOK
<1>6. KeysMatchUsers'
  BY <1>1, <1>2, <1>3 DEF KeysMatchUsers, TypeOK
<1>7. OneOwner'
  BY <1>1, <1>3 DEF OneOwner
<1> QED BY <1>2, <1>4, <1>5, <1>6, <1>7

\* The empty database satisfies the invariants.
LEMMA InitInv == Init => AccessInv
  BY NamesAssumption DEF Init, AccessInv, TypeOK, Links, OrgBoundary, KeysMatchUsers, OneOwner

\* Every step keeps the invariants.
LEMMA NextInv == AccessInv /\ [Next]_vars => AccessInv'
<1> SUFFICES ASSUME AccessInv, [Next]_vars PROVE AccessInv'
  OBVIOUS
<1> USE NamesAssumption
<1>1. ASSUME NEW u \in Users, NEW o \in Orgs, Register(u, o)
      PROVE  AccessInv'
  BY <1>1, CreateKeepsInv DEF Register, UserRole
<1>2. ASSUME NEW s \in Sessions, Wait(s)
      PROVE  AccessInv'
  <2>1. s.actor \in keys => s.role = "admin"
    BY <1>2 DEF Wait, Authenticated, AccessInv, KeysMatchUsers
  <2>2. role[s.actor] # "none"
    BY <1>2 DEF Wait, Authenticated, AccessInv, Links, TypeOK, Sessions
  <2> QED BY <1>2, <2>1, <2>2 DEF Wait, people, AccessInv, TypeOK, Links, OrgBoundary,
                              KeysMatchUsers, OneOwner
<1>3. ASSUME NEW s \in Sessions, Answer(s)
      PROVE  AccessInv'
  BY <1>3 DEF Answer, people, AccessInv, TypeOK, Links, OrgBoundary, KeysMatchUsers, OneOwner
<1>4. ASSUME NEW s \in Sessions, NEW u \in Users, NEW under \in Users \cup {NoUser},
             NEW asRole \in INVITABLE_ROLES, Invite(s, u, asRole, under)
      PROVE  AccessInv'
  <2>1. org[s.actor] \in Orgs /\ waiting' \subseteq waiting
    BY <1>4, ServedExists DEF Invite
  <2>2. under # NoUser => role[under] # "none" /\ org[under] = org[s.actor]
    BY <1>4 DEF Invite, Person, InScope, Exists
  <2> QED BY <1>4, <2>1, <2>2, CreateKeepsInv DEF Invite, INVITABLE_ROLES, UserRole
<1>5. ASSUME NEW s \in Sessions, NEW u \in Users, NEW under \in Users \cup {NoUser},
             NEW asRole \in INVITABLE_ROLES \cup {role[u]}, NEW isActive \in BOOLEAN,
             Update(s, u, asRole, under, isActive)
      PROVE  AccessInv'
  <2>1. waiting' \subseteq waiting
    BY <1>5, ServedExists DEF Update
  <2>2. /\ role[u] # "none" /\ asRole # "none" /\ u \notin keys
        /\ asRole = "owner" => role[u] = "owner"
    BY <1>5 DEF Update, Person, InScope, Exists, INVITABLE_ROLES
  <2>3. under # NoUser => role[under] # "none" /\ org[under] = org[u]
    BY <1>5 DEF Update, Person, InScope, Exists, AccessInv, Links, OrgBoundary
  <2>4. \A v \in Users :
          /\ role'[v] = IF v = u THEN asRole ELSE role[v]
          /\ manager'[v] = IF v = u THEN under ELSE manager[v]
          /\ v # u => (v \in active' <=> v \in active)
    BY <1>5 DEF Update, AccessInv, TypeOK
  <2>5. org' = org /\ keys' = keys /\ revoked' = revoked
    BY <1>5 DEF Update
  <2>6. TypeOK'
    BY <1>5, <2>1 DEF Update, AccessInv, TypeOK, INVITABLE_ROLES, UserRole
  <2>7. Links'
    BY <2>1, <2>2, <2>3, <2>4, <2>5 DEF AccessInv, Links, TypeOK, Sessions
  <2>8. OrgBoundary'
    BY <2>3, <2>4, <2>5 DEF AccessInv, OrgBoundary
  <2>9. KeysMatchUsers'
    BY <2>2, <2>4, <2>5 DEF AccessInv, KeysMatchUsers, TypeOK
  <2>10. OneOwner'
    BY <2>2, <2>4, <2>5 DEF AccessInv, OneOwner
  <2> QED BY <2>6, <2>7, <2>8, <2>9, <2>10 DEF AccessInv
<1>6. ASSUME NEW s \in Sessions, NEW u \in Users, CreateKey(s, u)
      PROVE  AccessInv'
  <2>1. org[s.actor] \in Orgs /\ waiting' \subseteq waiting
    BY <1>6, ServedExists DEF CreateKey
  <2> QED BY <1>6, <2>1, CreateKeepsInv DEF CreateKey, UserRole
<1>7. ASSUME NEW s \in Sessions, NEW k \in Users, RevokeKey(s, k)
      PROVE  AccessInv'
  <2>1. waiting' \subseteq waiting
    BY <1>7, ServedExists DEF RevokeKey
  <2> QED BY <1>7, <2>1 DEF RevokeKey, AccessInv, TypeOK, Links, OrgBoundary, KeysMatchUsers,
                        OneOwner
<1>8. CASE UNCHANGED vars
  BY <1>8 DEF vars, people, AccessInv, TypeOK, Links, OrgBoundary, KeysMatchUsers, OneOwner
<1> QED
  BY <1>1, <1>2, <1>3, <1>4, <1>5, <1>6, <1>7, <1>8 DEF Next, Serve

\* The invariants hold in every reachable state.
LEMMA SpecInv == Spec => []AccessInv
  BY InitInv, NextInv, PTL DEF Spec

\* Users, roles, teams, keys and waiting requests are well typed.
THEOREM TypeCorrect == Spec => []TypeOK
<1>1. AccessInv => TypeOK
  BY DEF AccessInv
<1> QED BY <1>1, SpecInv, PTL

\* Teams never reach across organizations, whatever requests overtake another.
THEOREM TeamsStayInside == Spec => []OrgBoundary
<1>1. AccessInv => OrgBoundary
  BY DEF AccessInv
<1> QED BY <1>1, SpecInv, PTL

\* A key works until it is revoked, and then never again.
THEOREM KeysWorkUntilRevoked == Spec => []KeysMatchUsers
<1>1. AccessInv => KeysMatchUsers
  BY DEF AccessInv
<1> QED BY <1>1, SpecInv, PTL

\* An organization never has a second owner.
THEOREM OwnerIsUnique == Spec => []OneOwner
<1>1. AccessInv => OneOwner
  BY DEF AccessInv
<1> QED BY <1>1, SpecInv, PTL

\* Nobody's role, team or access is changed from outside their organization or
\* by themselves: a user who is created had none, PATCH excludes the actor, and
\* a key is never an owner.
THEOREM ChangesComeFromColleagues == Spec => TenantIsolation
<1> DEFINE Isolated == \A u \in Users : Exists(u) /\ Changed(u) => ChangedByColleague(u)
<1>1. AccessInv /\ [Next]_vars => [Isolated]_vars
  <2> SUFFICES ASSUME AccessInv, Next, NEW v \in Users, Exists(v), Changed(v)
               PROVE  ChangedByColleague(v)
    OBVIOUS
  <2>1. ASSUME NEW u \in Users, NEW asRole, NEW o, NEW under, CreateUser(u, asRole, o, under)
        PROVE  FALSE
    BY <2>1, NamesAssumption DEF CreateUser, Exists, Changed, AccessInv, TypeOK
  <2>2. ASSUME NEW s \in Sessions, NEW u \in Users, NEW under, NEW asRole, NEW isActive,
               Update(s, u, asRole, under, isActive)
        PROVE  ChangedByColleague(v)
    <3>1. v = u
      BY <2>2 DEF Update, Changed, AccessInv, TypeOK
    <3> QED BY <2>2, <3>1 DEF Update, Person, InScope, ChangedByColleague
  <2>3. ASSUME NEW s \in Sessions, NEW k \in Users, RevokeKey(s, k)
        PROVE  ChangedByColleague(v)
    <3>1. v = k
      BY <2>3 DEF RevokeKey, Changed, AccessInv, TypeOK
    <3>2. s.actor # k
      BY <2>3, ServedExists DEF RevokeKey, MANAGE_API_KEYS
    <3>3. Served(s, MANAGE_PEOPLE)
      BY <2>3 DEF RevokeKey, Served, MANAGE_API_KEYS, MANAGE_PEOPLE
    <3> QED BY <2>3, <3>1, <3>2, <3>3 DEF RevokeKey, ChangedByColleague
  <2>4. ASSUME NEW s \in Sessions, Wait(s) \/ Answer(s)
        PROVE  FALSE
    BY <2>4 DEF Wait, Answer, people, Changed
  <2> QED BY <2>1, <2>2, <2>3, <2>4 DEF Next, Serve, Register, Invite, CreateKey
<1>2. TenantIsolation <=> [][Isolated]_vars
  BY PTL DEF TenantIsolation
<1> QED BY <1>1, <1>2, SpecInv, PTL DEF Spec
=============================================================================

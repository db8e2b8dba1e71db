------------------------------- MODULE Access -------------------------------
(***************************************************************************)
(* Organizations, their people and their API keys: who may change whom.     *)
(* A request authenticates and is served with the role its user had at that *)
(* moment.  `waiting' holds the requests that others overtake meanwhile;    *)
(* the rest are served in the step that authenticates them.                 *)
(*                                                                          *)
(* An API key is named by the service user that backs it.  Of a user only   *)
(* identity, role, team and access are kept: a user may sign in as soon as  *)
(* it exists.                                                               *)
(***************************************************************************)
EXTENDS Naturals, FiniteSets

CONSTANTS
  Users,     \* the people and service users that may be created
  Orgs,      \* the organizations that may be registered
  NoOrg,     \* the organization of a user that does not exist
  NoUser,    \* no manager
  MaxWaiting \* bound: how many authenticated requests wait at a time

ASSUME NamesAssumption == NoUser \notin Users /\ NoOrg \notin Orgs
ASSUME MaxWaitingAssumption == MaxWaiting \in Nat

VARIABLES
  role,      \* users.role, "none" before the user is created
  org,       \* users.organization_id
  manager,   \* users.manager_id
  active,    \* the users with is_active
  keys,      \* the service users of all API keys
  revoked,   \* those whose key has a revoked_at
  waiting    \* the requests on the way: their users, with the role they had

people == <<role, org, manager, active, keys, revoked>>
vars == <<people, waiting>>

UserRole == {"owner", "admin", "manager", "operator"}
\* Bug: another owner may be invited.
InvitableOwner == {"owner", "admin", "manager", "operator"}
INVITABLE_ROLES == {"admin", "manager", "operator"}
WHOLE_ORG == {"owner", "admin"}
MANAGE_PEOPLE == {"owner", "admin", "manager"}
MANAGE_API_KEYS == {"owner"}

Sessions == [actor : Users, role : UserRole]

Exists(u) == u # NoUser /\ role[u] # "none"

TypeOK ==
  /\ role \in [Users -> UserRole \cup {"none"}]
  /\ org \in [Users -> Orgs \cup {NoOrg}]
  /\ manager \in [Users -> Users \cup {NoUser}]
  /\ active \subseteq Users
  /\ keys \subseteq Users
  /\ revoked \subseteq keys
  /\ waiting \subseteq Sessions

Init ==
  /\ role = [u \in Users |-> "none"]
  /\ org = [u \in Users |-> NoOrg]
  /\ manager = [u \in Users |-> NoUser]
  /\ active = {}
  /\ keys = {}
  /\ revoked = {}
  /\ waiting = {}
-----------------------------------------------------------------------------
\* users.create: an active user with a role in an organization, under a manager.
CreateUser(u, asRole, inOrg, under) ==
  /\ ~ Exists(u)
  /\ role' = [role EXCEPT ![u] = asRole]
  /\ org' = [org EXCEPT ![u] = inOrg]
  /\ manager' = [manager EXCEPT ![u] = under]
  /\ active' = active \cup {u}

\* AuthService.register: a new organization and its owner.
Register(u, o) ==
  /\ \A v \in Users : org[v] # o
  /\ CreateUser(u, "owner", o, NoUser)
  /\ UNCHANGED <<keys, revoked, waiting>>

\* get_current_user: by a token, or by an API key that is not revoked.
Authenticated(s) ==
  /\ s.actor \in active /\ s.actor \notin revoked
  /\ s.role = role[s.actor]

\* A request has authenticated and is overtaken by others.
Wait(s) ==
  /\ Cardinality(waiting) < MaxWaiting
  /\ Authenticated(s)
  /\ waiting' = waiting \cup {s}
  /\ UNCHANGED people

\* The request s, of a user with one of the roles, is served.
Served(s, roles) ==
  /\ s.role \in roles
  /\ \/ s \in waiting /\ waiting' = waiting \ {s}
     \/ Authenticated(s) /\ UNCHANGED waiting

\* Any other answer to a request that waited: a read, or a refusal.
Answer(s) ==
  /\ s \in waiting
  /\ waiting' = waiting \ {s}
  /\ UNCHANGED people

\* Bug: the scope leaves out the organization.
InScopeOfRole(s, u) ==
  /\ Exists(u)
  /\ \/ s.role \in WHOLE_ORG
     \/ u = s.actor
     \/ s.role = "manager" /\ manager[u] = s.actor

\* visible_operators of the user of s.
InScope(s, u) ==
  /\ Exists(u)
  /\ org[u] = org[s.actor]
  /\ \/ s.role \in WHOLE_ORG
     \/ u = s.actor
     \/ s.role = "manager" /\ manager[u] = s.actor

\* PeopleRepository.get_in_scope: service users are not people.
Person(s, u) == InScope(s, u) /\ u \notin keys

\* PeopleService.invite with _resolve_placement and _check_manager_exists.
Invite(s, u, asRole, under) ==
  /\ Served(s, MANAGE_PEOPLE)
  /\ asRole \in INVITABLE_ROLES
  /\ IF s.role \in WHOLE_ORG
     THEN under = NoUser \/ Person(s, under)
     ELSE asRole = "operator" /\ under = s.actor /\ Person(s, under)
  /\ CreateUser(u, asRole, org[s.actor], under)
  /\ UNCHANGED <<keys, revoked>>

\* PeopleService.update; a field the request leaves out keeps its value.
Update(s, u, asRole, under, isActive) ==
  /\ Served(s, MANAGE_PEOPLE)
  /\ Person(s, u)
  /\ u # s.actor
  /\ \/ asRole = role[u]
     \/ asRole \in INVITABLE_ROLES /\ s.role \in WHOLE_ORG
  /\ under = manager[u] \/ Person(s, under)
  /\ role' = [role EXCEPT ![u] = asRole]
  /\ manager' = [manager EXCEPT ![u] = under]
  /\ active' = IF isActive THEN active \cup {u} ELSE active \ {u}
  /\ UNCHANGED <<org, keys, revoked>>

\* ApiKeyService.create: the key and its service user, in one transaction.
CreateKey(s, u) ==
  /\ Served(s, MANAGE_API_KEYS)
  /\ CreateUser(u, "admin", org[s.actor], NoUser)
  /\ keys' = keys \cup {u}
  /\ UNCHANGED revoked

\* Bug: any user is taken for the key of a service user.
RevokeUser(s, k) ==
  /\ Served(s, MANAGE_API_KEYS)
  /\ org[k] = org[s.actor]
  /\ revoked' = revoked \cup {k}
  /\ active' = IF k \in revoked THEN active ELSE active \ {k}
  /\ UNCHANGED <<role, org, manager, keys>>

\* Bug: the service user stays active.
RevokeKeyOnly(s, k) ==
  /\ Served(s, MANAGE_API_KEYS)
  /\ k \in keys
  /\ org[k] = org[s.actor]
  /\ revoked' = revoked \cup {k}
  /\ UNCHANGED <<role, org, manager, active, keys>>

\* ApiKeyService.revoke deactivates the service user; a key that is revoked
\* already is left alone.
RevokeKey(s, k) ==
  /\ Served(s, MANAGE_API_KEYS)
  /\ k \in keys
  /\ org[k] = org[s.actor]
  /\ revoked' = revoked \cup {k}
  /\ active' = IF k \in revoked THEN active ELSE active \ {k}
  /\ UNCHANGED <<role, org, manager, keys>>
-----------------------------------------------------------------------------
\* What a request may do.
Serve(s) ==
  \/ Wait(s) \/ Answer(s)
  \/ \E u \in Users, under \in Users \cup {NoUser} :
       \/ \E asRole \in INVITABLE_ROLES : Invite(s, u, asRole, under)
       \/ \E asRole \in INVITABLE_ROLES \cup {role[u]}, isActive \in BOOLEAN :
            Update(s, u, asRole, under, isActive)
  \/ \E u \in Users : CreateKey(s, u) \/ RevokeKey(s, u)

Next ==
  \/ \E u \in Users, o \in Orgs : Register(u, o)
  \/ \E s \in Sessions : Serve(s)

Spec == Init /\ [][Next]_vars
-----------------------------------------------------------------------------
\* A manager is of the same organization as their team, whatever role the
\* requests that set the links were still served with.
OrgBoundary ==
  \A u \in Users : manager[u] # NoUser => org[manager[u]] = org[u]

\* A key works exactly until it is revoked: no way of changing people, not even
\* by a request of an owner, deactivates, reactivates or moves a service user.
KeysMatchUsers ==
  \A k \in keys :
    /\ role[k] = "admin" /\ manager[k] = NoUser
    /\ k \in active <=> k \notin revoked

\* Only registration makes an owner, so an organization never has a second one.
OneOwner ==
  \A u, v \in Users :
    role[u] = "owner" /\ role[v] = "owner" /\ org[u] = org[v] => u = v

Changed(u) ==
  \/ role'[u] # role[u] \/ org'[u] # org[u] \/ manager'[u] # manager[u]
  \/ (u \in active) # (u \in active')

\* The step serves somebody of u's organization, other than u, who manages
\* people; the request may have waited.
ChangedByColleague(u) ==
  \E s \in Sessions :
    /\ Served(s, MANAGE_PEOPLE)
    /\ s.actor # u
    /\ org'[u] = org[s.actor]

\* Nobody's role, team or access is changed from another organization, or by
\* themselves.
TenantIsolation ==
  [][\A u \in Users : Exists(u) /\ Changed(u) => ChangedByColleague(u)]_vars
=============================================================================

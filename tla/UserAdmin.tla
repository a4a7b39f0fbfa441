----------------------------- MODULE UserAdmin ------------------------------
(***************************************************************************)
(* Who administers whom: the first super admin, the users admins create,   *)
(* their roles, and whether they are active (service/auth.go, admin.go and *)
(* security.go).  An actor is an active user with a session; sessions,     *)
(* passwords and MFA, which only keep actors away, are in Credentials.     *)
(***************************************************************************)
EXTENDS FiniteSets

CONSTANTS
  Users,     \* user names, which are unique
  Colonies,
  Home,      \* the colony whose account a created user gets
  RoleSets   \* bound: the roles an admin may ask for

ASSUME AdminAssumption ==
  /\ RoleSets \subseteq SUBSET {"super_admin", "colony_admin", "relay_operator", "trader"}
  /\ {} \notin RoleSets
  /\ Home \in [Users -> Colonies]

VARIABLES
  users,         \* what is stored of each user
  bootstrapping, \* bootstrap requests that found no user, and now hash a password
  bootstrapped   \* the users a bootstrap created

vars == <<users, bootstrapping, bootstrapped>>

NoUser == [exists |-> FALSE]
User   == [exists : {TRUE}, active : BOOLEAN,
           roles : RoleSets \cup {{"super_admin"}, {"trader"}}, home : {"none"} \cup Colonies]

Exists(u)     == users[u] # NoUser
IsSuper(u)    == "super_admin" \in users[u].roles
NoUsers       == \A u \in Users : ~Exists(u)

\* actorFromToken: somebody with a session.
IsActor(u) == Exists(u) /\ users[u].active

CanManage(u, colony) ==
  \/ IsSuper(u)
  \/ users[u].home = colony /\ "colony_admin" \in users[u].roles

\* Mutant: everyone may administer themselves too.
AuthorizedAlsoSelf(actor, target) ==
  /\ IsActor(actor) /\ Exists(target)
  /\ IsSuper(target) => IsSuper(actor)
  /\ CanManage(actor, users[target].home)

\* authorizeUserAdmin
Authorized(actor, target) ==
  /\ IsActor(actor) /\ Exists(target)
  /\ actor # target
  /\ IsSuper(target) => IsSuper(actor)
  /\ CanManage(actor, users[target].home)

\* Mutant: no roles asked for, no roles given.
GivenAsAsked(asked) == asked

Given(asked) == IF asked = {} THEN {"trader"} ELSE asked

MayAssign(actor, roles) == "super_admin" \in roles => IsSuper(actor)

-----------------------------------------------------------------------------
Init ==
  /\ users = [u \in Users |-> NoUser]
  /\ bootstrapping = {}
  /\ bootstrapped = {}

\* Bootstrap, up to the hash: a cheap check that refuses most.
BeginBootstrap(u) ==
  /\ NoUsers
  /\ bootstrapping' = bootstrapping \cup {u}
  /\ UNCHANGED <<users, bootstrapped>>

\* Mutant: the check before the hash is enough.
BootstrapUnchecked(u) ==
  /\ u \in bootstrapping /\ ~Exists(u) \* the name is still unique
  /\ bootstrapping' = bootstrapping \ {u}
  /\ bootstrapped' = bootstrapped \cup {u}
  /\ users' = [users EXCEPT ![u] =
       [exists |-> TRUE, active |-> TRUE, roles |-> {"super_admin"}, home |-> "none"]]

\* Bootstrap, the transaction, under the advisory lock of that name.
Bootstrap(u) ==
  /\ u \in bootstrapping
  /\ bootstrapping' = bootstrapping \ {u}
  /\ NoUsers
  /\ bootstrapped' = bootstrapped \cup {u}
  /\ users' = [users EXCEPT ![u] =
       [exists |-> TRUE, active |-> TRUE, roles |-> {"super_admin"}, home |-> "none"]]

\* Bootstrap, when another one was first.
RefuseBootstrap(u) ==
  /\ u \in bootstrapping /\ ~NoUsers
  /\ bootstrapping' = bootstrapping \ {u}
  /\ UNCHANGED <<users, bootstrapped>>

\* The earlier check, before the hash, only refuses what this would refuse too.
CreateUser(actor, u, asked) ==
  /\ IsActor(actor) /\ ~Exists(u)
  /\ CanManage(actor, Home[u])
  /\ MayAssign(actor, Given(asked))
  /\ users' = [users EXCEPT ![u] =
       [exists |-> TRUE, active |-> TRUE, roles |-> Given(asked), home |-> Home[u]]]
  /\ UNCHANGED <<bootstrapping, bootstrapped>>

SetUserActive(actor, target, active) ==
  /\ Authorized(actor, target)
  /\ users[target].active # active
  /\ users' = [users EXCEPT ![target].active = active]
  /\ UNCHANGED <<bootstrapping, bootstrapped>>

SetUserRoles(actor, target, roles) ==
  /\ Authorized(actor, target)
  /\ MayAssign(actor, roles)
  /\ users' = [users EXCEPT ![target].roles = roles]
  /\ UNCHANGED <<bootstrapping, bootstrapped>>

Next ==
  \/ \E u \in Users : BeginBootstrap(u) \/ Bootstrap(u) \/ RefuseBootstrap(u)
  \/ \E actor, u \in Users :
       \/ \E asked \in RoleSets \cup {{}} : CreateUser(actor, u, asked)
       \/ \E roles \in RoleSets : SetUserRoles(actor, u, roles)
       \/ \E active \in BOOLEAN : SetUserActive(actor, u, active)

Spec == Init /\ [][Next]_vars

-----------------------------------------------------------------------------
\* The variables have their types.
TypeOK ==
  /\ users \in [Users -> User \cup {NoUser}]
  /\ bootstrapping \subseteq Users
  /\ bootstrapped \subseteq Users

(***************************************************************************)
(* Once there is a user there is an active super admin, whatever admins do *)
(* to one another (the comment on authorizeUserAdmin).                     *)
(***************************************************************************)
SuperAdminRemains ==
  NoUsers \/ \E u \in Users : IsActor(u) /\ IsSuper(u)

(***************************************************************************)
(* However many bootstrap requests found the platform empty, one of them   *)
(* makes a super admin; every other user was created by an admin.          *)
(***************************************************************************)
BootstrapOnce ==
  /\ \A u, v \in bootstrapped : u = v
  /\ bootstrapped = {} <=> NoUsers

=============================================================================

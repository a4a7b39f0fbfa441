-------------------------- MODULE UserAdminProofs ---------------------------
(***************************************************************************)
(* Once the platform is bootstrapped it keeps an active super admin, and   *)
(* it is bootstrapped once: for any users, colonies and roles.             *)
(***************************************************************************)
EXTENDS UserAdmin, TLAPS

Inv == TypeOK /\ SuperAdminRemains /\ BootstrapOnce

(***************************************************************************)
(* A user who administers another stays as they were, and so do all users  *)
(* but the one administered: if that one was a super admin, the actor is   *)
(* one too, and remains; if not, the super admin there was remains.        *)
(***************************************************************************)
LEMMA SomebodyElseRemains ==
  ASSUME TypeOK, SuperAdminRemains, ~NoUsers,
         NEW actor \in Users, NEW target \in Users, Authorized(actor, target)
  PROVE  \E u \in Users \ {target} : IsActor(u) /\ IsSuper(u)
<1>1. CASE IsSuper(target)
  BY <1>1 DEF Authorized
<1>2. CASE ~IsSuper(target)
  BY <1>2 DEF SuperAdminRemains
<1> QED
  BY <1>1, <1>2

\* Changing users one at a time, and none of them away, keeps NoUsers false.
LEMMA StillUsers ==
  ASSUME TypeOK, NEW target \in Users, Exists(target), NEW value \in User
  PROVE  /\ [users EXCEPT ![target] = value] \in [Users -> User \cup {NoUser}]
         /\ \A u \in Users : [users EXCEPT ![target] = value][u] # NoUser <=> Exists(u)
<1>1. value # NoUser
  BY DEF User, NoUser
<1> QED
  BY <1>1 DEF TypeOK, Exists

\* Every step of the administration keeps the invariant.
THEOREM AdminInvariant == Spec => []Inv
<1>1. Init => Inv
  BY AdminAssumption DEF Init, Inv, TypeOK, SuperAdminRemains, BootstrapOnce, NoUsers, Exists
<1>2. Inv /\ [Next]_vars => Inv'
  <2> SUFFICES ASSUME Inv, [Next]_vars
               PROVE  Inv'
    OBVIOUS
  <2> USE DEF Inv
  <2>1. ASSUME NEW u \in Users, BeginBootstrap(u)
        PROVE  Inv'
    BY <2>1 DEF BeginBootstrap, TypeOK, SuperAdminRemains, BootstrapOnce, NoUsers, Exists,
                IsActor, IsSuper
  <2>2. ASSUME NEW u \in Users, Bootstrap(u)
        PROVE  Inv'
    <3> DEFINE new == [exists |-> TRUE, active |-> TRUE, roles |-> {"super_admin"},
                       home |-> "none"]
    <3>1. /\ new \in User /\ new # NoUser
          /\ new.active /\ "super_admin" \in new.roles
      BY DEF User, NoUser
    <3>2. users' = [users EXCEPT ![u] = new] /\ users'[u] = new
      BY <2>2 DEF Bootstrap, TypeOK
    <3> HIDE DEF new
    <3>3. TypeOK'
      BY <2>2, <3>1, <3>2 DEF Bootstrap, TypeOK
    <3>4. SuperAdminRemains'
      BY <3>1, <3>2 DEF SuperAdminRemains, IsActor, IsSuper, Exists
    <3>5. BootstrapOnce'
      BY <2>2, <3>1, <3>2 DEF Bootstrap, BootstrapOnce, NoUsers, Exists
    <3> QED
      BY <3>3, <3>4, <3>5
  <2>3. ASSUME NEW u \in Users, RefuseBootstrap(u)
        PROVE  Inv'
    BY <2>3 DEF RefuseBootstrap, TypeOK, SuperAdminRemains, BootstrapOnce, NoUsers, Exists,
                IsActor, IsSuper
  <2>4. ASSUME NEW actor \in Users, NEW u \in Users, NEW asked \in RoleSets \cup {{}},
               CreateUser(actor, u, asked)
        PROVE  Inv'
    <3> DEFINE new == [exists |-> TRUE, active |-> TRUE, roles |-> Given(asked),
                       home |-> Home[u]]
    <3>1. new \in User /\ new # NoUser
      BY AdminAssumption DEF User, NoUser, Given
    <3>2. users' = [users EXCEPT ![u] = new]
      BY <2>4 DEF CreateUser
    <3> HIDE DEF new
    <3>3. TypeOK'
      BY <2>4, <3>1, <3>2 DEF CreateUser, TypeOK
    <3>4. ~NoUsers /\ ~NoUsers'
      BY <2>4, <3>1, <3>2 DEF CreateUser, IsActor, NoUsers, Exists, TypeOK
    <3>5. \A v \in Users : Exists(v) => users'[v] = users[v]
      BY <2>4, <3>2 DEF CreateUser, TypeOK
    <3>6. SuperAdminRemains'
      BY <3>4, <3>5 DEF SuperAdminRemains, IsActor, IsSuper, Exists
    <3>7. BootstrapOnce'
      BY <2>4, <3>4 DEF CreateUser, BootstrapOnce
    <3> QED
      BY <3>3, <3>6, <3>7
  <2>5. ASSUME NEW actor \in Users, NEW target \in Users, NEW value \in User,
               Authorized(actor, target), users' = [users EXCEPT ![target] = value],
               UNCHANGED <<bootstrapping, bootstrapped>>
        PROVE  Inv'
    <3>1. Exists(target)
      BY <2>5 DEF Authorized
    <3>2. TypeOK' /\ \A u \in Users : Exists(u)' <=> Exists(u)
      BY <2>5, <3>1, StillUsers DEF TypeOK, Exists
    <3>3. ~NoUsers /\ ~NoUsers'
      BY <3>1, <3>2 DEF NoUsers
    <3>4. \E u \in Users \ {target} : IsActor(u) /\ IsSuper(u)
      BY <2>5, <3>3, SomebodyElseRemains
    <3>5. SuperAdminRemains'
      BY <2>5, <3>4 DEF SuperAdminRemains, IsActor, IsSuper, Exists, TypeOK
    <3>6. BootstrapOnce'
      BY <2>5, <3>3 DEF BootstrapOnce
    <3> QED
      BY <3>2, <3>5, <3>6
  <2>6. ASSUME NEW actor \in Users, NEW target \in Users, NEW active \in BOOLEAN,
               SetUserActive(actor, target, active)
        PROVE  Inv'
    <3>1. users[target] \in User
      BY <2>6 DEF SetUserActive, Authorized, Exists, TypeOK
    <3> DEFINE value == [users[target] EXCEPT !.active = active]
    <3>2. value \in User
      BY <3>1 DEF User
    <3>3. users' = [users EXCEPT ![target] = value]
      BY <2>6 DEF SetUserActive
    <3> HIDE DEF value
    <3> QED
      BY <2>5, <2>6, <3>2, <3>3 DEF SetUserActive
  <2>7. ASSUME NEW actor \in Users, NEW target \in Users, NEW roles \in RoleSets,
               SetUserRoles(actor, target, roles)
        PROVE  Inv'
    <3>1. users[target] \in User
      BY <2>7 DEF SetUserRoles, Authorized, Exists, TypeOK
    <3> DEFINE value == [users[target] EXCEPT !.roles = roles]
    <3>2. value \in User
      BY <3>1 DEF User
    <3>3. users' = [users EXCEPT ![target] = value]
      BY <2>7 DEF SetUserRoles
    <3> HIDE DEF value
    <3> QED
      BY <2>5, <2>7, <3>2, <3>3 DEF SetUserRoles
  <2>8. CASE UNCHANGED vars
    BY <2>8 DEF vars, TypeOK, SuperAdminRemains, BootstrapOnce, NoUsers, Exists, IsActor, IsSuper
  <2> QED
    BY <2>1, <2>2, <2>3, <2>4, <2>6, <2>7, <2>8 DEF Next
<1> QED
  BY <1>1, <1>2, PTL DEF Spec

\* The variables keep their types.
THEOREM AdminTypeCorrect == Spec => []TypeOK
<1>1. Inv => TypeOK
  BY DEF Inv
<1> QED
  BY <1>1, AdminInvariant, PTL

\* No sequence of changes admins make to one another locks everybody out.
THEOREM SuperAdminAlwaysRemains == Spec => []SuperAdminRemains
<1>1. Inv => SuperAdminRemains
  BY DEF Inv
<1> QED
  BY <1>1, AdminInvariant, PTL

\* Racing bootstrap requests make one super admin between them.
THEOREM BootstrappedOnce == Spec => []BootstrapOnce
<1>1. Inv => BootstrapOnce
  BY DEF Inv
<1> QED
  BY <1>1, AdminInvariant, PTL

=============================================================================

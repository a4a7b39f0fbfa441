------------------------------- MODULE Supply -------------------------------
(***************************************************************************)
(* How money comes into being: admins mint, up to the cap of the colony,   *)
(* and set the cap; while a colony requires dual control both are only     *)
(* proposed, and another admin decides (service/approvals.go and           *)
(* service/admin.go).  One operation is one transaction of the store.      *)
(***************************************************************************)
EXTENDS Integers, FiniteSets, Money

CONSTANTS
  Colonies, Users, Admins,
  Home,              \* the colony of a user
  SuperAdmins,       \* the admins with the role super_admin
  Manages,           \* the colonies an admin has authority over
  ActionIds,         \* identifiers of pending actions
  Received,          \* what trades brought to each account before
  MintAmounts,       \* amounts an admin may ask for
  PolicyRequests,    \* policies a super admin may ask for
  PendingActionTTL,  \* lifetime of a proposal
  DefaultMintCap,    \* the cap of a colony that has set none
  MaxInt64,          \* largest amount a counter can hold
  MaxClock           \* bound: the clock stops here

\* A request may leave the cap (0, which is no legal cap) or the control alone.
PolicyRequest == [mintCap : Int, dualControl : {"keep", "on", "off"}]

ASSUME SupplyAssumption ==
  /\ IsFiniteSet(ActionIds) /\ IsFiniteSet(Users)
  /\ Home \in [Users -> Colonies]
  /\ SuperAdmins \subseteq Admins
  /\ Manages \in [Admins -> SUBSET Colonies]
  /\ \A admin \in SuperAdmins : Manages[admin] = Colonies
  /\ Received \in [Users -> 0..MaxInt64]
  /\ MintAmounts \subseteq Nat \ {0}
  /\ PolicyRequests \subseteq PolicyRequest
  /\ {PendingActionTTL, DefaultMintCap, MaxInt64, MaxClock} \subseteq Nat
  /\ DefaultMintCap \in 1..MaxInt64

VARIABLES
  colonies,  \* MintCap (0: none set), MintedTotal and RequireDualControl
  accounts,  \* balances
  actions,   \* pending actions
  direct,    \* the funds_minted entries without approved_by, added up
  clock      \* domain.NowFn

vars == <<colonies, accounts, actions, direct, clock>>

Colony == [mintCap : 0..DefaultMintCap, mintedTotal : 0..MaxInt64,
           requireDualControl : BOOLEAN]

\* What an action would do.
Proposable == [type : {"mint"}, user : Users, amount : MintAmounts]
                \cup [type : {"policy"}, request : PolicyRequests]

PendingAction == [status : {"pending", "approved", "rejected"}, colony : Colonies,
                  proposer : Admins, decider : SUBSET Admins, expiresAt : Nat,
                  what : Proposable]
NoAction      == [status |-> "none"]

-----------------------------------------------------------------------------
(***************************************************************************)
(* Policies and mints, as operators from the state of a colony.            *)
(***************************************************************************)
EffectiveMintCap(colony) == IF colony.mintCap > 0 THEN colony.mintCap ELSE DefaultMintCap

ValidPolicy(colony, request) ==
  \/ request.mintCap = 0
  \/ request.mintCap \in 1..DefaultMintCap /\ request.mintCap >= colony.mintedTotal

WithPolicy(colony, request) ==
  [colony EXCEPT
     !.mintCap = IF request.mintCap = 0 THEN @ ELSE request.mintCap,
     !.requireDualControl = IF request.dualControl = "keep" THEN @
                            ELSE request.dualControl = "on"]

\* Mutant: a sum is not checked.
FitsAlways(a, b) == a + b \in Nat

\* AddChecked succeeds.
Fits(a, b) == a + b <= MaxInt64

UnderCap(colony, amount) ==
  /\ Fits(colony.mintedTotal, amount)
  /\ colony.mintedTotal + amount <= EffectiveMintCap(colony)

Mintable(u, amount) ==
  /\ UnderCap(colonies[Home[u]], amount)
  /\ Fits(accounts[u], amount)

\* Mutant: the total is raised before the balance is found to overflow.
ApplyMintHalf(u, amount) ==
  /\ UnderCap(colonies[Home[u]], amount)
  /\ colonies' = [colonies EXCEPT ![Home[u]].mintedTotal = @ + amount]
  /\ accounts' = IF Fits(accounts[u], amount) THEN [accounts EXCEPT ![u] = @ + amount]
                  ELSE accounts

\* applyMint, once its checks have passed.
ApplyMint(u, amount) ==
  /\ Mintable(u, amount)
  /\ colonies' = [colonies EXCEPT ![Home[u]].mintedTotal = @ + amount]
  /\ accounts' = [accounts EXCEPT ![u] = @ + amount]

\* Mutant: the request was valid when it was proposed.
ApplyPolicyUnchecked(c, request) ==
  /\ colonies' = [colonies EXCEPT ![c] = WithPolicy(@, request)]
  /\ UNCHANGED accounts

\* applyPolicy, which validates the request against the colony as it is now.
ApplyPolicy(c, request) ==
  /\ ValidPolicy(colonies[c], request)
  /\ colonies' = [colonies EXCEPT ![c] = WithPolicy(@, request)]
  /\ UNCHANGED accounts

-----------------------------------------------------------------------------
(***************************************************************************)
(* The operations.  What one admin may do alone, and what is proposed.     *)
(***************************************************************************)
Init ==
  /\ colonies = [c \in Colonies |->
                   [mintCap |-> 0, mintedTotal |-> 0, requireDualControl |-> FALSE]]
  /\ accounts = Received
  /\ actions = [a \in ActionIds |-> NoAction]
  /\ direct = [c \in Colonies |-> 0]
  /\ clock = 0

Controlled(c) == colonies[c].requireDualControl

Mint(admin, u, amount) ==
  /\ Home[u] \in Manages[admin]
  /\ ~Controlled(Home[u])
  /\ ApplyMint(u, amount)
  /\ direct' = [direct EXCEPT ![Home[u]] = @ + amount]
  /\ UNCHANGED <<actions, clock>>

SetPolicy(admin, c, request) ==
  /\ admin \in SuperAdmins
  /\ ~Controlled(c)
  /\ ApplyPolicy(c, request)
  /\ UNCHANGED <<actions, direct, clock>>

NewPendingAction(a, admin, c, what) ==
  /\ actions[a] = NoAction
  /\ actions' = [actions EXCEPT ![a] =
       [status |-> "pending", colony |-> c, proposer |-> admin, decider |-> {},
        expiresAt |-> clock + PendingActionTTL, what |-> what]]
  /\ UNCHANGED <<colonies, accounts, direct, clock>>

ProposeMint(a, admin, u, amount) ==
  /\ Home[u] \in Manages[admin]
  /\ Controlled(Home[u])
  /\ UnderCap(colonies[Home[u]], amount)
  /\ NewPendingAction(a, admin, Home[u], [type |-> "mint", user |-> u, amount |-> amount])

ProposePolicy(a, admin, c, request) ==
  /\ admin \in SuperAdmins
  /\ Controlled(c)
  /\ ValidPolicy(colonies[c], request)
  /\ NewPendingAction(a, admin, c, [type |-> "policy", request |-> request])

-----------------------------------------------------------------------------
(***************************************************************************)
(* DecideApproval.                                                         *)
(***************************************************************************)
\* Mutant: the status is not looked at.
DecidableAgain(a, admin) ==
  /\ actions[a] # NoAction
  /\ actions[a].colony \in Manages[admin]
  /\ actions[a].proposer # admin
  /\ clock <= actions[a].expiresAt

\* Mutant: the proposer may decide too.
DecidableByProposer(a, admin) ==
  /\ actions[a] # NoAction
  /\ actions[a].colony \in Manages[admin]
  /\ actions[a].status = "pending"
  /\ clock <= actions[a].expiresAt

Decidable(a, admin) ==
  /\ actions[a] # NoAction
  /\ actions[a].colony \in Manages[admin]
  /\ actions[a].proposer # admin
  /\ actions[a].status = "pending"
  /\ clock <= actions[a].expiresAt

Decide(a, admin, outcome) ==
  /\ Decidable(a, admin)
  /\ actions' = [actions EXCEPT ![a].status = outcome, ![a].decider = {admin}]
  /\ UNCHANGED <<direct, clock>>

ApproveMint(a, admin) ==
  /\ Decide(a, admin, "approved")
  /\ actions[a].what.type = "mint"
  /\ ApplyMint(actions[a].what.user, actions[a].what.amount)

ApprovePolicy(a, admin) ==
  /\ Decide(a, admin, "approved")
  /\ actions[a].what.type = "policy"
  /\ ApplyPolicy(actions[a].colony, actions[a].what.request)

Reject(a, admin) ==
  /\ Decide(a, admin, "rejected")
  /\ UNCHANGED <<colonies, accounts>>

Tick ==
  /\ clock < MaxClock
  /\ clock' = clock + 1
  /\ UNCHANGED <<colonies, accounts, actions, direct>>

Next ==
  \/ \E admin \in Admins :
       \/ \E u \in Users, amount \in MintAmounts :
            \/ Mint(admin, u, amount)
            \/ \E a \in ActionIds : ProposeMint(a, admin, u, amount)
       \/ \E c \in Colonies, request \in PolicyRequests :
            \/ SetPolicy(admin, c, request)
            \/ \E a \in ActionIds : ProposePolicy(a, admin, c, request)
       \/ \E a \in ActionIds :
            \/ ApproveMint(a, admin)
            \/ ApprovePolicy(a, admin)
            \/ Reject(a, admin)
  \/ Tick

Spec == Init /\ [][Next]_vars

-----------------------------------------------------------------------------
\* The variables have their types, and no counter overflows.
TypeOK ==
  /\ colonies \in [Colonies -> Colony]
  /\ accounts \in [Users -> 0..MaxInt64]
  /\ actions \in [ActionIds -> PendingAction \cup {NoAction}]
  /\ direct \in [Colonies -> Nat]
  /\ clock \in Nat

(***************************************************************************)
(* Whatever is proposed, approved late and changed in between, no colony   *)
(* ever has minted more than its cap.                                      *)
(***************************************************************************)
CapHolds ==
  \A c \in Colonies : colonies[c].mintedTotal <= EffectiveMintCap(colonies[c])

(***************************************************************************)
(* A proposal to mint creates its amount once if it was approved, and      *)
(* nothing otherwise: what a colony minted is what admins minted alone,    *)
(* and the approved proposals.                                             *)
(***************************************************************************)
ApprovedMint(c, a) ==
  /\ actions[a] # NoAction
  /\ actions[a].status = "approved"
  /\ actions[a].what.type = "mint"
  /\ actions[a].colony = c

ApprovedAmounts(c) ==
  [a \in ActionIds |-> IF ApprovedMint(c, a) THEN actions[a].what.amount ELSE 0]

MintsAreBacked ==
  \A c \in Colonies : colonies[c].mintedTotal = direct[c] + Total(ApprovedAmounts(c))

(***************************************************************************)
(* The balances that grew by minting grew by what the colony says it       *)
(* minted.                                                                 *)
(***************************************************************************)
MintedTo(c) ==
  [u \in Users |-> IF Home[u] = c THEN accounts[u] - Received[u] ELSE 0]

MintsAreCredited ==
  \A c \in Colonies : colonies[c].mintedTotal = Total(MintedTo(c))

(***************************************************************************)
(* While a colony requires dual control, its supply, its cap and the       *)
(* control itself change only when an admin approves what another admin    *)
(* proposed, both with authority over the colony.                          *)
(***************************************************************************)
ApprovedByTwo(c) ==
  \E a \in ActionIds :
    /\ actions[a].status = "pending" /\ actions'[a].status = "approved"
    /\ actions'[a].colony = c
    /\ \E admin \in actions'[a].decider :
         /\ admin # actions[a].proposer
         /\ {admin, actions[a].proposer} \subseteq {x \in Admins : c \in Manages[x]}

ControlledByTwo ==
  [][\A c \in Colonies :
       (Controlled(c) /\ colonies'[c] # colonies[c]) => ApprovedByTwo(c)]_vars

=============================================================================

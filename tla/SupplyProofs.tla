---------------------------- MODULE SupplyProofs ----------------------------
(***************************************************************************)
(* The cap, the backing of what was minted, and dual control hold for any  *)
(* colonies, users, admins, caps and proposals.                            *)
(***************************************************************************)
EXTENDS Supply, MoneyTheorems, TLAPS

(***************************************************************************)
(* An action was proposed by an admin with authority over its colony, and  *)
(* a mint is for an account of that colony.                                *)
(***************************************************************************)
ProposalsFit ==
  \A a \in ActionIds :
    actions[a] # NoAction =>
      /\ actions[a].colony \in Manages[actions[a].proposer]
      /\ actions[a].what.type = "mint" => actions[a].colony = Home[actions[a].what.user]

\* Minting only adds to a balance.
BalancesGrow == \A u \in Users : accounts[u] >= Received[u]

IInv == /\ TypeOK /\ ProposalsFit /\ BalancesGrow
        /\ CapHolds /\ MintsAreBacked /\ MintsAreCredited

\* The two ways a colony and its accounts change.
Minted   == \E u \in Users, amount \in MintAmounts : ApplyMint(u, amount)
Reformed == \E c \in Colonies, request \in PolicyRequests : ApplyPolicy(c, request)

\* A record is not the record of a missing action.
LEMMA ProposalIsAction ==
  ASSUME NEW pa \in PendingAction
  PROVE  pa # NoAction
BY DEF PendingAction, NoAction

\* A proposed mint has an amount.
LEMMA AmountOfProposal ==
  ASSUME NEW pa \in PendingAction, pa.what.type = "mint"
  PROVE  pa.what.amount \in Nat
<1>1. pa.what \in Proposable
  BY DEF PendingAction
<1> QED  BY <1>1, SupplyAssumption DEF Proposable

\* What the action that is decided contains.
LEMMA DecidedWhat ==
  ASSUME TypeOK, NEW a \in ActionIds, actions[a] # NoAction
  PROVE  /\ actions[a] \in PendingAction
         /\ actions[a].colony \in Colonies /\ actions[a].proposer \in Admins
         /\ actions[a].what.type = "mint" =>
              actions[a].what.user \in Users /\ actions[a].what.amount \in MintAmounts
         /\ actions[a].what.type = "policy" => actions[a].what.request \in PolicyRequests
<1>1. actions[a] \in PendingAction
  BY DEF TypeOK
<1>2. actions[a].what \in Proposable
  BY <1>1 DEF PendingAction
<1> QED
  BY <1>1, <1>2 DEF PendingAction, Proposable

\* Every step of a colony and its accounts is a mint or a policy, or nothing.
LEMMA ColonySteps ==
  ASSUME TypeOK, [Next]_vars
  PROVE  Minted \/ Reformed \/ UNCHANGED <<colonies, accounts>>
<1>1. ASSUME NEW admin \in Admins, NEW u \in Users, NEW amount \in MintAmounts,
             Mint(admin, u, amount)
      PROVE  Minted
  BY <1>1 DEF Mint, Minted
<1>2. ASSUME NEW admin \in Admins, NEW c \in Colonies, NEW request \in PolicyRequests,
             SetPolicy(admin, c, request)
      PROVE  Reformed
  BY <1>2 DEF SetPolicy, Reformed
<1>3. ASSUME NEW admin \in Admins, NEW a \in ActionIds, ApproveMint(a, admin)
      PROVE  Minted
  BY <1>3, DecidedWhat DEF ApproveMint, Decide, Decidable, Minted
<1>4. ASSUME NEW admin \in Admins, NEW a \in ActionIds, ApprovePolicy(a, admin)
      PROVE  Reformed
  BY <1>4, DecidedWhat DEF ApprovePolicy, Decide, Decidable, Reformed
<1> QED
  BY <1>1, <1>2, <1>3, <1>4
  DEF Next, vars, ProposeMint, ProposePolicy, NewPendingAction, Reject, Tick

\* What a mint does to the colony and to the account, and to no other.
LEMMA MintedFields ==
  ASSUME TypeOK, NEW u \in Users, NEW amount \in MintAmounts, ApplyMint(u, amount)
  PROVE  /\ colonies' \in [Colonies -> Colony] /\ accounts' \in [Users -> 0..MaxInt64]
         /\ Home[u] \in Colonies
         /\ colonies'[Home[u]] =
              [colonies[Home[u]] EXCEPT !.mintedTotal = colonies[Home[u]].mintedTotal + amount]
         /\ \A c \in Colonies \ {Home[u]} : colonies'[c] = colonies[c]
         /\ accounts'[u] = accounts[u] + amount
         /\ \A x \in Users \ {u} : accounts'[x] = accounts[x]
         /\ colonies[Home[u]].mintedTotal + amount <= EffectiveMintCap(colonies[Home[u]])
<1> USE SupplyAssumption
<1>1. Home[u] \in Colonies /\ amount \in Nat /\ accounts[u] \in 0..MaxInt64
  BY DEF TypeOK
<1>2. colonies[Home[u]] \in Colony /\ colonies[Home[u]].mintedTotal \in 0..MaxInt64
  BY <1>1 DEF TypeOK, Colony
<1>3. colonies[Home[u]].mintedTotal + amount \in 0..MaxInt64
      /\ accounts[u] + amount \in 0..MaxInt64
  BY <1>1, <1>2 DEF ApplyMint, Mintable, UnderCap, Fits
<1>4. [colonies[Home[u]] EXCEPT !.mintedTotal = colonies[Home[u]].mintedTotal + amount]
        \in Colony
  BY <1>2, <1>3 DEF Colony
<1> QED
  BY <1>1, <1>3, <1>4 DEF TypeOK, ApplyMint, Mintable, UnderCap

\* What a policy does to a colony.
LEMMA ReformedFields ==
  ASSUME TypeOK, NEW c \in Colonies, NEW request \in PolicyRequests, ApplyPolicy(c, request)
  PROVE  /\ colonies' \in [Colonies -> Colony] /\ accounts' = accounts
         /\ colonies'[c].mintedTotal = colonies[c].mintedTotal
         /\ colonies'[c].mintCap = IF request.mintCap = 0 THEN colonies[c].mintCap
                                   ELSE request.mintCap
         /\ request.mintCap # 0 => /\ request.mintCap \in Nat /\ request.mintCap > 0
                                   /\ request.mintCap >= colonies[c].mintedTotal
         /\ \A x \in Colonies \ {c} : colonies'[x] = colonies[x]
<1> USE SupplyAssumption
<1>1. colonies[c] \in Colony
  BY DEF TypeOK
<1> DEFINE cap  == IF request.mintCap = 0 THEN colonies[c].mintCap ELSE request.mintCap
           dual == IF request.dualControl = "keep" THEN colonies[c].requireDualControl
                   ELSE request.dualControl = "on"
           next == [colonies[c] EXCEPT !.mintCap = cap, !.requireDualControl = dual]
<1>a. cap \in 0..DefaultMintCap
  BY <1>1 DEF Colony, ApplyPolicy, ValidPolicy
<1>b. dual \in BOOLEAN
  BY <1>1 DEF Colony
<1>c. WithPolicy(colonies[c], request) = next
  BY DEF WithPolicy
<1>d. next \in Colony /\ next.mintCap = cap /\ next.mintedTotal = colonies[c].mintedTotal
  <2> HIDE DEF cap, dual
  <2> QED  BY <1>1, <1>a, <1>b DEF Colony
<1> HIDE DEF next
<1>2. WithPolicy(colonies[c], request) \in Colony
  BY <1>c, <1>d
<1>3. colonies' = [colonies EXCEPT ![c] = WithPolicy(colonies[c], request)]
  BY DEF ApplyPolicy
<1>4. colonies'[c] = WithPolicy(colonies[c], request)
  BY <1>3 DEF TypeOK
<1>5. /\ WithPolicy(colonies[c], request).mintedTotal = colonies[c].mintedTotal
      /\ WithPolicy(colonies[c], request).mintCap =
           IF request.mintCap = 0 THEN colonies[c].mintCap ELSE request.mintCap
  BY <1>c, <1>d
<1>6. colonies \in [Colonies -> Colony] /\ accounts' = accounts
  BY DEF TypeOK, ApplyPolicy
<1>7. request.mintCap # 0 => /\ request.mintCap \in Nat /\ request.mintCap > 0
                             /\ request.mintCap >= colonies[c].mintedTotal
  BY DEF ApplyPolicy, ValidPolicy
<1>8. colonies' \in [Colonies -> Colony]
  BY <1>2, <1>3, <1>6
<1>9. \A x \in Colonies \ {c} : colonies'[x] = colonies[x]
  BY <1>3, <1>6
<1> QED
  BY <1>4, <1>5, <1>6, <1>7, <1>8, <1>9

-----------------------------------------------------------------------------
\* A proposal that is decided keeps all but its status and its decider.
LEMMA DecideFields ==
  ASSUME TypeOK, NEW a \in ActionIds, NEW admin \in Admins,
         NEW outcome \in {"approved", "rejected"}, Decide(a, admin, outcome)
  PROVE  /\ actions' \in [ActionIds -> PendingAction \cup {NoAction}]
         /\ actions'[a] \in PendingAction
         /\ actions'[a].status = outcome /\ actions'[a].decider = {admin}
         /\ actions'[a].colony = actions[a].colony
         /\ actions'[a].proposer = actions[a].proposer
         /\ actions'[a].what = actions[a].what
         /\ \A b \in ActionIds \ {a} : actions'[b] = actions[b]
<1>1. actions[a] \in PendingAction
  BY DecidedWhat DEF Decide, Decidable
<1> DEFINE next == [actions[a] EXCEPT !.status = outcome, !.decider = {admin}]
<1>2. /\ next \in PendingAction
      /\ next.status = outcome /\ next.decider = {admin}
      /\ next.colony = actions[a].colony /\ next.proposer = actions[a].proposer
      /\ next.what = actions[a].what
  BY <1>1 DEF PendingAction
<1>3. actions' = [actions EXCEPT ![a] = next]
  BY DEF Decide
<1> HIDE DEF next
<1> QED
  BY <1>2, <1>3 DEF TypeOK

\* A new proposal.
LEMMA ProposalFields ==
  ASSUME TypeOK, NEW a \in ActionIds, NEW admin \in Admins, NEW c \in Colonies,
         NEW what \in Proposable, NewPendingAction(a, admin, c, what)
  PROVE  /\ actions' \in [ActionIds -> PendingAction \cup {NoAction}]
         /\ actions'[a].status = "pending" /\ actions'[a].colony = c
         /\ actions'[a].proposer = admin /\ actions'[a].what = what
         /\ \A b \in ActionIds \ {a} : actions'[b] = actions[b]
<1> DEFINE new == [status |-> "pending", colony |-> c, proposer |-> admin, decider |-> {},
                   expiresAt |-> clock + PendingActionTTL, what |-> what]
<1>1. new \in PendingAction
  BY SupplyAssumption DEF PendingAction, TypeOK
<1>2. new.status = "pending" /\ new.colony = c /\ new.proposer = admin /\ new.what = what
  OBVIOUS
<1>3. actions' = [actions EXCEPT ![a] = new]
  BY DEF NewPendingAction
<1> HIDE DEF new
<1> QED
  BY <1>1, <1>2, <1>3 DEF TypeOK

\* What an admin proposes is a mint or a policy.
LEMMA Proposals ==
  /\ \A u \in Users, amount \in MintAmounts :
       [type |-> "mint", user |-> u, amount |-> amount] \in Proposable
  /\ \A request \in PolicyRequests : [type |-> "policy", request |-> request] \in Proposable
BY DEF Proposable

-----------------------------------------------------------------------------
\* Every step keeps the types.
LEMMA TypeStep ==
  ASSUME TypeOK, [Next]_vars
  PROVE  TypeOK'
<1> USE SupplyAssumption
<1>1. colonies' \in [Colonies -> Colony] /\ accounts' \in [Users -> 0..MaxInt64]
  <2>1. CASE Minted
    BY <2>1, MintedFields DEF Minted
  <2>2. CASE Reformed
    BY <2>2, ReformedFields DEF Reformed, TypeOK
  <2>3. CASE UNCHANGED <<colonies, accounts>>
    BY <2>3 DEF TypeOK
  <2> QED  BY <2>1, <2>2, <2>3, ColonySteps
<1>2. actions' \in [ActionIds -> PendingAction \cup {NoAction}]
  <2>1. ASSUME NEW a \in ActionIds, NEW admin \in Admins,
               Decide(a, admin, "approved") \/ Decide(a, admin, "rejected")
        PROVE  actions' \in [ActionIds -> PendingAction \cup {NoAction}]
    BY <2>1, DecideFields
  <2>2. ASSUME NEW a \in ActionIds, NEW admin \in Admins, NEW c \in Colonies,
               NEW what \in Proposable, NewPendingAction(a, admin, c, what)
        PROVE  actions' \in [ActionIds -> PendingAction \cup {NoAction}]
    BY <2>2, ProposalFields
  <2>3. CASE UNCHANGED actions
    BY <2>3 DEF TypeOK
  <2>4. \A u \in Users : Home[u] \in Colonies
    OBVIOUS
  <2> QED
    BY <2>1, <2>2, <2>3, <2>4, Proposals
    DEF Next, vars, Mint, SetPolicy, ProposeMint, ProposePolicy, ApproveMint,
        ApprovePolicy, Reject, Tick
<1>3. direct' \in [Colonies -> Nat]
  <2>1. ASSUME NEW admin \in Admins, NEW u \in Users, NEW amount \in MintAmounts,
               Mint(admin, u, amount)
        PROVE  direct' \in [Colonies -> Nat]
    <3>1. direct[Home[u]] + amount \in Nat /\ direct' = [direct EXCEPT ![Home[u]] = direct[Home[u]] + amount]
      BY <2>1 DEF TypeOK, Mint
    <3> QED  BY <3>1 DEF TypeOK
  <2> QED
    BY <2>1
    DEF TypeOK, Next, vars, SetPolicy, ProposeMint, ProposePolicy, NewPendingAction,
        ApproveMint, ApprovePolicy, Reject, Decide, Tick
<1>4. clock' \in Nat
  <2>1. clock' = clock \/ Tick
    BY DEF Next, vars, Mint, SetPolicy, ProposeMint, ProposePolicy, NewPendingAction,
           ApproveMint, ApprovePolicy, Reject, Decide
  <2> QED  BY <2>1 DEF TypeOK, Tick
<1> QED
  BY <1>1, <1>2, <1>3, <1>4 DEF TypeOK

\* Every step keeps the cap: a mint checks it, and a policy is checked again
\* against what was minted when it is applied.
LEMMA CapStep ==
  ASSUME TypeOK, CapHolds, [Next]_vars
  PROVE  CapHolds'
<1> USE SupplyAssumption
<1> SUFFICES ASSUME NEW c \in Colonies
             PROVE  colonies'[c].mintedTotal <= EffectiveMintCap(colonies'[c])
  BY DEF CapHolds
<1>1. colonies[c] \in Colony /\ colonies[c].mintedTotal <= EffectiveMintCap(colonies[c])
  BY DEF TypeOK, CapHolds
<1>2. ASSUME NEW u \in Users, NEW amount \in MintAmounts, ApplyMint(u, amount)
      PROVE  colonies'[c].mintedTotal <= EffectiveMintCap(colonies'[c])
  <2>1. CASE c = Home[u]
    <3>1. colonies'[c] = [colonies[c] EXCEPT !.mintedTotal = colonies[c].mintedTotal + amount]
      BY <1>2, <2>1, MintedFields
    <3>a. colonies'[c].mintedTotal = colonies[c].mintedTotal + amount
          /\ colonies'[c].mintCap = colonies[c].mintCap
      BY <1>1, <3>1 DEF Colony
    <3>2. colonies[c].mintedTotal + amount <= EffectiveMintCap(colonies[c])
      BY <1>2, <2>1, MintedFields
    <3> QED  BY <3>a, <3>2 DEF EffectiveMintCap
  <2>2. CASE c # Home[u]
    BY <1>1, <1>2, <2>2, MintedFields
  <2> QED  BY <2>1, <2>2
<1>3. ASSUME NEW d \in Colonies, NEW request \in PolicyRequests, ApplyPolicy(d, request)
      PROVE  colonies'[c].mintedTotal <= EffectiveMintCap(colonies'[c])
  <2>1. CASE c = d
    BY <1>1, <1>3, <2>1, ReformedFields DEF EffectiveMintCap, Colony
  <2>2. CASE c # d
    BY <1>1, <1>3, <2>2, ReformedFields
  <2> QED  BY <2>1, <2>2
<1> QED
  BY <1>1, <1>2, <1>3, ColonySteps DEF Minted, Reformed

\* Every step keeps what is known of proposals.
LEMMA FitStep ==
  ASSUME TypeOK, ProposalsFit, [Next]_vars
  PROVE  ProposalsFit'
<1> USE SupplyAssumption
<1>1. ASSUME NEW a \in ActionIds, NEW admin \in Admins,
             Decide(a, admin, "approved") \/ Decide(a, admin, "rejected")
      PROVE  ProposalsFit'
  BY <1>1, DecideFields DEF ProposalsFit, Decide, Decidable
<1>2. ASSUME NEW a \in ActionIds, NEW admin \in Admins, NEW c \in Colonies,
             NEW what \in Proposable, NewPendingAction(a, admin, c, what),
             c \in Manages[admin], what.type = "mint" => c = Home[what.user]
      PROVE  ProposalsFit'
  BY <1>2, ProposalFields DEF ProposalsFit
<1>3. ASSUME NEW a \in ActionIds, NEW admin \in Admins, NEW u \in Users,
             NEW amount \in MintAmounts, ProposeMint(a, admin, u, amount)
      PROVE  ProposalsFit'
  BY <1>2, <1>3, Proposals DEF ProposeMint
<1>4. ASSUME NEW a \in ActionIds, NEW admin \in Admins, NEW c \in Colonies,
             NEW request \in PolicyRequests, ProposePolicy(a, admin, c, request)
      PROVE  ProposalsFit'
  BY <1>2, <1>4, Proposals DEF ProposePolicy
<1>5. CASE UNCHANGED actions
  BY <1>5 DEF ProposalsFit
<1> QED
  BY <1>1, <1>3, <1>4, <1>5
  DEF Next, vars, Mint, SetPolicy, ApproveMint, ApprovePolicy, Reject, Tick

-----------------------------------------------------------------------------
\* Every step keeps the balances at or above what trades brought.
LEMMA GrowStep ==
  ASSUME TypeOK, BalancesGrow, [Next]_vars
  PROVE  BalancesGrow'
<1> SUFFICES ASSUME NEW x \in Users
             PROVE  accounts'[x] >= Received[x]
  BY DEF BalancesGrow
<1>1. /\ accounts[x] >= Received[x] /\ accounts[x] \in Int /\ Received[x] \in Int
  BY SupplyAssumption DEF BalancesGrow, TypeOK
<1>2. ASSUME NEW u \in Users, NEW amount \in MintAmounts, ApplyMint(u, amount)
      PROVE  accounts'[x] >= Received[x]
  <2>1. amount \in Nat
    BY SupplyAssumption
  <2>2. accounts'[x] = accounts[x] \/ accounts'[x] = accounts[x] + amount
    BY <1>2, MintedFields
  <2> QED  BY <1>1, <2>1, <2>2
<1> QED
  BY <1>1, <1>2, ColonySteps, ReformedFields DEF Minted, Reformed

\* Every step keeps the balances in line with what was minted.
LEMMA CreditStep ==
  ASSUME TypeOK, BalancesGrow, MintsAreCredited, [Next]_vars
  PROVE  MintsAreCredited'
<1> USE SupplyAssumption
<1> SUFFICES ASSUME NEW c \in Colonies
             PROVE  colonies'[c].mintedTotal = Total(MintedTo(c)')
  BY DEF MintsAreCredited
<1>1. colonies[c].mintedTotal = Total(MintedTo(c)) /\ colonies[c] \in Colony
  BY DEF MintsAreCredited, TypeOK
<1>2. BalancesGrow'
  BY GrowStep
<1>3. TypeOK'
  BY TypeStep
<1>4. MintedTo(c) \in [Users -> Nat]
  <2>1. \A x \in Users : accounts[x] - Received[x] \in Nat
    BY DEF TypeOK, BalancesGrow
  <2> QED  BY <2>1 DEF MintedTo
<1>5. MintedTo(c)' \in [Users -> Nat]
  <2>1. \A x \in Users : accounts'[x] - Received[x] \in Nat
    BY <1>2, <1>3 DEF TypeOK, BalancesGrow
  <2> QED  BY <2>1 DEF MintedTo
<1>6. ASSUME NEW u \in Users, NEW amount \in MintAmounts, ApplyMint(u, amount)
      PROVE  colonies'[c].mintedTotal = Total(MintedTo(c)')
  <2>1. CASE c = Home[u]
    <3>1. colonies'[c] = [colonies[c] EXCEPT !.mintedTotal = colonies[c].mintedTotal + amount]
      BY <1>6, <2>1, MintedFields
    <3>2. colonies'[c].mintedTotal = colonies[c].mintedTotal + amount
      BY <1>1, <3>1 DEF Colony
    <3>3. \A x \in Users \ {u} : MintedTo(c)'[x] = MintedTo(c)[x]
      BY <1>6, MintedFields DEF MintedTo
    <3>4. MintedTo(c)'[u] = MintedTo(c)[u] + amount
      <4>1. accounts'[u] = accounts[u] + amount
        BY <1>6, MintedFields
      <4>2. accounts[u] \in Int /\ Received[u] \in Int /\ amount \in Int
        BY DEF TypeOK
      <4>3. MintedTo(c)[u] = accounts[u] - Received[u]
            /\ MintedTo(c)'[u] = accounts'[u] - Received[u]
        BY <2>1 DEF MintedTo
      <4> QED  BY <4>1, <4>2, <4>3
    <3>5. Total(MintedTo(c)') = Total(MintedTo(c)) - MintedTo(c)[u] + MintedTo(c)'[u]
      BY <1>4, <1>5, <3>3, TotalChange
    <3>6. Total(MintedTo(c)) \in Nat /\ MintedTo(c)[u] \in Nat /\ amount \in Nat
      BY <1>4, UnitsFinite
    <3> QED  BY <1>1, <3>2, <3>4, <3>5, <3>6
  <2>2. CASE c # Home[u]
    <3>1. MintedTo(c)' = MintedTo(c)
      BY <1>6, <2>2, MintedFields DEF MintedTo
    <3> QED  BY <1>1, <1>6, <2>2, <3>1, MintedFields
  <2> QED  BY <2>1, <2>2
<1>7. ASSUME NEW d \in Colonies, NEW request \in PolicyRequests, ApplyPolicy(d, request)
      PROVE  colonies'[c].mintedTotal = Total(MintedTo(c)')
  <2>1. MintedTo(c)' = MintedTo(c)
    BY <1>7, ReformedFields DEF MintedTo
  <2>2. colonies'[c].mintedTotal = colonies[c].mintedTotal
    BY <1>7, ReformedFields
  <2> QED  BY <1>1, <2>1, <2>2
<1>8. CASE UNCHANGED <<colonies, accounts>>
  BY <1>1, <1>8 DEF MintedTo
<1> QED
  BY <1>6, <1>7, <1>8, ColonySteps DEF Minted, Reformed

-----------------------------------------------------------------------------
\* The approved amounts are amounts.
LEMMA ApprovedAmountsType ==
  ASSUME TypeOK, NEW c \in Colonies
  PROVE  ApprovedAmounts(c) \in [ActionIds -> Nat]
<1>1. \A a \in ActionIds : ApprovedMint(c, a) => actions[a].what.amount \in Nat
  BY DecidedWhat, SupplyAssumption DEF ApprovedMint
<1> QED  BY <1>1 DEF ApprovedAmounts

\* Every step keeps the supply backed by what was minted alone or approved.
LEMMA BackedStep ==
  ASSUME TypeOK, ProposalsFit, MintsAreBacked, [Next]_vars
  PROVE  MintsAreBacked'
<1> USE SupplyAssumption
<1> SUFFICES ASSUME NEW c \in Colonies
             PROVE  colonies'[c].mintedTotal = direct'[c] + Total(ApprovedAmounts(c)')
  BY DEF MintsAreBacked
<1>1. /\ colonies[c].mintedTotal = direct[c] + Total(ApprovedAmounts(c))
      /\ colonies[c] \in Colony /\ direct[c] \in Nat
  BY DEF MintsAreBacked, TypeOK
<1>2. TypeOK'
  BY TypeStep
<1>3. ApprovedAmounts(c) \in [ActionIds -> Nat] /\ Total(ApprovedAmounts(c)) \in Nat
  BY ApprovedAmountsType, UnitsFinite
<1>4. ApprovedAmounts(c)' \in [ActionIds -> Nat]
  <2>1. \A a \in ActionIds : actions'[a] \in PendingAction \cup {NoAction}
    BY <1>2 DEF TypeOK
  <2>2. \A a \in ActionIds : ApprovedMint(c, a)' => actions'[a].what.amount \in Nat
    BY <2>1, AmountOfProposal DEF ApprovedMint
  <2> QED  BY <2>2 DEF ApprovedAmounts
<1>5. ASSUME NEW u \in Users, NEW amount \in MintAmounts, ApplyMint(u, amount)
      PROVE  colonies'[c].mintedTotal =
               IF c = Home[u] THEN colonies[c].mintedTotal + amount
               ELSE colonies[c].mintedTotal
  <2>1. CASE c = Home[u]
    <3>1. colonies'[c] = [colonies[c] EXCEPT !.mintedTotal = colonies[c].mintedTotal + amount]
      BY <1>5, <2>1, MintedFields
    <3> QED  BY <1>1, <2>1, <3>1 DEF Colony
  <2>2. CASE c # Home[u]
    BY <1>5, <2>2, MintedFields
  <2> QED  BY <2>1, <2>2
<1>6. ASSUME NEW admin \in Admins, NEW u \in Users, NEW amount \in MintAmounts,
             Mint(admin, u, amount)
      PROVE  colonies'[c].mintedTotal = direct'[c] + Total(ApprovedAmounts(c)')
  <2>1. ApprovedAmounts(c)' = ApprovedAmounts(c)
    BY <1>6 DEF Mint, ApprovedAmounts, ApprovedMint
  <2>2. direct'[c] = IF c = Home[u] THEN direct[c] + amount ELSE direct[c]
    BY <1>6 DEF Mint, TypeOK
  <2>3. ApplyMint(u, amount) /\ amount \in Nat
    BY <1>6 DEF Mint
  <2>4. colonies'[c].mintedTotal = IF c = Home[u] THEN colonies[c].mintedTotal + amount
                                   ELSE colonies[c].mintedTotal
    BY <1>5, <2>3
  <2> QED  BY <1>1, <1>3, <2>1, <2>2, <2>3, <2>4
<1>7. ASSUME NEW a \in ActionIds, NEW admin \in Admins, ApproveMint(a, admin)
      PROVE  colonies'[c].mintedTotal = direct'[c] + Total(ApprovedAmounts(c)')
  <2> DEFINE u == actions[a].what.user
             amount == actions[a].what.amount
  <2>1. /\ Decide(a, admin, "approved") /\ ApplyMint(u, amount)
        /\ actions[a].what.type = "mint" /\ actions[a] # NoAction
        /\ actions[a].status = "pending" /\ direct' = direct
    BY <1>7 DEF ApproveMint, Decide, Decidable
  <2>2. u \in Users /\ amount \in MintAmounts /\ amount \in Nat
    BY <2>1, DecidedWhat
  <2>3. actions[a].colony = Home[u]
    BY <2>1 DEF ProposalsFit
  <2>4. \A b \in ActionIds \ {a} : ApprovedAmounts(c)'[b] = ApprovedAmounts(c)[b]
    BY <2>1, DecideFields DEF ApprovedAmounts, ApprovedMint
  <2>5. ApprovedAmounts(c)[a] = 0
    BY <2>1 DEF ApprovedAmounts, ApprovedMint
  <2>6. ApprovedAmounts(c)'[a] = IF c = Home[u] THEN amount ELSE 0
    <3>1. /\ actions'[a] # NoAction /\ actions'[a].status = "approved"
          /\ actions'[a].what = actions[a].what /\ actions'[a].colony = actions[a].colony
      BY <2>1, DecideFields, ProposalIsAction
    <3> QED  BY <2>1, <2>3, <3>1 DEF ApprovedAmounts, ApprovedMint
  <2>7. Total(ApprovedAmounts(c)') =
          Total(ApprovedAmounts(c)) - ApprovedAmounts(c)[a] + ApprovedAmounts(c)'[a]
    BY <1>3, <1>4, <2>4, TotalChange
  <2>8. colonies'[c].mintedTotal = IF c = Home[u] THEN colonies[c].mintedTotal + amount
                                   ELSE colonies[c].mintedTotal
    BY <1>5, <2>1, <2>2
  <2> HIDE DEF u, amount
  <2> QED  BY <1>1, <1>3, <2>1, <2>2, <2>5, <2>6, <2>7, <2>8
<1>8. ASSUME UNCHANGED direct, colonies'[c].mintedTotal = colonies[c].mintedTotal,
             \A a \in ActionIds : ApprovedMint(c, a)' = ApprovedMint(c, a),
             \A a \in ActionIds : ApprovedMint(c, a) => actions'[a] = actions[a]
      PROVE  colonies'[c].mintedTotal = direct'[c] + Total(ApprovedAmounts(c)')
  <2>1. ApprovedAmounts(c)' = ApprovedAmounts(c)
    BY <1>8 DEF ApprovedAmounts
  <2> QED  BY <1>1, <1>8, <2>1
<1>9. ASSUME NEW d \in Colonies, NEW request \in PolicyRequests, ApplyPolicy(d, request)
      PROVE  colonies'[c].mintedTotal = colonies[c].mintedTotal
  BY <1>9, ReformedFields
<1>10. ASSUME NEW a \in ActionIds, NEW admin \in Admins,
              NEW outcome \in {"approved", "rejected"}, Decide(a, admin, outcome),
              outcome = "rejected" \/ actions[a].what.type # "mint",
              colonies'[c].mintedTotal = colonies[c].mintedTotal
       PROVE  colonies'[c].mintedTotal = direct'[c] + Total(ApprovedAmounts(c)')
  <2>1. \A b \in ActionIds : ApprovedMint(c, b)' = ApprovedMint(c, b)
    <3>1. ~ApprovedMint(c, a) /\ ~ApprovedMint(c, a)'
      BY <1>10, DecideFields DEF ApprovedMint, Decide, Decidable
    <3> QED  BY <1>10, <3>1, DecideFields DEF ApprovedMint
  <2>2. \A b \in ActionIds : ApprovedMint(c, b) => actions'[b] = actions[b]
    BY <1>10, DecideFields DEF ApprovedMint, Decide, Decidable
  <2>3. UNCHANGED direct
    BY <1>10 DEF Decide
  <2> QED  BY <1>8, <1>10, <2>1, <2>2, <2>3
<1>11. ASSUME NEW a \in ActionIds, NEW admin \in Admins, NEW d \in Colonies,
              NEW what \in Proposable, NewPendingAction(a, admin, d, what)
       PROVE  colonies'[c].mintedTotal = direct'[c] + Total(ApprovedAmounts(c)')
  <2>1. \A b \in ActionIds : ApprovedMint(c, b)' = ApprovedMint(c, b)
    <3>1. ~ApprovedMint(c, a) /\ ~ApprovedMint(c, a)'
      BY <1>11, ProposalFields DEF ApprovedMint, NewPendingAction
    <3> QED  BY <1>11, <3>1, ProposalFields DEF ApprovedMint
  <2>2. \A b \in ActionIds : ApprovedMint(c, b) => actions'[b] = actions[b]
    BY <1>11, ProposalFields DEF ApprovedMint, NewPendingAction
  <2>3. UNCHANGED <<direct, colonies>>
    BY <1>11 DEF NewPendingAction
  <2> QED  BY <1>8, <2>1, <2>2, <2>3
<1>12. CASE \E admin \in Admins, d \in Colonies, request \in PolicyRequests :
              SetPolicy(admin, d, request)
  <2>1. UNCHANGED <<direct, actions>>
    BY <1>12 DEF SetPolicy
  <2>2. colonies'[c].mintedTotal = colonies[c].mintedTotal
    BY <1>9, <1>12 DEF SetPolicy
  <2> QED  BY <1>8, <2>1, <2>2 DEF ApprovedMint
<1>13. CASE Tick \/ UNCHANGED vars
  <2>1. UNCHANGED <<direct, actions, colonies>>
    BY <1>13 DEF Tick, vars
  <2> QED  BY <1>8, <2>1 DEF ApprovedMint
<1>14. CASE \E a \in ActionIds, admin \in Admins : ApprovePolicy(a, admin)
  <2>1. PICK a \in ActionIds, admin \in Admins : ApprovePolicy(a, admin)
    BY <1>14
  <2>2. /\ Decide(a, admin, "approved") /\ actions[a].what.type # "mint"
        /\ ApplyPolicy(actions[a].colony, actions[a].what.request)
        /\ actions[a].colony \in Colonies /\ actions[a].what.request \in PolicyRequests
    BY <2>1, DecidedWhat DEF ApprovePolicy, Decide, Decidable
  <2>3. colonies'[c].mintedTotal = colonies[c].mintedTotal
    BY <1>9, <2>2
  <2> QED  BY <1>10, <2>2, <2>3
<1>15. CASE \E a \in ActionIds, admin \in Admins : Reject(a, admin)
  <2>1. PICK a \in ActionIds, admin \in Admins : Reject(a, admin)
    BY <1>15
  <2>2. Decide(a, admin, "rejected") /\ colonies' = colonies
    BY <2>1 DEF Reject
  <2> QED  BY <1>10, <2>2
<1>16. CASE \E a \in ActionIds, admin \in Admins, u \in Users, amount \in MintAmounts :
              ProposeMint(a, admin, u, amount)
  BY <1>11, <1>16, Proposals DEF ProposeMint
<1>17. CASE \E a \in ActionIds, admin \in Admins, d \in Colonies, request \in PolicyRequests :
              ProposePolicy(a, admin, d, request)
  BY <1>11, <1>17, Proposals DEF ProposePolicy
<1> QED
  BY <1>6, <1>7, <1>12, <1>13, <1>14, <1>15, <1>16, <1>17 DEF Next

\* A controlled colony changes only by an approval, of what another proposed.
LEMMA ControlStep ==
  ASSUME TypeOK, ProposalsFit, [Next]_vars, NEW c \in Colonies, Controlled(c),
         colonies'[c] # colonies[c]
  PROVE  ApprovedByTwo(c)
<1> USE SupplyAssumption
<1>1. ASSUME NEW a \in ActionIds, NEW admin \in Admins, Decide(a, admin, "approved"),
             actions[a].colony = c
      PROVE  ApprovedByTwo(c)
  <2>1. /\ actions[a] # NoAction /\ c \in Manages[admin]
        /\ actions[a].proposer # admin /\ actions[a].status = "pending"
    BY <1>1 DEF Decide, Decidable
  <2>2. c \in Manages[actions[a].proposer] /\ actions[a].proposer \in Admins
    BY <1>1, <2>1, DecidedWhat DEF ProposalsFit
  <2>3. /\ actions'[a].status = "approved" /\ actions'[a].decider = {admin}
        /\ actions'[a].colony = c
    BY <1>1, DecideFields
  <2> QED  BY <2>1, <2>2, <2>3 DEF ApprovedByTwo
<1>2. ASSUME NEW admin \in Admins, NEW u \in Users, NEW amount \in MintAmounts,
             Mint(admin, u, amount)
      PROVE  FALSE
  BY <1>2, MintedFields DEF Mint
<1>3. ASSUME NEW admin \in Admins, NEW d \in Colonies, NEW request \in PolicyRequests,
             SetPolicy(admin, d, request)
      PROVE  FALSE
  BY <1>3, ReformedFields DEF SetPolicy
<1>4. ASSUME NEW admin \in Admins, NEW a \in ActionIds, ApproveMint(a, admin)
      PROVE  ApprovedByTwo(c)
  <2>1. /\ Decide(a, admin, "approved") /\ actions[a] # NoAction
        /\ actions[a].what.type = "mint"
        /\ ApplyMint(actions[a].what.user, actions[a].what.amount)
    BY <1>4 DEF ApproveMint, Decide, Decidable
  <2>2. actions[a].what.user \in Users /\ actions[a].what.amount \in MintAmounts
    BY <2>1, DecidedWhat
  <2>3. actions[a].colony = c
    BY <2>1, <2>2, MintedFields DEF ProposalsFit
  <2> QED  BY <1>1, <2>1, <2>3
<1>5. ASSUME NEW admin \in Admins, NEW a \in ActionIds, ApprovePolicy(a, admin)
      PROVE  ApprovedByTwo(c)
  <2>1. /\ Decide(a, admin, "approved") /\ actions[a] # NoAction
        /\ actions[a].what.type = "policy"
        /\ ApplyPolicy(actions[a].colony, actions[a].what.request)
    BY <1>5 DEF ApprovePolicy, Decide, Decidable
  <2>2. actions[a].colony \in Colonies /\ actions[a].what.request \in PolicyRequests
    BY <2>1, DecidedWhat
  <2>3. actions[a].colony = c
    BY <2>1, <2>2, ReformedFields
  <2> QED  BY <1>1, <2>1, <2>3
<1> QED
  BY <1>2, <1>3, <1>4, <1>5
  DEF Next, vars, ProposeMint, ProposePolicy, NewPendingAction, Reject, Tick

-----------------------------------------------------------------------------
\* At the start nothing is minted or proposed.
LEMMA SupplyInit == Init => IInv
<1> SUFFICES ASSUME Init PROVE IInv
  OBVIOUS
<1> USE SupplyAssumption
<1>1. TypeOK
  <2>1. [mintCap |-> 0, mintedTotal |-> 0, requireDualControl |-> FALSE] \in Colony
    BY DEF Colony
  <2> QED  BY <2>1 DEF Init, TypeOK
<1>2. ProposalsFit /\ BalancesGrow
  BY DEF Init, ProposalsFit, BalancesGrow
<1>3. CapHolds
  BY DEF Init, CapHolds, EffectiveMintCap
<1>4. ASSUME NEW c \in Colonies
      PROVE  Total(ApprovedAmounts(c)) = 0 /\ Total(MintedTo(c)) = 0
  <2>1. \A a \in ActionIds : ApprovedAmounts(c)[a] = 0
    BY DEF Init, ApprovedAmounts, ApprovedMint
  <2>2. \A u \in Users : MintedTo(c)[u] = 0
    BY DEF Init, MintedTo
  <2>3. ApprovedAmounts(c) \in [ActionIds -> Nat] /\ MintedTo(c) \in [Users -> Nat]
    BY <2>1, <2>2 DEF ApprovedAmounts, MintedTo
  <2> QED  BY <2>1, <2>2, <2>3, TotalOfZeros
<1>5. MintsAreBacked /\ MintsAreCredited
  BY <1>4 DEF Init, MintsAreBacked, MintsAreCredited
<1> QED  BY <1>1, <1>2, <1>3, <1>5 DEF IInv

\* The invariant is inductive.
THEOREM SupplyInvariant == Spec => []IInv
<1>1. IInv /\ [Next]_vars => IInv'
  BY TypeStep, CapStep, FitStep, GrowStep, CreditStep, BackedStep DEF IInv
<1> QED  BY <1>1, SupplyInit, PTL DEF Spec

\* The types hold, and no balance or total leaves the range of the counter.
THEOREM SupplyTypeCorrect == Spec => []TypeOK
BY SupplyInvariant, PTL DEF IInv

\* No colony ever minted more than its cap (applyMint, validatePolicy).
THEOREM CapIsKept == Spec => []CapHolds
BY SupplyInvariant, PTL DEF IInv

\* What was minted was minted by an admin alone or approved, each proposal once.
THEOREM SupplyIsBacked == Spec => []MintsAreBacked
BY SupplyInvariant, PTL DEF IInv

\* What was minted is what the accounts were credited.
THEOREM SupplyIsCredited == Spec => []MintsAreCredited
BY SupplyInvariant, PTL DEF IInv

\* A controlled colony is changed by two admins only (DecideApproval).
THEOREM DualControlHolds == Spec => ControlledByTwo
<1>1. IInv /\ [Next]_vars =>
        [\A c \in Colonies :
           (Controlled(c) /\ colonies'[c] # colonies[c]) => ApprovedByTwo(c)]_vars
  BY ControlStep DEF IInv
<1> QED  BY <1>1, SupplyInvariant, PTL DEF Spec, ControlledByTwo

=============================================================================

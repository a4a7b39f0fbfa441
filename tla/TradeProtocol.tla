--------------------------- MODULE TradeProtocol ---------------------------
(***************************************************************************)
(* The trade protocol of backend/internal/service: offers, acceptances,    *)
(* settlements, cancellations, expiry, refunds and dual-control force      *)
(* refunds between colonies that exchange signed envelopes in bundles that *)
(* human relays carry.                                                     *)
(*                                                                         *)
(* db is the AppState every handler works on.  A handler is one            *)
(* transaction of the store, so one step, with one exception: the import   *)
(* of a bundle goes through its messages one at a time on a private copy   *)
(* of the state, which is committed after the last one or dropped at the   *)
(* first error.  That loop is modelled by tx.  The store serialises the    *)
(* transactions that touch the same colonies, so nothing else commits      *)
(* while tx is active.                                                     *)
(*                                                                         *)
(* The terms of the offer made under a trade id (seller, buyer, price) are *)
(* constants indexed by the id: ids are random and never reused, and all   *)
(* envelopes about a trade are signed over the terms it was created with,  *)
(* so that the comparisons of a payload with the trade always succeed.     *)
(* Signatures are not modelled: a relay holds only envelopes a colony      *)
(* signed, but may import any bundle of them, any number of times, in any  *)
(* order, or never.                                                        *)
(***************************************************************************)
EXTENDS Integers, Sequences, FiniteSets, TradeStates, Money

CONSTANTS
  Colonies, Traders, Admins,  \* who takes part
  TradeIds, ActionIds,        \* identifiers of trades and of pending actions
  Home,                       \* the colony of a trader
  Seller, Buyer, Price,       \* the terms of the offer made under a trade id
  Manages,                    \* the colonies an admin has authority over
  Funding,                    \* the balances minted before the protocol runs
  InitialTrust,               \* the pairs <<c, p>> where c trusts p already
  TrustPairs,                 \* bound: the pairs an admin may still add
  OfferTTLs,                  \* lifetimes an offer may be given
  PendingActionTTL,           \* lifetime of a dual-control proposal
  MaxAmount,                  \* largest price (domain.MaxAmount)
  MaxInt64,                   \* largest amount a counter can hold
  MaxClock,                   \* bound: the clock stops here
  MaxEnvelopes,               \* bound: envelopes issued about one trade
  MaxBundle,                  \* bound: messages in an imported bundle
  MaxLosses                   \* bound: bundles lost on their way to a relay

ASSUME ProtocolAssumption ==
  /\ IsFiniteSet(Traders) /\ IsFiniteSet(TradeIds)
  /\ Home \in [Traders -> Colonies]
  /\ Seller \in [TradeIds -> Traders]
  /\ Buyer \in [TradeIds -> Traders]
  /\ Price \in [TradeIds -> Nat]
  /\ Manages \in [Admins -> SUBSET Colonies]
  /\ Funding \in [Traders -> 0..MaxInt64]
  /\ InitialTrust \subseteq Colonies \X Colonies
  /\ TrustPairs \subseteq Colonies \X Colonies
  /\ OfferTTLs \subseteq Nat
  /\ {PendingActionTTL, MaxAmount, MaxInt64, MaxClock, MaxEnvelopes,
      MaxBundle, MaxLosses} \subseteq Nat

VARIABLES
  db,      \* the committed AppState
  tx,      \* the import in progress: what is left of its bundle, and its copy
  relay,   \* envelopes exported to a relay, which keeps them for good
  clock,   \* domain.NowFn
  losses   \* how many exported bundles were lost

vars == <<db, tx, relay, clock, losses>>

-----------------------------------------------------------------------------
(***************************************************************************)
(* The state.                                                              *)
(***************************************************************************)
SellerColony(t) == Home[Seller[t]]
BuyerColony(t)  == Home[Buyer[t]]

MessageTypes == {"offer", "acceptance", "settlement", "cancel_request", "refund"}

\* at: the expiry an offer states, the time an acceptance is signed at.
Envelope == [id : TradeIds \X Nat, type : MessageTypes, trade : TradeIds, at : Nat]

From(e) == IF e.type \in {"acceptance", "cancel_request"}
           THEN BuyerColony(e.trade) ELSE SellerColony(e.trade)
To(e)   == IF e.type \in {"acceptance", "cancel_request"}
           THEN SellerColony(e.trade) ELSE BuyerColony(e.trade)

\* accepted: the trade has an AcceptanceEnvelopeID.
Absent  == "absent"
Trade   == [status : Statuses \cup {Absent}, expiresAt : Nat,
            accepted : BOOLEAN, acceptedAt : Nat]
NoTrade == [status |-> Absent, expiresAt |-> 0, accepted |-> FALSE, acceptedAt |-> 0]

PendingAction == [status : {"pending", "approved", "rejected"}, trade : TradeIds,
                  proposer : Admins, decider : SUBSET Admins, expiresAt : Nat]
NoAction      == [status |-> "none"]

\* The ledger entries that book a movement of money.
Bookings == {"trade_accepted", "trade_acceptance_imported",
             "trade_refunded", "trade_force_refunded"}

AppState ==
  [accounts       : [Traders -> Nat],
   netClaims      : [Colonies \X Colonies -> Nat],
   netObligations : [Colonies \X Colonies -> Nat],
   trusted        : SUBSET (Colonies \X Colonies),
   outbox         : [Colonies -> SUBSET Envelope],
   processed      : [Colonies -> SUBSET (TradeIds \X Nat)],
   trades         : [TradeIds -> Trade],
   actions        : [ActionIds -> PendingAction \cup {NoAction}],
   booked         : [TradeIds -> [Bookings -> Nat]],
   issued         : [TradeIds -> Nat]]

Idle     == [active |-> FALSE]
ImportTx == [active : {TRUE}, source : Colonies, target : Colonies,
             todo : Seq(Envelope), work : AppState]

Status(d, t) == d.trades[t].status

-----------------------------------------------------------------------------
(***************************************************************************)
(* Steps that several handlers share.  A handler that can fail returns     *)
(* Ok(d) with the state it leaves, or Refused.                             *)
(***************************************************************************)
Ok(d)   == [ok |-> TRUE, state |-> d]
Refused == [ok |-> FALSE]

\* AddChecked succeeds.
Fits(a, b) == a + b <= MaxInt64

IsExpired(d, t, now) == now > d.trades[t].expiresAt

\* Mutant: the id is made from that of the trade.
NewEnvelopeNamed(d, type, t, at) ==
  [id |-> <<t, 0>>, type |-> type, trade |-> t, at |-> at]

\* A signed envelope under a fresh id joins the outbox of the colony it is from.
NewEnvelope(d, type, t, at) ==
  [id |-> <<t, d.issued[t]>>, type |-> type, trade |-> t, at |-> at]

Emit(d, type, t, at) ==
  LET e == NewEnvelope(d, type, t, at)
  IN  [d EXCEPT !.outbox[From(e)] = @ \cup {e}, !.issued[t] = @ + 1]

Book(d, t, kind) == [d EXCEPT !.booked[t][kind] = @ + 1]

AdvanceTrade(d, t, to) == [d EXCEPT !.trades[t].status = to]

(***************************************************************************)
(* The seller colony decides not to credit the seller.  No balance moves   *)
(* until the buyer colony imports the refund envelope.                     *)
(***************************************************************************)
DecideRefund(d, e) ==
  IF TransitionAllowed(Status(d, e.trade), RefundPendingExport)
  THEN LET advanced == [AdvanceTrade(d, e.trade, RefundPendingExport)
                          EXCEPT !.trades[e.trade].accepted = @ \/ e.type = "acceptance"]
       IN  Ok(Emit(advanced, "refund", e.trade, 0))
  ELSE Refused

\* Mutant: the refund goes to the wrong party.
ApplyRefundToSeller(d, t, kind) ==
  IF /\ Fits(d.accounts[Seller[t]], Price[t])
     /\ TransitionAllowed(Status(d, t), Refunded)
  THEN Ok(Book([AdvanceTrade(d, t, Refunded)
                  EXCEPT !.accounts[Seller[t]] = @ + Price[t]], t, kind))
  ELSE Refused

\* The one place where a refund moves a balance.
ApplyRefund(d, t, kind) ==
  IF /\ Fits(d.accounts[Buyer[t]], Price[t])
     /\ TransitionAllowed(Status(d, t), Refunded)
  THEN Ok(Book([AdvanceTrade(d, t, Refunded)
                  EXCEPT !.accounts[Buyer[t]] = @ + Price[t]], t, kind))
  ELSE Refused

-----------------------------------------------------------------------------
(***************************************************************************)
(* The import of one envelope.  A handler that recognises a duplicate      *)
(* returns the state as it found it.                                       *)
(***************************************************************************)
\* StepTrade with the effect of applying the step.
StepTrade(d, t, pred, applied) ==
  CASE ClassifyStep(Status(d, t), pred) = StepApply     -> applied
    [] ClassifyStep(Status(d, t), pred) = StepTooEarly  -> Refused
    [] ClassifyStep(Status(d, t), pred) = StepDuplicate -> Ok(d)

ImportOffer(d, e) ==
  IF Status(d, e.trade) = Absent
  THEN Ok([d EXCEPT !.trades[e.trade] =
             [NoTrade EXCEPT !.status = OfferReceived, !.expiresAt = e.at]])
  ELSE IF d.trades[e.trade].expiresAt # e.at
  THEN Refused
  ELSE StepTrade(d, e.trade, OfferPendingExport,
                 Ok(AdvanceTrade(d, e.trade, OfferReceived)))

\* The seller is credited, and both net positions grow.
Claim(t) == <<SellerColony(t), BuyerColony(t)>>
Debt(t)  == <<BuyerColony(t), SellerColony(t)>>

\* Mutant: the debt is recorded under the pair of the claim.
CreditedSwapped(d, e) ==
  LET t == e.trade
  IN  [AdvanceTrade(d, t, SettlementPendingExport)
         EXCEPT !.accounts[Seller[t]]         = @ + Price[t],
                !.netClaims[Claim(t)]         = @ + Price[t],
                !.netObligations[Claim(t)]    = @ + Price[t],
                !.trades[t].accepted          = TRUE,
                !.trades[t].acceptedAt        = e.at]

\* Mutant: the status is left as it was.
CreditedNotAdvanced(d, e) ==
  LET t == e.trade
  IN  [d EXCEPT !.accounts[Seller[t]]      = @ + Price[t],
                !.netClaims[Claim(t)]      = @ + Price[t],
                !.netObligations[Debt(t)]  = @ + Price[t],
                !.trades[t].accepted       = TRUE,
                !.trades[t].acceptedAt     = e.at]

Credited(d, e) ==
  LET t == e.trade
  IN  [AdvanceTrade(d, t, SettlementPendingExport)
         EXCEPT !.accounts[Seller[t]]      = @ + Price[t],
                !.netClaims[Claim(t)]      = @ + Price[t],
                !.netObligations[Debt(t)]  = @ + Price[t],
                !.trades[t].accepted       = TRUE,
                !.trades[t].acceptedAt     = e.at]

\* Mutant: the sums are not checked.
CreditFitsAlways(d, t) == TRUE

\* Everything that can fail is computed before anything is written.
CreditFits(d, t) ==
  /\ Fits(d.accounts[Seller[t]], Price[t])
  /\ Fits(d.netClaims[Claim(t)], Price[t])
  /\ Fits(d.netObligations[Debt(t)], Price[t])

CreditSeller(d, e) ==
  IF CreditFits(d, e.trade) /\ TransitionAllowed(Status(d, e.trade), SettlementPendingExport)
  THEN Ok(Book(Emit(Credited(d, e), "settlement", e.trade, 0),
               e.trade, "trade_acceptance_imported"))
  ELSE Refused

\* Mutant: a late acceptance is settled like any other.
ImportAcceptanceLate(d, e) ==
  LET trade == d.trades[e.trade]
  IN  CASE trade.status = Absent -> Refused
        [] trade.status = AcceptancePendingExport -> CreditSeller(d, e)
        [] trade.status \in {Expired, Cancelled} ->
             IF trade.accepted THEN DecideRefund(d, e) ELSE Refused
        [] OTHER ->
             IF ClassifyStep(trade.status, AcceptancePendingExport) = StepTooEarly
             THEN Refused ELSE Ok(d)

\* Mutant: a closed offer is refunded without a recorded debit.
ImportAcceptanceUnrecorded(d, e) ==
  LET trade == d.trades[e.trade]
  IN  CASE trade.status = Absent -> Refused
        [] trade.status = AcceptancePendingExport ->
             IF e.at > trade.expiresAt THEN DecideRefund(d, e) ELSE CreditSeller(d, e)
        [] trade.status \in {Expired, Cancelled} -> DecideRefund(d, e)
        [] OTHER ->
             IF ClassifyStep(trade.status, AcceptancePendingExport) = StepTooEarly
             THEN Refused ELSE Ok(d)

ImportAcceptance(d, e) ==
  LET trade == d.trades[e.trade]
  IN  CASE trade.status = Absent -> Refused
        [] trade.status = AcceptancePendingExport ->
             IF e.at > trade.expiresAt THEN DecideRefund(d, e) ELSE CreditSeller(d, e)
        [] trade.status \in {Expired, Cancelled} ->
             IF trade.accepted THEN DecideRefund(d, e) ELSE Refused
        [] OTHER ->
             IF ClassifyStep(trade.status, AcceptancePendingExport) = StepTooEarly
             THEN Refused ELSE Ok(d)

\* Mutant: the wrong predecessor, so that every settlement is a duplicate.
ImportSettlementNever(d, e) ==
  IF Status(d, e.trade) = Absent
  THEN Refused
  ELSE StepTrade(d, e.trade, AcceptancePendingExport,
                 Ok(AdvanceTrade(d, e.trade, Completed)))

ImportSettlement(d, e) ==
  IF Status(d, e.trade) = Absent
  THEN Refused
  ELSE StepTrade(d, e.trade, SettlementPendingExport,
                 Ok(AdvanceTrade(d, e.trade, Completed)))

\* Mutant: a request that comes after the decision is an error.
ImportCancelStrict(d, e) ==
  IF Status(d, e.trade) = AcceptancePendingExport THEN DecideRefund(d, e) ELSE Refused

\* Mutant: only a trade that can be credited can be refunded.
ImportCancelIfCreditable(d, e) ==
  IF Status(d, e.trade) = Absent \/ ~CreditFits(d, e.trade)
  THEN Refused
  ELSE StepTrade(d, e.trade, AcceptancePendingExport, DecideRefund(d, e))

ImportCancel(d, e) ==
  IF Status(d, e.trade) = Absent
  THEN Refused
  ELSE StepTrade(d, e.trade, AcceptancePendingExport, DecideRefund(d, e))

\* Mutant: the table of transitions is left to judge the refund.
ImportRefundUnclassified(d, e) ==
  IF Status(d, e.trade) = Absent
  THEN Refused
  ELSE ApplyRefund(d, e.trade, "trade_refunded")

ImportRefund(d, e) ==
  IF Status(d, e.trade) = Absent
  THEN Refused
  ELSE StepTrade(d, e.trade, RefundPendingExport,
                 ApplyRefund(d, e.trade, "trade_refunded"))

ImportEnvelope(d, e) ==
  CASE e.type = "offer"          -> ImportOffer(d, e)
    [] e.type = "acceptance"     -> ImportAcceptance(d, e)
    [] e.type = "settlement"     -> ImportSettlement(d, e)
    [] e.type = "cancel_request" -> ImportCancel(d, e)
    [] e.type = "refund"         -> ImportRefund(d, e)

(***************************************************************************)
(* One turn of the loop over the messages of a bundle.                     *)
(***************************************************************************)
ImportMessage(d, source, target, e) ==
  LET result == ImportEnvelope(d, e)
  IN  IF From(e) # source \/ To(e) # target THEN Refused
      ELSE IF e.id \in d.processed[target]  THEN Ok(d)
      ELSE IF result.ok THEN Ok([result.state EXCEPT !.processed[target] = @ \cup {e.id}])
      ELSE Refused

-----------------------------------------------------------------------------
(***************************************************************************)
(* The operations.                                                         *)
(***************************************************************************)
Init ==
  /\ db = [accounts       |-> Funding,
           netClaims      |-> [p \in Colonies \X Colonies |-> 0],
           netObligations |-> [p \in Colonies \X Colonies |-> 0],
           trusted        |-> InitialTrust,
           outbox         |-> [c \in Colonies |-> {}],
           processed      |-> [c \in Colonies |-> {}],
           trades         |-> [t \in TradeIds |-> NoTrade],
           actions        |-> [a \in ActionIds |-> NoAction],
           booked         |-> [t \in TradeIds |-> [k \in Bookings |-> 0]],
           issued         |-> [t \in TradeIds |-> 0]]
  /\ tx = Idle
  /\ relay = {}
  /\ clock = 0
  /\ losses = 0

\* A handler that writes the store, other than the import of a bundle.
Transaction == ~tx.active /\ UNCHANGED tx

CanIssue(t) == db.issued[t] < MaxEnvelopes

CreateOffer(t, ttl) ==
  /\ Transaction
  /\ db.issued[t] = 0
  /\ Price[t] \in 1..MaxAmount
  /\ SellerColony(t) # BuyerColony(t)
  /\ CanIssue(t)
  /\ LET offered == [db EXCEPT !.trades[t] =
                       [NoTrade EXCEPT !.status = OfferPendingExport,
                                       !.expiresAt = clock + ttl]]
     IN  db' = Emit(offered, "offer", t, clock + ttl)
  /\ UNCHANGED <<relay, clock, losses>>

(***************************************************************************)
(* AcceptTrade reads the clock twice: for the expiry check, then for the   *)
(* time it signs; a second may pass between the two.                       *)
(***************************************************************************)
Debited(d, t, now) ==
  [AdvanceTrade(d, t, AcceptancePendingExport)
     EXCEPT !.accounts[Buyer[t]]   = @ - Price[t],
            !.trades[t].accepted   = TRUE,
            !.trades[t].acceptedAt = now]

\* Mutant: the balance is not compared with the price.
AcceptableUnfunded(t) ==
  /\ Status(db, t) = OfferReceived
  /\ ~IsExpired(db, t, clock)

Acceptable(t) ==
  /\ Status(db, t) = OfferReceived
  /\ ~IsExpired(db, t, clock)
  /\ db.accounts[Buyer[t]] >= Price[t]

AcceptTrade(t) ==
  /\ Transaction
  /\ Acceptable(t)
  /\ TransitionAllowed(Status(db, t), AcceptancePendingExport)
  /\ CanIssue(t)
  /\ clock' \in {clock, clock + 1} /\ clock' <= MaxClock
  /\ db' = Book(Emit(Debited(db, t, clock'), "acceptance", t, clock'), t, "trade_accepted")
  /\ UNCHANGED <<relay, losses>>

\* Mutant: the seller may also withdraw an offer the buyer just accepted.
WithdrawAccepted(t) ==
  /\ Transaction
  /\ Status(db, t) \in {OfferPendingExport, OfferReceived, AcceptancePendingExport}
  /\ db' = AdvanceTrade(db, t, Cancelled)
  /\ UNCHANGED <<relay, clock, losses>>

\* CancelTrade, of an offer nobody accepted: the seller withdraws it.
WithdrawOffer(t) ==
  /\ Transaction
  /\ Status(db, t) \in {OfferPendingExport, OfferReceived}
  /\ TransitionAllowed(Status(db, t), Cancelled)
  /\ db' = AdvanceTrade(db, t, Cancelled)
  /\ UNCHANGED <<relay, clock, losses>>

\* Mutant: only one request, right after the acceptance.
RequestCancelOnce(t) ==
  /\ Transaction
  /\ Status(db, t) = AcceptancePendingExport
  /\ db.issued[t] = 2
  /\ db' = Emit(db, "cancel_request", t, 0)
  /\ UNCHANGED <<relay, clock, losses>>

\* CancelTrade, of an acceptance in flight: the buyer asks for a refund, again
\* if need be.
RequestCancel(t) ==
  /\ Transaction
  /\ Status(db, t) = AcceptancePendingExport
  /\ CanIssue(t)
  /\ db' = Emit(db, "cancel_request", t, 0)
  /\ UNCHANGED <<relay, clock, losses>>

(***************************************************************************)
(* ExportBundle empties the outbox for one destination.  The bundle is     *)
(* only in the response: when that is lost, so are its messages.           *)
(***************************************************************************)
ExportBundle(c, dest, lost) ==
  LET messages == {e \in db.outbox[c] : To(e) = dest}
  IN  /\ Transaction
      /\ messages # {}
      /\ db' = [db EXCEPT !.outbox[c] = @ \ messages]
      /\ IF lost
         THEN losses < MaxLosses /\ losses' = losses + 1 /\ UNCHANGED relay
         ELSE relay' = relay \cup messages /\ UNCHANGED losses
      /\ UNCHANGED clock

\* ImportBundle: the checks before the loop.
BeginImport(source, target, messages) ==
  /\ ~tx.active
  /\ <<target, source>> \in db.trusted
  /\ tx' = [active |-> TRUE, source |-> source, target |-> target,
            todo |-> messages, work |-> db]
  /\ UNCHANGED <<db, relay, clock, losses>>

NextResult == ImportMessage(tx.work, tx.source, tx.target, Head(tx.todo))

ImportNext ==
  /\ tx.active /\ tx.todo # <<>>
  /\ NextResult.ok
  /\ tx' = [tx EXCEPT !.todo = Tail(@), !.work = NextResult.state]
  /\ UNCHANGED <<db, relay, clock, losses>>

RefuseBundle ==
  /\ tx.active /\ tx.todo # <<>>
  /\ ~NextResult.ok
  /\ tx' = Idle
  /\ UNCHANGED <<db, relay, clock, losses>>

CommitImport ==
  /\ tx.active /\ tx.todo = <<>>
  /\ db' = tx.work
  /\ tx' = Idle
  /\ UNCHANGED <<relay, clock, losses>>

\* The server stops, or the commit fails: the private copy is gone.
AbandonImport ==
  /\ tx.active
  /\ tx' = Idle
  /\ UNCHANGED <<db, relay, clock, losses>>

(***************************************************************************)
(* The sweep closes offers past their expiry: all of them in the file      *)
(* store, at most 200 of them in PostgreSQL.  It read the clock before it  *)
(* got the lock.                                                           *)
(***************************************************************************)
\* Mutant: offers not exported yet are forgotten.
DueReceived(now) == {t \in TradeIds : Status(db, t) = OfferReceived /\ IsExpired(db, t, now)}

Due(now) == {t \in TradeIds : /\ Status(db, t) \in {OfferPendingExport, OfferReceived}
                              /\ IsExpired(db, t, now)}

SweepExpired(now, batch) ==
  /\ Transaction
  /\ batch # {} /\ batch \subseteq Due(now)
  /\ \A t \in batch : TransitionAllowed(Status(db, t), Expired)
  /\ db' = [db EXCEPT !.trades =
              [t \in TradeIds |-> IF t \in batch THEN [@[t] EXCEPT !.status = Expired]
                                                 ELSE @[t]]]
  /\ UNCHANGED <<relay, clock, losses>>

ProposeForceRefund(a, admin, t) ==
  /\ Transaction
  /\ db.actions[a] = NoAction
  /\ BuyerColony(t) \in Manages[admin]
  /\ IsEscrowed(Status(db, t))
  /\ db' = [db EXCEPT !.actions[a] =
              [status |-> "pending", trade |-> t, proposer |-> admin,
               decider |-> {}, expiresAt |-> clock + PendingActionTTL]]
  /\ UNCHANGED <<relay, clock, losses>>

\* Mutant: the proposer may decide too.
DecidableByProposer(a, admin) ==
  /\ db.actions[a] # NoAction
  /\ BuyerColony(db.actions[a].trade) \in Manages[admin]
  /\ db.actions[a].status = "pending"
  /\ clock <= db.actions[a].expiresAt

\* What DecideApproval requires of the admin and of the action.
Decidable(a, admin) ==
  /\ db.actions[a] # NoAction
  /\ BuyerColony(db.actions[a].trade) \in Manages[admin]
  /\ db.actions[a].proposer # admin
  /\ db.actions[a].status = "pending"
  /\ clock <= db.actions[a].expiresAt

Decided(d, a, admin, outcome) ==
  [d EXCEPT !.actions[a].status = outcome, !.actions[a].decider = {admin}]

ApproveForceRefund(a, admin) ==
  LET t      == db.actions[a].trade
      result == ApplyRefund(db, t, "trade_force_refunded")
  IN  /\ Transaction
      /\ Decidable(a, admin)
      /\ IsEscrowed(Status(db, t))
      /\ result.ok
      /\ db' = Decided(result.state, a, admin, "approved")
      /\ UNCHANGED <<relay, clock, losses>>

RejectForceRefund(a, admin) ==
  /\ Transaction
  /\ Decidable(a, admin)
  /\ db' = Decided(db, a, admin, "rejected")
  /\ UNCHANGED <<relay, clock, losses>>

TrustPeer(colony, peer) ==
  /\ Transaction
  /\ db' = [db EXCEPT !.trusted = @ \cup {<<colony, peer>>}]
  /\ UNCHANGED <<relay, clock, losses>>

Tick ==
  /\ clock < MaxClock
  /\ clock' = clock + 1
  /\ UNCHANGED <<db, tx, relay, losses>>

Bundles == UNION {[1..n -> relay] : n \in 0..MaxBundle}

Next ==
  \/ \E t \in TradeIds :
       \/ \E ttl \in OfferTTLs : CreateOffer(t, ttl)
       \/ AcceptTrade(t)
       \/ WithdrawOffer(t)
       \/ RequestCancel(t)
  \/ \E c, dest \in Colonies : \E lost \in BOOLEAN : ExportBundle(c, dest, lost)
  \/ \E c, dest \in Colonies : \E messages \in Bundles : BeginImport(c, dest, messages)
  \/ ImportNext
  \/ RefuseBundle
  \/ CommitImport
  \/ AbandonImport
  \/ \E now \in {clock - 1, clock} : \E batch \in SUBSET TradeIds : SweepExpired(now, batch)
  \/ \E a \in ActionIds, admin \in Admins :
       \/ \E t \in TradeIds : ProposeForceRefund(a, admin, t)
       \/ ApproveForceRefund(a, admin)
       \/ RejectForceRefund(a, admin)
  \/ \E pair \in TrustPairs : TrustPeer(pair[1], pair[2])
  \/ Tick

Spec == Init /\ [][Next]_vars

-----------------------------------------------------------------------------
(***************************************************************************)
(* Properties.  Those of a state of the store are operators on d, so that  *)
(* they can be asked of the committed state, of the private copy of an     *)
(* import and of a backup.                                                 *)
(***************************************************************************)

\* Every variable has its type.
TypeOK ==
  /\ db \in AppState
  /\ tx \in ImportTx \cup {Idle}
  /\ relay \subseteq Envelope
  /\ clock \in 0..MaxClock
  /\ losses \in 0..MaxLosses

\* What is neither with the seller nor with the buyer of each trade.
Escrow(d) == [t \in TradeIds |-> IF IsEscrowed(Status(d, t)) THEN Price[t] ELSE 0]

(***************************************************************************)
(* Money is conserved: the balances and the escrow add up to what was      *)
(* minted (storage.VerifyStateIntegrity, docs/phase1-design.md).           *)
(***************************************************************************)
ConservedIn(d) == Total(d.accounts) + Total(Escrow(d)) = Total(Funding)
Conservation == ConservedIn(db)

(***************************************************************************)
(* The ledgers book each trade's money once and as its status says: one    *)
(* debit once it was accepted, then one credit to the seller or one refund *)
(* to the buyer, never both, and none while the money is in escrow.        *)
(***************************************************************************)
Paid(d, t)     == Status(d, t) \in {SettlementPendingExport, Completed}
Returned(d, t) == Status(d, t) = Refunded
Count(p)       == IF p THEN 1 ELSE 0

BookedOnceIn(d) ==
  \A t \in TradeIds :
    LET b == d.booked[t]
    IN  /\ b["trade_accepted"]
             = Count(IsEscrowed(Status(d, t)) \/ Paid(d, t) \/ Returned(d, t))
        /\ b["trade_acceptance_imported"] = Count(Paid(d, t))
        /\ b["trade_refunded"] + b["trade_force_refunded"] = Count(Returned(d, t))
BookedOnce == BookedOnceIn(db)

(***************************************************************************)
(* What a colony claims from another is what the other owes it, and both   *)
(* are the prices of the trades settled between the two.                   *)
(***************************************************************************)
Settled(d, c, o) ==
  [t \in TradeIds |->
     IF Paid(d, t) /\ SellerColony(t) = c /\ BuyerColony(t) = o THEN Price[t] ELSE 0]

NetPositionsMirrorIn(d) ==
  \A c, o \in Colonies :
    /\ d.netClaims[<<c, o>>] = Total(Settled(d, c, o))
    /\ d.netObligations[<<o, c>>] = Total(Settled(d, c, o))
NetPositionsMirror == NetPositionsMirrorIn(db)

(***************************************************************************)
(* An offer is closed as expired or cancelled only if no buyer was debited *)
(* for it, and an acceptance signed after the expiry is never settled.     *)
(***************************************************************************)
ClosedOffersHoldNoMoneyIn(d) ==
  \A t \in TradeIds :
    /\ Status(d, t) \in {Absent, OfferPendingExport, OfferReceived, Expired, Cancelled}
          => ~d.trades[t].accepted
    /\ Paid(d, t) => d.trades[t].acceptedAt <= d.trades[t].expiresAt
ClosedOffersHoldNoMoney == ClosedOffersHoldNoMoneyIn(db)

(***************************************************************************)
(* No poison message: whatever happened in the meantime, no envelope in a  *)
(* relay's hands would make a colony that trusts its sender refuse the     *)
(* bundle it is in (it is applied or taken for a duplicate).               *)
(***************************************************************************)
NoPoisonMessage ==
  \A e \in relay : ImportMessage(db, From(e), To(e), e).ok

(***************************************************************************)
(* No decision is stranded: as long as no bundle was lost, the buyer       *)
(* colony can still learn what the seller colony decided.  The envelope is *)
(* in the seller colony's outbox or with a relay, its id is not taken for  *)
(* processed, and the import of it ends the trade.                         *)
(***************************************************************************)
UnderWay(t, type, outcome) ==
  \E e \in relay \cup db.outbox[SellerColony(t)] :
    /\ e.type = type /\ e.trade = t /\ e.id \notin db.processed[BuyerColony(t)]
    /\ LET result == ImportMessage(db, SellerColony(t), BuyerColony(t), e)
       IN  result.ok => Status(result.state, t) = outcome

NoDecisionIsStranded ==
  losses = 0 =>
    \A t \in TradeIds :
      /\ Status(db, t) = RefundPendingExport => UnderWay(t, "refund", Refunded)
      /\ Status(db, t) = SettlementPendingExport => UnderWay(t, "settlement", Completed)

(***************************************************************************)
(* The seller colony alone decides about the money of an acceptance in     *)
(* flight: a trade leaves acceptance_pending_export only because that      *)
(* colony imported an envelope about it, or because two different admins   *)
(* of the buyer colony forced the refund.                                  *)
(***************************************************************************)
ImportedBy(colony, t) ==
  \E id \in db'.processed[colony] \ db.processed[colony] : id[1] = t

ForcedByTwo(t) ==
  \E a \in ActionIds :
    /\ db.actions[a] # NoAction /\ db.actions[a].status = "pending"
    /\ db'.actions[a].status = "approved" /\ db'.actions[a].trade = t
    /\ \E p, q \in Admins :
         /\ p # q /\ db'.actions[a].proposer = p /\ db'.actions[a].decider = {q}
         /\ BuyerColony(t) \in Manages[p] \cap Manages[q]

DecidedBySeller ==
  \A t \in TradeIds :
    (Status(db, t) = AcceptancePendingExport /\ Status(db', t) # AcceptancePendingExport)
      => \/ ImportedBy(SellerColony(t), t)
         \/ ForcedByTwo(t) /\ Status(db', t) = Refunded

SellerDecides == [][DecidedBySeller]_vars

(***************************************************************************)
(* No balance and no net position outgrows its 64 bits (AddChecked).       *)
(***************************************************************************)
AmountsFitIn(d) ==
  /\ \A u \in Traders : d.accounts[u] <= MaxInt64
  /\ \A p \in Colonies \X Colonies :
       d.netClaims[p] <= MaxInt64 /\ d.netObligations[p] <= MaxInt64
AmountsFit == AmountsFitIn(db)

=============================================================================

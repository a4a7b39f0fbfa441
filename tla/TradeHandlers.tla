--------------------------- MODULE TradeHandlers ----------------------------
(***************************************************************************)
(* What every handler of the trade protocol makes of the state of the      *)
(* store it works on, be it the committed state or the private copy of an  *)
(* import: given a sound state, it leaves a sound one and takes no id      *)
(* back.                                                                   *)
(*                                                                         *)
(* The first part is about the moves of money: a handler leaves the price  *)
(* of a trade where it is, puts it in escrow, pays it or returns it        *)
(* (module TradeEscrow tells who holds it).  Each move keeps a state of    *)
(* the store sound, which is the part of the inductive invariant of module *)
(* TradeProtocolProofs that speaks of one such state.  The second part     *)
(* shows that each handler is one of the moves.                            *)
(*                                                                         *)
(* The third part is about what trades and envelopes know of each other:   *)
(* a handler moves trades forward only, sends envelopes that are true of   *)
(* them, ends the flight of an acceptance only where the envelope it       *)
(* imports was for the seller's colony, and never refuses an envelope that *)
(* is true.                                                                *)
(*                                                                         *)
(* The fourth part is about the mail: whoever decides about an acceptance  *)
(* sends the envelope that tells of it, under an id that nobody has yet    *)
(* processed, and only the import of that envelope ends the wait for it.   *)
(***************************************************************************)
EXTENDS TradeEscrow, MoneyTheorems

USE ProtocolAssumption

-----------------------------------------------------------------------------
(***************************************************************************)
(* Types of the small things.                                              *)
(***************************************************************************)
LEMMA StatusNames ==
  /\ OfferPendingExport \in Statuses /\ OfferReceived \in Statuses
  /\ AcceptancePendingExport \in Statuses /\ SettlementPendingExport \in Statuses
  /\ Completed \in Statuses /\ RefundPendingExport \in Statuses
  /\ Refunded \in Statuses /\ Expired \in Statuses /\ Cancelled \in Statuses
  /\ Absent \notin Statuses
BY DEF Statuses, OfferPendingExport, OfferReceived, AcceptancePendingExport,
       SettlementPendingExport, Completed, RefundPendingExport, Refunded,
       Expired, Cancelled, Absent

\* The terms of an offer.
LEMMA Terms ==
  ASSUME NEW t \in TradeIds
  PROVE  /\ Seller[t] \in Traders /\ Buyer[t] \in Traders /\ Price[t] \in Nat
         /\ SellerColony(t) \in Colonies /\ BuyerColony(t) \in Colonies
BY DEF SellerColony, BuyerColony

\* An envelope goes from one colony to another.
LEMMA Routes ==
  ASSUME NEW e \in Envelope
  PROVE  From(e) \in Colonies /\ To(e) \in Colonies /\ e.trade \in TradeIds
BY Terms DEF From, To, Envelope

\* The fields of a state of the store, one at a time.
LEMMA Fields ==
  ASSUME NEW d \in AppState
  PROVE  /\ d.accounts \in [Traders -> Nat]
         /\ d.netClaims \in [Colonies \X Colonies -> Nat]
         /\ d.netObligations \in [Colonies \X Colonies -> Nat]
         /\ d.trusted \in SUBSET (Colonies \X Colonies)
         /\ d.outbox \in [Colonies -> SUBSET Envelope]
         /\ d.processed \in [Colonies -> SUBSET (TradeIds \X Nat)]
         /\ d.trades \in [TradeIds -> Trade]
         /\ d.actions \in [ActionIds -> PendingAction \cup {NoAction}]
         /\ d.booked \in [TradeIds -> [Bookings -> Nat]]
         /\ d.issued \in [TradeIds -> Nat]
BY DEF AppState

-----------------------------------------------------------------------------
(***************************************************************************)
(* What the shared steps change.  MoneyKept: neither balances nor net      *)
(* positions change.  OnlyTrade: no other trade does.                      *)
(***************************************************************************)
MoneyKept(d, r) ==
  /\ r.accounts = d.accounts
  /\ r.netClaims = d.netClaims
  /\ r.netObligations = d.netObligations

OnlyTrade(d, r, t) ==
  \A o \in TradeIds \ {t} : r.trades[o] = d.trades[o] /\ r.booked[o] = d.booked[o]

BookedAs(d, r, t, kind) == r.booked[t] = [d.booked[t] EXCEPT ![kind] = @ + 1]

\* Ids are never taken back, and what is new in an outbox has one.
Grown(d, r) ==
  /\ \A t \in TradeIds : r.issued[t] >= d.issued[t]
  /\ \A c \in Colonies : \A e \in r.outbox[c] :
       e \in d.outbox[c] \/ r.issued[e.trade] > 0

\* Emit changes an outbox and the number of envelopes issued.
LEMMA EmitFields ==
  ASSUME NEW d \in AppState, NEW t \in TradeIds, NEW type \in MessageTypes, NEW at \in Nat
  PROVE  LET r == Emit(d, type, t, at)
         IN  /\ r \in AppState
             /\ MoneyKept(d, r) /\ r.trades = d.trades /\ r.booked = d.booked
             /\ Grown(d, r) /\ r.issued[t] > 0
<1> DEFINE e == NewEnvelope(d, type, t, at)
           o == [d.outbox EXCEPT ![From(e)] = @ \cup {e}]
           i == [d.issued EXCEPT ![t] = @ + 1]
           r == [d EXCEPT !.outbox = o, !.issued = i]
<1>1. e \in Envelope /\ e.trade = t
  BY Fields DEF NewEnvelope, Envelope
<1>2. From(e) \in Colonies
  BY <1>1, Routes
<1>3. e.trade = t /\ e \in Envelope /\ From(e) \in Colonies
  BY <1>1, <1>2
<1> HIDE DEF e
<1>4. /\ o \in [Colonies -> SUBSET Envelope]
      /\ \A c \in Colonies : \A x \in o[c] : x \in d.outbox[c] \/ x = e
  <2>1. d.outbox \in [Colonies -> SUBSET Envelope]
    BY Fields
  <2> QED
    BY <1>3, <2>1
<1>5. i \in [TradeIds -> Nat] /\ i[t] > 0 /\ \A x \in TradeIds : i[x] >= d.issued[x]
  <2>1. d.issued \in [TradeIds -> Nat]
    BY Fields
  <2> QED
    BY <2>1
<1>6. Emit(d, type, t, at) = r
  BY DEF Emit, e
<1> HIDE DEF o, i
<1>7. /\ r \in AppState
      /\ r.accounts = d.accounts /\ r.netClaims = d.netClaims
      /\ r.netObligations = d.netObligations
      /\ r.trades = d.trades /\ r.booked = d.booked /\ r.issued = i /\ r.outbox = o
  BY <1>4, <1>5 DEF AppState
<1> HIDE DEF r
<1> QED
  BY <1>3, <1>4, <1>5, <1>6, <1>7 DEF MoneyKept, Grown

\* Book changes one count of the ledgers.
LEMMA BookFields ==
  ASSUME NEW d \in AppState, NEW t \in TradeIds, NEW kind \in Bookings
  PROVE  LET r == Book(d, t, kind)
         IN  /\ r \in AppState
             /\ MoneyKept(d, r) /\ r.trades = d.trades
             /\ r.outbox = d.outbox /\ r.issued = d.issued
             /\ BookedAs(d, r, t, kind)
             /\ \A o \in TradeIds \ {t} : r.booked[o] = d.booked[o]
<1> DEFINE k == [d.booked[t] EXCEPT ![kind] = @ + 1]
           b == [d.booked EXCEPT ![t] = k]
           r == [d EXCEPT !.booked = b]
<1>1. k \in [Bookings -> Nat]
  <2>1. d.booked[t] \in [Bookings -> Nat]
    BY Fields
  <2> QED
    BY <2>1
<1>2. Book(d, t, kind) = r /\ k = [d.booked[t] EXCEPT ![kind] = @ + 1]
  BY DEF Book
<1> HIDE DEF k
<1>3. /\ b \in [TradeIds -> [Bookings -> Nat]] /\ b[t] = k
      /\ \A o \in TradeIds \ {t} : b[o] = d.booked[o]
  <2>1. d.booked \in [TradeIds -> [Bookings -> Nat]]
    BY Fields
  <2> QED
    BY <1>1, <2>1
<1> HIDE DEF b
<1>4. /\ r \in AppState
      /\ r.accounts = d.accounts /\ r.netClaims = d.netClaims
      /\ r.netObligations = d.netObligations
      /\ r.trades = d.trades /\ r.outbox = d.outbox /\ r.issued = d.issued
      /\ r.booked = b
  BY <1>3 DEF AppState
<1> HIDE DEF r
<1> QED
  BY <1>2, <1>3, <1>4 DEF MoneyKept, BookedAs

\* AdvanceTrade changes one status.
LEMMA AdvanceFields ==
  ASSUME NEW d \in AppState, NEW t \in TradeIds, NEW to \in Statuses
  PROVE  LET r == AdvanceTrade(d, t, to)
         IN  /\ r \in AppState
             /\ MoneyKept(d, r) /\ r.booked = d.booked
             /\ r.outbox = d.outbox /\ r.issued = d.issued
             /\ Status(r, t) = to
             /\ r.trades[t].accepted = d.trades[t].accepted
             /\ r.trades[t].acceptedAt = d.trades[t].acceptedAt
             /\ r.trades[t].expiresAt = d.trades[t].expiresAt
             /\ OnlyTrade(d, r, t)
<1> DEFINE n == [d.trades[t] EXCEPT !.status = to]
           x == [d.trades EXCEPT ![t] = n]
           r == [d EXCEPT !.trades = x]
<1>1. AdvanceTrade(d, t, to) = r
  BY DEF AdvanceTrade
<1>2. /\ n \in Trade /\ n.status = to /\ n.accepted = d.trades[t].accepted
      /\ n.acceptedAt = d.trades[t].acceptedAt /\ n.expiresAt = d.trades[t].expiresAt
  <2>1. d.trades[t] \in Trade
    BY Fields
  <2> QED
    BY <2>1 DEF Trade
<1> HIDE DEF n
<1>3. /\ x \in [TradeIds -> Trade] /\ x[t] = n
      /\ \A o \in TradeIds \ {t} : x[o] = d.trades[o]
  <2>1. d.trades \in [TradeIds -> Trade]
    BY Fields
  <2> QED
    BY <1>2, <2>1
<1> HIDE DEF x
<1>4. /\ r \in AppState
      /\ r.accounts = d.accounts /\ r.netClaims = d.netClaims
      /\ r.netObligations = d.netObligations
      /\ r.trades = x /\ r.booked = d.booked
      /\ r.outbox = d.outbox /\ r.issued = d.issued
  BY <1>3 DEF AppState
<1> HIDE DEF r
<1> QED
  BY <1>1, <1>2, <1>3, <1>4 DEF MoneyKept, OnlyTrade, Status

-----------------------------------------------------------------------------
(***************************************************************************)
(* Soundness of a state of the store, the part of the inductive invariant  *)
(* that every handler keeps.  The balances, without what the outcomes of   *)
(* the trades brought or took, are what was minted, and with the escrow    *)
(* they add up to it, however much that is.  Besides the properties it     *)
(* says that nothing is known of a trade before an envelope was issued     *)
(* about it, and that the outboxes hold issued envelopes only: without it  *)
(* a handler could start a trade a second time.                            *)
(***************************************************************************)
ClosedAt(d, t) ==
  /\ Status(d, t) \in {Absent, OfferPendingExport, OfferReceived, Expired, Cancelled}
        => ~d.trades[t].accepted
  /\ Paid(d, t) => d.trades[t].acceptedAt <= d.trades[t].expiresAt

FreshAt(d, t) == d.issued[t] = 0 => Status(d, t) = Absent

Issued(d, E) == \A e \in E : d.issued[e.trade] > 0

Holder(d, t) == HolderOf(Status(d, t))

EarnedAt(d, u, t) == IF Holder(d, t) = "seller" /\ Seller[t] = u THEN Price[t] ELSE 0
SpentAt(d, u, t)  == IF Holder(d, t) \in {"escrow", "seller"} /\ Buyer[t] = u
                     THEN Price[t] ELSE 0

\* What a trader earned as a seller and what left the balance as a buyer.
EarnedIn(d, u) == [t \in TradeIds |-> EarnedAt(d, u, t)]
SpentIn(d, u)  == [t \in TradeIds |-> SpentAt(d, u, t)]

\* What must have been minted for a trader, given the outcomes of the trades.
Minted(d) ==
  [u \in Traders |-> d.accounts[u] - Total(EarnedIn(d, u)) + Total(SpentIn(d, u))]

Holdings(d) == Total(d.accounts) + Total(Escrow(d))

Sound(d) ==
  /\ Minted(d) \in [Traders -> Nat] /\ Holdings(d) = Total(Minted(d))
  /\ BookedOnceIn(d)
  /\ NetPositionsMirrorIn(d)
  /\ AmountsFitIn(d)
  /\ \A t \in TradeIds : ClosedAt(d, t) /\ FreshAt(d, t)
  /\ \A c \in Colonies : Issued(d, d.outbox[c])

(***************************************************************************)
(* The moves of the money of a trade t.                                    *)
(***************************************************************************)
AccountMoved(d, r, u, amount) ==
  /\ r.accounts[u] = d.accounts[u] + amount
  /\ \A v \in Traders \ {u} : r.accounts[v] = d.accounts[v]

Stays(d, r, t) ==
  /\ MoneyKept(d, r) /\ r.booked[t] = d.booked[t]
  /\ Holder(r, t) = Holder(d, t)

Goes(d, r, t) ==
  /\ Holder(d, t) = "nobody" /\ Holder(r, t) = "escrow"
  /\ AccountMoved(d, r, Buyer[t], -Price[t])
  /\ r.netClaims = d.netClaims /\ r.netObligations = d.netObligations
  /\ BookedAs(d, r, t, "trade_accepted")

IsPaid(d, r, t) ==
  /\ Holder(d, t) = "escrow" /\ Holder(r, t) = "seller"
  /\ CreditFits(d, t)
  /\ AccountMoved(d, r, Seller[t], Price[t])
  /\ r.netClaims = [d.netClaims EXCEPT ![Claim(t)] = @ + Price[t]]
  /\ r.netObligations = [d.netObligations EXCEPT ![Debt(t)] = @ + Price[t]]
  /\ BookedAs(d, r, t, "trade_acceptance_imported")

IsReturned(d, r, t) ==
  /\ Holder(d, t) = "escrow" /\ Holder(r, t) = "refunded"
  /\ Fits(d.accounts[Buyer[t]], Price[t])
  /\ AccountMoved(d, r, Buyer[t], Price[t])
  /\ r.netClaims = d.netClaims /\ r.netObligations = d.netObligations
  /\ \/ BookedAs(d, r, t, "trade_refunded")
     \/ BookedAs(d, r, t, "trade_force_refunded")

Moves(d, r, t) ==
  /\ OnlyTrade(d, r, t)
  /\ Stays(d, r, t) \/ Goes(d, r, t) \/ IsPaid(d, r, t) \/ IsReturned(d, r, t)

\* No price goes into the escrow; those that leave it are paid or returned.
Resolves(d, r) ==
  \A t \in TradeIds :
    \/ Holder(r, t) = Holder(d, t)
    \/ Holder(d, t) = "escrow" /\ Holder(r, t) \in {"seller", "refunded"}

\* The price of t goes into the escrow, out of a balance that has it.
Enters(d, r, t) ==
  /\ Holder(d, t) = "nobody" /\ Holder(r, t) = "escrow"
  /\ d.accounts[Buyer[t]] >= Price[t]
  /\ \A o \in TradeIds \ {t} : Holder(r, o) = Holder(d, o)

\* Who holds the price, in terms of the status.
LEMMA HolderOfStatus ==
  ASSUME NEW s
  PROVE  /\ HolderOf(s) = "escrow" <=> IsEscrowed(s)
         /\ HolderOf(s) = "seller" <=> s \in {SettlementPendingExport, Completed}
         /\ HolderOf(s) = "refunded" <=> s = Refunded
         /\ HolderOf(s) \in {"nobody", "escrow", "seller", "refunded"}
<1>1. CASE IsEscrowed(s)
  BY <1>1 DEF HolderOf, IsEscrowed, AcceptancePendingExport, SettlementPendingExport,
              Completed, RefundPendingExport, Refunded
<1>2. CASE s \in {SettlementPendingExport, Completed}
  BY <1>2 DEF HolderOf, IsEscrowed, AcceptancePendingExport, SettlementPendingExport,
              Completed, RefundPendingExport, Refunded
<1>3. CASE s = Refunded
  BY <1>3 DEF HolderOf, IsEscrowed, AcceptancePendingExport, SettlementPendingExport,
              Completed, RefundPendingExport, Refunded
<1>4. CASE ~IsEscrowed(s) /\ s \notin {SettlementPendingExport, Completed} /\ s # Refunded
  BY <1>4 DEF HolderOf
<1> QED
  BY <1>1, <1>2, <1>3, <1>4

\* The same for the trades of a state of the store.
LEMMA HolderFacts ==
  ASSUME NEW d, NEW t
  PROVE  /\ IsEscrowed(Status(d, t)) <=> Holder(d, t) = "escrow"
         /\ Paid(d, t) <=> Holder(d, t) = "seller"
         /\ Returned(d, t) <=> Holder(d, t) = "refunded"
         /\ Holder(d, t) \in {"nobody", "escrow", "seller", "refunded"}
<1>1. IsEscrowed(Status(d, t)) <=> Holder(d, t) = "escrow"
  BY HolderOfStatus DEF Holder
<1>2. Paid(d, t) <=> Holder(d, t) = "seller"
  BY HolderOfStatus DEF Holder, Paid
<1>3. Returned(d, t) <=> Holder(d, t) = "refunded"
  BY HolderOfStatus DEF Holder, Returned
<1>4. Holder(d, t) \in {"nobody", "escrow", "seller", "refunded"}
  BY HolderOfStatus DEF Holder
<1> QED
  BY <1>1, <1>2, <1>3, <1>4

\* The escrow of a trade is its price while the price is held there.
LEMMA EscrowType ==
  ASSUME NEW d
  PROVE  /\ Escrow(d) \in [TradeIds -> Nat]
         /\ \A t \in TradeIds :
              Escrow(d)[t] = IF Holder(d, t) = "escrow" THEN Price[t] ELSE 0
BY HolderFacts, Terms DEF Escrow

\* A move of one trade's money leaves the money of the others where it is.
LEMMA MoveKeepsOthers ==
  ASSUME NEW d, NEW r, NEW t \in TradeIds, OnlyTrade(d, r, t)
  PROVE  \A o \in TradeIds \ {t} :
           /\ Status(r, o) = Status(d, o) /\ Holder(r, o) = Holder(d, o)
           /\ Escrow(r)[o] = Escrow(d)[o]
<1> SUFFICES ASSUME NEW o \in TradeIds \ {t}
             PROVE  /\ Status(r, o) = Status(d, o) /\ Holder(r, o) = Holder(d, o)
                    /\ Escrow(r)[o] = Escrow(d)[o]
  OBVIOUS
<1>1. Status(r, o) = Status(d, o)
  BY DEF OnlyTrade, Status
<1>2. Holder(r, o) = Holder(d, o)
  BY <1>1 DEF Holder
<1> QED
  BY <1>1, <1>2, EscrowType

(***************************************************************************)
(* Each move takes from one account or from the escrow what it gives to    *)
(* the other.                                                              *)
(***************************************************************************)
LEMMA AccountsTotal ==
  ASSUME NEW d \in AppState, NEW r \in AppState, NEW u \in Traders, NEW amount \in Int,
         AccountMoved(d, r, u, amount)
  PROVE  Total(r.accounts) = Total(d.accounts) + amount
<1>1. d.accounts \in [Traders -> Nat] /\ r.accounts \in [Traders -> Nat]
  BY Fields
<1>2. IsFiniteSet(Traders)
  BY DEF ProtocolAssumption
<1>3. Total(r.accounts) = Total(d.accounts) - d.accounts[u] + r.accounts[u]
  BY <1>1, <1>2, TotalChange DEF AccountMoved
<1>4. Total(d.accounts) \in Nat /\ d.accounts[u] \in Nat /\ r.accounts[u] = d.accounts[u] + amount
  BY <1>1, <1>2, UnitsFinite DEF AccountMoved
<1> QED
  BY <1>3, <1>4

\* The escrow as a whole changes by what one trade puts in or takes out.
LEMMA EscrowTotal ==
  ASSUME NEW d \in AppState, NEW r \in AppState, NEW t \in TradeIds, OnlyTrade(d, r, t)
  PROVE  /\ Total(Escrow(r)) = Total(Escrow(d)) - Escrow(d)[t] + Escrow(r)[t]
         /\ Total(Escrow(d)) \in Nat
<1>1. IsFiniteSet(TradeIds)
  BY DEF ProtocolAssumption
<1>2. Escrow(d) \in [TradeIds -> Nat] /\ Escrow(r) \in [TradeIds -> Nat]
  BY EscrowType
<1>3. \A o \in TradeIds \ {t} : Escrow(r)[o] = Escrow(d)[o]
  BY MoveKeepsOthers
<1> QED
  BY <1>1, <1>2, <1>3, TotalChange, UnitsFinite

\* So a move conserves money.
LEMMA MovesConserve ==
  ASSUME NEW d \in AppState, NEW r \in AppState, NEW t \in TradeIds,
         Moves(d, r, t)
  PROVE  Holdings(r) = Holdings(d)
<1>1. /\ Total(Escrow(r)) = Total(Escrow(d)) - Escrow(d)[t] + Escrow(r)[t]
      /\ Total(Escrow(d)) \in Nat
  BY EscrowTotal DEF Moves
<1>2. /\ Escrow(d)[t] = IF Holder(d, t) = "escrow" THEN Price[t] ELSE 0
      /\ Escrow(r)[t] = IF Holder(r, t) = "escrow" THEN Price[t] ELSE 0
  BY EscrowType
<1>3. Price[t] \in Nat /\ Seller[t] \in Traders /\ Buyer[t] \in Traders
  BY Terms
<1>4. Total(d.accounts) \in Nat
  BY Fields, UnitsFinite
<1>5. CASE Stays(d, r, t)
  BY <1>1, <1>2, <1>3, <1>4, <1>5 DEF Stays, MoneyKept, Holdings
<1>6. CASE Goes(d, r, t)
  <2>1. Total(r.accounts) = Total(d.accounts) + (-Price[t])
    BY <1>3, <1>6, AccountsTotal DEF Goes
  <2> QED
    BY <1>1, <1>2, <1>3, <1>4, <1>6, <2>1 DEF Goes, Holdings
<1>7. CASE IsPaid(d, r, t)
  <2>1. Total(r.accounts) = Total(d.accounts) + Price[t]
    BY <1>3, <1>7, AccountsTotal DEF IsPaid
  <2> QED
    BY <1>1, <1>2, <1>3, <1>4, <1>7, <2>1 DEF IsPaid, Holdings
<1>8. CASE IsReturned(d, r, t)
  <2>1. Total(r.accounts) = Total(d.accounts) + Price[t]
    BY <1>3, <1>8, AccountsTotal DEF IsReturned
  <2> QED
    BY <1>1, <1>2, <1>3, <1>4, <1>8, <2>1 DEF IsReturned, Holdings
<1> QED
  BY <1>5, <1>6, <1>7, <1>8 DEF Moves

(***************************************************************************)
(* Each move books what it does.                                           *)
(***************************************************************************)
BookedAt(d, t) ==
  LET b == d.booked[t]
  IN  /\ b["trade_accepted"] = Count(Holder(d, t) \in {"escrow", "seller", "refunded"})
      /\ b["trade_acceptance_imported"] = Count(Holder(d, t) = "seller")
      /\ b["trade_refunded"] + b["trade_force_refunded"] = Count(Holder(d, t) = "refunded")

\* BookedOnce, in terms of who holds the prices.
LEMMA BookedOnceAt ==
  ASSUME NEW d
  PROVE  BookedOnceIn(d) <=> \A t \in TradeIds : BookedAt(d, t)
<1>1. ASSUME NEW t \in TradeIds
      PROVE  /\ (IsEscrowed(Status(d, t)) \/ Paid(d, t) \/ Returned(d, t))
                  <=> Holder(d, t) \in {"escrow", "seller", "refunded"}
             /\ Paid(d, t) <=> Holder(d, t) = "seller"
             /\ Returned(d, t) <=> Holder(d, t) = "refunded"
  BY HolderFacts
<1>2. ASSUME NEW t \in TradeIds
      PROVE  /\ Count(IsEscrowed(Status(d, t)) \/ Paid(d, t) \/ Returned(d, t))
                  = Count(Holder(d, t) \in {"escrow", "seller", "refunded"})
             /\ Count(Paid(d, t)) = Count(Holder(d, t) = "seller")
             /\ Count(Returned(d, t)) = Count(Holder(d, t) = "refunded")
  BY <1>1 DEF Count
<1> QED
  BY <1>2 DEF BookedOnceIn, BookedAt

\* The ledgers' counts are numbers, of four kinds.
LEMMA BookedEntries ==
  ASSUME NEW d \in AppState, NEW t \in TradeIds
  PROVE  /\ d.booked[t] \in [Bookings -> Nat]
         /\ {"trade_accepted", "trade_acceptance_imported",
             "trade_refunded", "trade_force_refunded"} = Bookings
BY Fields DEF Bookings

\* So a move keeps the ledgers in step with the holders.
LEMMA MovesBookOnce ==
  ASSUME NEW d \in AppState, NEW r \in AppState, NEW t \in TradeIds,
         Moves(d, r, t), BookedOnceIn(d)
  PROVE  BookedOnceIn(r)
<1>1. \A o \in TradeIds : BookedAt(d, o)
  BY BookedOnceAt
<1>2. \A o \in TradeIds \ {t} : BookedAt(r, o)
  <2> TAKE o \in TradeIds \ {t}
  <2>1. OnlyTrade(d, r, t)
    BY DEF Moves
  <2>2. r.booked[o] = d.booked[o]
    BY <2>1 DEF OnlyTrade
  <2>3. Holder(r, o) = Holder(d, o)
    BY <2>1, MoveKeepsOthers
  <2>4. BookedAt(d, o)
    BY <1>1
  <2> QED
    BY <2>2, <2>3, <2>4 DEF BookedAt
<1>3. BookedAt(r, t)
  <2> DEFINE b == d.booked[t]
             c == r.booked[t]
  <2>1. b \in [Bookings -> Nat] /\ c \in [Bookings -> Nat]
    BY BookedEntries
  <2>2. /\ b["trade_accepted"] = Count(Holder(d, t) \in {"escrow", "seller", "refunded"})
        /\ b["trade_acceptance_imported"] = Count(Holder(d, t) = "seller")
        /\ b["trade_refunded"] + b["trade_force_refunded"] = Count(Holder(d, t) = "refunded")
    BY <1>1 DEF BookedAt
  <2>3. SUFFICES /\ c["trade_accepted"] = Count(Holder(r, t) \in {"escrow", "seller", "refunded"})
                 /\ c["trade_acceptance_imported"] = Count(Holder(r, t) = "seller")
                 /\ c["trade_refunded"] + c["trade_force_refunded"] = Count(Holder(r, t) = "refunded")
    BY DEF BookedAt
  <2>4. CASE Stays(d, r, t)
    BY <2>2, <2>4 DEF Stays
  <2>5. CASE Goes(d, r, t)
    <3>1. c = [b EXCEPT !["trade_accepted"] = @ + 1]
      BY <2>5 DEF Goes, BookedAs
    <3>2. Holder(d, t) = "nobody" /\ Holder(r, t) = "escrow"
      BY <2>5 DEF Goes
    <3> HIDE DEF b, c
    <3> QED
      BY <2>1, <2>2, <3>1, <3>2 DEF Count, Bookings
  <2>6. CASE IsPaid(d, r, t)
    <3>1. c = [b EXCEPT !["trade_acceptance_imported"] = @ + 1]
      BY <2>6 DEF IsPaid, BookedAs
    <3>2. Holder(d, t) = "escrow" /\ Holder(r, t) = "seller"
      BY <2>6 DEF IsPaid
    <3> HIDE DEF b, c
    <3> QED
      BY <2>1, <2>2, <3>1, <3>2 DEF Count, Bookings
  <2>7. CASE IsReturned(d, r, t)
    <3>1. \/ c = [b EXCEPT !["trade_refunded"] = @ + 1]
          \/ c = [b EXCEPT !["trade_force_refunded"] = @ + 1]
      BY <2>7 DEF IsReturned, BookedAs
    <3>2. Holder(d, t) = "escrow" /\ Holder(r, t) = "refunded"
      BY <2>7 DEF IsReturned
    <3> HIDE DEF b, c
    <3> QED
      BY <2>1, <2>2, <3>1, <3>2 DEF Count, Bookings
  <2> QED
    BY <2>4, <2>5, <2>6, <2>7 DEF Moves
<1> QED
  BY <1>2, <1>3, BookedOnceAt

(***************************************************************************)
(* Only a payment changes the net positions, on both sides alike.          *)
(***************************************************************************)
SettledAt(d, c, o, t) ==
  IF Holder(d, t) = "seller" /\ SellerColony(t) = c /\ BuyerColony(t) = o
  THEN Price[t] ELSE 0

\* The prices settled between two colonies.
LEMMA SettledType ==
  ASSUME NEW d, NEW c, NEW o
  PROVE  /\ Settled(d, c, o) \in [TradeIds -> Nat]
         /\ \A t \in TradeIds : Settled(d, c, o)[t] = SettledAt(d, c, o, t)
<1>1. ASSUME NEW t \in TradeIds
      PROVE  /\ Paid(d, t) <=> Holder(d, t) = "seller"
             /\ Price[t] \in Nat
  BY HolderFacts, Terms
<1> QED
  BY <1>1 DEF Settled, SettledAt

MirrorAt(d, c, o) ==
  /\ d.netClaims[<<c, o>>] = Total(Settled(d, c, o))
  /\ d.netObligations[<<o, c>>] = Total(Settled(d, c, o))

\* What a move of one trade adds to them.
LEMMA SettledTotal ==
  ASSUME NEW d, NEW r, NEW c, NEW o, NEW t \in TradeIds, OnlyTrade(d, r, t)
  PROVE  /\ Total(Settled(r, c, o))
              = Total(Settled(d, c, o)) - SettledAt(d, c, o, t) + SettledAt(r, c, o, t)
         /\ Total(Settled(d, c, o)) \in Nat
<1>1. IsFiniteSet(TradeIds)
  BY DEF ProtocolAssumption
<1>2. Settled(d, c, o) \in [TradeIds -> Nat] /\ Settled(r, c, o) \in [TradeIds -> Nat]
  BY SettledType
<1>3. ASSUME NEW p \in TradeIds \ {t}
      PROVE  Settled(r, c, o)[p] = Settled(d, c, o)[p]
  <2>1. Holder(r, p) = Holder(d, p)
    BY MoveKeepsOthers
  <2>2. SettledAt(r, c, o, p) = SettledAt(d, c, o, p)
    BY <2>1 DEF SettledAt
  <2> QED
    BY <2>2, SettledType
<1>4. /\ Settled(d, c, o)[t] = SettledAt(d, c, o, t)
      /\ Settled(r, c, o)[t] = SettledAt(r, c, o, t)
  BY SettledType
<1> QED
  BY <1>1, <1>2, <1>3, <1>4, TotalChange, UnitsFinite

\* So the net positions stay what was settled.
LEMMA MovesMirror ==
  ASSUME NEW d \in AppState, NEW r \in AppState, NEW t \in TradeIds,
         Moves(d, r, t), NetPositionsMirrorIn(d)
  PROVE  NetPositionsMirrorIn(r)
<1> SUFFICES ASSUME NEW c \in Colonies, NEW o \in Colonies
             PROVE  MirrorAt(r, c, o)
  BY DEF NetPositionsMirrorIn, MirrorAt
<1> DEFINE n == Total(Settled(d, c, o))
           m == Total(Settled(r, c, o))
<1>1. m = n - SettledAt(d, c, o, t) + SettledAt(r, c, o, t) /\ n \in Nat
  BY SettledTotal DEF Moves
<1>2. d.netClaims[<<c, o>>] = n /\ d.netObligations[<<o, c>>] = n
  BY DEF NetPositionsMirrorIn
<1>3. SUFFICES r.netClaims[<<c, o>>] = m /\ r.netObligations[<<o, c>>] = m
  BY DEF MirrorAt
<1>4. Price[t] \in Nat
  BY Terms
<1> HIDE DEF n, m
<1>5. CASE ~IsPaid(d, r, t)
  <2>1. r.netClaims = d.netClaims /\ r.netObligations = d.netObligations
    BY <1>5 DEF Moves, Stays, MoneyKept, Goes, IsReturned
  <2>2. Holder(r, t) = "seller" <=> Holder(d, t) = "seller"
    BY <1>5 DEF Moves, Stays, Goes, IsReturned
  <2>3. SettledAt(r, c, o, t) = SettledAt(d, c, o, t) /\ SettledAt(d, c, o, t) \in Nat
    BY <1>4, <2>2 DEF SettledAt
  <2> QED
    BY <1>1, <1>2, <2>1, <2>3
<1>6. CASE IsPaid(d, r, t)
  <2>1. /\ Holder(d, t) = "escrow" /\ Holder(r, t) = "seller"
        /\ r.netClaims = [d.netClaims EXCEPT ![Claim(t)] = @ + Price[t]]
        /\ r.netObligations = [d.netObligations EXCEPT ![Debt(t)] = @ + Price[t]]
    BY <1>6 DEF IsPaid
  <2>2. /\ d.netClaims \in [Colonies \X Colonies -> Nat]
        /\ d.netObligations \in [Colonies \X Colonies -> Nat]
    BY Fields
  <2>3. SettledAt(d, c, o, t) = 0
    BY <2>1 DEF SettledAt
  <2>4. CASE SellerColony(t) = c /\ BuyerColony(t) = o
    <3>1. SettledAt(r, c, o, t) = Price[t]
      BY <2>1, <2>4 DEF SettledAt
    <3>2. Claim(t) = <<c, o>> /\ Debt(t) = <<o, c>>
      BY <2>4 DEF Claim, Debt
    <3>3. r.netClaims[<<c, o>>] = n + Price[t] /\ r.netObligations[<<o, c>>] = n + Price[t]
      BY <1>2, <2>1, <2>2, <3>2
    <3> QED
      BY <1>1, <1>4, <2>3, <3>1, <3>3
  <2>5. CASE ~(SellerColony(t) = c /\ BuyerColony(t) = o)
    <3>1. SettledAt(r, c, o, t) = 0
      BY <2>5 DEF SettledAt
    <3>2. Claim(t) # <<c, o>> /\ Debt(t) # <<o, c>>
      BY <2>5 DEF Claim, Debt
    <3>3. r.netClaims[<<c, o>>] = n /\ r.netObligations[<<o, c>>] = n
      BY <1>2, <2>1, <2>2, <3>2
    <3> QED
      BY <1>1, <2>3, <3>1, <3>3
  <2> QED
    BY <2>4, <2>5
<1> QED
  BY <1>5, <1>6

(***************************************************************************)
(* Each move makes the balances what the outcomes of the trades then say.  *)
(***************************************************************************)
LEMMA OutcomeType ==
  ASSUME NEW d, NEW u
  PROVE  EarnedIn(d, u) \in [TradeIds -> Nat] /\ SpentIn(d, u) \in [TradeIds -> Nat]
BY Terms DEF EarnedIn, SpentIn, EarnedAt, SpentAt

\* What a move of one trade adds to what a trader earned and spent.
LEMMA OutcomeTotals ==
  ASSUME NEW d, NEW r, NEW u, NEW t \in TradeIds, OnlyTrade(d, r, t)
  PROVE  /\ Total(EarnedIn(r, u))
              = Total(EarnedIn(d, u)) - EarnedAt(d, u, t) + EarnedAt(r, u, t)
         /\ Total(SpentIn(r, u))
              = Total(SpentIn(d, u)) - SpentAt(d, u, t) + SpentAt(r, u, t)
         /\ Total(EarnedIn(d, u)) \in Nat /\ Total(SpentIn(d, u)) \in Nat
<1>1. IsFiniteSet(TradeIds)
  BY DEF ProtocolAssumption
<1>2. /\ EarnedIn(d, u) \in [TradeIds -> Nat] /\ EarnedIn(r, u) \in [TradeIds -> Nat]
      /\ SpentIn(d, u) \in [TradeIds -> Nat] /\ SpentIn(r, u) \in [TradeIds -> Nat]
  BY OutcomeType
<1>3. \A o \in TradeIds \ {t} : Holder(r, o) = Holder(d, o)
  BY MoveKeepsOthers
<1>4. /\ \A o \in TradeIds \ {t} : EarnedIn(r, u)[o] = EarnedIn(d, u)[o]
      /\ EarnedIn(d, u)[t] = EarnedAt(d, u, t) /\ EarnedIn(r, u)[t] = EarnedAt(r, u, t)
  BY <1>3 DEF EarnedIn, EarnedAt
<1>5. /\ \A o \in TradeIds \ {t} : SpentIn(r, u)[o] = SpentIn(d, u)[o]
      /\ SpentIn(d, u)[t] = SpentAt(d, u, t) /\ SpentIn(r, u)[t] = SpentAt(r, u, t)
  BY <1>3 DEF SpentIn, SpentAt
<1>6. /\ Total(EarnedIn(r, u))
           = Total(EarnedIn(d, u)) - EarnedAt(d, u, t) + EarnedAt(r, u, t)
      /\ Total(EarnedIn(d, u)) \in Nat
  BY <1>1, <1>2, <1>4, TotalChange, UnitsFinite
<1>7. /\ Total(SpentIn(r, u))
           = Total(SpentIn(d, u)) - SpentAt(d, u, t) + SpentAt(r, u, t)
      /\ Total(SpentIn(d, u)) \in Nat
  BY <1>1, <1>2, <1>5, TotalChange, UnitsFinite
<1> QED
  BY <1>6, <1>7

\* So the balances follow the outcomes, from the same amounts minted.
LEMMA MovesFollow ==
  ASSUME NEW d \in AppState, NEW r \in AppState, NEW t \in TradeIds,
         Moves(d, r, t)
  PROVE  Minted(r) = Minted(d)
<1> SUFFICES ASSUME NEW u \in Traders
             PROVE  r.accounts[u] - Total(EarnedIn(r, u)) + Total(SpentIn(r, u))
                      = d.accounts[u] - Total(EarnedIn(d, u)) + Total(SpentIn(d, u))
  BY DEF Minted
<1> DEFINE m == Total(EarnedIn(d, u))
           n == Total(SpentIn(d, u))
<1>1. /\ Total(EarnedIn(r, u)) = m - EarnedAt(d, u, t) + EarnedAt(r, u, t)
      /\ Total(SpentIn(r, u)) = n - SpentAt(d, u, t) + SpentAt(r, u, t)
      /\ m \in Nat /\ n \in Nat
  BY OutcomeTotals DEF Moves
<1>2. d.accounts[u] \in Nat /\ r.accounts[u] \in Nat
  BY Fields
<1>3. Price[t] \in Nat
  BY Terms
<1> SUFFICES r.accounts[u] - Total(EarnedIn(r, u)) + Total(SpentIn(r, u))
               = d.accounts[u] - m + n
  OBVIOUS
<1> HIDE DEF m, n
<1>4. CASE Stays(d, r, t)
  <2>1. r.accounts[u] = d.accounts[u]
    BY <1>4 DEF Stays, MoneyKept
  <2>2. /\ EarnedAt(r, u, t) = EarnedAt(d, u, t) /\ SpentAt(r, u, t) = SpentAt(d, u, t)
        /\ EarnedAt(d, u, t) \in Nat /\ SpentAt(d, u, t) \in Nat
    BY <1>3, <1>4 DEF Stays, EarnedAt, SpentAt
  <2> QED
    BY <1>1, <1>2, <1>3, <2>1, <2>2
<1>5. CASE Goes(d, r, t)
  <2>1. r.accounts[u] = IF Buyer[t] = u THEN d.accounts[u] + -Price[t] ELSE d.accounts[u]
    BY <1>5 DEF Goes, AccountMoved
  <2>2. /\ EarnedAt(d, u, t) = 0 /\ EarnedAt(r, u, t) = 0 /\ SpentAt(d, u, t) = 0
        /\ SpentAt(r, u, t) = IF Buyer[t] = u THEN Price[t] ELSE 0
    BY <1>5 DEF Goes, EarnedAt, SpentAt
  <2> QED
    BY <1>1, <1>2, <1>3, <2>1, <2>2
<1>6. CASE IsPaid(d, r, t)
  <2>1. r.accounts[u] = IF Seller[t] = u THEN d.accounts[u] + Price[t] ELSE d.accounts[u]
    BY <1>6 DEF IsPaid, AccountMoved
  <2>2. /\ EarnedAt(d, u, t) = 0
        /\ EarnedAt(r, u, t) = IF Seller[t] = u THEN Price[t] ELSE 0
        /\ SpentAt(r, u, t) = SpentAt(d, u, t) /\ SpentAt(d, u, t) \in Nat
    BY <1>3, <1>6 DEF IsPaid, EarnedAt, SpentAt
  <2> QED
    BY <1>1, <1>2, <1>3, <2>1, <2>2
<1>7. CASE IsReturned(d, r, t)
  <2>1. r.accounts[u] = IF Buyer[t] = u THEN d.accounts[u] + Price[t] ELSE d.accounts[u]
    BY <1>7 DEF IsReturned, AccountMoved
  <2>2. /\ EarnedAt(d, u, t) = 0 /\ EarnedAt(r, u, t) = 0 /\ SpentAt(r, u, t) = 0
        /\ SpentAt(d, u, t) = IF Buyer[t] = u THEN Price[t] ELSE 0
    BY <1>7 DEF IsReturned, EarnedAt, SpentAt
  <2> QED
    BY <1>1, <1>2, <1>3, <2>1, <2>2
<1> QED
  BY <1>4, <1>5, <1>6, <1>7 DEF Moves

\* Where every price stays, they go on following them.
LEMMA StillFollows ==
  ASSUME NEW d, NEW r, r.accounts = d.accounts,
         \A t \in TradeIds : Holder(r, t) = Holder(d, t)
  PROVE  Minted(r) = Minted(d)
<1>1. \A u \in Traders : EarnedIn(r, u) = EarnedIn(d, u)
  BY DEF EarnedIn, EarnedAt
<1>2. \A u \in Traders : SpentIn(r, u) = SpentIn(d, u)
  BY DEF SpentIn, SpentAt
<1> QED
  BY <1>1, <1>2 DEF Minted

\* All moves but the one into the escrow resolve.
LEMMA MoveResolves ==
  ASSUME NEW d, NEW r, NEW t \in TradeIds, OnlyTrade(d, r, t),
         Stays(d, r, t) \/ IsPaid(d, r, t) \/ IsReturned(d, r, t)
  PROVE  Moves(d, r, t) /\ Resolves(d, r)
<1>1. \A o \in TradeIds \ {t} : Holder(r, o) = Holder(d, o)
  BY MoveKeepsOthers
<1>2. \/ Holder(r, t) = Holder(d, t)
      \/ Holder(d, t) = "escrow" /\ Holder(r, t) \in {"seller", "refunded"}
  BY DEF Stays, IsPaid, IsReturned
<1> QED
  BY <1>1, <1>2 DEF Moves, Resolves

(***************************************************************************)
(* A move adds only what was checked to fit.                               *)
(***************************************************************************)
LEMMA MovesFit ==
  ASSUME NEW d \in AppState, NEW r \in AppState, NEW t \in TradeIds,
         Moves(d, r, t), AmountsFitIn(d)
  PROVE  AmountsFitIn(r)
<1>1. Price[t] \in Nat /\ Seller[t] \in Traders /\ Buyer[t] \in Traders /\ MaxInt64 \in Nat
  BY Terms DEF ProtocolAssumption
<1>2. /\ d.accounts \in [Traders -> Nat]
      /\ d.netClaims \in [Colonies \X Colonies -> Nat]
      /\ d.netObligations \in [Colonies \X Colonies -> Nat]
  BY Fields
<1>3. \A u \in Traders : r.accounts[u] <= MaxInt64
  <2>1. \A u \in Traders : d.accounts[u] <= MaxInt64
    BY DEF AmountsFitIn
  <2>2. CASE Stays(d, r, t)
    BY <2>1, <2>2 DEF Stays, MoneyKept
  <2>3. CASE Goes(d, r, t)
    BY <1>1, <1>2, <2>1, <2>3 DEF Goes, AccountMoved
  <2>4. CASE IsPaid(d, r, t)
    BY <1>1, <1>2, <2>1, <2>4 DEF IsPaid, AccountMoved, CreditFits, Fits
  <2>5. CASE IsReturned(d, r, t)
    BY <1>1, <1>2, <2>1, <2>5 DEF IsReturned, AccountMoved, Fits
  <2> QED
    BY <2>2, <2>3, <2>4, <2>5 DEF Moves
<1>4. \A p \in Colonies \X Colonies :
        r.netClaims[p] <= MaxInt64 /\ r.netObligations[p] <= MaxInt64
  <2>1. \A p \in Colonies \X Colonies :
          d.netClaims[p] <= MaxInt64 /\ d.netObligations[p] <= MaxInt64
    BY DEF AmountsFitIn
  <2>2. CASE ~IsPaid(d, r, t)
    <3>1. r.netClaims = d.netClaims /\ r.netObligations = d.netObligations
      BY <2>2 DEF Moves, Stays, MoneyKept, Goes, IsReturned
    <3> QED
      BY <2>1, <3>1
  <2>3. CASE IsPaid(d, r, t)
    <3>1. /\ d.netClaims[Claim(t)] + Price[t] <= MaxInt64
          /\ d.netObligations[Debt(t)] + Price[t] <= MaxInt64
          /\ r.netClaims = [d.netClaims EXCEPT ![Claim(t)] = @ + Price[t]]
          /\ r.netObligations = [d.netObligations EXCEPT ![Debt(t)] = @ + Price[t]]
      BY <2>3 DEF IsPaid, CreditFits, Fits
    <3> QED
      BY <1>2, <2>1, <3>1
  <2> QED
    BY <2>2, <2>3
<1> QED
  BY <1>3, <1>4 DEF AmountsFitIn

(***************************************************************************)
(* So a handler that makes a move of the money of a trade, leaves the      *)
(* trade itself in order and issues what it puts in an outbox, keeps a     *)
(* state sound.                                                            *)
(***************************************************************************)
LEMMA MoveSound ==
  ASSUME NEW d \in AppState, NEW r \in AppState, NEW t \in TradeIds,
         Sound(d), Moves(d, r, t), Grown(d, r), ClosedAt(r, t), r.issued[t] > 0
  PROVE  Sound(r) /\ Minted(r) = Minted(d)
<1>1. /\ Minted(d) \in [Traders -> Nat] /\ Holdings(d) = Total(Minted(d))
      /\ BookedOnceIn(d) /\ NetPositionsMirrorIn(d) /\ AmountsFitIn(d)
      /\ \A o \in TradeIds : ClosedAt(d, o) /\ FreshAt(d, o)
      /\ \A c \in Colonies : Issued(d, d.outbox[c])
  BY DEF Sound
<1>2. /\ Minted(r) = Minted(d) /\ Holdings(r) = Holdings(d)
      /\ BookedOnceIn(r) /\ NetPositionsMirrorIn(r) /\ AmountsFitIn(r)
  BY <1>1, MovesConserve, MovesFollow, MovesBookOnce, MovesMirror, MovesFit
<1>3. d.issued \in [TradeIds -> Nat] /\ r.issued \in [TradeIds -> Nat]
  BY Fields
<1>4. ASSUME NEW o \in TradeIds
      PROVE  ClosedAt(r, o) /\ FreshAt(r, o)
  <2>1. CASE o = t
    BY <1>3, <2>1 DEF FreshAt
  <2>2. CASE o # t
    <3>1. r.trades[o] = d.trades[o] /\ Status(r, o) = Status(d, o)
      BY <2>2 DEF Moves, OnlyTrade, Status
    <3>2. ClosedAt(d, o) /\ FreshAt(d, o)
      BY <1>1
    <3>3. ClosedAt(r, o)
      BY <3>1, <3>2 DEF ClosedAt, Paid
    <3>4. r.issued[o] = 0 => d.issued[o] = 0
      BY <1>3 DEF Grown
    <3> QED
      BY <3>1, <3>2, <3>3, <3>4 DEF FreshAt
  <2> QED
    BY <2>1, <2>2
<1>5. ASSUME NEW c \in Colonies, NEW e \in r.outbox[c]
      PROVE  r.issued[e.trade] > 0
  <2>1. d.outbox \in [Colonies -> SUBSET Envelope]
    BY Fields
  <2>2. CASE e \in d.outbox[c]
    <3>1. e \in Envelope /\ e.trade \in TradeIds
      BY <2>1, <2>2, Routes
    <3>2. d.issued[e.trade] > 0
      BY <1>1, <2>2 DEF Issued
    <3> QED
      BY <1>3, <3>1, <3>2 DEF Grown
  <2> QED
    BY <2>2 DEF Grown
<1> QED
  BY <1>1, <1>2, <1>4, <1>5 DEF Sound, Issued

-----------------------------------------------------------------------------
(***************************************************************************)
(* Single assignments of the handlers.                                     *)
(***************************************************************************)
WithTrade(d, t, n)     == [d EXCEPT !.trades[t] = n]
WithAccounts(d, x)     == [d EXCEPT !.accounts = x]
WithPositions(d, x, y) == [d EXCEPT !.netClaims = x, !.netObligations = y]
Accepted(n, accepted)  == [n EXCEPT !.accepted = accepted]
AcceptedAt(n, at)      == [n EXCEPT !.acceptedAt = at]

\* One trade is written.
LEMMA RecordFields ==
  ASSUME NEW d \in AppState, NEW t \in TradeIds, NEW n \in Trade
  PROVE  LET r == WithTrade(d, t, n)
         IN  /\ r \in AppState
             /\ MoneyKept(d, r) /\ r.booked = d.booked
             /\ r.outbox = d.outbox /\ r.issued = d.issued
             /\ r.trades[t] = n /\ OnlyTrade(d, r, t)
<1> DEFINE x == [d.trades EXCEPT ![t] = n]
           r == [d EXCEPT !.trades = x]
<1>1. /\ x \in [TradeIds -> Trade] /\ x[t] = n
      /\ \A o \in TradeIds \ {t} : x[o] = d.trades[o]
  <2>1. d.trades \in [TradeIds -> Trade]
    BY Fields
  <2> QED
    BY <2>1
<1>2. WithTrade(d, t, n) = r
  BY DEF WithTrade
<1> HIDE DEF x
<1>3. /\ r \in AppState
      /\ r.accounts = d.accounts /\ r.netClaims = d.netClaims
      /\ r.netObligations = d.netObligations
      /\ r.trades = x /\ r.booked = d.booked
      /\ r.outbox = d.outbox /\ r.issued = d.issued
  BY <1>1 DEF AppState
<1> HIDE DEF r
<1> QED
  BY <1>1, <1>2, <1>3 DEF MoneyKept, OnlyTrade

\* AcceptTrade and importAcceptance record the acceptance in the trade.
LEMMA AcceptedFields ==
  ASSUME NEW n \in Trade, NEW accepted \in BOOLEAN
  PROVE  LET m == Accepted(n, accepted)
         IN  /\ m \in Trade /\ m.status = n.status /\ m.accepted = accepted
             /\ m.acceptedAt = n.acceptedAt /\ m.expiresAt = n.expiresAt
BY DEF Trade, Accepted

\* They record when it was signed as well.
LEMMA AcceptedAtFields ==
  ASSUME NEW n \in Trade, NEW at \in Nat
  PROVE  LET m == AcceptedAt(n, at)
         IN  /\ m \in Trade /\ m.status = n.status /\ m.accepted = n.accepted
             /\ m.acceptedAt = at /\ m.expiresAt = n.expiresAt
BY DEF Trade, AcceptedAt

\* The accounts are written.
LEMMA AccountFields ==
  ASSUME NEW d \in AppState, NEW x \in [Traders -> Nat]
  PROVE  LET r == WithAccounts(d, x)
         IN  /\ r \in AppState
             /\ r.accounts = x
             /\ r.netClaims = d.netClaims /\ r.netObligations = d.netObligations
             /\ r.trades = d.trades /\ r.booked = d.booked
             /\ r.outbox = d.outbox /\ r.issued = d.issued
BY DEF AppState, WithAccounts

-----------------------------------------------------------------------------
(***************************************************************************)
(* The handlers that the import of an envelope calls.                      *)
(***************************************************************************)
Kept(d, r) ==
  /\ r \in AppState /\ Sound(r) /\ Minted(r) = Minted(d)
  /\ \A t \in TradeIds : r.issued[t] >= d.issued[t]

Keeps(d, r) == Kept(d, r) /\ Resolves(d, r)

\* A duplicate is answered with the state as it was found.
LEMMA KeepsSame ==
  ASSUME NEW d \in AppState, Sound(d)
  PROVE  Keeps(d, d)
BY Fields DEF Keeps, Kept, Resolves

\* The seller colony decides a refund of an acceptance in flight.
LEMMA DecideRefundKeeps ==
  ASSUME NEW d \in AppState, Sound(d), NEW e \in Envelope,
         Status(d, e.trade) = AcceptancePendingExport,
         DecideRefund(d, e).ok
  PROVE  Keeps(d, DecideRefund(d, e).state)
<1> DEFINE t == e.trade
           a == AdvanceTrade(d, t, RefundPendingExport)
           v == a.trades[t].accepted \/ e.type = "acceptance"
           n == Accepted(a.trades[t], v)
           b == WithTrade(a, t, n)
           r == Emit(b, "refund", t, 0)
<1>1. t \in TradeIds /\ "refund" \in MessageTypes /\ 0 \in Nat
  BY Routes DEF MessageTypes
<1>2. DecideRefund(d, e).state = r
  <2>1. DecideRefund(d, e) = Ok(r)
    BY DEF DecideRefund, Ok, Refused, WithTrade, Accepted
  <2> QED
    BY <2>1 DEF Ok
<1> HIDE DEF t
<1>3. /\ a \in AppState /\ MoneyKept(d, a) /\ a.booked = d.booked
      /\ a.outbox = d.outbox /\ a.issued = d.issued
      /\ Status(a, t) = RefundPendingExport /\ OnlyTrade(d, a, t)
  BY <1>1, AdvanceFields, StatusNames
<1> HIDE DEF a
<1>4. n \in Trade /\ n.status = RefundPendingExport
  <2>1. a.trades[t] \in Trade /\ a.trades[t].status = RefundPendingExport
    BY <1>1, <1>3, Fields DEF Status
  <2>2. v \in BOOLEAN
    OBVIOUS
  <2> HIDE DEF v
  <2> QED
    BY <2>1, <2>2, AcceptedFields
<1> HIDE DEF n
<1>5. /\ b \in AppState /\ MoneyKept(a, b) /\ b.booked = a.booked
      /\ b.outbox = a.outbox /\ b.issued = a.issued
      /\ Status(b, t) = RefundPendingExport /\ OnlyTrade(a, b, t)
  BY <1>1, <1>3, <1>4, RecordFields DEF Status
<1> HIDE DEF b
<1>6. /\ r \in AppState /\ MoneyKept(b, r) /\ r.trades = b.trades /\ r.booked = b.booked
      /\ Grown(b, r) /\ r.issued[t] > 0
  BY <1>1, <1>5, EmitFields
<1> HIDE DEF r
<1>7. MoneyKept(d, r) /\ OnlyTrade(d, r, t) /\ r.booked = d.booked /\ Grown(d, r)
  BY <1>3, <1>5, <1>6 DEF MoneyKept, OnlyTrade, Grown
<1>8. Status(r, t) = RefundPendingExport /\ Status(d, t) = AcceptancePendingExport
  BY <1>5, <1>6 DEF Status, t
<1>9. Moves(d, r, t) /\ Resolves(d, r)
  <2>1. Holder(d, t) = "escrow" /\ Holder(r, t) = "escrow"
    BY <1>8, HolderFacts DEF IsEscrowed
  <2> QED
    BY <1>1, <1>7, <2>1, MoveResolves DEF Stays
<1>10. ClosedAt(r, t)
  BY <1>8 DEF ClosedAt, Paid, OfferPendingExport, OfferReceived, SettlementPendingExport,
              Completed, RefundPendingExport, Expired, Cancelled, Absent
<1>11. Sound(r) /\ Minted(r) = Minted(d)
  BY <1>1, <1>6, <1>7, <1>9, <1>10, MoveSound
<1> QED
  BY <1>2, <1>6, <1>7, <1>9, <1>11 DEF Keeps, Kept, Grown

\* The buyer's balance gets the price back out of the escrow.
LEMMA ApplyRefundKeeps ==
  ASSUME NEW d \in AppState, Sound(d), NEW t \in TradeIds, d.issued[t] > 0,
         NEW kind \in {"trade_refunded", "trade_force_refunded"},
         IsEscrowed(Status(d, t)), ApplyRefund(d, t, kind).ok
  PROVE  Keeps(d, ApplyRefund(d, t, kind).state)
<1> DEFINE a == AdvanceTrade(d, t, Refunded)
           u == Buyer[t]
           x == [a.accounts EXCEPT ![u] = @ + Price[t]]
           b == WithAccounts(a, x)
           r == Book(b, t, kind)
<1>1. u \in Traders /\ Price[t] \in Nat /\ kind \in Bookings
  BY Terms DEF Bookings
<1>2. ApplyRefund(d, t, kind).state = r /\ Fits(d.accounts[u], Price[t])
  <2>1. ApplyRefund(d, t, kind) = Ok(r) /\ Fits(d.accounts[u], Price[t])
    BY DEF ApplyRefund, Ok, Refused, WithAccounts
  <2> QED
    BY <2>1 DEF Ok
<1>3. /\ a \in AppState /\ MoneyKept(d, a) /\ a.booked = d.booked
      /\ a.outbox = d.outbox /\ a.issued = d.issued
      /\ Status(a, t) = Refunded /\ OnlyTrade(d, a, t)
  BY AdvanceFields, StatusNames
<1> HIDE DEF a
<1>4. x \in [Traders -> Nat] /\ AccountMoved(d, b, u, Price[t])
  <2>1. a.accounts \in [Traders -> Nat] /\ a.accounts = d.accounts
    BY <1>3, Fields DEF MoneyKept
  <2>2. x \in [Traders -> Nat]
    BY <1>1, <2>1
  <2>3. x[u] = d.accounts[u] + Price[t] /\ \A w \in Traders \ {u} : x[w] = d.accounts[w]
    BY <1>1, <2>1
  <2> HIDE DEF x
  <2>4. b.accounts = x
    BY <1>3, <2>2, AccountFields
  <2> QED
    BY <2>2, <2>3, <2>4 DEF AccountMoved
<1> HIDE DEF u, x
<1>5. /\ b \in AppState
      /\ b.netClaims = a.netClaims /\ b.netObligations = a.netObligations
      /\ b.trades = a.trades /\ b.booked = a.booked
      /\ b.outbox = a.outbox /\ b.issued = a.issued
  BY <1>3, <1>4, AccountFields
<1> HIDE DEF b
<1>6. /\ r \in AppState /\ MoneyKept(b, r) /\ r.trades = b.trades
      /\ r.outbox = b.outbox /\ r.issued = b.issued
      /\ BookedAs(b, r, t, kind)
      /\ \A o \in TradeIds \ {t} : r.booked[o] = b.booked[o]
  BY <1>1, <1>5, BookFields
<1> HIDE DEF r
<1>7. Status(r, t) = Refunded
  BY <1>3, <1>5, <1>6 DEF Status
<1>8. Moves(d, r, t) /\ Resolves(d, r)
  <2>1. Holder(d, t) = "escrow" /\ Holder(r, t) = "refunded"
    BY <1>7, HolderFacts DEF Returned
  <2>2. OnlyTrade(d, r, t)
    BY <1>3, <1>5, <1>6 DEF OnlyTrade
  <2>3. AccountMoved(d, r, u, Price[t]) /\ r.netClaims = d.netClaims
        /\ r.netObligations = d.netObligations
    BY <1>3, <1>4, <1>5, <1>6 DEF MoneyKept, AccountMoved
  <2>4. BookedAs(d, r, t, kind)
    BY <1>3, <1>5, <1>6 DEF BookedAs
  <2>5. IsReturned(d, r, t)
    BY <1>2, <2>1, <2>3, <2>4 DEF IsReturned, u
  <2> QED
    BY <2>2, <2>5, MoveResolves
<1>9. ClosedAt(r, t)
  BY <1>7 DEF ClosedAt, Paid, OfferPendingExport, OfferReceived, SettlementPendingExport,
              Completed, Refunded, Expired, Cancelled, Absent
<1>10. r.issued = d.issued /\ r.outbox = d.outbox
  BY <1>3, <1>5, <1>6
<1>11. Grown(d, r)
  BY <1>10, Fields DEF Grown
<1>12. Sound(r) /\ Minted(r) = Minted(d)
  BY <1>6, <1>8, <1>9, <1>10, <1>11, MoveSound
<1> QED
  BY <1>2, <1>6, <1>8, <1>11, <1>12 DEF Keeps, Kept, Grown

\* The seller is credited out of the escrow, and both net positions grow.
LEMMA CreditedFields ==
  ASSUME NEW d \in AppState, NEW e \in Envelope
  PROVE  LET t == e.trade
             r == Credited(d, e)
         IN  /\ r \in AppState
             /\ AccountMoved(d, r, Seller[t], Price[t])
             /\ r.netClaims = [d.netClaims EXCEPT ![Claim(t)] = @ + Price[t]]
             /\ r.netObligations = [d.netObligations EXCEPT ![Debt(t)] = @ + Price[t]]
             /\ r.booked = d.booked /\ r.outbox = d.outbox /\ r.issued = d.issued
             /\ OnlyTrade(d, r, t)
             /\ Status(r, t) = SettlementPendingExport
             /\ r.trades[t].acceptedAt = e.at
             /\ r.trades[t].expiresAt = d.trades[t].expiresAt
<1> DEFINE t == e.trade
           u == Seller[t]
           a == AdvanceTrade(d, t, SettlementPendingExport)
           x == [a.accounts EXCEPT ![u] = @ + Price[t]]
           b == WithAccounts(a, x)
           y == [b.netClaims EXCEPT ![Claim(t)] = @ + Price[t]]
           z == [b.netObligations EXCEPT ![Debt(t)] = @ + Price[t]]
           c == WithPositions(b, y, z)
           f == WithTrade(c, t, Accepted(c.trades[t], TRUE))
           r == WithTrade(f, t, AcceptedAt(f.trades[t], e.at))
<1>1. /\ t \in TradeIds /\ e.at \in Nat /\ u \in Traders /\ Price[t] \in Nat
      /\ Claim(t) \in Colonies \X Colonies /\ Debt(t) \in Colonies \X Colonies
  BY Routes, Terms DEF Envelope, Claim, Debt
<1>2. Credited(d, e) = r
  BY DEF Credited, WithAccounts, WithPositions, WithTrade, Accepted, AcceptedAt
<1> HIDE DEF t
<1>3. /\ a \in AppState /\ MoneyKept(d, a) /\ a.booked = d.booked
      /\ a.outbox = d.outbox /\ a.issued = d.issued
      /\ Status(a, t) = SettlementPendingExport
      /\ a.trades[t].expiresAt = d.trades[t].expiresAt /\ OnlyTrade(d, a, t)
  BY <1>1, AdvanceFields, StatusNames
<1> HIDE DEF a
<1>4. x \in [Traders -> Nat] /\ AccountMoved(d, b, u, Price[t])
  <2>1. a.accounts \in [Traders -> Nat] /\ a.accounts = d.accounts
    BY <1>3, Fields DEF MoneyKept
  <2>2. x \in [Traders -> Nat]
    BY <1>1, <2>1
  <2>3. x[u] = d.accounts[u] + Price[t] /\ \A w \in Traders \ {u} : x[w] = d.accounts[w]
    BY <1>1, <2>1
  <2> HIDE DEF x
  <2>4. b.accounts = x
    BY <1>3, <2>2, AccountFields
  <2> QED
    BY <2>2, <2>3, <2>4 DEF AccountMoved
<1> HIDE DEF u, x
<1>5. /\ b \in AppState
      /\ b.netClaims = a.netClaims /\ b.netObligations = a.netObligations
      /\ b.trades = a.trades /\ b.booked = a.booked
      /\ b.outbox = a.outbox /\ b.issued = a.issued
  BY <1>3, <1>4, AccountFields
<1> HIDE DEF b
<1>6. /\ y \in [Colonies \X Colonies -> Nat] /\ z \in [Colonies \X Colonies -> Nat]
      /\ y = [d.netClaims EXCEPT ![Claim(t)] = @ + Price[t]]
      /\ z = [d.netObligations EXCEPT ![Debt(t)] = @ + Price[t]]
  <2>1. /\ b.netClaims \in [Colonies \X Colonies -> Nat] /\ b.netClaims = d.netClaims
        /\ b.netObligations \in [Colonies \X Colonies -> Nat]
        /\ b.netObligations = d.netObligations
    BY <1>3, <1>5, Fields DEF MoneyKept
  <2> QED
    BY <1>1, <2>1
<1> HIDE DEF y, z
<1>7. /\ c \in AppState /\ c.accounts = b.accounts
      /\ c.netClaims = y /\ c.netObligations = z
      /\ c.trades = a.trades /\ c.booked = a.booked
      /\ c.outbox = a.outbox /\ c.issued = a.issued
  <2>1. /\ y \in [Colonies \X Colonies -> Nat] /\ z \in [Colonies \X Colonies -> Nat]
        /\ b \in AppState
    BY <1>5, <1>6
  <2>2. /\ c \in AppState /\ c.accounts = b.accounts
        /\ c.netClaims = y /\ c.netObligations = z
        /\ c.trades = b.trades /\ c.booked = b.booked
        /\ c.outbox = b.outbox /\ c.issued = b.issued
    BY <2>1 DEF WithPositions, AppState
  <2> HIDE DEF c
  <2> QED
    BY <1>5, <2>2
<1> HIDE DEF c
<1>8. /\ f \in AppState /\ MoneyKept(c, f) /\ f.booked = c.booked
      /\ f.outbox = c.outbox /\ f.issued = c.issued
      /\ f.trades[t] \in Trade /\ Status(f, t) = SettlementPendingExport
      /\ f.trades[t].expiresAt = d.trades[t].expiresAt /\ OnlyTrade(c, f, t)
  <2> DEFINE n == Accepted(c.trades[t], TRUE)
  <2>1. c.trades[t] \in Trade /\ c.trades[t].status = SettlementPendingExport
        /\ c.trades[t].expiresAt = d.trades[t].expiresAt
    BY <1>1, <1>3, <1>7, Fields DEF Status
  <2>2. n \in Trade /\ n.status = SettlementPendingExport
        /\ n.expiresAt = d.trades[t].expiresAt
    BY <2>1, AcceptedFields
  <2> HIDE DEF n
  <2> QED
    BY <1>1, <1>7, <2>2, RecordFields DEF Status, n
<1> HIDE DEF f
<1>9. /\ r \in AppState /\ MoneyKept(f, r) /\ r.booked = f.booked
      /\ r.outbox = f.outbox /\ r.issued = f.issued
      /\ Status(r, t) = SettlementPendingExport /\ r.trades[t].acceptedAt = e.at
      /\ r.trades[t].expiresAt = d.trades[t].expiresAt /\ OnlyTrade(f, r, t)
  <2> DEFINE n == AcceptedAt(f.trades[t], e.at)
  <2>1. n \in Trade /\ n.status = SettlementPendingExport /\ n.acceptedAt = e.at
        /\ n.expiresAt = d.trades[t].expiresAt
    BY <1>1, <1>8, AcceptedAtFields DEF Status
  <2> HIDE DEF n
  <2> QED
    BY <1>1, <1>8, <2>1, RecordFields DEF Status, n
<1> HIDE DEF r
<1>10. r.accounts = b.accounts /\ r.netClaims = y /\ r.netObligations = z
  BY <1>7, <1>8, <1>9 DEF MoneyKept
<1>11. r.booked = d.booked /\ r.outbox = d.outbox /\ r.issued = d.issued
  BY <1>3, <1>7, <1>8, <1>9
<1>12. OnlyTrade(d, r, t)
  BY <1>3, <1>7, <1>8, <1>9 DEF OnlyTrade
<1>13. AccountMoved(d, r, u, Price[t])
  BY <1>4, <1>10 DEF AccountMoved
<1> QED
  BY <1>2, <1>6, <1>9, <1>10, <1>11, <1>12, <1>13 DEF t, u

\* The seller colony settles an acceptance that was signed in time.
LEMMA CreditSellerKeeps ==
  ASSUME NEW d \in AppState, Sound(d), NEW e \in Envelope,
         Status(d, e.trade) = AcceptancePendingExport,
         e.at <= d.trades[e.trade].expiresAt,
         CreditSeller(d, e).ok
  PROVE  Keeps(d, CreditSeller(d, e).state)
<1> DEFINE t == e.trade
           a == Credited(d, e)
           b == Emit(a, "settlement", t, 0)
           r == Book(b, t, "trade_acceptance_imported")
<1>1. /\ t \in TradeIds /\ "settlement" \in MessageTypes /\ 0 \in Nat
      /\ "trade_acceptance_imported" \in Bookings
  BY Routes DEF MessageTypes, Bookings
<1>2. CreditSeller(d, e).state = r /\ CreditFits(d, t)
  <2>1. CreditSeller(d, e) = Ok(r) /\ CreditFits(d, t)
    BY DEF CreditSeller, Ok, Refused
  <2> QED
    BY <2>1 DEF Ok
<1>3. /\ a \in AppState
      /\ AccountMoved(d, a, Seller[t], Price[t])
      /\ a.netClaims = [d.netClaims EXCEPT ![Claim(t)] = @ + Price[t]]
      /\ a.netObligations = [d.netObligations EXCEPT ![Debt(t)] = @ + Price[t]]
      /\ a.booked = d.booked /\ a.outbox = d.outbox /\ a.issued = d.issued
      /\ OnlyTrade(d, a, t)
      /\ Status(a, t) = SettlementPendingExport
      /\ a.trades[t].acceptedAt <= a.trades[t].expiresAt
  BY CreditedFields
<1> HIDE DEF a
<1>4. Status(d, t) = AcceptancePendingExport
  OBVIOUS
<1> HIDE DEF t
<1>5. /\ b \in AppState /\ MoneyKept(a, b) /\ b.trades = a.trades /\ b.booked = a.booked
      /\ Grown(a, b) /\ b.issued[t] > 0
  BY <1>1, <1>3, EmitFields
<1> HIDE DEF b
<1>6. /\ r \in AppState /\ MoneyKept(b, r) /\ r.trades = b.trades
      /\ r.outbox = b.outbox /\ r.issued = b.issued
      /\ BookedAs(b, r, t, "trade_acceptance_imported")
      /\ \A o \in TradeIds \ {t} : r.booked[o] = b.booked[o]
  BY <1>1, <1>5, BookFields
<1> HIDE DEF r
<1>7. /\ Status(r, t) = SettlementPendingExport
      /\ r.trades[t].acceptedAt <= r.trades[t].expiresAt
  BY <1>3, <1>5, <1>6 DEF Status
<1>8. Grown(d, r)
  BY <1>3, <1>5, <1>6 DEF Grown
<1>9. Moves(d, r, t) /\ Resolves(d, r)
  <2>1. Holder(d, t) = "escrow" /\ Holder(r, t) = "seller"
    BY <1>4, <1>7, HolderFacts DEF Paid, IsEscrowed
  <2>2. OnlyTrade(d, r, t)
    BY <1>3, <1>5, <1>6 DEF OnlyTrade
  <2>3. /\ r.accounts = a.accounts /\ r.netClaims = a.netClaims
        /\ r.netObligations = a.netObligations
    BY <1>5, <1>6 DEF MoneyKept
  <2>4. AccountMoved(d, r, Seller[t], Price[t])
    BY <1>3, <2>3 DEF AccountMoved
  <2>5. BookedAs(d, r, t, "trade_acceptance_imported")
    BY <1>3, <1>5, <1>6 DEF BookedAs
  <2>6. IsPaid(d, r, t)
    BY <1>2, <1>3, <2>1, <2>3, <2>4, <2>5 DEF IsPaid
  <2> QED
    BY <1>1, <2>2, <2>6, MoveResolves
<1>10. ClosedAt(r, t)
  BY <1>7 DEF ClosedAt, Paid, OfferPendingExport, OfferReceived, SettlementPendingExport,
              Completed, Refunded, Expired, Cancelled, Absent
<1>11. Sound(r) /\ Minted(r) = Minted(d)
  BY <1>1, <1>5, <1>6, <1>8, <1>9, <1>10, MoveSound
<1> QED
  BY <1>2, <1>6, <1>8, <1>9, <1>11 DEF Keeps, Kept, Grown

\* A change of status that leaves the price with whoever holds it.
LEMMA AdvanceKeeps ==
  ASSUME NEW d \in AppState, Sound(d), NEW t \in TradeIds, d.issued[t] > 0,
         NEW to \in Statuses, HolderOf(to) = Holder(d, t),
         to \in {OfferPendingExport, OfferReceived, Expired, Cancelled}
           => Status(d, t) \in {OfferPendingExport, OfferReceived}
  PROVE  Keeps(d, AdvanceTrade(d, t, to))
<1> DEFINE r == AdvanceTrade(d, t, to)
<1>1. /\ r \in AppState /\ MoneyKept(d, r) /\ r.booked = d.booked
      /\ r.outbox = d.outbox /\ r.issued = d.issued
      /\ Status(r, t) = to
      /\ r.trades[t].accepted = d.trades[t].accepted
      /\ r.trades[t].acceptedAt = d.trades[t].acceptedAt
      /\ r.trades[t].expiresAt = d.trades[t].expiresAt
      /\ OnlyTrade(d, r, t)
  BY AdvanceFields
<1> HIDE DEF r
<1>2. Grown(d, r)
  BY <1>1, Fields DEF Grown
<1>3. Moves(d, r, t) /\ Resolves(d, r)
  <2>1. Holder(r, t) = Holder(d, t)
    BY <1>1 DEF Holder
  <2> QED
    BY <1>1, <2>1, MoveResolves DEF Stays
<1>4. ClosedAt(r, t)
  <2>1. ClosedAt(d, t)
    BY DEF Sound
  <2>2. Status(r, t) \in {Absent, OfferPendingExport, OfferReceived, Expired, Cancelled}
          => ~r.trades[t].accepted
    BY <1>1, <2>1, StatusNames DEF ClosedAt
  <2>3. Paid(r, t) => Paid(d, t)
    BY <1>1, HolderFacts DEF Holder
  <2>4. Paid(r, t) => r.trades[t].acceptedAt <= r.trades[t].expiresAt
    BY <1>1, <2>1, <2>3 DEF ClosedAt
  <2> QED
    BY <2>2, <2>4 DEF ClosedAt
<1>5. Sound(r) /\ Minted(r) = Minted(d)
  BY <1>1, <1>2, <1>3, <1>4, MoveSound
<1> QED
  BY <1>1, <1>2, <1>3, <1>5 DEF Keeps, Kept, Grown, r

\* A step that is not refused is applied in its own status or changes nothing.
LEMMA StepTradeResult ==
  ASSUME NEW d, NEW t, NEW pred, NEW applied, StepTrade(d, t, pred, applied).ok
  PROVE  \/ Status(d, t) = pred /\ StepTrade(d, t, pred, applied) = applied
         \/ StepTrade(d, t, pred, applied) = Ok(d)
<1>1. ClassifyStep(Status(d, t), pred) \in {StepApply, StepTooEarly, StepDuplicate}
  BY DEF ClassifyStep
<1>2. CASE ClassifyStep(Status(d, t), pred) = StepApply
  <2>1. Status(d, t) = pred
    BY <1>2 DEF ClassifyStep, StepApply, StepTooEarly, StepDuplicate
  <2> QED
    BY <1>2, <2>1 DEF StepTrade, StepApply, StepTooEarly, StepDuplicate
<1>3. CASE ClassifyStep(Status(d, t), pred) = StepTooEarly
  BY <1>3 DEF StepTrade, StepApply, StepTooEarly, StepDuplicate, Refused
<1>4. CASE ClassifyStep(Status(d, t), pred) = StepDuplicate
  BY <1>4 DEF StepTrade, StepApply, StepTooEarly, StepDuplicate
<1> QED
  BY <1>1, <1>2, <1>3, <1>4

-----------------------------------------------------------------------------
(***************************************************************************)
(* The import of one envelope of each type, about a trade that envelopes   *)
(* were issued about.                                                      *)
(***************************************************************************)
LEMMA ImportOfferKeeps ==
  ASSUME NEW d \in AppState, Sound(d), NEW e \in Envelope, d.issued[e.trade] > 0,
         ImportOffer(d, e).ok
  PROVE  Keeps(d, ImportOffer(d, e).state)
<1> DEFINE t == e.trade
           n == [NoTrade EXCEPT !.status = OfferReceived, !.expiresAt = e.at]
           r == WithTrade(d, t, n)
<1>1. t \in TradeIds /\ e.at \in Nat
  BY Routes DEF Envelope
<1>2. CASE Status(d, t) = Absent
  <2>1. ImportOffer(d, e).state = r
    BY <1>2 DEF ImportOffer, Ok, WithTrade
  <2>2. /\ n \in Trade /\ n.status = OfferReceived /\ ~n.accepted
    BY <1>1, StatusNames DEF NoTrade, Trade
  <2> HIDE DEF n
  <2>3. /\ r \in AppState /\ MoneyKept(d, r) /\ r.booked = d.booked
        /\ r.outbox = d.outbox /\ r.issued = d.issued
        /\ Status(r, t) = OfferReceived /\ ~r.trades[t].accepted /\ OnlyTrade(d, r, t)
    BY <1>1, <2>2, RecordFields DEF Status
  <2>4. d.issued[t] > 0
    OBVIOUS
  <2> HIDE DEF r, t
  <2>5. Grown(d, r)
    BY <2>3, Fields DEF Grown
  <2>6. Holder(d, t) = "nobody" /\ Holder(r, t) = "nobody"
    BY <1>2, <2>3 DEF Holder, HolderOf, IsEscrowed, Absent, OfferReceived,
         AcceptancePendingExport, SettlementPendingExport, Completed,
         RefundPendingExport, Refunded
  <2>7. Moves(d, r, t) /\ Resolves(d, r)
    BY <1>1, <2>3, <2>6, MoveResolves DEF Stays
  <2>8. ClosedAt(r, t)
    BY <2>3 DEF ClosedAt, Paid, OfferReceived, SettlementPendingExport, Completed
  <2>9. Sound(r) /\ Minted(r) = Minted(d)
    BY <1>1, <2>3, <2>4, <2>5, <2>7, <2>8, MoveSound
  <2> QED
    BY <2>1, <2>3, <2>5, <2>7, <2>9 DEF Keeps, Kept, Grown
<1>3. CASE Status(d, t) # Absent
  <2> DEFINE applied == Ok(AdvanceTrade(d, t, OfferReceived))
  <2>1. ImportOffer(d, e) = StepTrade(d, t, OfferPendingExport, applied)
    BY <1>3 DEF ImportOffer, Refused
  <2>2. CASE ImportOffer(d, e) = Ok(d)
    BY <2>2, KeepsSame DEF Ok
  <2>3. CASE Status(d, t) = OfferPendingExport /\ ImportOffer(d, e) = applied
    <3>1. HolderOf(OfferReceived) = Holder(d, t)
      BY <2>3 DEF Holder, HolderOf, IsEscrowed, OfferPendingExport, OfferReceived,
           AcceptancePendingExport, SettlementPendingExport, Completed,
           RefundPendingExport, Refunded
    <3>2. Keeps(d, AdvanceTrade(d, t, OfferReceived))
      BY <1>1, <2>3, <3>1, StatusNames, AdvanceKeeps
    <3> QED
      BY <2>3, <3>2 DEF Ok
  <2> QED
    BY <2>1, <2>2, <2>3, StepTradeResult
<1> QED
  BY <1>2, <1>3

\* An acceptance is credited, refunded, refused or taken for a duplicate.
LEMMA ImportAcceptanceKeeps ==
  ASSUME NEW d \in AppState, Sound(d), NEW e \in Envelope, d.issued[e.trade] > 0,
         ImportAcceptance(d, e).ok
  PROVE  Keeps(d, ImportAcceptance(d, e).state)
<1>1. e.trade \in TradeIds /\ e.at \in Nat /\ d.trades[e.trade].expiresAt \in Nat
  <2>1. e.trade \in TradeIds /\ e.at \in Nat
    BY Routes DEF Envelope
  <2>2. d.trades[e.trade] \in Trade
    BY <2>1, Fields
  <2> QED
    BY <2>1, <2>2 DEF Trade
<1>2. CASE Status(d, e.trade) = AcceptancePendingExport
  <2>1. ImportAcceptance(d, e) = IF e.at > d.trades[e.trade].expiresAt
                                 THEN DecideRefund(d, e) ELSE CreditSeller(d, e)
    BY <1>2 DEF ImportAcceptance, Status, Absent, AcceptancePendingExport, Expired, Cancelled
  <2>2. CASE e.at > d.trades[e.trade].expiresAt
    BY <1>2, <2>1, <2>2, DecideRefundKeeps
  <2>3. CASE e.at <= d.trades[e.trade].expiresAt
    BY <1>1, <1>2, <2>1, <2>3, CreditSellerKeeps
  <2> QED
    BY <1>1, <2>2, <2>3
<1>3. CASE Status(d, e.trade) \in {Expired, Cancelled}
  <2>1. ~d.trades[e.trade].accepted
    BY <1>1, <1>3 DEF Sound, ClosedAt
  <2>2. ImportAcceptance(d, e) = Refused
    BY <1>3, <2>1 DEF ImportAcceptance, Status, Absent, AcceptancePendingExport, Expired,
                      Cancelled
  <2> QED
    BY <2>2 DEF Refused
<1>4. CASE Status(d, e.trade) \notin {AcceptancePendingExport, Expired, Cancelled}
  <2>1. ImportAcceptance(d, e) \in {Refused, Ok(d)}
    BY <1>4 DEF ImportAcceptance, Status
  <2>2. ImportAcceptance(d, e) = Ok(d)
    BY <2>1 DEF Refused
  <2> QED
    BY <2>2, KeepsSame DEF Ok
<1> QED
  BY <1>2, <1>3, <1>4

\* A settlement completes the trade at the buyer colony.
LEMMA ImportSettlementKeeps ==
  ASSUME NEW d \in AppState, Sound(d), NEW e \in Envelope, d.issued[e.trade] > 0,
         ImportSettlement(d, e).ok
  PROVE  Keeps(d, ImportSettlement(d, e).state)
<1> DEFINE t == e.trade
           applied == Ok(AdvanceTrade(d, t, Completed))
<1>1. t \in TradeIds
  BY Routes
<1>2. ImportSettlement(d, e) = StepTrade(d, t, SettlementPendingExport, applied)
  BY DEF ImportSettlement, Refused
<1>3. CASE ImportSettlement(d, e) = Ok(d)
  BY <1>3, KeepsSame DEF Ok
<1>4. CASE Status(d, t) = SettlementPendingExport /\ ImportSettlement(d, e) = applied
  <2>1. HolderOf(Completed) = Holder(d, t)
    BY <1>4 DEF Holder, HolderOf, IsEscrowed, AcceptancePendingExport,
         SettlementPendingExport, Completed, RefundPendingExport, Refunded
  <2>2. Completed \notin {OfferPendingExport, OfferReceived, Expired, Cancelled}
    BY DEF Completed, OfferPendingExport, OfferReceived, Expired, Cancelled
  <2>3. Keeps(d, AdvanceTrade(d, t, Completed))
    BY <1>1, <2>1, <2>2, StatusNames, AdvanceKeeps
  <2> QED
    BY <1>4, <2>3 DEF Ok
<1> QED
  BY <1>2, <1>3, <1>4, StepTradeResult

\* A request to cancel makes the seller colony decide a refund.
LEMMA ImportCancelKeeps ==
  ASSUME NEW d \in AppState, Sound(d), NEW e \in Envelope, d.issued[e.trade] > 0,
         ImportCancel(d, e).ok
  PROVE  Keeps(d, ImportCancel(d, e).state)
<1>1. ImportCancel(d, e)
        = StepTrade(d, e.trade, AcceptancePendingExport, DecideRefund(d, e))
  BY DEF ImportCancel, Refused
<1>2. CASE ImportCancel(d, e) = Ok(d)
  BY <1>2, KeepsSame DEF Ok
<1>3. CASE /\ Status(d, e.trade) = AcceptancePendingExport
           /\ ImportCancel(d, e) = DecideRefund(d, e)
  BY <1>3, DecideRefundKeeps
<1> QED
  BY <1>1, <1>2, <1>3, StepTradeResult

\* A refund envelope gives the buyer the price back.
LEMMA ImportRefundKeeps ==
  ASSUME NEW d \in AppState, Sound(d), NEW e \in Envelope, d.issued[e.trade] > 0,
         ImportRefund(d, e).ok
  PROVE  Keeps(d, ImportRefund(d, e).state)
<1> DEFINE applied == ApplyRefund(d, e.trade, "trade_refunded")
<1>1. ImportRefund(d, e) = StepTrade(d, e.trade, RefundPendingExport, applied)
  BY DEF ImportRefund, Refused
<1>2. CASE ImportRefund(d, e) = Ok(d)
  BY <1>2, KeepsSame DEF Ok
<1>3. CASE Status(d, e.trade) = RefundPendingExport /\ ImportRefund(d, e) = applied
  <2>1. IsEscrowed(Status(d, e.trade)) /\ e.trade \in TradeIds
    BY <1>3, Routes DEF IsEscrowed
  <2> QED
    BY <1>3, <2>1, ApplyRefundKeeps
<1> QED
  BY <1>1, <1>2, <1>3, StepTradeResult

\* Nothing that soundness depends on changes, but for envelopes that leave an outbox.
Quiet(d, r) ==
  /\ MoneyKept(d, r) /\ r.trades = d.trades /\ r.booked = d.booked /\ r.issued = d.issued
  /\ \A c \in Colonies : r.outbox[c] \subseteq d.outbox[c]

\* Such a change keeps a state sound.
LEMMA QuietKeeps ==
  ASSUME NEW d \in AppState, Sound(d), NEW r \in AppState, Quiet(d, r)
  PROVE  Keeps(d, r)
<1>1. \A t : Status(r, t) = Status(d, t)
  BY DEF Quiet, Status
<1>2. Escrow(r) = Escrow(d)
  BY <1>1 DEF Escrow
<1>3. Holdings(r) = Holdings(d)
  BY <1>2 DEF Holdings, Quiet, MoneyKept
<1>4. BookedOnceIn(r)
  BY <1>1 DEF Sound, BookedOnceIn, Quiet, Paid, Returned
<1>5. \A c, o \in Colonies : Settled(r, c, o) = Settled(d, c, o)
  BY <1>1 DEF Settled, Paid
<1>6. NetPositionsMirrorIn(r)
  BY <1>5 DEF Sound, NetPositionsMirrorIn, Quiet, MoneyKept
<1>7. AmountsFitIn(r)
  BY DEF Sound, AmountsFitIn, Quiet, MoneyKept
<1>8. \A t \in TradeIds : ClosedAt(r, t) /\ FreshAt(r, t)
  BY <1>1 DEF Sound, ClosedAt, FreshAt, Quiet, Paid
<1>9. \A c \in Colonies : Issued(r, r.outbox[c])
  BY DEF Sound, Issued, Quiet
<1>10. \A t \in TradeIds : Holder(r, t) = Holder(d, t)
  BY <1>1 DEF Holder
<1>11. Minted(r) = Minted(d)
  BY <1>10, StillFollows DEF Quiet, MoneyKept
<1>12. Sound(r)
  BY <1>3, <1>4, <1>6, <1>7, <1>8, <1>9, <1>11 DEF Sound
<1> QED
  BY <1>10, <1>11, <1>12, Fields DEF Keeps, Kept, Quiet, Resolves

\* Two changes in a row.
LEMMA KeepsTwice ==
  ASSUME NEW d \in AppState, NEW m \in AppState, NEW r \in AppState,
         Keeps(d, m), Keeps(m, r)
  PROVE  Keeps(d, r)
<1>1. \A t \in TradeIds : d.issued[t] \in Nat /\ m.issued[t] \in Nat /\ r.issued[t] \in Nat
  BY Fields
<1> QED
  BY <1>1 DEF Keeps, Kept, Resolves

\* So the import of any envelope keeps a state sound.
LEMMA ImportEnvelopeKeeps ==
  ASSUME NEW d \in AppState, Sound(d), NEW e \in Envelope, d.issued[e.trade] > 0,
         ImportEnvelope(d, e).ok
  PROVE  Keeps(d, ImportEnvelope(d, e).state)
<1>1. e.type \in {"offer", "acceptance", "settlement", "cancel_request", "refund"}
  BY DEF Envelope, MessageTypes
<1>2. CASE e.type = "offer"
  BY <1>2, ImportOfferKeeps DEF ImportEnvelope
<1>3. CASE e.type = "acceptance"
  BY <1>3, ImportAcceptanceKeeps DEF ImportEnvelope
<1>4. CASE e.type = "settlement"
  BY <1>4, ImportSettlementKeeps DEF ImportEnvelope
<1>5. CASE e.type = "cancel_request"
  BY <1>5, ImportCancelKeeps DEF ImportEnvelope
<1>6. CASE e.type = "refund"
  BY <1>6, ImportRefundKeeps DEF ImportEnvelope
<1> QED
  BY <1>1, <1>2, <1>3, <1>4, <1>5, <1>6

\* An envelope that was imported is remembered by the colony it was for.
LEMMA ImportMessageKeeps ==
  ASSUME NEW d \in AppState, Sound(d), NEW e \in Envelope, d.issued[e.trade] > 0,
         NEW source \in Colonies, NEW target \in Colonies,
         ImportMessage(d, source, target, e).ok
  PROVE  Keeps(d, ImportMessage(d, source, target, e).state)
<1> DEFINE m == ImportEnvelope(d, e).state
           p == [m.processed EXCEPT ![target] = @ \cup {e.id}]
           r == [m EXCEPT !.processed = p]
<1>1. CASE ImportMessage(d, source, target, e) = Ok(d)
  BY <1>1, KeepsSame DEF Ok
<1>2. CASE ImportEnvelope(d, e).ok /\ ImportMessage(d, source, target, e) = Ok(r)
  <2>1. Keeps(d, m)
    BY <1>2, ImportEnvelopeKeeps
  <2>2. m \in AppState /\ Sound(m)
    BY <2>1 DEF Keeps, Kept
  <2>3. e.id \in TradeIds \X Nat
    BY DEF Envelope
  <2> HIDE DEF m
  <2>4. p \in [Colonies -> SUBSET (TradeIds \X Nat)]
    <3>1. m.processed \in [Colonies -> SUBSET (TradeIds \X Nat)]
      BY <2>2, Fields
    <3> QED
      BY <2>3, <3>1
  <2> HIDE DEF p
  <2>5. /\ r \in AppState /\ r.accounts = m.accounts /\ r.netClaims = m.netClaims
        /\ r.netObligations = m.netObligations /\ r.trades = m.trades
        /\ r.booked = m.booked /\ r.issued = m.issued /\ r.outbox = m.outbox
    BY <2>2, <2>4 DEF AppState
  <2> HIDE DEF r
  <2>6. Keeps(m, r)
    BY <2>2, <2>5, QuietKeeps DEF Quiet, MoneyKept
  <2>7. Keeps(d, r)
    BY <2>1, <2>2, <2>5, <2>6, KeepsTwice
  <2> QED
    BY <1>2, <2>7 DEF Ok
<1>3. CASE ImportMessage(d, source, target, e) = Refused
  BY <1>3 DEF Refused
<1> QED
  BY <1>1, <1>2, <1>3 DEF ImportMessage

-----------------------------------------------------------------------------
(***************************************************************************)
(* What the other handlers make of the store.                              *)
(***************************************************************************)
\* A trade that has a status was issued about.
LEMMA KnownIsIssued ==
  ASSUME NEW d \in AppState, Sound(d), NEW t \in TradeIds, Status(d, t) # Absent
  PROVE  d.issued[t] > 0
<1>1. d.issued[t] \in Nat
  BY Fields
<1>2. d.issued[t] # 0
  BY DEF Sound, FreshAt
<1> QED
  BY <1>1, <1>2

\* CreateOffer starts a trade that nothing is known of.
LEMMA OfferKeeps ==
  ASSUME NEW d \in AppState, Sound(d), NEW t \in TradeIds, NEW at \in Nat,
         d.issued[t] = 0
  PROVE  LET offered == [d EXCEPT !.trades[t] =
                           [NoTrade EXCEPT !.status = OfferPendingExport, !.expiresAt = at]]
         IN  Keeps(d, Emit(offered, "offer", t, at))
<1> DEFINE n == [NoTrade EXCEPT !.status = OfferPendingExport, !.expiresAt = at]
           a == WithTrade(d, t, n)
           r == Emit(a, "offer", t, at)
<1>1. n \in Trade /\ n.status = OfferPendingExport /\ ~n.accepted
  BY StatusNames DEF NoTrade, Trade
<1>2. a = [d EXCEPT !.trades[t] = n]
  BY DEF WithTrade
<1> HIDE DEF n
<1>3. /\ a \in AppState /\ MoneyKept(d, a) /\ a.booked = d.booked
      /\ a.outbox = d.outbox /\ a.issued = d.issued
      /\ Status(a, t) = OfferPendingExport /\ ~a.trades[t].accepted /\ OnlyTrade(d, a, t)
  BY <1>1, RecordFields DEF Status
<1> HIDE DEF a
<1>4. "offer" \in MessageTypes
  BY DEF MessageTypes
<1>5. /\ r \in AppState /\ MoneyKept(a, r) /\ r.trades = a.trades /\ r.booked = a.booked
      /\ Grown(a, r) /\ r.issued[t] > 0
  BY <1>3, <1>4, EmitFields
<1> HIDE DEF r
<1>6. /\ MoneyKept(d, r) /\ r.booked = d.booked /\ OnlyTrade(d, r, t) /\ Grown(d, r)
      /\ Status(r, t) = OfferPendingExport /\ ~r.trades[t].accepted
  BY <1>3, <1>5 DEF MoneyKept, OnlyTrade, Grown, Status
<1>7. Status(d, t) = Absent
  BY DEF Sound, FreshAt
<1>8. Holder(d, t) = "nobody" /\ Holder(r, t) = "nobody"
  BY <1>6, <1>7 DEF Holder, HolderOf, IsEscrowed, Absent, OfferPendingExport,
       AcceptancePendingExport, SettlementPendingExport, Completed,
       RefundPendingExport, Refunded
<1>9. Moves(d, r, t) /\ Resolves(d, r)
  BY <1>6, <1>8, MoveResolves DEF Stays
<1>10. ClosedAt(r, t)
  BY <1>6 DEF ClosedAt, Paid, OfferPendingExport, SettlementPendingExport, Completed
<1>11. Sound(r) /\ Minted(r) = Minted(d)
  BY <1>5, <1>6, <1>9, <1>10, MoveSound
<1>12. Keeps(d, r)
  BY <1>5, <1>6, <1>9, <1>11 DEF Keeps, Kept, Grown
<1> QED
  BY <1>2, <1>12 DEF n, r

\* AcceptTrade debits the buyer.
LEMMA DebitedFields ==
  ASSUME NEW d \in AppState, NEW t \in TradeIds, NEW now \in Nat,
         d.accounts[Buyer[t]] >= Price[t]
  PROVE  LET r == Debited(d, t, now)
         IN  /\ r \in AppState
             /\ AccountMoved(d, r, Buyer[t], -Price[t])
             /\ r.netClaims = d.netClaims /\ r.netObligations = d.netObligations
             /\ r.booked = d.booked /\ r.outbox = d.outbox /\ r.issued = d.issued
             /\ OnlyTrade(d, r, t)
             /\ Status(r, t) = AcceptancePendingExport
<1> DEFINE u == Buyer[t]
           a == AdvanceTrade(d, t, AcceptancePendingExport)
           x == [a.accounts EXCEPT ![u] = @ - Price[t]]
           b == WithAccounts(a, x)
           f == WithTrade(b, t, Accepted(b.trades[t], TRUE))
           r == WithTrade(f, t, AcceptedAt(f.trades[t], now))
<1>1. u \in Traders /\ Price[t] \in Nat
  BY Terms
<1>2. Debited(d, t, now) = r
  BY DEF Debited, WithAccounts, WithTrade, Accepted, AcceptedAt
<1>3. /\ a \in AppState /\ MoneyKept(d, a) /\ a.booked = d.booked
      /\ a.outbox = d.outbox /\ a.issued = d.issued
      /\ Status(a, t) = AcceptancePendingExport /\ OnlyTrade(d, a, t)
  BY AdvanceFields, StatusNames
<1> HIDE DEF a
<1>4. x \in [Traders -> Nat] /\ AccountMoved(d, b, u, -Price[t])
  <2>1. a.accounts \in [Traders -> Nat] /\ a.accounts = d.accounts
    BY <1>3, Fields DEF MoneyKept
  <2>2. x[u] = d.accounts[u] - Price[t] /\ \A w \in Traders \ {u} : x[w] = d.accounts[w]
    BY <1>1, <2>1
  <2>3. d.accounts[u] \in Nat /\ d.accounts[u] >= Price[t]
    BY <1>1, <2>1
  <2>4. d.accounts[u] - Price[t] \in Nat /\ d.accounts[u] - Price[t] = d.accounts[u] + (-Price[t])
    BY <1>1, <2>3
  <2>5. x \in [Traders -> Nat]
    BY <1>1, <2>1, <2>4
  <2> HIDE DEF x
  <2>6. b.accounts = x
    BY <1>3, <2>5, AccountFields
  <2> HIDE DEF b
  <2> QED
    BY <2>2, <2>4, <2>5, <2>6 DEF AccountMoved
<1> HIDE DEF u, x
<1>5. /\ b \in AppState
      /\ b.netClaims = a.netClaims /\ b.netObligations = a.netObligations
      /\ b.trades = a.trades /\ b.booked = a.booked
      /\ b.outbox = a.outbox /\ b.issued = a.issued
  BY <1>3, <1>4, AccountFields
<1> HIDE DEF b
<1>6. /\ f \in AppState /\ MoneyKept(b, f) /\ f.booked = b.booked
      /\ f.outbox = b.outbox /\ f.issued = b.issued
      /\ f.trades[t] \in Trade /\ Status(f, t) = AcceptancePendingExport /\ OnlyTrade(b, f, t)
  <2> DEFINE n == Accepted(b.trades[t], TRUE)
  <2>1. b.trades[t] \in Trade /\ b.trades[t].status = AcceptancePendingExport
    BY <1>3, <1>5, Fields DEF Status
  <2>2. n \in Trade /\ n.status = AcceptancePendingExport
    BY <2>1, AcceptedFields
  <2> HIDE DEF n
  <2> QED
    BY <1>5, <2>2, RecordFields DEF Status, n
<1> HIDE DEF f
<1>7. /\ r \in AppState /\ MoneyKept(f, r) /\ r.booked = f.booked
      /\ r.outbox = f.outbox /\ r.issued = f.issued
      /\ Status(r, t) = AcceptancePendingExport /\ OnlyTrade(f, r, t)
  <2> DEFINE n == AcceptedAt(f.trades[t], now)
  <2>1. n \in Trade /\ n.status = AcceptancePendingExport
    BY <1>6, AcceptedAtFields DEF Status
  <2> HIDE DEF n
  <2> QED
    BY <1>6, <2>1, RecordFields DEF Status, n
<1> HIDE DEF r
<1>8. /\ r.accounts = b.accounts
      /\ r.netClaims = d.netClaims /\ r.netObligations = d.netObligations
      /\ r.booked = d.booked /\ r.outbox = d.outbox /\ r.issued = d.issued
  BY <1>3, <1>5, <1>6, <1>7 DEF MoneyKept
<1>9. OnlyTrade(d, r, t)
  BY <1>3, <1>5, <1>6, <1>7 DEF OnlyTrade
<1>10. AccountMoved(d, r, u, -Price[t])
  BY <1>4, <1>8 DEF AccountMoved
<1> QED
  BY <1>2, <1>7, <1>8, <1>9, <1>10 DEF u

\* AcceptTrade moves the price into the escrow.
LEMMA AcceptKeeps ==
  ASSUME NEW d \in AppState, Sound(d), NEW t \in TradeIds, NEW now \in Nat,
         Status(d, t) = OfferReceived, d.accounts[Buyer[t]] >= Price[t]
  PROVE  LET r == Book(Emit(Debited(d, t, now), "acceptance", t, now), t, "trade_accepted")
         IN  Kept(d, r) /\ Enters(d, r, t)
<1> DEFINE a == Debited(d, t, now)
           b == Emit(a, "acceptance", t, now)
           r == Book(b, t, "trade_accepted")
<1>1. "acceptance" \in MessageTypes /\ "trade_accepted" \in Bookings
  BY DEF MessageTypes, Bookings
<1>2. /\ a \in AppState
      /\ AccountMoved(d, a, Buyer[t], -Price[t])
      /\ a.netClaims = d.netClaims /\ a.netObligations = d.netObligations
      /\ a.booked = d.booked /\ a.outbox = d.outbox /\ a.issued = d.issued
      /\ OnlyTrade(d, a, t)
      /\ Status(a, t) = AcceptancePendingExport
  BY DebitedFields
<1> HIDE DEF a
<1>3. /\ b \in AppState /\ MoneyKept(a, b) /\ b.trades = a.trades /\ b.booked = a.booked
      /\ Grown(a, b) /\ b.issued[t] > 0
  BY <1>1, <1>2, EmitFields
<1> HIDE DEF b
<1>4. /\ r \in AppState /\ MoneyKept(b, r) /\ r.trades = b.trades
      /\ r.outbox = b.outbox /\ r.issued = b.issued
      /\ BookedAs(b, r, t, "trade_accepted")
      /\ \A o \in TradeIds \ {t} : r.booked[o] = b.booked[o]
  BY <1>1, <1>3, BookFields
<1> HIDE DEF r
<1>5. Status(r, t) = AcceptancePendingExport
  BY <1>2, <1>3, <1>4 DEF Status
<1>6. Grown(d, r)
  BY <1>2, <1>3, <1>4 DEF Grown
<1>7. Moves(d, r, t) /\ Holder(d, t) = "nobody" /\ Holder(r, t) = "escrow"
  <2>1. Holder(d, t) = "nobody" /\ Holder(r, t) = "escrow"
    BY <1>5 DEF Holder, HolderOf, IsEscrowed, OfferReceived, AcceptancePendingExport,
         SettlementPendingExport, Completed, RefundPendingExport, Refunded
  <2>2. OnlyTrade(d, r, t)
    BY <1>2, <1>3, <1>4 DEF OnlyTrade
  <2>3. AccountMoved(d, r, Buyer[t], -Price[t]) /\ r.netClaims = d.netClaims
        /\ r.netObligations = d.netObligations
    BY <1>2, <1>3, <1>4 DEF MoneyKept, AccountMoved
  <2>4. BookedAs(d, r, t, "trade_accepted")
    BY <1>2, <1>3, <1>4 DEF BookedAs
  <2> QED
    BY <2>1, <2>2, <2>3, <2>4 DEF Moves, Goes
<1>8. ClosedAt(r, t)
  BY <1>5 DEF ClosedAt, Paid, OfferPendingExport, OfferReceived, AcceptancePendingExport,
              SettlementPendingExport, Completed, Expired, Cancelled, Absent
<1>9. Sound(r) /\ Minted(r) = Minted(d)
  BY <1>3, <1>4, <1>6, <1>7, <1>8, MoveSound
<1>10. Enters(d, r, t)
  BY <1>7, MoveKeepsOthers DEF Enters, Moves
<1> QED
  BY <1>4, <1>6, <1>9, <1>10 DEF Kept, Grown, r, b, a

\* CancelTrade withdraws an offer nobody accepted.
LEMMA WithdrawKeeps ==
  ASSUME NEW d \in AppState, Sound(d), NEW t \in TradeIds,
         Status(d, t) \in {OfferPendingExport, OfferReceived}
  PROVE  Keeps(d, AdvanceTrade(d, t, Cancelled))
<1>1. d.issued[t] > 0
  BY KnownIsIssued DEF OfferPendingExport, OfferReceived, Absent
<1>2. HolderOf(Cancelled) = Holder(d, t)
  BY DEF Holder, HolderOf, IsEscrowed, OfferPendingExport, OfferReceived,
         AcceptancePendingExport, SettlementPendingExport, Completed,
         RefundPendingExport, Refunded, Cancelled
<1> QED
  BY <1>1, <1>2, StatusNames, AdvanceKeeps

\* CancelTrade asks for the refund of an acceptance in flight.
LEMMA RequestKeeps ==
  ASSUME NEW d \in AppState, Sound(d), NEW t \in TradeIds,
         Status(d, t) = AcceptancePendingExport
  PROVE  Keeps(d, Emit(d, "cancel_request", t, 0))
<1> DEFINE r == Emit(d, "cancel_request", t, 0)
<1>1. "cancel_request" \in MessageTypes /\ 0 \in Nat
  BY DEF MessageTypes
<1>2. /\ r \in AppState /\ MoneyKept(d, r) /\ r.trades = d.trades /\ r.booked = d.booked
      /\ Grown(d, r) /\ r.issued[t] > 0
  BY <1>1, EmitFields
<1> HIDE DEF r
<1>3. Status(r, t) = Status(d, t)
  BY <1>2 DEF Status
<1>4. Moves(d, r, t) /\ Resolves(d, r)
  BY <1>2, <1>3, MoveResolves DEF Stays, OnlyTrade, Holder
<1>5. ClosedAt(r, t)
  BY <1>2, <1>3 DEF Sound, ClosedAt, Paid
<1>6. Sound(r) /\ Minted(r) = Minted(d)
  BY <1>2, <1>4, <1>5, MoveSound
<1> QED
  BY <1>2, <1>4, <1>6 DEF Keeps, Kept, Grown, r

\* ExportBundle takes envelopes out of an outbox.
LEMMA ExportKeeps ==
  ASSUME NEW d \in AppState, Sound(d), NEW c \in Colonies, NEW messages
  PROVE  Keeps(d, [d EXCEPT !.outbox[c] = @ \ messages])
<1> DEFINE o == [d.outbox EXCEPT ![c] = @ \ messages]
           r == [d EXCEPT !.outbox = o]
<1>1. /\ o \in [Colonies -> SUBSET Envelope]
      /\ \A x \in Colonies : o[x] \subseteq d.outbox[x]
  <2>1. d.outbox \in [Colonies -> SUBSET Envelope]
    BY Fields
  <2> QED
    BY <2>1
<1>2. r = [d EXCEPT !.outbox[c] = @ \ messages]
  OBVIOUS
<1> HIDE DEF o
<1>3. /\ r \in AppState /\ r.accounts = d.accounts /\ r.netClaims = d.netClaims
      /\ r.netObligations = d.netObligations /\ r.trades = d.trades
      /\ r.booked = d.booked /\ r.issued = d.issued /\ r.outbox = o
  BY <1>1 DEF AppState
<1> HIDE DEF r
<1> QED
  BY <1>1, <1>2, <1>3, QuietKeeps DEF Quiet, MoneyKept

\* TrustPeer adds a peer.
LEMMA TrustKeeps ==
  ASSUME NEW d \in AppState, Sound(d), NEW c \in Colonies, NEW p \in Colonies
  PROVE  Keeps(d, [d EXCEPT !.trusted = @ \cup {<<c, p>>}])
<1> DEFINE x == d.trusted \cup {<<c, p>>}
           r == [d EXCEPT !.trusted = x]
<1>1. x \in SUBSET (Colonies \X Colonies)
  BY Fields
<1> HIDE DEF x
<1>2. /\ r \in AppState /\ r.accounts = d.accounts /\ r.netClaims = d.netClaims
      /\ r.netObligations = d.netObligations /\ r.trades = d.trades
      /\ r.booked = d.booked /\ r.issued = d.issued /\ r.outbox = d.outbox
  BY <1>1 DEF AppState
<1> HIDE DEF r
<1>3. Keeps(d, r)
  BY <1>2, QuietKeeps DEF Quiet, MoneyKept
<1> QED
  BY <1>3 DEF r, x

\* A pending action is written, by its proposal or by its decision.
LEMMA ActionKeeps ==
  ASSUME NEW d \in AppState, Sound(d),
         NEW x \in [ActionIds -> PendingAction \cup {NoAction}]
  PROVE  Keeps(d, [d EXCEPT !.actions = x])
<1> DEFINE r == [d EXCEPT !.actions = x]
<1>1. /\ r \in AppState /\ r.accounts = d.accounts /\ r.netClaims = d.netClaims
      /\ r.netObligations = d.netObligations /\ r.trades = d.trades
      /\ r.booked = d.booked /\ r.issued = d.issued /\ r.outbox = d.outbox
  BY DEF AppState
<1> HIDE DEF r
<1>2. Keeps(d, r)
  BY <1>1, QuietKeeps DEF Quiet, MoneyKept
<1> QED
  BY <1>2 DEF r

\* ProposeForceRefund writes a new action.
LEMMA ProposalKeeps ==
  ASSUME NEW d \in AppState, Sound(d), NEW a \in ActionIds, NEW t \in TradeIds,
         NEW admin \in Admins, NEW at \in Nat
  PROVE  Keeps(d, [d EXCEPT !.actions[a] =
                     [status |-> "pending", trade |-> t, proposer |-> admin,
                      decider |-> {}, expiresAt |-> at]])
<1> DEFINE n == [status |-> "pending", trade |-> t, proposer |-> admin,
                 decider |-> {}, expiresAt |-> at]
           x == [d.actions EXCEPT ![a] = n]
<1>1. n \in PendingAction
  BY DEF PendingAction
<1> HIDE DEF n
<1>2. x \in [ActionIds -> PendingAction \cup {NoAction}]
  <2>1. d.actions \in [ActionIds -> PendingAction \cup {NoAction}]
    BY Fields
  <2> QED
    BY <1>1, <2>1
<1> HIDE DEF x
<1>3. Keeps(d, [d EXCEPT !.actions = x])
  BY <1>2, ActionKeeps
<1> QED
  BY <1>3 DEF x, n

\* A decision writes the outcome and who took it.
LEMMA DecidedKeeps ==
  ASSUME NEW d \in AppState, Sound(d), NEW a \in ActionIds, NEW admin \in Admins,
         NEW outcome \in {"approved", "rejected"}, d.actions[a] # NoAction
  PROVE  Keeps(d, Decided(d, a, admin, outcome))
<1> DEFINE n == [d.actions[a] EXCEPT !.status = outcome]
           m == [n EXCEPT !.decider = {admin}]
           y == [d.actions EXCEPT ![a] = n]
           x == [y EXCEPT ![a] = m]
           r == [d EXCEPT !.actions = y]
           f == [r EXCEPT !.actions = x]
<1>1. d.actions \in [ActionIds -> PendingAction \cup {NoAction}] /\ d.actions[a] \in PendingAction
  BY Fields
<1>2. n \in PendingAction
  BY <1>1 DEF PendingAction
<1>3. y \in [ActionIds -> PendingAction \cup {NoAction}] /\ y[a] = n
  BY <1>1, <1>2
<1>4. Keeps(d, r) /\ r.actions = y
  BY <1>3, ActionKeeps DEF AppState
<1>5. Decided(d, a, admin, outcome) = [r EXCEPT !.actions[a].decider = {admin}]
  BY DEF Decided
<1>6. [r EXCEPT !.actions[a].decider = {admin}] = f
  BY <1>3, <1>4
<1>7. m \in PendingAction
  BY <1>2 DEF PendingAction
<1> HIDE DEF n, m
<1>8. x \in [ActionIds -> PendingAction \cup {NoAction}]
  BY <1>3, <1>7
<1> HIDE DEF x, y, r
<1>9. r \in AppState /\ Sound(r)
  BY <1>4 DEF Keeps, Kept
<1>10. Keeps(r, f)
  BY <1>8, <1>9, ActionKeeps
<1> HIDE DEF f
<1>11. f \in AppState
  BY <1>10 DEF Keeps, Kept
<1> QED
  BY <1>4, <1>5, <1>6, <1>9, <1>10, <1>11, KeepsTwice

\* The sweep expires offers, whose prices nobody holds.
LEMMA SweepKeeps ==
  ASSUME NEW d \in AppState, Sound(d), NEW batch \in SUBSET TradeIds,
         \A t \in batch : Status(d, t) \in {OfferPendingExport, OfferReceived}
  PROVE  Keeps(d, [d EXCEPT !.trades =
                     [t \in TradeIds |-> IF t \in batch THEN [@[t] EXCEPT !.status = Expired]
                                                        ELSE @[t]]])
<1> DEFINE x == [t \in TradeIds |-> IF t \in batch THEN [d.trades[t] EXCEPT !.status = Expired]
                                                   ELSE d.trades[t]]
           r == [d EXCEPT !.trades = x]
<1>1. /\ x \in [TradeIds -> Trade]
      /\ \A t \in batch : x[t].status = Expired /\ x[t].accepted = d.trades[t].accepted
      /\ \A t \in TradeIds \ batch : x[t] = d.trades[t]
  <2>1. ASSUME NEW t \in TradeIds
        PROVE  /\ [d.trades[t] EXCEPT !.status = Expired] \in Trade
               /\ [d.trades[t] EXCEPT !.status = Expired].status = Expired
               /\ [d.trades[t] EXCEPT !.status = Expired].accepted = d.trades[t].accepted
    <3>1. d.trades[t] \in Trade
      BY Fields
    <3> QED
      BY <3>1, StatusNames DEF Trade
  <2>2. \A t \in TradeIds : d.trades[t] \in Trade
    BY Fields
  <2> QED
    BY <2>1, <2>2
<1> HIDE DEF x
<1>2. /\ r \in AppState /\ r.accounts = d.accounts /\ r.netClaims = d.netClaims
      /\ r.netObligations = d.netObligations /\ r.trades = x
      /\ r.booked = d.booked /\ r.issued = d.issued /\ r.outbox = d.outbox
  BY <1>1 DEF AppState
<1> HIDE DEF r
<1>3. /\ \A t \in batch : Status(r, t) = Expired /\ r.trades[t].accepted = d.trades[t].accepted
      /\ \A t \in TradeIds \ batch : r.trades[t] = d.trades[t] /\ Status(r, t) = Status(d, t)
  BY <1>1, <1>2 DEF Status
<1>4. \A t \in TradeIds : Holder(r, t) = Holder(d, t)
  <2>1. \A t \in batch : Holder(r, t) = "nobody" /\ Holder(d, t) = "nobody"
    BY <1>3 DEF Holder, HolderOf, IsEscrowed, OfferPendingExport, OfferReceived,
         AcceptancePendingExport, SettlementPendingExport, Completed,
         RefundPendingExport, Refunded, Expired
  <2> QED
    BY <1>3, <2>1 DEF Holder
<1>5. \A t \in TradeIds : /\ IsEscrowed(Status(r, t)) <=> IsEscrowed(Status(d, t))
                          /\ Paid(r, t) <=> Paid(d, t)
                          /\ Returned(r, t) <=> Returned(d, t)
  <2>1. \A t \in TradeIds : IsEscrowed(Status(r, t)) <=> IsEscrowed(Status(d, t))
    BY <1>4, HolderFacts
  <2>2. \A t \in TradeIds : Paid(r, t) <=> Paid(d, t)
    BY <1>4, HolderFacts
  <2>3. \A t \in TradeIds : Returned(r, t) <=> Returned(d, t)
    BY <1>4, HolderFacts
  <2> QED
    BY <2>1, <2>2, <2>3
<1>6. Holdings(r) = Holdings(d)
  <2>1. Escrow(r) = Escrow(d)
    BY <1>5 DEF Escrow
  <2> QED
    BY <1>2, <2>1 DEF Holdings
<1>7. BookedOnceIn(r)
  BY <1>2, <1>5, Zenon DEF Sound, BookedOnceIn, Count
<1>8. NetPositionsMirrorIn(r)
  <2>1. \A c, o \in Colonies : Settled(r, c, o) = Settled(d, c, o)
    BY <1>5 DEF Settled
  <2> QED
    BY <1>2, <2>1 DEF Sound, NetPositionsMirrorIn
<1>9. AmountsFitIn(r)
  BY <1>2 DEF Sound, AmountsFitIn
<1>10. \A t \in TradeIds : ClosedAt(r, t) /\ FreshAt(r, t)
  <2>1. ASSUME NEW t \in batch
        PROVE  ClosedAt(r, t) /\ FreshAt(r, t)
    <3>1. t \in TradeIds /\ d.issued[t] > 0
      BY KnownIsIssued DEF OfferPendingExport, OfferReceived, Absent
    <3>2. ~r.trades[t].accepted
      BY <1>3, <3>1 DEF Sound, ClosedAt
    <3>3. ~Paid(r, t)
      BY <1>3 DEF Paid, Expired, SettlementPendingExport, Completed
    <3> QED
      BY <1>2, <3>1, <3>2, <3>3 DEF ClosedAt, FreshAt
  <2>2. ASSUME NEW t \in TradeIds \ batch
        PROVE  ClosedAt(r, t) /\ FreshAt(r, t)
    BY <1>2, <1>3 DEF Sound, ClosedAt, FreshAt, Paid
  <2> QED
    BY <2>1, <2>2
<1>11. \A c \in Colonies : Issued(r, r.outbox[c])
  BY <1>2 DEF Sound, Issued
<1>12. Minted(r) = Minted(d)
  BY <1>2, <1>4, StillFollows
<1>13. Sound(r)
  BY <1>6, <1>7, <1>8, <1>9, <1>10, <1>11, <1>12 DEF Sound
<1>14. Keeps(d, r)
  BY <1>2, <1>4, <1>12, <1>13, Fields DEF Keeps, Kept, Resolves
<1> QED
  BY <1>14 DEF r, x

\* Two admins force the refund of a trade in escrow.
LEMMA ForceRefundKeeps ==
  ASSUME NEW d \in AppState, Sound(d), NEW a \in ActionIds, NEW admin \in Admins,
         d.actions[a] # NoAction,
         NEW t \in TradeIds, IsEscrowed(Status(d, t)),
         ApplyRefund(d, t, "trade_force_refunded").ok
  PROVE  Keeps(d, Decided(ApplyRefund(d, t, "trade_force_refunded").state,
                          a, admin, "approved"))
<1> DEFINE m == ApplyRefund(d, t, "trade_force_refunded").state
           r == Decided(m, a, admin, "approved")
<1>1. d.issued[t] > 0
  BY KnownIsIssued DEF IsEscrowed, AcceptancePendingExport, RefundPendingExport, Absent
<1>2. Keeps(d, m)
  BY <1>1, ApplyRefundKeeps
<1>3. m.actions = d.actions
  <2>1. m = Book([AdvanceTrade(d, t, Refunded) EXCEPT !.accounts[Buyer[t]] = @ + Price[t]],
                 t, "trade_force_refunded")
    BY DEF ApplyRefund, Ok, Refused
  <2> QED
    BY <2>1 DEF Book, AdvanceTrade, AppState
<1> HIDE DEF m
<1>4. m \in AppState /\ Sound(m) /\ m.actions[a] # NoAction
  BY <1>2, <1>3 DEF Keeps, Kept
<1>5. Keeps(m, r)
  BY <1>4, DecidedKeeps
<1> HIDE DEF r
<1>6. r \in AppState
  BY <1>5 DEF Keeps, Kept
<1>7. Keeps(d, r)
  BY <1>2, <1>4, <1>5, <1>6, KeepsTwice
<1> QED
  BY <1>7 DEF r, m

-----------------------------------------------------------------------------
(***************************************************************************)
(* What an envelope tells of its trade, for as long as no history is lost: *)
(* no trade is ever moved back, so an envelope that was issued in one      *)
(* status finds the trade in that status or past it.                       *)
(***************************************************************************)
AfterAcceptance == {AcceptancePendingExport, SettlementPendingExport, Completed,
                    RefundPendingExport, Refunded}
AfterRefund     == {RefundPendingExport, Refunded}

Tells(d, e) ==
  /\ e.id[1] = e.trade
  /\ e.type = "offer" => /\ Status(d, e.trade) # Absent
                         /\ d.trades[e.trade].expiresAt = e.at
  /\ e.type \in {"acceptance", "cancel_request"} => Status(d, e.trade) \in AfterAcceptance
  /\ e.type = "settlement" => Paid(d, e.trade)
  /\ e.type = "refund" => Status(d, e.trade) \in AfterRefund

Told(d, E) == \A e \in E : Tells(d, e)

Forward(d, r) ==
  \A t \in TradeIds :
    /\ Status(d, t) # Absent => /\ Status(r, t) # Absent
                                /\ r.trades[t].expiresAt = d.trades[t].expiresAt
    /\ Status(d, t) \in AfterAcceptance => Status(r, t) \in AfterAcceptance
    /\ Paid(d, t) => Paid(r, t)
    /\ Status(d, t) \in AfterRefund => Status(r, t) \in AfterRefund

\* What is new in an outbox tells the truth.
Sends(d, r) ==
  \A c \in Colonies : \A e \in r.outbox[c] : e \in d.outbox[c] \/ Tells(r, e)

InFlight(d, t) == Status(d, t) = AcceptancePendingExport

\* What no handler of one trade touches.
Aside(d, r) == r.processed = d.processed /\ r.actions = d.actions

Moved(d, r, t, to) ==
  /\ Status(r, t) = to /\ r.trades[t].expiresAt = d.trades[t].expiresAt
  /\ \A o \in TradeIds \ {t} : r.trades[o] = d.trades[o]

\* A transition of the table is forward.
LEMMA MovedForward ==
  ASSUME NEW d, NEW r, NEW t \in TradeIds, NEW to, Moved(d, r, t, to),
         Status(d, t) \in Statuses, TransitionAllowed(Status(d, t), to)
  PROVE  Forward(d, r) /\ \A o \in TradeIds \ {t} : Status(r, o) = Status(d, o)
<1>1. \A o \in TradeIds \ {t} : Status(r, o) = Status(d, o)
  BY DEF Moved, Status
<1>2. ASSUME NEW o \in TradeIds, o # t
      PROVE  /\ Status(d, o) # Absent => /\ Status(r, o) # Absent
                                         /\ r.trades[o].expiresAt = d.trades[o].expiresAt
             /\ Status(d, o) \in AfterAcceptance => Status(r, o) \in AfterAcceptance
             /\ Paid(d, o) => Paid(r, o)
             /\ Status(d, o) \in AfterRefund => Status(r, o) \in AfterRefund
  BY <1>1, <1>2 DEF Moved, Paid
<1>3. to \in TradeTransitions[Status(d, t)]
  BY DEF TransitionAllowed
<1>4. /\ Status(r, t) # Absent
      /\ Status(d, t) \in AfterAcceptance => Status(r, t) \in AfterAcceptance
      /\ Paid(d, t) => Paid(r, t)
      /\ Status(d, t) \in AfterRefund => Status(r, t) \in AfterRefund
  <2> DEFINE s == Status(d, t)
  <2>1. s \in Statuses /\ to \in TradeTransitions[s] /\ Status(r, t) = to
    BY <1>3 DEF Moved
  <2> HIDE DEF s
  <2>2. /\ to # Absent
        /\ s \in AfterAcceptance => to \in AfterAcceptance
        /\ s \in {SettlementPendingExport, Completed} => to \in {SettlementPendingExport, Completed}
        /\ s \in AfterRefund => to \in AfterRefund
    BY <2>1 DEF Statuses, TradeTransitions, AfterAcceptance, AfterRefund, OfferPendingExport,
         OfferReceived, AcceptancePendingExport, SettlementPendingExport, Completed,
         RefundPendingExport, Refunded, Expired, Cancelled, Absent
  <2> QED
    BY <2>1, <2>2 DEF Paid, s
<1> QED
  BY <1>1, <1>2, <1>4 DEF Forward, Moved

\* A trade that moves on leaves the outboxes and everything not of a trade alone.
LEMMA AdvanceMoves ==
  ASSUME NEW d \in AppState, NEW t \in TradeIds, NEW to \in Statuses
  PROVE  LET r == AdvanceTrade(d, t, to)
         IN  Moved(d, r, t, to) /\ Aside(d, r) /\ r.outbox = d.outbox
<1>1. Aside(d, AdvanceTrade(d, t, to))
  BY DEF Aside, AdvanceTrade, AppState
<1> QED
  BY <1>1, AdvanceFields DEF Moved, OnlyTrade

\* What Emit adds to an outbox is the one envelope it was asked for.
LEMMA EmitSends ==
  ASSUME NEW d \in AppState, NEW t \in TradeIds, NEW type \in MessageTypes, NEW at \in Nat
  PROVE  LET r == Emit(d, type, t, at)
         IN  /\ Aside(d, r) /\ r.trades = d.trades
             /\ \A c \in Colonies : \A e \in r.outbox[c] :
                  \/ e \in d.outbox[c]
                  \/ e.id[1] = t /\ e.type = type /\ e.trade = t /\ e.at = at
<1> DEFINE r == Emit(d, type, t, at)
           n == NewEnvelope(d, type, t, at)
<1>1. Aside(d, r) /\ r.outbox = [d.outbox EXCEPT ![From(n)] = @ \cup {n}]
  BY DEF Aside, Emit, AppState
<1>2. r.trades = d.trades
  BY EmitFields
<1>3. n.id[1] = t /\ n.type = type /\ n.trade = t /\ n.at = at
  BY DEF NewEnvelope
<1>4. n \in Envelope
  BY Fields DEF NewEnvelope, Envelope
<1> HIDE DEF n, r
<1>5. d.outbox \in [Colonies -> SUBSET Envelope]
  BY Fields
<1>6. From(n) \in Colonies
  BY <1>4, Routes
<1>7. \A c \in Colonies : \A e \in r.outbox[c] : e \in d.outbox[c] \/ e = n
  BY <1>1, <1>5, <1>6
<1> QED
  BY <1>1, <1>2, <1>3, <1>7 DEF r

(***************************************************************************)
(* What the import of one envelope does, before it is noted as processed:  *)
(* only an answer of the seller colony ends the flight of an acceptance,   *)
(* and only a refund that was decided before returns the money.            *)
(***************************************************************************)
Applies(d, r, e) ==
  /\ Forward(d, r) /\ Sends(d, r) /\ Aside(d, r)
  /\ \A t \in TradeIds :
       /\ InFlight(d, t) /\ ~InFlight(r, t)
            => t = e.trade /\ e.type \in {"acceptance", "cancel_request"}
       /\ Returned(r, t) /\ ~Returned(d, t)
            => t = e.trade /\ e.type = "refund" /\ ~InFlight(d, t)

\* A duplicate changes nothing.
LEMMA AppliesSame ==
  ASSUME NEW d \in AppState, NEW e
  PROVE  Applies(d, d, e)
BY DEF Applies, Forward, Sends, Aside

\* A refund decided by the seller colony tells the truth (decideRefund).
LEMMA DecideRefundApplies ==
  ASSUME NEW d \in AppState, NEW e \in Envelope, InFlight(d, e.trade),
         DecideRefund(d, e).ok, e.type \in {"acceptance", "cancel_request"}
  PROVE  Applies(d, DecideRefund(d, e).state, e)
<1> DEFINE t == e.trade
           a == AdvanceTrade(d, t, RefundPendingExport)
           v == a.trades[t].accepted \/ e.type = "acceptance"
           n == Accepted(a.trades[t], v)
           b == WithTrade(a, t, n)
           r == Emit(b, "refund", t, 0)
<1>1. t \in TradeIds /\ "refund" \in MessageTypes /\ 0 \in Nat
  BY Routes DEF MessageTypes
<1>2. DecideRefund(d, e).state = r /\ TransitionAllowed(Status(d, t), RefundPendingExport)
  <2>1. DecideRefund(d, e) = Ok(r) /\ TransitionAllowed(Status(d, t), RefundPendingExport)
    BY DEF DecideRefund, Ok, Refused, WithTrade, Accepted
  <2> QED
    BY <2>1 DEF Ok
<1>3. a \in AppState /\ Moved(d, a, t, RefundPendingExport) /\ Aside(d, a) /\ a.outbox = d.outbox
  BY <1>1, AdvanceFields, AdvanceMoves, StatusNames
<1> HIDE DEF a
<1>4. n \in Trade /\ n.status = RefundPendingExport /\ n.expiresAt = d.trades[t].expiresAt
  <2>1. /\ a.trades[t] \in Trade /\ a.trades[t].status = RefundPendingExport
        /\ a.trades[t].expiresAt = d.trades[t].expiresAt
    BY <1>1, <1>3, Fields DEF Status, Moved
  <2>2. v \in BOOLEAN
    OBVIOUS
  <2> HIDE DEF v
  <2> QED
    BY <2>1, <2>2, AcceptedFields
<1> HIDE DEF n
<1>5. b \in AppState /\ Moved(d, b, t, RefundPendingExport) /\ b.outbox = d.outbox
  BY <1>1, <1>3, <1>4, RecordFields DEF Status, Moved, OnlyTrade
<1>6. Aside(d, b)
  BY <1>1, <1>3 DEF WithTrade, Aside, AppState
<1> HIDE DEF b
<1>7. /\ Aside(b, r) /\ r.trades = b.trades
      /\ \A c \in Colonies : \A x \in r.outbox[c] :
           \/ x \in b.outbox[c]
           \/ x.id[1] = t /\ x.type = "refund" /\ x.trade = t /\ x.at = 0
  BY <1>1, <1>5, EmitSends
<1> HIDE DEF r
<1>8. Moved(d, r, t, RefundPendingExport)
  BY <1>5, <1>7 DEF Moved, Status
<1>9. Forward(d, r) /\ \A o \in TradeIds \ {t} : Status(r, o) = Status(d, o)
  <2>1. Status(d, t) \in Statuses
    BY StatusNames DEF InFlight, t
  <2> QED
    BY <1>1, <1>2, <1>8, <2>1, MovedForward
<1>10. Sends(d, r)
  BY <1>5, <1>7, <1>8 DEF Sends, Tells, Moved, AfterRefund
<1>11. \A o \in TradeIds : Returned(r, o) => Returned(d, o)
  BY <1>8, <1>9 DEF Moved, Returned, RefundPendingExport, Refunded
<1> QED
  BY <1>2, <1>6, <1>7, <1>9, <1>10, <1>11 DEF Applies, InFlight, t, Aside

\* So does a settlement (creditSeller).
LEMMA CreditSellerApplies ==
  ASSUME NEW d \in AppState, NEW e \in Envelope, InFlight(d, e.trade),
         CreditSeller(d, e).ok, e.type = "acceptance"
  PROVE  Applies(d, CreditSeller(d, e).state, e)
<1> DEFINE t == e.trade
           a == Credited(d, e)
           b == Emit(a, "settlement", t, 0)
           r == Book(b, t, "trade_acceptance_imported")
<1>1. /\ t \in TradeIds /\ "settlement" \in MessageTypes /\ 0 \in Nat
      /\ "trade_acceptance_imported" \in Bookings
  BY Routes DEF MessageTypes, Bookings
<1>2. CreditSeller(d, e).state = r /\ TransitionAllowed(Status(d, t), SettlementPendingExport)
  <2>1. CreditSeller(d, e) = Ok(r) /\ TransitionAllowed(Status(d, t), SettlementPendingExport)
    BY DEF CreditSeller, Ok, Refused
  <2> QED
    BY <2>1 DEF Ok
<1>3. a \in AppState /\ Moved(d, a, t, SettlementPendingExport) /\ a.outbox = d.outbox
  BY CreditedFields DEF Moved, OnlyTrade
<1>4. Aside(d, a)
  BY <1>1 DEF Aside, Credited, AdvanceTrade, AppState
<1> HIDE DEF a
<1>5. /\ b \in AppState /\ Aside(a, b) /\ b.trades = a.trades
      /\ \A c \in Colonies : \A x \in b.outbox[c] :
           \/ x \in a.outbox[c]
           \/ x.id[1] = t /\ x.type = "settlement" /\ x.trade = t /\ x.at = 0
  <2>1. b \in AppState
    BY <1>1, <1>3, EmitFields
  <2>2. /\ Aside(a, b) /\ b.trades = a.trades
        /\ \A c \in Colonies : \A x \in b.outbox[c] :
             \/ x \in a.outbox[c]
             \/ x.id[1] = t /\ x.type = "settlement" /\ x.trade = t /\ x.at = 0
    BY <1>1, <1>3, EmitSends
  <2> QED
    BY <2>1, <2>2
<1> HIDE DEF b
<1>6. r.trades = b.trades /\ r.outbox = b.outbox
  BY <1>1, <1>5, BookFields
<1>7. Aside(b, r)
  BY <1>1, <1>5 DEF Aside, Book, AppState
<1> HIDE DEF r
<1>8. Moved(d, r, t, SettlementPendingExport)
  BY <1>3, <1>5, <1>6 DEF Moved, Status
<1>9. Forward(d, r) /\ \A o \in TradeIds \ {t} : Status(r, o) = Status(d, o)
  <2>1. Status(d, t) \in Statuses
    BY StatusNames DEF InFlight, t
  <2> HIDE DEF t
  <2> QED
    BY <1>1, <1>2, <1>8, <2>1, MovedForward
<1>10. Sends(d, r)
  <2>1. Paid(r, t)
    BY <1>8 DEF Moved, Paid
  <2>2. ASSUME NEW c \in Colonies, NEW x \in r.outbox[c], x \notin d.outbox[c]
        PROVE  x.id[1] = t /\ x.type = "settlement" /\ x.trade = t
    BY <1>3, <1>5, <1>6, <2>2
  <2> QED
    BY <2>1, <2>2 DEF Sends, Tells
<1>11. \A o \in TradeIds : Returned(r, o) => Returned(d, o)
  BY <1>8, <1>9 DEF Moved, Returned, SettlementPendingExport, Refunded
<1> QED
  BY <1>2, <1>4, <1>5, <1>7, <1>9, <1>10, <1>11 DEF Applies, InFlight, t, Aside

\* The refund of a trade in escrow, by an envelope or by two admins.
LEMMA ApplyRefundMoves ==
  ASSUME NEW d \in AppState, NEW t \in TradeIds,
         NEW kind \in {"trade_refunded", "trade_force_refunded"},
         Status(d, t) \in Statuses, ApplyRefund(d, t, kind).ok
  PROVE  LET r == ApplyRefund(d, t, kind).state
         IN  /\ Forward(d, r) /\ r.outbox = d.outbox /\ Aside(d, r)
             /\ Status(r, t) = Refunded
             /\ \A o \in TradeIds \ {t} : Status(r, o) = Status(d, o)
<1> DEFINE a == AdvanceTrade(d, t, Refunded)
           u == Buyer[t]
           x == [a.accounts EXCEPT ![u] = @ + Price[t]]
           b == WithAccounts(a, x)
           r == Book(b, t, kind)
<1>1. u \in Traders /\ Price[t] \in Nat /\ kind \in Bookings
  BY Terms DEF Bookings
<1>2. ApplyRefund(d, t, kind).state = r /\ TransitionAllowed(Status(d, t), Refunded)
  <2>1. ApplyRefund(d, t, kind) = Ok(r) /\ TransitionAllowed(Status(d, t), Refunded)
    BY DEF ApplyRefund, Ok, Refused, WithAccounts
  <2> QED
    BY <2>1 DEF Ok
<1>3. a \in AppState /\ Moved(d, a, t, Refunded) /\ Aside(d, a) /\ a.outbox = d.outbox
  BY AdvanceFields, AdvanceMoves, StatusNames
<1> HIDE DEF a
<1>4. x \in [Traders -> Nat]
  <2>1. a.accounts \in [Traders -> Nat]
    BY <1>3, Fields
  <2> QED
    BY <1>1, <2>1
<1> HIDE DEF u, x
<1>5. b \in AppState /\ b.trades = a.trades /\ b.outbox = a.outbox
  BY <1>3, <1>4, AccountFields
<1>6. Aside(a, b)
  BY <1>3 DEF Aside, WithAccounts, AppState
<1> HIDE DEF b
<1>7. r.trades = b.trades /\ r.outbox = b.outbox
  BY <1>1, <1>5, BookFields
<1>8. Aside(b, r)
  BY <1>5 DEF Aside, Book, AppState
<1> HIDE DEF r
<1>9. Moved(d, r, t, Refunded)
  BY <1>3, <1>5, <1>7 DEF Moved, Status
<1>10. Forward(d, r) /\ \A o \in TradeIds \ {t} : Status(r, o) = Status(d, o)
  BY <1>2, <1>9, MovedForward
<1>11. r.outbox = d.outbox /\ Aside(d, r) /\ Status(r, t) = Refunded
  BY <1>3, <1>5, <1>6, <1>7, <1>8, <1>9 DEF Moved, Aside
<1> QED
  BY <1>2, <1>10, <1>11

\* An import that only moves a trade on, and not out of its flight.
LEMMA AdvanceApplies ==
  ASSUME NEW d \in AppState, NEW t \in TradeIds, NEW to \in Statuses, NEW e,
         Status(d, t) \in Statuses, TransitionAllowed(Status(d, t), to), ~InFlight(d, t), to # Refunded
  PROVE  Applies(d, AdvanceTrade(d, t, to), e)
<1> DEFINE r == AdvanceTrade(d, t, to)
<1>1. Moved(d, r, t, to) /\ Aside(d, r) /\ r.outbox = d.outbox
  BY AdvanceMoves
<1> HIDE DEF r
<1>2. Forward(d, r) /\ \A o \in TradeIds \ {t} : Status(r, o) = Status(d, o)
  BY <1>1, MovedForward
<1> QED
  BY <1>1, <1>2 DEF Applies, Sends, Aside, InFlight, Moved, Returned, r

\* The transitions that imports make.
LEMMA ImportTransitions ==
  /\ OfferReceived # Refunded /\ Completed # Refunded
  /\ TransitionAllowed(OfferPendingExport, OfferReceived)
  /\ TransitionAllowed(SettlementPendingExport, Completed)
BY DEF TransitionAllowed, TradeTransitions, Statuses, OfferPendingExport, OfferReceived,
       AcceptancePendingExport, SettlementPendingExport, Completed, RefundPendingExport,
       Refunded, Expired, Cancelled

\* The import of an offer (importOffer).
LEMMA ImportOfferApplies ==
  ASSUME NEW d \in AppState, NEW e \in Envelope, ImportOffer(d, e).ok
  PROVE  Applies(d, ImportOffer(d, e).state, e)
<1> DEFINE t == e.trade
           n == [NoTrade EXCEPT !.status = OfferReceived, !.expiresAt = e.at]
           r == WithTrade(d, t, n)
           applied == Ok(AdvanceTrade(d, t, OfferReceived))
<1>1. t \in TradeIds /\ e.at \in Nat
  BY Routes DEF Envelope
<1>2. CASE Status(d, t) = Absent
  <2>1. ImportOffer(d, e).state = r
    BY <1>2 DEF ImportOffer, Ok, WithTrade
  <2>2. n \in Trade
    BY <1>1, StatusNames DEF NoTrade, Trade
  <2> HIDE DEF n
  <2>3. r.outbox = d.outbox /\ \A o \in TradeIds \ {t} : r.trades[o] = d.trades[o]
    BY <1>1, <2>2, RecordFields DEF OnlyTrade
  <2>4. Aside(d, r)
    BY <1>1, <2>2 DEF Aside, WithTrade, AppState
  <2> HIDE DEF r
  <2>5. Status(d, t) \notin AfterAcceptance /\ Status(d, t) \notin AfterRefund /\ ~Paid(d, t)
        /\ ~InFlight(d, t)
    BY <1>2 DEF AfterAcceptance, AfterRefund, Paid, InFlight, Absent, AcceptancePendingExport,
         SettlementPendingExport, Completed, RefundPendingExport, Refunded
  <2>6. \A o \in TradeIds \ {t} : Status(r, o) = Status(d, o)
    BY <2>3 DEF Status
  <2>7. Forward(d, r)
    BY <1>2, <2>3, <2>5, <2>6 DEF Forward, Paid
  <2>8. Status(r, t) # Refunded
    <3>1. r.trades[t] = n /\ n.status = OfferReceived
      BY <1>1, <2>2, RecordFields DEF n, r
    <3> QED
      BY <3>1, ImportTransitions DEF Status
  <2> QED
    BY <2>1, <2>3, <2>4, <2>5, <2>6, <2>7, <2>8 DEF Applies, Sends, InFlight, Returned
<1>3. CASE ImportOffer(d, e) = Ok(d)
  BY <1>3, AppliesSame DEF Ok
<1>4. CASE Status(d, t) = OfferPendingExport /\ ImportOffer(d, e) = applied
  <2>1. ~InFlight(d, t)
    BY <1>4 DEF InFlight, OfferPendingExport, AcceptancePendingExport
  <2>2. Applies(d, AdvanceTrade(d, t, OfferReceived), e)
    BY <1>1, <1>4, <2>1, StatusNames, ImportTransitions, AdvanceApplies
  <2> QED
    BY <1>4, <2>2 DEF Ok
<1>5. CASE Status(d, t) # Absent
  <2>1. ImportOffer(d, e) = StepTrade(d, t, OfferPendingExport, applied)
    BY <1>5 DEF ImportOffer, Refused
  <2> QED
    BY <1>3, <1>4, <2>1, StepTradeResult
<1> QED
  BY <1>2, <1>5

\* The import of an acceptance: it is settled or refunded (importAcceptance).
LEMMA ImportAcceptanceApplies ==
  ASSUME NEW d \in AppState, Sound(d), NEW e \in Envelope, e.type = "acceptance",
         ImportAcceptance(d, e).ok
  PROVE  Applies(d, ImportAcceptance(d, e).state, e)
<1>1. e.trade \in TradeIds
  BY Routes
<1>2. CASE Status(d, e.trade) = AcceptancePendingExport
  <2>1. ImportAcceptance(d, e) = IF e.at > d.trades[e.trade].expiresAt
                                 THEN DecideRefund(d, e) ELSE CreditSeller(d, e)
    BY <1>2 DEF ImportAcceptance, Status, Absent, AcceptancePendingExport, Expired, Cancelled
  <2>2. InFlight(d, e.trade)
    BY <1>2 DEF InFlight
  <2>3. CASE e.at > d.trades[e.trade].expiresAt
    BY <2>1, <2>2, <2>3, DecideRefundApplies
  <2>4. CASE ~(e.at > d.trades[e.trade].expiresAt)
    BY <2>1, <2>2, <2>4, CreditSellerApplies
  <2> QED
    BY <2>3, <2>4
<1>3. CASE Status(d, e.trade) \in {Expired, Cancelled}
  <2>1. ~d.trades[e.trade].accepted
    BY <1>1, <1>3 DEF Sound, ClosedAt
  <2>2. ImportAcceptance(d, e) = Refused
    BY <1>3, <2>1 DEF ImportAcceptance, Status, Absent, AcceptancePendingExport, Expired,
                      Cancelled
  <2> QED
    BY <2>2 DEF Refused
<1>4. CASE Status(d, e.trade) \notin {AcceptancePendingExport, Expired, Cancelled}
  <2>1. ImportAcceptance(d, e) \in {Refused, Ok(d)}
    BY <1>4 DEF ImportAcceptance, Status
  <2>2. ImportAcceptance(d, e) = Ok(d)
    BY <2>1 DEF Refused
  <2> QED
    BY <2>2, AppliesSame DEF Ok
<1> QED
  BY <1>2, <1>3, <1>4

\* The import of a settlement (importSettlement).
LEMMA ImportSettlementApplies ==
  ASSUME NEW d \in AppState, NEW e \in Envelope, ImportSettlement(d, e).ok
  PROVE  Applies(d, ImportSettlement(d, e).state, e)
<1> DEFINE t == e.trade
           applied == Ok(AdvanceTrade(d, t, Completed))
<1>1. t \in TradeIds
  BY Routes
<1>2. ImportSettlement(d, e) = StepTrade(d, t, SettlementPendingExport, applied)
  BY DEF ImportSettlement, Refused
<1>3. CASE ImportSettlement(d, e) = Ok(d)
  BY <1>3, AppliesSame DEF Ok
<1>4. CASE Status(d, t) = SettlementPendingExport /\ ImportSettlement(d, e) = applied
  <2>1. ~InFlight(d, t)
    BY <1>4 DEF InFlight, SettlementPendingExport, AcceptancePendingExport
  <2>2. Applies(d, AdvanceTrade(d, t, Completed), e)
    BY <1>1, <1>4, <2>1, StatusNames, ImportTransitions, AdvanceApplies
  <2> QED
    BY <1>4, <2>2 DEF Ok
<1> QED
  BY <1>2, <1>3, <1>4, StepTradeResult

\* The import of a cancel request (importCancel).
LEMMA ImportCancelApplies ==
  ASSUME NEW d \in AppState, NEW e \in Envelope, e.type = "cancel_request",
         ImportCancel(d, e).ok
  PROVE  Applies(d, ImportCancel(d, e).state, e)
<1>1. ImportCancel(d, e)
        = StepTrade(d, e.trade, AcceptancePendingExport, DecideRefund(d, e))
  BY DEF ImportCancel, Refused
<1>2. CASE ImportCancel(d, e) = Ok(d)
  BY <1>2, AppliesSame DEF Ok
<1>3. CASE /\ Status(d, e.trade) = AcceptancePendingExport
           /\ ImportCancel(d, e) = DecideRefund(d, e)
  BY <1>3, DecideRefundApplies DEF InFlight
<1> QED
  BY <1>1, <1>2, <1>3, StepTradeResult

\* The import of a refund (importRefund).
LEMMA ImportRefundApplies ==
  ASSUME NEW d \in AppState, NEW e \in Envelope, e.type = "refund",
         ImportRefund(d, e).ok
  PROVE  Applies(d, ImportRefund(d, e).state, e)
<1> DEFINE applied == ApplyRefund(d, e.trade, "trade_refunded")
           r == applied.state
<1>1. ImportRefund(d, e) = StepTrade(d, e.trade, RefundPendingExport, applied)
  BY DEF ImportRefund, Refused
<1>2. CASE ImportRefund(d, e) = Ok(d)
  BY <1>2, AppliesSame DEF Ok
<1>3. CASE Status(d, e.trade) = RefundPendingExport /\ ImportRefund(d, e) = applied
  <2>1. ~InFlight(d, e.trade) /\ e.trade \in TradeIds
    BY <1>3, Routes DEF InFlight, RefundPendingExport, AcceptancePendingExport
  <2>2. /\ Forward(d, r) /\ r.outbox = d.outbox /\ Aside(d, r)
        /\ \A o \in TradeIds \ {e.trade} : Status(r, o) = Status(d, o)
    BY <1>3, <2>1, StatusNames, ApplyRefundMoves
  <2> HIDE DEF applied
  <2>3. Applies(d, r, e)
    BY <2>1, <2>2 DEF Applies, Sends, Aside, InFlight, Returned
  <2> QED
    BY <1>3, <2>3
<1> QED
  BY <1>1, <1>2, <1>3, StepTradeResult

\* The import of an envelope of any type (importEnvelope).
LEMMA ImportEnvelopeApplies ==
  ASSUME NEW d \in AppState, Sound(d), NEW e \in Envelope, ImportEnvelope(d, e).ok
  PROVE  Applies(d, ImportEnvelope(d, e).state, e)
<1>1. e.type \in {"offer", "acceptance", "settlement", "cancel_request", "refund"}
  BY DEF Envelope, MessageTypes
<1>2. CASE e.type = "offer"
  BY <1>2, ImportOfferApplies DEF ImportEnvelope
<1>3. CASE e.type = "acceptance"
  BY <1>3, ImportAcceptanceApplies DEF ImportEnvelope
<1>4. CASE e.type = "settlement"
  BY <1>4, ImportSettlementApplies DEF ImportEnvelope
<1>5. CASE e.type = "cancel_request"
  BY <1>5, ImportCancelApplies DEF ImportEnvelope
<1>6. CASE e.type = "refund"
  BY <1>6, ImportRefundApplies DEF ImportEnvelope
<1> QED
  BY <1>1, <1>2, <1>3, <1>4, <1>5, <1>6

(***************************************************************************)
(* A state advances to another: trades only go forward, envelopes tell the *)
(* truth, nothing processed is forgotten, and the seller colony processed  *)
(* an envelope about each trade that is no longer in flight.               *)
(***************************************************************************)
NewlyProcessed(d, r, c) == r.processed[c] \ d.processed[c]

Answered(d, r, t) ==
  InFlight(d, t) /\ ~InFlight(r, t)
    => \E id \in NewlyProcessed(d, r, SellerColony(t)) : id[1] = t

Advances(d, r) ==
  /\ Forward(d, r) /\ Sends(d, r)
  /\ \A c \in Colonies : d.processed[c] \subseteq r.processed[c]
  /\ \A t \in TradeIds : Answered(d, r, t)

\* One turn of the import's loop advances the state (ImportBundle).
LEMMA ImportMessageAdvances ==
  ASSUME NEW d \in AppState, Sound(d), NEW e \in Envelope, d.issued[e.trade] > 0,
         e.id[1] = e.trade, NEW source \in Colonies, NEW target \in Colonies,
         ImportMessage(d, source, target, e).ok
  PROVE  LET r == ImportMessage(d, source, target, e).state
         IN  /\ Advances(d, r) /\ r.actions = d.actions
             /\ \A t \in TradeIds :
                  /\ InFlight(d, t) /\ ~InFlight(r, t) => SellerColony(t) = target
                  /\ Returned(r, t) /\ ~Returned(d, t)
                       => BuyerColony(t) = target /\ ~InFlight(d, t)
<1> DEFINE m == ImportEnvelope(d, e).state
           p == [m.processed EXCEPT ![target] = @ \cup {e.id}]
           r == [m EXCEPT !.processed = p]
<1>1. CASE ImportMessage(d, source, target, e) = Ok(d)
  <2>1. Advances(d, d)
    BY DEF Advances, Forward, Sends, Answered
  <2> QED
    BY <1>1, <2>1 DEF Ok
<1>2. CASE /\ ImportEnvelope(d, e).ok /\ ImportMessage(d, source, target, e) = Ok(r)
           /\ From(e) = source /\ To(e) = target /\ e.id \notin d.processed[target]
  <2>1. Applies(d, m, e) /\ m \in AppState
    BY <1>2, ImportEnvelopeApplies, ImportEnvelopeKeeps DEF Keeps, Kept
  <2> HIDE DEF m
  <2>2. /\ m.processed = d.processed /\ m.actions = d.actions
        /\ Forward(d, m) /\ Sends(d, m)
    BY <2>1 DEF Applies, Aside
  <2>3. d.processed \in [Colonies -> SUBSET (TradeIds \X Nat)]
    BY Fields
  <2>4. /\ p[target] = d.processed[target] \cup {e.id}
        /\ \A c \in Colonies : d.processed[c] \subseteq p[c]
    BY <2>2, <2>3
  <2> HIDE DEF p
  <2>5. /\ r.processed = p /\ r.trades = m.trades /\ r.outbox = m.outbox
        /\ r.actions = m.actions
    BY <2>1 DEF AppState
  <2> HIDE DEF r
  <2>6. \A t : Status(r, t) = Status(m, t)
    BY <2>5 DEF Status
  <2>7. Forward(d, r) /\ Sends(d, r)
    BY <2>2, <2>5, <2>6 DEF Forward, Sends, Tells, Paid
  <2>8. ASSUME NEW t \in TradeIds, InFlight(d, t), ~InFlight(r, t)
        PROVE  \E id \in NewlyProcessed(d, r, SellerColony(t)) : id[1] = t
    <3>1. t = e.trade /\ e.type \in {"acceptance", "cancel_request"}
      BY <2>1, <2>6, <2>8 DEF Applies, InFlight
    <3>2. target = SellerColony(t)
      BY <1>2, <3>1 DEF To
    <3>3. e.id \in NewlyProcessed(d, r, SellerColony(t)) /\ e.id[1] = t
      BY <1>2, <2>4, <2>5, <3>1, <3>2 DEF NewlyProcessed
    <3> QED
      BY <3>3
  <2>9. Advances(d, r)
    BY <2>4, <2>5, <2>7, <2>8 DEF Advances, Answered
  <2>10. ASSUME NEW t \in TradeIds
         PROVE  /\ InFlight(d, t) /\ ~InFlight(r, t) => SellerColony(t) = target
                /\ Returned(r, t) /\ ~Returned(d, t)
                     => BuyerColony(t) = target /\ ~InFlight(d, t)
    BY <1>2, <2>1, <2>6 DEF Applies, InFlight, Returned, To
  <2> QED
    BY <1>2, <2>2, <2>5, <2>9, <2>10 DEF Ok
<1>3. CASE ImportMessage(d, source, target, e) = Refused
  BY <1>3 DEF Refused
<1> QED
  BY <1>1, <1>2, <1>3 DEF ImportMessage

\* Forward and forward again is forward.
LEMMA ForwardTwice ==
  ASSUME NEW d, NEW m, NEW r, Forward(d, m), Forward(m, r)
  PROVE  Forward(d, r)
BY DEF Forward

\* What was true of a trade stays true.
LEMMA StillTells ==
  ASSUME NEW d, NEW r, Forward(d, r), NEW e \in Envelope, Tells(d, e)
  PROVE  Tells(r, e)
<1>1. e.trade \in TradeIds
  BY Routes
<1> QED
  BY <1>1 DEF Tells, Forward

\* The turns of an import add up to one advance.
LEMMA AdvancesTwice ==
  ASSUME NEW d \in AppState, NEW m \in AppState, NEW r \in AppState,
         Advances(d, m), Advances(m, r)
  PROVE  Advances(d, r)
<1>1. Forward(d, r)
  BY ForwardTwice DEF Advances
<1>2. Sends(d, r)
  <2>1. ASSUME NEW c \in Colonies, NEW e \in r.outbox[c], e \in m.outbox[c], e \notin d.outbox[c]
        PROVE  Tells(r, e)
    <3>1. e \in Envelope
      BY <2>1, Fields
    <3> QED
      BY <2>1, <3>1, StillTells DEF Advances, Sends
  <2> QED
    BY <2>1 DEF Advances, Sends
<1>3. \A c \in Colonies : d.processed[c] \subseteq m.processed[c] /\ m.processed[c] \subseteq r.processed[c]
  BY DEF Advances
<1>4. ASSUME NEW t \in TradeIds
      PROVE  Answered(d, r, t)
  <2>1. SellerColony(t) \in Colonies
    BY Terms
  <2>2. Answered(d, m, t) /\ Answered(m, r, t)
    BY DEF Advances
  <2> QED
    BY <1>3, <2>1, <2>2 DEF Answered, NewlyProcessed
<1> QED
  BY <1>1, <1>2, <1>3, <1>4 DEF Advances

-----------------------------------------------------------------------------
(***************************************************************************)
(* The other handlers neither process an envelope nor decide about a trade *)
(* in flight, except for the refund that two admins force.                 *)
(***************************************************************************)
\* A handler that leaves every trade in flight there.
LEMMA QuietAdvances ==
  ASSUME NEW d, NEW r, Forward(d, r), Sends(d, r), r.processed = d.processed,
         \A t \in TradeIds : InFlight(d, t) => InFlight(r, t)
  PROVE  Advances(d, r)
BY DEF Advances, Answered

\* Where nothing is processed, trades stay in flight.
LEMMA QuietStays ==
  ASSUME NEW d, NEW r, Advances(d, r), r.processed = d.processed
  PROVE  \A t \in TradeIds : InFlight(d, t) => InFlight(r, t) /\ ~Returned(r, t)
<1>1. \A t : InFlight(r, t) => ~Returned(r, t)
  BY DEF InFlight, Returned, AcceptancePendingExport, Refunded
<1> QED
  BY <1>1 DEF Advances, Answered, NewlyProcessed

\* A handler that leaves every trade where it is.
LEMMA StillAdvances ==
  ASSUME NEW d, NEW r, r.trades = d.trades, r.processed = d.processed, Sends(d, r)
  PROVE  Advances(d, r)
<1>1. \A t : Status(r, t) = Status(d, t)
  BY DEF Status
<1>2. Forward(d, r)
  BY <1>1 DEF Forward, Paid
<1> QED
  BY <1>1, <1>2, QuietAdvances DEF InFlight

\* A handler that moves on a trade that is not in flight.
LEMMA MovedAdvances ==
  ASSUME NEW d, NEW r, NEW t \in TradeIds, NEW to, Moved(d, r, t, to),
         Status(d, t) \in Statuses \ {AcceptancePendingExport},
         TransitionAllowed(Status(d, t), to), r.processed = d.processed, Sends(d, r)
  PROVE  Advances(d, r)
<1>1. Forward(d, r) /\ \A o \in TradeIds \ {t} : Status(r, o) = Status(d, o)
  BY MovedForward
<1> QED
  BY <1>1, QuietAdvances DEF InFlight

\* CreateOffer announces the trade with its expiry.
LEMMA OfferAdvances ==
  ASSUME NEW d \in AppState, NEW t \in TradeIds, NEW at \in Nat, Status(d, t) = Absent
  PROVE  LET offered == [d EXCEPT !.trades[t] =
                           [NoTrade EXCEPT !.status = OfferPendingExport, !.expiresAt = at]]
             r == Emit(offered, "offer", t, at)
         IN  Advances(d, r) /\ Aside(d, r)
<1> DEFINE n == [NoTrade EXCEPT !.status = OfferPendingExport, !.expiresAt = at]
           a == WithTrade(d, t, n)
           r == Emit(a, "offer", t, at)
<1>1. n \in Trade /\ n.status = OfferPendingExport /\ n.expiresAt = at
  BY StatusNames DEF NoTrade, Trade
<1>2. a = [d EXCEPT !.trades[t] = n]
  BY DEF WithTrade
<1> HIDE DEF n
<1>3. /\ a \in AppState /\ a.outbox = d.outbox /\ a.trades[t] = n
      /\ \A o \in TradeIds \ {t} : a.trades[o] = d.trades[o]
  BY <1>1, RecordFields DEF OnlyTrade
<1>4. Aside(d, a)
  BY <1>1 DEF WithTrade, Aside, AppState
<1> HIDE DEF a
<1>5. /\ Aside(a, r) /\ r.trades = a.trades
      /\ \A c \in Colonies : \A e \in r.outbox[c] :
           \/ e \in a.outbox[c]
           \/ e.id[1] = t /\ e.type = "offer" /\ e.trade = t /\ e.at = at
  BY <1>3, EmitSends DEF MessageTypes
<1> HIDE DEF r
<1>6. /\ Status(r, t) = OfferPendingExport /\ r.trades[t].expiresAt = at
      /\ \A o \in TradeIds \ {t} : r.trades[o] = d.trades[o] /\ Status(r, o) = Status(d, o)
  BY <1>1, <1>3, <1>5 DEF Status
<1>7. Status(d, t) \notin AfterAcceptance /\ Status(d, t) \notin AfterRefund /\ ~Paid(d, t)
      /\ ~InFlight(d, t)
  BY DEF AfterAcceptance, AfterRefund, Paid, InFlight, Absent, AcceptancePendingExport,
       SettlementPendingExport, Completed, RefundPendingExport, Refunded
<1>8. Forward(d, r)
  BY <1>6, <1>7 DEF Forward, Paid
<1>9. Sends(d, r)
  <2>1. Status(r, t) # Absent
    BY <1>6 DEF OfferPendingExport, Absent
  <2>2. ASSUME NEW c \in Colonies, NEW e \in r.outbox[c], e \notin d.outbox[c]
        PROVE  e.id[1] = t /\ e.type = "offer" /\ e.trade = t /\ e.at = at
    BY <1>3, <1>5, <2>2
  <2> QED
    BY <1>6, <2>1, <2>2 DEF Sends, Tells
<1>10. \A o \in TradeIds : InFlight(d, o) => InFlight(r, o)
  BY <1>6, <1>7 DEF InFlight
<1>11. Aside(d, r)
  BY <1>4, <1>5 DEF Aside
<1>12. Advances(d, r)
  BY <1>8, <1>9, <1>10, <1>11, QuietAdvances DEF Aside
<1> QED
  BY <1>2, <1>11, <1>12 DEF Aside, n, r

\* AcceptTrade sends an acceptance of a trade that is in flight from now on.
LEMMA AcceptAdvances ==
  ASSUME NEW d \in AppState, NEW t \in TradeIds, NEW now \in Nat,
         Status(d, t) = OfferReceived, d.accounts[Buyer[t]] >= Price[t]
  PROVE  LET r == Book(Emit(Debited(d, t, now), "acceptance", t, now), t, "trade_accepted")
         IN  Advances(d, r) /\ Aside(d, r)
<1> DEFINE a == Debited(d, t, now)
           b == Emit(a, "acceptance", t, now)
           r == Book(b, t, "trade_accepted")
<1>1. /\ a \in AppState /\ a.outbox = d.outbox /\ Status(a, t) = AcceptancePendingExport
      /\ \A o \in TradeIds \ {t} : a.trades[o] = d.trades[o]
  BY DebitedFields DEF OnlyTrade
<1>2. Aside(d, a) /\ a.trades[t].expiresAt = d.trades[t].expiresAt
  BY DEF Aside, Debited, AdvanceTrade, AppState, Trade
<1> HIDE DEF a
<1>3. b \in AppState
  BY <1>1, EmitFields DEF MessageTypes
<1>4. /\ Aside(a, b) /\ b.trades = a.trades
      /\ \A c \in Colonies : \A e \in b.outbox[c] :
           \/ e \in a.outbox[c]
           \/ e.id[1] = t /\ e.type = "acceptance" /\ e.trade = t /\ e.at = now
  BY <1>1, EmitSends DEF MessageTypes
<1> HIDE DEF b
<1>5. r.trades = b.trades /\ r.outbox = b.outbox
  BY <1>3, BookFields DEF Bookings
<1>6. Aside(b, r)
  BY <1>3 DEF Aside, Book, AppState
<1> HIDE DEF r
<1>7. Moved(d, r, t, AcceptancePendingExport) /\ Aside(d, r)
  BY <1>1, <1>2, <1>4, <1>5, <1>6 DEF Moved, Status, Aside
<1>8. Sends(d, r)
  <2>1. Status(r, t) \in AfterAcceptance
    BY <1>7 DEF Moved, AfterAcceptance
  <2>2. ASSUME NEW c \in Colonies, NEW e \in r.outbox[c], e \notin d.outbox[c]
        PROVE  e.id[1] = t /\ e.type = "acceptance" /\ e.trade = t
    BY <1>1, <1>4, <1>5, <2>2
  <2> QED
    BY <2>1, <2>2 DEF Sends, Tells
<1>9. /\ OfferReceived \in Statuses \ {AcceptancePendingExport}
      /\ TransitionAllowed(OfferReceived, AcceptancePendingExport)
  BY DEF TransitionAllowed, TradeTransitions, Statuses, OfferPendingExport, OfferReceived,
       AcceptancePendingExport, SettlementPendingExport, Completed, RefundPendingExport,
       Refunded, Expired, Cancelled
<1>10. Advances(d, r)
  BY <1>7, <1>8, <1>9, MovedAdvances DEF Aside
<1> QED
  BY <1>7, <1>10 DEF Aside, r, b, a

\* CancelTrade withdraws an offer that nobody accepted.
LEMMA WithdrawAdvances ==
  ASSUME NEW d \in AppState, NEW t \in TradeIds,
         Status(d, t) \in {OfferPendingExport, OfferReceived}
  PROVE  LET r == AdvanceTrade(d, t, Cancelled)
         IN  Advances(d, r) /\ Aside(d, r)
<1> DEFINE r == AdvanceTrade(d, t, Cancelled)
<1>1. Moved(d, r, t, Cancelled) /\ Aside(d, r) /\ r.outbox = d.outbox
  BY StatusNames, AdvanceMoves
<1> HIDE DEF r
<1>2. /\ Status(d, t) \in Statuses \ {AcceptancePendingExport}
      /\ TransitionAllowed(Status(d, t), Cancelled)
  BY DEF TransitionAllowed, TradeTransitions, Statuses, OfferPendingExport, OfferReceived,
       AcceptancePendingExport, SettlementPendingExport, Completed, RefundPendingExport,
       Refunded, Expired, Cancelled
<1>3. Sends(d, r)
  BY <1>1 DEF Sends
<1> QED
  BY <1>1, <1>2, <1>3, MovedAdvances DEF Aside, r

\* CancelTrade asks for the refund of an acceptance in flight.
LEMMA RequestAdvances ==
  ASSUME NEW d \in AppState, NEW t \in TradeIds, InFlight(d, t)
  PROVE  LET r == Emit(d, "cancel_request", t, 0)
         IN  Advances(d, r) /\ Aside(d, r)
<1> DEFINE r == Emit(d, "cancel_request", t, 0)
<1>1. /\ Aside(d, r) /\ r.trades = d.trades
      /\ \A c \in Colonies : \A e \in r.outbox[c] :
           \/ e \in d.outbox[c]
           \/ e.id[1] = t /\ e.type = "cancel_request" /\ e.trade = t /\ e.at = 0
  BY EmitSends DEF MessageTypes
<1> HIDE DEF r
<1>2. Status(r, t) \in AfterAcceptance
  BY <1>1 DEF Status, InFlight, AfterAcceptance
<1>3. Sends(d, r)
  BY <1>1, <1>2 DEF Sends, Tells
<1> QED
  BY <1>1, <1>3, StillAdvances DEF Aside, r

\* ExportBundle only takes envelopes out of an outbox.
LEMMA ExportAdvances ==
  ASSUME NEW d \in AppState, NEW c \in Colonies, NEW messages
  PROVE  LET r == [d EXCEPT !.outbox[c] = @ \ messages]
         IN  Advances(d, r) /\ Aside(d, r)
<1> DEFINE r == [d EXCEPT !.outbox[c] = @ \ messages]
<1>1. r.trades = d.trades /\ r.processed = d.processed /\ r.actions = d.actions
  BY DEF AppState
<1>2. r.outbox = [d.outbox EXCEPT ![c] = @ \ messages]
  BY DEF AppState
<1> HIDE DEF r
<1>3. \A o \in Colonies : \A e \in r.outbox[o] : e \in d.outbox[o]
  BY <1>2, Fields
<1> QED
  BY <1>1, <1>3, StillAdvances DEF Sends, Aside, r

\* The sweep closes offers that nobody accepted.
LEMMA SweepAdvances ==
  ASSUME NEW d \in AppState, NEW batch \in SUBSET TradeIds,
         \A t \in batch : Status(d, t) \in {OfferPendingExport, OfferReceived}
  PROVE  LET r == [d EXCEPT !.trades =
                     [t \in TradeIds |-> IF t \in batch THEN [@[t] EXCEPT !.status = Expired]
                                                        ELSE @[t]]]
         IN  Advances(d, r) /\ Aside(d, r)
<1> DEFINE x == [t \in TradeIds |-> IF t \in batch THEN [d.trades[t] EXCEPT !.status = Expired]
                                                   ELSE d.trades[t]]
           r == [d EXCEPT !.trades = x]
<1>1. ASSUME NEW t \in TradeIds
      PROVE  /\ t \in batch => x[t].status = Expired /\ x[t].expiresAt = d.trades[t].expiresAt
             /\ t \notin batch => x[t] = d.trades[t]
  <2>1. d.trades[t] \in Trade
    BY Fields
  <2> QED
    BY <2>1 DEF Trade
<1> HIDE DEF x
<1>2. r.trades = x /\ r.processed = d.processed /\ r.actions = d.actions /\ r.outbox = d.outbox
  BY DEF AppState
<1> HIDE DEF r
<1>3. ASSUME NEW t \in TradeIds
      PROVE  /\ Status(r, t) = IF t \in batch THEN Expired ELSE Status(d, t)
             /\ r.trades[t].expiresAt = d.trades[t].expiresAt
  BY <1>1, <1>2 DEF Status
<1>4. /\ Expired # Absent
      /\ \A t \in batch : /\ Status(d, t) \notin AfterAcceptance
                          /\ Status(d, t) \notin AfterRefund
                          /\ ~Paid(d, t) /\ ~InFlight(d, t)
  BY DEF AfterAcceptance, AfterRefund, Paid, InFlight, Absent, AcceptancePendingExport,
       SettlementPendingExport, Completed, RefundPendingExport, Refunded, Expired,
       OfferPendingExport, OfferReceived
<1>5. Forward(d, r)
  BY <1>3, <1>4 DEF Forward, Paid
<1>6. Sends(d, r)
  BY <1>2 DEF Sends
<1>7. \A t \in TradeIds : InFlight(d, t) => InFlight(r, t)
  BY <1>3, <1>4 DEF InFlight
<1> QED
  BY <1>2, <1>5, <1>6, <1>7, QuietAdvances DEF Aside, r, x

\* Proposals and decisions change nothing but the actions.
LEMMA ActionAdvances ==
  ASSUME NEW d \in AppState, NEW x
  PROVE  LET r == [d EXCEPT !.actions = x]
         IN  Advances(d, r) /\ r.processed = d.processed /\ r.actions = x
<1> DEFINE r == [d EXCEPT !.actions = x]
<1>1. /\ r.trades = d.trades /\ r.processed = d.processed /\ r.outbox = d.outbox
      /\ r.actions = x
  BY DEF AppState
<1> HIDE DEF r
<1> QED
  BY <1>1, StillAdvances DEF Sends, r

\* TrustPeer changes nothing but the trust.
LEMMA TrustAdvances ==
  ASSUME NEW d \in AppState, NEW x
  PROVE  LET r == [d EXCEPT !.trusted = x]
         IN  Advances(d, r) /\ Aside(d, r)
<1> DEFINE r == [d EXCEPT !.trusted = x]
<1>1. /\ r.trades = d.trades /\ r.processed = d.processed /\ r.outbox = d.outbox
      /\ r.actions = d.actions
  BY DEF AppState
<1> HIDE DEF r
<1> QED
  BY <1>1, StillAdvances DEF Sends, Aside, r

\* A decision, field by field.
LEMMA DecidedFields ==
  ASSUME NEW d \in AppState, NEW a \in ActionIds, NEW admin \in Admins,
         NEW outcome \in {"approved", "rejected"}, d.actions[a] # NoAction
  PROVE  LET r == Decided(d, a, admin, outcome)
         IN  /\ r.trades = d.trades /\ r.processed = d.processed /\ r.outbox = d.outbox
             /\ r.actions[a].status = outcome /\ r.actions[a].decider = {admin}
             /\ r.actions[a].trade = d.actions[a].trade
             /\ r.actions[a].proposer = d.actions[a].proposer
             /\ \A o \in ActionIds \ {a} : r.actions[o] = d.actions[o]
<1> DEFINE n == [d.actions[a] EXCEPT !.status = outcome]
           m == [n EXCEPT !.decider = {admin}]
           y == [d.actions EXCEPT ![a] = n]
           x == [y EXCEPT ![a] = m]
           r == [d EXCEPT !.actions = y]
           f == [r EXCEPT !.actions = x]
<1>1. d.actions \in [ActionIds -> PendingAction \cup {NoAction}] /\ d.actions[a] \in PendingAction
  BY Fields
<1>2. n \in PendingAction /\ n.status = outcome /\ n.trade = d.actions[a].trade
      /\ n.proposer = d.actions[a].proposer
  BY <1>1 DEF PendingAction
<1>3. y[a] = n /\ y \in [ActionIds -> PendingAction \cup {NoAction}]
      /\ \A o \in ActionIds \ {a} : y[o] = d.actions[o]
  BY <1>1, <1>2
<1>4. Decided(d, a, admin, outcome) = [r EXCEPT !.actions[a].decider = {admin}]
  BY DEF Decided
<1>5. r \in AppState /\ r.actions = y /\ r.trades = d.trades
      /\ r.processed = d.processed /\ r.outbox = d.outbox
  BY <1>3 DEF AppState
<1>6. [r EXCEPT !.actions[a].decider = {admin}] = f
  BY <1>3, <1>5
<1>7. m.status = outcome /\ m.decider = {admin} /\ m.trade = d.actions[a].trade
      /\ m.proposer = d.actions[a].proposer
  BY <1>2 DEF PendingAction
<1> HIDE DEF n, m
<1>8. x[a] = m /\ \A o \in ActionIds \ {a} : x[o] = d.actions[o]
  BY <1>3
<1> HIDE DEF x, y, r
<1>9. f.actions = x /\ f.trades = r.trades /\ f.processed = r.processed /\ f.outbox = r.outbox
  BY <1>5 DEF AppState
<1> HIDE DEF f
<1>10. Decided(d, a, admin, outcome) = f
  BY <1>4, <1>6
<1> QED
  BY <1>5, <1>7, <1>8, <1>9, <1>10

\* Every action was proposed by an admin with authority over the buyer's colony.
Managed(d) ==
  \A a \in ActionIds :
    d.actions[a] # NoAction
      => BuyerColony(d.actions[a].trade) \in Manages[d.actions[a].proposer]

\* A decision leaves an action with its proposer.
LEMMA DecidedManaged ==
  ASSUME NEW d \in AppState, NEW a \in ActionIds, NEW admin \in Admins,
         NEW outcome \in {"approved", "rejected"}, d.actions[a] # NoAction, Managed(d)
  PROVE  Managed(Decided(d, a, admin, outcome))
<1> DEFINE r == Decided(d, a, admin, outcome)
<1>1. /\ r.actions[a].trade = d.actions[a].trade
      /\ r.actions[a].proposer = d.actions[a].proposer
      /\ \A o \in ActionIds \ {a} : r.actions[o] = d.actions[o]
  BY DecidedFields
<1> HIDE DEF r
<1>2. Managed(r)
  BY <1>1 DEF Managed
<1> QED
  BY <1>2 DEF r

-----------------------------------------------------------------------------
(***************************************************************************)
(* An envelope that tells the truth is never refused.                      *)
(***************************************************************************)
\* A status that no step leads back to is never waited for.
LEMMA NeverTooEarly ==
  ASSUME NEW s \in Statuses, NEW pred,
         \/ pred = OfferPendingExport
         \/ pred = AcceptancePendingExport /\ s \in AfterAcceptance
         \/ pred = SettlementPendingExport /\ s \in {SettlementPendingExport, Completed}
         \/ pred = RefundPendingExport /\ s \in AfterRefund
  PROVE  ClassifyStep(s, pred) = IF s = pred THEN StepApply ELSE StepDuplicate
<1> DEFINE Past(S) == /\ TradeTransitions[s] \subseteq S /\ ClosedUnderSteps(S)
                      /\ S \in SUBSET Statuses /\ pred \notin S
<1>1. s # pred => \E S : Past(S)
  <2>1. CASE pred = OfferPendingExport
    <3>1. Past(Statuses \ {OfferPendingExport})
      BY <2>1 DEF ClosedUnderSteps, TradeTransitions, Statuses, OfferPendingExport,
           OfferReceived, AcceptancePendingExport, SettlementPendingExport, Completed,
           RefundPendingExport, Refunded, Expired, Cancelled
    <3> QED
      BY <3>1
  <2>2. CASE pred = AcceptancePendingExport /\ s \in AfterAcceptance
    <3>1. s # pred => Past(AfterAcceptance \ {AcceptancePendingExport})
      BY <2>2 DEF ClosedUnderSteps, TradeTransitions, Statuses, OfferPendingExport,
           OfferReceived, AcceptancePendingExport, SettlementPendingExport, Completed,
           RefundPendingExport, Refunded, Expired, Cancelled, AfterAcceptance
    <3> QED
      BY <3>1
  <2>3. CASE pred = SettlementPendingExport /\ s \in {SettlementPendingExport, Completed}
    <3>1. s # pred => Past({Completed})
      BY <2>3 DEF ClosedUnderSteps, TradeTransitions, Statuses, OfferPendingExport,
           OfferReceived, AcceptancePendingExport, SettlementPendingExport, Completed,
           RefundPendingExport, Refunded, Expired, Cancelled
    <3> QED
      BY <3>1
  <2>4. CASE pred = RefundPendingExport /\ s \in AfterRefund
    <3>1. s # pred => Past({Refunded})
      BY <2>4 DEF ClosedUnderSteps, TradeTransitions, Statuses, OfferPendingExport,
           OfferReceived, AcceptancePendingExport, SettlementPendingExport, Completed,
           RefundPendingExport, Refunded, Expired, Cancelled, AfterRefund
    <3> QED
      BY <3>1
  <2> QED
    BY <2>1, <2>2, <2>3, <2>4
<1>2. s # pred => ~Reachable(s, pred)
  BY <1>1 DEF Reachable, ReachableFrom
<1> QED
  BY <1>2 DEF ClassifyStep

\* A trade in escrow can be refunded: the buyer's balance has room for its price.
LEMMA RefundFits ==
  ASSUME NEW d \in AppState, Sound(d), Total(Minted(d)) <= MaxInt64,
         NEW t \in TradeIds, IsEscrowed(Status(d, t))
  PROVE  Fits(d.accounts[Buyer[t]], Price[t])
<1>1. Buyer[t] \in Traders /\ Price[t] \in Nat
  BY Terms
<1>2. d.accounts \in [Traders -> Nat] /\ d.accounts[Buyer[t]] \in Nat
  BY <1>1, Fields
<1>3. d.accounts[Buyer[t]] <= Total(d.accounts) /\ Total(d.accounts) \in Nat
  BY <1>1, <1>2, TotalCovers, UnitsFinite DEF ProtocolAssumption
<1>4. Escrow(d) \in [TradeIds -> Nat] /\ Escrow(d)[t] = Price[t]
  BY EscrowType DEF Escrow
<1>5. Price[t] <= Total(Escrow(d)) /\ Total(Escrow(d)) \in Nat
  <2>1. Escrow(d)[t] <= Total(Escrow(d))
    BY <1>4, TotalCovers DEF ProtocolAssumption
  <2> QED
    BY <1>4, <2>1, UnitsFinite DEF ProtocolAssumption
<1>6. Total(d.accounts) + Total(Escrow(d)) <= MaxInt64
  BY DEF Sound, Holdings
<1>7. MaxInt64 \in Nat
  BY DEF ProtocolAssumption
<1> QED
  BY <1>1, <1>2, <1>3, <1>5, <1>6, <1>7 DEF Fits

\* A trade in flight can be settled: the seller's balance has room for its price,
\* and the net positions have as long as all prices together have.
LEMMA CreditAlwaysFits ==
  ASSUME NEW d \in AppState, Sound(d), Total(Minted(d)) <= MaxInt64,
         Total(Price) <= MaxInt64, NEW t \in TradeIds, InFlight(d, t)
  PROVE  CreditFits(d, t)
<1>1. /\ Seller[t] \in Traders /\ Price[t] \in Nat
      /\ SellerColony(t) \in Colonies /\ BuyerColony(t) \in Colonies /\ MaxInt64 \in Nat
  BY Terms DEF ProtocolAssumption
<1>2. d.accounts \in [Traders -> Nat] /\ d.accounts[Seller[t]] \in Nat
  BY <1>1, Fields
<1>3. d.accounts[Seller[t]] <= Total(d.accounts) /\ Total(d.accounts) \in Nat
  BY <1>1, <1>2, TotalCovers, UnitsFinite DEF ProtocolAssumption
<1>4. Escrow(d) \in [TradeIds -> Nat] /\ Escrow(d)[t] = Price[t]
  BY EscrowType DEF Escrow, InFlight, IsEscrowed
<1>5. Price[t] <= Total(Escrow(d)) /\ Total(Escrow(d)) \in Nat
  <2>1. Escrow(d)[t] <= Total(Escrow(d))
    BY <1>4, TotalCovers DEF ProtocolAssumption
  <2> QED
    BY <1>4, <2>1, UnitsFinite DEF ProtocolAssumption
<1>6. Total(d.accounts) + Total(Escrow(d)) <= MaxInt64
  BY DEF Sound, Holdings
<1>7. Fits(d.accounts[Seller[t]], Price[t])
  BY <1>1, <1>2, <1>3, <1>5, <1>6 DEF Fits
<1> DEFINE f == Settled(d, SellerColony(t), BuyerColony(t))
           g == [f EXCEPT ![t] = Price[t]]
<1>8. /\ f \in [TradeIds -> Nat] /\ f[t] = 0
      /\ \A o \in TradeIds : f[o] <= Price[o]
  <2>1. \A o \in TradeIds : Price[o] \in Nat
    BY Terms
  <2>2. ~Paid(d, t)
    BY DEF InFlight, Paid, AcceptancePendingExport, SettlementPendingExport, Completed
  <2> QED
    BY <2>1, <2>2 DEF Settled
<1>9. d.netClaims[Claim(t)] = Total(f) /\ d.netObligations[Debt(t)] = Total(f)
  BY <1>1 DEF Sound, NetPositionsMirrorIn, Claim, Debt
<1> HIDE DEF f
<1>10. /\ g \in [TradeIds -> Nat] /\ g[t] = Price[t]
       /\ \A o \in TradeIds \ {t} : g[o] = f[o]
       /\ \A o \in TradeIds : g[o] <= Price[o]
  BY <1>1, <1>8
<1> HIDE DEF g
<1>11. Total(g) = Total(f) - f[t] + g[t] /\ Total(f) \in Nat
  BY <1>8, <1>10, TotalChange, UnitsFinite DEF ProtocolAssumption
<1>12. Total(g) <= Total(Price) /\ Total(Price) \in Nat
  BY <1>10, TotalOfLess, UnitsFinite DEF ProtocolAssumption
<1>13. Total(f) + Price[t] <= MaxInt64
  BY <1>1, <1>8, <1>10, <1>11, <1>12
<1> QED
  BY <1>7, <1>9, <1>13 DEF CreditFits, Fits

\* The transitions that the import of a true envelope makes are allowed.
LEMMA AnswersAllowed ==
  /\ TransitionAllowed(AcceptancePendingExport, RefundPendingExport)
  /\ TransitionAllowed(AcceptancePendingExport, SettlementPendingExport)
  /\ TransitionAllowed(RefundPendingExport, Refunded)
BY DEF TransitionAllowed, TradeTransitions, Statuses, OfferPendingExport, OfferReceived,
       AcceptancePendingExport, SettlementPendingExport, Completed, RefundPendingExport,
       Refunded, Expired, Cancelled

\* A true envelope is applied or taken for a duplicate.
LEMMA TrueEnvelopesImport ==
  ASSUME NEW d \in AppState, Sound(d), Total(Minted(d)) <= MaxInt64,
         Total(Price) <= MaxInt64, NEW e \in Envelope, Tells(d, e)
  PROVE  ImportEnvelope(d, e).ok
<1> DEFINE t == e.trade
           s == Status(d, e.trade)
<1>1. t \in TradeIds /\ e.type \in {"offer", "acceptance", "settlement", "cancel_request", "refund"}
  BY Routes DEF Envelope, MessageTypes
<1>2. s \in Statuses \cup {Absent}
  BY <1>1, Fields DEF Trade, Status
<1>3. Absent \notin AfterAcceptance /\ Absent \notin AfterRefund
      /\ Absent \notin {SettlementPendingExport, Completed}
  BY DEF AfterAcceptance, AfterRefund, Absent, AcceptancePendingExport,
       SettlementPendingExport, Completed, RefundPendingExport, Refunded
<1>4. StepApply # StepTooEarly /\ StepApply # StepDuplicate /\ StepTooEarly # StepDuplicate
  BY DEF StepApply, StepTooEarly, StepDuplicate
<1>5. InFlight(d, t) => DecideRefund(d, e).ok
  BY AnswersAllowed DEF InFlight, DecideRefund, Ok
<1>6. CASE e.type = "offer"
  <2>1. s # Absent /\ d.trades[t].expiresAt = e.at
    BY <1>6 DEF Tells
  <2>2. ClassifyStep(s, OfferPendingExport) \in {StepApply, StepDuplicate}
    BY <1>2, <2>1, NeverTooEarly
  <2>3. ImportOffer(d, e).ok
    BY <1>4, <2>1, <2>2 DEF ImportOffer, StepTrade, Ok
  <2> QED
    BY <1>6, <2>3 DEF ImportEnvelope
<1>7. CASE e.type = "acceptance"
  <2>1. s \in AfterAcceptance
    BY <1>7 DEF Tells
  <2>2. ClassifyStep(s, AcceptancePendingExport)
          = IF s = AcceptancePendingExport THEN StepApply ELSE StepDuplicate
    BY <1>2, <1>3, <2>1, NeverTooEarly
  <2>3. s \notin {Absent, Expired, Cancelled}
    BY <2>1 DEF AfterAcceptance, Absent, Expired, Cancelled, AcceptancePendingExport,
         SettlementPendingExport, Completed, RefundPendingExport, Refunded
  <2>4. CASE s = AcceptancePendingExport
    <3>1. InFlight(d, t) /\ DecideRefund(d, e).ok
      BY <1>5, <2>4 DEF InFlight
    <3>2. CreditSeller(d, e).ok
      BY <1>1, <2>4, <3>1, CreditAlwaysFits, AnswersAllowed DEF CreditSeller, Ok
    <3>3. ImportAcceptance(d, e).ok
      BY <2>3, <2>4, <3>1, <3>2 DEF ImportAcceptance, Status
    <3> QED
      BY <1>7, <3>3 DEF ImportEnvelope
  <2>5. CASE s # AcceptancePendingExport
    <3>1. ImportAcceptance(d, e) = Ok(d)
      BY <1>4, <2>2, <2>3, <2>5 DEF ImportAcceptance, Status
    <3> QED
      BY <1>7, <3>1 DEF ImportEnvelope, Ok
  <2> QED
    BY <2>4, <2>5
<1>8. CASE e.type = "settlement"
  <2>1. s \in {SettlementPendingExport, Completed}
    BY <1>8 DEF Tells, Paid
  <2>2. ClassifyStep(s, SettlementPendingExport) \in {StepApply, StepDuplicate}
    BY <1>2, <1>3, <2>1, NeverTooEarly
  <2>3. ImportSettlement(d, e).ok
    BY <1>3, <1>4, <2>1, <2>2 DEF ImportSettlement, StepTrade, Ok
  <2> QED
    BY <1>8, <2>3 DEF ImportEnvelope
<1>9. CASE e.type = "cancel_request"
  <2>1. s \in AfterAcceptance
    BY <1>9 DEF Tells
  <2>2. ClassifyStep(s, AcceptancePendingExport)
          = IF s = AcceptancePendingExport THEN StepApply ELSE StepDuplicate
    BY <1>2, <1>3, <2>1, NeverTooEarly
  <2>3. s = AcceptancePendingExport => DecideRefund(d, e).ok
    BY <1>5 DEF InFlight
  <2>4. ImportCancel(d, e).ok
    BY <1>3, <1>4, <2>1, <2>2, <2>3 DEF ImportCancel, StepTrade, Ok
  <2> QED
    BY <1>9, <2>4 DEF ImportEnvelope
<1>10. CASE e.type = "refund"
  <2>1. s \in AfterRefund
    BY <1>10 DEF Tells
  <2>2. ClassifyStep(s, RefundPendingExport)
          = IF s = RefundPendingExport THEN StepApply ELSE StepDuplicate
    BY <1>2, <1>3, <2>1, NeverTooEarly
  <2>3. s = RefundPendingExport => ApplyRefund(d, t, "trade_refunded").ok
    <3>1. s = RefundPendingExport => IsEscrowed(s)
      BY DEF IsEscrowed
    <3> QED
      BY <1>1, <3>1, RefundFits, AnswersAllowed DEF ApplyRefund, Ok
  <2>4. ImportRefund(d, e).ok
    BY <1>3, <1>4, <2>1, <2>2, <2>3 DEF ImportRefund, StepTrade, Ok
  <2> QED
    BY <1>10, <2>4 DEF ImportEnvelope
<1> QED
  BY <1>1, <1>6, <1>7, <1>8, <1>9, <1>10

-----------------------------------------------------------------------------
(***************************************************************************)
(* Trades are between two colonies: ids are drawn for no others            *)
(* (CreateOffer), and the import of an envelope draws ids of its own trade *)
(* alone.                                                                  *)
(***************************************************************************)
Apart(d) == \A t \in TradeIds : d.issued[t] > 0 => SellerColony(t) # BuyerColony(t)

IssuesFor(d, r, t) == \A o \in TradeIds \ {t} : r.issued[o] = d.issued[o]

\* Nothing new is issued about trades that are not apart.
LEMMA StillApart ==
  ASSUME NEW d, NEW r, NEW t \in TradeIds, IssuesFor(d, r, t), d.issued[t] > 0, Apart(d)
  PROVE  Apart(r)
BY DEF Apart, IssuesFor

\* A refund that is decided draws an id of its trade.
LEMMA DecideRefundIssues ==
  ASSUME NEW d \in AppState, NEW e \in Envelope, DecideRefund(d, e).ok
  PROVE  IssuesFor(d, DecideRefund(d, e).state, e.trade)
<1> DEFINE x == [d.issued EXCEPT ![e.trade] = @ + 1]
<1>1. DecideRefund(d, e).state.issued = x
  BY DEF DecideRefund, Emit, AdvanceTrade, Ok, Refused, AppState
<1>2. \A o \in TradeIds \ {e.trade} : x[o] = d.issued[o]
  BY Fields
<1> HIDE DEF x
<1> QED
  BY <1>1, <1>2 DEF IssuesFor

\* So does a settlement.
LEMMA CreditSellerIssues ==
  ASSUME NEW d \in AppState, NEW e \in Envelope, CreditSeller(d, e).ok
  PROVE  IssuesFor(d, CreditSeller(d, e).state, e.trade)
<1> DEFINE x == [d.issued EXCEPT ![e.trade] = @ + 1]
<1>1. CreditSeller(d, e).state.issued = x
  BY DEF CreditSeller, Credited, Book, Emit, AdvanceTrade, Ok, Refused, AppState
<1>2. \A o \in TradeIds \ {e.trade} : x[o] = d.issued[o]
  BY Fields
<1> HIDE DEF x
<1> QED
  BY <1>1, <1>2 DEF IssuesFor

\* A refund that is applied draws none.
LEMMA ApplyRefundIssues ==
  ASSUME NEW d \in AppState, NEW t, NEW kind, ApplyRefund(d, t, kind).ok
  PROVE  ApplyRefund(d, t, kind).state.issued = d.issued
BY DEF ApplyRefund, Book, AdvanceTrade, Ok, Refused, AppState

\* What StepTrade may answer.
LEMMA StepTradeChoices ==
  ASSUME NEW d, NEW t, NEW pred, NEW applied
  PROVE  StepTrade(d, t, pred, applied) \in {applied, Refused, Ok(d)}
<1>1. ClassifyStep(Status(d, t), pred) \in {StepApply, StepTooEarly, StepDuplicate}
  BY DEF ClassifyStep
<1> QED
  BY <1>1 DEF StepTrade, StepApply, StepTooEarly, StepDuplicate

\* The import of an envelope draws ids of the envelope's trade alone.
LEMMA ImportEnvelopeIssues ==
  ASSUME NEW d \in AppState, NEW e \in Envelope, ImportEnvelope(d, e).ok
  PROVE  IssuesFor(d, ImportEnvelope(d, e).state, e.trade)
<1>1. e.type \in {"offer", "acceptance", "settlement", "cancel_request", "refund"}
  BY DEF Envelope, MessageTypes
<1>2. IssuesFor(d, Ok(d).state, e.trade)
  BY DEF IssuesFor, Ok
<1>3. \A to : AdvanceTrade(d, e.trade, to).issued = d.issued
  BY DEF AdvanceTrade, AppState
<1>4. \A to : IssuesFor(d, Ok(AdvanceTrade(d, e.trade, to)).state, e.trade)
  BY <1>3 DEF IssuesFor, Ok
<1>5. ~Refused.ok
  BY DEF Refused
<1>6. CASE e.type = "offer"
  <2>1. ImportEnvelope(d, e) = ImportOffer(d, e)
    BY <1>6 DEF ImportEnvelope
  <2>2. CASE Status(d, e.trade) = Absent
    <3>1. ImportOffer(d, e).state.issued = d.issued
      BY <2>2 DEF ImportOffer, Ok, AppState
    <3> QED
      BY <2>1, <3>1 DEF IssuesFor
  <2>3. CASE Status(d, e.trade) # Absent
    <3>1. ImportOffer(d, e)
            \in {Refused, Ok(d), Ok(AdvanceTrade(d, e.trade, OfferReceived))}
      BY <2>3, StepTradeChoices DEF ImportOffer
    <3> QED
      BY <1>2, <1>4, <1>5, <2>1, <3>1
  <2> QED
    BY <2>2, <2>3
<1>7. CASE e.type = "acceptance"
  <2>1. ImportEnvelope(d, e) = ImportAcceptance(d, e)
    BY <1>7 DEF ImportEnvelope
  <2>2. ImportAcceptance(d, e) \in {Refused, Ok(d), DecideRefund(d, e), CreditSeller(d, e)}
    BY DEF ImportAcceptance
  <2> QED
    BY <1>2, <1>5, <2>1, <2>2, DecideRefundIssues, CreditSellerIssues
<1>8. CASE e.type = "settlement"
  <2>1. ImportEnvelope(d, e) = ImportSettlement(d, e)
    BY <1>8 DEF ImportEnvelope
  <2>2. ImportSettlement(d, e) \in {Refused, Ok(d), Ok(AdvanceTrade(d, e.trade, Completed))}
    BY StepTradeChoices DEF ImportSettlement
  <2> QED
    BY <1>2, <1>4, <1>5, <2>1, <2>2
<1>9. CASE e.type = "cancel_request"
  <2>1. ImportEnvelope(d, e) = ImportCancel(d, e)
    BY <1>9 DEF ImportEnvelope
  <2>2. ImportCancel(d, e) \in {Refused, Ok(d), DecideRefund(d, e)}
    BY StepTradeChoices DEF ImportCancel
  <2> QED
    BY <1>2, <1>5, <2>1, <2>2, DecideRefundIssues
<1>10. CASE e.type = "refund"
  <2>1. ImportEnvelope(d, e) = ImportRefund(d, e)
    BY <1>10 DEF ImportEnvelope
  <2>2. ImportRefund(d, e)
          \in {Refused, Ok(d), ApplyRefund(d, e.trade, "trade_refunded")}
    BY StepTradeChoices DEF ImportRefund
  <2> QED
    BY <1>2, <1>5, <2>1, <2>2, ApplyRefundIssues DEF IssuesFor
<1> QED
  BY <1>1, <1>6, <1>7, <1>8, <1>9, <1>10

\* So does a turn of the import's loop.
LEMMA ImportMessageIssues ==
  ASSUME NEW d \in AppState, Sound(d), NEW e \in Envelope, d.issued[e.trade] > 0,
         NEW source, NEW target, ImportMessage(d, source, target, e).ok
  PROVE  IssuesFor(d, ImportMessage(d, source, target, e).state, e.trade)
<1> DEFINE m == ImportEnvelope(d, e).state
           p == [m.processed EXCEPT ![target] = @ \cup {e.id}]
           r == [m EXCEPT !.processed = p]
<1>1. CASE ImportMessage(d, source, target, e) = Ok(d)
  BY <1>1 DEF Ok, IssuesFor
<1>2. CASE ImportEnvelope(d, e).ok /\ ImportMessage(d, source, target, e) = Ok(r)
  <2>1. m \in AppState /\ IssuesFor(d, m, e.trade)
    BY <1>2, ImportEnvelopeKeeps, ImportEnvelopeIssues DEF Keeps, Kept
  <2> HIDE DEF m, p
  <2>2. r.issued = m.issued
    BY <2>1 DEF AppState
  <2> HIDE DEF r
  <2> QED
    BY <1>2, <2>1, <2>2 DEF Ok, IssuesFor
<1>3. CASE ImportMessage(d, source, target, e) = Refused
  BY <1>3 DEF Refused
<1> QED
  BY <1>1, <1>2, <1>3 DEF ImportMessage

-----------------------------------------------------------------------------
(***************************************************************************)
(* The mail.  A handler that decides about an acceptance sends the         *)
(* envelope that tells of it, under an id nobody has processed; no handler *)
(* decides in silence.  The import of the envelope ends the trade that     *)
(* waits for it, so that it is never taken for processed in vain.          *)
(***************************************************************************)
\* The status of a trade that waits for an envelope of a type, and what the
\* envelope makes of it.
Awaits == [refund |-> RefundPendingExport, settlement |-> SettlementPendingExport]
Brings == [refund |-> Refunded, settlement |-> Completed]

Silent(d, r) == r.processed = d.processed /\ r.outbox = d.outbox /\ r.issued = d.issued

\* Nothing new was decided about a trade.
NotDecided(d, r, t) ==
  \A type \in {"refund", "settlement"} : Status(r, t) = Awaits[type] => Status(d, t) = Awaits[type]

\* An envelope is sent, and what was decided is what it tells.
Announces(d, r, n) ==
  /\ n.id = <<n.trade, d.issued[n.trade]>>
  /\ r.processed = d.processed
  /\ r.outbox = [d.outbox EXCEPT ![From(n)] = @ \cup {n}]
  /\ r.issued = [d.issued EXCEPT ![n.trade] = @ + 1]
  /\ \A t \in TradeIds :
       \/ NotDecided(d, r, t)
       \/ t = n.trade /\ n.type \in {"refund", "settlement"} /\ Status(r, t) = Awaits[n.type]

Posts(d, r) ==
  \/ Silent(d, r) /\ \A t \in TradeIds : NotDecided(d, r, t)
  \/ \E n \in Envelope : Announces(d, r, n)

\* What statuses wait for what.
LEMMA AwaitedStatuses ==
  /\ Awaits["refund"] = RefundPendingExport /\ Awaits["settlement"] = SettlementPendingExport
  /\ Brings["refund"] = Refunded /\ Brings["settlement"] = Completed
  /\ RefundPendingExport # SettlementPendingExport
  /\ \A s \in {Absent, OfferPendingExport, OfferReceived, AcceptancePendingExport, Completed,
               Refunded, Expired, Cancelled} :
       s # RefundPendingExport /\ s # SettlementPendingExport
BY DEF Awaits, Brings, Absent, OfferPendingExport, OfferReceived, AcceptancePendingExport,
       SettlementPendingExport, Completed, RefundPendingExport, Refunded, Expired, Cancelled

\* A trade that moves to a status that waits for nothing.
LEMMA MovesNotDecided ==
  ASSUME NEW d, NEW r, NEW t \in TradeIds, NEW to, Status(r, t) = to,
         to \in {Absent, OfferPendingExport, OfferReceived, AcceptancePendingExport, Completed,
                 Refunded, Expired, Cancelled},
         \A o \in TradeIds \ {t} : Status(r, o) = Status(d, o)
  PROVE  \A o \in TradeIds : NotDecided(d, r, o)
BY AwaitedStatuses DEF NotDecided

\* What Emit sends is announced.
LEMMA EmitPosts ==
  ASSUME NEW d \in AppState, NEW a \in AppState, Silent(d, a),
         NEW t \in TradeIds, NEW type \in MessageTypes, NEW at \in Nat,
         \A u \in TradeIds :
           \/ NotDecided(d, a, u)
           \/ u = t /\ type \in {"refund", "settlement"} /\ Status(a, u) = Awaits[type]
  PROVE  Posts(d, Emit(a, type, t, at))
<1> DEFINE n == NewEnvelope(a, type, t, at)
           r == Emit(a, type, t, at)
<1>1. n \in Envelope /\ n.id = <<t, d.issued[t]>> /\ n.trade = t /\ n.type = type
  BY Fields DEF NewEnvelope, Envelope, Silent
<1>2. /\ r.processed = a.processed /\ r.trades = a.trades
      /\ r.outbox = [a.outbox EXCEPT ![From(n)] = @ \cup {n}]
      /\ r.issued = [a.issued EXCEPT ![t] = @ + 1]
  BY DEF Emit, AppState
<1> HIDE DEF n, r
<1>3. \A u : Status(r, u) = Status(a, u)
  BY <1>2 DEF Status
<1>4. \A u \in TradeIds :
        \/ NotDecided(d, r, u)
        \/ u = t /\ type \in {"refund", "settlement"} /\ Status(r, u) = Awaits[type]
  BY <1>3 DEF NotDecided
<1>5. Announces(d, r, n)
  BY <1>1, <1>2, <1>4 DEF Announces, Silent
<1> QED
  BY <1>1, <1>5 DEF Posts, r

\* What only changes other fields posts what was posted.
LEMMA PostsOn ==
  ASSUME NEW d, NEW a, NEW r, Posts(d, a), Silent(a, r), r.trades = a.trades
  PROVE  Posts(d, r)
<1>1. \A u : Status(r, u) = Status(a, u)
  BY DEF Status
<1>2. \A u : NotDecided(d, a, u) => NotDecided(d, r, u)
  BY <1>1 DEF NotDecided
<1> QED
  BY <1>1, <1>2 DEF Posts, Announces, Silent

\* Booking the move posts nothing more.
LEMMA BookPosts ==
  ASSUME NEW d, NEW a \in AppState, Posts(d, a), NEW t, NEW kind
  PROVE  Posts(d, Book(a, t, kind))
<1>1. Silent(a, Book(a, t, kind)) /\ Book(a, t, kind).trades = a.trades
  BY DEF Silent, Book, AppState
<1> QED
  BY <1>1, PostsOn

\* A trade that moves on to a status that waits for nothing.
LEMMA AdvancePosts ==
  ASSUME NEW d \in AppState, NEW t \in TradeIds,
         NEW to \in {OfferReceived, Completed, Refunded, Expired, Cancelled}
  PROVE  Posts(d, AdvanceTrade(d, t, to)) /\ Status(AdvanceTrade(d, t, to), t) = to
<1> DEFINE r == AdvanceTrade(d, t, to)
<1>1. Silent(d, r)
  BY DEF Silent, AdvanceTrade, AppState
<1>2. Status(r, t) = to /\ \A o \in TradeIds \ {t} : Status(r, o) = Status(d, o)
  <2>1. to \in Statuses
    BY StatusNames
  <2> QED
    BY <2>1, AdvanceFields DEF OnlyTrade, Status
<1> HIDE DEF r
<1>3. \A o \in TradeIds : NotDecided(d, r, o)
  BY <1>2, MovesNotDecided
<1> QED
  BY <1>1, <1>2, <1>3 DEF Posts, r

\* The seller colony announces the refund it decides (decideRefund).
LEMMA DecideRefundPosts ==
  ASSUME NEW d \in AppState, NEW e \in Envelope, DecideRefund(d, e).ok
  PROVE  /\ Posts(d, DecideRefund(d, e).state)
         /\ Status(DecideRefund(d, e).state, e.trade) = RefundPendingExport
<1> DEFINE t == e.trade
           a == AdvanceTrade(d, t, RefundPendingExport)
           v == a.trades[t].accepted \/ e.type = "acceptance"
           n == Accepted(a.trades[t], v)
           b == WithTrade(a, t, n)
           r == Emit(b, "refund", t, 0)
<1>1. t \in TradeIds /\ "refund" \in MessageTypes /\ 0 \in Nat
  BY Routes DEF MessageTypes
<1>2. DecideRefund(d, e).state = r
  <2>1. DecideRefund(d, e) = Ok(r)
    BY DEF DecideRefund, Ok, Refused, WithTrade, Accepted
  <2> QED
    BY <2>1 DEF Ok
<1>3. /\ a \in AppState /\ OnlyTrade(d, a, t) /\ Status(a, t) = RefundPendingExport
      /\ Silent(d, a)
  <2>1. Silent(d, a)
    BY DEF Silent, AdvanceTrade, AppState
  <2> QED
    BY <1>1, <2>1, AdvanceFields, StatusNames
<1> HIDE DEF a
<1>4. n \in Trade /\ n.status = RefundPendingExport
  <2>1. a.trades[t] \in Trade /\ a.trades[t].status = RefundPendingExport
    BY <1>1, <1>3, Fields DEF Status
  <2>2. v \in BOOLEAN
    OBVIOUS
  <2> HIDE DEF v
  <2> QED
    BY <2>1, <2>2, AcceptedFields
<1> HIDE DEF n
<1>5. /\ b \in AppState /\ Status(b, t) = RefundPendingExport
      /\ \A o \in TradeIds \ {t} : Status(b, o) = Status(d, o)
  BY <1>1, <1>3, <1>4, RecordFields DEF Status, OnlyTrade
<1>6. Silent(d, b)
  BY <1>3 DEF WithTrade, Silent, AppState
<1> HIDE DEF b
<1>7. \A o \in TradeIds : NotDecided(d, b, o) \/ (o = t /\ Status(b, o) = Awaits["refund"])
  BY <1>5, AwaitedStatuses DEF NotDecided
<1>8. Status(r, t) = RefundPendingExport
  <2>1. r.trades = b.trades
    BY <1>1, <1>5, EmitFields
  <2> QED
    BY <1>5, <2>1 DEF Status
<1> QED
  BY <1>1, <1>2, <1>5, <1>6, <1>7, <1>8, EmitPosts

\* And the settlement (creditSeller).
LEMMA CreditSellerPosts ==
  ASSUME NEW d \in AppState, NEW e \in Envelope, CreditSeller(d, e).ok
  PROVE  Posts(d, CreditSeller(d, e).state)
<1> DEFINE t == e.trade
           a == Credited(d, e)
           b == Emit(a, "settlement", t, 0)
           r == Book(b, t, "trade_acceptance_imported")
<1>1. t \in TradeIds /\ "settlement" \in MessageTypes /\ 0 \in Nat
  BY Routes DEF MessageTypes
<1>2. CreditSeller(d, e).state = r
  <2>1. CreditSeller(d, e) = Ok(r)
    BY DEF CreditSeller, Ok, Refused
  <2> QED
    BY <2>1 DEF Ok
<1>3. /\ a \in AppState /\ Status(a, t) = SettlementPendingExport
      /\ \A o \in TradeIds \ {t} : Status(a, o) = Status(d, o)
  BY CreditedFields DEF OnlyTrade, Status
<1>4. Silent(d, a)
  BY DEF Silent, Credited, AdvanceTrade, AppState
<1> HIDE DEF a
<1>5. \A o \in TradeIds : NotDecided(d, a, o) \/ (o = t /\ Status(a, o) = Awaits["settlement"])
  BY <1>3, AwaitedStatuses DEF NotDecided
<1>6. Posts(d, b) /\ b \in AppState
  BY <1>1, <1>3, <1>4, <1>5, EmitPosts, EmitFields
<1> HIDE DEF b
<1> QED
  BY <1>2, <1>6, BookPosts

\* A refund that is applied tells nobody (applyRefund).
LEMMA ApplyRefundPosts ==
  ASSUME NEW d \in AppState, NEW t \in TradeIds,
         NEW kind \in {"trade_refunded", "trade_force_refunded"},
         Status(d, t) \in Statuses, ApplyRefund(d, t, kind).ok
  PROVE  Posts(d, ApplyRefund(d, t, kind).state)
<1> DEFINE r == ApplyRefund(d, t, kind).state
<1>1. /\ Status(r, t) = Refunded /\ r.outbox = d.outbox /\ r.processed = d.processed
      /\ \A o \in TradeIds \ {t} : Status(r, o) = Status(d, o)
  BY ApplyRefundMoves DEF Aside
<1>2. r.issued = d.issued
  BY ApplyRefundIssues
<1> HIDE DEF r
<1>3. \A o \in TradeIds : NotDecided(d, r, o)
  BY <1>1, MovesNotDecided
<1> QED
  BY <1>1, <1>2, <1>3 DEF Posts, Silent, r

\* A duplicate posts nothing.
LEMMA PostsSame == ASSUME NEW d PROVE Posts(d, Ok(d).state)
BY DEF Posts, Silent, NotDecided, Ok

\* The import of an envelope, and what it leaves when a trade waited for it.
LEMMA ImportEnvelopePosts ==
  ASSUME NEW d \in AppState, NEW e \in Envelope, ImportEnvelope(d, e).ok
  PROVE  /\ Posts(d, ImportEnvelope(d, e).state)
         /\ e.type \in {"refund", "settlement"} =>
              /\ Status(ImportEnvelope(d, e).state, e.trade) # Awaits[e.type]
              /\ Status(d, e.trade) = Awaits[e.type]
                   => Status(ImportEnvelope(d, e).state, e.trade) = Brings[e.type]
<1> DEFINE t == e.trade
           r == ImportEnvelope(d, e).state
<1>1. e.type \in {"offer", "acceptance", "settlement", "cancel_request", "refund"} /\ t \in TradeIds
  BY Routes DEF Envelope, MessageTypes
<1>2. ~Refused.ok /\ Ok(d).state = d
  BY DEF Refused, Ok
<1>3. CASE e.type = "offer"
  <2> DEFINE n == [NoTrade EXCEPT !.status = OfferReceived, !.expiresAt = e.at]
  <2>1. ImportEnvelope(d, e) = ImportOffer(d, e)
    BY <1>3 DEF ImportEnvelope
  <2>2. CASE Status(d, t) = Absent
    <3>1. ImportOffer(d, e).state = WithTrade(d, t, n)
      BY <2>2 DEF ImportOffer, Ok, WithTrade
    <3>2. n \in Trade /\ n.status = OfferReceived
      BY StatusNames DEF NoTrade, Trade, Envelope
    <3> HIDE DEF n
    <3>3. /\ Status(r, t) = OfferReceived
          /\ \A o \in TradeIds \ {t} : Status(r, o) = Status(d, o)
      BY <1>1, <2>1, <3>1, <3>2, RecordFields DEF OnlyTrade, Status
    <3>4. Silent(d, r)
      BY <2>1, <3>1 DEF Silent, WithTrade, AppState
    <3> HIDE DEF r
    <3>5. \A o \in TradeIds : NotDecided(d, r, o)
      BY <1>1, <3>3, MovesNotDecided
    <3>6. Posts(d, r)
      BY <3>4, <3>5 DEF Posts
    <3> QED
      BY <1>3, <3>6 DEF r
  <2>3. CASE Status(d, t) # Absent
    <3>1. ImportOffer(d, e) \in {Refused, Ok(d), Ok(AdvanceTrade(d, t, OfferReceived))}
      BY <2>3, StepTradeChoices DEF ImportOffer
    <3>2. Posts(d, Ok(AdvanceTrade(d, t, OfferReceived)).state)
      BY <1>1, AdvancePosts DEF Ok
    <3> QED
      BY <1>2, <1>3, <2>1, <3>1, <3>2, PostsSame
  <2> QED
    BY <2>2, <2>3
<1>4. CASE e.type = "acceptance"
  <2>1. ImportEnvelope(d, e) = ImportAcceptance(d, e)
    BY <1>4 DEF ImportEnvelope
  <2>2. ImportAcceptance(d, e) \in {Refused, Ok(d), DecideRefund(d, e), CreditSeller(d, e)}
    BY DEF ImportAcceptance
  <2> QED
    BY <1>2, <1>4, <2>1, <2>2, PostsSame, DecideRefundPosts, CreditSellerPosts
<1>5. CASE e.type = "cancel_request"
  <2>1. ImportEnvelope(d, e) = ImportCancel(d, e)
    BY <1>5 DEF ImportEnvelope
  <2>2. ImportCancel(d, e) \in {Refused, Ok(d), DecideRefund(d, e)}
    BY StepTradeChoices DEF ImportCancel
  <2> QED
    BY <1>2, <1>5, <2>1, <2>2, PostsSame, DecideRefundPosts
<1>6. CASE e.type = "settlement"
  <2> DEFINE applied == Ok(AdvanceTrade(d, t, Completed))
  <2>1. /\ ImportEnvelope(d, e) = StepTrade(d, t, SettlementPendingExport, applied)
        /\ Status(d, t) # Absent
    BY <1>2, <1>6 DEF ImportEnvelope, ImportSettlement
  <2>2. Posts(d, applied.state) /\ Status(applied.state, t) = Completed
    BY <1>1, AdvancePosts DEF Ok
  <2> HIDE DEF applied
  <2>3. CASE Status(d, t) = SettlementPendingExport
    <3>1. ImportEnvelope(d, e) = applied
      BY <2>1, <2>3 DEF StepTrade, ClassifyStep, StepApply, StepTooEarly, StepDuplicate
    <3> QED
      BY <1>6, <2>2, <3>1, AwaitedStatuses
  <2>4. CASE Status(d, t) # SettlementPendingExport
    <3>1. ImportEnvelope(d, e) \in {Refused, Ok(d)}
      BY <2>1, <2>4 DEF StepTrade, ClassifyStep, StepApply, StepTooEarly, StepDuplicate
    <3> QED
      BY <1>2, <1>6, <2>4, <3>1, PostsSame, AwaitedStatuses
  <2> QED
    BY <2>3, <2>4
<1>7. CASE e.type = "refund"
  <2> DEFINE applied == ApplyRefund(d, t, "trade_refunded")
  <2>1. /\ ImportEnvelope(d, e) = StepTrade(d, t, RefundPendingExport, applied)
        /\ Status(d, t) # Absent
    BY <1>2, <1>7 DEF ImportEnvelope, ImportRefund
  <2>2. CASE Status(d, t) = RefundPendingExport
    <3>1. ImportEnvelope(d, e) = applied
      BY <2>1, <2>2 DEF StepTrade, ClassifyStep, StepApply, StepTooEarly, StepDuplicate
    <3>2. Posts(d, applied.state) /\ Status(applied.state, t) = Refunded
      BY <1>1, <2>2, <3>1, ApplyRefundPosts, ApplyRefundMoves, StatusNames
    <3> QED
      BY <1>7, <3>1, <3>2, AwaitedStatuses
  <2>3. CASE Status(d, t) # RefundPendingExport
    <3>1. ImportEnvelope(d, e) \in {Refused, Ok(d)}
      BY <2>1, <2>3 DEF StepTrade, ClassifyStep, StepApply, StepTooEarly, StepDuplicate
    <3> QED
      BY <1>2, <1>7, <2>3, <3>1, PostsSame, AwaitedStatuses
  <2> QED
    BY <2>2, <2>3
<1> QED
  BY <1>1, <1>3, <1>4, <1>5, <1>6, <1>7

\* The new offer is sent, and decides nothing (CreateOffer).
LEMMA OfferPosts ==
  ASSUME NEW d \in AppState, NEW t \in TradeIds, NEW at \in Nat
  PROVE  LET offered == [d EXCEPT !.trades[t] =
                           [NoTrade EXCEPT !.status = OfferPendingExport, !.expiresAt = at]]
         IN  Posts(d, Emit(offered, "offer", t, at))
<1> DEFINE n == [NoTrade EXCEPT !.status = OfferPendingExport, !.expiresAt = at]
           a == WithTrade(d, t, n)
<1>1. n \in Trade /\ n.status = OfferPendingExport /\ "offer" \in MessageTypes
  BY StatusNames DEF NoTrade, Trade, MessageTypes
<1>2. Silent(d, a)
  BY DEF Silent, WithTrade, AppState
<1> HIDE DEF n
<1>3. /\ a \in AppState /\ Status(a, t) = OfferPendingExport
      /\ \A o \in TradeIds \ {t} : Status(a, o) = Status(d, o)
  BY <1>1, RecordFields DEF OnlyTrade, Status
<1>4. a = [d EXCEPT !.trades[t] = n]
  BY DEF WithTrade
<1> HIDE DEF a
<1>5. \A o \in TradeIds : NotDecided(d, a, o)
  BY <1>3, MovesNotDecided
<1>6. Posts(d, Emit(a, "offer", t, at))
  BY <1>1, <1>2, <1>3, <1>5, EmitPosts
<1> QED
  BY <1>4, <1>6 DEF n

\* So is the acceptance (AcceptTrade).
LEMMA AcceptPosts ==
  ASSUME NEW d \in AppState, NEW t \in TradeIds, NEW now \in Nat,
         d.accounts[Buyer[t]] >= Price[t]
  PROVE  Posts(d, Book(Emit(Debited(d, t, now), "acceptance", t, now), t, "trade_accepted"))
<1> DEFINE a == Debited(d, t, now)
           b == Emit(a, "acceptance", t, now)
<1>1. /\ a \in AppState /\ Status(a, t) = AcceptancePendingExport
      /\ \A o \in TradeIds \ {t} : Status(a, o) = Status(d, o)
  BY DebitedFields DEF OnlyTrade, Status
<1>2. Silent(d, a)
  BY DEF Silent, Debited, AdvanceTrade, AppState
<1>3. "acceptance" \in MessageTypes
  BY DEF MessageTypes
<1> HIDE DEF a
<1>4. \A o \in TradeIds : NotDecided(d, a, o)
  BY <1>1, MovesNotDecided
<1>5. Posts(d, b) /\ b \in AppState
  BY <1>1, <1>2, <1>3, <1>4, EmitPosts, EmitFields
<1> HIDE DEF b
<1> QED
  BY <1>5, BookPosts DEF a, b

\* And the request to cancel (CancelTrade).
LEMMA RequestPosts ==
  ASSUME NEW d \in AppState, NEW t \in TradeIds
  PROVE  Posts(d, Emit(d, "cancel_request", t, 0))
<1>1. "cancel_request" \in MessageTypes /\ 0 \in Nat
  BY DEF MessageTypes
<1>2. Silent(d, d) /\ \A o \in TradeIds : NotDecided(d, d, o)
  BY DEF Silent, NotDecided
<1> QED
  BY <1>1, <1>2, EmitPosts

\* The sweep sends nothing (SweepExpiredTrades).
LEMMA SweepPosts ==
  ASSUME NEW d \in AppState, NEW batch \in SUBSET TradeIds
  PROVE  LET x == [t \in TradeIds |-> IF t \in batch THEN [d.trades[t] EXCEPT !.status = Expired]
                                                     ELSE d.trades[t]]
         IN  Posts(d, [d EXCEPT !.trades = x])
<1> DEFINE x == [t \in TradeIds |-> IF t \in batch THEN [d.trades[t] EXCEPT !.status = Expired]
                                                   ELSE d.trades[t]]
           r == [d EXCEPT !.trades = x]
<1>1. \A t \in TradeIds : x[t].status \in {d.trades[t].status, Expired}
  BY Fields DEF Trade
<1> HIDE DEF x
<1>2. r.trades = x /\ Silent(d, r)
  BY DEF Silent, AppState
<1> HIDE DEF r
<1>3. \A t \in TradeIds : Status(r, t) \in {Status(d, t), Expired}
  BY <1>1, <1>2 DEF Status
<1>4. \A t \in TradeIds : NotDecided(d, r, t)
  BY <1>3, AwaitedStatuses DEF NotDecided
<1> QED
  BY <1>2, <1>4 DEF Posts, r, x

\* What leaves trades and mail alone posts nothing.
LEMMA QuietPosts ==
  ASSUME NEW d, NEW r, Silent(d, r), r.trades = d.trades
  PROVE  Posts(d, r)
BY DEF Posts, NotDecided, Status

(***************************************************************************)
(* The mail of a state: what is with the relays, E, and in the outboxes.   *)
(* Every envelope has an id of its own, which was issued, and so was       *)
(* whatever was processed.                                                 *)
(***************************************************************************)
Mail(d, E) == E \cup UNION {d.outbox[c] : c \in Colonies}

Numbered(d, E) ==
  /\ \A e \in Mail(d, E) : e.id[1] = e.trade /\ e.id[2] < d.issued[e.trade]
  /\ \A e, f \in Mail(d, E) : e.id = f.id => e = f
  /\ \A c \in Colonies : \A e \in d.outbox[c] : From(e) = c
  /\ \A c \in Colonies : \A id \in d.processed[c] : id[2] < d.issued[id[1]]

\* A trade that waits for an envelope will find one.
Waits(d, E, t, type) ==
  \E e \in E \cup d.outbox[SellerColony(t)] :
    e.type = type /\ e.trade = t /\ e.id \notin d.processed[BuyerColony(t)]

Delivers(d, E) ==
  \A t \in TradeIds : \A type \in {"refund", "settlement"} :
    Status(d, t) = Awaits[type] => Waits(d, E, t, type)

\* What is posted has an id of its own and is found.
LEMMA PostsMail ==
  ASSUME NEW d \in AppState, NEW E \in SUBSET Envelope, Numbered(d, E), NEW r, Posts(d, r)
  PROVE  Numbered(r, E) /\ (Delivers(d, E) => Delivers(r, E))
<1>1. /\ d.outbox \in [Colonies -> SUBSET Envelope] /\ d.issued \in [TradeIds -> Nat]
      /\ d.processed \in [Colonies -> SUBSET (TradeIds \X Nat)]
  BY Fields
<1>2. CASE Silent(d, r) /\ \A t \in TradeIds : NotDecided(d, r, t)
  BY <1>2 DEF Silent, NotDecided, Numbered, Mail, Delivers, Waits
<1>3. CASE \E n \in Envelope : Announces(d, r, n)
  <2>1. PICK n \in Envelope : Announces(d, r, n)
    BY <1>3
  <2>2. n.trade \in TradeIds /\ From(n) \in Colonies
    BY Routes
  <2>3. /\ n.id = <<n.trade, d.issued[n.trade]>> /\ r.processed = d.processed
        /\ n.id[1] = n.trade /\ n.id[2] = d.issued[n.trade]
    BY <2>1 DEF Announces
  <2>4. /\ \A c \in Colonies : d.outbox[c] \subseteq r.outbox[c]
        /\ \A c \in Colonies : \A e \in r.outbox[c] : e \in d.outbox[c] \/ (e = n /\ c = From(n))
        /\ n \in r.outbox[From(n)]
    BY <1>1, <2>1, <2>2 DEF Announces
  <2>5. /\ r.issued[n.trade] = d.issued[n.trade] + 1 /\ d.issued[n.trade] \in Nat
        /\ \A t \in TradeIds : r.issued[t] >= d.issued[t] /\ r.issued[t] \in Nat /\ d.issued[t] \in Nat
    BY <1>1, <2>1, <2>2 DEF Announces
  <2>6. Mail(r, E) = Mail(d, E) \cup {n} /\ Mail(d, E) \subseteq Envelope
    BY <1>1, <2>2, <2>4 DEF Mail
  <2>7. \A e \in Envelope : e.trade \in TradeIds /\ e.id \in TradeIds \X Nat
    BY DEF Envelope
  <2>8. \A e \in Mail(r, E) : e.id[1] = e.trade /\ e.id[2] < r.issued[e.trade]
    <3> SUFFICES ASSUME NEW e \in Mail(r, E) PROVE e.id[1] = e.trade /\ e.id[2] < r.issued[e.trade]
      OBVIOUS
    <3>1. CASE e = n
      BY <2>3, <2>5, <3>1
    <3>2. CASE e \in Mail(d, E)
      <4>1. e.id[1] = e.trade /\ e.id[2] < d.issued[e.trade] /\ e.trade \in TradeIds /\ e.id[2] \in Nat
        BY <2>6, <2>7, <3>2 DEF Numbered
      <4> QED
        BY <2>5, <4>1
    <3> QED
      BY <2>6, <3>1, <3>2
  <2>9. \A e \in Mail(d, E) : e.id # n.id
    <3> SUFFICES ASSUME NEW e \in Mail(d, E), e.id = n.id PROVE FALSE
      OBVIOUS
    <3>1. e.id[1] = e.trade /\ e.id[2] < d.issued[e.trade]
      BY DEF Numbered
    <3> QED
      BY <2>3, <2>5, <3>1
  <2>10. \A e, f \in Mail(r, E) : e.id = f.id => e = f
    BY <2>6, <2>9 DEF Numbered
  <2>11. \A c \in Colonies : \A e \in r.outbox[c] : From(e) = c
    BY <2>4 DEF Numbered
  <2>12. \A c \in Colonies : \A id \in r.processed[c] : id[2] < r.issued[id[1]]
    <3> SUFFICES ASSUME NEW c \in Colonies, NEW id \in d.processed[c] PROVE id[2] < r.issued[id[1]]
      BY <2>3
    <3>1. id[2] < d.issued[id[1]] /\ id[1] \in TradeIds /\ id[2] \in Nat
      BY <1>1 DEF Numbered
    <3> QED
      BY <2>5, <3>1
  <2>13. Numbered(r, E)
    BY <2>8, <2>10, <2>11, <2>12 DEF Numbered
  <2>14. ASSUME Delivers(d, E) PROVE Delivers(r, E)
    <3> SUFFICES ASSUME NEW t \in TradeIds, NEW type \in {"refund", "settlement"},
                        Status(r, t) = Awaits[type]
                 PROVE  Waits(r, E, t, type)
      BY DEF Delivers
    <3>1. SellerColony(t) \in Colonies /\ BuyerColony(t) \in Colonies
      BY Terms
    <3>2. CASE NotDecided(d, r, t)
      <4>1. Waits(d, E, t, type)
        BY <2>14, <3>2 DEF NotDecided, Delivers
      <4> QED
        BY <2>3, <2>4, <3>1, <4>1 DEF Waits
    <3>3. CASE t = n.trade /\ n.type \in {"refund", "settlement"} /\ Status(r, t) = Awaits[n.type]
      <4>1. n.type = type
        BY <3>3, AwaitedStatuses
      <4>2. From(n) = SellerColony(t)
        BY <3>3 DEF From
      <4>3. n.id \notin r.processed[BuyerColony(t)]
        <5> SUFFICES ASSUME n.id \in d.processed[BuyerColony(t)] PROVE FALSE
          BY <2>3
        <5>1. n.id[2] < d.issued[n.id[1]]
          BY <3>1 DEF Numbered
        <5> QED
          BY <2>3, <2>5, <5>1
      <4> QED
        BY <2>4, <3>1, <3>3, <4>1, <4>2, <4>3 DEF Waits
    <3> QED
      BY <2>1, <3>2, <3>3 DEF Announces
  <2> QED
    BY <2>13, <2>14
<1> QED
  BY <1>2, <1>3 DEF Posts

\* An envelope that is imported is processed, and no trade waits for it any more
\* (ImportBundle).
LEMMA ImportMail ==
  ASSUME NEW d \in AppState, Sound(d), NEW E \in SUBSET Envelope, Numbered(d, E),
         NEW e \in E, d.issued[e.trade] > 0, NEW source \in Colonies, NEW target \in Colonies,
         ImportMessage(d, source, target, e).ok
  PROVE  LET r == ImportMessage(d, source, target, e).state
         IN  Numbered(r, E) /\ (Delivers(d, E) => Delivers(r, E))
<1> DEFINE m == ImportEnvelope(d, e).state
           p == [m.processed EXCEPT ![target] = @ \cup {e.id}]
           r == [m EXCEPT !.processed = p]
<1>1. CASE ImportMessage(d, source, target, e) = Ok(d)
  BY <1>1 DEF Ok
<1>2. CASE ImportEnvelope(d, e).ok /\ ImportMessage(d, source, target, e) = Ok(r)
  <2>1. /\ m \in AppState /\ Posts(d, m)
        /\ e.type \in {"refund", "settlement"} => Status(m, e.trade) # Awaits[e.type]
    BY <1>2, ImportEnvelopeKeeps, ImportEnvelopePosts DEF Keeps, Kept
  <2> HIDE DEF m
  <2>2. Numbered(m, E) /\ (Delivers(d, E) => Delivers(m, E))
    BY <2>1, PostsMail
  <2>3. m.processed \in [Colonies -> SUBSET (TradeIds \X Nat)]
    BY <2>1, Fields
  <2>4. \A c \in Colonies : \A id \in p[c] : id \in m.processed[c] \/ id = e.id
    BY <2>3
  <2> HIDE DEF p
  <2>5. r.processed = p /\ r.outbox = m.outbox /\ r.issued = m.issued /\ r.trades = m.trades
    BY <2>1 DEF AppState
  <2> HIDE DEF r
  <2>6. e \in Mail(m, E) /\ e.id[1] = e.trade /\ e.id[2] < m.issued[e.trade]
    BY <2>2 DEF Numbered, Mail
  <2>7. Numbered(r, E)
    BY <2>2, <2>4, <2>5, <2>6 DEF Numbered, Mail
  <2>8. ASSUME Delivers(m, E) PROVE Delivers(r, E)
    <3> SUFFICES ASSUME NEW t \in TradeIds, NEW type \in {"refund", "settlement"},
                        Status(r, t) = Awaits[type]
                 PROVE  Waits(r, E, t, type)
      BY DEF Delivers
    <3>1. SellerColony(t) \in Colonies /\ BuyerColony(t) \in Colonies
      BY Terms
    <3>2. Status(m, t) = Awaits[type]
      BY <2>5 DEF Status
    <3>3. PICK f \in E \cup m.outbox[SellerColony(t)] :
            f.type = type /\ f.trade = t /\ f.id \notin m.processed[BuyerColony(t)]
      BY <2>8, <3>2 DEF Delivers, Waits
    <3>4. f.id # e.id
      <4> SUFFICES ASSUME f.id = e.id PROVE FALSE
        OBVIOUS
      <4>1. f \in Mail(m, E)
        BY <3>1 DEF Mail
      <4>2. f = e
        BY <2>2, <2>6, <4>1 DEF Numbered
      <4> QED
        BY <2>1, <3>2, <3>3, <4>2
    <3>5. f.id \notin p[BuyerColony(t)]
      BY <2>4, <3>1, <3>3, <3>4
    <3> QED
      BY <2>5, <3>3, <3>5 DEF Waits
  <2> QED
    BY <1>2, <2>2, <2>7, <2>8 DEF Ok
<1>3. CASE ImportMessage(d, source, target, e) = Refused
  BY <1>3 DEF Refused
<1> QED
  BY <1>1, <1>2, <1>3 DEF ImportMessage

\* An export takes envelopes to the relays (ExportBundle).
LEMMA ExportMail ==
  ASSUME NEW d \in AppState, NEW E \in SUBSET Envelope, Numbered(d, E),
         NEW c \in Colonies, NEW M \in SUBSET d.outbox[c]
  PROVE  LET r == [d EXCEPT !.outbox[c] = @ \ M]
         IN  /\ Numbered(r, E) /\ Numbered(r, E \cup M)
             /\ Delivers(d, E) => Delivers(r, E \cup M)
<1> DEFINE x == [d.outbox EXCEPT ![c] = @ \ M]
           r == [d EXCEPT !.outbox = x]
<1>1. /\ x[c] = d.outbox[c] \ M
      /\ \A o \in Colonies : x[o] \subseteq d.outbox[o] /\ d.outbox[o] \subseteq x[o] \cup M
  BY Fields
<1> HIDE DEF x
<1>2. r.outbox = x /\ r.processed = d.processed /\ r.issued = d.issued /\ r.trades = d.trades
  BY DEF AppState
<1>3. \A t : Status(r, t) = Status(d, t)
  BY <1>2 DEF Status
<1> HIDE DEF r
<1>4. Mail(r, E) \subseteq Mail(d, E) /\ Mail(r, E \cup M) \subseteq Mail(d, E)
  BY <1>1, <1>2 DEF Mail
<1>5. Numbered(r, E) /\ Numbered(r, E \cup M)
  BY <1>1, <1>2, <1>4 DEF Numbered
<1>6. ASSUME Delivers(d, E) PROVE Delivers(r, E \cup M)
  <2> SUFFICES ASSUME NEW t \in TradeIds, NEW type \in {"refund", "settlement"},
                      Status(d, t) = Awaits[type]
               PROVE  Waits(r, E \cup M, t, type)
    BY <1>3 DEF Delivers
  <2>1. Waits(d, E, t, type) /\ SellerColony(t) \in Colonies
    BY <1>6, Terms DEF Delivers
  <2> QED
    BY <1>1, <1>2, <2>1 DEF Waits
<1> QED
  BY <1>5, <1>6 DEF r, x

=============================================================================

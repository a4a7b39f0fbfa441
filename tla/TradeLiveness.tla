--------------------------- MODULE TradeLiveness ----------------------------
(***************************************************************************)
(* What the trade protocol eventually does, and who has to keep going for  *)
(* it.  Nothing is assumed of a seller, of a buyer who has not been        *)
(* debited, or of the admins.                                              *)
(***************************************************************************)
EXTENDS TradeProtocol

\* A relay carries the envelope with this id, which is not processed yet.
Deliver(id) ==
  \E e \in relay :
    /\ e.id = id /\ id \notin db.processed[To(e)]
    /\ BeginImport(From(e), To(e), <<e>>)

\* An import ends although its next message would have been taken.
Abandoned == AbandonImport /\ ~RefuseBundle

Sweep == \E batch \in SUBSET TradeIds : SweepExpired(clock, batch)

(***************************************************************************)
(* The program's own part: time passes; a request that got the lock runs   *)
(* to its end unless the server stops; the sweep comes round every minute  *)
(* (cmd/itp-server/main.go), and gets the store's lock, which starves      *)
(* nobody.                                                                 *)
(***************************************************************************)
ProgramFairness ==
  /\ WF_vars(Tick)
  /\ WF_vars(ImportNext \/ RefuseBundle \/ CommitImport)
  /\ SF_vars(Sweep)

(***************************************************************************)
(* The people's part: relays keep exporting and importing, each envelope   *)
(* by itself too and even if it was refused before, the server is not      *)
(* stopped again and again for ever, and a buyer whose money is in flight  *)
(* keeps asking for it back.                                               *)
(***************************************************************************)
RelayFairness ==
  /\ \A t \in TradeIds :
       /\ SF_vars(ExportBundle(SellerColony(t), BuyerColony(t), FALSE))
       /\ SF_vars(ExportBundle(BuyerColony(t), SellerColony(t), FALSE))
       /\ \A n \in 0..MaxEnvelopes : SF_vars(Deliver(<<t, n>>))
  /\ <>[][~Abandoned]_vars

(***************************************************************************)
(* Bound: a buyer repeats a request only once the last one was exported,   *)
(* so that MaxEnvelopes outlasts MaxLosses lost requests.                  *)
(***************************************************************************)
Requests(d, t) == {e \in d.outbox[BuyerColony(t)] : e.type = "cancel_request" /\ e.trade = t}
Patient == \A t \in TradeIds : Cardinality(Requests(db', t)) <= 1

BuyerFairness == \A t \in TradeIds : SF_vars(RequestCancel(t) /\ Patient)

(***************************************************************************)
(* A mint (applyMint, see Supply) fills up a seller's account, by one at a *)
(* time, when a payment is under way that it has room for.  Bound: only    *)
(* sellers, only then; a refund that a buyer's account had no room for     *)
(* would wait for ever.                                                    *)
(***************************************************************************)
Mint(u) ==
  /\ tx = Idle
  /\ \E t \in TradeIds :
       /\ u = Seller[t] /\ Status(db, t) = AcceptancePendingExport
       /\ Fits(db.accounts[u], Price[t])
  /\ Fits(db.accounts[u], 1)
  /\ db' = [db EXCEPT !.accounts[u] = @ + 1]
  /\ UNCHANGED <<tx, relay, clock, losses>>

LiveNext == Next \/ \E u \in Traders : Mint(u)

LiveSpec == Init /\ [][LiveNext /\ Patient]_vars

FairSpec == LiveSpec /\ ProgramFairness /\ RelayFairness /\ BuyerFairness

(***************************************************************************)
(* An offer whose expiry comes is not left open: it is accepted, withdrawn *)
(* or swept.                                                               *)
(***************************************************************************)
OpenOffer(t) == Status(db, t) \in {OfferPendingExport, OfferReceived}

OffersAreClosed ==
  \A t \in TradeIds :
    (OpenOffer(t) /\ db.trades[t].expiresAt < MaxClock) ~> ~OpenOffer(t)

(***************************************************************************)
(* Funds are not stuck in flight: even when the acceptance was lost on its *)
(* way, the seller colony comes to a decision.                             *)
(***************************************************************************)
AcceptancesAreDecided ==
  \A t \in TradeIds :
    (Status(db, t) = AcceptancePendingExport) ~> (Status(db, t) # AcceptancePendingExport)

(***************************************************************************)
(* A decision reaches the buyer colony, which completes the trade or       *)
(* credits the refund, provided its envelope was not lost.                 *)
(***************************************************************************)
DecisionsArrive ==
  \A t \in TradeIds :
    /\ (Status(db, t) = RefundPendingExport)
         ~> (Status(db, t) = Refunded \/ losses > 0)
    /\ (Status(db, t) = SettlementPendingExport)
         ~> (Status(db, t) = Completed \/ losses > 0)

=============================================================================

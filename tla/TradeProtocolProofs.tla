------------------------ MODULE TradeProtocolProofs -------------------------
(***************************************************************************)
(* Theorems about the trade protocol, for any colonies, traders, trades,   *)
(* prices and bounds.  The handlers keep a state of the store sound        *)
(* (module TradeHandlers); here the steps of the system are put together   *)
(* from them, with the envelopes on their way and the import in progress:  *)
(* the safety of money, the refinement of Escrow, who decides about an     *)
(* acceptance in flight, that no envelope blocks the bundles it is in, and *)
(* that a trade that waits for an envelope has one to wait for.  Mints in  *)
(* between change none of it.  Then come backups and restores, which       *)
(* neither create nor destroy money, nor let anybody else decide, and at   *)
(* the end the search for a path in the table of transitions.              *)
(***************************************************************************)
EXTENDS TradeHandlers, TradeRestore, TradeLiveness, TradeSearch, SequenceTheorems

USE ProtocolAssumption

-----------------------------------------------------------------------------
(***************************************************************************)
(* The inductive invariant.  The committed state is sound, and so is the   *)
(* private copy of an import; every envelope on its way, in the hands of a *)
(* relay or in the bundle being imported, was issued in both.              *)
(***************************************************************************)
IssuedUpTo(d, r) == \A t \in TradeIds : r.issued[t] >= d.issued[t]

Bundle == {tx.todo[i] : i \in 1..Len(tx.todo)}

ImportSound ==
  tx.active => /\ Sound(tx.work)
               /\ Issued(tx.work, relay) /\ Issued(tx.work, Bundle)
               /\ IssuedUpTo(db, tx.work)
               /\ Resolves(db, tx.work) /\ Minted(tx.work) = Minted(db)

IInv == TypeOK /\ Sound(db) /\ Issued(db, relay) /\ ImportSound

\* A step keeps the invariant and takes no id back; of the prices it puts one
\* into the escrow, or it resolves some, or it moves none.
SoundStep ==
  /\ IInv' /\ IssuedUpTo(db, db') /\ Minted(db') = Minted(db)
  /\ Resolves(db, db') \/ \E t \in TradeIds : Enters(db, db', t)

\* What was issued stays issued.
LEMMA IssuedKept ==
  ASSUME NEW d \in AppState, NEW r \in AppState, Kept(d, r),
         NEW E \in SUBSET Envelope, Issued(d, E)
  PROVE  Issued(r, E)
<1> SUFFICES ASSUME NEW e \in E PROVE r.issued[e.trade] > 0
  BY DEF Issued
<1>1. e.trade \in TradeIds
  BY Routes
<1>2. d.issued[e.trade] \in Nat /\ r.issued[e.trade] \in Nat
  BY <1>1, Fields
<1>3. d.issued[e.trade] > 0 /\ r.issued[e.trade] >= d.issued[e.trade]
  BY <1>1 DEF Issued, Kept
<1> QED
  BY <1>2, <1>3

\* A transaction of the store that keeps the state sound keeps the invariant.
LEMMA TransactionKeeps ==
  ASSUME IInv, Transaction, Kept(db, db'),
         Resolves(db, db') \/ \E t \in TradeIds : Enters(db, db', t),
         relay' \in SUBSET Envelope, Issued(db', relay' \ relay),
         clock' \in 0..MaxClock, losses' \in 0..MaxLosses
  PROVE  SoundStep
<1>1. db \in AppState /\ db' \in AppState /\ Sound(db')
  BY DEF IInv, TypeOK, Kept
<1>2. tx' = tx /\ ~tx'.active
  BY DEF Transaction
<1>3. TypeOK'
  BY <1>1, <1>2 DEF IInv, TypeOK
<1>4. Issued(db', relay)
  BY <1>1, IssuedKept DEF IInv, TypeOK
<1>5. Issued(db', relay')
  BY <1>4 DEF Issued
<1> QED
  BY <1>1, <1>2, <1>3, <1>5 DEF SoundStep, IssuedUpTo, Kept, IInv, ImportSound

\* The store as it was set up is sound.
LEMMA InitSound == Init => IInv /\ Minted(db) = Funding
<1> SUFFICES ASSUME Init PROVE IInv /\ Minted(db) = Funding
  OBVIOUS
<1>1. Funding \in [Traders -> Nat] /\ \A u \in Traders : Funding[u] <= MaxInt64 /\ MaxInt64 \in Nat
  BY DEF ProtocolAssumption
<1>2. /\ db.accounts = Funding
      /\ db.netClaims = [p \in Colonies \X Colonies |-> 0]
      /\ db.netObligations = [p \in Colonies \X Colonies |-> 0]
      /\ db.outbox = [c \in Colonies |-> {}]
      /\ db.trades = [t \in TradeIds |-> NoTrade]
      /\ db.booked = [t \in TradeIds |-> [k \in Bookings |-> 0]]
      /\ db.issued = [t \in TradeIds |-> 0]
  BY DEF Init
<1>3. db \in AppState
  <2>1. NoTrade \in Trade
    BY DEF NoTrade, Trade
  <2> QED
    BY <1>1, <2>1 DEF Init, AppState, ProtocolAssumption
<1>4. \A t \in TradeIds : Status(db, t) = Absent /\ ~db.trades[t].accepted
  BY <1>2 DEF Status, NoTrade
<1>5. \A t \in TradeIds : ~IsEscrowed(Status(db, t)) /\ ~Paid(db, t) /\ ~Returned(db, t)
  BY <1>4 DEF IsEscrowed, Paid, Returned, Absent, AcceptancePendingExport,
       RefundPendingExport, SettlementPendingExport, Completed, Refunded
<1>6. Holdings(db) = Total(Funding)
  <2>1. Escrow(db) \in [TradeIds -> Nat] /\ \A t \in TradeIds : Escrow(db)[t] = 0
    BY <1>5, Terms DEF Escrow
  <2>2. Total(Escrow(db)) = 0
    BY <2>1, TotalOfZeros
  <2>3. Total(Funding) \in Nat
    BY <1>1, UnitsFinite DEF ProtocolAssumption
  <2> QED
    BY <1>2, <2>2, <2>3 DEF Holdings
<1>7. BookedOnceIn(db)
  BY <1>2, <1>5 DEF BookedOnceIn, Count, Bookings
<1>8. NetPositionsMirrorIn(db)
  <2> SUFFICES ASSUME NEW c \in Colonies, NEW o \in Colonies
               PROVE  Total(Settled(db, c, o)) = 0
    BY <1>2 DEF NetPositionsMirrorIn
  <2>1. /\ Settled(db, c, o) \in [TradeIds -> Nat]
        /\ \A t \in TradeIds : Settled(db, c, o)[t] = 0
    BY <1>5 DEF Settled
  <2> QED
    BY <2>1, TotalOfZeros
<1>9. AmountsFitIn(db)
  BY <1>1, <1>2 DEF AmountsFitIn
<1>10. \A t \in TradeIds : ClosedAt(db, t) /\ FreshAt(db, t)
  BY <1>4, <1>5 DEF ClosedAt, FreshAt
<1>11. \A c \in Colonies : Issued(db, db.outbox[c])
  BY <1>2 DEF Issued
<1>12. Minted(db) = Funding
  <2> SUFFICES ASSUME NEW u \in Traders
               PROVE  Total(EarnedIn(db, u)) = 0 /\ Total(SpentIn(db, u)) = 0
    BY <1>1, <1>2 DEF Minted
  <2>1. \A t \in TradeIds : Holder(db, t) \notin {"escrow", "seller"}
    BY <1>5, HolderFacts
  <2>2. /\ EarnedIn(db, u) \in [TradeIds -> Nat] /\ \A t \in TradeIds : EarnedIn(db, u)[t] = 0
        /\ SpentIn(db, u) \in [TradeIds -> Nat] /\ \A t \in TradeIds : SpentIn(db, u)[t] = 0
    BY <2>1, OutcomeType DEF EarnedIn, SpentIn, EarnedAt, SpentAt
  <2> QED
    BY <2>2, TotalOfZeros
<1>13. Sound(db)
  BY <1>1, <1>6, <1>7, <1>8, <1>9, <1>10, <1>11, <1>12 DEF Sound
<1>14. TypeOK
  BY <1>3 DEF Init, TypeOK, ProtocolAssumption
<1> QED
  BY <1>12, <1>13, <1>14 DEF Init, IInv, ImportSound, Issued, Idle

\* A transaction that leaves the relay and the number of losses alone.
LEMMA PlainTransactionKeeps ==
  ASSUME IInv, Transaction, Keeps(db, db'), clock' \in 0..MaxClock,
         relay' = relay, losses' = losses
  PROVE  SoundStep
<1>1. relay' \in SUBSET Envelope /\ losses' \in 0..MaxLosses
  BY DEF IInv, TypeOK
<1>2. Issued(db', relay' \ relay)
  BY DEF Issued
<1> QED
  BY <1>1, <1>2, TransactionKeeps DEF Keeps

\* Every step keeps the invariant.
LEMMA StepSound == IInv /\ [Next]_vars => SoundStep
<1> SUFFICES ASSUME IInv, [Next]_vars PROVE SoundStep
  OBVIOUS
<1>1. /\ db \in AppState /\ Sound(db) /\ clock \in Nat /\ clock \in 0..MaxClock
      /\ MaxClock \in Nat /\ relay \in SUBSET Envelope /\ tx \in ImportTx \cup {Idle}
      /\ PendingActionTTL \in Nat
  BY DEF IInv, TypeOK, ProtocolAssumption
<1>2. ASSUME NEW t \in TradeIds, NEW ttl \in OfferTTLs, CreateOffer(t, ttl)
      PROVE  SoundStep
  <2>1. clock + ttl \in Nat
    BY <1>1, <1>2 DEF ProtocolAssumption
  <2>2. db.issued[t] = 0
    BY <1>2 DEF CreateOffer
  <2>3. Keeps(db, db')
    BY <1>1, <1>2, <2>1, <2>2, OfferKeeps DEF CreateOffer
  <2> QED
    BY <1>1, <1>2, <2>3, PlainTransactionKeeps DEF CreateOffer
<1>3. ASSUME NEW t \in TradeIds, AcceptTrade(t)
      PROVE  SoundStep
  <2>1. clock' \in 0..MaxClock /\ clock' \in Nat
    BY <1>1, <1>3 DEF AcceptTrade
  <2>2. Status(db, t) = OfferReceived /\ db.accounts[Buyer[t]] >= Price[t]
    BY <1>3 DEF AcceptTrade, Acceptable
  <2>3. Kept(db, db') /\ Enters(db, db', t)
    BY <1>1, <1>3, <2>1, <2>2, AcceptKeeps DEF AcceptTrade
  <2>4. /\ relay' \in SUBSET Envelope /\ losses' \in 0..MaxLosses
        /\ Issued(db', relay' \ relay)
    BY <1>3 DEF AcceptTrade, IInv, TypeOK, Issued
  <2> QED
    BY <1>3, <2>1, <2>3, <2>4, TransactionKeeps DEF AcceptTrade
<1>4. ASSUME NEW t \in TradeIds, WithdrawOffer(t)
      PROVE  SoundStep
  <2>1. Keeps(db, db')
    BY <1>1, <1>4, WithdrawKeeps DEF WithdrawOffer
  <2> QED
    BY <1>1, <1>4, <2>1, PlainTransactionKeeps DEF WithdrawOffer
<1>5. ASSUME NEW t \in TradeIds, RequestCancel(t)
      PROVE  SoundStep
  <2>1. Keeps(db, db')
    BY <1>1, <1>5, RequestKeeps DEF RequestCancel
  <2> QED
    BY <1>1, <1>5, <2>1, PlainTransactionKeeps DEF RequestCancel
<1>6. ASSUME NEW c \in Colonies, NEW dest \in Colonies, NEW lost \in BOOLEAN,
             ExportBundle(c, dest, lost)
      PROVE  SoundStep
  <2> DEFINE messages == {e \in db.outbox[c] : To(e) = dest}
  <2>1. messages \in SUBSET Envelope /\ Issued(db, messages)
    <3>1. db.outbox[c] \in SUBSET Envelope /\ Issued(db, db.outbox[c])
      BY <1>1, <1>6, Fields DEF Sound
    <3> QED
      BY <3>1 DEF Issued
  <2>2. /\ Transaction /\ db' = [db EXCEPT !.outbox[c] = @ \ messages]
        /\ clock' = clock
        /\ relay' = relay \/ relay' = relay \cup messages
        /\ losses' = losses \/ (losses < MaxLosses /\ losses' = losses + 1)
    BY <1>6 DEF ExportBundle
  <2> HIDE DEF messages
  <2>3. Keeps(db, db')
    BY <1>1, <1>6, <2>2, ExportKeeps
  <2>4. db' \in AppState
    BY <2>3 DEF Keeps, Kept
  <2>5. Issued(db', messages)
    BY <1>1, <2>1, <2>3, <2>4, IssuedKept DEF Keeps
  <2>6. relay' \in SUBSET Envelope /\ Issued(db', relay' \ relay)
    BY <1>1, <2>1, <2>2, <2>5 DEF Issued
  <2>7. losses' \in 0..MaxLosses
    BY <2>2 DEF IInv, TypeOK, ProtocolAssumption
  <2> QED
    BY <1>1, <2>2, <2>3, <2>6, <2>7, TransactionKeeps DEF Keeps
<1>7. ASSUME NEW c \in Colonies, NEW dest \in Colonies, NEW messages \in Bundles,
             BeginImport(c, dest, messages)
      PROVE  SoundStep
  <2>1. /\ tx' = [active |-> TRUE, source |-> c, target |-> dest,
                  todo |-> messages, work |-> db]
        /\ db' = db /\ relay' = relay /\ clock' = clock /\ losses' = losses
    BY <1>7 DEF BeginImport
  <2>2. messages \in Seq(relay) /\ messages \in Seq(Envelope)
    <3>1. PICK n \in 0..MaxBundle : messages \in [1..n -> relay]
      BY <1>7 DEF Bundles
    <3>2. n \in Nat
      BY <3>1 DEF ProtocolAssumption
    <3> QED
      BY <1>1, <3>1, <3>2
  <2>3. tx' \in ImportTx
    BY <1>1, <1>7, <2>1, <2>2 DEF ImportTx
  <2>4. TypeOK'
    BY <1>1, <2>1, <2>3 DEF IInv, TypeOK
  <2>5. tx'.work = db /\ Bundle' \subseteq relay
    BY <2>1, <2>2 DEF Bundle
  <2>6. IssuedUpTo(db, db) /\ Resolves(db, db)
    BY <1>1, Fields DEF IssuedUpTo, Resolves
  <2>7. ImportSound'
    BY <1>1, <2>1, <2>5, <2>6 DEF IInv, ImportSound, Issued
  <2>8. Sound(db') /\ Issued(db', relay')
    BY <2>1 DEF IInv
  <2> QED
    BY <2>1, <2>4, <2>6, <2>7, <2>8 DEF IInv, SoundStep
<1>8. ASSUME ImportNext
      PROVE  SoundStep
  <2> DEFINE e == Head(tx.todo)
             w == NextResult.state
  <2>1. /\ tx \in ImportTx /\ tx.active /\ tx.todo # <<>> /\ NextResult.ok
        /\ tx' = [tx EXCEPT !.todo = Tail(@), !.work = w]
        /\ db' = db /\ relay' = relay /\ clock' = clock /\ losses' = losses
    BY <1>1, <1>8 DEF ImportNext, Idle
  <2>2. /\ tx.todo \in Seq(Envelope) /\ tx.work \in AppState
        /\ tx.source \in Colonies /\ tx.target \in Colonies
    BY <2>1 DEF ImportTx
  <2>3. Sound(tx.work) /\ Issued(tx.work, relay) /\ Issued(tx.work, Bundle)
    BY <2>1 DEF IInv, ImportSound
  <2>4. /\ e \in Envelope /\ e \in Bundle /\ Bundle \in SUBSET Envelope
        /\ Tail(tx.todo) \in Seq(Envelope)
        /\ \A i \in 1..Len(Tail(tx.todo)) : Tail(tx.todo)[i] \in Bundle
    <3> DEFINE s == tx.todo
    <3>1. s \in Seq(Envelope) /\ s # <<>>
      BY <2>1, <2>2
    <3>2. Bundle = {s[i] : i \in 1..Len(s)}
      BY DEF Bundle
    <3> HIDE DEF s
    <3>3. Len(s) \in Nat /\ Len(s) >= 1 /\ \A i \in 1..Len(s) : s[i] \in Envelope
      BY <3>1
    <3>4. Head(s) = s[1] /\ s[1] \in Envelope /\ s[1] \in Bundle
      BY <3>1, <3>2, <3>3
    <3>5. Bundle \in SUBSET Envelope
      BY <3>2, <3>3
    <3>6. /\ Tail(s) \in Seq(Envelope)
          /\ \A i \in 1..Len(Tail(s)) : Tail(s)[i] = s[i + 1] /\ i + 1 \in 1..Len(s)
      BY <3>1, <3>3
    <3> QED
      BY <3>2, <3>4, <3>5, <3>6 DEF s
  <2>5. tx.work.issued[e.trade] > 0
    BY <2>3, <2>4 DEF Issued
  <2>6. Keeps(tx.work, w)
    BY <2>1, <2>2, <2>3, <2>4, <2>5, ImportMessageKeeps DEF NextResult
  <2> HIDE DEF w, e
  <2>7. w \in AppState /\ Sound(w)
    BY <2>6 DEF Keeps, Kept
  <2>8. /\ tx' \in ImportTx /\ tx'.work = w /\ tx'.todo = Tail(tx.todo)
    BY <2>1, <2>2, <2>4, <2>7 DEF ImportTx
  <2>9. TypeOK'
    BY <1>1, <2>1, <2>8 DEF IInv, TypeOK
  <2>10. Issued(w, relay) /\ Issued(w, Bundle)
    BY <1>1, <2>2, <2>3, <2>4, <2>6, <2>7, IssuedKept DEF Keeps
  <2>11. Bundle' \subseteq Bundle
    <3>1. Bundle' = {Tail(tx.todo)[i] : i \in 1..Len(Tail(tx.todo))}
      BY <2>8 DEF Bundle
    <3> QED
      BY <2>4, <3>1
  <2>12. /\ IssuedUpTo(db, w) /\ IssuedUpTo(db, db) /\ Resolves(db, w) /\ Resolves(db, db)
         /\ Minted(w) = Minted(db)
    <3>1. IssuedUpTo(db, tx.work) /\ IssuedUpTo(tx.work, w)
      BY <2>1, <2>6 DEF IInv, ImportSound, IssuedUpTo, Keeps, Kept
    <3>2. /\ db.issued \in [TradeIds -> Nat] /\ tx.work.issued \in [TradeIds -> Nat]
          /\ w.issued \in [TradeIds -> Nat]
      BY <1>1, <2>2, <2>7, Fields
    <3>3. Resolves(db, tx.work) /\ Resolves(tx.work, w)
      BY <2>1, <2>6 DEF IInv, ImportSound, Keeps
    <3>4. Minted(w) = Minted(db)
      BY <2>1, <2>6 DEF IInv, ImportSound, Keeps, Kept
    <3> QED
      BY <3>1, <3>2, <3>3, <3>4 DEF IssuedUpTo, Resolves
  <2>13. ImportSound'
    BY <2>1, <2>7, <2>8, <2>10, <2>11, <2>12 DEF ImportSound, Issued
  <2>14. Sound(db') /\ Issued(db', relay')
    BY <2>1 DEF IInv
  <2> QED
    BY <2>1, <2>9, <2>12, <2>13, <2>14 DEF IInv, SoundStep
<1>9. ASSUME tx' = Idle, UNCHANGED <<db, relay, clock, losses>>
      PROVE  SoundStep
  BY <1>1, <1>9, Fields DEF IInv, TypeOK, ImportSound, Idle, SoundStep, IssuedUpTo, Resolves
<1>10. ASSUME CommitImport
       PROVE  SoundStep
  <2>1. /\ tx \in ImportTx /\ tx.active /\ tx' = Idle /\ db' = tx.work
        /\ relay' = relay /\ clock' = clock /\ losses' = losses
    BY <1>1, <1>10 DEF CommitImport, Idle
  <2>2. db' \in AppState /\ Sound(db') /\ Issued(db', relay')
    BY <2>1 DEF IInv, ImportSound, ImportTx
  <2>3. IssuedUpTo(db, db') /\ Resolves(db, db') /\ Minted(db') = Minted(db)
    BY <2>1 DEF IInv, ImportSound
  <2> QED
    BY <2>1, <2>2, <2>3 DEF IInv, TypeOK, ImportSound, Idle, SoundStep
<1>11. ASSUME NEW now \in {clock - 1, clock}, NEW batch \in SUBSET TradeIds,
              SweepExpired(now, batch)
       PROVE  SoundStep
  <2>1. \A t \in batch : Status(db, t) \in {OfferPendingExport, OfferReceived}
    BY <1>11 DEF SweepExpired, Due
  <2>2. Keeps(db, db')
    BY <1>1, <1>11, <2>1, SweepKeeps DEF SweepExpired
  <2> QED
    BY <1>1, <1>11, <2>2, PlainTransactionKeeps DEF SweepExpired
<1>12. ASSUME NEW a \in ActionIds, NEW admin \in Admins, NEW t \in TradeIds,
              ProposeForceRefund(a, admin, t)
       PROVE  SoundStep
  <2>1. clock + PendingActionTTL \in Nat
    BY <1>1
  <2>2. Keeps(db, db')
    BY <1>1, <1>12, <2>1, ProposalKeeps DEF ProposeForceRefund
  <2> QED
    BY <1>1, <1>12, <2>2, PlainTransactionKeeps DEF ProposeForceRefund
<1>13. ASSUME NEW a \in ActionIds, NEW admin \in Admins, ApproveForceRefund(a, admin)
       PROVE  SoundStep
  <2>1. db.actions[a] # NoAction /\ db.actions[a].trade \in TradeIds
    <3>1. db.actions[a] # NoAction
      BY <1>13 DEF ApproveForceRefund, Decidable
    <3>2. db.actions[a] \in PendingAction
      BY <1>1, <3>1, Fields
    <3> QED
      BY <3>1, <3>2 DEF PendingAction
  <2>2. Keeps(db, db')
    BY <1>1, <1>13, <2>1, ForceRefundKeeps DEF ApproveForceRefund
  <2> QED
    BY <1>1, <1>13, <2>2, PlainTransactionKeeps DEF ApproveForceRefund
<1>14. ASSUME NEW a \in ActionIds, NEW admin \in Admins, RejectForceRefund(a, admin)
       PROVE  SoundStep
  <2>1. db.actions[a] # NoAction
    BY <1>14 DEF RejectForceRefund, Decidable
  <2>2. Keeps(db, db')
    BY <1>1, <1>14, <2>1, DecidedKeeps DEF RejectForceRefund
  <2> QED
    BY <1>1, <1>14, <2>2, PlainTransactionKeeps DEF RejectForceRefund
<1>15. ASSUME NEW pair \in TrustPairs, TrustPeer(pair[1], pair[2])
       PROVE  SoundStep
  <2>1. pair[1] \in Colonies /\ pair[2] \in Colonies
    BY <1>15 DEF ProtocolAssumption
  <2>2. Keeps(db, db')
    BY <1>1, <1>15, <2>1, TrustKeeps DEF TrustPeer
  <2> QED
    BY <1>1, <1>15, <2>2, PlainTransactionKeeps DEF TrustPeer
<1>16. ASSUME Tick
       PROVE  SoundStep
  <2>1. clock' \in 0..MaxClock
    BY <1>1, <1>16 DEF Tick
  <2> QED
    BY <1>1, <1>16, <2>1, Fields DEF Tick, IInv, TypeOK, ImportSound, Bundle, SoundStep, IssuedUpTo, Resolves
<1>17. ASSUME UNCHANGED vars
       PROVE  SoundStep
  BY <1>1, <1>17, Fields DEF vars, IInv, TypeOK, ImportSound, Bundle, SoundStep, IssuedUpTo, Resolves
<1> QED
  BY <1>2, <1>3, <1>4, <1>5, <1>6, <1>7, <1>8, <1>9, <1>10, <1>11, <1>12, <1>13, <1>14,
     <1>15, <1>16, <1>17 DEF Next, RefuseBundle, AbandonImport

\* The invariant holds in every reachable state.
THEOREM Soundness == Spec => []IInv
<1>1. IInv /\ [Next]_vars => IInv'
  BY StepSound DEF SoundStep
<1> QED
  BY <1>1, InitSound, PTL DEF Spec

\* What the balances and the outcomes say was minted is what was.
AsFunded == Minted(db) = Funding

\* The protocol itself mints nothing: at all times the balances are the funding,
\* with what each trader earned and without what each spent.
THEOREM NothingIsMinted == Spec => []AsFunded
<1>1. Init => AsFunded
  BY InitSound DEF AsFunded
<1>2. IInv /\ AsFunded /\ [Next]_vars => AsFunded'
  BY StepSound DEF AsFunded, SoundStep
<1> QED
  BY <1>1, <1>2, Soundness, PTL DEF Spec

(***************************************************************************)
(* The theorems.                                                           *)
(***************************************************************************)
\* Every reachable state has its types, for any bounds and any bundles.
THEOREM TypeCorrect == Spec => []TypeOK
<1>1. IInv => TypeOK
  BY DEF IInv
<1> QED
  BY <1>1, Soundness, PTL

\* No interleaving of handlers, bundles, sweeps, losses and aborted imports
\* creates or destroys money (AcceptTrade, CreditSeller, ApplyRefund).
THEOREM MoneyIsConserved == Spec => []Conservation
<1>1. IInv /\ AsFunded => Conservation
  BY DEF IInv, Sound, AsFunded, Conservation, ConservedIn, Holdings
<1> QED
  BY <1>1, Soundness, NothingIsMinted, PTL

\* No envelope, however often and in whatever order it is imported, and no
\* forced refund makes the money of a trade move twice.
THEOREM MoneyIsBookedOnce == Spec => []BookedOnce
<1>1. IInv => BookedOnce
  BY DEF IInv, Sound, BookedOnce
<1> QED
  BY <1>1, Soundness, PTL

\* The net positions of two colonies agree and are the prices settled between them.
THEOREM NetPositionsAgree == Spec => []NetPositionsMirror
<1>1. IInv => NetPositionsMirror
  BY DEF IInv, Sound, NetPositionsMirror
<1> QED
  BY <1>1, Soundness, PTL

\* No offer is closed with a buyer's money in it, and none is settled late
\* (CancelTrade, expireOverdueTrades, importAcceptance).
THEOREM ClosedOffersAreEmpty == Spec => []ClosedOffersHoldNoMoney
<1>1. IInv => ClosedOffersHoldNoMoney
  BY DEF IInv, Sound, ClosedOffersHoldNoMoney, ClosedOffersHoldNoMoneyIn, ClosedAt
<1> QED
  BY <1>1, Soundness, PTL

\* No sum of money overflows, whatever the prices (AddChecked).
THEOREM NothingOverflows == Spec => []AmountsFit
<1>1. IInv => AmountsFit
  BY DEF IInv, Sound, AmountsFit
<1> QED
  BY <1>1, Soundness, PTL

(***************************************************************************)
(* The refinement.  In sound states the accounts are the balances that     *)
(* Escrow makes of the holders.                                            *)
(***************************************************************************)
LEMMA BalancesAreOutcomes ==
  ASSUME NEW d \in AppState, Minted(d) = Funding
  PROVE  d.accounts = [u \in Traders |-> Abstract!BalanceOf(HoldersIn(d), u)]
<1>1. \A t \in TradeIds : HoldersIn(d)[t] = Holder(d, t)
  BY DEF HoldersIn, Holder
<1>2. ASSUME NEW u \in Traders
      PROVE  d.accounts[u] = Abstract!BalanceOf(HoldersIn(d), u)
  <2>1. Abstract!Earned(HoldersIn(d), u) = EarnedIn(d, u)
    BY <1>1 DEF Abstract!Earned, EarnedIn, EarnedAt
  <2>2. Abstract!Spent(HoldersIn(d), u) = SpentIn(d, u)
    BY <1>1 DEF Abstract!Spent, SpentIn, SpentAt
  <2>3. \A f : Abstract!Total(f) = Total(f)
    BY DEF Abstract!Total, Abstract!Units, Total, Units, Abstract!Cardinality, Cardinality
  <2>4. d.accounts[u] = Funding[u] + Total(EarnedIn(d, u)) - Total(SpentIn(d, u))
    <3>1. Total(EarnedIn(d, u)) \in Nat /\ Total(SpentIn(d, u)) \in Nat
      BY OutcomeType, UnitsFinite DEF ProtocolAssumption
    <3>2. d.accounts[u] \in Nat
      BY Fields
    <3>3. Funding[u] = d.accounts[u] - Total(EarnedIn(d, u)) + Total(SpentIn(d, u))
      BY DEF Minted
    <3> QED
      BY <3>1, <3>2, <3>3
  <2> QED
    BY <2>1, <2>2, <2>3, <2>4 DEF Abstract!BalanceOf
<1> QED
  BY <1>2, Fields

\* Every step is one of Escrow's, or changes neither holders nor balances.
LEMMA StepRefines ==
  ASSUME IInv, AsFunded, SoundStep
  PROVE  [Abstract!Next]_<<HoldersIn(db), db.accounts>>
<1> DEFINE h == HoldersIn(db)
           k == HoldersIn(db')
           S == {t \in TradeIds : k[t] # h[t]}
<1>1. \A t \in TradeIds : h[t] = Holder(db, t) /\ k[t] = Holder(db', t)
  BY DEF HoldersIn, Holder
<1>2. h \in [TradeIds -> {"nobody", "escrow", "seller", "refunded"}]
      /\ k \in [TradeIds -> {"nobody", "escrow", "seller", "refunded"}]
  BY <1>1, HolderFacts DEF HoldersIn
<1>3. /\ db.accounts = [u \in Traders |-> Abstract!BalanceOf(h, u)]
      /\ db'.accounts = [u \in Traders |-> Abstract!BalanceOf(k, u)]
  BY BalancesAreOutcomes DEF IInv, TypeOK, AsFunded, SoundStep
<1> HIDE DEF h, k
<1>4. CASE \E t \in TradeIds : Enters(db, db', t)
  <2>1. PICK t \in TradeIds : Enters(db, db', t)
    BY <1>4
  <2>2. h[t] = "nobody" /\ k = [h EXCEPT ![t] = "escrow"] /\ db.accounts[Buyer[t]] >= Price[t]
    BY <1>1, <1>2, <2>1 DEF Enters
  <2> QED
    BY <1>3, <2>2 DEF Abstract!Next, Abstract!Hold, Abstract!Follow, h, k
<1>5. CASE Resolves(db, db') /\ S = {}
  <2>1. k = h
    BY <1>2, <1>5
  <2> QED
    BY <1>3, <2>1 DEF h, k
<1>6. CASE Resolves(db, db') /\ S # {}
  <2>1. \A t \in S : h[t] = "escrow" /\ k[t] \in {"seller", "refunded"}
    BY <1>1, <1>6 DEF Resolves
  <2> DEFINE outcome == [t \in S |-> k[t]]
  <2>2. outcome \in [S -> {"seller", "refunded"}]
    BY <2>1
  <2>3. k = [t \in TradeIds |-> IF t \in S THEN outcome[t] ELSE h[t]]
    BY <1>2
  <2>4. S \in SUBSET TradeIds
    OBVIOUS
  <2> HIDE DEF S, outcome
  <2>5. Abstract!Resolve(S)
    BY <1>3, <1>6, <2>1, <2>2, <2>3 DEF Abstract!Resolve, Abstract!Follow, h, k
  <2> QED
    BY <2>4, <2>5 DEF Abstract!Next
<1> QED
  BY <1>4, <1>5, <1>6 DEF SoundStep

\* The store as it was set up is Escrow's initial state.
LEMMA InitRefines == Init => Abstract!Init
<1> SUFFICES ASSUME Init PROVE Abstract!Init
  OBVIOUS
<1>1. db.accounts = Funding /\ db.trades = [t \in TradeIds |-> NoTrade]
  BY DEF Init
<1>2. \A t \in TradeIds : HolderOf(Status(db, t)) = "nobody"
  BY <1>1, HolderOfStatus DEF Status, NoTrade, IsEscrowed, Absent, AcceptancePendingExport,
       RefundPendingExport, SettlementPendingExport, Completed, Refunded
<1> QED
  BY <1>1, <1>2 DEF Abstract!Init, HoldersIn

\* The protocol implements Escrow, for any trades in any numbers: a price is held,
\* then paid or returned once, and balances follow (AcceptTrade, CreditSeller,
\* ApplyRefund under every interleaving).
THEOREM EscrowIsImplemented == Spec => ImplementsEscrow
<1>1. IInv /\ AsFunded /\ [Next]_vars => [Abstract!Next]_<<HoldersIn(db), db.accounts>>
  BY StepSound, StepRefines
<1> QED
  BY <1>1, InitRefines, Soundness, NothingIsMinted, PTL DEF Spec, ImplementsEscrow, Abstract!Spec

-----------------------------------------------------------------------------
(***************************************************************************)
(* Who decides.  An import only advances the state it started from, into   *)
(* the colony it was made by; envelopes are named after their trades,      *)
(* trades are between two colonies, and whoever proposed an action may     *)
(* manage the buyer's.  None of it depends on what was forgotten by a      *)
(* restore.                                                                *)
(***************************************************************************)
Named(E) == \A e \in E : e.id[1] = e.trade

\* Only the colony that a bundle is for decides in its import, and it does not
\* return what it decides to return.
DecidesFor(d, r, target) ==
  \A t \in TradeIds :
    InFlight(d, t) => (InFlight(r, t) \/ SellerColony(t) = target) /\ ~Returned(r, t)

ImportAdvances ==
  tx.active => /\ Bundle \subseteq relay
               /\ Advances(db, tx.work) /\ tx.work.actions = db.actions
               /\ Apart(tx.work) /\ DecidesFor(db, tx.work, tx.target)

DInv ==
  /\ Named(relay) /\ \A c \in Colonies : Named(db.outbox[c])
  /\ Managed(db) /\ Apart(db)
  /\ ImportAdvances

Outgoing == UNION {db.outbox[c] : c \in Colonies}

\* Nobody but two admins returns the money of an acceptance in flight.
ReturnedByTwo ==
  \A t \in TradeIds : InFlight(db, t) /\ Returned(db', t) => ForcedByTwo(t)

\* What a step does.
Decides ==
  /\ DInv' /\ DecidedBySeller /\ ReturnedByTwo
  /\ Forward(db, db') /\ Sends(db, db')
  /\ relay' \subseteq relay \cup Outgoing

\* A transaction that goes forward and sends envelopes about its trade.
LEMMA TransactionNames ==
  ASSUME DInv, Transaction, Sends(db, db'), Managed(db'), Apart(db'),
         relay' \subseteq relay \cup Outgoing
  PROVE  DInv'
<1>1. Named(relay') /\ \A o \in Colonies : Named(db'.outbox[o])
  BY DEF DInv, Named, Sends, Tells, Outgoing
<1>2. ~tx'.active
  BY DEF Transaction
<1> QED
  BY <1>1, <1>2 DEF DInv, ImportAdvances

\* Where an advance leaves no trade out of its flight but by the seller colony.
LEMMA AdvanceDecides ==
  ASSUME Advances(db, db')
  PROVE  DecidedBySeller
BY DEF Advances, Answered, NewlyProcessed, InFlight, DecidedBySeller, ImportedBy

\* A handler of the server that advances the state.
LEMMA HandlerDecides ==
  ASSUME DInv, Transaction, Advances(db, db'), Managed(db'), Apart(db'),
         \A t \in TradeIds : InFlight(db, t) => ~Returned(db', t),
         relay' \subseteq relay \cup Outgoing
  PROVE  Decides
<1>1. Sends(db, db') /\ Forward(db, db')
  BY DEF Advances
<1>2. DInv'
  BY <1>1, TransactionNames
<1> QED
  BY <1>1, <1>2, AdvanceDecides DEF Decides, ReturnedByTwo

\* A handler of the server that leaves the relays and the actions alone.
LEMMA PlainHandlerDecides ==
  ASSUME DInv, Transaction, Advances(db, db'), Aside(db, db'), Apart(db'), relay' = relay
  PROVE  Decides
<1>1. Managed(db')
  BY DEF DInv, Managed, Aside
<1>2. \A t \in TradeIds : InFlight(db, t) => ~Returned(db', t)
  BY QuietStays DEF Aside
<1> QED
  BY <1>1, <1>2, HandlerDecides

\* Nothing is committed.
LEMMA NothingDecides ==
  ASSUME DInv, db' = db, relay' = relay, ImportAdvances'
  PROVE  Decides
<1>1. \A t : ~(InFlight(db, t) /\ Returned(db, t))
  BY DEF InFlight, Returned, AcceptancePendingExport, Refunded
<1>2. Forward(db, db) /\ Sends(db, db)
  BY DEF Forward, Sends
<1> QED
  BY <1>1, <1>2 DEF DInv, Decides, DecidedBySeller, ReturnedByTwo

\* Where no id is drawn, trades stay apart.
LEMMA NothingIssued ==
  ASSUME DInv, db'.issued = db.issued
  PROVE  Apart(db')
BY DEF DInv, Apart

\* A trade that is known to the store was issued.
LEMMA KnownStaysApart ==
  ASSUME IInv, DInv, NEW t \in TradeIds, Status(db, t) \in Statuses,
         db'.issued = [db.issued EXCEPT ![t] = @ + 1]
  PROVE  Apart(db')
<1>1. db \in AppState /\ Sound(db) /\ db.issued \in [TradeIds -> Nat]
  BY Fields DEF IInv, TypeOK
<1>2. db.issued[t] > 0
  BY <1>1, KnownIsIssued, StatusNames
<1>3. IssuesFor(db, db', t)
  BY <1>1 DEF IssuesFor
<1> QED
  BY <1>2, <1>3, StillApart DEF DInv

\* Two admins force the refund.
LEMMA ForceRefundDecides ==
  ASSUME IInv, DInv, NEW a \in ActionIds, NEW admin \in Admins,
         ApproveForceRefund(a, admin)
  PROVE  Decides
<1> DEFINE t == db.actions[a].trade
           m == ApplyRefund(db, t, "trade_force_refunded").state
           p == db.actions[a].proposer
<1>1. /\ Transaction /\ db' = Decided(m, a, admin, "approved") /\ relay' = relay
      /\ db.actions[a] # NoAction /\ db.actions[a].status = "pending"
      /\ BuyerColony(t) \in Manages[admin] /\ p # admin
      /\ IsEscrowed(Status(db, t)) /\ ApplyRefund(db, t, "trade_force_refunded").ok
  BY DEF ApproveForceRefund, Decidable
<1>2. db \in AppState /\ Sound(db)
  BY DEF IInv, TypeOK
<1>3. db.actions[a] \in PendingAction /\ t \in TradeIds /\ p \in Admins
  <2>1. db.actions[a] \in PendingAction
    BY <1>1, <1>2, Fields
  <2> QED
    BY <2>1 DEF PendingAction
<1>4. BuyerColony(t) \in Manages[p]
  BY <1>1 DEF DInv, Managed
<1>5. Status(db, t) \in Statuses /\ db.issued[t] > 0
  <2>1. Status(db, t) \in Statuses
    BY <1>1, StatusNames DEF IsEscrowed
  <2> QED
    BY <1>2, <1>3, <2>1, KnownIsIssued, StatusNames
<1>6. m \in AppState
  BY <1>1, <1>2, <1>3, <1>5, ApplyRefundKeeps DEF Keeps, Kept
<1>7. /\ Forward(db, m) /\ m.outbox = db.outbox /\ Aside(db, m)
      /\ Status(m, t) = Refunded
      /\ \A o \in TradeIds \ {t} : Status(m, o) = Status(db, o)
  BY <1>1, <1>2, <1>3, <1>5, ApplyRefundMoves
<1> HIDE DEF m
<1>8. m.actions = db.actions
  BY <1>7 DEF Aside
<1>9. /\ db'.trades = m.trades /\ db'.outbox = m.outbox
      /\ db'.actions[a].status = "approved" /\ db'.actions[a].decider = {admin}
      /\ db'.actions[a].trade = t /\ db'.actions[a].proposer = p
  BY <1>1, <1>6, <1>8, DecidedFields
<1>10. \A o : Status(db', o) = Status(m, o)
  BY <1>9 DEF Status
<1>11. Forward(db, db')
  BY <1>7, <1>9, <1>10 DEF Forward, Paid
<1>12. Sends(db, db')
  BY <1>7, <1>9 DEF Sends
<1>13. Managed(db')
  <2>1. Managed(m) /\ m.actions[a] # NoAction
    BY <1>1, <1>8 DEF DInv, Managed
  <2> QED
    BY <1>1, <1>6, <2>1, DecidedManaged
<1>14. Apart(db')
  <2>1. db'.issued = m.issued
    BY <1>1, <1>6 DEF Decided, AppState
  <2>2. m.issued = db.issued
    BY <1>1, <1>2, ApplyRefundIssues DEF m
  <2> QED
    BY <2>1, <2>2, NothingIssued
<1>15. DInv'
  BY <1>1, <1>12, <1>13, <1>14, TransactionNames
<1>16. ForcedByTwo(t)
  BY <1>1, <1>3, <1>4, <1>9 DEF ForcedByTwo
<1>17. \A o \in TradeIds \ {t} : ~(InFlight(db, o) /\ Returned(db', o))
  BY <1>7, <1>10 DEF InFlight, Returned, AcceptancePendingExport, Refunded
<1>18. DecidedBySeller /\ ReturnedByTwo
  BY <1>7, <1>10, <1>16, <1>17 DEF DecidedBySeller, ReturnedByTwo
<1> QED
  BY <1>1, <1>11, <1>12, <1>15, <1>18 DEF Decides

\* Every step keeps it, and takes no trade out of its flight but by its seller's
\* colony or by two admins.
LEMMA StepDecides ==
  ASSUME IInv, IInv', DInv, [Next]_vars
  PROVE  Decides
<1>1. /\ db \in AppState /\ Sound(db) /\ clock \in Nat /\ PendingActionTTL \in Nat
      /\ relay \in SUBSET Envelope /\ tx \in ImportTx \cup {Idle}
  BY DEF IInv, TypeOK, ProtocolAssumption
<1>3. ASSUME NEW t \in TradeIds, NEW ttl \in OfferTTLs, CreateOffer(t, ttl)
      PROVE  Decides
  <2>1. clock + ttl \in Nat
    <3>1. ttl \in Nat
      BY DEF ProtocolAssumption
    <3> QED
      BY <1>1, <3>1
  <2>2. Status(db, t) = Absent
    <3>1. db.issued[t] = 0
      BY <1>3 DEF CreateOffer
    <3>2. FreshAt(db, t)
      BY <1>1 DEF Sound
    <3> QED
      BY <3>1, <3>2 DEF FreshAt
  <2>3. Advances(db, db') /\ Aside(db, db')
    BY <1>1, <1>3, <2>1, <2>2, OfferAdvances DEF CreateOffer
  <2>4. db'.issued = [db.issued EXCEPT ![t] = @ + 1]
    BY <1>1, <1>3 DEF CreateOffer, Emit, AppState
  <2>5. Apart(db')
    <3>1. \A o \in TradeIds \ {t} : db'.issued[o] = db.issued[o]
      BY <1>1, <2>4, Fields
    <3>2. SellerColony(t) # BuyerColony(t)
      BY <1>3 DEF CreateOffer
    <3> QED
      BY <3>1, <3>2 DEF DInv, Apart
  <2> QED
    BY <1>3, <2>3, <2>5, PlainHandlerDecides DEF CreateOffer
<1>4. ASSUME NEW t \in TradeIds, AcceptTrade(t)
      PROVE  Decides
  <2>1. clock' \in Nat
    BY <1>1, <1>4 DEF AcceptTrade
  <2>2. Status(db, t) = OfferReceived /\ db.accounts[Buyer[t]] >= Price[t]
    BY <1>4 DEF AcceptTrade, Acceptable
  <2>3. Advances(db, db') /\ Aside(db, db')
    BY <1>1, <1>4, <2>1, <2>2, AcceptAdvances DEF AcceptTrade
  <2>4. db'.issued = [db.issued EXCEPT ![t] = @ + 1]
    BY <1>1, <1>4 DEF AcceptTrade, Book, Emit, Debited, AdvanceTrade, AppState
  <2>5. Apart(db')
    BY <2>2, <2>4, KnownStaysApart, StatusNames
  <2> QED
    BY <1>4, <2>3, <2>5, PlainHandlerDecides DEF AcceptTrade
<1>5. ASSUME NEW t \in TradeIds, WithdrawOffer(t)
      PROVE  Decides
  <2>1. Advances(db, db') /\ Aside(db, db')
    BY <1>1, <1>5, WithdrawAdvances DEF WithdrawOffer
  <2>2. db'.issued = db.issued
    BY <1>1, <1>5 DEF WithdrawOffer, AdvanceTrade, AppState
  <2> QED
    BY <1>5, <2>1, <2>2, NothingIssued, PlainHandlerDecides DEF WithdrawOffer
<1>6. ASSUME NEW t \in TradeIds, RequestCancel(t)
      PROVE  Decides
  <2>1. Advances(db, db') /\ Aside(db, db')
    BY <1>1, <1>6, RequestAdvances DEF RequestCancel, InFlight
  <2>2. db'.issued = [db.issued EXCEPT ![t] = @ + 1]
    BY <1>1, <1>6 DEF RequestCancel, Emit, AppState
  <2>3. Apart(db')
    <3>1. Status(db, t) \in Statuses
      BY <1>6, StatusNames DEF RequestCancel
    <3> QED
      BY <2>2, <3>1, KnownStaysApart
  <2> QED
    BY <1>6, <2>1, <2>3, PlainHandlerDecides DEF RequestCancel
<1>7. ASSUME NEW c \in Colonies, NEW dest \in Colonies, NEW lost \in BOOLEAN,
             ExportBundle(c, dest, lost)
      PROVE  Decides
  <2> DEFINE messages == {e \in db.outbox[c] : To(e) = dest}
  <2>1. /\ Transaction /\ db' = [db EXCEPT !.outbox[c] = @ \ messages]
        /\ relay' = relay \/ relay' = relay \cup messages
    BY <1>7 DEF ExportBundle
  <2>2. messages \subseteq db.outbox[c]
    OBVIOUS
  <2> HIDE DEF messages
  <2>3. Advances(db, db') /\ Aside(db, db')
    BY <1>1, <2>1, ExportAdvances
  <2>4. Managed(db') /\ \A t \in TradeIds : InFlight(db, t) => ~Returned(db', t)
    BY <2>3, QuietStays DEF DInv, Managed, Aside
  <2>5. relay' \subseteq relay \cup Outgoing
    BY <2>1, <2>2 DEF Outgoing
  <2>6. db'.issued = db.issued
    BY <1>1, <2>1 DEF AppState
  <2> QED
    BY <2>1, <2>3, <2>4, <2>5, <2>6, NothingIssued, HandlerDecides
<1>8. ASSUME NEW c \in Colonies, NEW dest \in Colonies, NEW messages \in Bundles,
             BeginImport(c, dest, messages)
      PROVE  Decides
  <2>1. /\ tx' = [active |-> TRUE, source |-> c, target |-> dest,
                  todo |-> messages, work |-> db]
        /\ db' = db /\ relay' = relay
    BY <1>8 DEF BeginImport
  <2>2. PICK n \in 0..MaxBundle : messages \in [1..n -> relay]
    BY <1>8 DEF Bundles
  <2>3. n \in Nat
    BY <2>2 DEF ProtocolAssumption
  <2>4. tx'.work = db /\ Bundle' \subseteq relay
    BY <2>1, <2>2, <2>3 DEF Bundle
  <2>5. Advances(db, db)
    BY StillAdvances DEF Sends
  <2>6. DecidesFor(db, db, dest)
    BY <2>5, QuietStays DEF DecidesFor
  <2>7. ImportAdvances'
    BY <2>1, <2>4, <2>5, <2>6 DEF ImportAdvances, DInv
  <2> QED
    BY <2>1, <2>7, NothingDecides
<1>9. ASSUME ImportNext
      PROVE  Decides
  <2> DEFINE e == Head(tx.todo)
             w == NextResult.state
  <2>1. /\ tx \in ImportTx /\ tx.active /\ tx.todo # <<>> /\ NextResult.ok
        /\ tx' = [tx EXCEPT !.todo = Tail(@), !.work = w]
        /\ db' = db /\ relay' = relay
    BY <1>1, <1>9 DEF ImportNext, Idle
  <2>2. /\ tx.todo \in Seq(Envelope) /\ tx.work \in AppState
        /\ tx.source \in Colonies /\ tx.target \in Colonies
    BY <2>1 DEF ImportTx
  <2>3. /\ Sound(tx.work) /\ Issued(tx.work, Bundle)
        /\ Bundle \subseteq relay /\ Advances(db, tx.work) /\ tx.work.actions = db.actions
        /\ Apart(tx.work) /\ DecidesFor(db, tx.work, tx.target)
    BY <2>1 DEF IInv, ImportSound, DInv, ImportAdvances
  <2>4. /\ e \in Envelope /\ e \in Bundle
        /\ \A i \in 1..Len(Tail(tx.todo)) : Tail(tx.todo)[i] \in Bundle
    <3> DEFINE s == tx.todo
    <3>1. s \in Seq(Envelope) /\ s # <<>>
      BY <2>1, <2>2
    <3>2. Bundle = {s[i] : i \in 1..Len(s)}
      BY DEF Bundle
    <3> HIDE DEF s
    <3>3. Len(s) \in Nat /\ Len(s) >= 1 /\ \A i \in 1..Len(s) : s[i] \in Envelope
      BY <3>1
    <3>4. Head(s) = s[1] /\ s[1] \in Envelope /\ s[1] \in Bundle
      BY <3>1, <3>2, <3>3
    <3>5. \A i \in 1..Len(Tail(s)) : Tail(s)[i] = s[i + 1] /\ i + 1 \in 1..Len(s)
      BY <3>1, <3>3
    <3> QED
      BY <3>2, <3>4, <3>5 DEF s
  <2>5. tx.work.issued[e.trade] > 0 /\ e.id[1] = e.trade /\ e.trade \in TradeIds
    BY <2>3, <2>4, Routes DEF Issued, DInv, Named
  <2>6. /\ Advances(tx.work, w) /\ w.actions = tx.work.actions
        /\ \A t \in TradeIds :
             /\ InFlight(tx.work, t) /\ ~InFlight(w, t) => SellerColony(t) = tx.target
             /\ Returned(w, t) /\ ~Returned(tx.work, t)
                  => BuyerColony(t) = tx.target /\ ~InFlight(tx.work, t)
    BY <2>1, <2>2, <2>3, <2>4, <2>5, ImportMessageAdvances DEF NextResult
  <2>7. w \in AppState /\ Apart(w)
    <3>1. Keeps(tx.work, w)
      BY <2>1, <2>2, <2>3, <2>4, <2>5, ImportMessageKeeps DEF NextResult
    <3>2. IssuesFor(tx.work, w, e.trade)
      BY <2>1, <2>2, <2>3, <2>4, <2>5, ImportMessageIssues DEF NextResult
    <3> QED
      BY <2>3, <2>5, <3>1, <3>2, StillApart DEF Keeps, Kept
  <2> HIDE DEF w, e
  <2>8. Advances(db, w)
    BY <1>1, <2>2, <2>3, <2>6, <2>7, AdvancesTwice
  <2>9. tx'.work = w /\ tx'.todo = Tail(tx.todo) /\ tx'.target = tx.target
    BY <2>1 DEF ImportTx
  <2>10. Bundle' \subseteq Bundle
    <3>1. Bundle' = {Tail(tx.todo)[i] : i \in 1..Len(Tail(tx.todo))}
      BY <2>9 DEF Bundle
    <3> QED
      BY <2>4, <3>1
  <2>11. DecidesFor(db, w, tx.target)
    <3> SUFFICES ASSUME NEW t \in TradeIds, InFlight(db, t)
                 PROVE  (InFlight(w, t) \/ SellerColony(t) = tx.target) /\ ~Returned(w, t)
      BY DEF DecidesFor
    <3>1. (InFlight(tx.work, t) \/ SellerColony(t) = tx.target) /\ ~Returned(tx.work, t)
      BY <2>3 DEF DecidesFor
    <3>2. SellerColony(t) # BuyerColony(t)
      <4>1. Status(db, t) # Absent
        BY StatusNames DEF InFlight
      <4>2. db.issued[t] > 0
        BY <1>1, <4>1, KnownIsIssued
      <4> QED
        BY <4>2 DEF DInv, Apart
    <3> QED
      BY <2>6, <3>1, <3>2
  <2>12. ImportAdvances'
    BY <2>1, <2>3, <2>6, <2>7, <2>8, <2>9, <2>10, <2>11 DEF ImportAdvances
  <2> QED
    BY <2>1, <2>12, NothingDecides
<1>10. ASSUME tx' = Idle, db' = db, relay' = relay
       PROVE  Decides
  <2>1. ImportAdvances'
    BY <1>10 DEF ImportAdvances, Idle
  <2> QED
    BY <1>10, <2>1, NothingDecides
<1>11. ASSUME CommitImport
       PROVE  Decides
  <2>1. /\ tx \in ImportTx /\ tx.active /\ tx' = Idle /\ db' = tx.work /\ relay' = relay
    BY <1>1, <1>11 DEF CommitImport, Idle
  <2>2. /\ Advances(db, db') /\ db'.actions = db.actions /\ Apart(db')
        /\ DecidesFor(db, db', tx.target)
    BY <2>1 DEF DInv, ImportAdvances
  <2>3. Named(relay') /\ \A c \in Colonies : Named(db'.outbox[c])
    BY <2>1, <2>2 DEF DInv, Named, Sends, Tells, Advances
  <2>4. DInv'
    BY <2>1, <2>2, <2>3 DEF DInv, Managed, ImportAdvances, Idle
  <2>5. ReturnedByTwo
    BY <2>2 DEF ReturnedByTwo, DecidesFor
  <2> QED
    BY <2>1, <2>2, <2>4, <2>5, AdvanceDecides DEF Decides, Advances
<1>12. ASSUME NEW now \in {clock - 1, clock}, NEW batch \in SUBSET TradeIds,
              SweepExpired(now, batch)
       PROVE  Decides
  <2>1. \A t \in batch : Status(db, t) \in {OfferPendingExport, OfferReceived}
    BY <1>12 DEF SweepExpired, Due
  <2>2. Advances(db, db') /\ Aside(db, db')
    BY <1>1, <1>12, <2>1, SweepAdvances DEF SweepExpired
  <2>3. db'.issued = db.issued
    BY <1>1, <1>12 DEF SweepExpired, AppState
  <2> QED
    BY <1>12, <2>2, <2>3, NothingIssued, PlainHandlerDecides DEF SweepExpired
<1>13. ASSUME NEW a \in ActionIds, NEW admin \in Admins, NEW t \in TradeIds,
              ProposeForceRefund(a, admin, t)
       PROVE  Decides
  <2> DEFINE n == [status |-> "pending", trade |-> t, proposer |-> admin,
                   decider |-> {}, expiresAt |-> clock + PendingActionTTL]
             x == [db.actions EXCEPT ![a] = n]
  <2>1. /\ db' = [db EXCEPT !.actions = x] /\ relay' = relay /\ Transaction
        /\ BuyerColony(t) \in Manages[admin]
    BY <1>13 DEF ProposeForceRefund
  <2>2. n.trade = t /\ n.proposer = admin
    OBVIOUS
  <2> HIDE DEF n
  <2>3. x[a] = n /\ \A o \in ActionIds \ {a} : x[o] = db.actions[o]
    BY <1>1, Fields
  <2> HIDE DEF x
  <2>4. Advances(db, db') /\ db'.processed = db.processed /\ db'.actions = x
    BY <1>1, <2>1, ActionAdvances
  <2>5. Managed(db')
    BY <2>1, <2>2, <2>3, <2>4 DEF DInv, Managed
  <2>6. db'.issued = db.issued
    BY <1>1, <2>1 DEF AppState
  <2> QED
    BY <2>1, <2>4, <2>5, <2>6, NothingIssued, QuietStays, HandlerDecides
<1>14. ASSUME NEW a \in ActionIds, NEW admin \in Admins, ApproveForceRefund(a, admin)
       PROVE  Decides
  BY <1>14, ForceRefundDecides
<1>15. ASSUME NEW a \in ActionIds, NEW admin \in Admins, RejectForceRefund(a, admin)
       PROVE  Decides
  <2>1. /\ db' = Decided(db, a, admin, "rejected") /\ relay' = relay /\ Transaction
        /\ db.actions[a] # NoAction
    BY <1>15 DEF RejectForceRefund, Decidable
  <2>2. /\ db'.trades = db.trades /\ db'.processed = db.processed /\ db'.outbox = db.outbox
    BY <1>1, <2>1, DecidedFields
  <2>3. Advances(db, db')
    BY <2>2, StillAdvances DEF Sends
  <2>4. Managed(db')
    BY <1>1, <2>1, DecidedManaged DEF DInv
  <2>5. db'.issued = db.issued
    BY <1>1, <2>1 DEF Decided, AppState
  <2> QED
    BY <2>1, <2>2, <2>3, <2>4, <2>5, NothingIssued, QuietStays, HandlerDecides
<1>16. ASSUME NEW pair \in TrustPairs, TrustPeer(pair[1], pair[2])
       PROVE  Decides
  <2> DEFINE x == db.trusted \cup {<<pair[1], pair[2]>>}
  <2>1. db' = [db EXCEPT !.trusted = x] /\ relay' = relay /\ Transaction
    BY <1>16 DEF TrustPeer
  <2> HIDE DEF x
  <2>2. Advances(db, db') /\ Aside(db, db')
    BY <1>1, <2>1, TrustAdvances
  <2>3. db'.issued = db.issued
    BY <1>1, <2>1 DEF AppState
  <2> QED
    BY <2>1, <2>2, <2>3, NothingIssued, PlainHandlerDecides
<1>17. ASSUME db' = db, relay' = relay, tx' = tx
       PROVE  Decides
  <2>1. ImportAdvances'
    BY <1>17 DEF DInv, ImportAdvances, Bundle
  <2> QED
    BY <1>17, <2>1, NothingDecides
<1> QED
  BY <1>3, <1>4, <1>5, <1>6, <1>7, <1>8, <1>9, <1>10, <1>11, <1>12, <1>13, <1>14,
     <1>15, <1>16, <1>17 DEF Next, RefuseBundle, AbandonImport, Tick, vars

\* At first there is nothing to decide.
LEMMA InitDecides == Init => DInv
<1> SUFFICES ASSUME Init PROVE DInv
  OBVIOUS
<1>1. /\ relay = {} /\ tx = Idle /\ db.outbox = [c \in Colonies |-> {}]
      /\ db.actions = [a \in ActionIds |-> NoAction]
      /\ db.issued = [t \in TradeIds |-> 0]
  BY DEF Init
<1> QED
  BY <1>1 DEF DInv, Named, Managed, Apart, ImportAdvances, Idle

\* What every step is made from, in every reachable state.
THEOREM EveryStepDecides == Spec => [][Decides]_vars
<1>1. IInv /\ IInv' /\ DInv /\ [Next]_vars => [Decides]_vars /\ DInv'
  BY StepDecides DEF Decides
<1> QED
  BY <1>1, InitDecides, Soundness, PTL DEF Spec

\* The money of an acceptance in flight is decided on by the seller's colony alone,
\* or by two admins of the buyer's colony (importAcceptance, importCancel,
\* DecideForceRefund).
THEOREM SellerColonyDecides == Spec => SellerDecides
<1>1. Decides => DecidedBySeller
  BY DEF Decides
<1> QED
  BY <1>1, EveryStepDecides, PTL DEF SellerDecides

(***************************************************************************)
(* What the relays know.  As long as no history is lost, every envelope on *)
(* its way tells the truth.                                                *)
(***************************************************************************)
TInv == Told(db, relay) /\ \A c \in Colonies : Told(db, db.outbox[c])

\* What was told stays true.
LEMMA StillTold ==
  ASSUME NEW d, NEW r, Forward(d, r), NEW E \in SUBSET Envelope, Told(d, E)
  PROVE  Told(r, E)
BY StillTells DEF Told

\* A step that goes forward and sends true envelopes leaves only true ones.
LEMMA StepTells ==
  ASSUME IInv, TInv, [Decides]_vars
  PROVE  TInv'
<1>1. /\ db \in AppState /\ relay \in SUBSET Envelope
      /\ db.outbox \in [Colonies -> SUBSET Envelope]
  BY Fields DEF IInv, TypeOK
<1>2. CASE Decides
  <2>1. /\ Forward(db, db') /\ Sends(db, db') /\ relay' \subseteq relay \cup Outgoing
    BY <1>2 DEF Decides
  <2>2. Told(db', relay) /\ \A o \in Colonies : Told(db', db.outbox[o])
    BY <1>1, <2>1, StillTold DEF TInv
  <2>3. Told(db', relay')
    BY <2>1, <2>2 DEF Told, Outgoing
  <2>4. \A o \in Colonies : Told(db', db'.outbox[o])
    BY <2>1, <2>2 DEF Told, Sends
  <2> QED
    BY <2>3, <2>4 DEF TInv
<1>3. CASE UNCHANGED vars
  BY <1>3 DEF TInv, vars
<1> QED
  BY <1>2, <1>3

\* The truth of what is told, in every reachable state.
THEOREM Truthfulness == Spec => []TInv
<1>1. Init => TInv
  BY DEF Init, TInv, Told
<1>2. IInv /\ TInv /\ [Decides]_vars => TInv'
  BY StepTells
<1> QED
  BY <1>1, <1>2, EveryStepDecides, Soundness, PTL DEF Spec

\* No bundle of authentic envelopes is ever refused by a colony that trusts its
\* sender (ImportBundle refuses a bundle for one message), as long as the money
\* minted and the prices of all trades together stay within 64 bits.
THEOREM NoMessageIsPoison ==
  ASSUME Total(Funding) <= MaxInt64, Total(Price) <= MaxInt64
  PROVE  Spec => []NoPoisonMessage
<1>1. IInv /\ AsFunded /\ TInv => NoPoisonMessage
  <2> SUFFICES ASSUME IInv, AsFunded, TInv, NEW e \in relay
               PROVE  ImportMessage(db, From(e), To(e), e).ok
    BY DEF NoPoisonMessage
  <2>1. db \in AppState /\ Sound(db) /\ e \in Envelope /\ Tells(db, e)
    BY DEF IInv, TypeOK, TInv, Told
  <2>2. ImportEnvelope(db, e).ok
    BY <2>1, TrueEnvelopesImport DEF AsFunded
  <2> QED
    BY <2>2 DEF ImportMessage, Ok
<1> QED
  BY <1>1, Soundness, NothingIsMinted, Truthfulness, PTL

-----------------------------------------------------------------------------
(***************************************************************************)
(* What the mail carries.  Until a bundle is lost, a trade that waits for  *)
(* an envelope finds it with a relay or in the outbox of the colony that   *)
(* decided, whether one looks from the committed state or from the private *)
(* copy of an import.                                                      *)
(***************************************************************************)
MailOf(d) == Numbered(d, relay) /\ (losses = 0 => Delivers(d, relay))

MailInv == MailOf(db) /\ (tx.active => MailOf(tx.work))

\* A handler of the server that posts what it decides.
LEMMA HandlerPosts ==
  ASSUME IInv, MailInv, Transaction, Posts(db, db'), relay' = relay, losses' = losses
  PROVE  MailInv'
<1>1. db \in AppState /\ relay \in SUBSET Envelope /\ ~tx'.active
  BY DEF IInv, TypeOK, Transaction
<1>2. Numbered(db', relay) /\ (Delivers(db, relay) => Delivers(db', relay))
  BY <1>1, PostsMail DEF MailInv, MailOf
<1> QED
  BY <1>1, <1>2 DEF MailInv, MailOf

\* Nothing is committed or posted.
LEMMA NothingPosted ==
  ASSUME MailInv, db' = db, relay' = relay, losses' = losses, tx'.active => MailOf(tx'.work)
  PROVE  MailInv'
BY DEF MailInv, MailOf

\* Every step keeps the mail in order.
LEMMA StepPosts ==
  ASSUME IInv, DInv, MailInv, [Next]_vars
  PROVE  MailInv'
<1>1. /\ db \in AppState /\ Sound(db) /\ clock \in Nat /\ losses \in Nat
      /\ relay \in SUBSET Envelope /\ tx \in ImportTx \cup {Idle}
  BY DEF IInv, TypeOK
<1>2. MailOf(db)
  BY DEF MailInv
<1>3. ASSUME NEW t \in TradeIds, NEW ttl \in OfferTTLs, CreateOffer(t, ttl)
      PROVE  MailInv'
  <2>1. clock + ttl \in Nat
    <3>1. ttl \in Nat
      BY DEF ProtocolAssumption
    <3> QED
      BY <1>1, <3>1
  <2>2. Posts(db, db')
    BY <1>1, <1>3, <2>1, OfferPosts DEF CreateOffer
  <2> QED
    BY <1>3, <2>2, HandlerPosts DEF CreateOffer
<1>4. ASSUME NEW t \in TradeIds, AcceptTrade(t)
      PROVE  MailInv'
  <2>1. clock' \in Nat /\ db.accounts[Buyer[t]] >= Price[t]
    BY <1>1, <1>4 DEF AcceptTrade, Acceptable
  <2>2. Posts(db, db')
    BY <1>1, <1>4, <2>1, AcceptPosts DEF AcceptTrade
  <2> QED
    BY <1>4, <2>2, HandlerPosts DEF AcceptTrade
<1>5. ASSUME NEW t \in TradeIds, WithdrawOffer(t)
      PROVE  MailInv'
  <2>1. Posts(db, db')
    BY <1>1, <1>5, AdvancePosts DEF WithdrawOffer
  <2> QED
    BY <1>5, <2>1, HandlerPosts DEF WithdrawOffer
<1>6. ASSUME NEW t \in TradeIds, RequestCancel(t)
      PROVE  MailInv'
  <2>1. Posts(db, db')
    BY <1>1, <1>6, RequestPosts DEF RequestCancel
  <2> QED
    BY <1>6, <2>1, HandlerPosts DEF RequestCancel
<1>7. ASSUME NEW c \in Colonies, NEW dest \in Colonies, NEW lost \in BOOLEAN,
             ExportBundle(c, dest, lost)
      PROVE  MailInv'
  <2> DEFINE messages == {e \in db.outbox[c] : To(e) = dest}
  <2>1. /\ Transaction /\ db' = [db EXCEPT !.outbox[c] = @ \ messages]
        /\ \/ relay' = relay /\ losses' = losses + 1
           \/ relay' = relay \cup messages /\ losses' = losses
    BY <1>7 DEF ExportBundle
  <2>2. messages \in SUBSET db.outbox[c]
    OBVIOUS
  <2> HIDE DEF messages
  <2>3. /\ Numbered(db', relay) /\ Numbered(db', relay \cup messages)
        /\ Delivers(db, relay) => Delivers(db', relay \cup messages)
    BY <1>1, <1>2, <2>1, <2>2, ExportMail DEF MailOf
  <2>4. CASE relay' = relay /\ losses' = losses + 1
    <3>1. losses' # 0
      BY <1>1, <2>4
    <3> QED
      BY <2>1, <2>3, <2>4, <3>1 DEF MailInv, MailOf, Transaction
  <2>5. CASE relay' = relay \cup messages /\ losses' = losses
    BY <1>2, <2>1, <2>3, <2>5 DEF MailInv, MailOf, Transaction
  <2> QED
    BY <2>1, <2>4, <2>5
<1>8. ASSUME NEW c \in Colonies, NEW dest \in Colonies, NEW messages \in Bundles,
             BeginImport(c, dest, messages)
      PROVE  MailInv'
  <2>1. /\ tx'.work = db /\ db' = db /\ relay' = relay /\ losses' = losses
    BY <1>8 DEF BeginImport
  <2> QED
    BY <1>2, <2>1, NothingPosted
<1>9. ASSUME ImportNext
      PROVE  MailInv'
  <2> DEFINE e == Head(tx.todo)
             w == NextResult.state
  <2>1. /\ tx \in ImportTx /\ tx.active /\ tx.todo # <<>> /\ NextResult.ok
        /\ tx' = [tx EXCEPT !.todo = Tail(@), !.work = w]
        /\ db' = db /\ relay' = relay /\ losses' = losses
    BY <1>1, <1>9 DEF ImportNext, Idle
  <2>2. /\ tx.todo \in Seq(Envelope) /\ tx.work \in AppState
        /\ tx.source \in Colonies /\ tx.target \in Colonies
    BY <2>1 DEF ImportTx
  <2>3. Sound(tx.work) /\ Issued(tx.work, Bundle) /\ Bundle \subseteq relay /\ MailOf(tx.work)
    BY <2>1 DEF IInv, ImportSound, DInv, ImportAdvances, MailInv
  <2>4. e \in Bundle
    <3>1. Len(tx.todo) >= 1 /\ Head(tx.todo) = tx.todo[1] /\ Len(tx.todo) \in Nat
      BY <2>1, <2>2
    <3> QED
      BY <3>1 DEF Bundle
  <2>5. e \in relay /\ tx.work.issued[e.trade] > 0
    BY <2>3, <2>4 DEF Issued
  <2>6. /\ Numbered(w, relay)
        /\ Delivers(tx.work, relay) => Delivers(w, relay)
    BY <1>1, <2>1, <2>2, <2>3, <2>5, ImportMail DEF NextResult, MailOf
  <2> HIDE DEF w, e
  <2>7. MailOf(w) /\ tx'.work = w
    BY <2>1, <2>3, <2>6 DEF MailOf, ImportTx
  <2> QED
    BY <2>1, <2>7, NothingPosted
<1>10. ASSUME tx' = Idle, db' = db, relay' = relay, losses' = losses
       PROVE  MailInv'
  BY <1>10, NothingPosted DEF Idle
<1>11. ASSUME CommitImport
       PROVE  MailInv'
  <2>1. /\ tx.active /\ tx' = Idle /\ db' = tx.work /\ relay' = relay /\ losses' = losses
    BY <1>1, <1>11 DEF CommitImport, Idle
  <2> QED
    BY <2>1 DEF MailInv, MailOf, Idle
<1>12. ASSUME NEW now \in {clock - 1, clock}, NEW batch \in SUBSET TradeIds,
              SweepExpired(now, batch)
       PROVE  MailInv'
  <2>1. Posts(db, db')
    BY <1>1, <1>12, SweepPosts DEF SweepExpired
  <2> QED
    BY <1>12, <2>1, HandlerPosts DEF SweepExpired
<1>13. ASSUME NEW a \in ActionIds, NEW admin \in Admins, NEW t \in TradeIds,
              ProposeForceRefund(a, admin, t)
       PROVE  MailInv'
  <2>1. Silent(db, db') /\ db'.trades = db.trades
    BY <1>1, <1>13 DEF ProposeForceRefund, Silent, AppState
  <2> QED
    BY <1>13, <2>1, QuietPosts, HandlerPosts DEF ProposeForceRefund
<1>14. ASSUME NEW a \in ActionIds, NEW admin \in Admins, ApproveForceRefund(a, admin)
       PROVE  MailInv'
  <2> DEFINE t == db.actions[a].trade
             m == ApplyRefund(db, t, "trade_force_refunded").state
  <2>1. /\ db.actions[a] # NoAction /\ IsEscrowed(Status(db, t)) /\ Transaction
        /\ ApplyRefund(db, t, "trade_force_refunded").ok
        /\ db' = Decided(m, a, admin, "approved") /\ relay' = relay /\ losses' = losses
    BY <1>14 DEF ApproveForceRefund, Decidable
  <2>2. t \in TradeIds
    BY <1>1, <2>1, Fields DEF PendingAction
  <2>3. Status(db, t) \in Statuses /\ db.issued[t] > 0
    <3>1. Status(db, t) \in Statuses
      BY <2>1, StatusNames DEF IsEscrowed
    <3> QED
      BY <1>1, <2>2, <3>1, KnownIsIssued, StatusNames
  <2>4. Posts(db, m) /\ m \in AppState
    BY <1>1, <2>1, <2>2, <2>3, ApplyRefundPosts, ApplyRefundKeeps DEF Keeps, Kept
  <2> HIDE DEF m, t
  <2>5. Silent(m, db') /\ db'.trades = m.trades
    BY <2>1, <2>4 DEF Decided, Silent, AppState
  <2> QED
    BY <2>1, <2>4, <2>5, PostsOn, HandlerPosts
<1>15. ASSUME NEW a \in ActionIds, NEW admin \in Admins, RejectForceRefund(a, admin)
       PROVE  MailInv'
  <2>1. Silent(db, db') /\ db'.trades = db.trades
    BY <1>1, <1>15 DEF RejectForceRefund, Decided, Silent, AppState
  <2> QED
    BY <1>15, <2>1, QuietPosts, HandlerPosts DEF RejectForceRefund
<1>16. ASSUME NEW pair \in TrustPairs, TrustPeer(pair[1], pair[2])
       PROVE  MailInv'
  <2>1. Silent(db, db') /\ db'.trades = db.trades
    BY <1>1, <1>16 DEF TrustPeer, Silent, AppState
  <2> QED
    BY <1>16, <2>1, QuietPosts, HandlerPosts DEF TrustPeer
<1>17. ASSUME db' = db, relay' = relay, tx' = tx, losses' = losses
       PROVE  MailInv'
  BY <1>17 DEF MailInv, MailOf
<1> QED
  BY <1>3, <1>4, <1>5, <1>6, <1>7, <1>8, <1>9, <1>10, <1>11, <1>12, <1>13, <1>14,
     <1>15, <1>16, <1>17 DEF Next, RefuseBundle, AbandonImport, Tick, vars

\* At first nobody waits for mail.
LEMMA InitPosts == Init => MailInv
<1> SUFFICES ASSUME Init PROVE MailInv
  OBVIOUS
<1>1. /\ relay = {} /\ ~tx.active /\ db.outbox = [c \in Colonies |-> {}]
      /\ db.processed = [c \in Colonies |-> {}]
      /\ db.trades = [t \in TradeIds |-> NoTrade]
  BY DEF Init, Idle
<1>2. \A t \in TradeIds : Status(db, t) = Absent
  BY <1>1 DEF Status, NoTrade
<1>3. Delivers(db, relay)
  BY <1>2, AwaitedStatuses DEF Delivers
<1>4. Numbered(db, relay)
  BY <1>1 DEF Numbered, Mail
<1> QED
  BY <1>1, <1>3, <1>4 DEF MailInv, MailOf

\* The order of the mail, in every reachable state.
THEOREM MailIsOrderly == Spec => []MailInv
<1>1. [Decides]_vars /\ DInv => DInv'
  BY DEF Decides, DInv, Named, Managed, Apart, ImportAdvances, Bundle, vars
<1>2. IInv /\ DInv /\ MailInv /\ [Next]_vars => MailInv'
  BY StepPosts
<1> QED
  BY <1>1, <1>2, InitPosts, InitDecides, EveryStepDecides, Soundness, PTL DEF Spec

\* What became of a trade once an envelope is imported.
Outcome(d, e) == ImportMessage(d, From(e), To(e), e)

\* The import of an envelope that a trade waits for.
LEMMA AwaitedImport ==
  ASSUME NEW d \in AppState, Sound(d), NEW e \in Envelope, Status(d, e.trade) = Awaits[e.type],
         e.type \in {"refund", "settlement"}, e.id \notin d.processed[To(e)]
  PROVE  /\ Outcome(d, e).ok <=> ImportEnvelope(d, e).ok
         /\ Outcome(d, e).ok => Status(Outcome(d, e).state, e.trade) = Brings[e.type]
<1> DEFINE m == ImportEnvelope(d, e).state
<1>1. /\ ImportEnvelope(d, e).ok
           => Outcome(d, e) = Ok([m EXCEPT !.processed[To(e)] = @ \cup {e.id}])
      /\ ~ImportEnvelope(d, e).ok => Outcome(d, e) = Refused
  BY DEF Outcome, ImportMessage
<1>2. ASSUME ImportEnvelope(d, e).ok
      PROVE  Outcome(d, e).ok /\ Status(Outcome(d, e).state, e.trade) = Brings[e.type]
  <2>1. Status(m, e.trade) = Brings[e.type]
    BY <1>2, ImportEnvelopePosts
  <2>2. d.issued[e.trade] > 0
    <3>1. Status(d, e.trade) # Absent
      BY AwaitedStatuses
    <3> QED
      BY <3>1, Routes, KnownIsIssued
  <2>3. m \in AppState
    BY <1>2, <2>2, ImportEnvelopeKeeps DEF Keeps, Kept
  <2> DEFINE r == [m EXCEPT !.processed[To(e)] = @ \cup {e.id}]
  <2> HIDE DEF m
  <2>4. r.trades = m.trades
    BY <2>3 DEF AppState
  <2>5. Outcome(d, e).ok /\ Outcome(d, e).state = r
    BY <1>1, <1>2 DEF Ok, m
  <2> QED
    BY <2>1, <2>4, <2>5 DEF Status
<1>3. ASSUME ~ImportEnvelope(d, e).ok PROVE ~Outcome(d, e).ok
  BY <1>1, <1>3 DEF Refused
<1> QED
  BY <1>2, <1>3

\* The envelope that tells of a decision can be found.
LEMMA DecisionIsFound ==
  ASSUME IInv, MailInv, losses = 0, NEW t \in TradeIds, NEW type \in {"refund", "settlement"},
         Status(db, t) = Awaits[type]
  PROVE  \E e \in relay \cup db.outbox[SellerColony(t)] :
           /\ e \in Envelope /\ e.type = type /\ e.trade = t
           /\ From(e) = SellerColony(t) /\ To(e) = BuyerColony(t)
           /\ e.id \notin db.processed[BuyerColony(t)]
           /\ Outcome(db, e).ok <=> ImportEnvelope(db, e).ok
           /\ Outcome(db, e).ok => Status(Outcome(db, e).state, t) = Brings[type]
<1>1. db \in AppState /\ Sound(db) /\ relay \in SUBSET Envelope /\ Delivers(db, relay)
  BY DEF IInv, TypeOK, MailInv, MailOf
<1>2. PICK e \in relay \cup db.outbox[SellerColony(t)] :
        e.type = type /\ e.trade = t /\ e.id \notin db.processed[BuyerColony(t)]
  BY <1>1 DEF Delivers, Waits
<1>3. e \in Envelope
  BY <1>1, Fields, Terms
<1>4. From(e) = SellerColony(t) /\ To(e) = BuyerColony(t)
  BY <1>2 DEF From, To
<1>5. /\ Outcome(db, e).ok <=> ImportEnvelope(db, e).ok
      /\ Outcome(db, e).ok => Status(Outcome(db, e).state, t) = Brings[type]
  BY <1>1, <1>2, <1>3, <1>4, AwaitedImport
<1> QED
  BY <1>2, <1>3, <1>4, <1>5

\* As long as no bundle was lost, the buyer's colony can still learn what the
\* seller's colony decided about an acceptance (decideRefund and creditSeller
\* emit the envelope in the transaction that decides).
THEOREM NobodyWaitsInVain == Spec => []NoDecisionIsStranded
<1>1. IInv /\ MailInv => NoDecisionIsStranded
  <2> SUFFICES ASSUME IInv, MailInv, losses = 0, NEW t \in TradeIds
               PROVE  /\ Status(db, t) = RefundPendingExport => UnderWay(t, "refund", Refunded)
                      /\ Status(db, t) = SettlementPendingExport
                           => UnderWay(t, "settlement", Completed)
    BY DEF NoDecisionIsStranded
  <2>1. ASSUME NEW type \in {"refund", "settlement"}, Status(db, t) = Awaits[type]
        PROVE  UnderWay(t, type, Brings[type])
    BY <2>1, DecisionIsFound DEF UnderWay, Outcome
  <2> QED
    BY <2>1, AwaitedStatuses
<1> QED
  BY <1>1, MailIsOrderly, Soundness, PTL

\* An envelope that the buyer's colony would not refuse tells it the decision.
DecisionArrives(t, type) ==
  \E e \in relay \cup db.outbox[SellerColony(t)] :
    /\ e.type = type /\ e.trade = t
    /\ Outcome(db, e).ok /\ Status(Outcome(db, e).state, t) = Brings[type]

\* Nor is that envelope ever refused, as long as what was minted and the prices of
\* all trades together stay within 64 bits (AddChecked in applyRefund).
THEOREM EveryDecisionArrives ==
  ASSUME Total(Funding) <= MaxInt64, Total(Price) <= MaxInt64
  PROVE  Spec => [](losses = 0 =>
                      \A t \in TradeIds : \A type \in {"refund", "settlement"} :
                        Status(db, t) = Awaits[type] => DecisionArrives(t, type))
<1> DEFINE Arrive == losses = 0 =>
                       \A t \in TradeIds : \A type \in {"refund", "settlement"} :
                         Status(db, t) = Awaits[type] => DecisionArrives(t, type)
<1>1. IInv /\ AsFunded /\ TInv /\ MailInv => Arrive
  <2> SUFFICES ASSUME IInv, AsFunded, TInv, MailInv, losses = 0, NEW t \in TradeIds,
                      NEW type \in {"refund", "settlement"}, Status(db, t) = Awaits[type]
               PROVE  DecisionArrives(t, type)
    OBVIOUS
  <2>1. PICK e \in relay \cup db.outbox[SellerColony(t)] :
          /\ e \in Envelope /\ e.type = type /\ e.trade = t
          /\ Outcome(db, e).ok <=> ImportEnvelope(db, e).ok
          /\ Outcome(db, e).ok => Status(Outcome(db, e).state, t) = Brings[type]
    BY DecisionIsFound
  <2>2. Tells(db, e) /\ db \in AppState /\ Sound(db)
    BY <2>1, Terms DEF TInv, Told, IInv, TypeOK
  <2>3. ImportEnvelope(db, e).ok
    BY <2>1, <2>2, TrueEnvelopesImport DEF AsFunded
  <2> QED
    BY <2>1, <2>3 DEF DecisionArrives
<1> QED
  BY <1>1, MailIsOrderly, Truthfulness, Soundness, NothingIsMinted, PTL

\* What a buyer may ask for, again and again (CancelTrade).
Request(t) == NewEnvelope(db, "cancel_request", t, 0)

RequestDecides ==
  \A t \in TradeIds :
    Status(db, t) = AcceptancePendingExport =>
      LET result == Outcome(Emit(db, "cancel_request", t, 0), Request(t))
      IN  result.ok /\ Status(result.state, t) = RefundPendingExport

\* An acceptance in flight can always be decided, whatever was lost or expired: a
\* new request of the buyer is applied by the seller's colony (importCancel).
THEOREM InFlightCanBeRefunded == Spec => []RequestDecides
<1>1. IInv /\ MailInv => RequestDecides
  <2> SUFFICES ASSUME IInv, MailInv, NEW t \in TradeIds, Status(db, t) = AcceptancePendingExport
               PROVE  LET result == Outcome(Emit(db, "cancel_request", t, 0), Request(t))
                      IN  result.ok /\ Status(result.state, t) = RefundPendingExport
    BY DEF RequestDecides
  <2> DEFINE e == Request(t)
             d == Emit(db, "cancel_request", t, 0)
             m == ImportEnvelope(d, e).state
  <2>1. db \in AppState /\ Sound(db) /\ Numbered(db, relay)
    BY DEF IInv, TypeOK, MailInv, MailOf
  <2>2. /\ e.id = <<t, db.issued[t]>> /\ e.type = "cancel_request" /\ e.trade = t
        /\ e.id[1] = t /\ e.id[2] = db.issued[t] /\ e \in Envelope
    BY <2>1, Fields DEF Request, NewEnvelope, Envelope, MessageTypes
  <2> HIDE DEF e
  <2>3. d.trades = db.trades /\ d.processed = db.processed
    BY <2>1 DEF Emit, AppState
  <2>4. d \in AppState
    BY <2>1, EmitFields DEF MessageTypes
  <2> HIDE DEF d
  <2>5. e.id \notin d.processed[To(e)]
    <3> SUFFICES ASSUME e.id \in db.processed[To(e)] PROVE FALSE
      BY <2>3
    <3>1. e.id[2] < db.issued[e.id[1]]
      BY <2>1, <2>2, Routes DEF Numbered
    <3>2. db.issued[t] \in Nat
      BY <2>1, Fields
    <3> QED
      BY <2>2, <3>1, <3>2
  <2>6. Status(d, t) = AcceptancePendingExport
    BY <2>3 DEF Status
  <2>7. ImportEnvelope(d, e) = DecideRefund(d, e)
    BY <2>2, <2>6, StatusNames
    DEF ImportEnvelope, ImportCancel, StepTrade, ClassifyStep, StepApply, StepTooEarly,
        StepDuplicate
  <2>8. TransitionAllowed(AcceptancePendingExport, RefundPendingExport)
    BY AnswersAllowed
  <2>9. DecideRefund(d, e).ok
    BY <2>2, <2>6, <2>8 DEF DecideRefund, Ok
  <2>10. Sound(d)
    <3>1. Keeps(db, d)
      BY <2>1, RequestKeeps DEF d
    <3> QED
      BY <3>1 DEF Keeps, Kept
  <2>11. Status(m, t) = RefundPendingExport /\ m \in AppState
    BY <2>2, <2>4, <2>6, <2>7, <2>9, <2>10, DecideRefundPosts, DecideRefundKeeps
    DEF Keeps, Kept
  <2> DEFINE r == [m EXCEPT !.processed[To(e)] = @ \cup {e.id}]
  <2>12. Outcome(d, e) = Ok(r)
    BY <2>5, <2>7, <2>9 DEF Outcome, ImportMessage
  <2> HIDE DEF m
  <2>13. r.trades = m.trades
    BY <2>11 DEF AppState
  <2> HIDE DEF r
  <2> QED
    BY <2>11, <2>12, <2>13 DEF Ok, Status, d, e
<1> QED
  BY <1>1, MailIsOrderly, Soundness, PTL

-----------------------------------------------------------------------------
(***************************************************************************)
(* Mints in between (module TradeLiveness).  A mint puts into one account  *)
(* what fits there and touches nothing of a trade, so it keeps all that is *)
(* known of the protocol; the accounts and the escrow then hold more.      *)
(***************************************************************************)
\* What a mint leaves alone, and what it adds.
LEMMA MintSound ==
  ASSUME IInv, NEW u \in Traders, Mint(u)
  PROVE  /\ IInv' /\ Holdings(db') = Holdings(db) + 1
         /\ Transaction /\ Aside(db, db') /\ Silent(db, db') /\ db'.trades = db.trades
<1> DEFINE x == [db.accounts EXCEPT ![u] = @ + 1]
<1>1. /\ db \in AppState /\ Sound(db) /\ Issued(db, relay)
      /\ db.accounts \in [Traders -> Nat] /\ IsFiniteSet(Traders)
  BY Fields DEF IInv, TypeOK
<1>2. /\ tx = Idle /\ tx' = tx /\ relay' = relay /\ clock' = clock /\ losses' = losses
      /\ db' = WithAccounts(db, x) /\ db.accounts[u] + 1 <= MaxInt64
  BY DEF Mint, WithAccounts, Fits
<1>3. x \in [Traders -> Nat] /\ x[u] = db.accounts[u] + 1
      /\ \A v \in Traders \ {u} : x[v] = db.accounts[v]
  BY <1>1
<1> HIDE DEF x
<1>4. /\ db' \in AppState /\ db'.accounts = x
      /\ db'.netClaims = db.netClaims /\ db'.netObligations = db.netObligations
      /\ db'.trades = db.trades /\ db'.booked = db.booked
      /\ db'.outbox = db.outbox /\ db'.issued = db.issued
  BY <1>1, <1>2, <1>3, AccountFields
<1>5. db'.processed = db.processed /\ db'.actions = db.actions
  BY <1>1, <1>2 DEF WithAccounts, AppState
<1>6. \A t : Status(db', t) = Status(db, t)
  BY <1>4 DEF Status
<1>7. Holdings(db') = Holdings(db) + 1
  <2>1. Escrow(db') = Escrow(db)
    BY <1>6 DEF Escrow
  <2>2. Total(x) = Total(db.accounts) - db.accounts[u] + x[u] /\ Total(db.accounts) \in Nat
    BY <1>1, <1>3, TotalChange, UnitsFinite
  <2>3. Total(Escrow(db)) \in Nat
    BY EscrowType, UnitsFinite DEF ProtocolAssumption
  <2>4. db.accounts[u] \in Nat
    BY <1>1
  <2> QED
    BY <1>3, <1>4, <2>1, <2>2, <2>3, <2>4 DEF Holdings
<1>8. Minted(db') \in [Traders -> Nat] /\ Holdings(db') = Total(Minted(db'))
  <2> DEFINE m == Minted(db)
             n == Minted(db')
  <2>1. m \in [Traders -> Nat] /\ Holdings(db) = Total(m)
    BY <1>1 DEF Sound
  <2>2. ASSUME NEW v \in Traders
        PROVE  n[v] = m[v] + x[v] - db.accounts[v]
    <3>1. /\ EarnedIn(db', v) = EarnedIn(db, v) /\ SpentIn(db', v) = SpentIn(db, v)
      BY <1>6 DEF EarnedIn, EarnedAt, SpentIn, SpentAt, Holder
    <3>2. Total(EarnedIn(db, v)) \in Nat /\ Total(SpentIn(db, v)) \in Nat
      BY OutcomeType, UnitsFinite DEF ProtocolAssumption
    <3>3. /\ n[v] = x[v] - Total(EarnedIn(db, v)) + Total(SpentIn(db, v))
          /\ m[v] = db.accounts[v] - Total(EarnedIn(db, v)) + Total(SpentIn(db, v))
      BY <1>4, <3>1 DEF Minted
    <3>4. x[v] \in Nat /\ db.accounts[v] \in Nat
      BY <1>1, <1>3
    <3> QED
      BY <3>2, <3>3, <3>4
  <2>3. n = [v \in Traders |-> n[v]]
    BY DEF Minted
  <2> HIDE DEF m, n
  <2>4. /\ n \in [Traders -> Nat] /\ n[u] = m[u] + 1
        /\ \A v \in Traders \ {u} : n[v] = m[v]
    <3>1. \A v \in Traders : m[v] \in Nat /\ db.accounts[v] \in Nat
      BY <1>1, <2>1
    <3>2. n[u] = m[u] + 1 /\ \A v \in Traders \ {u} : n[v] = m[v]
      BY <1>3, <2>2, <3>1
    <3>3. \A v \in Traders : n[v] \in Nat
      BY <3>1, <3>2
    <3> QED
      BY <2>3, <3>2, <3>3
  <2>5. Total(n) = Total(m) - m[u] + n[u] /\ Total(m) \in Nat /\ m[u] \in Nat
    BY <1>1, <2>1, <2>4, TotalChange, UnitsFinite
  <2> QED
    BY <1>7, <2>1, <2>4, <2>5 DEF m, n
<1>9. BookedOnceIn(db')
  BY <1>1, <1>4, <1>6 DEF Sound, BookedOnceIn, Paid, Returned
<1>10. NetPositionsMirrorIn(db')
  <2>1. \A c, o \in Colonies : Settled(db', c, o) = Settled(db, c, o)
    BY <1>6 DEF Settled, Paid
  <2> QED
    BY <1>1, <1>4, <2>1 DEF Sound, NetPositionsMirrorIn
<1>11. AmountsFitIn(db')
  BY <1>1, <1>2, <1>3, <1>4 DEF Sound, AmountsFitIn
<1>12. \A t \in TradeIds : ClosedAt(db', t) /\ FreshAt(db', t)
  BY <1>1, <1>4, <1>6 DEF Sound, ClosedAt, FreshAt, Paid
<1>13. \A c \in Colonies : Issued(db', db'.outbox[c])
  BY <1>1, <1>4 DEF Sound, Issued
<1>14. Sound(db') /\ Issued(db', relay')
  BY <1>1, <1>2, <1>4, <1>8, <1>9, <1>10, <1>11, <1>12, <1>13 DEF Sound, Issued
<1>15. IInv'
  BY <1>2, <1>4, <1>14 DEF IInv, TypeOK, ImportSound, Idle
<1> QED
  BY <1>2, <1>4, <1>5, <1>7, <1>15 DEF Transaction, Idle, Aside, Silent

\* The invariants of the protocol together.
LInv == IInv /\ DInv /\ TInv /\ MailInv

\* They are kept by mints too, and a mint decides nothing.
LEMMA LiveStepSound ==
  ASSUME LInv, [LiveNext]_vars
  PROVE  /\ LInv' /\ [Decides]_vars
         /\ Holdings(db') = Holdings(db) \/ \E u \in Traders : Mint(u)
<1>1. CASE [Next]_vars
  <2>1. IInv' /\ Minted(db') = Minted(db)
    BY <1>1, StepSound DEF LInv, SoundStep
  <2>2. [Decides]_vars /\ MailInv'
    BY <1>1, <2>1, StepDecides, StepPosts DEF LInv
  <2>3. DInv'
    BY <2>2 DEF LInv, Decides, DInv, Named, Managed, Apart, ImportAdvances, Bundle, vars
  <2>4. TInv'
    BY <2>2, StepTells DEF LInv
  <2>5. Holdings(db') = Holdings(db)
    BY <2>1 DEF LInv, IInv, Sound
  <2> QED
    BY <2>1, <2>2, <2>3, <2>4, <2>5 DEF LInv
<1>2. ASSUME NEW u \in Traders, Mint(u)
      PROVE  LInv' /\ Decides
  <2>1. /\ IInv' /\ Transaction /\ Aside(db, db') /\ Silent(db, db')
        /\ db'.trades = db.trades /\ relay' = relay /\ losses' = losses
    BY <1>2, MintSound DEF LInv, Mint
  <2>2. Advances(db, db') /\ db'.issued = db.issued
    BY <2>1, StillAdvances DEF Silent, Aside, Sends
  <2>3. Decides
    BY <2>1, <2>2, NothingIssued, PlainHandlerDecides DEF LInv
  <2>4. DInv' /\ TInv'
    BY <2>3, StepTells DEF LInv, Decides
  <2>5. MailInv'
    BY <2>1, QuietPosts, HandlerPosts DEF LInv
  <2> QED
    BY <2>1, <2>3, <2>4, <2>5 DEF LInv
<1> QED
  BY <1>1, <1>2 DEF LiveNext

\* And they hold in every reachable state of the protocol with mints.
THEOREM SoundWhileMinting == LiveSpec => []LInv
<1>1. Init => LInv
  <2>1. Init => TInv
    BY DEF Init, TInv, Told
  <2> QED
    BY <2>1, InitSound, InitDecides, InitPosts DEF LInv
<1>2. LInv /\ [LiveNext /\ Patient]_vars => LInv'
  BY LiveStepSound
<1> QED
  BY <1>1, <1>2, PTL DEF LiveSpec

\* No balance or net position overflows whatever is minted in between (applyMint).
THEOREM NothingOverflowsWhileMinting == LiveSpec => []AmountsFit
<1>1. LInv => AmountsFit
  BY DEF LInv, IInv, Sound, AmountsFit
<1> QED
  BY <1>1, SoundWhileMinting, PTL

\* Only a mint changes how much money there is, and by no more than it mints.
THEOREM OnlyMintsMint ==
  LiveSpec => [][\/ Holdings(db') = Holdings(db)
                 \/ /\ \E u \in Traders : Mint(u)
                    /\ Holdings(db') = Holdings(db) + 1]_vars
<1>1. LInv /\ [LiveNext /\ Patient]_vars
        => [\/ Holdings(db') = Holdings(db)
            \/ /\ \E u \in Traders : Mint(u)
               /\ Holdings(db') = Holdings(db) + 1]_vars
  BY LiveStepSound, MintSound DEF LInv
<1> QED
  BY <1>1, SoundWhileMinting, PTL DEF LiveSpec

\* Authentic envelopes are never refused as long as the money there is, minted
\* before or in between, and the prices of all trades stay within 64 bits.
THEOREM NoMessageIsPoisonWhileMinting ==
  ASSUME Total(Price) <= MaxInt64
  PROVE  LiveSpec => [](Holdings(db) <= MaxInt64 => NoPoisonMessage)
<1>1. LInv => (Holdings(db) <= MaxInt64 => NoPoisonMessage)
  <2> SUFFICES ASSUME LInv, Holdings(db) <= MaxInt64, NEW e \in relay
               PROVE  ImportMessage(db, From(e), To(e), e).ok
    BY DEF NoPoisonMessage
  <2>1. db \in AppState /\ Sound(db) /\ e \in Envelope /\ Tells(db, e)
    BY DEF LInv, IInv, TypeOK, TInv, Told
  <2>2. Total(Minted(db)) <= MaxInt64
    BY <2>1 DEF Sound
  <2>3. ImportEnvelope(db, e).ok
    BY <2>1, <2>2, TrueEnvelopesImport
  <2> QED
    BY <2>3 DEF ImportMessage, Ok
<1> QED
  BY <1>1, SoundWhileMinting, PTL

-----------------------------------------------------------------------------
(***************************************************************************)
(* The inductive invariant with backups: the saved state is sound too, and *)
(* it is older than the store, so that what it knows nothing of may be     *)
(* known to a relay, but no id of it can be drawn again.  Both have the    *)
(* money that was minted before the protocol ran.                          *)
(***************************************************************************)
RInv ==
  /\ IInv /\ AsFunded
  /\ backup \in AppState /\ Sound(backup) /\ Minted(backup) = Funding
  /\ IssuedUpTo(backup, db)

\* A sound state stays sound when ids that were lost are counted as issued.
LEMMA LostIdsSound ==
  ASSUME NEW d \in AppState, Sound(d), NEW issued \in [TradeIds -> Nat],
         \A t \in TradeIds : issued[t] >= d.issued[t]
  PROVE  LET r == [d EXCEPT !.issued = issued]
         IN  r \in AppState /\ Sound(r) /\ Minted(r) = Minted(d) /\ r.issued = issued
<1> DEFINE r == [d EXCEPT !.issued = issued]
<1>1. /\ r \in AppState /\ r.accounts = d.accounts /\ r.netClaims = d.netClaims
      /\ r.netObligations = d.netObligations /\ r.trades = d.trades
      /\ r.booked = d.booked /\ r.issued = issued /\ r.outbox = d.outbox
  BY DEF AppState
<1> HIDE DEF r
<1>2. \A t : Status(r, t) = Status(d, t)
  BY <1>1 DEF Status
<1>3. Escrow(r) = Escrow(d)
  BY <1>2 DEF Escrow
<1>4. Holdings(r) = Holdings(d)
  BY <1>1, <1>3 DEF Holdings
<1>5. BookedOnceIn(r)
  BY <1>1, <1>2 DEF Sound, BookedOnceIn, Paid, Returned
<1>6. \A c, o \in Colonies : Settled(r, c, o) = Settled(d, c, o)
  BY <1>2 DEF Settled, Paid
<1>7. NetPositionsMirrorIn(r)
  BY <1>1, <1>6 DEF Sound, NetPositionsMirrorIn
<1>8. AmountsFitIn(r)
  BY <1>1 DEF Sound, AmountsFitIn
<1>9. d.issued \in [TradeIds -> Nat]
  BY Fields
<1>10. \A t \in TradeIds : ClosedAt(r, t)
  BY <1>1, <1>2 DEF Sound, ClosedAt, Paid
<1>11. \A t \in TradeIds : FreshAt(r, t)
  BY <1>1, <1>2, <1>9 DEF Sound, FreshAt
<1>12. ASSUME NEW c \in Colonies, NEW e \in r.outbox[c]
       PROVE  r.issued[e.trade] > 0
  <2>1. e \in Envelope /\ d.issued[e.trade] > 0
    BY <1>1, Fields DEF Sound, Issued
  <2>2. e.trade \in TradeIds
    BY <2>1, Routes
  <2> QED
    BY <1>1, <1>9, <2>1, <2>2
<1>13. \A t \in TradeIds : Holder(r, t) = Holder(d, t)
  BY <1>2 DEF Holder
<1>14. Minted(r) = Minted(d)
  BY <1>1, <1>13, StillFollows
<1>15. Sound(r)
  BY <1>4, <1>5, <1>7, <1>8, <1>10, <1>11, <1>12, <1>14 DEF Sound, Issued
<1> QED
  BY <1>1, <1>14, <1>15 DEF r

\* The invariant holds at first.
LEMMA RestoreInitSound == RestoreInit => RInv
<1> SUFFICES ASSUME RestoreInit PROVE RInv
  OBVIOUS
<1>1. IInv /\ Minted(db) = Funding /\ backup = db
  BY InitSound DEF RestoreInit
<1>2. db \in AppState /\ Sound(db) /\ db.issued \in [TradeIds -> Nat]
  BY <1>1, Fields DEF IInv, TypeOK
<1> QED
  BY <1>1, <1>2 DEF RInv, AsFunded, IssuedUpTo

\* Every step keeps it.
LEMMA RestoreStepSound == RInv /\ [RestoreNext]_restoreVars => RInv'
<1> SUFFICES ASSUME RInv, [RestoreNext]_restoreVars PROVE RInv'
  OBVIOUS
<1>1. /\ IInv /\ backup \in AppState /\ Sound(backup) /\ IssuedUpTo(backup, db)
      /\ db \in AppState /\ Minted(db) = Funding /\ Minted(backup) = Funding
  BY DEF RInv, IInv, TypeOK, AsFunded
<1>2. /\ db.issued \in [TradeIds -> Nat] /\ backup.issued \in [TradeIds -> Nat]
  BY <1>1, Fields
<1>3. ASSUME [Next]_vars, backup' = backup
      PROVE  RInv'
  <2>1. IInv' /\ IssuedUpTo(db, db') /\ Minted(db') = Funding
    BY <1>1, <1>3, StepSound DEF SoundStep
  <2>2. db'.issued \in [TradeIds -> Nat]
    BY <2>1, Fields DEF IInv, TypeOK
  <2>3. IssuedUpTo(backup, db')
    BY <1>1, <1>2, <2>1, <2>2 DEF IssuedUpTo
  <2> QED
    BY <1>1, <1>3, <2>1, <2>3 DEF RInv, AsFunded
<1>4. ASSUME Backup
      PROVE  RInv'
  <2>1. backup' = db /\ UNCHANGED vars
    BY <1>4 DEF Backup, vars
  <2>2. IInv'
    BY <1>1, <2>1, StepSound DEF SoundStep
  <2>3. db' = db /\ IssuedUpTo(db, db)
    BY <1>2, <2>1 DEF vars, IssuedUpTo
  <2> QED
    BY <1>1, <2>1, <2>2, <2>3 DEF RInv, IInv, AsFunded
<1>5. ASSUME Restore
      PROVE  RInv'
  <2>1. /\ db' = [backup EXCEPT !.issued = db.issued] /\ tx' = Idle
        /\ relay' = relay /\ clock' = clock /\ losses' = losses /\ backup' = backup
    BY <1>5 DEF Restore
  <2>2. db' \in AppState /\ Sound(db') /\ Minted(db') = Funding /\ db'.issued = db.issued
    BY <1>1, <1>2, <2>1, LostIdsSound DEF IssuedUpTo
  <2>3. Issued(db', relay')
    BY <1>1, <2>1, <2>2 DEF IInv, Issued
  <2>4. IInv'
    BY <1>1, <2>1, <2>2, <2>3 DEF IInv, TypeOK, ImportSound, Idle
  <2>5. IssuedUpTo(backup', db')
    BY <1>1, <2>1, <2>2 DEF IssuedUpTo
  <2> QED
    BY <1>1, <2>1, <2>2, <2>4, <2>5 DEF RInv, AsFunded
<1>6. CASE UNCHANGED restoreVars
  BY <1>3, <1>6 DEF restoreVars, vars
<1> QED
  BY <1>3, <1>4, <1>5, <1>6 DEF RestoreNext

\* The invariant with backups holds in every reachable state.
THEOREM RestoreSoundness == RestoreSpec => []RInv
BY RestoreInitSound, RestoreStepSound, PTL DEF RestoreSpec

\* Money is conserved across any number of restores of any backups (RUNBOOK.md,
\* the restore of a dump), with every envelope of the lost history still around.
THEOREM MoneySurvivesRestore == RestoreSpec => []Conservation
<1>1. RInv => Conservation
  BY DEF RInv, IInv, AsFunded, Sound, Conservation, ConservedIn, Holdings
<1> QED
  BY <1>1, RestoreSoundness, PTL

\* And whatever envelopes of a lost history come back, the ledgers book the money of
\* a trade once, the net positions agree, closed offers hold nothing, sums fit.
THEOREM BooksSurviveRestore ==
  RestoreSpec => [](BookedOnce /\ NetPositionsMirror /\ ClosedOffersHoldNoMoney /\ AmountsFit)
<1>1. RInv => BookedOnce /\ NetPositionsMirror /\ ClosedOffersHoldNoMoney /\ AmountsFit
  BY DEF RInv, IInv, Sound, BookedOnce, NetPositionsMirror, ClosedOffersHoldNoMoney,
         ClosedOffersHoldNoMoneyIn, ClosedAt, AmountsFit
<1> QED
  BY <1>1, RestoreSoundness, PTL

(***************************************************************************)
(* Who decides after a restore.  The saved state has what DInv says of a   *)
(* state, and no id is forgotten.                                          *)
(***************************************************************************)
RDInv ==
  /\ RInv /\ DInv /\ restores \in Nat
  /\ \A c \in Colonies : Named(backup.outbox[c])
  /\ Managed(backup)

\* A restore, or a step of the protocol that decides as every step does.
RestoreDecides == RDInv' /\ (restores' = restores => [Decides]_vars)

\* A restore forgets, but what it brings back was so once.
LEMMA RestoreStepDecides ==
  ASSUME RDInv, RInv', [RestoreNext]_restoreVars
  PROVE  RestoreDecides
<1>1. IInv /\ IInv' /\ DInv /\ restores \in Nat
  BY DEF RDInv, RInv
<1>2. ASSUME [Next]_vars, backup' = backup, restores' = restores
      PROVE  RestoreDecides
  <2>1. [Decides]_vars
    BY <1>1, <1>2, StepDecides
  <2>2. DInv'
    <3>1. CASE Decides
      BY <3>1 DEF Decides
    <3>2. CASE UNCHANGED vars
      BY <1>1, <3>2 DEF DInv, ImportAdvances, Bundle, vars
    <3> QED
      BY <2>1, <3>1, <3>2
  <2>3. Managed(backup') /\ \A c \in Colonies : Named(backup'.outbox[c])
    BY <1>2 DEF RDInv
  <2> QED
    BY <1>1, <1>2, <2>1, <2>2, <2>3 DEF RestoreDecides, RDInv
<1>3. ASSUME Backup
      PROVE  RestoreDecides
  <2>1. backup' = db /\ restores' = restores /\ UNCHANGED vars
    BY <1>3 DEF Backup, vars
  <2>2. DInv'
    BY <1>1, <2>1 DEF DInv, ImportAdvances, Bundle, vars
  <2>3. Managed(backup') /\ \A c \in Colonies : Named(backup'.outbox[c])
    BY <1>1, <2>1 DEF DInv
  <2> QED
    BY <1>1, <2>1, <2>2, <2>3 DEF RestoreDecides, RDInv
<1>4. ASSUME Restore
      PROVE  RestoreDecides
  <2>1. /\ db' = [backup EXCEPT !.issued = db.issued] /\ tx' = Idle
        /\ relay' = relay /\ backup' = backup /\ restores' = restores + 1
    BY <1>4 DEF Restore
  <2>2. /\ db'.outbox = backup.outbox /\ db'.actions = backup.actions
        /\ db'.issued = db.issued
    BY <2>1 DEF RDInv, RInv, AppState
  <2>3. Apart(db')
    BY <1>1, <2>2, NothingIssued
  <2>4. Managed(db') /\ \A c \in Colonies : Named(db'.outbox[c])
    BY <2>2 DEF RDInv, Managed
  <2>5. DInv'
    BY <1>1, <2>1, <2>3, <2>4 DEF DInv, ImportAdvances, Idle
  <2>6. Managed(backup') /\ \A c \in Colonies : Named(backup'.outbox[c])
    BY <2>1 DEF RDInv
  <2>7. restores' # restores /\ restores' \in Nat
    BY <1>1, <2>1
  <2> QED
    BY <2>5, <2>6, <2>7 DEF RestoreDecides, RDInv
<1> QED
  BY <1>2, <1>3, <1>4 DEF RestoreNext, restoreVars, vars

\* Whatever was lost by restores, an acceptance in flight is resolved by the seller's
\* colony or by two admins, and its money is returned by two admins only (RUNBOOK.md).
THEOREM DecisionsSurviveRestore == RestoreSpec => SellerStillDecides
<1>1. RestoreInit => RDInv
  <2> SUFFICES ASSUME RestoreInit PROVE RDInv
    OBVIOUS
  <2>1. RInv /\ DInv /\ backup = db /\ restores = 0
    BY RestoreInitSound, InitDecides DEF RestoreInit
  <2> QED
    BY <2>1 DEF RDInv, DInv
<1>2. RInv /\ RInv' /\ RDInv /\ [RestoreNext]_restoreVars => RestoreDecides
  BY RestoreStepDecides
<1>3. RestoreDecides => RDInv'
  BY DEF RestoreDecides
<1>4. RDInv /\ RestoreDecides
        => [restores' = restores =>
              /\ DecidedBySeller
              /\ \A t \in TradeIds : (Undecided(db, t) /\ Status(db', t) = Refunded)
                                       => ForcedByTwo(t)]_restoreVars
  <2> SUFFICES ASSUME RestoreDecides, restores' = restores
               PROVE  /\ DecidedBySeller
                      /\ \A t \in TradeIds : (Undecided(db, t) /\ Status(db', t) = Refunded)
                                               => ForcedByTwo(t)
    OBVIOUS
  <2>1. CASE Decides
    BY <2>1 DEF Decides, ReturnedByTwo, Undecided, InFlight, Returned
  <2>2. CASE UNCHANGED vars
    <3>1. db' = db
      BY <2>2 DEF vars
    <3> QED
      BY <3>1 DEF DecidedBySeller, Undecided, AcceptancePendingExport, Refunded
  <2> QED
    BY <2>1, <2>2 DEF RestoreDecides
<1> QED
  BY <1>1, <1>2, <1>3, <1>4, RestoreSoundness, PTL DEF RestoreSpec, SellerStillDecides

-----------------------------------------------------------------------------
(***************************************************************************)
(* The search behind domain.Reachable (module TradeSearch), by which the   *)
(* handlers tell an envelope that comes too early from a duplicate.  A run *)
(* of it is about variables of its own.                                    *)
(***************************************************************************)
HIDE ProtocolAssumption

\* What is in a queue.
Waiting(q) == {q[i] : i \in 1..Len(q)}

\* A finite set is laid out as a sequence of all its elements, each once.
LEMMA LaidOutOnce ==
  ASSUME NEW S, IsFiniteSet(S)
  PROVE  LET q == SetToSeq(S)
         IN  q \in Seq(S) /\ Len(q) = Cardinality(S) /\ Waiting(q) = S
<1> DEFINE n == Cardinality(S)
           q == SetToSeq(S)
<1>1. n \in Nat /\ ExistsBijection(1..n, S)
  BY FS_CardinalityType
<1>2. PICK f \in Bijection(1..n, S) : TRUE
  BY <1>1 DEF ExistsBijection
<1>3. f \in [1..n -> S] /\ IsInjective(f)
  BY <1>2 DEF Bijection, Injection, Surjection, IsInjective
<1>4. q \in [1..n -> S] /\ IsInjective(q)
  BY <1>3 DEF SetToSeq
<1> HIDE DEF q, n
<1>5. q \in Seq(S) /\ Len(q) = n
  BY <1>1, <1>4
<1>6. q \in Surjection(1..n, S)
  <2>1. q \in Injection(1..n, S)
    BY <1>4 DEF Injection, IsInjective
  <2>2. IsFiniteSet(1..n) /\ Cardinality(1..n) = n
    BY <1>1, FS_Interval
  <2> DEFINE T == {q[i] : i \in 1..n}
  <2>3. q \in Bijection(1..n, T)
    BY <1>4, <2>1 DEF Bijection, Injection, Surjection
  <2>4. T \subseteq S /\ IsFiniteSet(T) /\ Cardinality(T) = n
    <3>1. T \subseteq S
      BY <1>4
    <3>2. ExistsBijection(1..n, T)
      BY <2>3 DEF ExistsBijection
    <3> QED
      BY <1>1, <3>1, <3>2, FS_CountingElements, FS_Subset
  <2>5. T = S
    BY <2>4, FS_Subset DEF n
  <2> QED
    BY <1>4, <2>5 DEF Surjection
<1>7. Waiting(q) = S
  BY <1>4, <1>5, <1>6 DEF Waiting, Surjection
<1> QED
  BY <1>5, <1>7 DEF n, q

\* The queue after one more status was expanded.
LEMMA QueueAfter ==
  ASSUME NEW A, NEW q \in Seq(A), q # <<>>, NEW p \in Seq(A)
  PROVE  /\ Tail(q) \o p \in Seq(A)
         /\ Len(Tail(q) \o p) = Len(q) - 1 + Len(p)
         /\ Head(q) \in Waiting(q)
         /\ Waiting(q) \subseteq {Head(q)} \cup Waiting(Tail(q) \o p)
         /\ Waiting(p) \subseteq Waiting(Tail(q) \o p)
         /\ Waiting(Tail(q) \o p) \subseteq Waiting(q) \cup Waiting(p)
<1> DEFINE t == Tail(q)
           c == t \o p
<1>1. /\ Len(q) \in Nat /\ Len(q) >= 1 /\ t \in Seq(A) /\ Len(t) = Len(q) - 1
      /\ Head(q) = q[1] /\ \A i \in 1..Len(t) : t[i] = q[i + 1]
  OBVIOUS
<1>2. /\ c \in Seq(A) /\ Len(c) = Len(t) + Len(p) /\ Len(p) \in Nat /\ Len(t) \in Nat
      /\ \A i \in 1..Len(c) : c[i] = IF i <= Len(t) THEN t[i] ELSE p[i - Len(t)]
  BY <1>1
<1> HIDE DEF t, c
<1>3. Head(q) \in Waiting(q)
  BY <1>1 DEF Waiting
<1>4. Waiting(q) \subseteq {Head(q)} \cup Waiting(c)
  <2> SUFFICES ASSUME NEW i \in 1..Len(q), i # 1 PROVE q[i] \in Waiting(c)
    BY <1>1 DEF Waiting
  <2>1. i - 1 \in 1..Len(t) /\ t[i - 1] = q[(i - 1) + 1] /\ (i - 1) + 1 = i
    BY <1>1
  <2>2. i - 1 \in 1..Len(c) /\ c[i - 1] = t[i - 1]
    BY <1>2, <2>1
  <2> QED
    BY <2>1, <2>2 DEF Waiting
<1>5. Waiting(p) \subseteq Waiting(c)
  <2> SUFFICES ASSUME NEW i \in 1..Len(p) PROVE p[i] \in Waiting(c)
    BY DEF Waiting
  <2>1. i + Len(t) \in 1..Len(c) /\ ~(i + Len(t) <= Len(t)) /\ (i + Len(t)) - Len(t) = i
    BY <1>2
  <2>2. c[i + Len(t)] = p[i]
    BY <1>2, <2>1
  <2> QED
    BY <2>1, <2>2 DEF Waiting
<1>6. Waiting(c) \subseteq Waiting(q) \cup Waiting(p)
  <2> SUFFICES ASSUME NEW i \in 1..Len(c) PROVE c[i] \in Waiting(q) \cup Waiting(p)
    BY DEF Waiting
  <2>1. CASE i <= Len(t)
    <3>1. i \in 1..Len(t) /\ c[i] = q[i + 1] /\ i + 1 \in 1..Len(q)
      BY <1>1, <1>2, <2>1
    <3> QED
      BY <3>1 DEF Waiting
  <2>2. CASE ~(i <= Len(t))
    <3>1. i - Len(t) \in 1..Len(p) /\ c[i] = p[i - Len(t)]
      BY <1>2, <2>2
    <3> QED
      BY <3>1 DEF Waiting
  <2> QED
    BY <2>1, <2>2
<1> QED
  BY <1>1, <1>2, <1>3, <1>4, <1>5, <1>6 DEF t, c

(***************************************************************************)
(* The invariant of the search.  Every status it has seen, other than the  *)
(* one it started from, is reachable; a status it has seen and that is no  *)
(* longer queued has been expanded: its successors were seen, and what is  *)
(* looked for is not among them.                                           *)
(***************************************************************************)
Expanded(s) == TradeTransitions[s] \subseteq seen /\ to \notin TradeTransitions[s]

SearchInv ==
  /\ from \in Statuses /\ to \in Statuses
  /\ seen \subseteq Statuses /\ from \in seen
  /\ queue \in Seq(Statuses) /\ Waiting(queue) \subseteq seen
  /\ answer \in {"searching", "yes", "no"}
  /\ \A s \in seen \ {from} : Reachable(from, s)
  /\ \A s \in seen \ Waiting(queue) : Expanded(s)
  /\ answer = "yes" => Reachable(from, to)
  /\ answer = "no" => queue = <<>>

\* What is still to be done: statuses not seen yet, and those queued.
Remaining == Cardinality(Statuses \ seen) + Len(queue)

\* The table leads from statuses to statuses.
LEMMA SearchTable ==
  /\ IsFiniteSet(Statuses)
  /\ \A s \in Statuses : TradeTransitions[s] \subseteq Statuses
<1>1. IsFiniteSet(Statuses)
  <2> DEFINE three(x, y, z) == {x} \cup {y} \cup {z}
  <2>1. \A x, y, z : IsFiniteSet(three(x, y, z))
    BY FS_Singleton, FS_Union
  <2>2. Statuses =
          three(OfferPendingExport, OfferReceived, AcceptancePendingExport)
          \cup three(SettlementPendingExport, Completed, RefundPendingExport)
          \cup three(Refunded, Expired, Cancelled)
    BY DEF Statuses
  <2> HIDE DEF three
  <2> QED
    BY <2>1, <2>2, FS_Union
<1>2. \A s \in Statuses : TradeTransitions[s] \subseteq Statuses
  BY DEF Statuses, TradeTransitions, OfferPendingExport, OfferReceived,
         AcceptancePendingExport, SettlementPendingExport, Completed,
         RefundPendingExport, Refunded, Expired, Cancelled
<1> QED
  BY <1>1, <1>2

\* The successors of what is reachable, or of the start, are reachable.
LEMMA ReachableOnward ==
  ASSUME NEW a \in Statuses, NEW s \in Statuses,
         s = a \/ Reachable(a, s), NEW u \in TradeTransitions[s]
  PROVE  Reachable(a, u)
BY SearchTable DEF Reachable, ReachableFrom, ClosedUnderSteps

\* The statuses that can be reached from a are in every set that contains the
\* successors of a and those of its own members.
LEMMA ReachableInside ==
  ASSUME NEW a \in Statuses, NEW u, Reachable(a, u),
         NEW S \in SUBSET Statuses, TradeTransitions[a] \subseteq S,
         \A s \in S : TradeTransitions[s] \subseteq S
  PROVE  u \in S
BY DEF Reachable, ReachableFrom, ClosedUnderSteps

\* A search begins with the status it starts from, in the queue.
LEMMA SearchBegins == SearchInit => SearchInv
<1> SUFFICES ASSUME SearchInit PROVE SearchInv
  OBVIOUS
<1>1. /\ from \in Statuses /\ to \in Statuses
      /\ seen = {from} /\ queue = <<from>> /\ answer = "searching"
  BY DEF SearchInit
<1>2. queue \in Seq(Statuses) /\ Waiting(queue) = {from}
  BY <1>1 DEF Waiting
<1> QED
  BY <1>1, <1>2 DEF SearchInv

\* A step keeps the invariant, and leaves less to be done unless it answers.
LEMMA SearchStep ==
  SearchInv /\ [SearchNext]_searchVars
    => /\ SearchInv'
       /\ answer = "searching" /\ answer' = "searching" /\ ~UNCHANGED searchVars
            => Remaining \in Nat /\ Remaining' = Remaining - 1
<1> SUFFICES ASSUME SearchInv, [SearchNext]_searchVars
             PROVE  /\ SearchInv'
                    /\ answer = "searching" /\ answer' = "searching" /\ ~UNCHANGED searchVars
                         => Remaining \in Nat /\ Remaining' = Remaining - 1
  OBVIOUS
<1>1. ASSUME UNCHANGED searchVars
      PROVE  SearchInv'
  BY <1>1 DEF SearchInv, Expanded, searchVars
<1>2. ASSUME Found
      PROVE  SearchInv' /\ answer' = "yes"
  <2>1. /\ queue \in Seq(Statuses) /\ queue # <<>> /\ answer' = "yes"
        /\ to \in TradeTransitions[Head(queue)]
        /\ UNCHANGED <<from, to, seen, queue>>
    BY <1>2 DEF SearchInv, Found, Hits, Successors
  <2>2. Head(queue) \in seen
    BY <2>1, QueueAfter DEF SearchInv
  <2>3. Reachable(from, to)
    BY <2>1, <2>2, ReachableOnward DEF SearchInv
  <2> QED
    BY <2>1, <2>3 DEF SearchInv, Expanded
<1>3. ASSUME Exhausted
      PROVE  SearchInv' /\ answer' = "no"
  BY <1>3 DEF SearchInv, Expanded, Exhausted
<1>4. ASSUME Expand
      PROVE  SearchInv' /\ Remaining \in Nat /\ Remaining' = Remaining - 1
  <2> DEFINE h == Head(queue)
             new == TradeTransitions[h] \ seen
             p == SetToSeq(new)
  <2>1. /\ queue \in Seq(Statuses) /\ queue # <<>> /\ answer = "searching"
        /\ to \notin TradeTransitions[h]
        /\ seen' = seen \cup new /\ queue' = Tail(queue) \o p
        /\ UNCHANGED <<from, to, answer>>
    BY <1>4 DEF SearchInv, Expand, Hits, Successors, Rest
  <2>2. h \in seen /\ h \in Statuses
    BY <2>1, QueueAfter DEF SearchInv
  <2>3. /\ IsFiniteSet(new) /\ new \subseteq Statuses
        /\ new \cap seen = {} /\ TradeTransitions[h] \subseteq seen \cup new
    BY <2>2, SearchTable, FS_Subset
  <2>4. \A u \in new : Reachable(from, u)
    BY <2>2, ReachableOnward DEF SearchInv
  <2>5. p \in Seq(new) /\ Len(p) = Cardinality(new) /\ Waiting(p) = new
    BY <2>3, LaidOutOnce
  <2>6. p \in Seq(Statuses)
    BY <2>3, <2>5
  <2> HIDE DEF new, p, h
  <2>7. /\ queue' \in Seq(Statuses)
        /\ Len(queue') = Len(queue) - 1 + Len(p)
        /\ Waiting(queue) \subseteq {h} \cup Waiting(queue')
        /\ new \subseteq Waiting(queue')
        /\ Waiting(queue') \subseteq Waiting(queue) \cup new
    BY <2>1, <2>5, <2>6, QueueAfter DEF h
  <2>8. SearchInv'
    <3>1. \A s \in seen' \ {from} : Reachable(from, s)
      BY <2>1, <2>4 DEF SearchInv
    <3>2. \A s \in seen' \ Waiting(queue') :
            TradeTransitions[s] \subseteq seen' /\ to \notin TradeTransitions[s]
      <4> SUFFICES ASSUME NEW s \in seen' \ Waiting(queue')
                   PROVE  TradeTransitions[s] \subseteq seen' /\ to \notin TradeTransitions[s]
        OBVIOUS
      <4>1. CASE s = h
        BY <2>1, <2>3, <4>1
      <4>2. CASE s # h
        <5>1. s \in seen /\ s \notin Waiting(queue)
          BY <2>1, <2>7, <4>2
        <5> QED
          BY <2>1, <5>1 DEF SearchInv, Expanded
      <4> QED
        BY <4>1, <4>2
    <3>3. Waiting(queue') \subseteq seen' /\ seen' \subseteq Statuses
      BY <2>1, <2>3, <2>7 DEF SearchInv
    <3>4. \A s : Expanded(s)' <=> (TradeTransitions[s] \subseteq seen'
                                    /\ to \notin TradeTransitions[s])
      BY <2>1 DEF Expanded
    <3>5. Waiting(queue)' = Waiting(queue')
      BY DEF Waiting
    <3> QED
      BY <2>1, <2>7, <3>1, <3>2, <3>3, <3>4, <3>5 DEF SearchInv
  <2>9. Remaining \in Nat /\ Remaining' = Remaining - 1
    <3> DEFINE rest == Statuses \ seen
    <3>1. IsFiniteSet(rest) /\ new \subseteq rest /\ Statuses \ seen' = rest \ new
      BY <2>1, <2>3, SearchTable, FS_Subset
    <3>2. /\ Cardinality(rest) \in Nat /\ Cardinality(new) \in Nat
          /\ Cardinality(rest \ new) = Cardinality(rest) - Cardinality(new)
      <4>1. rest \cap new = new
        BY <3>1
      <4> HIDE DEF rest
      <4> QED
        BY <2>3, <3>1, <4>1, FS_Difference, FS_CardinalityType
    <3>3. /\ Remaining = Cardinality(rest) + Len(queue)
          /\ Remaining' = Cardinality(rest \ new) + Len(queue')
      BY <3>1 DEF Remaining
    <3>4. Len(queue) \in Nat /\ Len(queue) >= 1
      BY <2>1
    <3> HIDE DEF rest
    <3> QED
      BY <2>5, <2>7, <3>2, <3>3, <3>4
  <2> QED
    BY <2>8, <2>9
<1> QED
  BY <1>1, <1>2, <1>3, <1>4 DEF SearchNext

\* The invariant of the search.
THEOREM SearchSound == SearchSpec => []SearchInv
<1>1. SearchInv /\ [SearchNext]_searchVars => SearchInv'
  BY SearchStep
<1> QED
  BY <1>1, SearchBegins, PTL DEF SearchSpec

(***************************************************************************)
(* The breadth-first search of domain.Reachable computes the closure of    *)
(* the table, in whatever order it takes the successors of a status, so    *)
(* ClassifyStep may be defined by the closure.                             *)
(***************************************************************************)
THEOREM SearchComputesTheClosure == SearchSpec => []SearchCorrect
<1>1. ASSUME SearchInv, answer = "no", Reachable(from, to) PROVE FALSE
  <2>1. queue = <<>> /\ Waiting(queue) = {}
    BY <1>1 DEF SearchInv, Waiting
  <2>2. \A s \in seen : TradeTransitions[s] \subseteq seen \ {to}
    BY <1>1, <2>1 DEF SearchInv, Expanded
  <2> DEFINE S == seen \ {to}
  <2>3. S \subseteq Statuses /\ from \in seen /\ from \in Statuses
    BY <1>1 DEF SearchInv
  <2>4. to \in S
    BY <1>1, <2>2, <2>3, ReachableInside
  <2> QED
    BY <2>4
<1>2. SearchInv => SearchCorrect
  BY <1>1 DEF SearchInv, SearchCorrect
<1> QED
  BY <1>2, SearchSound, PTL

(***************************************************************************)
(* It cannot go round in circles: a step that does not answer leaves one   *)
(* status less to be taken from the queue, now or later.                   *)
(***************************************************************************)
SearchDescends ==
  [][answer' = "searching" => Remaining \in Nat /\ Remaining' = Remaining - 1]_searchVars

THEOREM SearchAlwaysDescends == SearchSpec => SearchDescends
<1>1. SearchInv /\ [SearchNext]_searchVars
        => [answer' = "searching" => Remaining \in Nat /\ Remaining' = Remaining - 1]_searchVars
  <2>1. [SearchNext]_searchVars /\ ~UNCHANGED searchVars => answer = "searching"
    BY DEF SearchNext, Found, Expand, Exhausted
  <2> QED
    BY <2>1, SearchStep
<1> QED
  BY <1>1, SearchSound, PTL DEF SearchSpec, SearchDescends

=============================================================================

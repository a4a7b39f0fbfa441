---------------------------- MODULE TradeStates ----------------------------
(***************************************************************************)
(* The trade state machine of backend/internal/domain/trade_state.go: the  *)
(* statuses, the table of transitions that every mutation of a trade's     *)
(* status goes through, and the three-way classification that makes the    *)
(* import of an envelope idempotent.                                       *)
(*                                                                         *)
(* Reachable is a breadth-first search in the code.  Here it is the least  *)
(* set closed under the table, a definition without recursion, so that     *)
(* theorems can be proved about the modules that use it; that the search   *)
(* computes this set is checked by module TradeSearch.                     *)
(***************************************************************************)

OfferPendingExport      == "offer_pending_export"
OfferReceived           == "offer_received"
AcceptancePendingExport == "acceptance_pending_export"
SettlementPendingExport == "settlement_pending_export"
Completed               == "completed"
RefundPendingExport     == "refund_pending_export"
Refunded                == "refunded"
Expired                 == "expired"
Cancelled               == "cancelled"

Statuses == {OfferPendingExport, OfferReceived, AcceptancePendingExport,
             SettlementPendingExport, Completed, RefundPendingExport,
             Refunded, Expired, Cancelled}

TradeTransitions ==
  [s \in Statuses |->
     CASE s = OfferPendingExport      -> {OfferReceived, Expired, Cancelled}
       [] s = OfferReceived           -> {AcceptancePendingExport, Expired, Cancelled}
       [] s = AcceptancePendingExport -> {SettlementPendingExport, RefundPendingExport, Refunded}
       [] s = SettlementPendingExport -> {Completed}
       [] s = RefundPendingExport     -> {Refunded}
       [] s = Expired                 -> {RefundPendingExport}
       [] s = Cancelled               -> {RefundPendingExport}
       [] OTHER                       -> {}]

TransitionAllowed(from, to) == to \in TradeTransitions[from]

\* The buyer has been debited; neither the seller nor the buyer is credited yet.
IsEscrowed(status) == status \in {AcceptancePendingExport, RefundPendingExport}

(***************************************************************************)
(* The statuses reachable from a status in one step or more: those in      *)
(* every set that contains its successors and is closed under the table.   *)
(***************************************************************************)
ClosedUnderSteps(S) == \A s \in S : TradeTransitions[s] \subseteq S

ReachableFrom ==
  [from \in Statuses |->
     {to \in Statuses :
        \A S \in SUBSET Statuses :
          (TradeTransitions[from] \subseteq S /\ ClosedUnderSteps(S)) => to \in S}]

Reachable(from, to) == to \in ReachableFrom[from]

(***************************************************************************)
(* ClassifyStep decides what an envelope means for a trade whose step      *)
(* needs the status pred: apply it, answer that it came too early, or take *)
(* it for a duplicate of a step already passed (or diverged from).         *)
(***************************************************************************)
StepApply     == "apply"
StepDuplicate == "duplicate"
StepTooEarly  == "too_early"

ClassifyStep(status, pred) ==
  CASE status = pred             -> StepApply
    [] status # pred /\ Reachable(status, pred)  -> StepTooEarly
    [] OTHER                     -> StepDuplicate

=============================================================================

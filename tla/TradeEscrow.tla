---------------------------- MODULE TradeEscrow -----------------------------
(***************************************************************************)
(* TradeProtocol implements Escrow: the statuses of a trade tell who holds *)
(* its price, and the accounts are the balances.                           *)
(***************************************************************************)
EXTENDS TradeProtocol

HolderOf(status) ==
  CASE IsEscrowed(status)                                 -> "escrow"
    [] status \in {SettlementPendingExport, Completed}    -> "seller"
    [] status = Refunded                                  -> "refunded"
    [] OTHER                                              -> "nobody"

HoldersIn(d) == [t \in TradeIds |-> HolderOf(Status(d, t))]

Abstract == INSTANCE Escrow WITH holder  <- HoldersIn(db),
                                 balance <- db.accounts

(***************************************************************************)
(* Each accepted price is held, then paid or returned exactly once, and    *)
(* every balance is at all times what the outcomes of the trades make it   *)
(* (AcceptTrade, CreditSeller, ApplyRefund under every interleaving).      *)
(***************************************************************************)
ImplementsEscrow == Abstract!Spec

=============================================================================

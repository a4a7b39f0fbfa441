------------------------------- MODULE Escrow -------------------------------
(***************************************************************************)
(* What the trade protocol promises about money, without envelopes,        *)
(* relays, clocks or statuses.  The price of a trade is with the buyer,    *)
(* then held in escrow once the buyer accepted and can pay; from there it  *)
(* goes to the seller or back to the buyer, once and for all.  At every    *)
(* moment a trader's balance is what the outcomes of the trades say.       *)
(***************************************************************************)
EXTENDS Integers, Money

CONSTANTS Traders, TradeIds, Seller, Buyer, Price, Funding

VARIABLES
  holder,   \* who has the price of each trade
  balance   \* the balance of each trader

Holders == {"nobody", "escrow", "seller", "refunded"}

\* What a trader earned as a seller, and what left the balance as a buyer.
Earned(h, u) == [t \in TradeIds |-> IF h[t] = "seller" /\ Seller[t] = u THEN Price[t] ELSE 0]
Spent(h, u)  == [t \in TradeIds |-> IF h[t] \in {"escrow", "seller"} /\ Buyer[t] = u
                                    THEN Price[t] ELSE 0]

BalanceOf(h, u) == Funding[u] + Total(Earned(h, u)) - Total(Spent(h, u))

Init ==
  /\ holder = [t \in TradeIds |-> "nobody"]
  /\ balance = Funding

Follow == balance' = [u \in Traders |-> BalanceOf(holder', u)]

\* The buyer of a trade accepts, and can pay.
Hold(t) ==
  /\ holder[t] = "nobody"
  /\ balance[Buyer[t]] >= Price[t]
  /\ holder' = [holder EXCEPT ![t] = "escrow"]
  /\ Follow

\* The trades in S are resolved, each for its seller or for its buyer.
Resolve(S) ==
  /\ S # {} /\ \A t \in S : holder[t] = "escrow"
  /\ \E outcome \in [S -> {"seller", "refunded"}] :
       holder' = [t \in TradeIds |-> IF t \in S THEN outcome[t] ELSE holder[t]]
  /\ Follow

Next ==
  \/ \E t \in TradeIds : Hold(t)
  \/ \E S \in SUBSET TradeIds : Resolve(S)

Spec == Init /\ [][Next]_<<holder, balance>>

=============================================================================

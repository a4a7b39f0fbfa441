-------------------------- MODULE MCTradeLiveness --------------------------
(***************************************************************************)
(* An instance of TradeLiveness: one trade, one lost bundle.               *)
(***************************************************************************)
EXTENDS TradeLiveness, TLC

CONSTANTS earth, mars, alice, bob, root, warden, t1, a1

MCHome    == alice :> earth @@ bob :> mars
MCFunding == alice :> 1 @@ bob :> 2
MCManages == root :> {earth, mars} @@ warden :> {mars}
MCSeller  == t1 :> alice
MCBuyer   == t1 :> bob
MCPrice   == t1 :> 2
CrossTrust == {<<earth, mars>>, <<mars, earth>>}

=============================================================================

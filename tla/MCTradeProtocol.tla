-------------------------- MODULE MCTradeProtocol --------------------------
(***************************************************************************)
(* Instances of TradeProtocol for TLC: two colonies with a trader each,    *)
(* who may trade in both directions.                                       *)
(***************************************************************************)
EXTENDS TradeEscrow, TLC

CONSTANTS earth, mars, alice, bob, root, warden, t1, t2, a1, a2

MCHome     == alice :> earth @@ bob :> mars
MCFunding  == alice :> 1 @@ bob :> 2
MCManages  == root :> {earth, mars} @@ warden :> {mars}

\* One trade: bob of mars buys from alice of earth.
OneSeller  == t1 :> alice
OneBuyer   == t1 :> bob
OnePrice   == t1 :> 2

\* Two trades in opposite directions; alice can pay only once bob paid her.
TwoSeller  == t1 :> alice @@ t2 :> bob
TwoBuyer   == t1 :> bob   @@ t2 :> alice
TwoPrice   == t1 :> 1     @@ t2 :> 2

AllTrust   == Colonies \X Colonies
CrossTrust == {<<earth, mars>>, <<mars, earth>>}
MarsTrusts == {<<mars, earth>>}
EarthMay   == {<<earth, mars>>}

\* The pending actions are interchangeable.
ActionSymmetry == Permutations(ActionIds)

=============================================================================

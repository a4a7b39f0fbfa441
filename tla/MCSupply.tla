------------------------------ MODULE MCSupply ------------------------------
(***************************************************************************)
(* An instance of Supply: one colony with two accounts, one of which       *)
(* trades have almost filled; two super admins, an admin of the colony and *)
(* one without authority over it.                                          *)
(***************************************************************************)
EXTENDS Supply, TLC

CONSTANTS earth, alice, bob, root, boss, earthling, martian, a1, a2

MCHome     == alice :> earth @@ bob :> earth
MCManages  == root :> {earth} @@ boss :> {earth} @@
              earthling :> {earth} @@ martian :> {}
MCReceived == alice :> 0 @@ bob :> 4

\* Raise or lower the cap, switch the control, or both.
MCPolicies == {[mintCap |-> 0, dualControl |-> "on"], [mintCap |-> 0, dualControl |-> "off"],
               [mintCap |-> 1, dualControl |-> "keep"], [mintCap |-> 2, dualControl |-> "on"]}

Symmetry == Permutations({a1, a2})

=============================================================================

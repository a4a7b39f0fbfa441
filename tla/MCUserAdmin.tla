---------------------------- MODULE MCUserAdmin -----------------------------
(***************************************************************************)
(* An instance of UserAdmin: four names, three of them in one colony and   *)
(* one in another.                                                         *)
(***************************************************************************)
EXTENDS UserAdmin, TLC

CONSTANTS earth, mars, root, boss, earthling, martian

MCHome == [u \in Users |-> IF u = martian THEN mars ELSE earth]

MCRoleSets == {{"super_admin"}, {"colony_admin"}, {"trader"}}

Symmetry == Permutations({root, boss, earthling})

=============================================================================

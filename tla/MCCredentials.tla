--------------------------- MODULE MCCredentials ----------------------------
(***************************************************************************)
(* An instance of Credentials: two requests at a time.                     *)
(***************************************************************************)
EXTENDS Credentials, TLC

CONSTANTS r1, r2

Symmetry == Permutations({r1, r2})

=============================================================================

----------------------------- MODULE MCCutover ------------------------------
(***************************************************************************)
(* An instance of Cutover: two imports, and first files of every version.  *)
(***************************************************************************)
EXTENDS Cutover

CONSTANTS i1, i2

\* What a server saved after up to n operations.
Saved(n) ==
  LET after[k \in 0 .. n] ==
        IF k = 0 THEN {Empty}
        ELSE after[k - 1] \cup
               {Perform(p[1], p[2]) : p \in {q \in Operations \X after[k - 1] : Possible(q[1], q[2])}}
  IN {Indented(s) : s \in after[n]}

\* Of a version without last_ledger_hash, or minted_total, or both.
Older(s) ==
  {[s EXCEPT !.head = NoHash], [s EXCEPT !.minted = 0], [s EXCEPT !.head = NoHash, !.minted = 0]}

MCFirstFiles == {None} \cup Saved(3) \cup UNION {Older(s) : s \in Saved(3)}

=============================================================================

------------------------------- MODULE Money -------------------------------
(***************************************************************************)
(* Sums of amounts of money.  An amount is a natural number of units, and  *)
(* the total of a function of amounts is the number of units it stands     *)
(* for.  Counting units instead of folding + over the domain gives a       *)
(* definition without recursion, whose laws follow from the cardinality    *)
(* theorems of the library (module MoneyTheorems).                         *)
(***************************************************************************)
EXTENDS Integers, FiniteSets

Units(f) == UNION {{x} \X (1..f[x]) : x \in DOMAIN f}

Total(f) == Cardinality(Units(f))

=============================================================================

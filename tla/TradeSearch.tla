---------------------------- MODULE TradeSearch -----------------------------
(***************************************************************************)
(* The breadth-first search behind domain.Reachable, one dequeued status   *)
(* per step, for every pair of statuses.                                   *)
(***************************************************************************)
EXTENDS TradeStates, SequencesExt

VARIABLES from, to, seen, queue, answer

searchVars == <<from, to, seen, queue, answer>>

SearchInit ==
  /\ from \in Statuses /\ to \in Statuses
  /\ seen = {from}
  /\ queue = <<from>>
  /\ answer = "searching"

Successors == TradeTransitions[Head(queue)]

\* Mutant: the status taken from the queue is compared, not its successors.
HitsSelf == to = Head(queue)

Hits == to \in Successors

Found ==
  /\ answer = "searching" /\ queue # <<>>
  /\ Hits
  /\ answer' = "yes"
  /\ UNCHANGED <<from, to, seen, queue>>

Rest == Tail(queue) \o SetToSeq(Successors \ seen)

Expand ==
  /\ answer = "searching" /\ queue # <<>>
  /\ ~Hits
  /\ seen' = seen \cup Successors
  /\ queue' = Rest
  /\ UNCHANGED <<from, to, answer>>

Exhausted ==
  /\ answer = "searching" /\ queue = <<>>
  /\ answer' = "no"
  /\ UNCHANGED <<from, to, seen, queue>>

SearchNext == Found \/ Expand \/ Exhausted

SearchSpec == SearchInit /\ [][SearchNext]_searchVars

-----------------------------------------------------------------------------
\* The search answers what the closure of the table says (Reachable).
SearchCorrect ==
  /\ answer = "yes" => Reachable(from, to)
  /\ answer = "no"  => ~Reachable(from, to)

=============================================================================

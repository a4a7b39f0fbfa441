------------------------------- MODULE Ledger -------------------------------
(***************************************************************************)
(* The hash chain of a colony's ledger beside the money it tells of, the   *)
(* forms in which both are stored, and the checks and repairs of a state   *)
(* file (service/common.go, storage/store.go and pg_migrate.go).  One      *)
(* colony and one account: the chains of colonies do not meet.             *)
(***************************************************************************)
EXTENDS Integers, Sequences, Money

CONSTANTS
  Amounts, \* bound: what can be minted at a time
  Price,   \* of the trades that are accepted
  MaxSeq   \* bound: on the ledger

ASSUME LedgerAssumption ==
  Amounts \subseteq Nat \ {0} /\ Price \in Nat \ {0} /\ MaxSeq \in Nat

\* The payload is raw JSON, laid out "compact" or "indented"; the hash covers
\* its bytes.  SHA-256 has no collisions here: a hash is what it was made of.
HashLedgerEntry(seq, typ, amount, layout, prev) == <<seq, typ, amount, layout, prev>>

NoHash == <<>>

\* Before anything was created.
Empty == [ledger |-> <<>>, next |-> 0, head |-> NoHash, minted |-> 0, balance |-> 0, escrow |-> 0]

LastHash(ledger) == IF ledger = <<>> THEN NoHash ELSE ledger[Len(ledger)].hash

\* The ledger may be empty here when the stored one is not: the PostgreSQL store
\* does not load it.
AppendLedger(s, typ, amount) ==
  LET prev  == IF s.head = NoHash THEN LastHash(s.ledger) ELSE s.head
      entry == [seq |-> s.next + 1, prev |-> prev, typ |-> typ, amount |-> amount, layout |-> "compact",
                hash |-> HashLedgerEntry(s.next + 1, typ, amount, "compact", prev)]
  IN [s EXCEPT !.ledger = Append(@, entry), !.next = @ + 1, !.head = entry.hash]

-----------------------------------------------------------------------------
\* What requests do: create the colony, mint an amount, or accept a trade.  A
\* request that is refused changes nothing, and is not modelled.
Operations ==
  [kind : {"create"}, amount : {0}] \cup [kind : {"mint"}, amount : Amounts]
    \cup [kind : {"accept"}, amount : {Price}]

Possible(op, s) ==
  /\ s.next < MaxSeq
  /\ op.kind = "create" <=> s.next = 0
  /\ op.kind = "accept" => s.balance >= op.amount

Perform(op, s) ==
  CASE op.kind = "create" -> AppendLedger(s, "colony_created", 0)
    [] op.kind = "mint" ->
         AppendLedger([s EXCEPT !.minted = @ + op.amount, !.balance = @ + op.amount], "funds_minted", op.amount)
    [] op.kind = "accept" ->
         AppendLedger([s EXCEPT !.balance = @ - op.amount, !.escrow = @ + op.amount], "trade_accepted", op.amount)

-----------------------------------------------------------------------------
LaidOut(s, layout) ==
  [s EXCEPT !.ledger = [i \in DOMAIN s.ledger |-> [s.ledger[i] EXCEPT !.layout = layout]]]

\* json.Marshal compacts raw payloads, MarshalIndent lays them out again.
CloneJSON(s) == LaidOut(s, "compact")
Indented(s)  == LaidOut(s, "indented")

NormalizeRawPayloads(s) == LaidOut(s, "compact")

\* What the ledger says was minted.
MintedIn(ledger) ==
  Total([i \in DOMAIN ledger |-> IF ledger[i].typ = "funds_minted" THEN ledger[i].amount ELSE 0])

BackfillMintedTotals(s) == IF s.minted = 0 THEN [s EXCEPT !.minted = MintedIn(s.ledger)] ELSE s

BackfillLedgerHeads(s) == IF s.head = NoHash THEN [s EXCEPT !.head = LastHash(s.ledger)] ELSE s

\* Mutant: the head is left to appendLedger, which finds the last entry.
LoadHeadless(file) == BackfillMintedTotals(NormalizeRawPayloads(file))

\* NewStore and LoadStateFile, of a file that exists.
Load(file) == BackfillLedgerHeads(BackfillMintedTotals(NormalizeRawPayloads(file)))

Verifies(ledger) ==
  \A i \in DOMAIN ledger :
    /\ ledger[i].seq = i
    /\ ledger[i].prev = IF i = 1 THEN NoHash ELSE ledger[i - 1].hash
    /\ ledger[i].hash = HashLedgerEntry(ledger[i].seq, ledger[i].typ, ledger[i].amount,
                                        ledger[i].layout, ledger[i].prev)

VerifyStateIntegrity(s) ==
  /\ Verifies(s.ledger)
  /\ s.next = Len(s.ledger)
  /\ s.balance >= 0
  /\ s.balance + s.escrow = s.minted

=============================================================================

---------------------------- MODULE TradeRestore ----------------------------
(***************************************************************************)
(* The trade protocol with backups.  An operator saves the whole store,    *)
(* and may later stop the server and put the saved state back, as the      *)
(* runbook says.  What the relays hold is not rolled back: envelopes of    *)
(* the lost history meet trades that are younger than they are.            *)
(*                                                                         *)
(* Identifiers are random, so those of the lost history are never drawn    *)
(* again: issued keeps counting.                                           *)
(***************************************************************************)
EXTENDS TradeProtocol

CONSTANT MaxRestores   \* bound: times a backup is put back

ASSUME RestoreAssumption == MaxRestores \in Nat

VARIABLES
  backup,    \* the saved state
  restores   \* how many times it was put back

restoreVars == <<db, tx, relay, clock, losses, backup, restores>>

RestoreInit == Init /\ backup = db /\ restores = 0

Backup ==
  /\ restores < MaxRestores
  /\ backup' = db
  /\ UNCHANGED <<db, tx, relay, clock, losses, restores>>

\* The server is stopped, which ends an import in progress.
Restore ==
  /\ restores < MaxRestores
  /\ restores' = restores + 1
  /\ db' = [backup EXCEPT !.issued = db.issued]
  /\ tx' = Idle
  /\ UNCHANGED <<relay, clock, losses, backup>>

RestoreNext ==
  \/ Next /\ UNCHANGED <<backup, restores>>
  \/ Backup
  \/ Restore

RestoreSpec == RestoreInit /\ [][RestoreNext]_restoreVars

-----------------------------------------------------------------------------
(***************************************************************************)
(* Envelopes of a lost history decide nothing: apart from the restore      *)
(* itself, an acceptance in flight is still resolved by the seller colony  *)
(* or by two admins only, and never by a refund the seller colony no       *)
(* longer remembers having decided.                                        *)
(***************************************************************************)
Undecided(d, t) == Status(d, t) = AcceptancePendingExport

SellerStillDecides ==
  [][restores' = restores =>
       /\ DecidedBySeller
       /\ \A t \in TradeIds : (Undecided(db, t) /\ Status(db', t) = Refunded)
                                => ForcedByTwo(t)]_restoreVars

=============================================================================

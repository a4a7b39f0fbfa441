------------------------------ MODULE Cutover -------------------------------
(***************************************************************************)
(* The life of a state: a server on the state file, then the migration of  *)
(* the file into PostgreSQL (ImportState), which an operator starts while  *)
(* the server is stopped (compose.postgres.yml) and may start twice, then  *)
(* the servers on the database, which keep the ledger going without ever   *)
(* loading it.  A transaction of the database is one step (PgStore).       *)
(***************************************************************************)
EXTENDS StateFile

CONSTANT Imports \* the processes that run --migrate-state-from

VARIABLES
  target,  \* the database
  stage,   \* where each import is
  carried  \* the state it read

vars == <<file, tmp, mem, work, step, acked, target, stage, carried>>

\* The database has no users and no colonies.
Vacant(s) == s.next = 0

Init ==
  /\ FileInit
  /\ target = Empty
  /\ stage = [i \in Imports |-> "idle"]
  /\ carried = [i \in Imports |-> None]

\* The server on the file is not started beside an import, or after one.
FileServer ==
  /\ \/ /\ \A i \in Imports : stage[i] \in {"idle", "refused"}
        /\ Open \/ Create
     \/ \E op \in Operations : Update(op)
     \/ Write \/ Rename \/ Install \/ SaveFails \/ Crash
  /\ UNCHANGED <<target, stage, carried>>

\* LoadStateFile
ReadFile(i) ==
  /\ stage[i] = "idle" /\ step = "down" /\ file # None
  /\ carried' = [carried EXCEPT ![i] = Load(file)]
  /\ stage' = [stage EXCEPT ![i] = "read"]
  /\ UNCHANGED <<fileVars, target>>

\* ImportState: the state verifies, and the database, in the snapshot of a
\* serializable transaction, is empty.
Begin(i) ==
  /\ stage[i] = "read"
  /\ VerifyStateIntegrity(carried[i]) /\ Vacant(target)
  /\ stage' = [stage EXCEPT ![i] = "insert"]
  /\ UNCHANGED <<fileVars, target, carried>>

\* Mutant: the database was empty when the import began.
CommitBlindly(i) ==
  /\ stage[i] = "insert"
  /\ target' = carried[i]
  /\ stage' = [stage EXCEPT ![i] = "imported"]
  /\ UNCHANGED <<fileVars, carried>>

\* It commits, unless another one did since.
CommitImport(i) ==
  /\ stage[i] = "insert" /\ Vacant(target)
  /\ target' = carried[i]
  /\ stage' = [stage EXCEPT ![i] = "imported"]
  /\ UNCHANGED <<fileVars, carried>>

\* It is refused: by a check, or for the rows another import inserted.
RefuseImport(i) ==
  /\ \/ stage[i] = "read" /\ ~(VerifyStateIntegrity(carried[i]) /\ Vacant(target))
     \/ stage[i] = "insert" /\ ~Vacant(target)
  /\ stage' = [stage EXCEPT ![i] = "refused"]
  /\ UNCHANGED <<fileVars, target, carried>>

\* It fails, or is killed: the transaction is rolled back, and the operator may
\* start another one.
AbandonImport(i) ==
  /\ stage[i] \in {"read", "insert"}
  /\ stage' = [stage EXCEPT ![i] = "idle"]
  /\ UNCHANGED <<fileVars, target, carried>>

\* A request on the database, which servers use once it was imported into: the
\* header and the accounts are loaded, the ledger is not, and what is appended
\* is inserted behind what is there.
Serve(op) ==
  /\ \E i \in Imports : stage[i] = "imported"
  /\ Possible(op, target)
  /\ LET new == Perform(op, [target EXCEPT !.ledger = <<>>]) IN
       /\ target' = [new EXCEPT !.ledger = target.ledger \o new.ledger]
       /\ acked' = target'
  /\ UNCHANGED <<file, tmp, mem, work, step, stage, carried>>

Next ==
  \/ FileServer
  \/ \E i \in Imports :
       ReadFile(i) \/ Begin(i) \/ CommitImport(i) \/ RefuseImport(i) \/ AbandonImport(i)
  \/ \E op \in Operations : Serve(op)

Spec == Init /\ [][Next]_vars

-----------------------------------------------------------------------------
TypeOK ==
  /\ step \in {"down", "idle", "write", "rename", "install"}
  /\ stage \in [Imports -> {"idle", "read", "insert", "imported", "refused"}]
  /\ tmp \in {None, Torn} \/ IsState(tmp)
  /\ \A s \in {file, mem, work} \cup {carried[i] : i \in Imports} : s = None \/ IsState(s)
  /\ IsState(target) /\ IsState(acked)

(***************************************************************************)
(* What the server answers from is what it would find after a restart,     *)
(* except in the instant between the rename and its answer; a failed       *)
(* update leaves both alone.                                               *)
(***************************************************************************)
MemoryIsFile == mem # None /\ step # "install" => mem = Load(file)

(***************************************************************************)
(* Every state, in memory, in the file once it is loaded, and in the       *)
(* database, would pass the checks of the migration: its ledger is a hash  *)
(* chain without gaps, and the money in accounts and in escrow is what was *)
(* minted.  It holds across versions, layouts, crashes and the migration.  *)
(***************************************************************************)
StateVerifies ==
  /\ file # None => VerifyStateIntegrity(Load(file))
  /\ mem # None => VerifyStateIntegrity(mem)
  /\ VerifyStateIntegrity(target)

(***************************************************************************)
(* What clients were once told stays in the ledger, in its place: through  *)
(* failed writes, crashes, restarts, imports that are abandoned, repeated  *)
(* or run beside each other, and on the database.                          *)
(***************************************************************************)
NothingAckedIsLost == [][IsPrefix(acked.ledger, acked'.ledger)]_vars

=============================================================================

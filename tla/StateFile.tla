----------------------------- MODULE StateFile ------------------------------
(***************************************************************************)
(* The file store (storage/store.go and SaveJSONAtomic): the state in      *)
(* memory, and a JSON file that is replaced as a whole at every update.    *)
(* Updates have the lock of the store, so there is one at a time; the      *)
(* process may be killed between any two steps, and writes may fail.       *)
(* The page cache survives a crash of the process: a power failure, after  *)
(* which a file that was not synced may be empty, is not modelled.         *)
(***************************************************************************)
EXTENDS Ledger, SequencesExt

CONSTANT FirstFiles \* what the first server finds: no file, or one of an older version

VARIABLES
  file,  \* the state file
  tmp,   \* the file it is replaced by
  mem,   \* the state in memory
  work,  \* the copy an update works on
  step,  \* where the update is, or "down"
  acked  \* what clients were told last, for good or at a restart

fileVars == <<file, tmp, mem, work, step, acked>>

None == [missing |-> TRUE] \* no file, or nothing in memory
Torn == [missing |-> FALSE] \* half a file

(***************************************************************************)
(* What is stored anywhere is a whole state: only the file that replaces   *)
(* the other one may be half written.                                      *)
(***************************************************************************)
IsEntry(e) ==
  /\ DOMAIN e = {"seq", "prev", "typ", "amount", "layout", "hash"}
  /\ e.typ \in {"colony_created", "funds_minted", "trade_accepted"} /\ e.amount \in Nat
  /\ e.layout \in {"compact", "indented"}

IsState(s) ==
  /\ DOMAIN s = DOMAIN Empty
  /\ s.ledger \in Seq(Range(s.ledger)) /\ \A e \in Range(s.ledger) : IsEntry(e)
  /\ {s.next, s.minted, s.escrow} \subseteq Nat /\ s.balance \in Int

\* The first files are intact, but the fields that older versions did not have
\* may be missing.
ASSUME FirstFilesAssumption ==
  \A f \in FirstFiles \ {None} :
    /\ IsState(f) /\ VerifyStateIntegrity(Load(f))
    /\ f.head \in {NoHash, LastHash(f.ledger)}
    /\ f.minted \in {0, MintedIn(f.ledger)}

FileInit ==
  /\ file \in FirstFiles
  /\ tmp = None /\ mem = None /\ work = None /\ step = "down"
  /\ acked = IF file = None THEN Empty ELSE Load(file)

\* NewStore: of a file that exists, its state; the file stays as it is.
Open ==
  /\ step = "down" /\ file # None
  /\ mem' = Load(file) /\ acked' = Load(file)
  /\ step' = "idle"
  /\ UNCHANGED <<file, tmp, work>>

\* NewStore: without a file, an empty state, which is saved first.
Create ==
  /\ step = "down" /\ file = None
  /\ work' = Empty
  /\ step' = "write"
  /\ UNCHANGED <<file, tmp, mem, acked>>

\* Mutant: the function works on the state itself.
UpdateInPlace(op) ==
  /\ step = "idle" /\ Possible(op, mem)
  /\ work' = Perform(op, mem) /\ mem' = work'
  /\ step' = "write"
  /\ UNCHANGED <<file, tmp, acked>>

\* StoreUpdateScoped, up to the end of the function.
Update(op) ==
  /\ step = "idle" /\ Possible(op, mem)
  /\ work' = Perform(op, CloneJSON(mem))
  /\ step' = "write"
  /\ UNCHANGED <<file, tmp, mem, acked>>

\* os.WriteFile of the temporary file.
Write ==
  /\ step = "write"
  /\ tmp' = Indented(work)
  /\ step' = "rename"
  /\ UNCHANGED <<file, mem, work, acked>>

\* Mutant: whatever os.WriteFile answered.
RenameUnwritten ==
  /\ step \in {"write", "rename"} /\ tmp # None
  /\ file' = tmp /\ tmp' = None
  /\ step' = "install"
  /\ UNCHANGED <<mem, work, acked>>

Rename ==
  /\ step = "rename"
  /\ file' = tmp /\ tmp' = None
  /\ step' = "install"
  /\ UNCHANGED <<mem, work, acked>>

\* The update succeeds.
Install ==
  /\ step = "install"
  /\ mem' = work /\ acked' = work /\ work' = None
  /\ step' = "idle"
  /\ UNCHANGED <<file, tmp>>

\* A write, which may leave half a file, or the rename failed, and the update
\* with it; a server that has nothing yet gives up.
SaveFails ==
  /\ step \in {"write", "rename"}
  /\ \/ step = "write" /\ tmp' = Torn
     \/ tmp' = tmp
  /\ work' = None
  /\ step' = IF mem = None THEN "down" ELSE "idle"
  /\ UNCHANGED <<file, mem, acked>>

\* The process is killed, or stopped.
Crash ==
  /\ step # "down"
  /\ \/ step = "write" /\ tmp' = Torn
     \/ tmp' = tmp
  /\ mem' = None /\ work' = None
  /\ step' = "down"
  /\ UNCHANGED <<file, acked>>

=============================================================================

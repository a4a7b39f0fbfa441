------------------------------ MODULE PgStore -------------------------------
(***************************************************************************)
(* The transactions of the PostgreSQL store (storage/pg_store.go,          *)
(* pg_load.go and pg_persist.go).  A request discovers the rows it needs,  *)
(* locks them table by table, runs its function on what it read, writes    *)
(* the differences, and commits; the victim of a deadlock starts again.    *)
(* Every statement is a step of its own, and every row lock.  Reads, which *)
(* have a snapshot and no lock, are not modelled: they are single steps.   *)
(***************************************************************************)
EXTENDS StoreRequests, FiniteSets

CONSTANTS
  NoRequest,
  MaxAttempts,  \* the attempts of run
  MaxOpenConns, \* the connections of the pool
  Workloads     \* bound: the requests that may be made in one behaviour

ASSUME StoreAssumption ==
  /\ NoRequest \notin Requests
  /\ Workloads \subseteq SUBSET Requests
  /\ IsFiniteSet(Requests)
  /\ MaxAttempts \in Nat \ {0} /\ MaxOpenConns \in Nat \ {0}

VARIABLES
  issued,  \* the requests that are made
  db,      \* the committed tables
  pc,      \* the statement of each request
  todo,    \* the rows its statement has yet to lock
  seen,    \* what it loaded
  holder,  \* who holds the lock of each row
  attempt, \* the attempts each request has failed
  reply    \* what each request was told

vars == <<issued, db, pc, todo, seen, holder, attempt, reply>>

Replies == {"none", "ok", "refused", "error"}
Locking == {"lock", "rows", "sessions", "prune"}
Places  == Locking \cup {"idle", "commit", "done"}

Sc(r) == Scope(Req[r])

Init ==
  /\ issued \in Workloads
  /\ db \in InitialTables
  /\ pc = [r \in Requests |-> "idle"]
  /\ todo = [r \in Requests |-> {}]
  /\ seen = [r \in Requests |-> Nothing]
  /\ holder = [x \in Rows |-> NoRequest]
  /\ attempt = [r \in Requests |-> 0]
  /\ reply = [r \in Requests |-> "none"]

-----------------------------------------------------------------------------
\* BeginTx on a connection of the pool, and the advisory lock if the scope has
\* one.  Login and reset found the user before they came here.
Begin(r) ==
  /\ pc[r] = "idle" /\ r \in issued
  /\ Req[r].kind \in {"login", "reset"} => Stored(db, Req[r].user)
  /\ Cardinality({s \in Requests : pc[s] \notin {"idle", "done"}}) < MaxOpenConns
  /\ pc' = [pc EXCEPT ![r] = "lock"]
  /\ todo' = [todo EXCEPT ![r] = IF Sc(r).lock THEN {AdvisoryLock} ELSE {}]
  /\ UNCHANGED <<issued, db, seen, holder, attempt, reply>>

\* The order of the statements, and within each the order of the ids.
Table(x) == CASE x = AdvisoryLock -> 0 [] x \in Colonies -> 1 [] x \in Users -> 2
              [] x \in Trades -> 3 [] OTHER -> 4

Before(x, y) == Table(x) < Table(y) \/ (Table(x) = Table(y) /\ x < y)

\* Mutant: SELECT ... FOR UPDATE without ORDER BY.
TurnUnordered(r) == todo[r]

\* The rows a request may lock next: a DELETE meets rows in any order.
Turn(r) ==
  IF pc[r] = "prune" THEN todo[r] ELSE {x \in todo[r] : \A y \in todo[r] \ {x} : Before(x, y)}

\* Mutant: SELECT without FOR UPDATE, except of what is deleted.
LockNothing(r, x) ==
  /\ pc[r] \in Locking /\ x \in Turn(r)
  /\ holder[x] \in {NoRequest, r}
  /\ holder' = IF pc[r] = "prune" /\ Stored(db, x) THEN [holder EXCEPT ![x] = r] ELSE holder
  /\ todo' = [todo EXCEPT ![r] = @ \ {x}]
  /\ seen' = IF pc[r] = "prune" THEN seen ELSE [seen EXCEPT ![r] = With(@, x, db.doc[x])]
  /\ UNCHANGED <<issued, db, pc, attempt, reply>>

\* A row that was deleted before its turn is not there to be locked.  What is
\* pruned is not loaded.
Lock(r, x) ==
  /\ pc[r] \in Locking /\ x \in Turn(r)
  /\ holder[x] \in {NoRequest, r}
  /\ holder' = IF Stored(db, x) THEN [holder EXCEPT ![x] = r] ELSE holder
  /\ todo' = [todo EXCEPT ![r] = @ \ {x}]
  /\ seen' = IF pc[r] = "prune" THEN seen ELSE [seen EXCEPT ![r] = With(@, x, db.doc[x])]
  /\ UNCHANGED <<issued, db, pc, attempt, reply>>

\* The users and colonies of the rows in scope, by relations that never change.
\* Any one user will do for AllUsers, which only bootstrap asks for in a write.
Discovered(r) ==
  LET sc     == Sc(r)
      actors == {Owner[t] : t \in {s \in sc.tokens : SignedIn(db, s)}}
      named  == {u \in Users : Stored(db, u) /\ Name[u] \in sc.usernames}
      rows   == sc.users \cup actors \cup named \cup sc.trades \cup sc.colonies
                  \cup UNION {Parties[t] \cup Between[t] : t \in sc.trades}
      all    == {u \in Users : Stored(db, u)}
  IN IF sc.allUsers /\ all # {} THEN {rows \cup {u} : u \in all} ELSE {rows}

\* What it discovers is locked, colonies before users before trades.  These
\* rows are never deleted, so where one SELECT ends cannot be seen.
Discover(r) ==
  /\ pc[r] = "lock" /\ todo[r] = {}
  /\ pc' = [pc EXCEPT ![r] = "rows"]
  /\ \E rows \in Discovered(r) : todo' = [todo EXCEPT ![r] = rows]
  /\ UNCHANGED <<issued, db, seen, holder, attempt, reply>>

SessionsInScope(r) ==
  {t \in Tokens : Stored(db, t) /\ (t \in Sc(r).tokens \/ Owner[t] \in Sc(r).userSessions)}

SelectSessions(r) ==
  /\ pc[r] = "rows" /\ todo[r] = {}
  /\ pc' = [pc EXCEPT ![r] = "sessions"]
  /\ todo' = [todo EXCEPT ![r] = SessionsInScope(r)]
  /\ UNCHANGED <<issued, db, seen, holder, attempt, reply>>

\* What is stored under the locked colonies, without locks of its own; then, if
\* the scope says so, expired sessions are deleted, anybody's.
SelectChildren(r) ==
  /\ pc[r] = "sessions" /\ todo[r] = {}
  /\ pc' = [pc EXCEPT ![r] = "prune"]
  /\ todo' = [todo EXCEPT ![r] = IF Sc(r).prune THEN {t \in Expired : Stored(db, t)} ELSE {}]
  /\ seen' = [seen EXCEPT ![r].processed =
                [c \in Colonies |-> IF c \in Sc(r).colonies THEN db.processed[c] ELSE {}]]
  /\ UNCHANGED <<issued, db, holder, attempt, reply>>

\* The state is loaded, and the function runs on it.
Loaded(r) == pc[r] = "prune" /\ todo[r] = {}

-----------------------------------------------------------------------------
\* The transaction is over, and its locks are released.
End(r) ==
  /\ holder' = [x \in Rows |-> IF holder[x] = r THEN NoRequest ELSE holder[x]]
  /\ todo' = [todo EXCEPT ![r] = {}]
  /\ seen' = [seen EXCEPT ![r] = Nothing]

Answer(r, answer) ==
  /\ End(r)
  /\ issued' = issued
  /\ pc' = [pc EXCEPT ![r] = "done"]
  /\ reply' = [reply EXCEPT ![r] = answer]
  /\ UNCHANGED attempt

\* Mutant: an error of the function returns without a rollback.
RefuseHolding(r) ==
  /\ Loaded(r) /\ ~Allowed(Req[r], seen[r])
  /\ pc' = [pc EXCEPT ![r] = "done"]
  /\ reply' = [reply EXCEPT ![r] = "refused"]
  /\ UNCHANGED <<issued, db, todo, seen, holder, attempt>>

\* The function returned an error.
Refuse(r) ==
  /\ Loaded(r) /\ ~Allowed(Req[r], seen[r])
  /\ Answer(r, "refused") /\ db' = db

\* The names a request inserts into the users, which are unique.
Inserts(r) == IF Req[r].kind \in {"create", "bootstrap"} THEN {Name[Req[r].user]} ELSE {}

\* The function succeeded and persist wrote the differences, to be seen by
\* others at the commit; an insert waits for an uncommitted one of the same name.
Persist(r) ==
  /\ Loaded(r) /\ Allowed(Req[r], seen[r])
  /\ \A name \in Inserts(r) : ~NameTaken(db, name)
  /\ \A s \in Requests : pc[s] = "commit" => Inserts(s) \cap Inserts(r) = {}
  /\ pc' = [pc EXCEPT ![r] = "commit"]
  /\ UNCHANGED <<issued, db, todo, seen, holder, attempt, reply>>

\* persist met a name that was committed first: 23505, a conflict (mapPGError).
Conflict(r) ==
  /\ Loaded(r) /\ Allowed(Req[r], seen[r])
  /\ \E name \in Inserts(r) : NameTaken(db, name)
  /\ Answer(r, "refused") /\ db' = db

\* The differences: the docs that changed, what was pruned, and what is new
\* under the colonies.
Written(r) ==
  LET new == Effect(r, seen[r]) IN
  [doc |-> [x \in Rows |->
       IF Sc(r).prune /\ x \in Expired /\ holder[x] = r THEN Absent
       ELSE IF new.doc[x] # seen[r].doc[x] THEN new.doc[x] ELSE db.doc[x]],
   processed |-> [c \in Colonies |-> db.processed[c] \cup (new.processed[c] \ seen[r].processed[c])],
   ledger |-> [c \in Colonies |-> db.ledger[c] \cup new.ledger[c]]]

\* The answer may be lost: then the request fails with its effects in place.
Commit(r) ==
  /\ pc[r] = "commit"
  /\ db' = Written(r)
  /\ \E answer \in {"ok", "error"} : Answer(r, answer)

-----------------------------------------------------------------------------
\* The timeout of the transaction, or a lost connection; it is rolled back.
Fail(r) ==
  /\ pc[r] \notin {"idle", "done"}
  /\ Answer(r, "error") /\ db' = db

\* Requests with rows to lock; any of them that wait for one another, because
\* whatever each may lock next is held by another one.
Queuing == {r \in Requests : todo[r] # {}}

Deadlocked(S) ==
  S # {} /\ \A r \in S : \A x \in Turn(r) : holder[x] \in S \ {r}

\* Mutant: one attempt too many.
VictimAgain(r) ==
  /\ \E S \in SUBSET Queuing : r \in S /\ Deadlocked(S)
  /\ db' = db
  /\ IF attempt[r] < MaxAttempts
     THEN /\ End(r) /\ issued' = issued
          /\ pc' = [pc EXCEPT ![r] = "idle"]
          /\ attempt' = [attempt EXCEPT ![r] = @ + 1]
          /\ UNCHANGED reply
     ELSE Answer(r, "error")

\* 40P01 is retryable: run rolls back and starts again, up to a number of times.
Victim(r) ==
  /\ \E S \in SUBSET Queuing : r \in S /\ Deadlocked(S)
  /\ db' = db
  /\ IF attempt[r] + 1 < MaxAttempts
     THEN /\ End(r) /\ issued' = issued
          /\ pc' = [pc EXCEPT ![r] = "idle"]
          /\ attempt' = [attempt EXCEPT ![r] = @ + 1]
          /\ UNCHANGED reply
     ELSE Answer(r, "error")

Step(r) ==
  \/ Begin(r) \/ Discover(r)
  \/ SelectSessions(r) \/ SelectChildren(r)
  \/ \E x \in todo[r] : Lock(r, x)
  \/ Refuse(r) \/ Persist(r) \/ Conflict(r) \/ Commit(r)

Next == \E r \in Requests : Step(r) \/ Victim(r) \/ Fail(r)

Spec == Init /\ [][Next]_vars

\* While a request can go on, or PostgreSQL can break a deadlock, something does.
FairSpec == Spec /\ WF_vars(\E r \in Requests : Step(r) \/ Victim(r))

-----------------------------------------------------------------------------
\* The variables have their types.
TypeOK ==
  /\ issued \in Workloads
  /\ db \in Tables
  /\ pc \in [Requests -> Places]
  /\ todo \in [Requests -> SUBSET Rows]
  /\ seen \in [Requests -> Tables]
  /\ holder \in [Rows -> Requests \cup {NoRequest}]
  /\ attempt \in [Requests -> 0 .. MaxAttempts - 1]
  /\ reply \in [Requests -> Replies]

Atomic == INSTANCE AtomicStore

(***************************************************************************)
(* However transactions interleave, wait, fail and start again, each one   *)
(* acts in one step, on all the data as it then is, at most once, and tells*)
(* the truth (run: "committed atomically; any error rolls the whole        *)
(* request back"; the lost answer of a commit is the exception).           *)
(***************************************************************************)
ImplementsAtomicStore == Atomic!Spec

(***************************************************************************)
(* load: "Lock order is always: advisory -> colonies (sorted) -> users ->  *)
(* trades -> actions -> sessions -> accounts, so concurrent requests can   *)
(* never deadlock".                                                        *)
(***************************************************************************)
NoDeadlock == \A S \in SUBSET Queuing : ~Deadlocked(S)

(***************************************************************************)
(* What is true of it: the order keeps every request from a deadlock that  *)
(* does not prune sessions; at least one login is part of each.            *)
(***************************************************************************)
OnlyPruningDeadlocks ==
  \A S \in SUBSET Queuing : Deadlocked(S) => \E r \in S : Sc(r).prune

(***************************************************************************)
(* Every request that begins is told something: no lock outlives its       *)
(* transaction, and a deadlock ends with the attempts of run.              *)
(***************************************************************************)
EveryRequestEnds ==
  <>[](\A r \in Requests : reply[r] # "none" \/ (pc[r] = "idle" /\ attempt[r] = 0))

=============================================================================

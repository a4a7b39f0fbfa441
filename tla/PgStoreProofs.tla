--------------------------- MODULE PgStoreProofs ----------------------------
(***************************************************************************)
(* That the transactions of the PostgreSQL store act like the steps of     *)
(* AtomicStore, and that whoever prunes no sessions is in no deadlock of   *)
(* its own: for every set of requests, rows, connections and attempts.     *)
(*                                                                         *)
(* The invariant says of each request what the statements behind it have   *)
(* established and others cannot undo: what it read is locked and still    *)
(* so, and what it found missing is still missing.                         *)
(***************************************************************************)
EXTENDS PgStore, FiniteSetTheorems, WellFoundedInduction, TLAPS

-----------------------------------------------------------------------------
(***************************************************************************)
(* What the requests are.                                                  *)
(***************************************************************************)
Kinds == {"login", "reset", "bootstrap", "create", "accept", "import"}

\* Every request is of one of six kinds, and has the fields of its kind.
LEMMA RequestKinds ==
  ASSUME NEW r \in Requests
  PROVE  /\ Req[r].kind \in Kinds
         /\ Req[r].kind = "login" => Req[r].user \in Users /\ Req[r].token \in Tokens
         /\ Req[r].kind = "reset" => Req[r].user \in Users
         /\ Req[r].kind = "bootstrap" => Req[r].user \in Users /\ Req[r].token \in Tokens
         /\ Req[r].kind = "create" =>
              Req[r].token \in Tokens /\ Req[r].user \in Users /\ Req[r].colony \in Colonies
         /\ Req[r].kind = "accept" => Req[r].token \in Tokens /\ Req[r].trade \in Trades
         /\ Req[r].kind = "import" =>
              /\ Req[r].token \in Tokens /\ Req[r].colony \in Colonies
              /\ Req[r].from \in Colonies /\ Req[r].envelope \in Envelopes
<1> DEFINE q == Req[r]
<1>1. q \in LoginRequest \cup ResetRequest \cup BootstrapRequest
              \cup CreateRequest \cup AcceptRequest \cup ImportRequest
  BY RequestAssumption
<1> HIDE DEF q
<1>2. CASE q \in LoginRequest
  BY <1>2 DEF LoginRequest, Kinds, q
<1>3. CASE q \in ResetRequest
  BY <1>3 DEF ResetRequest, Kinds, q
<1>4. CASE q \in BootstrapRequest
  BY <1>4 DEF BootstrapRequest, Kinds, q
<1>5. CASE q \in CreateRequest
  BY <1>5 DEF CreateRequest, Kinds, q
<1>6. CASE q \in AcceptRequest
  BY <1>6 DEF AcceptRequest, Kinds, q
<1>7. CASE q \in ImportRequest
  BY <1>7 DEF ImportRequest, Kinds, q
<1> QED
  BY <1>1, <1>2, <1>3, <1>4, <1>5, <1>6, <1>7

\* The scope of each kind of request.
LEMMA Scopes ==
  ASSUME NEW r \in Requests
  PROVE  /\ Sc(r).lock = (Req[r].kind = "bootstrap")
         /\ Sc(r).allUsers = (Req[r].kind = "bootstrap")
         /\ Sc(r).prune = (Req[r].kind = "login")
         /\ Sc(r).users = IF Req[r].kind \in {"login", "reset"} THEN {Req[r].user} ELSE {}
         /\ Sc(r).userSessions = IF Req[r].kind \in {"login", "reset"} THEN {Req[r].user} ELSE {}
         /\ Sc(r).tokens = IF Req[r].kind \in {"create", "accept", "import"} THEN {Req[r].token} ELSE {}
         /\ Sc(r).trades = IF Req[r].kind = "accept" THEN {Req[r].trade} ELSE {}
         /\ Sc(r).colonies = IF Req[r].kind = "create" THEN {Req[r].colony}
                             ELSE IF Req[r].kind = "import" THEN {Req[r].colony, Req[r].from} ELSE {}
         /\ Sc(r).usernames = IF Req[r].kind \in {"create", "bootstrap"} THEN {Name[Req[r].user]} ELSE {}
<1> DEFINE q == Req[r]
<1>0. q.kind \in Kinds
  BY RequestKinds
<1> HIDE DEF q
<1>1. CASE q.kind = "login"
  BY <1>1 DEF Sc, Scope, NoScope, q
<1>2. CASE q.kind = "reset"
  BY <1>2 DEF Sc, Scope, NoScope, q
<1>3. CASE q.kind = "bootstrap"
  BY <1>3 DEF Sc, Scope, NoScope, q
<1>4. CASE q.kind = "create"
  BY <1>4 DEF Sc, Scope, NoScope, q
<1>5. CASE q.kind = "accept"
  BY <1>5 DEF Sc, Scope, NoScope, q
<1>6. CASE q.kind = "import"
  BY <1>6 DEF Sc, Scope, NoScope, q
<1> QED
  BY <1>0, <1>1, <1>2, <1>3, <1>4, <1>5, <1>6 DEF Kinds

-----------------------------------------------------------------------------
(***************************************************************************)
(* What the functions of the requests do to the tables.                    *)
(***************************************************************************)
\* The fields of the tables, one at a time.
LEMMA TablesFields ==
  ASSUME NEW d \in Tables
  PROVE  /\ d = [doc |-> d.doc, processed |-> d.processed, ledger |-> d.ledger]
         /\ d.doc \in [Rows -> Nat \cup {Absent}]
         /\ d.processed \in [Colonies -> SUBSET Envelopes]
         /\ d.ledger \in [Colonies -> SUBSET (Nat \X Requests)]
BY DEF Tables

\* Tables are equal when their rows are.
LEMMA TablesEqual ==
  ASSUME NEW a \in Tables, NEW b \in Tables,
         \A x \in Rows : a.doc[x] = b.doc[x],
         \A c \in Colonies : a.processed[c] = b.processed[c],
         \A c \in Colonies : a.ledger[c] = b.ledger[c]
  PROVE  a = b
<1>1. a.doc = b.doc
  BY TablesFields
<1>2. a.processed = b.processed /\ a.ledger = b.ledger
  BY TablesFields
<1> QED
  BY <1>1, <1>2, TablesFields

\* Writing one row.
LEMMA WithRow ==
  ASSUME NEW d \in Tables, NEW x \in Rows, NEW v \in Nat \cup {Absent}
  PROVE  /\ With(d, x, v) \in Tables
         /\ \A y \in Rows : With(d, x, v).doc[y] = IF y = x THEN v ELSE d.doc[y]
         /\ With(d, x, v).processed = d.processed /\ With(d, x, v).ledger = d.ledger
<1> DEFINE docs == [y \in Rows |-> IF y = x THEN v ELSE d.doc[y]]
<1>1. With(d, x, v) = [doc |-> docs, processed |-> d.processed, ledger |-> d.ledger]
  BY TablesFields DEF With
<1>2. docs \in [Rows -> Nat \cup {Absent}]
  BY TablesFields
<1> QED
  BY <1>1, <1>2, TablesFields DEF Tables

\* Deleting rows.
LEMMA WithoutRows ==
  ASSUME NEW d \in Tables, NEW S
  PROVE  /\ Without(d, S) \in Tables
         /\ \A y \in Rows : Without(d, S).doc[y] = IF y \in S THEN Absent ELSE d.doc[y]
         /\ Without(d, S).processed = d.processed /\ Without(d, S).ledger = d.ledger
<1> DEFINE docs == [y \in Rows |-> IF y \in S THEN Absent ELSE d.doc[y]]
<1>1. Without(d, S) = [doc |-> docs, processed |-> d.processed, ledger |-> d.ledger]
  BY TablesFields DEF Without
<1>2. docs \in [Rows -> Nat \cup {Absent}]
  BY TablesFields
<1> QED
  BY <1>1, <1>2, TablesFields DEF Tables

\* Booking in some colonies.
LEMMA BookedRows ==
  ASSUME NEW d \in Tables, NEW r \in Requests, NEW C \in SUBSET Colonies
  PROVE  /\ Booked(d, r, C) \in Tables
         /\ \A y \in Rows : Booked(d, r, C).doc[y] = IF y \in C THEN d.doc[y] + 1 ELSE d.doc[y]
         /\ Booked(d, r, C).processed = d.processed
         /\ \A c \in Colonies :
              Booked(d, r, C).ledger[c] = IF c \in C THEN d.ledger[c] \cup {<<d.doc[c] + 1, r>>} ELSE d.ledger[c]
<1> DEFINE docs == [x \in Rows |-> IF x \in C THEN d.doc[x] + 1 ELSE d.doc[x]]
           led  == [c \in Colonies |-> IF c \in C THEN d.ledger[c] \cup {<<d.doc[c] + 1, r>>} ELSE d.ledger[c]]
<1>1. Booked(d, r, C) = [doc |-> docs, processed |-> d.processed, ledger |-> led]
  <2>1. [d EXCEPT !.doc = docs] = [doc |-> docs, processed |-> d.processed, ledger |-> d.ledger]
    BY DEF Tables
  <2> HIDE DEF docs, led
  <2>2. [d EXCEPT !.doc = docs, !.ledger = led] = [[d EXCEPT !.doc = docs] EXCEPT !.ledger = led]
    OBVIOUS
  <2>3. Booked(d, r, C) = [d EXCEPT !.doc = docs, !.ledger = led]
    BY DEF Booked, docs, led
  <2> QED
    BY <2>1, <2>2, <2>3
<1>2. docs \in [Rows -> Nat \cup {Absent}]
  BY TablesFields DEF Absent
<1>3. led \in [Colonies -> SUBSET (Nat \X Requests)]
  <2> SUFFICES ASSUME NEW c \in Colonies PROVE led[c] \in SUBSET (Nat \X Requests)
    OBVIOUS
  <2>1. d.doc[c] + 1 \in Nat /\ d.ledger[c] \in SUBSET (Nat \X Requests)
    BY TablesFields DEF Absent, Rows
  <2> QED BY <2>1
<1>4. Booked(d, r, C) \in Tables
  BY <1>1, <1>2, <1>3, TablesFields DEF Tables
<1> QED
  BY <1>1, <1>4

\* A session that a request makes has not expired.
LEMMA NewNotExpired ==
  ASSUME NEW r \in Requests, Req[r].kind \in {"login", "bootstrap"}
  PROVE  Req[r].token \in NewTokens /\ Req[r].token \notin Expired
BY RequestAssumption DEF NewTokens

\* Ids of different tables differ.
LEMMA TablesApart ==
  /\ Users \subseteq Rows /\ Colonies \subseteq Rows /\ Trades \subseteq Rows /\ Tokens \subseteq Rows
  /\ AdvisoryLock \in Rows
BY DEF Rows

\* A login makes a session and deletes the expired ones.
LEMMA LoginEffect ==
  ASSUME NEW r \in Requests, Req[r].kind = "login", NEW d \in Tables
  PROVE  /\ Effect(r, d) \in Tables
         /\ \A x \in Rows : Effect(r, d).doc[x] =
              IF x = Req[r].token THEN Live ELSE IF x \in Expired THEN Absent ELSE d.doc[x]
         /\ Effect(r, d).processed = d.processed /\ Effect(r, d).ledger = d.ledger
<1> DEFINE w == Without(d, Expired)
<1>1. Req[r].token \in Rows
  BY RequestKinds, TablesApart
<1>2. Effect(r, d) = With(w, Req[r].token, Live)
  BY DEF Effect
<1>3. w \in Tables
  BY WithoutRows
<1>4. /\ \A y \in Rows : w.doc[y] = IF y \in Expired THEN Absent ELSE d.doc[y]
      /\ w.processed = d.processed /\ w.ledger = d.ledger
  BY WithoutRows
<1> HIDE DEF w
<1>5. Live \in Nat \cup {Absent}
  BY DEF Live
<1>6. /\ With(w, Req[r].token, Live) \in Tables
      /\ \A y \in Rows : With(w, Req[r].token, Live).doc[y] = IF y = Req[r].token THEN Live ELSE w.doc[y]
      /\ With(w, Req[r].token, Live).processed = w.processed /\ With(w, Req[r].token, Live).ledger = w.ledger
  BY <1>1, <1>3, <1>5, WithRow
<1> QED
  BY <1>1, <1>2, <1>4, <1>6

\* A reset of a password ends the sessions of the user.
LEMMA ResetEffect ==
  ASSUME NEW r \in Requests, Req[r].kind = "reset", NEW d \in Tables, d.doc[Req[r].user] \in Nat
  PROVE  /\ Effect(r, d) \in Tables
         /\ \A x \in Rows : Effect(r, d).doc[x] =
              IF x = Req[r].user THEN d.doc[x] + 1
              ELSE IF x \in SessionsOf(Req[r].user) THEN Absent ELSE d.doc[x]
         /\ Effect(r, d).processed = d.processed /\ Effect(r, d).ledger = d.ledger
<1> DEFINE w == Without(d, SessionsOf(Req[r].user))
<1>1. Req[r].user \in Rows
  BY RequestKinds, TablesApart
<1>2. Effect(r, d) = With(w, Req[r].user, d.doc[Req[r].user] + 1)
  BY DEF Effect
<1>3. w \in Tables
  BY WithoutRows
<1>4. /\ \A y \in Rows : w.doc[y] = IF y \in SessionsOf(Req[r].user) THEN Absent ELSE d.doc[y]
      /\ w.processed = d.processed /\ w.ledger = d.ledger
  BY WithoutRows
<1> HIDE DEF w
<1>5. d.doc[Req[r].user] + 1 \in Nat \cup {Absent}
  OBVIOUS
<1>6. /\ With(w, Req[r].user, d.doc[Req[r].user] + 1) \in Tables
      /\ \A y \in Rows : With(w, Req[r].user, d.doc[Req[r].user] + 1).doc[y] = IF y = Req[r].user THEN d.doc[Req[r].user] + 1 ELSE w.doc[y]
      /\ With(w, Req[r].user, d.doc[Req[r].user] + 1).processed = w.processed /\ With(w, Req[r].user, d.doc[Req[r].user] + 1).ledger = w.ledger
  BY <1>1, <1>3, <1>5, WithRow
<1> QED
  BY <1>1, <1>2, <1>4, <1>6

\* A bootstrap makes a user and a session.
LEMMA BootstrapEffect ==
  ASSUME NEW r \in Requests, Req[r].kind = "bootstrap", NEW d \in Tables
  PROVE  /\ Effect(r, d) \in Tables
         /\ \A x \in Rows : Effect(r, d).doc[x] =
              IF x = Req[r].token THEN Live ELSE IF x = Req[r].user THEN First ELSE d.doc[x]
         /\ Effect(r, d).processed = d.processed /\ Effect(r, d).ledger = d.ledger
<1> DEFINE w == With(d, Req[r].user, First)
<1>1. Req[r].token \in Rows /\ Req[r].user \in Rows
  BY RequestKinds, TablesApart
<1>2. Effect(r, d) = With(w, Req[r].token, Live)
  BY DEF Effect
<1>5. Live \in Nat \cup {Absent} /\ First \in Nat \cup {Absent}
  BY DEF Live, First
<1>3. w \in Tables
  BY <1>1, <1>5, WithRow
<1>4. /\ \A y \in Rows : w.doc[y] = IF y = Req[r].user THEN First ELSE d.doc[y]
      /\ w.processed = d.processed /\ w.ledger = d.ledger
  BY <1>1, <1>5, WithRow
<1> HIDE DEF w
<1>6. /\ With(w, Req[r].token, Live) \in Tables
      /\ \A y \in Rows : With(w, Req[r].token, Live).doc[y] = IF y = Req[r].token THEN Live ELSE w.doc[y]
      /\ With(w, Req[r].token, Live).processed = w.processed /\ With(w, Req[r].token, Live).ledger = w.ledger
  BY <1>1, <1>3, <1>5, WithRow
<1> QED
  BY <1>1, <1>2, <1>4, <1>6

\* Creating a user is booked in the ledger of its colony.
LEMMA CreateEffect ==
  ASSUME NEW r \in Requests, Req[r].kind = "create", NEW d \in Tables
  PROVE  /\ Effect(r, d) \in Tables
         /\ \A x \in Rows : Effect(r, d).doc[x] =
              IF x = Req[r].user THEN First ELSE IF x = Req[r].colony THEN d.doc[x] + 1 ELSE d.doc[x]
         /\ Effect(r, d).processed = d.processed
         /\ \A c \in Colonies : Effect(r, d).ledger[c] =
              IF c = Req[r].colony THEN d.ledger[c] \cup {<<d.doc[c] + 1, r>>} ELSE d.ledger[c]
<1> DEFINE w == Booked(d, r, {Req[r].colony})
<1>1. Req[r].user \in Rows /\ Req[r].colony \in Colonies
  BY RequestKinds, TablesApart
<1>2. Effect(r, d) = With(w, Req[r].user, First)
  BY DEF Effect
<1>3. w \in Tables
  BY <1>1, BookedRows
<1>4. /\ \A y \in Rows : w.doc[y] = IF y = Req[r].colony THEN d.doc[y] + 1 ELSE d.doc[y]
      /\ w.processed = d.processed
      /\ \A c \in Colonies :
           w.ledger[c] = IF c = Req[r].colony THEN d.ledger[c] \cup {<<d.doc[c] + 1, r>>} ELSE d.ledger[c]
  <2> DEFINE C == {Req[r].colony}
  <2>1. C \in SUBSET Colonies /\ \A y : y \in C <=> y = Req[r].colony
    BY <1>1
  <2> HIDE DEF C
  <2>2. w = Booked(d, r, C)
    BY DEF C
  <2> HIDE DEF w
  <2> QED
    BY <2>1, <2>2, BookedRows
<1> HIDE DEF w
<1>5. First \in Nat \cup {Absent}
  BY DEF First
<1>6. /\ With(w, Req[r].user, First) \in Tables
      /\ \A y \in Rows : With(w, Req[r].user, First).doc[y] = IF y = Req[r].user THEN First ELSE w.doc[y]
      /\ With(w, Req[r].user, First).processed = w.processed /\ With(w, Req[r].user, First).ledger = w.ledger
  BY <1>1, <1>3, <1>5, WithRow
<1> QED
  BY <1>1, <1>2, <1>4, <1>6

\* An acceptance is booked in the ledgers of both colonies.
LEMMA AcceptEffect ==
  ASSUME NEW r \in Requests, Req[r].kind = "accept", NEW d \in Tables
  PROVE  /\ Effect(r, d) \in Tables
         /\ \A x \in Rows : Effect(r, d).doc[x] =
              IF x = Req[r].trade THEN Accepted
              ELSE IF x \in Between[Req[r].trade] THEN d.doc[x] + 1 ELSE d.doc[x]
         /\ Effect(r, d).processed = d.processed
         /\ \A c \in Colonies : Effect(r, d).ledger[c] =
              IF c \in Between[Req[r].trade] THEN d.ledger[c] \cup {<<d.doc[c] + 1, r>>} ELSE d.ledger[c]
<1> DEFINE C == Between[Req[r].trade]
           w == Booked(d, r, C)
<1>1. Req[r].trade \in Rows /\ C \in SUBSET Colonies
  BY RequestKinds, TablesApart, RequestAssumption
<1>2. Effect(r, d) = With(w, Req[r].trade, Accepted)
  BY DEF Effect
<1> HIDE DEF C
<1>3. w \in Tables
  BY <1>1, BookedRows
<1>4. /\ \A y \in Rows : w.doc[y] = IF y \in C THEN d.doc[y] + 1 ELSE d.doc[y]
      /\ w.processed = d.processed
      /\ \A c \in Colonies : w.ledger[c] = IF c \in C THEN d.ledger[c] \cup {<<d.doc[c] + 1, r>>} ELSE d.ledger[c]
  BY <1>1, BookedRows
<1> HIDE DEF w
<1>5. Accepted \in Nat \cup {Absent}
  BY DEF Accepted
<1>6. /\ With(w, Req[r].trade, Accepted) \in Tables
      /\ \A y \in Rows : With(w, Req[r].trade, Accepted).doc[y] = IF y = Req[r].trade THEN Accepted ELSE w.doc[y]
      /\ With(w, Req[r].trade, Accepted).processed = w.processed /\ With(w, Req[r].trade, Accepted).ledger = w.ledger
  BY <1>1, <1>3, <1>5, WithRow
<1>7. /\ Effect(r, d) \in Tables
      /\ \A x \in Rows : Effect(r, d).doc[x] =
           IF x = Req[r].trade THEN Accepted ELSE IF x \in C THEN d.doc[x] + 1 ELSE d.doc[x]
      /\ Effect(r, d).processed = d.processed
      /\ \A c \in Colonies : Effect(r, d).ledger[c] =
           IF c \in C THEN d.ledger[c] \cup {<<d.doc[c] + 1, r>>} ELSE d.ledger[c]
  BY <1>1, <1>2, <1>4, <1>6
<1> QED
  BY <1>7 DEF C

\* An import is booked, and its envelope is processed.
LEMMA ImportEffect ==
  ASSUME NEW r \in Requests, Req[r].kind = "import", NEW d \in Tables
  PROVE  /\ Effect(r, d) \in Tables
         /\ \A x \in Rows : Effect(r, d).doc[x] = IF x = Req[r].colony THEN d.doc[x] + 1 ELSE d.doc[x]
         /\ \A c \in Colonies : Effect(r, d).processed[c] =
              IF c = Req[r].colony THEN d.processed[c] \cup {Req[r].envelope} ELSE d.processed[c]
         /\ \A c \in Colonies : Effect(r, d).ledger[c] =
              IF c = Req[r].colony THEN d.ledger[c] \cup {<<d.doc[c] + 1, r>>} ELSE d.ledger[c]
<1> DEFINE C == {Req[r].colony}
           w == Booked(d, r, C)
           p == [w.processed EXCEPT ![Req[r].colony] = @ \cup {Req[r].envelope}]
<1>1. Req[r].colony \in Colonies /\ Req[r].envelope \in Envelopes
  BY RequestKinds
<1>2. C \in SUBSET Colonies /\ \A y : y \in C <=> y = Req[r].colony
  BY <1>1
<1>3. Effect(r, d) = [w EXCEPT !.processed = p]
  BY DEF Effect
<1> HIDE DEF C
<1>4. w \in Tables
  BY <1>2, BookedRows
<1>5. /\ \A y \in Rows : w.doc[y] = IF y = Req[r].colony THEN d.doc[y] + 1 ELSE d.doc[y]
      /\ w.processed = d.processed
      /\ \A c \in Colonies : w.ledger[c] = IF c = Req[r].colony THEN d.ledger[c] \cup {<<d.doc[c] + 1, r>>} ELSE d.ledger[c]
  BY <1>2, BookedRows
<1> HIDE DEF w
<1>6. w.processed \in [Colonies -> SUBSET Envelopes]
  BY <1>4, TablesFields
<1>7. p \in [Colonies -> SUBSET Envelopes]
  BY <1>1, <1>6
<1>8. \A c \in Colonies : p[c] = IF c = Req[r].colony THEN d.processed[c] \cup {Req[r].envelope} ELSE d.processed[c]
  BY <1>1, <1>5, <1>6
<1> HIDE DEF p
<1>9. Effect(r, d) = [doc |-> w.doc, processed |-> p, ledger |-> w.ledger]
  BY <1>3, <1>4 DEF Tables
<1>10. Effect(r, d) \in Tables
  BY <1>4, <1>7, <1>9, TablesFields DEF Tables
<1> QED
  BY <1>5, <1>8, <1>9, <1>10
-----------------------------------------------------------------------------
(***************************************************************************)
(* The invariant: what each request relies on, statement by statement.     *)
(***************************************************************************)
Active(r)  == pc[r] \notin {"idle", "done"}
Read(r, x) == seen[r].doc[x] # Absent
Past(r)    == pc[r] \in {"rows", "sessions", "prune", "commit"}

\* The rows its scope names, all of which it finds, and the sessions.
NamedRows(r) ==
  Sc(r).users \cup Sc(r).trades \cup Sc(r).colonies \cup UNION {Between[t] : t \in Sc(r).trades}

SessionScope(r) == {t \in Tokens : t \in Sc(r).tokens \/ Owner[t] \in Sc(r).userSessions}

\* A lock is held by a transaction, on a row that is there.
Holds(r) == \A x \in Rows : holder[x] = r => Active(r) /\ Stored(db, x)

\* What was read is locked, so it is still so.
Faithful(r) ==
  /\ \A x \in Rows : Read(r, x) => holder[x] = r /\ db.doc[x] = seen[r].doc[x]
  /\ \A c \in Colonies : seen[r].ledger[c] = {} /\ seen[r].processed[c] \subseteq db.processed[c]

LockTaken(r) ==
  Active(r) /\ Sc(r).lock => (pc[r] = "lock" /\ AdvisoryLock \in todo[r]) \/ Read(r, AdvisoryLock)

RowsRead(r) ==
  Past(r) => \A x \in NamedRows(r) : (pc[r] = "rows" /\ x \in todo[r]) \/ Read(r, x)

\* No session in scope was made since they were read.
SessionsRead(r) ==
  pc[r] \in {"sessions", "prune", "commit"} =>
    \A t \in SessionScope(r) : (pc[r] = "sessions" /\ t \in todo[r]) \/ Read(r, t) \/ ~Stored(db, t)

Pruned(r) ==
  pc[r] \in {"prune", "commit"} /\ Sc(r).prune =>
    \A t \in Expired : (pc[r] = "prune" /\ t \in todo[r]) \/ holder[t] = r \/ ~Stored(db, t)

UserThere(r) ==
  Active(r) /\ Req[r].kind \in {"login", "reset"} => Stored(db, Req[r].user)

\* If bootstrap saw no user then there is none.
UsersRead(r) ==
  Past(r) /\ Sc(r).allUsers =>
    \/ \E u \in Users : (pc[r] = "rows" /\ u \in todo[r] /\ Stored(db, u)) \/ Read(r, u)
    \/ \A u \in Users : ~Stored(db, u)

Persisted(r) ==
  pc[r] = "commit" => Allowed(Req[r], seen[r]) /\ \A name \in Inserts(r) : ~NameTaken(db, name)

Told(r) == pc[r] = "done" \/ reply[r] = "none"

Queues(r) == todo[r] # {} => pc[r] \in Locking

Own(r) ==
  /\ Holds(r) /\ Faithful(r) /\ LockTaken(r) /\ RowsRead(r) /\ SessionsRead(r) /\ Pruned(r)
  /\ UserThere(r) /\ UsersRead(r) /\ Persisted(r) /\ Told(r) /\ Queues(r)

\* With a session there is its user.
Related ==
  /\ \A x \in Colonies \cup Trades \cup {AdvisoryLock} : Stored(db, x)
  /\ \A t \in Tokens : Stored(db, t) => Stored(db, Owner[t])

\* Uncommitted users have different names.
Apart ==
  \A r, s \in Requests : r # s /\ pc[r] = "commit" /\ pc[s] = "commit" => Inserts(r) \cap Inserts(s) = {}

IInv == TypeOK /\ Related /\ Apart /\ \A r \in Requests : Own(r)

-----------------------------------------------------------------------------
(***************************************************************************)
(* What a request loaded is what its function would find in the tables.    *)
(***************************************************************************)
Ready(r) == (pc[r] = "prune" /\ todo[r] = {}) \/ pc[r] = "commit"

\* The rows of each kind of request.
LEMMA NamedByKind ==
  ASSUME NEW r \in Requests
  PROVE  /\ NamedRows(r) \subseteq Users \cup Trades \cup Colonies
         /\ Req[r].kind \in {"login", "reset"} => Req[r].user \in NamedRows(r)
         /\ Req[r].kind \in {"create", "import"} => Req[r].colony \in NamedRows(r)
         /\ Req[r].kind = "accept" => Req[r].trade \in NamedRows(r) /\ Between[Req[r].trade] \subseteq NamedRows(r)
         /\ \A x \in NamedRows(r) : x \in Users => Req[r].kind \in {"login", "reset"} /\ x = Req[r].user
<1>1. Req[r].kind \in Kinds
  BY RequestKinds
<1> USE DEF NamedRows
<1>2. CASE Req[r].kind \in {"login", "reset"}
  <2>1. Sc(r).users = {Req[r].user} /\ Sc(r).colonies = {} /\ Sc(r).trades = {} /\ Req[r].user \in Users
    BY <1>2, Scopes, RequestKinds
  <2>2. NamedRows(r) = {Req[r].user}
    BY <2>1
  <2> HIDE DEF NamedRows
  <2> QED
    BY <1>2, <2>1, <2>2
<1>3. CASE Req[r].kind = "bootstrap"
  BY <1>3, Scopes
<1>4. CASE Req[r].kind \in {"create", "import"}
  <2>1. /\ Sc(r).users = {} /\ Sc(r).trades = {} /\ Req[r].colony \in Sc(r).colonies
        /\ Sc(r).colonies \subseteq Colonies
    BY <1>4, Scopes, RequestKinds
  <2>2. NamedRows(r) = Sc(r).colonies
    BY <2>1
  <2> HIDE DEF NamedRows
  <2>3. Users \cap Colonies = {}
    BY RequestAssumption
  <2> QED
    BY <1>4, <2>1, <2>2, <2>3
<1>5. CASE Req[r].kind = "accept"
  <2>1. Sc(r).users = {} /\ Sc(r).colonies = {} /\ Sc(r).trades = {Req[r].trade} /\ Req[r].trade \in Trades
    BY <1>5, Scopes, RequestKinds
  <2>2. NamedRows(r) = {Req[r].trade} \cup Between[Req[r].trade]
    BY <2>1
  <2>3. Between[Req[r].trade] \subseteq Colonies
    BY <2>1, RequestAssumption
  <2> QED
    BY <1>5, <2>1, <2>2, <2>3, RequestAssumption
<1> QED
  BY <1>1, <1>2, <1>3, <1>4, <1>5 DEF Kinds

\* All the rows a transaction names are there.
LEMMA NamedStored ==
  ASSUME IInv, NEW r \in Requests, Active(r), NEW x \in NamedRows(r)
  PROVE  Stored(db, x) /\ x \in Rows
<1>1. x \in Rows
  BY NamedByKind, TablesApart
<1>2. CASE x \in Users
  <2>1. Req[r].kind \in {"login", "reset"} /\ x = Req[r].user
    BY <1>2, NamedByKind
  <2> QED
    BY <1>1, <2>1 DEF IInv, Own, UserThere
<1>3. CASE x \in Colonies \cup Trades
  BY <1>1, <1>3 DEF IInv, Related
<1> QED
  BY <1>2, <1>3, NamedByKind

\* When everything is read, what was read is what there is.
LEMMA WhatWasRead ==
  ASSUME IInv, NEW r \in Requests, Ready(r)
  PROVE  /\ \A x \in NamedRows(r) : Read(r, x) /\ db.doc[x] = seen[r].doc[x]
         /\ \A t \in SessionScope(r) : db.doc[t] = seen[r].doc[t]
         /\ Sc(r).prune => \A t \in Expired : holder[t] = r \/ ~Stored(db, t)
         /\ Sc(r).allUsers /\ (\E u \in Users : Stored(db, u)) => \E u \in Users : Stored(seen[r], u)
<1>1. Own(r)
  BY DEF IInv
<1>2. \A x \in Rows : Read(r, x) => db.doc[x] = seen[r].doc[x]
  BY <1>1 DEF Own, Faithful
<1>3. \A x \in NamedRows(r) : Read(r, x)
  BY <1>1 DEF Own, RowsRead, Past, Ready
<1>4. \A x \in NamedRows(r) : x \in Rows
  BY NamedByKind, TablesApart
<1>5. \A t \in SessionScope(r) : t \in Rows /\ (Read(r, t) \/ ~Stored(db, t))
  BY <1>1, TablesApart DEF Own, SessionsRead, Ready, SessionScope
<1>6. \A t \in SessionScope(r) : db.doc[t] = seen[r].doc[t]
  BY <1>2, <1>5 DEF Read, Stored
<1>7. Sc(r).prune => \A t \in Expired : holder[t] = r \/ ~Stored(db, t)
  BY <1>1 DEF Own, Pruned, Ready
<1>8. Sc(r).allUsers /\ (\E u \in Users : Stored(db, u)) => \E u \in Users : Stored(seen[r], u)
  BY <1>1 DEF Own, UsersRead, Ready, Past, Read, Stored
<1> QED
  BY <1>2, <1>3, <1>4, <1>6, <1>7, <1>8

\* What was read in full is signed in, or not, as it is in the tables.
LEMMA SameSession ==
  ASSUME IInv, NEW r \in Requests, Ready(r), Req[r].kind \in {"create", "accept", "import"}
  PROVE  SignedIn(seen[r], Req[r].token) <=> SignedIn(db, Req[r].token)
<1>1. Req[r].token \in SessionScope(r)
  BY RequestKinds, Scopes DEF SessionScope
<1> QED
  BY <1>1, WhatWasRead DEF SignedIn, Stored

\* A name that was read is taken.
LEMMA NamesRead ==
  ASSUME IInv, NEW r \in Requests, NEW name, NameTaken(seen[r], name)
  PROVE  NameTaken(db, name)
<1>1. PICK u \in Users : Stored(seen[r], u) /\ Name[u] = name
  BY DEF NameTaken
<1>2. Stored(db, u)
  BY <1>1, TablesApart DEF IInv, Own, Faithful, Stored, Read
<1> QED
  BY <1>1, <1>2 DEF NameTaken

\* The function goes through on what was loaded when it would on the tables,
\* and the other way round once the names it inserts are known to be free.
LEMMA RightlyAllowed ==
  ASSUME IInv, NEW r \in Requests, Ready(r)
  PROVE  Allowed(Req[r], db) <=>
           Allowed(Req[r], seen[r]) /\ \A name \in Inserts(r) : ~NameTaken(db, name)
<1>0. Req[r].kind \in Kinds
  BY RequestKinds
<1>1. CASE Req[r].kind \in {"login", "reset"}
  <2>1. Inserts(r) = {}
    BY <1>1 DEF Inserts
  <2>2. db.doc[Req[r].user] = seen[r].doc[Req[r].user]
    BY <1>1, NamedByKind, WhatWasRead
  <2>3. \A d : Allowed(Req[r], d) <=> d.doc[Req[r].user] = First
    BY <1>1 DEF Allowed
  <2> QED
    BY <2>1, <2>2, <2>3
<1>2. CASE Req[r].kind = "bootstrap"
  <2>1. \A d : Allowed(Req[r], d) <=> \A u \in Users : ~Stored(d, u)
    BY <1>2 DEF Allowed
  <2>2. Sc(r).allUsers
    BY <1>2, Scopes
  <2>3. (\E u \in Users : Stored(db, u)) => \E u \in Users : Stored(seen[r], u)
    BY <2>2, WhatWasRead
  <2>4. (\E u \in Users : Stored(seen[r], u)) => \E u \in Users : Stored(db, u)
    BY TablesApart DEF IInv, Own, Faithful, Stored, Read
  <2>5. (\A u \in Users : ~Stored(db, u)) => \A name : ~NameTaken(db, name)
    BY DEF NameTaken
  <2> QED
    BY <2>1, <2>3, <2>4, <2>5
<1>3. CASE Req[r].kind = "create"
  <2>1. \A d : Allowed(Req[r], d) <=> SignedIn(d, Req[r].token) /\ ~NameTaken(d, Name[Req[r].user])
    BY <1>3 DEF Allowed
  <2>2. Inserts(r) = {Name[Req[r].user]}
    BY <1>3 DEF Inserts
  <2>3. NameTaken(seen[r], Name[Req[r].user]) => NameTaken(db, Name[Req[r].user])
    BY NamesRead
  <2> QED
    BY <1>3, <2>1, <2>2, <2>3, SameSession
<1>4. CASE Req[r].kind = "accept"
  <2>1. \A d : Allowed(Req[r], d) <=> SignedIn(d, Req[r].token) /\ d.doc[Req[r].trade] = Offered
    BY <1>4 DEF Allowed
  <2>2. Inserts(r) = {}
    BY <1>4 DEF Inserts
  <2>3. db.doc[Req[r].trade] = seen[r].doc[Req[r].trade]
    BY <1>4, NamedByKind, WhatWasRead
  <2> QED
    BY <1>4, <2>1, <2>2, <2>3, SameSession
<1>5. CASE Req[r].kind = "import"
  <2>1. \A d : Allowed(Req[r], d) <=> SignedIn(d, Req[r].token)
    BY <1>5 DEF Allowed
  <2>2. Inserts(r) = {}
    BY <1>5 DEF Inserts
  <2> QED
    BY <1>5, <2>1, <2>2, SameSession
<1> QED
  BY <1>0, <1>1, <1>2, <1>3, <1>4, <1>5 DEF Kinds

-----------------------------------------------------------------------------
(***************************************************************************)
(* What a request writes is what its function makes of the tables.         *)
(***************************************************************************)
\* The tables after a commit, one row at a time.
LEMMA WrittenRows ==
  ASSUME TypeOK, NEW r \in Requests, Effect(r, seen[r]) \in Tables
  PROVE  /\ Written(r) \in Tables
         /\ \A x \in Rows : Written(r).doc[x] =
              IF Sc(r).prune /\ x \in Expired /\ holder[x] = r THEN Absent
              ELSE IF Effect(r, seen[r]).doc[x] # seen[r].doc[x] THEN Effect(r, seen[r]).doc[x] ELSE db.doc[x]
         /\ \A c \in Colonies : Written(r).processed[c] =
              db.processed[c] \cup (Effect(r, seen[r]).processed[c] \ seen[r].processed[c])
         /\ \A c \in Colonies : Written(r).ledger[c] = db.ledger[c] \cup Effect(r, seen[r]).ledger[c]
<1> DEFINE new == Effect(r, seen[r])
           docs == [x \in Rows |-> IF Sc(r).prune /\ x \in Expired /\ holder[x] = r THEN Absent
                                   ELSE IF new.doc[x] # seen[r].doc[x] THEN new.doc[x] ELSE db.doc[x]]
           proc == [c \in Colonies |-> db.processed[c] \cup (new.processed[c] \ seen[r].processed[c])]
           led  == [c \in Colonies |-> db.ledger[c] \cup new.ledger[c]]
<1>1. Written(r) = [doc |-> docs, processed |-> proc, ledger |-> led]
  BY DEF Written
<1> HIDE DEF new
<1>2. /\ new.doc \in [Rows -> Nat \cup {Absent}] /\ db.doc \in [Rows -> Nat \cup {Absent}]
      /\ new.processed \in [Colonies -> SUBSET Envelopes] /\ db.processed \in [Colonies -> SUBSET Envelopes]
      /\ new.ledger \in [Colonies -> SUBSET (Nat \X Requests)] /\ db.ledger \in [Colonies -> SUBSET (Nat \X Requests)]
  BY TablesFields DEF TypeOK, new
<1>3. docs \in [Rows -> Nat \cup {Absent}]
  BY <1>2
<1>4. proc \in [Colonies -> SUBSET Envelopes]
  BY <1>2
<1>5. led \in [Colonies -> SUBSET (Nat \X Requests)]
  BY <1>2
<1>6. Written(r) \in Tables
  BY <1>1, <1>3, <1>4, <1>5 DEF Tables
<1> QED
  BY <1>1, <1>6 DEF new

\* What was loaded has the form of the tables.
LEMMA BothTables ==
  ASSUME IInv, NEW r \in Requests
  PROVE  seen[r] \in Tables /\ db \in Tables
BY DEF IInv, TypeOK

\* What was read so far is a part of the tables.
LEMMA SeenTables ==
  ASSUME IInv, NEW r \in Requests
  PROVE  /\ seen[r] \in Tables /\ db \in Tables
         /\ \A x \in Rows : seen[r].doc[x] # Absent => db.doc[x] = seen[r].doc[x] /\ holder[x] = r
         /\ \A c \in Colonies : seen[r].ledger[c] = {} /\ seen[r].processed[c] \subseteq db.processed[c]
BY DEF IInv, TypeOK, Own, Faithful, Read
\* A login: what it prunes, and its session.
LEMMA LoginWrites ==
  ASSUME IInv, NEW r \in Requests, Ready(r), Req[r].kind = "login"
  PROVE  Written(r) = Effect(r, db)
<1>1. Effect(r, seen[r]) \in Tables /\ Effect(r, db) \in Tables /\ Written(r) \in Tables
  BY SeenTables, LoginEffect, WrittenRows DEF IInv
<1>2. ASSUME NEW x \in Rows
      PROVE  Written(r).doc[x] = Effect(r, db).doc[x]
  <2>1. Effect(r, db).doc[x] =
          IF x = Req[r].token THEN Live ELSE IF x \in Expired THEN Absent ELSE db.doc[x]
    BY BothTables, LoginEffect
  <2>2. Effect(r, seen[r]).doc[x] =
          IF x = Req[r].token THEN Live ELSE IF x \in Expired THEN Absent ELSE seen[r].doc[x]
    BY BothTables, LoginEffect
  <2>3. Written(r).doc[x] =
          IF x \in Expired /\ holder[x] = r THEN Absent
          ELSE IF Effect(r, seen[r]).doc[x] # seen[r].doc[x] THEN Effect(r, seen[r]).doc[x] ELSE db.doc[x]
    BY <1>1, WrittenRows, Scopes DEF IInv
  <2>4. Req[r].token \notin Expired
    BY NewNotExpired
  <2>5. x \in Expired => holder[x] = r \/ db.doc[x] = Absent
    BY WhatWasRead, Scopes DEF Stored
  <2>6. seen[r].doc[x] # Absent => db.doc[x] = seen[r].doc[x] /\ holder[x] = r
    BY SeenTables
  <2>7. Live # Absent
    BY DEF Live, Absent
  <2> QED
    BY <2>1, <2>2, <2>3, <2>4, <2>5, <2>6, <2>7
<1>3. ASSUME NEW c \in Colonies
      PROVE  Written(r).processed[c] = Effect(r, db).processed[c]
  <2>1. Effect(r, seen[r]).processed = seen[r].processed /\ Effect(r, db).processed = db.processed
    BY BothTables, LoginEffect
  <2>2. seen[r].ledger[c] = {} /\ seen[r].processed[c] \subseteq db.processed[c]
    BY SeenTables
  <2>3. Written(r).processed[c] = db.processed[c] \cup (Effect(r, seen[r]).processed[c] \ seen[r].processed[c])
    BY <1>1, WrittenRows DEF IInv
  <2> QED
    BY <2>1, <2>2, <2>3
<1>4. ASSUME NEW c \in Colonies
      PROVE  Written(r).ledger[c] = Effect(r, db).ledger[c]
  <2>1. Effect(r, seen[r]).ledger = seen[r].ledger /\ Effect(r, db).ledger = db.ledger
    BY BothTables, LoginEffect
  <2>2. seen[r].ledger[c] = {} /\ seen[r].processed[c] \subseteq db.processed[c]
    BY SeenTables
  <2>3. Written(r).ledger[c] = db.ledger[c] \cup Effect(r, seen[r]).ledger[c]
    BY <1>1, WrittenRows DEF IInv
  <2> QED
    BY <2>1, <2>2, <2>3
<1> QED
  BY <1>1, <1>2, <1>3, <1>4, TablesEqual

\* A reset: the sessions of the user, and the password.
LEMMA ResetWrites ==
  ASSUME IInv, NEW r \in Requests, Ready(r), Req[r].kind = "reset", Allowed(Req[r], db)
  PROVE  Written(r) = Effect(r, db)
<1>0. db.doc[Req[r].user] = First /\ seen[r].doc[Req[r].user] = First /\ First \in Nat
  <2>1. db.doc[Req[r].user] = seen[r].doc[Req[r].user]
    BY NamedByKind, WhatWasRead
  <2> QED
    BY <2>1 DEF Allowed, First
<1>1. Effect(r, seen[r]) \in Tables /\ Effect(r, db) \in Tables /\ Written(r) \in Tables
  BY <1>0, SeenTables, ResetEffect, WrittenRows DEF IInv
<1>2. ASSUME NEW x \in Rows
      PROVE  Written(r).doc[x] = Effect(r, db).doc[x]
  <2>1. Effect(r, db).doc[x] =
          IF x = Req[r].user THEN db.doc[x] + 1
          ELSE IF x \in SessionsOf(Req[r].user) THEN Absent ELSE db.doc[x]
    BY <1>0, BothTables, ResetEffect
  <2>2. Effect(r, seen[r]).doc[x] =
          IF x = Req[r].user THEN seen[r].doc[x] + 1
          ELSE IF x \in SessionsOf(Req[r].user) THEN Absent ELSE seen[r].doc[x]
    BY <1>0, BothTables, ResetEffect
  <2>3. Written(r).doc[x] =
          IF Effect(r, seen[r]).doc[x] # seen[r].doc[x] THEN Effect(r, seen[r]).doc[x] ELSE db.doc[x]
    BY <1>1, WrittenRows, Scopes DEF IInv
  <2>4. x \in SessionsOf(Req[r].user) => db.doc[x] = seen[r].doc[x]
    <3>1. x \in SessionsOf(Req[r].user) => x \in SessionScope(r)
      BY Scopes DEF SessionsOf, SessionScope
    <3> QED
      BY <3>1, WhatWasRead
  <2>5. CASE x = Req[r].user
    BY <1>0, <2>1, <2>2, <2>3, <2>5
  <2>6. CASE x # Req[r].user
    BY <2>1, <2>2, <2>3, <2>4, <2>6
  <2> QED
    BY <2>5, <2>6
<1>3. ASSUME NEW c \in Colonies
      PROVE  Written(r).processed[c] = Effect(r, db).processed[c]
  <2>1. Effect(r, seen[r]).processed = seen[r].processed /\ Effect(r, db).processed = db.processed
    BY <1>0, BothTables, ResetEffect
  <2>2. seen[r].ledger[c] = {} /\ seen[r].processed[c] \subseteq db.processed[c]
    BY SeenTables
  <2>3. Written(r).processed[c] = db.processed[c] \cup (Effect(r, seen[r]).processed[c] \ seen[r].processed[c])
    BY <1>1, WrittenRows DEF IInv
  <2> QED
    BY <2>1, <2>2, <2>3
<1>4. ASSUME NEW c \in Colonies
      PROVE  Written(r).ledger[c] = Effect(r, db).ledger[c]
  <2>1. Effect(r, seen[r]).ledger = seen[r].ledger /\ Effect(r, db).ledger = db.ledger
    BY <1>0, BothTables, ResetEffect
  <2>2. seen[r].ledger[c] = {} /\ seen[r].processed[c] \subseteq db.processed[c]
    BY SeenTables
  <2>3. Written(r).ledger[c] = db.ledger[c] \cup Effect(r, seen[r]).ledger[c]
    BY <1>1, WrittenRows DEF IInv
  <2> QED
    BY <2>1, <2>2, <2>3
<1> QED
  BY <1>1, <1>2, <1>3, <1>4, TablesEqual

\* A bootstrap: the user and the session.
LEMMA BootstrapWrites ==
  ASSUME IInv, NEW r \in Requests, Ready(r), Req[r].kind = "bootstrap"
  PROVE  Written(r) = Effect(r, db)
<1>1. Effect(r, seen[r]) \in Tables /\ Effect(r, db) \in Tables /\ Written(r) \in Tables
  BY SeenTables, BootstrapEffect, WrittenRows DEF IInv
<1>2. ASSUME NEW x \in Rows
      PROVE  Written(r).doc[x] = Effect(r, db).doc[x]
  <2>1. Effect(r, db).doc[x] =
          IF x = Req[r].token THEN Live ELSE IF x = Req[r].user THEN First ELSE db.doc[x]
    BY BothTables, BootstrapEffect
  <2>2. Effect(r, seen[r]).doc[x] =
          IF x = Req[r].token THEN Live ELSE IF x = Req[r].user THEN First ELSE seen[r].doc[x]
    BY BothTables, BootstrapEffect
  <2>3. Written(r).doc[x] =
          IF Effect(r, seen[r]).doc[x] # seen[r].doc[x] THEN Effect(r, seen[r]).doc[x] ELSE db.doc[x]
    BY <1>1, WrittenRows, Scopes DEF IInv
  <2>4. seen[r].doc[x] # Absent => db.doc[x] = seen[r].doc[x]
    BY SeenTables
  <2>5. Live # Absent /\ First # Absent
    BY DEF Live, First, Absent
  <2> QED
    BY <2>1, <2>2, <2>3, <2>4, <2>5
<1>3. ASSUME NEW c \in Colonies
      PROVE  Written(r).processed[c] = Effect(r, db).processed[c]
  <2>1. Effect(r, seen[r]).processed = seen[r].processed /\ Effect(r, db).processed = db.processed
    BY BothTables, BootstrapEffect
  <2>2. seen[r].ledger[c] = {} /\ seen[r].processed[c] \subseteq db.processed[c]
    BY SeenTables
  <2>3. Written(r).processed[c] = db.processed[c] \cup (Effect(r, seen[r]).processed[c] \ seen[r].processed[c])
    BY <1>1, WrittenRows DEF IInv
  <2> QED
    BY <2>1, <2>2, <2>3
<1>4. ASSUME NEW c \in Colonies
      PROVE  Written(r).ledger[c] = Effect(r, db).ledger[c]
  <2>1. Effect(r, seen[r]).ledger = seen[r].ledger /\ Effect(r, db).ledger = db.ledger
    BY BothTables, BootstrapEffect
  <2>2. seen[r].ledger[c] = {} /\ seen[r].processed[c] \subseteq db.processed[c]
    BY SeenTables
  <2>3. Written(r).ledger[c] = db.ledger[c] \cup Effect(r, seen[r]).ledger[c]
    BY <1>1, WrittenRows DEF IInv
  <2> QED
    BY <2>1, <2>2, <2>3
<1> QED
  BY <1>1, <1>2, <1>3, <1>4, TablesEqual

\* A new user: its row, and an entry in the ledger of the colony.
LEMMA CreateWrites ==
  ASSUME IInv, NEW r \in Requests, Ready(r), Req[r].kind = "create"
  PROVE  Written(r) = Effect(r, db)
<1>0. db.doc[Req[r].colony] = seen[r].doc[Req[r].colony] /\ Req[r].colony \in Rows
  BY NamedByKind, WhatWasRead, TablesApart
<1>1. Effect(r, seen[r]) \in Tables /\ Effect(r, db) \in Tables /\ Written(r) \in Tables
  BY SeenTables, CreateEffect, WrittenRows DEF IInv
<1>2. ASSUME NEW x \in Rows
      PROVE  Written(r).doc[x] = Effect(r, db).doc[x]
  <2>1. Effect(r, db).doc[x] =
          IF x = Req[r].user THEN First ELSE IF x = Req[r].colony THEN db.doc[x] + 1 ELSE db.doc[x]
    BY BothTables, CreateEffect
  <2>2. Effect(r, seen[r]).doc[x] =
          IF x = Req[r].user THEN First ELSE IF x = Req[r].colony THEN seen[r].doc[x] + 1 ELSE seen[r].doc[x]
    BY BothTables, CreateEffect
  <2>3. Written(r).doc[x] =
          IF Effect(r, seen[r]).doc[x] # seen[r].doc[x] THEN Effect(r, seen[r]).doc[x] ELSE db.doc[x]
    BY <1>1, WrittenRows, Scopes DEF IInv
  <2>4. seen[r].doc[x] # Absent => db.doc[x] = seen[r].doc[x]
    BY SeenTables
  <2>5. First # Absent
    BY DEF First, Absent
  <2> QED
    BY <1>0, <2>1, <2>2, <2>3, <2>4, <2>5
<1>3. ASSUME NEW c \in Colonies
      PROVE  Written(r).processed[c] = Effect(r, db).processed[c]
  <2>1. Effect(r, seen[r]).processed = seen[r].processed /\ Effect(r, db).processed = db.processed
    BY BothTables, CreateEffect
  <2>2. seen[r].ledger[c] = {} /\ seen[r].processed[c] \subseteq db.processed[c]
    BY SeenTables
  <2>3. Written(r).processed[c] = db.processed[c] \cup (Effect(r, seen[r]).processed[c] \ seen[r].processed[c])
    BY <1>1, WrittenRows DEF IInv
  <2> QED
    BY <2>1, <2>2, <2>3
<1>4. ASSUME NEW c \in Colonies
      PROVE  Written(r).ledger[c] = Effect(r, db).ledger[c]
  <2>1. Written(r).ledger[c] = db.ledger[c] \cup Effect(r, seen[r]).ledger[c]
    BY <1>1, WrittenRows DEF IInv
  <2>2. Effect(r, seen[r]).ledger[c] =
          IF c = Req[r].colony THEN seen[r].ledger[c] \cup {<<seen[r].doc[c] + 1, r>>} ELSE seen[r].ledger[c]
    BY BothTables, CreateEffect
  <2>3. Effect(r, db).ledger[c] =
          IF c = Req[r].colony THEN db.ledger[c] \cup {<<db.doc[c] + 1, r>>} ELSE db.ledger[c]
    BY BothTables, CreateEffect
  <2>4. seen[r].ledger[c] = {}
    BY SeenTables
  <2> QED
    BY <1>0, <2>1, <2>2, <2>3, <2>4
<1> QED
  BY <1>1, <1>2, <1>3, <1>4, TablesEqual

\* An acceptance: the trade, and an entry in the ledgers of both colonies.
LEMMA AcceptWrites ==
  ASSUME IInv, NEW r \in Requests, Ready(r), Req[r].kind = "accept"
  PROVE  Written(r) = Effect(r, db)
<1>0. \A x \in Between[Req[r].trade] : db.doc[x] = seen[r].doc[x]
  BY NamedByKind, WhatWasRead
<1>1. Effect(r, seen[r]) \in Tables /\ Effect(r, db) \in Tables /\ Written(r) \in Tables
  BY SeenTables, AcceptEffect, WrittenRows DEF IInv
<1>2. ASSUME NEW x \in Rows
      PROVE  Written(r).doc[x] = Effect(r, db).doc[x]
  <2>1. Effect(r, db).doc[x] =
          IF x = Req[r].trade THEN Accepted
          ELSE IF x \in Between[Req[r].trade] THEN db.doc[x] + 1 ELSE db.doc[x]
    BY BothTables, AcceptEffect
  <2>2. Effect(r, seen[r]).doc[x] =
          IF x = Req[r].trade THEN Accepted
          ELSE IF x \in Between[Req[r].trade] THEN seen[r].doc[x] + 1 ELSE seen[r].doc[x]
    BY BothTables, AcceptEffect
  <2>3. Written(r).doc[x] =
          IF Effect(r, seen[r]).doc[x] # seen[r].doc[x] THEN Effect(r, seen[r]).doc[x] ELSE db.doc[x]
    BY <1>1, WrittenRows, Scopes DEF IInv
  <2>4. seen[r].doc[x] # Absent => db.doc[x] = seen[r].doc[x]
    BY SeenTables
  <2>5. Accepted # Absent
    BY DEF Accepted, Absent
  <2> QED
    BY <1>0, <2>1, <2>2, <2>3, <2>4, <2>5
<1>3. ASSUME NEW c \in Colonies
      PROVE  Written(r).processed[c] = Effect(r, db).processed[c]
  <2>1. Effect(r, seen[r]).processed = seen[r].processed /\ Effect(r, db).processed = db.processed
    BY BothTables, AcceptEffect
  <2>2. seen[r].ledger[c] = {} /\ seen[r].processed[c] \subseteq db.processed[c]
    BY SeenTables
  <2>3. Written(r).processed[c] = db.processed[c] \cup (Effect(r, seen[r]).processed[c] \ seen[r].processed[c])
    BY <1>1, WrittenRows DEF IInv
  <2> QED
    BY <2>1, <2>2, <2>3
<1>4. ASSUME NEW c \in Colonies
      PROVE  Written(r).ledger[c] = Effect(r, db).ledger[c]
  <2>1. Written(r).ledger[c] = db.ledger[c] \cup Effect(r, seen[r]).ledger[c]
    BY <1>1, WrittenRows DEF IInv
  <2>2. Effect(r, seen[r]).ledger[c] =
          IF c \in Between[Req[r].trade] THEN seen[r].ledger[c] \cup {<<seen[r].doc[c] + 1, r>>}
          ELSE seen[r].ledger[c]
    BY BothTables, AcceptEffect
  <2>3. Effect(r, db).ledger[c] =
          IF c \in Between[Req[r].trade] THEN db.ledger[c] \cup {<<db.doc[c] + 1, r>>} ELSE db.ledger[c]
    BY BothTables, AcceptEffect
  <2>4. seen[r].ledger[c] = {}
    BY SeenTables
  <2> QED
    BY <1>0, <2>1, <2>2, <2>3, <2>4
<1> QED
  BY <1>1, <1>2, <1>3, <1>4, TablesEqual

\* An import: the envelope, and an entry in the ledger of the colony.
LEMMA ImportWrites ==
  ASSUME IInv, NEW r \in Requests, Ready(r), Req[r].kind = "import"
  PROVE  Written(r) = Effect(r, db)
<1>0. db.doc[Req[r].colony] = seen[r].doc[Req[r].colony] /\ Req[r].colony \in Rows
  BY NamedByKind, WhatWasRead, TablesApart
<1>1. Effect(r, seen[r]) \in Tables /\ Effect(r, db) \in Tables /\ Written(r) \in Tables
  BY SeenTables, ImportEffect, WrittenRows DEF IInv
<1>2. ASSUME NEW x \in Rows
      PROVE  Written(r).doc[x] = Effect(r, db).doc[x]
  <2>1. Effect(r, db).doc[x] = IF x = Req[r].colony THEN db.doc[x] + 1 ELSE db.doc[x]
    BY BothTables, ImportEffect
  <2>2. Effect(r, seen[r]).doc[x] = IF x = Req[r].colony THEN seen[r].doc[x] + 1 ELSE seen[r].doc[x]
    BY BothTables, ImportEffect
  <2>3. Written(r).doc[x] =
          IF Effect(r, seen[r]).doc[x] # seen[r].doc[x] THEN Effect(r, seen[r]).doc[x] ELSE db.doc[x]
    BY <1>1, WrittenRows, Scopes DEF IInv
  <2>4. seen[r].doc[x] # Absent => db.doc[x] = seen[r].doc[x]
    BY SeenTables
  <2> QED
    BY <1>0, <2>1, <2>2, <2>3, <2>4
<1>3. ASSUME NEW c \in Colonies
      PROVE  Written(r).processed[c] = Effect(r, db).processed[c]
  <2>1. Written(r).processed[c] = db.processed[c] \cup (Effect(r, seen[r]).processed[c] \ seen[r].processed[c])
    BY <1>1, WrittenRows DEF IInv
  <2>2. Effect(r, seen[r]).processed[c] =
          IF c = Req[r].colony THEN seen[r].processed[c] \cup {Req[r].envelope} ELSE seen[r].processed[c]
    BY BothTables, ImportEffect
  <2>3. Effect(r, db).processed[c] =
          IF c = Req[r].colony THEN db.processed[c] \cup {Req[r].envelope} ELSE db.processed[c]
    BY BothTables, ImportEffect
  <2>4. seen[r].processed[c] \subseteq db.processed[c]
    BY SeenTables
  <2> QED
    BY <2>1, <2>2, <2>3, <2>4
<1>4. ASSUME NEW c \in Colonies
      PROVE  Written(r).ledger[c] = Effect(r, db).ledger[c]
  <2>1. Written(r).ledger[c] = db.ledger[c] \cup Effect(r, seen[r]).ledger[c]
    BY <1>1, WrittenRows DEF IInv
  <2>2. Effect(r, seen[r]).ledger[c] =
          IF c = Req[r].colony THEN seen[r].ledger[c] \cup {<<seen[r].doc[c] + 1, r>>} ELSE seen[r].ledger[c]
    BY BothTables, ImportEffect
  <2>3. Effect(r, db).ledger[c] =
          IF c = Req[r].colony THEN db.ledger[c] \cup {<<db.doc[c] + 1, r>>} ELSE db.ledger[c]
    BY BothTables, ImportEffect
  <2>4. seen[r].ledger[c] = {}
    BY SeenTables
  <2> QED
    BY <1>0, <2>1, <2>2, <2>3, <2>4
<1> QED
  BY <1>1, <1>2, <1>3, <1>4, TablesEqual

\* A commit serves its request, as the abstract store does.
LEMMA CommitServes ==
  ASSUME IInv, NEW r \in Requests, pc[r] = "commit"
  PROVE  Allowed(Req[r], db) /\ Written(r) = Effect(r, db)
<1>1. Ready(r)
  BY DEF Ready
<1>2. Allowed(Req[r], db)
  BY <1>1, RightlyAllowed DEF IInv, Own, Persisted
<1> QED
  BY <1>1, <1>2, RequestKinds, LoginWrites, ResetWrites, BootstrapWrites, CreateWrites, AcceptWrites,
     ImportWrites DEF Kinds
-----------------------------------------------------------------------------
(***************************************************************************)
(* What a commit leaves alone: rows that others hold, and rows that are    *)
(* there, except sessions.                                                 *)
(***************************************************************************)
\* What a request named and read is locked.
LEMMA WhatIsHeld ==
  ASSUME IInv, NEW r \in Requests, Ready(r)
  PROVE  /\ \A x \in NamedRows(r) : holder[x] = r /\ db.doc[x] \in Nat
         /\ \A t \in SessionScope(r) : Stored(db, t) => holder[t] = r
<1>1. \A x \in NamedRows(r) : x \in Rows /\ Read(r, x)
  BY WhatWasRead, NamedByKind, TablesApart
<1>2. \A t \in SessionScope(r) : t \in Rows /\ db.doc[t] = seen[r].doc[t]
  BY WhatWasRead, TablesApart DEF SessionScope
<1>3. \A x \in Rows : Read(r, x) => holder[x] = r /\ db.doc[x] = seen[r].doc[x]
  BY DEF IInv, Own, Faithful
<1>4. \A x \in Rows : db.doc[x] \in Nat \cup {Absent}
  BY BothTables, TablesFields
<1> QED
  BY <1>1, <1>2, <1>3, <1>4 DEF Read, Stored

\* Who inserts a user inserts a row that was not there.
LEMMA InsertsAreNew ==
  ASSUME NEW r \in Requests, Req[r].kind \in {"create", "bootstrap"},
         \A name \in Inserts(r) : ~NameTaken(db, name)
  PROVE  ~Stored(db, Req[r].user)
<1>1. Name[Req[r].user] \in Inserts(r) /\ Req[r].user \in Users
  BY RequestKinds DEF Inserts
<1> QED
  BY <1>1 DEF NameTaken

\* A row after the commit of r.
Changed(r, new, x) ==
  /\ new.doc[x] # db.doc[x] => holder[x] = r \/ ~Stored(db, x)
  /\ Stored(db, x) /\ ~Stored(new, x) => x \in Tokens
  /\ ~Stored(db, x) /\ Stored(new, x) =>
       \/ Req[r].kind \in {"login", "bootstrap"} /\ x = Req[r].token
       \/ Req[r].kind \in {"create", "bootstrap"} /\ x = Req[r].user

Changes(r, new) ==
  /\ new \in Tables
  /\ \A x \in Rows : Changed(r, new, x)
  /\ \A c \in Colonies : db.processed[c] \subseteq new.processed[c]
  /\ Req[r].kind \in {"login", "bootstrap"} => Stored(new, Req[r].user)

\* A commit changes rows that are locked, or makes the rows of its request.
LEMMA CommitChanges ==
  ASSUME IInv, NEW r \in Requests, pc[r] = "commit"
  PROVE  Changes(r, Effect(r, db))
<1> DEFINE new == Effect(r, db)
<1>1. Ready(r)
  BY DEF Ready
<1>2. db \in Tables /\ \A x \in Rows : db.doc[x] \in Nat \cup {Absent}
  BY BothTables, TablesFields
<1>3. \A x \in NamedRows(r) : holder[x] = r /\ db.doc[x] \in Nat
  BY <1>1, WhatIsHeld
<1>4. \A t \in SessionScope(r) : Stored(db, t) => holder[t] = r
  BY <1>1, WhatIsHeld
<1>5. \A name \in Inserts(r) : ~NameTaken(db, name)
  BY DEF IInv, Own, Persisted
<1>6. Req[r].kind \in Kinds
  BY RequestKinds
<1>7. Users \cap Tokens = {} /\ Expired \subseteq Tokens
  BY RequestAssumption
<1>8. Live # Absent /\ First # Absent /\ Accepted # Absent /\ Absent \notin Nat
      /\ \A x \in Rows : db.doc[x] \in Nat => db.doc[x] + 1 # Absent
  BY DEF Live, First, Accepted, Absent
<1>9. CASE Req[r].kind = "login"
  <2>1. new \in Tables /\ new.processed = db.processed
    BY <1>2, <1>9, LoginEffect
  <2>2. \A x \in Rows : new.doc[x] =
          IF x = Req[r].token THEN Live ELSE IF x \in Expired THEN Absent ELSE db.doc[x]
    BY <1>2, <1>9, LoginEffect
  <2>3. Req[r].token \in SessionScope(r)
    <3>1. Req[r].token \in Tokens /\ Owner[Req[r].token] = Req[r].user
      BY <1>9, RequestKinds, RequestAssumption
    <3>2. Req[r].user \in Sc(r).userSessions
      BY <1>9, Scopes
    <3> QED
      BY <3>1, <3>2 DEF SessionScope
  <2>4. \A t \in Expired : holder[t] = r \/ ~Stored(db, t)
    BY <1>1, <1>9, WhatWasRead, Scopes
  <2>5. Req[r].user \in NamedRows(r) /\ Req[r].user \in Users /\ Req[r].user \in Rows
    BY <1>9, NamedByKind, RequestKinds, TablesApart
  <2>6. Req[r].token \in Tokens
    BY <1>9, RequestKinds
  <2>7. Stored(new, Req[r].user)
    BY <1>3, <1>7, <1>8, <2>2, <2>5, <2>6 DEF Stored
  <2> HIDE DEF new
  <2>20. ASSUME NEW x \in Rows PROVE Changed(r, new, x)
    BY <1>4, <1>7, <1>8, <1>9, <2>2, <2>3, <2>4 DEF Changed, Stored
  <2>21. Changes(r, new)
    BY <2>1, <2>7, <2>20 DEF Changes
  <2> QED
    BY <2>21 DEF new
<1>10. CASE Req[r].kind = "reset"
  <2>1. Req[r].user \in NamedRows(r) /\ Req[r].user \in Users /\ Req[r].user \in Rows
    BY <1>10, NamedByKind, RequestKinds, TablesApart
  <2>2. new \in Tables /\ new.processed = db.processed
    BY <1>2, <1>3, <1>10, <2>1, ResetEffect
  <2>3. \A x \in Rows : new.doc[x] =
          IF x = Req[r].user THEN db.doc[x] + 1
          ELSE IF x \in SessionsOf(Req[r].user) THEN Absent ELSE db.doc[x]
    BY <1>2, <1>3, <1>10, <2>1, ResetEffect
  <2>4. SessionsOf(Req[r].user) \subseteq SessionScope(r) /\ SessionsOf(Req[r].user) \subseteq Tokens
    BY <1>10, Scopes DEF SessionsOf, SessionScope
  <2> HIDE DEF new
  <2>5. db.doc[Req[r].user] \in Nat /\ holder[Req[r].user] = r /\ new.doc[Req[r].user] # Absent
    BY <1>3, <1>8, <2>1, <2>3
  <2>20. ASSUME NEW x \in Rows PROVE Changed(r, new, x)
    BY <1>4, <1>8, <1>10, <2>3, <2>4, <2>5 DEF Changed, Stored
  <2>21. Changes(r, new)
    BY <1>10, <2>2, <2>20 DEF Changes
  <2> QED
    BY <2>21 DEF new
<1>11. CASE Req[r].kind = "bootstrap"
  <2>1. new \in Tables /\ new.processed = db.processed
    BY <1>2, <1>11, BootstrapEffect
  <2>2. \A x \in Rows : new.doc[x] =
          IF x = Req[r].token THEN Live ELSE IF x = Req[r].user THEN First ELSE db.doc[x]
    BY <1>2, <1>11, BootstrapEffect
  <2>3. ~Stored(db, Req[r].user)
    BY <1>5, <1>11, InsertsAreNew
  <2>4. Req[r].token \in Tokens /\ Owner[Req[r].token] = Req[r].user
    BY <1>11, RequestKinds, RequestAssumption
  <2>5. ~Stored(db, Req[r].token)
    BY <2>3, <2>4 DEF IInv, Related
  <2>6. Req[r].user \in Rows
    BY <1>11, RequestKinds, TablesApart
  <2> HIDE DEF new
  <2>7. Stored(new, Req[r].user)
    BY <1>8, <2>2, <2>6 DEF Stored
  <2>20. ASSUME NEW x \in Rows PROVE Changed(r, new, x)
    BY <1>8, <1>11, <2>2, <2>3, <2>5 DEF Changed, Stored
  <2>21. Changes(r, new)
    BY <2>1, <2>7, <2>20 DEF Changes
  <2> QED
    BY <2>21 DEF new
<1>12. CASE Req[r].kind = "create"
  <2>1. new \in Tables /\ new.processed = db.processed
    BY <1>2, <1>12, CreateEffect
  <2>2. \A x \in Rows : new.doc[x] =
          IF x = Req[r].user THEN First ELSE IF x = Req[r].colony THEN db.doc[x] + 1 ELSE db.doc[x]
    BY <1>2, <1>12, CreateEffect
  <2>3. ~Stored(db, Req[r].user)
    BY <1>5, <1>12, InsertsAreNew
  <2>4. holder[Req[r].colony] = r /\ db.doc[Req[r].colony] \in Nat
    BY <1>3, <1>12, NamedByKind
  <2> HIDE DEF new
  <2>20. ASSUME NEW x \in Rows PROVE Changed(r, new, x)
    BY <1>8, <1>12, <2>2, <2>3, <2>4 DEF Changed, Stored
  <2>21. Changes(r, new)
    BY <1>12, <2>1, <2>20 DEF Changes
  <2> QED
    BY <2>21 DEF new
<1>13. CASE Req[r].kind = "accept"
  <2>1. new \in Tables /\ new.processed = db.processed
    BY <1>2, <1>13, AcceptEffect
  <2>2. \A x \in Rows : new.doc[x] =
          IF x = Req[r].trade THEN Accepted
          ELSE IF x \in Between[Req[r].trade] THEN db.doc[x] + 1 ELSE db.doc[x]
    BY <1>2, <1>13, AcceptEffect
  <2>3. holder[Req[r].trade] = r /\ db.doc[Req[r].trade] \in Nat
        /\ \A x \in Between[Req[r].trade] : holder[x] = r /\ db.doc[x] \in Nat
    BY <1>3, <1>13, NamedByKind
  <2> HIDE DEF new
  <2>20. ASSUME NEW x \in Rows PROVE Changed(r, new, x)
    BY <1>8, <1>13, <2>2, <2>3 DEF Changed, Stored
  <2>21. Changes(r, new)
    BY <1>13, <2>1, <2>20 DEF Changes
  <2> QED
    BY <2>21 DEF new
<1>14. CASE Req[r].kind = "import"
  <2>1. new \in Tables
    BY <1>2, <1>14, ImportEffect
  <2>2. \A x \in Rows : new.doc[x] = IF x = Req[r].colony THEN db.doc[x] + 1 ELSE db.doc[x]
    BY <1>2, <1>14, ImportEffect
  <2>3. ASSUME NEW c \in Colonies PROVE db.processed[c] \subseteq new.processed[c]
    <3>1. new.processed[c] =
            IF c = Req[r].colony THEN db.processed[c] \cup {Req[r].envelope} ELSE db.processed[c]
      BY <1>2, <1>14, ImportEffect
    <3> QED
      BY <3>1
  <2>4. holder[Req[r].colony] = r /\ db.doc[Req[r].colony] \in Nat
    BY <1>3, <1>14, NamedByKind
  <2> HIDE DEF new
  <2>20. ASSUME NEW x \in Rows PROVE Changed(r, new, x)
    BY <1>8, <1>14, <2>2, <2>4 DEF Changed, Stored
  <2>21. Changes(r, new)
    BY <1>14, <2>1, <2>3, <2>20 DEF Changes
  <2> QED
    BY <2>21 DEF new
<1> QED
  BY <1>6, <1>9, <1>10, <1>11, <1>12, <1>13, <1>14 DEF Kinds
-----------------------------------------------------------------------------
(***************************************************************************)
(* The requests that a step is not of keep what they rely on.              *)
(***************************************************************************)
Unmoved(s) ==
  /\ pc'[s] = pc[s] /\ todo'[s] = todo[s] /\ seen'[s] = seen[s] /\ reply'[s] = reply[s]
  /\ \A x \in Rows : holder'[x] = s <=> holder[x] = s

\* When the tables do not change.
LEMMA OthersKeep ==
  ASSUME IInv, NEW s \in Requests, Unmoved(s), db' = db
  PROVE  Own(s)'
<1> USE DEF Unmoved
<1>0. Own(s)
  BY DEF IInv
<1>1. Holds(s)'
  BY <1>0 DEF Own, Holds, Active, Stored
<1>2. Faithful(s)'
  BY <1>0 DEF Own, Faithful, Read
<1>3. LockTaken(s)'
  BY <1>0 DEF Own, LockTaken, Active, Read
<1>4. RowsRead(s)'
  BY <1>0 DEF Own, RowsRead, Past, Read
<1>5. SessionsRead(s)'
  BY <1>0 DEF Own, SessionsRead, Read, Stored
<1>6. Pruned(s)'
  <2> SUFFICES ASSUME pc'[s] \in {"prune", "commit"}, Sc(s).prune, NEW t \in Expired
               PROVE  (pc'[s] = "prune" /\ t \in todo'[s]) \/ holder'[t] = s \/ ~Stored(db', t)
    BY DEF Pruned
  <2>1. t \in Rows
    BY RequestAssumption, TablesApart
  <2> QED
    BY <1>0, <2>1 DEF Own, Pruned
<1>7. UserThere(s)'
  BY <1>0 DEF Own, UserThere, Active, Stored
<1>8. UsersRead(s)'
  BY <1>0 DEF Own, UsersRead, Past, Read, Stored
<1>9. Persisted(s)'
  BY <1>0 DEF Own, Persisted, NameTaken, Stored
<1>10. Told(s)' /\ Queues(s)'
  BY <1>0 DEF Own, Told, Queues
<1> QED
  BY <1>1, <1>2, <1>3, <1>4, <1>5, <1>6, <1>7, <1>8, <1>9, <1>10 DEF Own

\* When another one commits.
LEMMA OthersKeepAtCommit ==
  ASSUME IInv, NEW r \in Requests, pc[r] = "commit", NEW s \in Requests, s # r,
         Unmoved(s), Changes(r, db')
  PROVE  Own(s)'
<1> USE DEF Unmoved
<1>0. Own(s) /\ Own(r) /\ Ready(r)
  BY DEF IInv, Ready
<1>a. \A x \in Rows : holder[x] = s => db'.doc[x] = db.doc[x]
  BY <1>0 DEF Changes, Changed, Own, Holds
<1>b. \A x \in Rows : Stored(db, x) /\ ~Stored(db', x) => x \in Tokens
  BY DEF Changes, Changed
<1>c. \A x \in Rows : ~Stored(db, x) /\ Stored(db', x) =>
        \/ Req[r].kind \in {"login", "bootstrap"} /\ x = Req[r].token
        \/ Req[r].kind \in {"create", "bootstrap"} /\ x = Req[r].user
  BY DEF Changes, Changed
<1>d. Users \cap Tokens = {} /\ Expired \subseteq Tokens
  BY RequestAssumption
<1>e. Req[r].kind \in {"create", "bootstrap"} => Req[r].user \in Users
  BY RequestKinds
<1>1. Holds(s)'
  BY <1>0, <1>a DEF Own, Holds, Active, Stored
<1>2. Faithful(s)'
  <2>1. \A c \in Colonies : db.processed[c] \subseteq db'.processed[c]
    BY DEF Changes
  <2> QED
    BY <1>0, <1>a, <2>1 DEF Own, Faithful, Read
<1>3. LockTaken(s)'
  BY <1>0 DEF Own, LockTaken, Active, Read
<1>4. RowsRead(s)'
  BY <1>0 DEF Own, RowsRead, Past, Read
<1>5. SessionsRead(s)'
  <2> SUFFICES ASSUME pc[s] \in {"sessions", "prune", "commit"}, NEW t \in SessionScope(s),
                      ~Stored(db, t), Stored(db', t)
               PROVE  FALSE
    BY <1>0 DEF Own, SessionsRead, Read
  <2>1. t \in Tokens /\ t \in Rows /\ (t \in Sc(s).tokens \/ Owner[t] \in Sc(s).userSessions)
    BY TablesApart DEF SessionScope
  <2>2. Req[r].kind \in {"login", "bootstrap"} /\ t = Req[r].token
    BY <1>c, <1>d, <1>e, <2>1
  <2>3. t \in NewTokens /\ Owner[t] = Req[r].user
    BY <2>2, NewNotExpired, RequestAssumption
  <2>4. t \notin Sc(s).tokens
    <3>1. Req[s].kind \in {"create", "accept", "import"} => Req[s].token \notin NewTokens
      BY RequestAssumption
    <3>2. Sc(s).tokens = IF Req[s].kind \in {"create", "accept", "import"} THEN {Req[s].token} ELSE {}
      BY Scopes
    <3> QED
      BY <2>3, <3>1, <3>2
  <2>5. Req[s].kind \in {"login", "reset"} /\ Req[s].user = Req[r].user
    <3>1. Sc(s).userSessions = IF Req[s].kind \in {"login", "reset"} THEN {Req[s].user} ELSE {}
      BY Scopes
    <3> QED
      BY <2>1, <2>3, <2>4, <3>1
  <2>6. Req[s].user \in NamedRows(s) /\ Req[s].user \in Rows /\ Stored(db, Req[s].user)
    BY <1>0, <2>5, NamedByKind, RequestKinds, TablesApart DEF Own, UserThere, Active
  <2>7. holder[Req[s].user] = s
    BY <1>0, <2>6 DEF Own, RowsRead, Past, Faithful
  <2>8. CASE Req[r].kind = "login"
    BY <1>0, <2>5, <2>6, <2>7, <2>8, NamedByKind, WhatIsHeld
  <2>9. CASE Req[r].kind = "bootstrap"
    BY <1>0, <2>5, <2>6, <2>9, InsertsAreNew DEF Own, Persisted
  <2> QED
    BY <2>2, <2>8, <2>9
<1>6. Pruned(s)'
  <2> SUFFICES ASSUME pc[s] \in {"prune", "commit"}, Sc(s).prune, NEW t \in Expired
               PROVE  (pc[s] = "prune" /\ t \in todo[s]) \/ holder'[t] = s \/ ~Stored(db', t)
    BY DEF Pruned
  <2>1. t \in Rows /\ t \in Tokens
    BY <1>d, TablesApart
  <2>2. ~Stored(db, t) => ~Stored(db', t)
    BY <1>c, <1>d, <1>e, <2>1, NewNotExpired
  <2> QED
    BY <1>0, <2>1, <2>2 DEF Own, Pruned
<1>7. UserThere(s)'
  <2>1. Req[s].kind \in {"login", "reset"} => Req[s].user \in Users /\ Req[s].user \in Rows
    BY RequestKinds, TablesApart
  <2> QED
    BY <1>0, <1>b, <1>d, <2>1 DEF Own, UserThere, Active
<1>8. UsersRead(s)'
  <2> SUFFICES ASSUME Past(s), Sc(s).allUsers
               PROVE  \/ \E u \in Users : (pc[s] = "rows" /\ u \in todo[s] /\ Stored(db', u)) \/ Read(s, u)
                      \/ \A u \in Users : ~Stored(db', u)
    BY DEF UsersRead, Past, Read
  <2>1. \A u \in Users : Stored(db, u) => Stored(db', u)
    BY <1>b, <1>d, TablesApart
  <2>2. CASE \E u \in Users : (pc[s] = "rows" /\ u \in todo[s] /\ Stored(db, u)) \/ Read(s, u)
    BY <2>1, <2>2
  <2>3. CASE \A u \in Users : ~Stored(db, u)
    <3>1. Req[r].kind # "create"
      <4> SUFFICES ASSUME Req[r].kind = "create" PROVE FALSE
        OBVIOUS
      <4>1. SignedIn(db, Req[r].token)
        BY CommitServes DEF Allowed
      <4>2. Req[r].token \in Tokens /\ Stored(db, Owner[Req[r].token]) /\ Owner[Req[r].token] \in Users
        BY <4>1, RequestKinds, RequestAssumption DEF SignedIn, IInv, Related
      <4> QED
        BY <2>3, <4>2
    <3>2. Req[r].kind # "bootstrap"
      <4> SUFFICES ASSUME Req[r].kind = "bootstrap" PROVE FALSE
        OBVIOUS
      <4>1. Sc(r).lock /\ Sc(s).lock
        BY Scopes
      <4>2. Read(r, AdvisoryLock) /\ Read(s, AdvisoryLock)
        BY <1>0, <4>1 DEF Own, LockTaken, Active, Past
      <4> QED
        BY <1>0, <4>2, TablesApart DEF Own, Faithful
    <3>3. ASSUME NEW u \in Users, Stored(db', u) PROVE FALSE
      <4>1. Req[r].kind \in {"login"} /\ u = Req[r].token
        BY <1>c, <2>3, <3>1, <3>2, <3>3, TablesApart
      <4> QED
        BY <1>d, <4>1, RequestKinds
    <3> QED
      BY <3>3
  <2> QED
    BY <1>0, <2>2, <2>3 DEF Own, UsersRead
<1>9. Persisted(s)'
  <2> SUFFICES ASSUME pc[s] = "commit"
               PROVE  Allowed(Req[s], seen[s]) /\ \A name \in Inserts(s) : ~NameTaken(db', name)
    BY DEF Persisted
  <2>1. Allowed(Req[s], seen[s]) /\ \A name \in Inserts(s) : ~NameTaken(db, name)
    BY <1>0 DEF Own, Persisted
  <2>2. Inserts(s) \cap Inserts(r) = {}
    BY DEF IInv, Apart
  <2>3. ASSUME NEW name \in Inserts(s), NameTaken(db', name) PROVE FALSE
    <3>1. PICK u \in Users : Stored(db', u) /\ Name[u] = name
      BY <2>3 DEF NameTaken
    <3>2. ~Stored(db, u)
      BY <2>1, <3>1 DEF NameTaken
    <3>3. Req[r].kind \in {"create", "bootstrap"} /\ u = Req[r].user
      BY <1>c, <1>d, <3>1, <3>2, RequestKinds, TablesApart
    <3>4. name \in Inserts(r)
      BY <3>1, <3>3 DEF Inserts
    <3> QED
      BY <2>2, <3>4
  <2> QED
    BY <2>1, <2>3
<1>10. Told(s)' /\ Queues(s)'
  BY <1>0 DEF Own, Told, Queues
<1> QED
  BY <1>1, <1>2, <1>3, <1>4, <1>5, <1>6, <1>7, <1>8, <1>9, <1>10 DEF Own
-----------------------------------------------------------------------------
(***************************************************************************)
(* Every step keeps the invariant.                                         *)
(***************************************************************************)
\* A step of r that leaves the tables alone keeps the invariant if it keeps
\* what r relies on.
LEMMA QuietStep ==
  ASSUME IInv, NEW r \in Requests, db' = db, TypeOK', Apart', Own(r)',
         \A s \in Requests : s # r => Unmoved(s)
  PROVE  IInv'
<1>1. Related'
  BY DEF IInv, Related, Stored
<1>2. \A s \in Requests : Own(s)'
  BY OthersKeep
<1> QED
  BY <1>1, <1>2 DEF IInv

\* Nobody is in the middle of a commit who was not before.
LEMMA ApartKept ==
  ASSUME IInv, NEW r \in Requests, pc \in [Requests -> Places], NEW p, p # "commit",
         pc' = [pc EXCEPT ![r] = p]
  PROVE  Apart'
<1>1. \A s \in Requests : pc'[s] = "commit" => pc[s] = "commit"
  OBVIOUS
<1> QED
  BY <1>1 DEF IInv, Apart, Inserts

\* The transaction of r has ended.
LEMMA EndedOwn ==
  ASSUME NEW r \in Requests, pc'[r] \in {"idle", "done"}, seen'[r] = Nothing, todo'[r] = {},
         pc'[r] = "done" \/ reply'[r] = "none", \A x \in Rows : holder'[x] # r
  PROVE  Own(r)'
<1>1. \A x \in Rows : Nothing.doc[x] = Absent
  BY DEF Nothing
<1>2. \A c \in Colonies : Nothing.ledger[c] = {} /\ Nothing.processed[c] = {}
  BY DEF Nothing
<1>3. Faithful(r)'
  BY <1>1, <1>2 DEF Faithful, Read
<1> QED
  BY <1>3 DEF Own, Holds, Active, LockTaken, RowsRead, Past, SessionsRead, Pruned, UserThere, UsersRead,
              Persisted, Told, Queues

\* Nothing is a state of the tables.
LEMMA NothingIsTables == Nothing \in Tables
BY DEF Nothing, Tables

\* What the end of a transaction leaves.
LEMMA EndOf ==
  ASSUME TypeOK, NEW r \in Requests, End(r)
  PROVE  /\ todo' \in [Requests -> SUBSET Rows] /\ seen' \in [Requests -> Tables]
         /\ holder' \in [Rows -> Requests \cup {NoRequest}]
         /\ todo'[r] = {} /\ seen'[r] = Nothing /\ \A x \in Rows : holder'[x] # r
         /\ \A s \in Requests : s # r => /\ todo'[s] = todo[s] /\ seen'[s] = seen[s]
                                         /\ \A x \in Rows : holder'[x] = s <=> holder[x] = s
BY NothingIsTables, StoreAssumption DEF TypeOK, End

\* An answered request leaves the others alone.
LEMMA AnswerOf ==
  ASSUME TypeOK, NEW r \in Requests, NEW answer \in Replies, Answer(r, answer), db' \in Tables
  PROVE  /\ TypeOK' /\ Own(r)'
         /\ pc' = [pc EXCEPT ![r] = "done"] /\ reply' = [reply EXCEPT ![r] = answer]
         /\ \A s \in Requests : s # r => Unmoved(s)
<1>1. End(r)
  BY DEF Answer
<1>2. /\ pc' \in [Requests -> Places] /\ pc'[r] = "done"
      /\ \A s \in Requests : s # r => pc'[s] = pc[s] /\ reply'[s] = reply[s]
      /\ reply' \in [Requests -> Replies]
  BY DEF TypeOK, Answer, Places
<1>3. TypeOK'
  BY <1>1, <1>2, EndOf DEF TypeOK, Answer
<1>4. Own(r)'
  BY <1>1, <1>2, EndOf, EndedOwn
<1> QED
  BY <1>1, <1>2, <1>3, <1>4, EndOf DEF Answer, Unmoved

\* A request that is answered and wrote nothing.
LEMMA QuietAnswer ==
  ASSUME IInv, NEW r \in Requests, NEW answer \in Replies, Answer(r, answer), db' = db
  PROVE  IInv'
<1>1. TypeOK /\ db' \in Tables /\ pc \in [Requests -> Places]
  BY DEF IInv, TypeOK
<1>2. TypeOK' /\ Own(r)' /\ pc' = [pc EXCEPT ![r] = "done"]
  BY <1>1, AnswerOf
<1>3. \A s \in Requests : s # r => Unmoved(s)
  BY <1>1, AnswerOf
<1>4. Apart'
  BY <1>1, <1>2, ApartKept
<1> QED
  BY <1>2, <1>3, <1>4, QuietStep

\* A victim starts again, or gives up.
LEMMA VictimKeeps ==
  ASSUME IInv, NEW r \in Requests, Victim(r)
  PROVE  IInv'
<1>1. CASE attempt[r] + 1 < MaxAttempts
  <2>1. TypeOK /\ db' = db /\ End(r) /\ pc \in [Requests -> Places]
    BY <1>1 DEF Victim, IInv, TypeOK
  <2>2. /\ pc' = [pc EXCEPT ![r] = "idle"] /\ attempt' = [attempt EXCEPT ![r] = @ + 1]
        /\ issued' = issued /\ reply' = reply
    BY <1>1 DEF Victim
  <2>3. attempt' \in [Requests -> 0 .. MaxAttempts - 1]
    BY <1>1, <2>1, <2>2, StoreAssumption DEF TypeOK
  <2>4. pc' \in [Requests -> Places] /\ pc'[r] = "idle" /\ \A s \in Requests : s # r => pc'[s] = pc[s]
    BY <2>1, <2>2 DEF Places
  <2>5. TypeOK'
    BY <2>1, <2>2, <2>3, <2>4, EndOf DEF TypeOK
  <2>6. reply[r] = "none"
    <3>1. todo[r] # {}
      BY DEF Victim, Queuing
    <3>2. pc[r] # "done"
      BY <3>1 DEF IInv, Own, Queues, Locking
    <3> QED
      BY <3>2 DEF IInv, Own, Told
  <2>7. Own(r)'
    BY <2>1, <2>2, <2>4, <2>6, EndOf, EndedOwn
  <2>8. \A s \in Requests : s # r => Unmoved(s)
    BY <2>1, <2>2, <2>4, EndOf DEF Unmoved
  <2>9. Apart'
    BY <2>1, <2>2, ApartKept
  <2> QED
    BY <2>1, <2>5, <2>7, <2>8, <2>9, QuietStep
<1>2. CASE ~(attempt[r] + 1 < MaxAttempts)
  BY <1>2, QuietAnswer DEF Victim, Replies
<1> QED
  BY <1>1, <1>2

\* BeginTx and the advisory lock.
LEMMA BeginKeeps ==
  ASSUME IInv, NEW r \in Requests, Begin(r)
  PROVE  IInv'
<1>0. TypeOK /\ Own(r) /\ pc[r] = "idle" /\ db' = db /\ pc \in [Requests -> Places]
  BY DEF IInv, Begin, TypeOK
<1>1. /\ pc' \in [Requests -> Places] /\ pc'[r] = "lock"
      /\ \A s \in Requests : s # r => pc'[s] = pc[s] /\ todo'[s] = todo[s]
      /\ todo'[r] = IF Sc(r).lock THEN {AdvisoryLock} ELSE {}
      /\ todo' \in [Requests -> SUBSET Rows]
  BY <1>0, TablesApart DEF TypeOK, Begin, Places, Locking
<1>2. TypeOK'
  BY <1>0, <1>1 DEF TypeOK, Begin
<1>3. \A s \in Requests : s # r => Unmoved(s)
  BY <1>1 DEF Unmoved, Begin
<1>4. Apart'
  BY <1>0, ApartKept DEF Begin
<1>5. Holds(r)' /\ Faithful(r)'
  BY <1>0 DEF Own, Holds, Faithful, Active, Read, Begin
<1>6. LockTaken(r)'
  BY <1>1 DEF LockTaken
<1>7. RowsRead(r)' /\ SessionsRead(r)' /\ Pruned(r)' /\ UsersRead(r)' /\ Persisted(r)'
  BY <1>1 DEF RowsRead, SessionsRead, Pruned, UsersRead, Persisted, Past
<1>8. UserThere(r)'
  BY <1>0 DEF UserThere, Begin, Stored
<1>9. Told(r)' /\ Queues(r)'
  BY <1>0, <1>1 DEF Own, Told, Queues, Locking, Begin
<1>10. Own(r)'
  BY <1>5, <1>6, <1>7, <1>8, <1>9 DEF Own
<1> QED
  BY <1>0, <1>2, <1>3, <1>4, <1>10, QuietStep

\* What it discovers are rows, and all the rows it names.
LEMMA DiscoveredRows ==
  ASSUME NEW r \in Requests, NEW rows \in Discovered(r)
  PROVE  /\ rows \subseteq Users \cup Trades \cup Colonies /\ NamedRows(r) \subseteq rows
         /\ Sc(r).allUsers /\ (\E u \in Users : Stored(db, u)) => \E u \in Users : Stored(db, u) /\ u \in rows
<1> DEFINE sc     == Sc(r)
           actors == {Owner[t] : t \in {s \in sc.tokens : SignedIn(db, s)}}
           named  == {u \in Users : Stored(db, u) /\ Name[u] \in sc.usernames}
           base   == sc.users \cup actors \cup named \cup sc.trades \cup sc.colonies
                       \cup UNION {Parties[t] \cup Between[t] : t \in sc.trades}
           all    == {u \in Users : Stored(db, u)}
<1>1. Discovered(r) = IF sc.allUsers /\ all # {} THEN {base \cup {u} : u \in all} ELSE {base}
  BY DEF Discovered
<1>2. NamedRows(r) \subseteq base
  BY DEF NamedRows
<1>3. base \subseteq Users \cup Trades \cup Colonies
  <2>1. sc.users \cup sc.trades \cup sc.colonies \subseteq Users \cup Trades \cup Colonies
    BY NamedByKind DEF NamedRows
  <2>2. sc.tokens \subseteq Tokens /\ sc.trades \subseteq Trades
    <3>1. /\ Req[r].kind \in {"create", "accept", "import"} => Req[r].token \in Tokens
          /\ Req[r].kind = "accept" => Req[r].trade \in Trades
      BY RequestKinds
    <3>2. sc.tokens = IF Req[r].kind \in {"create", "accept", "import"} THEN {Req[r].token} ELSE {}
      BY Scopes
    <3>3. sc.trades = IF Req[r].kind = "accept" THEN {Req[r].trade} ELSE {}
      BY Scopes
    <3> QED
      BY <3>1, <3>2, <3>3
  <2>3. actors \subseteq Users
    BY <2>2, RequestAssumption
  <2>4. UNION {Parties[t] \cup Between[t] : t \in sc.trades} \subseteq Users \cup Colonies
    BY <2>2, RequestAssumption
  <2> HIDE DEF sc, actors
  <2> QED
    BY <2>1, <2>3, <2>4
<1> HIDE DEF base
<1>4. CASE sc.allUsers /\ all # {}
  <2>1. PICK u \in all : rows = base \cup {u}
    BY <1>1, <1>4
  <2> QED
    BY <1>2, <1>3, <2>1
<1>5. CASE ~(sc.allUsers /\ all # {})
  <2>1. rows = base
    BY <1>1, <1>5
  <2> QED
    BY <1>2, <1>3, <1>5, <2>1
<1> QED
  BY <1>4, <1>5

\* Discovery: the rows in scope are to be locked.
LEMMA DiscoverKeeps ==
  ASSUME IInv, NEW r \in Requests, Discover(r)
  PROVE  IInv'
<1>0. TypeOK /\ Own(r) /\ pc[r] = "lock" /\ todo[r] = {} /\ db' = db /\ pc \in [Requests -> Places]
  BY DEF IInv, Discover, TypeOK
<1>a. PICK rows \in Discovered(r) : todo' = [todo EXCEPT ![r] = rows]
  BY DEF Discover
<1>b. rows \subseteq Rows /\ NamedRows(r) \subseteq rows
  BY DiscoveredRows, TablesApart
<1>1. /\ pc' \in [Requests -> Places] /\ pc'[r] = "rows"
      /\ \A s \in Requests : s # r => pc'[s] = pc[s] /\ todo'[s] = todo[s]
      /\ todo'[r] = rows
      /\ todo' \in [Requests -> SUBSET Rows]
  BY <1>0, <1>a, <1>b DEF TypeOK, Discover, Places, Locking
<1>2. TypeOK'
  BY <1>0, <1>1 DEF TypeOK, Discover
<1>3. \A s \in Requests : s # r => Unmoved(s)
  BY <1>1 DEF Unmoved, Discover
<1>4. Apart'
  BY <1>0, ApartKept DEF Discover
<1>5. Holds(r)' /\ Faithful(r)'
  BY <1>0, <1>1 DEF Own, Holds, Faithful, Active, Read, Discover, Stored
<1>6. LockTaken(r)'
  BY <1>0 DEF Own, LockTaken, Active, Read, Discover
<1>7. RowsRead(r)'
  BY <1>1, <1>b DEF RowsRead
<1>8. SessionsRead(r)' /\ Pruned(r)' /\ Persisted(r)'
  BY <1>1 DEF SessionsRead, Pruned, Persisted
<1>9. UsersRead(r)'
  <2>1. Sc(r).allUsers /\ (\E u \in Users : Stored(db, u)) => \E u \in Users : Stored(db, u) /\ u \in rows
    BY DiscoveredRows
  <2> QED
    BY <1>0, <1>1, <2>1 DEF UsersRead, Stored
<1>10. UserThere(r)'
  BY <1>0 DEF Own, UserThere, Active, Discover, Stored
<1>11. Told(r)' /\ Queues(r)'
  BY <1>0, <1>1 DEF Own, Told, Queues, Locking, Discover
<1>12. Own(r)'
  BY <1>5, <1>6, <1>7, <1>8, <1>9, <1>10, <1>11 DEF Own
<1> QED
  BY <1>0, <1>2, <1>3, <1>4, <1>12, QuietStep

\* The sessions in scope are to be locked.
LEMMA SelectSessionsKeeps ==
  ASSUME IInv, NEW r \in Requests, SelectSessions(r)
  PROVE  IInv'
<1>0. TypeOK /\ Own(r) /\ pc[r] = "rows" /\ todo[r] = {} /\ db' = db /\ pc \in [Requests -> Places]
  BY DEF IInv, SelectSessions, TypeOK
<1>a. SessionsInScope(r) \subseteq Rows /\ \A t \in SessionScope(r) : Stored(db, t) => t \in SessionsInScope(r)
  BY TablesApart DEF SessionsInScope, SessionScope
<1>1. /\ pc' \in [Requests -> Places] /\ pc'[r] = "sessions"
      /\ \A s \in Requests : s # r => pc'[s] = pc[s] /\ todo'[s] = todo[s]
      /\ todo'[r] = SessionsInScope(r)
      /\ todo' \in [Requests -> SUBSET Rows]
  BY <1>0, <1>a DEF TypeOK, SelectSessions, Places, Locking
<1>2. TypeOK'
  BY <1>0, <1>1 DEF TypeOK, SelectSessions
<1>3. \A s \in Requests : s # r => Unmoved(s)
  BY <1>1 DEF Unmoved, SelectSessions
<1>4. Apart'
  BY <1>0, ApartKept DEF SelectSessions
<1>5. Holds(r)' /\ Faithful(r)'
  BY <1>0, <1>1 DEF Own, Holds, Faithful, Active, Read, SelectSessions, Stored
<1>6. LockTaken(r)'
  BY <1>0 DEF Own, LockTaken, Active, Read, SelectSessions
<1>7. RowsRead(r)'
  BY <1>0 DEF Own, RowsRead, Past, Read, SelectSessions
<1>8. SessionsRead(r)'
  BY <1>0, <1>1, <1>a DEF SessionsRead, Stored
<1>9. Pruned(r)' /\ Persisted(r)'
  BY <1>1 DEF Pruned, Persisted
<1>10. UsersRead(r)'
  BY <1>0 DEF Own, UsersRead, Past, Read, SelectSessions, Stored
<1>11. UserThere(r)'
  BY <1>0 DEF Own, UserThere, Active, SelectSessions, Stored
<1>12. Told(r)' /\ Queues(r)'
  BY <1>0, <1>1 DEF Own, Told, Queues, Locking, SelectSessions
<1>13. Own(r)'
  BY <1>5, <1>6, <1>7, <1>8, <1>9, <1>10, <1>11, <1>12 DEF Own
<1> QED
  BY <1>0, <1>2, <1>3, <1>4, <1>13, QuietStep

\* What is stored under the locked colonies is read; sessions are to be pruned.
LEMMA SelectChildrenKeeps ==
  ASSUME IInv, NEW r \in Requests, SelectChildren(r)
  PROVE  IInv'
<1> DEFINE p   == [c \in Colonies |-> IF c \in Sc(r).colonies THEN db.processed[c] ELSE {}]
           new == [seen[r] EXCEPT !.processed = p]
           due == IF Sc(r).prune THEN {t \in Expired : Stored(db, t)} ELSE {}
<1>0. TypeOK /\ Own(r) /\ pc[r] = "sessions" /\ todo[r] = {} /\ db' = db /\ pc \in [Requests -> Places]
  BY DEF IInv, SelectChildren, TypeOK
<1>a. p \in [Colonies -> SUBSET Envelopes] /\ \A c \in Colonies : p[c] \subseteq db.processed[c]
  BY BothTables, TablesFields
<1> HIDE DEF p
<1>b. seen[r] \in Tables
  BY BothTables
<1>c. new = [doc |-> seen[r].doc, processed |-> p, ledger |-> seen[r].ledger]
  BY <1>b DEF Tables
<1>d. new \in Tables
  BY <1>a, <1>b, <1>c, TablesFields DEF Tables
<1>e. seen' = [seen EXCEPT ![r] = new]
  BY DEF SelectChildren, p
<1> HIDE DEF new
<1>f. seen' \in [Requests -> Tables] /\ seen'[r] = new /\ \A s \in Requests : s # r => seen'[s] = seen[s]
  BY <1>0, <1>d, <1>e DEF TypeOK
<1>g. due \subseteq Rows
  BY RequestAssumption, TablesApart
<1>h. todo' = [todo EXCEPT ![r] = due]
  BY DEF SelectChildren
<1>i. \A x : Read(r, x)' <=> Read(r, x)
  BY <1>c, <1>f DEF Read
<1>1. /\ pc' \in [Requests -> Places] /\ pc'[r] = "prune"
      /\ \A s \in Requests : s # r => pc'[s] = pc[s] /\ todo'[s] = todo[s]
      /\ todo'[r] = due
      /\ todo' \in [Requests -> SUBSET Rows]
  BY <1>0, <1>g, <1>h DEF TypeOK, SelectChildren, Places, Locking
<1>2. TypeOK'
  BY <1>0, <1>1, <1>f DEF TypeOK, SelectChildren
<1>3. \A s \in Requests : s # r => Unmoved(s)
  BY <1>1, <1>f DEF Unmoved, SelectChildren
<1>4. Apart'
  BY <1>0, ApartKept DEF SelectChildren
<1>5. Holds(r)'
  BY <1>0, <1>1 DEF Own, Holds, Active, SelectChildren, Stored
<1>6. Faithful(r)'
  <2>1. \A c \in Colonies : seen'[r].ledger[c] = {} /\ seen'[r].processed[c] \subseteq db'.processed[c]
    BY <1>0, <1>a, <1>c, <1>f DEF Own, Faithful
  <2>2. \A x \in Rows : seen'[r].doc[x] = seen[r].doc[x]
    BY <1>c, <1>f
  <2> QED
    BY <1>0, <2>1, <2>2 DEF Own, Faithful, Read, SelectChildren
<1>7. LockTaken(r)'
  BY <1>0, <1>i, TablesApart DEF Own, LockTaken, Active
<1>8. RowsRead(r)'
  BY <1>0, <1>i DEF Own, RowsRead, Past
<1>9. SessionsRead(r)'
  BY <1>0, <1>i DEF Own, SessionsRead, Stored
<1>10. Pruned(r)'
  BY <1>0, <1>1 DEF Pruned, Stored
<1>11. UsersRead(r)'
  BY <1>0, <1>i DEF Own, UsersRead, Past, Stored
<1>12. Persisted(r)'
  BY <1>1 DEF Persisted
<1>13. UserThere(r)'
  BY <1>0 DEF Own, UserThere, Active, SelectChildren, Stored
<1>14. Told(r)' /\ Queues(r)'
  BY <1>0, <1>1 DEF Own, Told, Queues, Locking, SelectChildren
<1>15. Own(r)'
  BY <1>5, <1>6, <1>7, <1>8, <1>9, <1>10, <1>11, <1>12, <1>13, <1>14 DEF Own
<1> QED
  BY <1>0, <1>2, <1>3, <1>4, <1>15, QuietStep

\* What a lock changes, of r and of the others.
LEMMA LockOf ==
  ASSUME IInv, NEW r \in Requests, NEW x \in todo[r], Lock(r, x)
  PROVE  /\ x \in Rows /\ pc' = pc /\ db' = db /\ reply' = reply
         /\ todo'[r] = todo[r] \ {x} /\ todo' \in [Requests -> SUBSET Rows]
         /\ seen' \in [Requests -> Tables]
         /\ seen'[r] = IF pc[r] = "prune" THEN seen[r] ELSE With(seen[r], x, db.doc[x])
         /\ holder' \in [Rows -> Requests \cup {NoRequest}]
         /\ \A y \in Rows : holder'[y] = IF y = x /\ Stored(db, x) THEN r ELSE holder[y]
         /\ holder[x] \in {NoRequest, r}
         /\ \A s \in Requests : s # r => Unmoved(s)
<1>1. TypeOK /\ x \in Rows
  BY DEF IInv, TypeOK
<1>2. pc' = pc /\ db' = db /\ reply' = reply /\ holder[x] \in {NoRequest, r}
  BY DEF Lock
<1>3. /\ todo'[r] = todo[r] \ {x} /\ todo' \in [Requests -> SUBSET Rows]
      /\ \A s \in Requests : s # r => todo'[s] = todo[s]
  BY <1>1 DEF Lock, TypeOK
<1>4. With(seen[r], x, db.doc[x]) \in Tables
  <2>1. db.doc[x] \in Nat \cup {Absent}
    BY <1>1, BothTables, TablesFields
  <2> QED
    BY <1>1, <2>1, BothTables, WithRow
<1>5. /\ seen' \in [Requests -> Tables]
      /\ seen'[r] = IF pc[r] = "prune" THEN seen[r] ELSE With(seen[r], x, db.doc[x])
      /\ \A s \in Requests : s # r => seen'[s] = seen[s]
  <2>1. seen \in [Requests -> Tables]
    BY <1>1 DEF TypeOK
  <2>2. CASE pc[r] = "prune"
    BY <2>1, <2>2 DEF Lock
  <2>3. CASE pc[r] # "prune"
    <3>1. seen' = [seen EXCEPT ![r] = With(seen[r], x, db.doc[x])]
      BY <2>1, <2>3 DEF Lock
    <3> QED
      BY <1>4, <2>1, <2>3, <3>1
  <2> QED
    BY <2>2, <2>3
<1>6. /\ holder' \in [Rows -> Requests \cup {NoRequest}]
      /\ \A y \in Rows : holder'[y] = IF y = x /\ Stored(db, x) THEN r ELSE holder[y]
  <2>1. holder \in [Rows -> Requests \cup {NoRequest}]
    BY <1>1 DEF TypeOK
  <2> QED
    BY <1>1, <2>1 DEF Lock
<1>7. \A s \in Requests : s # r => \A y \in Rows : holder'[y] = s <=> holder[y] = s
  BY <1>2, <1>6, StoreAssumption
<1>8. \A s \in Requests : s # r => Unmoved(s)
  BY <1>2, <1>3, <1>5, <1>7 DEF Unmoved
<1> QED
  BY <1>1, <1>2, <1>3, <1>5, <1>6, <1>8

\* A row is locked and read, or found missing.
LEMMA LockKeeps ==
  ASSUME IInv, NEW r \in Requests, NEW x \in todo[r], Lock(r, x)
  PROVE  IInv'
<1>0. TypeOK /\ Own(r) /\ pc[r] \in Locking /\ pc[r] # "commit"
  BY DEF IInv, Lock, Locking
<1>a. /\ x \in Rows /\ pc' = pc /\ db' = db /\ reply' = reply
      /\ todo'[r] = todo[r] \ {x}
      /\ seen'[r] = IF pc[r] = "prune" THEN seen[r] ELSE With(seen[r], x, db.doc[x])
      /\ \A y \in Rows : holder'[y] = IF y = x /\ Stored(db, x) THEN r ELSE holder[y]
      /\ holder[x] \in {NoRequest, r}
  BY LockOf
<1>1. seen[r] \in Tables /\ db.doc[x] \in Nat \cup {Absent}
  BY <1>a, BothTables, TablesFields
<1> DEFINE w == With(seen[r], x, db.doc[x])
<1>b. /\ \A y \in Rows : w.doc[y] = IF y = x THEN db.doc[x] ELSE seen[r].doc[y]
      /\ w.processed = seen[r].processed /\ w.ledger = seen[r].ledger
  <2> DEFINE d == seen[r]
             v == db.doc[x]
  <2>1. x \in Rows /\ d \in Tables /\ v \in Nat \cup {Absent}
    BY <1>1, <1>a
  <2>2. w = With(d, x, v)
    OBVIOUS
  <2> HIDE DEF d, v, w
  <2>3. /\ \A y \in Rows : With(d, x, v).doc[y] = IF y = x THEN v ELSE d.doc[y]
        /\ With(d, x, v).processed = d.processed /\ With(d, x, v).ledger = d.ledger
    BY <2>1, WithRow
  <2> QED
    BY <2>2, <2>3 DEF d, v
<1>c. seen'[r] = IF pc[r] = "prune" THEN seen[r] ELSE w
  BY <1>a
<1> HIDE DEF w
<1>2. \A y \in Rows : seen'[r].doc[y] = IF y = x /\ pc[r] # "prune" THEN db.doc[x] ELSE seen[r].doc[y]
  BY <1>b, <1>c
<1>3. seen'[r].processed = seen[r].processed /\ seen'[r].ledger = seen[r].ledger
  BY <1>b, <1>c

\* What was read is read, and x is if it is there.
<1>4. \A y \in Rows : Read(r, y) => Read(r, y)'
  BY <1>0, <1>2 DEF Own, Faithful, Read
<1>5. pc[r] # "prune" /\ Stored(db, x) => Read(r, x)'
  BY <1>2, <1>a DEF Read, Stored
<1>6. TypeOK'
  BY LockOf DEF IInv, TypeOK, Lock
<1>7. Apart'
  BY <1>a DEF IInv, Apart
<1>8. Holds(r)'
  <2>1. pc[r] \notin {"idle", "done"}
    BY <1>0 DEF Locking
  <2> QED
    BY <1>0, <1>a, <2>1 DEF Own, Holds, Active, Stored
<1>9. Faithful(r)'
  <2>1. ASSUME NEW y \in Rows, Read(r, y)' PROVE holder'[y] = r /\ db'.doc[y] = seen'[r].doc[y]
    BY <1>0, <1>2, <1>a, <2>1 DEF Own, Faithful, Read, Stored
  <2>2. \A c \in Colonies : seen'[r].ledger[c] = {} /\ seen'[r].processed[c] \subseteq db'.processed[c]
    BY <1>0, <1>3, <1>a DEF Own, Faithful
  <2> QED
    BY <2>1, <2>2 DEF Faithful
<1>10. LockTaken(r)'
  <2>1. Stored(db, AdvisoryLock)
    BY DEF IInv, Related
  <2> QED
    BY <1>0, <1>4, <1>5, <1>a, <2>1, TablesApart DEF Own, LockTaken, Active
<1>11. RowsRead(r)'
  <2> SUFFICES ASSUME Past(r), NEW y \in NamedRows(r)
               PROVE  (pc[r] = "rows" /\ y \in todo'[r]) \/ Read(r, y)'
    BY <1>a DEF RowsRead, Past
  <2>1. Stored(db, y) /\ y \in Rows
    BY NamedStored DEF Active, Past
  <2>2. (pc[r] = "rows" /\ y \in todo[r]) \/ Read(r, y)
    BY <1>0 DEF Own, RowsRead
  <2> QED
    BY <1>4, <1>5, <1>a, <2>1, <2>2
<1>12. SessionsRead(r)'
  <2> SUFFICES ASSUME pc[r] \in {"sessions", "prune", "commit"}, NEW t \in SessionScope(r)
               PROVE  (pc[r] = "sessions" /\ t \in todo'[r]) \/ Read(r, t)' \/ ~Stored(db, t)
    BY <1>a DEF SessionsRead, Stored
  <2>1. (pc[r] = "sessions" /\ t \in todo[r]) \/ Read(r, t) \/ ~Stored(db, t)
    BY <1>0 DEF Own, SessionsRead
  <2>2. t \in Rows
    BY TablesApart DEF SessionScope
  <2> QED
    BY <1>4, <1>5, <1>a, <2>1, <2>2
<1>13. Pruned(r)'
  <2> SUFFICES ASSUME pc[r] \in {"prune", "commit"}, Sc(r).prune, NEW t \in Expired
               PROVE  (pc[r] = "prune" /\ t \in todo'[r]) \/ holder'[t] = r \/ ~Stored(db, t)
    BY <1>a DEF Pruned, Stored
  <2>1. (pc[r] = "prune" /\ t \in todo[r]) \/ holder[t] = r \/ ~Stored(db, t)
    BY <1>0 DEF Own, Pruned
  <2>2. t \in Rows
    BY RequestAssumption, TablesApart
  <2> QED
    BY <1>a, <2>1, <2>2
<1>14. UsersRead(r)'
  <2> SUFFICES ASSUME Past(r), Sc(r).allUsers
               PROVE  \/ \E u \in Users : (pc[r] = "rows" /\ u \in todo'[r] /\ Stored(db, u)) \/ Read(r, u)'
                      \/ \A u \in Users : ~Stored(db, u)
    BY <1>a DEF UsersRead, Past, Stored
  <2>1. \/ \E u \in Users : (pc[r] = "rows" /\ u \in todo[r] /\ Stored(db, u)) \/ Read(r, u)
        \/ \A u \in Users : ~Stored(db, u)
    BY <1>0 DEF Own, UsersRead
  <2> QED
    BY <1>4, <1>5, <1>a, <2>1, TablesApart
<1>15. UserThere(r)' /\ Persisted(r)' /\ Told(r)' /\ Queues(r)'
  BY <1>0, <1>a DEF Own, UserThere, Persisted, Told, Queues, Active, Stored
<1>16. Own(r)'
  BY <1>8, <1>9, <1>10, <1>11, <1>12, <1>13, <1>14, <1>15 DEF Own
<1> QED
  BY <1>6, <1>7, <1>16, <1>a, LockOf, QuietStep

\* The names that are inserted are free, and no one else inserts them.
LEMMA PersistKeeps ==
  ASSUME IInv, NEW r \in Requests, Persist(r)
  PROVE  IInv'
<1>0. TypeOK /\ Own(r) /\ pc[r] = "prune" /\ todo[r] = {} /\ db' = db /\ pc \in [Requests -> Places]
  BY DEF IInv, Persist, Loaded, TypeOK
<1>1. pc' \in [Requests -> Places] /\ pc'[r] = "commit" /\ \A s \in Requests : s # r => pc'[s] = pc[s]
  BY <1>0 DEF Persist, Places
<1>2. TypeOK'
  BY <1>0, <1>1 DEF TypeOK, Persist
<1>3. \A s \in Requests : s # r => Unmoved(s)
  BY <1>1 DEF Unmoved, Persist
<1>4. Apart'
  <2> SUFFICES ASSUME NEW a \in Requests, NEW b \in Requests, a # b, pc'[a] = "commit", pc'[b] = "commit"
               PROVE  Inserts(a) \cap Inserts(b) = {}
    BY DEF Apart
  <2>1. CASE a # r /\ b # r
    BY <1>1, <2>1 DEF IInv, Apart
  <2>2. CASE a = r \/ b = r
    BY <1>1, <2>2 DEF Persist
  <2> QED
    BY <2>1, <2>2
<1>5. Holds(r)' /\ Faithful(r)'
  BY <1>0, <1>1 DEF Own, Holds, Faithful, Active, Read, Persist, Stored
<1>6. LockTaken(r)'
  BY <1>0 DEF Own, LockTaken, Active, Read, Persist
<1>7. RowsRead(r)'
  BY <1>0 DEF Own, RowsRead, Past, Read, Persist
<1>8. SessionsRead(r)' /\ Pruned(r)'
  BY <1>0, <1>1 DEF Own, SessionsRead, Pruned, Read, Stored, Persist
<1>9. UsersRead(r)'
  BY <1>0 DEF Own, UsersRead, Past, Read, Persist, Stored
<1>10. Persisted(r)'
  <2>1. Allowed(Req[r], seen'[r])
    BY DEF Persist
  <2> QED
    BY <2>1 DEF Persisted, Persist, NameTaken, Stored
<1>11. UserThere(r)' /\ Told(r)' /\ Queues(r)'
  BY <1>0, <1>1 DEF Own, UserThere, Told, Queues, Active, Persist, Stored
<1>12. Own(r)'
  BY <1>5, <1>6, <1>7, <1>8, <1>9, <1>10, <1>11 DEF Own
<1> QED
  BY <1>0, <1>2, <1>3, <1>4, <1>12, QuietStep

\* What is committed was locked, or was not there: the others do not notice.
LEMMA CommitKeeps ==
  ASSUME IInv, NEW r \in Requests, Commit(r)
  PROVE  IInv'
<1>1. TypeOK /\ pc[r] = "commit" /\ pc \in [Requests -> Places]
  BY DEF IInv, Commit, TypeOK
<1>2. db' = Effect(r, db) /\ Changes(r, db')
  BY <1>1, CommitServes, CommitChanges DEF Commit
<1>3. db' \in Tables
  BY <1>2 DEF Changes
<1>4. PICK answer \in {"ok", "error"} : Answer(r, answer)
  BY DEF Commit
<1>5. answer \in Replies
  BY DEF Replies
<1>6. TypeOK' /\ Own(r)' /\ pc' = [pc EXCEPT ![r] = "done"]
  BY <1>1, <1>3, <1>4, <1>5, AnswerOf
<1>7. \A s \in Requests : s # r => Unmoved(s)
  BY <1>1, <1>3, <1>4, <1>5, AnswerOf
<1>8. Apart'
  BY <1>1, <1>6, ApartKept
<1>9. \A s \in Requests : s # r => Own(s)'
  BY <1>1, <1>2, <1>7, OthersKeepAtCommit
<1>10. Related'
  <2>1. ASSUME NEW x \in Colonies \cup Trades \cup {AdvisoryLock} PROVE Stored(db', x)
    <3>1. x \in Rows /\ x \notin Tokens /\ Stored(db, x)
      BY TablesApart, RequestAssumption DEF IInv, Related
    <3> QED
      BY <1>2, <3>1 DEF Changes, Changed
  <2>2. ASSUME NEW t \in Tokens, Stored(db', t) PROVE Stored(db', Owner[t])
    <3>1. t \in Rows /\ Owner[t] \in Rows /\ Owner[t] \notin Tokens /\ t \notin Users
      BY TablesApart, RequestAssumption
    <3>2. CASE Stored(db, t)
      BY <1>2, <3>1, <3>2 DEF Changes, Changed, IInv, Related
    <3>3. CASE ~Stored(db, t)
      <4>1. Req[r].kind \in {"create", "bootstrap"} => Req[r].user \in Users
        BY RequestKinds
      <4>2. Req[r].kind \in {"login", "bootstrap"} /\ t = Req[r].token
        BY <1>2, <2>2, <3>1, <3>3, <4>1 DEF Changes, Changed
      <4>3. Owner[t] = Req[r].user
        BY <4>2, RequestAssumption
      <4> QED
        BY <1>2, <4>2, <4>3 DEF Changes
    <3> QED
      BY <3>2, <3>3
  <2> QED
    BY <2>1, <2>2 DEF Related
<1> QED
  BY <1>6, <1>8, <1>9, <1>10 DEF IInv

\* Nobody has begun.
LEMMA InitKeeps == Init => IInv
<1> SUFFICES ASSUME Init PROVE IInv
  OBVIOUS
<1>1. Possible(db)
  BY InitialAssumption DEF Init
<1>2. TypeOK
  <2>1. 0 \in 0 .. MaxAttempts - 1
    BY StoreAssumption
  <2> QED
    BY <1>1, <2>1, NothingIsTables DEF Init, TypeOK, Possible, Places, Replies
<1>3. Related
  BY <1>1 DEF Related, Possible
<1>4. Apart
  BY DEF Init, Apart
<1>5. ASSUME NEW r \in Requests PROVE Own(r)
  <2>1. /\ pc[r] = "idle" /\ todo[r] = {} /\ seen[r] = Nothing /\ reply[r] = "none"
        /\ \A x \in Rows : holder[x] # r
    BY StoreAssumption DEF Init
  <2>2. Faithful(r)
    BY <2>1 DEF Faithful, Read, Nothing
  <2> QED
    BY <2>1, <2>2 DEF Own, Holds, Active, LockTaken, RowsRead, Past, SessionsRead, Pruned, UserThere, UsersRead,
                      Persisted, Told, Queues
<1> QED
  BY <1>2, <1>3, <1>4, <1>5 DEF IInv

\* The invariant is inductive.
LEMMA StepKeeps ==
  ASSUME IInv, [Next]_vars
  PROVE  IInv'
<1>1. CASE UNCHANGED vars
  BY <1>1 DEF vars, IInv, TypeOK, Related, Apart, Own, Holds, Faithful, LockTaken, RowsRead, SessionsRead, Pruned,
              UserThere, UsersRead, Persisted, Told, Queues, Active, Read, Past, Stored, NameTaken
<1>2. ASSUME NEW r \in Requests, Step(r) \/ Victim(r) \/ Fail(r)
      PROVE  IInv'
  <2>1. CASE Refuse(r) \/ Conflict(r) \/ Fail(r)
    BY <2>1, QuietAnswer DEF Refuse, Conflict, Fail, Replies
  <2> QED
    BY <1>2, <2>1, BeginKeeps, DiscoverKeeps, SelectSessionsKeeps, SelectChildrenKeeps, LockKeeps, PersistKeeps,
       CommitKeeps, VictimKeeps DEF Step
<1> QED
  BY <1>1, <1>2 DEF Next

(***************************************************************************)
(* What each transaction relies on is so in every state.                   *)
(***************************************************************************)
THEOREM StoreSound == Spec => []IInv
<1>1. IInv /\ [Next]_vars => IInv'
  BY StepKeeps
<1> QED
  BY InitKeeps, <1>1, PTL DEF Spec

(***************************************************************************)
(* The variables of the store keep their types.                            *)
(***************************************************************************)
THEOREM StoreTypeCorrect == Spec => []TypeOK
<1>1. IInv => TypeOK
  BY DEF IInv
<1> QED
  BY StoreSound, <1>1, PTL

-----------------------------------------------------------------------------
(***************************************************************************)
(* Each step is one of the abstract store's, or none.                      *)
(***************************************************************************)
\* The abstract store has the requests of the detailed one.
LEMMA SameRequests ==
  ASSUME NEW r \in Requests
  PROVE  /\ \A d : Atomic!Allowed(Req[r], d) <=> Allowed(Req[r], d)
         /\ \A d : Atomic!Effect(r, d) = Effect(r, d)
<1>1. \A d : Atomic!Allowed(Req[r], d) <=> Allowed(Req[r], d)
  BY DEF Allowed, SignedIn, NameTaken, Stored, First, Offered, Absent, Atomic!Allowed, Atomic!SignedIn,
         Atomic!NameTaken, Atomic!Stored, Atomic!First, Atomic!Offered, Atomic!Absent
<1>2. \A d, x, v : Atomic!With(d, x, v) = With(d, x, v)
  BY DEF With, Rows, Atomic!With, Atomic!Rows
<1>3. \A d, S : Atomic!Without(d, S) = Without(d, S)
  BY DEF Without, Rows, Absent, Atomic!Without, Atomic!Rows, Atomic!Absent
<1>4. \A d, C : Atomic!Booked(d, r, C) = Booked(d, r, C)
  BY DEF Booked, Rows, Atomic!Booked, Atomic!Rows
<1>5. \A u : Atomic!SessionsOf(u) = SessionsOf(u)
  BY DEF SessionsOf, Atomic!SessionsOf
<1>6. \A d : Atomic!Effect(r, d) = Effect(r, d)
  BY <1>2, <1>3, <1>4, <1>5 DEF Effect, Live, First, Accepted, Atomic!Effect, Atomic!Live, Atomic!First,
     Atomic!Accepted
<1> QED
  BY <1>1, <1>6

\* A commit serves, a refusal and a conflict refuse, a failure fails; the other
\* steps cannot be seen.
LEMMA StepIsAtomic ==
  ASSUME IInv, [Next]_vars
  PROVE  [Atomic!Next]_<<db, reply>>
<1>1. CASE UNCHANGED vars
  BY <1>1 DEF vars
<1>2. ASSUME NEW r \in Requests, Step(r) \/ Victim(r) \/ Fail(r)
      PROVE  Atomic!Serve(r) \/ Atomic!Refuse(r) \/ Atomic!Fail(r) \/ UNCHANGED <<db, reply>>
  <2>0. Own(r)
    BY DEF IInv
  <2>1. CASE Begin(r) \/ Discover(r) \/ SelectSessions(r) \/ SelectChildren(r)
    BY <2>1 DEF Begin, Discover, SelectSessions, SelectChildren
  <2>2. CASE \E x \in todo[r] : Lock(r, x)
    BY <2>2 DEF Lock
  <2>3. CASE Persist(r)
    BY <2>3 DEF Persist
  <2>4. CASE Refuse(r)
    <3>1. Ready(r) /\ reply[r] = "none"
      BY <2>0, <2>4 DEF Refuse, Loaded, Ready, Own, Told
    <3>2. ~Allowed(Req[r], db)
      BY <2>4, <3>1, RightlyAllowed DEF Refuse
    <3>3. Atomic!Refuse(r)
      BY <2>4, <3>1, <3>2, SameRequests DEF Atomic!Refuse, Refuse, Answer
    <3> QED
      BY <3>3
  <2>5. CASE Conflict(r)
    <3>1. Ready(r) /\ reply[r] = "none"
      BY <2>0, <2>5 DEF Conflict, Loaded, Ready, Own, Told
    <3>2. ~Allowed(Req[r], db)
      BY <2>5, <3>1, RightlyAllowed DEF Conflict
    <3>3. Atomic!Refuse(r)
      BY <2>5, <3>1, <3>2, SameRequests DEF Atomic!Refuse, Conflict, Answer
    <3> QED
      BY <3>3
  <2>6. CASE Commit(r)
    <3>1. pc[r] = "commit" /\ reply[r] = "none"
      BY <2>0, <2>6 DEF Commit, Own, Told
    <3>2. Allowed(Req[r], db) /\ db' = Effect(r, db)
      BY <2>6, <3>1, CommitServes DEF Commit
    <3>3. Atomic!Serve(r)
      BY <2>6, <3>1, <3>2, SameRequests DEF Atomic!Serve, Commit, Answer
    <3> QED
      BY <3>3
  <2>7. CASE Victim(r)
    <3>1. reply[r] = "none"
      BY <2>0, <2>7 DEF Victim, Queuing, Own, Queues, Told, Locking
    <3>2. CASE attempt[r] + 1 < MaxAttempts
      BY <2>7, <3>2 DEF Victim
    <3>3. CASE ~(attempt[r] + 1 < MaxAttempts)
      <4>1. Atomic!Fail(r)
        BY <2>7, <3>1, <3>3 DEF Victim, Answer, Atomic!Fail
      <4> QED
        BY <4>1
    <3> QED
      BY <3>2, <3>3
  <2>8. CASE Fail(r)
    <3>1. Atomic!Fail(r)
      BY <2>0, <2>8 DEF Fail, Answer, Atomic!Fail, Own, Told
    <3> QED
      BY <3>1
  <2> QED
    BY <1>2, <2>1, <2>2, <2>3, <2>4, <2>5, <2>6, <2>7, <2>8 DEF Step
<1> QED
  BY <1>1, <1>2 DEF Next, Atomic!Next

(***************************************************************************)
(* However transactions interleave, fail and are retried, every request is  *)
(* served or refused in one step on all of the data, or fails: what         *)
(* handlers rely on when they decide by what UpdateScoped loaded.          *)
(***************************************************************************)
THEOREM StoreIsAtomic == Spec => ImplementsAtomicStore
<1>1. Init => Atomic!Init
  BY DEF Init, Atomic!Init
<1>2. IInv /\ [Next]_vars => [Atomic!Next]_<<db, reply>>
  BY StepIsAtomic
<1> QED
  BY StoreSound, <1>1, <1>2, PTL DEF Spec, ImplementsAtomicStore, Atomic!Spec
-----------------------------------------------------------------------------
(***************************************************************************)
(* Every deadlock has a request in it that prunes: until it prunes, a      *)
(* request waits for rows behind all that it holds, so of those that wait  *)
(* for one another one would wait for the last of all rows.                *)
(***************************************************************************)
\* A finite set has a minimal member in every family of its subsets.
LEMMA SmallestSubset ==
  ASSUME NEW S, IsFiniteSet(S), NEW F, F \subseteq SUBSET S, F # {}
  PROVE  \E U \in F : \A V \in F : ~(V \subseteq U /\ V # U)
<1>1. FiniteSubsetsOf(S) = SUBSET S
  BY FS_FiniteSubsetsOfFinite
<1>2. IsWellFoundedOn(StrictSubsetOrdering(S), SUBSET S)
  BY <1>1, FS_StrictSubsetOrderingWellFounded
<1>3. PICK U \in F : \A V \in F : ~(<<V, U>> \in StrictSubsetOrdering(S))
  BY <1>2, WFMin
<1>4. \A V \in F : V \in SUBSET S /\ U \in SUBSET S
  OBVIOUS
<1> QED
  BY <1>3, <1>4 DEF StrictSubsetOrdering

\* A set of numbers has a least one.
LEMMA LeastNatural ==
  ASSUME NEW T, T \subseteq Nat, T # {}
  PROVE  \E m \in T : \A k \in T : m <= k
<1>1. PICK n \in T : TRUE
  OBVIOUS
<1> DEFINE S == 0 .. n
           F == {0 .. k : k \in T \cap S}
<1>2. IsFiniteSet(S)
  BY FS_Interval
<1>3. F \subseteq SUBSET S /\ F # {}
  BY <1>1
<1> HIDE DEF F, S
<1>4. PICK U \in F : \A V \in F : ~(V \subseteq U /\ V # U)
  BY <1>2, <1>3, SmallestSubset
<1> USE DEF F, S
<1>5. PICK m \in T \cap S : U = 0 .. m
  BY <1>4
<1>6. ASSUME NEW k \in T, k < m PROVE FALSE
  <2>1. 0 .. k \in F
    BY <1>5, <1>6
  <2>2. 0 .. k \subseteq 0 .. m /\ m \notin 0 .. k /\ m \in 0 .. m
    BY <1>5, <1>6
  <2> QED
    BY <1>4, <1>5, <2>1, <2>2
<1> QED
  BY <1>5, <1>6

\* The order in which rows are locked.
\* The tables in the order of the statements.
LEMMA TableOf ==
  /\ Table(AdvisoryLock) = 0
  /\ \A x \in Colonies : Table(x) = 1
  /\ \A x \in Users : Table(x) = 2
  /\ \A x \in Trades : Table(x) = 3
  /\ \A x \in Tokens : Table(x) = 4
BY RequestAssumption DEF Table

\* Tables and ids are numbers.
LEMMA TableNat ==
  ASSUME NEW x \in Rows
  PROVE  Table(x) \in Nat /\ x \in Nat
BY TableOf, RequestAssumption DEF Rows

\* Before is a strict order.
LEMMA BeforeOrder ==
  /\ \A x \in Rows : ~Before(x, x)
  /\ \A x, y, z \in Rows : Before(x, y) /\ Before(y, z) => Before(x, z)
BY TableNat DEF Before

\* Of the rows to lock, one is first.
LEMMA LeastRow ==
  ASSUME NEW T, T \subseteq Rows, T # {}
  PROVE  \E x \in T : \A y \in T \ {x} : Before(x, y)
<1> DEFINE N == {Table(x) : x \in T}
<1>1. N \subseteq Nat /\ N # {}
  BY TableNat
<1>2. PICK m \in N : \A k \in N : m <= k
  BY <1>1, LeastNatural
<1> DEFINE L == {x \in T : Table(x) = m}
<1>3. L \subseteq Nat /\ L # {}
  BY <1>2, TableNat
<1>4. PICK x \in L : \A y \in L : x <= y
  BY <1>3, LeastNatural
<1>5. ASSUME NEW y \in T \ {x} PROVE Before(x, y)
  <2>1. Table(x) = m /\ Table(y) \in N /\ x \in Rows /\ y \in Rows
    BY <1>4
  <2>2. m <= Table(y) /\ m \in Nat
    BY <1>1, <1>2, <2>1
  <2>3. x \in Nat /\ y \in Nat /\ Table(y) \in Nat
    BY <2>1, TableNat
  <2>4. CASE Table(y) = m
    <3>1. x <= y
      BY <1>4, <2>4
    <3> QED
      BY <1>5, <2>1, <2>3, <2>4, <3>1 DEF Before
  <2>5. CASE Table(y) # m
    BY <2>1, <2>2, <2>3, <2>5 DEF Before
  <2> QED
    BY <2>4, <2>5
<1> QED
  BY <1>4, <1>5

\* Of finitely many rows, one is not before any other.
LEMMA LastRow ==
  ASSUME NEW S, IsFiniteSet(S), S # {}, NEW w, \A s \in S : w[s] \in Rows
  PROVE  \E r \in S : \A s \in S : ~Before(w[r], w[s])
<1> DEFINE Behind(r) == {s \in S : Before(w[r], w[s])}
           F == {Behind(r) : r \in S}
<1>1. F \subseteq SUBSET S /\ F # {}
  OBVIOUS
<1> HIDE DEF F
<1>2. PICK U \in F : \A V \in F : ~(V \subseteq U /\ V # U)
  BY <1>1, SmallestSubset
<1> USE DEF F
<1>3. PICK r \in S : U = Behind(r)
  BY <1>2
<1>4. ASSUME NEW s \in S, Before(w[r], w[s]) PROVE FALSE
  <2>1. Behind(s) \in F
    OBVIOUS
  <2>2. Behind(s) \subseteq Behind(r)
    BY <1>4, BeforeOrder
  <2>3. s \in Behind(r) /\ s \notin Behind(s)
    BY <1>4, BeforeOrder
  <2> QED
    BY <1>2, <1>3, <2>1, <2>2, <2>3
<1> QED
  BY <1>3, <1>4

-----------------------------------------------------------------------------
\* A request that does not prune yet waits for rows behind those it holds.
InOrder(r) ==
  /\ pc[r] = "lock" => \A x \in Rows : holder[x] = r => x = AdvisoryLock
  /\ pc[r] = "rows" => \A x \in Rows : holder[x] = r \/ x \in todo[r] => x \notin Tokens
  /\ pc[r] = "lock" => todo[r] \subseteq {AdvisoryLock}
  /\ pc[r] = "prune" /\ ~Sc(r).prune => todo[r] = {}
  /\ pc[r] # "prune" => \A x \in Rows : \A y \in todo[r] : holder[x] = r => Before(x, y)

OInv == IInv /\ \A r \in Requests : InOrder(r)

\* A step of one request does not touch another.
LEMMA OthersUnmoved ==
  ASSUME IInv, NEW r \in Requests, Step(r) \/ Victim(r) \/ Fail(r), NEW s \in Requests, s # r
  PROVE  Unmoved(s)
<1>0. TypeOK /\ db' \in Tables
  BY StepKeeps DEF IInv, TypeOK, Next
<1>1. CASE Begin(r) \/ Discover(r) \/ SelectSessions(r) \/ Persist(r)
  BY <1>0, <1>1 DEF Begin, Discover, SelectSessions, Persist, TypeOK, Unmoved
<1>2. CASE SelectChildren(r)
  BY <1>0, <1>2 DEF SelectChildren, TypeOK, Unmoved
<1>3. CASE \E x \in todo[r] : Lock(r, x)
  BY <1>3, LockOf
<1>4. ASSUME NEW answer \in Replies, Answer(r, answer) PROVE Unmoved(s)
  BY <1>0, <1>4, AnswerOf
<1>5. CASE Refuse(r) \/ Conflict(r) \/ Fail(r)
  BY <1>4, <1>5 DEF Refuse, Conflict, Fail, Replies
<1>6. CASE Commit(r)
  BY <1>4, <1>6 DEF Commit, Replies
<1>7. CASE Victim(r)
  <2>1. CASE attempt[r] + 1 < MaxAttempts
    <3>1. End(r) /\ pc' = [pc EXCEPT ![r] = "idle"] /\ reply' = reply
      BY <1>7, <2>1 DEF Victim
    <3> QED
      BY <1>0, <3>1, EndOf DEF Unmoved, TypeOK
  <2>2. CASE ~(attempt[r] + 1 < MaxAttempts)
    BY <1>4, <1>7, <2>2 DEF Victim, Replies
  <2> QED
    BY <2>1, <2>2
<1> QED
  BY <1>1, <1>2, <1>3, <1>5, <1>6, <1>7 DEF Step

\* A request whose transaction ended waits for nothing.
LEMMA EndInOrder ==
  ASSUME IInv, NEW r \in Requests,
         Refuse(r) \/ Conflict(r) \/ Commit(r) \/ Victim(r) \/ Fail(r)
  PROVE  InOrder(r)'
<1>1. TypeOK /\ pc \in [Requests -> Places]
  BY DEF IInv, TypeOK
<1>2. End(r) /\ pc'[r] \in {"idle", "done"}
  BY <1>1 DEF Refuse, Conflict, Commit, Victim, Fail, Answer
<1>3. todo'[r] = {}
  BY <1>1, <1>2, EndOf
<1> QED
  BY <1>2, <1>3 DEF InOrder

\* A row that is locked is before those that are still to be locked.
LEMMA LockInOrder ==
  ASSUME OInv, NEW r \in Requests, NEW x \in todo[r], Lock(r, x)
  PROVE  InOrder(r)'
<1>1. IInv /\ InOrder(r)
  BY DEF OInv
<1>2. /\ x \in Rows /\ pc' = pc /\ todo'[r] = todo[r] \ {x}
      /\ \A y \in Rows : holder'[y] = IF y = x /\ Stored(db, x) THEN r ELSE holder[y]
  BY <1>1, LockOf
<1>3. CASE pc[r] = "prune"
  BY <1>1, <1>2, <1>3 DEF InOrder
<1>4. CASE pc[r] # "prune"
  <2>1. \A y \in todo[r] \ {x} : Before(x, y)
    BY <1>4 DEF Lock, Turn
  <2> QED
    BY <1>1, <1>2, <1>4, <2>1 DEF InOrder
<1> QED
  BY <1>3, <1>4

\* Each statement locks rows of a later table than the one before.
LEMMA StepInOrder ==
  ASSUME OInv, NEW r \in Requests, Step(r) \/ Victim(r) \/ Fail(r)
  PROVE  InOrder(r)'
<1>0. IInv /\ InOrder(r) /\ TypeOK /\ Own(r) /\ pc \in [Requests -> Places] /\ todo \in [Requests -> SUBSET Rows]
  BY DEF OInv, IInv, TypeOK
<1>1. CASE Begin(r)
  <2>1. pc[r] = "idle" /\ pc'[r] = "lock" /\ todo'[r] \subseteq {AdvisoryLock} /\ holder' = holder
    BY <1>0, <1>1 DEF Begin
  <2>2. \A x \in Rows : holder[x] # r
    BY <1>0, <2>1 DEF Own, Holds, Active
  <2> QED
    BY <2>1, <2>2 DEF InOrder
<1>2. CASE Discover(r)
  <2>1. PICK rows \in Discovered(r) : todo' = [todo EXCEPT ![r] = rows]
    BY <1>2 DEF Discover
  <2>2. pc[r] = "lock" /\ pc'[r] = "rows" /\ todo'[r] = rows /\ holder' = holder
    BY <1>0, <1>2, <2>1 DEF Discover
  <2>3. rows \subseteq Users \cup Trades \cup Colonies
    BY DiscoveredRows
  <2>4. \A x \in Rows : holder[x] = r => x = AdvisoryLock
    BY <1>0, <2>2 DEF InOrder
  <2>5. AdvisoryLock \notin Tokens /\ \A y \in rows : y \notin Tokens
    BY <2>3, RequestAssumption
  <2>6. \A y \in rows : Before(AdvisoryLock, y)
    BY <2>3, TableOf DEF Before
  <2> QED
    BY <2>2, <2>4, <2>5, <2>6 DEF InOrder
<1>3. CASE SelectSessions(r)
  <2>1. pc[r] = "rows" /\ pc'[r] = "sessions" /\ todo'[r] \subseteq Tokens /\ holder' = holder
    BY <1>0, <1>3 DEF SelectSessions, SessionsInScope
  <2>2. \A x \in Rows : holder[x] = r => x \notin Tokens
    BY <1>0, <2>1 DEF InOrder
  <2>3. \A x \in Rows, y \in Tokens : x \notin Tokens => Before(x, y)
    <3>1. \A x \in Rows : x \notin Tokens => Table(x) \in {0, 1, 2, 3}
      BY TableOf DEF Rows
    <3> QED
      BY <3>1, TableOf DEF Before
  <2> QED
    BY <2>1, <2>2, <2>3 DEF InOrder
<1>4. CASE SelectChildren(r)
  <2>1. pc'[r] = "prune" /\ (~Sc(r).prune => todo'[r] = {})
    BY <1>0, <1>4 DEF SelectChildren
  <2> QED
    BY <2>1 DEF InOrder
<1>5. CASE Persist(r)
  <2>1. pc'[r] = "commit" /\ todo'[r] = {}
    BY <1>0, <1>5 DEF Persist, Loaded
  <2> QED
    BY <2>1 DEF InOrder
<1> QED
  BY <1>0, <1>1, <1>2, <1>3, <1>4, <1>5, LockInOrder, EndInOrder DEF Step

(***************************************************************************)
(* Until it prunes, a request waits for rows behind all that it holds: the  *)
(* lock order of load.                                                     *)
(***************************************************************************)
THEOREM StoreInOrder == Spec => []OInv
<1>1. Init => OInv
  <2> SUFFICES ASSUME Init PROVE \A r \in Requests : InOrder(r)
    BY InitKeeps DEF OInv
  <2> QED
    BY DEF Init, InOrder
<1>2. ASSUME OInv, [Next]_vars PROVE OInv'
  <2>1. IInv /\ IInv'
    BY <1>2, StepKeeps DEF OInv
  <2>2. CASE UNCHANGED vars
    BY <1>2, <2>1, <2>2 DEF OInv, InOrder, vars
  <2>3. ASSUME NEW r \in Requests, Step(r) \/ Victim(r) \/ Fail(r), NEW s \in Requests
        PROVE  InOrder(s)'
    <3>1. CASE s = r
      BY <1>2, <2>3, <3>1, StepInOrder
    <3>2. CASE s # r
      <4>1. Unmoved(s) /\ InOrder(s)
        BY <1>2, <2>1, <2>3, <3>2, OthersUnmoved DEF OInv
      <4> QED
        BY <4>1 DEF Unmoved, InOrder
    <3> QED
      BY <3>1, <3>2
  <2> QED
    BY <1>2, <2>1, <2>2, <2>3 DEF Next, OInv
<1> QED
  BY <1>1, <1>2, PTL DEF Spec

\* Of requests that wait for one another, one waits for the last row of all.
LEMMA WaitingInOrder ==
  ASSUME OInv
  PROVE  OnlyPruningDeadlocks
<1> SUFFICES ASSUME NEW S \in SUBSET Queuing, Deadlocked(S), \A r \in S : ~Sc(r).prune
             PROVE  FALSE
  BY DEF OnlyPruningDeadlocks
<1> DEFINE w == [r \in S |-> CHOOSE x \in todo[r] : \A y \in todo[r] \ {x} : Before(x, y)]
<1>1. S \subseteq Requests /\ S # {} /\ \A r \in S : todo[r] # {} /\ todo[r] \subseteq Rows /\ pc[r] # "prune"
  <2>1. \A r \in S : r \in Requests /\ todo[r] # {}
    BY DEF Queuing
  <2>2. \A r \in S : todo[r] \subseteq Rows
    BY <2>1 DEF OInv, IInv, TypeOK
  <2>3. \A r \in S : pc[r] # "prune"
    BY <2>1 DEF OInv, InOrder
  <2> QED
    BY <2>1, <2>2, <2>3 DEF Deadlocked
<1>2. \A r \in S : w[r] \in todo[r] /\ \A y \in todo[r] \ {w[r]} : Before(w[r], y)
  BY <1>1, LeastRow
<1> HIDE DEF w
<1>3. \A r \in S : w[r] \in Turn(r)
  BY <1>1, <1>2 DEF Turn
<1>4. \A r \in S : w[r] \in Rows /\ holder[w[r]] \in S
  BY <1>1, <1>2, <1>3 DEF Deadlocked
<1>5. \A r \in S : Before(w[r], w[holder[w[r]]])
  <2> SUFFICES ASSUME NEW r \in S PROVE Before(w[r], w[holder[w[r]]])
    OBVIOUS
  <2>1. holder[w[r]] \in S /\ w[r] \in Rows
    BY <1>4
  <2> DEFINE s == holder[w[r]]
  <2>2. InOrder(s) /\ pc[s] # "prune" /\ w[s] \in todo[s] /\ s = holder[w[r]]
    BY <1>1, <1>2, <2>1 DEF OInv
  <2> QED
    BY <2>1, <2>2 DEF InOrder
<1>6. IsFiniteSet(S)
  BY <1>1, StoreAssumption, FS_Subset
<1>7. PICK r \in S : \A s \in S : ~Before(w[r], w[s])
  BY <1>1, <1>4, <1>6, LastRow
<1> QED
  BY <1>4, <1>5, <1>7

(***************************************************************************)
(* A deadlock has a login in it: the lock order of load rules out all others.*)
(***************************************************************************)
THEOREM DeadlocksPrune == Spec => []OnlyPruningDeadlocks
<1>1. OInv => OnlyPruningDeadlocks
  BY WaitingInOrder
<1> QED
  BY StoreInOrder, <1>1, PTL
=============================================================================

--------------------------- MODULE StoreRequests ----------------------------
(***************************************************************************)
(* What requests ask of the PostgreSQL store: the rows each of them names  *)
(* (storage.Scope) and what its function does to the rows.  A row's doc is *)
(* a number here: the version of a password, the next_ledger_seq of a      *)
(* colony, the status of a trade, the presence of a session.  What         *)
(* handlers decide beyond that is in the modules of the services.          *)
(***************************************************************************)
EXTENDS Integers

CONSTANTS
  Users, Colonies, Trades, Tokens, \* the ids of the rows of four tables
  AdvisoryLock,                    \* the advisory lock "bootstrap", another row
  Envelopes,
  Names, Name,                     \* username_lower of each user
  Owner,                           \* the user of each session
  Expired,                         \* the sessions past their expires_at
  Parties, Between,                \* the users and the colonies of each trade
  Requests, Req,                   \* the requests, and what each of them is
  InitialTables                    \* what they may find

Rows == Users \cup Colonies \cup Trades \cup Tokens \cup {AdvisoryLock}

LoginRequest     == [kind : {"login"}, user : Users, token : Tokens]
ResetRequest     == [kind : {"reset"}, user : Users]
BootstrapRequest == [kind : {"bootstrap"}, user : Users, token : Tokens]
CreateRequest    == [kind : {"create"}, token : Tokens, user : Users, colony : Colonies]
AcceptRequest    == [kind : {"accept"}, token : Tokens, trade : Trades]
ImportRequest    == [kind : {"import"}, token : Tokens, colony : Colonies, from : Colonies,
                     envelope : Envelopes]

\* The sessions requests make, and the users they make.
NewTokens == {Req[r].token : r \in {x \in Requests : Req[x].kind \in {"login", "bootstrap"}}}
NewUsers  == {Req[r].user : r \in {x \in Requests : Req[x].kind \in {"create", "bootstrap"}}}

\* Ids are random (RandomID, RandomBase64URL): nobody makes, or presents, the
\* id that another request is about to make.
ASSUME RequestAssumption ==
  /\ Rows \subseteq Nat
  /\ Users \cap Colonies = {} /\ Users \cap Trades = {} /\ Users \cap Tokens = {}
  /\ Colonies \cap Trades = {} /\ Colonies \cap Tokens = {} /\ Trades \cap Tokens = {}
  /\ AdvisoryLock \notin Users \cup Colonies \cup Trades \cup Tokens
  /\ Name \in [Users -> Names] /\ Owner \in [Tokens -> Users]
  /\ Expired \subseteq Tokens
  /\ Parties \in [Trades -> SUBSET Users] /\ Between \in [Trades -> SUBSET Colonies]
  /\ \A r \in Requests : Req[r] \in LoginRequest \cup ResetRequest \cup BootstrapRequest
                                     \cup CreateRequest \cup AcceptRequest \cup ImportRequest
  /\ \A r \in Requests : Req[r].kind \in {"login", "bootstrap"} => Owner[Req[r].token] = Req[r].user
  /\ \A r \in Requests : Req[r].kind \in {"create", "accept", "import"} => Req[r].token \notin NewTokens
  /\ \A r \in Requests : Req[r].kind \in {"login", "reset"} => Req[r].user \notin NewUsers
  /\ \A r, s \in Requests : Req[r].kind \in {"create", "bootstrap"} /\ Req[s].kind \in {"create", "bootstrap"}
                            /\ Req[r].user = Req[s].user => r = s
  /\ NewTokens \cap Expired = {}

-----------------------------------------------------------------------------
\* Not to be confused with a doc: no row, or none that was loaded.
Absent == -1

\* Of a session: it is stored.  Of a trade: it is offered, or accepted.  Of a
\* user: the first version of the password.
Live     == 0
Offered  == 0
Accepted == 1
First    == 0

\* The tables: a doc for each row, the processed envelopes of each colony, and
\* its ledger entries, <<seq, the request that wrote it>>.
Tables ==
  [doc : [Rows -> Nat \cup {Absent}],
   processed : [Colonies -> SUBSET Envelopes],
   ledger : [Colonies -> SUBSET (Nat \X Requests)]]

Nothing ==
  [doc |-> [x \in Rows |-> Absent], processed |-> [c \in Colonies |-> {}],
   ledger |-> [c \in Colonies |-> {}]]

Stored(d, x) == d.doc[x] # Absent

\* A database requests may find: with a session there is its user, and no row
\* has the id of one yet to be made.
Possible(d) ==
  /\ d \in Tables
  /\ \A x \in Colonies \cup Trades \cup {AdvisoryLock} : Stored(d, x)
  /\ \A t \in Tokens : Stored(d, t) => Stored(d, Owner[t])
  /\ \A t \in NewTokens : ~Stored(d, t)
  /\ \A u \in NewUsers : ~Stored(d, u)

ASSUME InitialAssumption == \A d \in InitialTables : Possible(d)

-----------------------------------------------------------------------------
\* storage.Scope, as each handler fills it in.
NoScope ==
  [lock |-> FALSE, allUsers |-> FALSE, tokens |-> {}, userSessions |-> {}, users |-> {},
   usernames |-> {}, trades |-> {}, colonies |-> {}, prune |-> FALSE]

Scope(q) ==
  CASE q.kind = "login"     -> [NoScope EXCEPT !.users = {q.user}, !.userSessions = {q.user}, !.prune = TRUE]
    [] q.kind = "reset"     -> [NoScope EXCEPT !.users = {q.user}, !.userSessions = {q.user}]
    [] q.kind = "bootstrap" -> [NoScope EXCEPT !.lock = TRUE, !.allUsers = TRUE, !.usernames = {Name[q.user]}]
    [] q.kind = "create"    -> [NoScope EXCEPT !.tokens = {q.token}, !.colonies = {q.colony},
                                               !.usernames = {Name[q.user]}]
    [] q.kind = "accept"    -> [NoScope EXCEPT !.tokens = {q.token}, !.trades = {q.trade}]
    [] q.kind = "import"    -> [NoScope EXCEPT !.tokens = {q.token}, !.colonies = {q.colony, q.from}]

\* actorFromToken
SignedIn(d, t) == Stored(d, t) /\ t \notin Expired

NameTaken(d, name) == \E u \in Users : Stored(d, u) /\ Name[u] = name

\* The function of the request goes through.  The credentials that login and
\* reset verified before they came here are of the first version.
Allowed(q, d) ==
  CASE q.kind \in {"login", "reset"} -> d.doc[q.user] = First
    [] q.kind = "bootstrap"          -> \A u \in Users : ~Stored(d, u)
    [] q.kind = "create"             -> SignedIn(d, q.token) /\ ~NameTaken(d, Name[q.user])
    [] q.kind = "accept"             -> SignedIn(d, q.token) /\ d.doc[q.trade] = Offered
    [] q.kind = "import"             -> SignedIn(d, q.token)

\* appendLedger of request r, in the colonies C.
Booked(d, r, C) ==
  [d EXCEPT !.doc    = [x \in Rows |-> IF x \in C THEN d.doc[x] + 1 ELSE d.doc[x]],
            !.ledger = [c \in Colonies |-> IF c \in C THEN d.ledger[c] \cup {<<d.doc[c] + 1, r>>}
                                                      ELSE d.ledger[c]]]

Without(d, S) == [d EXCEPT !.doc = [x \in Rows |-> IF x \in S THEN Absent ELSE d.doc[x]]]

With(d, x, doc) == [d EXCEPT !.doc = [y \in Rows |-> IF y = x THEN doc ELSE d.doc[y]]]

SessionsOf(u) == {t \in Tokens : Owner[t] = u}

\* What the function of request r makes of the rows d.  An envelope that is
\* processed is skipped; the import is booked in any case.
Effect(r, d) ==
  LET q == Req[r] IN
  CASE q.kind = "login"     -> With(Without(d, Expired), q.token, Live)
    [] q.kind = "reset"     -> With(Without(d, SessionsOf(q.user)), q.user, d.doc[q.user] + 1)
    [] q.kind = "bootstrap" -> With(With(d, q.user, First), q.token, Live)
    [] q.kind = "create"    -> With(Booked(d, r, {q.colony}), q.user, First)
    [] q.kind = "accept"    -> With(Booked(d, r, Between[q.trade]), q.trade, Accepted)
    [] q.kind = "import"    -> [Booked(d, r, {q.colony}) EXCEPT !.processed[q.colony] = @ \cup {q.envelope}]

=============================================================================

# Interstellar Trade Platform: a TLA+ model

The platform (Go backend in `backend/`, React console in `frontend/`) lets colonies trade with
one another without a global real-time consensus. A trade is a conversation of signed envelopes
(offer, acceptance, settlement, and the cancel requests and refunds that undo them) which human
relays carry in bundles between the colonies. Bundles may be lost, delayed, reordered or imported
many times. The balances, the escrow and the net positions of the colonies must stay right
whatever the relays do.

This directory holds TLA+ modules translated from the Go source, TLC configurations that check
them on small instances, and proofs that TLAPS checks for every value of the constants.
Paths below are relative to the repository; `service/`, `domain/` and `storage/` stand for
`backend/internal/service/` and so on.

## 1. Inventory of the system

| Component | State it keeps | Operations | What makes it correct |
|---|---|---|---|
| Trade state machine (`domain/trade_state.go`) | none: a table of transitions | `TransitionAllowed`, `Reachable`, `ClassifyStep`, `StepTrade`, `AdvanceTrade`, `AddChecked`, `IsEscrowed` | the search behind `Reachable` answers the closure of the table; a step is applied once, and an envelope that is late is a duplicate, not an error |
| Trade protocol (`service/trade.go`, `trade_lifecycle.go`) | trades, outboxes, processed ids, accounts, net positions, ledgers | `CreateOffer`, `AcceptTrade`, `CancelTrade`, `ExportBundle`, `ImportBundle` and its five handlers, `SweepExpired` | money is conserved and booked once; the net positions of two colonies mirror each other; only the seller colony decides about money in flight; no envelope blocks a bundle for ever; money in flight is eventually decided about |
| Dual control (`service/approvals.go`) | pending actions, policies | propose, approve, reject; `SetPolicy`, `ProposeForceRefund`, proposals to mint | nobody approves what they proposed; an approval re-checks what the proposal checked |
| Supply (`service/admin.go`, `approvals.go`) | accounts, supply, caps, policies | `Mint`, `applyMint`, `applyPolicy` | the cap holds whatever mints and policy changes come in between |
| Authentication (`service/auth.go`, `common.go`, `domain/security.go`) | users, sessions, failure counters | `Bootstrap`, `Login`, `Logout`, `actorFromToken`, session pruning | bootstrap happens once; lockout counts every failure; a deactivated user has no session; at most ten sessions a user |
| Account recovery and administration (`service/security.go`) | reset tokens, MFA secrets, roles, activation | `IssueResetToken`, `CompleteReset`, `ChangePassword`, `EnrollMFA`, `ConfirmMFA`, `ResetMFA`, `SetUserActive`, `SetUserRoles` | a token is used once; an active super admin always remains |
| Ledger (`appendLedger`, `VerifyLedger`) | hash-chained entries of a colony | append, verify, normalise and repair old forms | the chain verifies in every form it is stored in, and the money agrees with it |
| File store (`storage/store.go`) | one JSON file, its copy in memory, one lock | `View`, `Update`, load and backfill | a failed update changes nothing; a crash leaves the old or the new state; what was answered stays |
| PostgreSQL store (`storage/pg_*.go`) | tables, row locks, a pool | load, diff and persist, retry | a request's function runs as if alone on all of the data; what deadlocks there are end; a retry has its effects once; every request is answered |
| State migration (`storage/pg_migrate.go`) | the database it fills | `LoadStateFile`, `VerifyStateIntegrity`, `ImportState` | one import takes, whatever races, fails or is repeated; what is imported adds up, and the database keeps the chain going |
| HTTP API (`httpapi/`) | metrics | decoding, cookies, CSRF, body limits | the service is called as the tests of it assume |
| Server process (`cmd/itp-server`) | a ticker | start, sweep every minute, graceful stop | the sweep keeps coming round |
| Web console (`frontend/`) | none that matters | - | - |
| Backup and deployment (`scripts/`, `deploy/`) | dumps | backup, restore drill | a restored store keeps conserving money |

**How they interact.** The HTTP handlers call the service; every service operation is one call
of `Store.Update` or `UpdateScoped` with a closure over an `AppState`. The file store runs the
closure on a copy under one lock; PostgreSQL loads the rows of the colonies in scope under
`FOR UPDATE` and persists the difference. An error in the closure drops everything it did. The
colonies are rows of one store: there is a single `Trade` record for a trade, seen by both sides,
and what travels between colonies are the envelopes. The sweep is a goroutine of the server that
competes with the requests for the store's lock. Relays act from outside: they keep the bundles
they exported and may import any of them, in any grouping, again and again, or never.

**What is hard.** Envelopes of the two colonies cross; bundles are imported twice or in another
order; a bundle fails at its third message after two were applied; an export empties the outbox
before anybody has the bundle; a clock is read twice in one handler and before the lock in
another; an admin forces a refund that the seller colony is deciding about; a backup is restored
under relays that remember the future; counters that only grow meet 64 bits; transactions lock
rows one by one while others insert, delete and lock; a process stops between the temporary file
and the rename, and an old file has fields that a new version must supply. `PROJECT.json`
lists each hazard at its line with the properties that cover it, or says why none does.

## 2. Modules

| Module | What it models | Source |
|---|---|---|
| `TradeStates` | statuses, the table, `Reachable` as a closure, `ClassifyStep` | `domain/trade_state.go` |
| `TradeSearch` | the breadth-first search of `Reachable`, a step per dequeued status | `domain/trade_state.go:64-83` |
| `Money` | the total of a family of amounts, as the number of units it stands for | - |
| `TradeProtocol` | the protocol: `db` is the `AppState`, one action per handler | `service/trade.go`, `trade_lifecycle.go`, `approvals.go`, `trade_state.go` |
| `Escrow` | the abstract specification: who holds the price of a trade, and the balances that follow | - |
| `TradeEscrow` | the refinement mapping from `TradeProtocol` to `Escrow` | - |
| `TradeRestore` | `TradeProtocol` with backups and restores | `deploy/RUNBOOK.md` |
| `TradeLiveness` | `TradeProtocol` with fairness | `cmd/itp-server/main.go` |
| `Supply` | minting, caps and policies, made directly or proposed and approved | `service/admin.go`, `approvals.go`, `domain/trade_state.go` |
| `UserAdmin` | bootstrap, creating users, roles and activation | `service/auth.go`, `admin.go`, `security.go` |
| `Credentials` | one account: login, lockout, sessions, password change, reset tokens, MFA, activation | `service/auth.go`, `security.go`, `common.go`, `domain/security.go` |
| `StoreRequests` | the rows six kinds of requests ask the store for (`Scope`) and what their functions do | `service/scopes.go`, the handlers, `storage/store.go` |
| `AtomicStore` | the abstract specification: what a handler may believe of the store | - |
| `PgStore` | its transactions, statement by statement and row lock by row lock; implements `AtomicStore` | `storage/pg_store.go`, `pg_load.go`, `pg_persist.go` |
| `Ledger` | the hash chain of a colony, layouts, repairs of old files, the integrity check | `service/common.go`, `storage/store.go`, `pg_migrate.go` |
| `StateFile` | the file store: open, update, temporary file, rename, crash | `storage/store.go`, `domain/util.go` |
| `Cutover` | `StateFile`, then the migration into PostgreSQL, then the servers on it | `storage/pg_migrate.go`, `cmd/itp-server/main.go` |
| `MC...` | instances for TLC | - |
| `MoneyTheorems`, `TradeHandlers`, `TradeProtocolProofs`, `SupplyProofs`, `UserAdminProofs`, `CredentialsProofs`, `PgStoreProofs`, `CutoverProofs` | theorems | - |

### How `TradeProtocol` corresponds to the code

* `db` is the `AppState`. Balances, net claims and net obligations are functions on traders and
  pairs of colonies. `db.outbox[c]` is the outbox of a colony, `db.processed[c]` its
  `ProcessedEnvelopes`, `db.trades` the shared trade records, `db.actions` the pending actions,
  `db.booked` counts the ledger entries that book a movement of money, and `db.issued[t]` numbers
  the envelopes made about a trade (the code draws random ids).
* Each handler is one atomic action, because it is one transaction of the store: `CreateOffer`,
  `AcceptTrade`, `WithdrawOffer` and `RequestCancel` (the two outcomes of `CancelTrade`),
  `ExportBundle`, `SweepExpired`, `ProposeForceRefund`, `ApproveForceRefund`,
  `RejectForceRefund`, `TrustPeer`. A guard is the conjunction of the handler's early returns.
* `ImportBundle` is not one action. `BeginImport` takes a private copy of the state,
  `ImportNext` applies one message to the copy (`ImportMessage`, with one operator per
  envelope type), `RefuseBundle` drops the copy at the first error, `CommitImport` makes it the
  committed state, and `AbandonImport` is a server that stops in between. So that nothing of a
  refused bundle has an effect is something the model shows and not something it assumes. Other
  writers wait (`Transaction`), as the store's locks make them.
* The clock is read twice in `AcceptTrade` (`trade.go:105` and `129`), and the sweep may decide
  with a reading older than its lock. Both are modelled.
* The inputs of a relay are every sequence of up to `MaxBundle` envelopes it ever exported.
  Signatures are abstracted: a relay cannot make an envelope, only repeat one. A payload always
  agrees with the trade it is about, because ids are random and a payload is signed with the
  trade's terms; the checks of the terms in `importOffer` and `importAcceptance` therefore never
  refuse in the model, except for the expiry, which is kept.
* Who may call a handler (roles, sessions, MFA) is left to `UserAdmin` and `Credentials`, apart from the authority of an admin over the buyer colony, which dual control needs.
* `ExportBundle` with nothing to export appends a ledger entry and changes nothing else; the
  model has no such step.

### How `Supply` and `UserAdmin` correspond to the code

* Each handler is one atomic action again. `Supply` has two for a request to mint or to change a
  policy: `Mint` and `SetPolicy` where the colony is not under dual control, `ProposeMint` and
  `ProposePolicy` where it is; and one for each branch of `DecideApproval`: `ApproveMint`,
  `ApprovePolicy`, `Reject`. The effect of a mint or a policy is the same operator (`ApplyMint`,
  `ApplyPolicy`) in both, as it is the same function in the code.
* A balance in `Supply` is what was minted to an account plus what trades brought to it, the
  constant `Received`; conversely the trade protocol takes what was minted as its constant
  `Funding`. The sums meet only in the check that a balance does not overflow.
* `MaxInt64` is a constant, so that TLC reaches it with small numbers.
* In `UserAdmin` an actor is anybody who is active: who may come to have a session (passwords,
  MFA, expiry) only narrows that. `BeginBootstrap` is the check before the password is hashed and
  `Bootstrap` the transaction; any number of requests are between the two. `CreateUser` hashes
  between two checks as well, but its transaction repeats all of the first, which can therefore
  only refuse what the second refuses, and one action is enough.
* Users are never removed, in the code or in the model.

### How `Credentials` corresponds to the code

* `Login`, `ChangePassword` and `CompleteReset` read the account in one transaction, hash outside
  any lock, and commit in a second transaction. `requests` is what such a request carries from
  the one to the other: `BeginLogin`, `BeginChange` and `BeginReset` are the first parts,
  `CheckCode` the first check of a one-time code (which reads the clock on its own), `Login`,
  `ChangePassword`, `CompleteReset` and `NoteLoginFailure` the second transactions. `GiveUp` is a
  second transaction that refuses, or a server that stops. All other handlers are one action.
* The model is of one account. Nothing one account does touches another's, except that a login
  deletes expired sessions of all users, which no handler would honour anyway.
* Whether a password matches is a choice made when the request begins; what counts afterwards is
  only which hash it matched. Hashes are told apart by the password's number and whether the hash
  is a legacy one, since a login replaces the legacy hash of a password once.
* A code is a secret and a period. Secrets, reset tokens and session tokens are numbered as they
  are drawn, since they are random and do not repeat.
* What administrators do (`IssueResetToken`, `ResetMFA`, `Deactivate`, `Reactivate`) may happen at
  any time; who may do it is the business of `UserAdmin`.

### How `PgStore` corresponds to the code

* A row of any table is an id, and what it says a number (`doc`): the version of a user's
  password, `next_ledger_seq` of a colony, the status of a trade, the presence of a session. That
  is what the functions of the six kinds of requests decide by. `processed` and `ledger` are
  the tables stored under a locked colony; accounts, outboxes and pending actions are tables of
  the same kind and have no part of their own.
* `Scope` is `storage.Scope` as each handler fills it in, `Allowed` the checks of the handler's
  function, `Effect` what it does to the rows. `AtomicStore` is made of these alone.
* A request goes through the statements of `load` in the order of the code: `Begin` (a connection of the
  pool, `BeginTx`, the advisory lock), `Discover` (which rows, then `SELECT ... FOR UPDATE` over
  colonies, users and trades), `SelectSessions`, `SelectChildren` (the tables without locks, then
  `DELETE` of the expired sessions). `Lock` locks one row; a row that was deleted meanwhile is
  passed by. Then the function: `Refuse`, or `Persist` (the differences are written, invisible to
  others, and an insert of a name waits for an uncommitted one), `Conflict` (the unique index),
  `Commit`, whose answer may be lost. `Fail` is a timeout or a lost connection at any point.
* `Victim` is PostgreSQL breaking a deadlock and `run` starting the request again, up to
  `MaxAttempts`; `Deadlocked(S)` is a set of requests each of which waits for another of the set.
* Visibility is that of the isolation level the code asks for (read committed): every statement
  sees what is committed when it runs, and `Commit` writes over the rows as they then are. That
  nothing is overwritten that others wrote in between is shown, not assumed.
* Discovery reads relations that do not change after a row is inserted (the parties of a trade,
  the owner of a session, the name of a user).

### How `Ledger`, `StateFile` and `Cutover` correspond to the code

* One colony with one account stands for the state: chains do not meet. Three operations stand
  for all that book an entry: one that creates the colony, one that makes money, one that moves
  it into escrow.
* A hash is the tuple it was made of (SHA-256 does not collide), and the payload's *layout* is
  part of it, because the hash covers the bytes of raw JSON: `json.MarshalIndent` lays the payload
  out again when the file is saved, `CloneJSON` compacts it, and `NormalizeRawPayloads` has to
  compact it on load, or no chain would verify.
* `StateFile` has a step for each point between which a crash differs: `Update` (a copy is made
  and changed), `Write`, `Rename`, `Install`. `SaveFails` is an error of either call,
  `Crash` a process that stops, leaving half a temporary file if it was writing.
* `FirstFiles` are no file, and files of versions that had no `last_ledger_hash` or no
  `minted_total`. `FirstFilesAssumption` says of any others that their chain verifies once they
  are loaded, and that the two fields are right or missing; the repairs are for no more than that.
* In `Cutover` the operator imports while the server is stopped, as `compose.postgres.yml` says,
  and may start two imports; the emptiness of the database is checked in a serializable
  transaction, so of two only one commits. `Serve` is a transaction on the database, atomic by
  `PgStore`, in which the ledger is not loaded and the chain goes on from `last_ledger_hash`.

In all modules, operators named as mutants, next to the definition they vary, are plausible
bugs that the runs must notice; no specification uses them.

## 3. What TLC checks

| Run | Instance | Properties |
|---|---|---|
| `trade_one` | one trade, two forced-refund proposals by two admins, bundles of up to 2, 4 envelopes, clock 0..2, one side's trust granted on the way (1.7 M states) | `BookedOnce`, `ClosedOffersHoldNoMoney`, `NoPoisonMessage`, `NoDecisionIsStranded`, `SellerDecides` |
| `trade_two` | two trades in opposite directions between the same two traders, one payable only out of what the other brings (0.7 M) | `TypeOK`, `Conservation`, `NetPositionsMirror`, `ImplementsEscrow` |
| `trade_restore` | one trade and a backup put back at any time (1.0 M) | `Conservation`, `SellerStillDecides` |
| `trade_liveness` | one trade, one lost bundle, a mint that fills the seller's account, fairness (26 k) | `AmountsFit`, `OffersAreClosed`, `AcceptancesAreDecided`, `DecisionsArrive` |
| `supply` | one colony, two accounts (one almost full), two super admins, a colony admin and an outsider, two proposals, clock 0..2, `MaxInt64` 5 (0.5 M) | `TypeOK`, `CapHolds`, `MintsAreBacked`, `MintsAreCredited`, `ControlledByTwo` |
| `user_admin` | four names in two colonies, three sets of roles (6 k) | `TypeOK`, `SuperAdminRemains`, `BootstrapOnce` |
| `passwords` | two requests at a time, 3 logins, room for 2 sessions, 2 failures to a lockout, 3 passwords, 2 reset tokens, clock 1..3, no MFA (0.4 M) | `TypeOK`, `InactiveSignedOut`, `SessionsFollowPassword`, `SessionsBounded`, `TokensRedeemedOnce` |
| `codes` | the same with 2 enrolments and one password (2.6 M) | `CodesUsedOnce`, `SessionsAreEarned` |
| `trade_search` | all 81 pairs of statuses (331) | `SearchCorrect` |
| `pg_store` | twelve requests of six kinds in eight groups of up to four at a time, three connections, two attempts (0.12 M) | `TypeOK`, `OnlyPruningDeadlocks`, `ImplementsAtomicStore`, `EveryRequestEnds` |
| `pg_deadlock` | the same; expects a violation | `NoDeadlock` |
| `cutover` | first files after up to three operations, in four versions, or none; two imports; ledgers of up to 5 entries (94 k) | `TypeOK`, `MemoryIsFile`, `StateVerifies`, `NothingAckedIsLost` |

What they say:

* `Conservation` - the balances and the escrow add up to what was minted: the money equation of
  `VerifyStateIntegrity`.
* `BookedOnce` - the ledgers book a debit once a trade was accepted, then one credit or one
  refund, never both and none while the money is in escrow.
* `NetPositionsMirror` - the claim of one colony is the debt of the other, and both are the
  prices settled between the two.
* `ClosedOffersHoldNoMoney` - no offer is expired or cancelled with a buyer's money in it; no
  acceptance signed after the expiry is settled, though `AcceptTrade` may sign one.
* `NoPoisonMessage` - at every moment, every envelope any relay has would be applied or taken
  for a duplicate if it were imported alone; so that no bundle is refused for ever because of one
  message. It holds as long as no amount overflows; `trade_liveness` is about the other case.
* `NoDecisionIsStranded` - as long as no bundle was lost, a buyer colony whose trade was decided can
  still learn how: the envelope is in the seller colony's outbox or with a relay, the buyer colony
  has not processed its id, and importing it ends the trade.
* `AmountsFit` - no balance overflows, although a mint may fill up the account that a payment
  under way was to go to. The settlement is then refused, and `AcceptancesAreDecided` says that
  the money comes out of flight all the same.
* `SellerDecides` - a trade leaves `acceptance_pending_export` only in a transaction in which the
  seller colony imported an envelope about it, or by the approval of a forced refund that
  another admin with authority over the buyer colony proposed.
* `ImplementsEscrow` - the protocol implements `Escrow`: each price is held, then paid or
  returned once, and every balance is always what the outcomes make it.
* `SellerStillDecides` - after a restore no envelope of the lost history decides a trade, and a
  refund the seller colony no longer remembers is not paid out.
* `OffersAreClosed`, `AcceptancesAreDecided`, `DecisionsArrive` - see fairness.
* `CapHolds` - no colony has minted more than its effective cap, although a policy may lower the
  cap and is checked when it is proposed and applied up to 72 hours later.
* `MintsAreBacked`, `MintsAreCredited` - what a colony minted is what admins minted alone plus
  the proposals that were approved, each once; and it is all in accounts.
* `ControlledByTwo` - a colony that is under dual control is changed only in a step in which one
  admin with authority over it approves what another proposed. The switch itself is one of the
  things so changed.
* `SuperAdminRemains` - once somebody bootstrapped the platform there is an active super admin,
  which the comment on `authorizeUserAdmin` claims (`service/security.go:99`).
* `BootstrapOnce` - racing bootstrap requests make one super admin between them.
* `InactiveSignedOut` - a deactivated account has no session, and a login that was hashing when
  the account was deactivated does not open one.
* `SessionsFollowPassword` - every session was opened under the password the account has now, or
  is the one that changed it.
* `SessionsBounded` - at most `MaxSessionsPerUser` sessions after every login.
* `TokensRedeemedOnce` - a reset token sets a password once, unexpired, and only the newest.
* `CodesUsedOnce` - a one-time code is accepted once, by logins and enrolments together.
* `SessionsAreEarned` - when a session is opened the account is active, not locked, and a code
  was accepted if it asks for one, whatever it was when the password was read.
* `SearchCorrect` - `Reachable` answers yes for the closure of the table and no for the rest.
* `ImplementsAtomicStore` - however transactions interleave, wait, fail and start again, each
  request acts in one step on all of the data as it then is, at most once, and is told the truth,
  except that the answer of a commit may be lost.
* `OnlyPruningDeadlocks` - at least one login is part of every deadlock. A login locks its
  user's sessions in the order of their tokens, then deletes the expired sessions of everybody.
* `NoDeadlock` - the claim of `storage/pg_load.go:65` ("Lock order is always: advisory -> colonies
  (sorted) -> users -> trades -> actions -> sessions -> accounts, so concurrent requests can never
  deadlock"; `001_init.sql:10` and `pg_store.go:169` repeat it). It is false: two logins whose users each have an expired
  session hold one and wait for the other. PostgreSQL breaks the deadlock and the victim starts
  again, so the consequence is a retry and, after `MaxAttempts`, an error.
* `EveryRequestEnds` - no lock outlives its transaction and every request that begins is answered.
* `MemoryIsFile` - what the server answers from is what it would find after a restart, except
  between the rename and the answer.
* `StateVerifies` - the file once loaded, the state in memory and the database would all pass
  `VerifyStateIntegrity`, across versions, layouts, crashes, the migration, and a database that appends
  without loading.
* `NothingAckedIsLost` - the ledger of which clients were once told stays a prefix of the ledger.

**Bounds.** Two colonies are all a trade involves, and colonies other than those two touch
neither of its records. One trade goes through every status with two relayed envelopes and two
cancel requests (`MaxEnvelopes` 4). Bundles of two are the least that can fail after something
was applied. Two trades are the least that share balances and net positions, and the prices are
chosen so that the second can be paid only with the first. The clock needs a moment before the
expiry, the expiry and a moment after. Two proposals for one trade are the least where both could
be approved. One restore puts any earlier state under all later envelopes.
In `supply`, two proposals are the least of which one can overtake the other, the cap (3) is
below what two mints make, and `MaxInt64` (5) below what a mint and `Received` make. In
`user_admin`, three users of one colony are the least in which one who is not a super admin can
watch two who are; the fourth has another colony, whose admins must have no say. In `passwords` and
`codes`, two requests are the least that race, and three logins with room for two sessions the
least that evict one and keep one. Every lifetime is one period: it ends within the three
periods of the clock, before, at and after another event. A code's window reaches one period to
either side, so codes of four periods are presented. The two runs share the module: enrolment and
passwords touch different fields of the account, and meet in `Login`, which both exercise.
In `pg_store`, each group of requests is chosen to meet in rows, names or tokens: logins that
prune each other's sessions, a password reset under a login, two bootstraps beside two creations of
one name, two acceptances of one trade, imports of one envelope and in opposite directions. Four
requests over three connections are the least where the pool is short while two wait for each
other and a third is between them; two attempts give one retry and one that gives up. In `cutover`
five entries are three before the migration and two after it. `Mint` in `trade_liveness` only
fills accounts of sellers, one unit at a time, while a payment is under way.
Symmetry is used where the names are interchangeable: proposals, requests, and the three users
of one colony.
`CHECK_DEADLOCK FALSE`: the clock stops at `MaxClock`, finished trades stay finished, answered
requests stay answered, and a ledger stops at `MaxSeq`.

**Fairness.** `ProgramFairness` is what the code gives: time passes, an import that has begun
goes on, and the sweep, which the server's ticker starts every minute, gets the lock from time to
time (strong fairness, since other transactions come between). `RelayFairness` is asked of
people: relays keep exporting what is in an outbox, and each envelope that is not processed yet
is imported by itself some time, even if it was refused before; the server is not stopped in the
middle of imports for ever. `BuyerFairness`: a buyer whose money is in
flight asks for it back again. The code does not refund on a timeout of the buyer colony, by
design (the comment at `domain/trade_state.go:22`): without these
`AcceptancesAreDecided` is false. `MaxLosses` bundles are lost; `Patient` keeps the buyer from
using up `MaxEnvelopes` before the losses end. `DecisionsArrive` excepts lost bundles: the seller
colony does not send a decision twice.
`PgStore`'s fairness is one condition on all requests together: while some request can go on, or
PostgreSQL can break a deadlock, something of that happens. No request is promised its turn by
itself; that each is answered follows from the locks being released and the attempts being
numbered. `Fail` is not part of it: no timeout is needed to get out of a wait.

## 4. What is proved

`TradeProtocolProofs` proves for any numbers of colonies, traders, trades, admins, any prices,
trust, bundle sizes and clocks, from `ProtocolAssumption` alone (there are finitely many traders
and trades, the terms have their types, nobody starts with more than `MaxInt64`):

| Theorem | |
|---|---|
| `Soundness` | `Spec => []IInv`, the inductive invariant |
| `TypeCorrect` | `Spec => []TypeOK` |
| `MoneyIsConserved` | `Spec => []Conservation` |
| `MoneyIsBookedOnce` | `Spec => []BookedOnce` |
| `NetPositionsAgree` | `Spec => []NetPositionsMirror` |
| `ClosedOffersAreEmpty` | `Spec => []ClosedOffersHoldNoMoney` |
| `NothingOverflows` | `Spec => []AmountsFit` |
| `EscrowIsImplemented` | `Spec => ImplementsEscrow`, the refinement |
| `SellerColonyDecides` | `Spec => SellerDecides` |
| `Truthfulness` | `Spec => []TInv`: every envelope on its way is true of its trade |
| `NoMessageIsPoison` | `Spec => []NoPoisonMessage`, if `Total(Funding)` and `Total(Price)` are at most `MaxInt64` |
| `NothingIsMinted` | `Spec => []AsFunded`: balances are the funding and the outcomes of the trades |
| `MailIsOrderly` | `Spec => []MailInv`: ids are drawn once, and what was decided is under way |
| `NobodyWaitsInVain` | `Spec => []NoDecisionIsStranded` |
| `EveryDecisionArrives` | `Spec =>` the envelope found is not refused, under the hypothesis of `NoMessageIsPoison` |
| `InFlightCanBeRefunded` | `Spec => []RequestDecides`: a new cancel request for any acceptance in flight would be applied, whatever was lost |
| `SoundWhileMinting`, `NothingOverflowsWhileMinting` | `LiveSpec => []LInv`, `LiveSpec => []AmountsFit`: mints in between |
| `OnlyMintsMint` | `LiveSpec =>` only a mint changes how much money there is, by what it mints |
| `NoMessageIsPoisonWhileMinting` | `LiveSpec => [](Holdings(db) <= MaxInt64 => NoPoisonMessage)`, if `Total(Price)` is at most `MaxInt64` |
| `MoneySurvivesRestore`, `BooksSurviveRestore` | `RestoreSpec => []Conservation`, and the same of `BookedOnce`, `NetPositionsMirror`, `ClosedOffersHoldNoMoney`, `AmountsFit` |
| `DecisionsSurviveRestore` | `RestoreSpec => SellerStillDecides` |
| `SearchSound`, `SearchComputesTheClosure` | `SearchSpec => []SearchInv`, `[]SearchCorrect` |
| `SearchAlwaysDescends` | `SearchSpec => SearchDescends`: each step that does not answer leaves one status fewer to dequeue |

`SupplyProofs`, `UserAdminProofs` and `CredentialsProofs` prove the properties of the other
modules, from `SupplyAssumption`, `AdminAssumption` and `CredentialsAssumption`:

| Theorem | |
|---|---|
| `SupplyTypeCorrect`, `CapIsKept`, `SupplyIsBacked`, `SupplyIsCredited` | `Spec => []TypeOK`, `[]CapHolds`, `[]MintsAreBacked`, `[]MintsAreCredited` |
| `DualControlHolds` | `Spec => ControlledByTwo` |
| `AdminTypeCorrect`, `SuperAdminAlwaysRemains`, `BootstrappedOnce` | `Spec => []TypeOK`, `[]SuperAdminRemains`, `[]BootstrapOnce` |
| `CredentialsTypeCorrect`, `DeactivationSignsOut`, `SessionsOfThePassword`, `SessionsStayBounded`, `CodesAreUsedOnce` | `Spec => []TypeOK`, `[]InactiveSignedOut`, `[]SessionsFollowPassword`, `[]SessionsBounded`, `[]CodesUsedOnce` |
| `EverySessionIsEarned`, `TokensAreRedeemedOnce` | `Spec => SessionsAreEarned`, `Spec => TokensRedeemedOnce` |

`PgStoreProofs` proves, for any requests, rows and numbers of connections and attempts, from
`RequestAssumption`, `InitialAssumption` and `StoreAssumption`; `CutoverProofs` for any first
files, hashes and bounds, from `LedgerAssumption` and `FirstFilesAssumption`:

| Theorem | |
|---|---|
| `StoreTypeCorrect`, `DeadlocksPrune` | `Spec => []TypeOK`, `[]OnlyPruningDeadlocks` |
| `StoreIsAtomic` | `Spec => ImplementsAtomicStore`, the refinement |
| `StoreInOrder` | `Spec => []IInv`, the inductive invariant |
| `CutoverTypeCorrect`, `MemoryFollowsFile`, `StatesVerify` | `Spec => []TypeOK`, `[]MemoryIsFile`, `[]StateVerifies` |
| `AckedIsKept` | `Spec => NothingAckedIsLost` |
| `HashPinsHistory` | a ledger that verifies and contains the last hash of another begins with all of it |

The argument for the trade protocol. `Sound(d)` gathers the properties of one state of the store. They are not
inductive as they stand, for two reasons. First, an import works on a private copy for many
steps, so the copy must be sound too. Second, a handler could start a trade again that already
moved money, if an envelope existed about a trade nothing is known of: `CreateOffer` and
`importOffer` both write the record from scratch. So `Sound` adds `FreshAt` (a trade no envelope
was issued about is absent) and `Issued` (outboxes hold issued envelopes), and `IInv` says the
same of the relays and of the bundle being imported, for the committed state and for the copy.

The first part of `TradeHandlers` shows that a handler does one of four things to the money of one trade: it stays
where it is, goes into escrow, is paid, or is returned; and that each of these moves keeps all
parts of `Sound` (`MoveSound`). The second shows that each handler is such a move, or a
`Quiet` change of other things. `TradeProtocolProofs` puts the steps together,
and adds for `TradeRestore` that the backup is sound and that no envelope id is taken back.

How much money there is, `Sound` does not fix. It derives from balances and outcomes what must
have been minted for each trader (`Minted`: the balance, without what the trader earned, and with
what was spent), asks that this is never negative, and that balances and escrow add up to it. No
step of the protocol changes `Minted`, so that it stays `Funding` (`NothingIsMinted`), which
gives `Conservation`, and for the refinement that each balance is what the outcomes make it. A
mint raises it by what it mints and leaves trades and envelopes alone (`MintSound`), so that the
invariants of the protocol hold under `LiveSpec` too; a restore puts back a state for which
`Minted` is the same.

For the refinement, a step holds one price (`Enters`, only `AcceptTrade`), or resolves some that
were held (`Resolves`), or moves none. A committed import is the one step that may resolve
several: its private copy is at all times some resolutions away from the committed state.

Who decides (`DInv`, `Decides`). Seen from the state it started from, the copy of an import only
`Advances`: trades go forward along the table, and each trade that left its flight did so by an
envelope about it that the importing colony had not processed. All messages of a bundle go to one
colony, so a trade that the bundle resolves was for its seller, and the bundle cannot also bring
the refund, which goes to the buyer's colony: the two differ because ids are only ever drawn for
trades between two colonies (`Apart`). Nothing of this depends on what the store remembers, so
`DecisionsSurviveRestore` has the same proof. What does is that envelopes are true of their trades
(`Told`); that holds because trades only go forward, and is lost by a restore. A true envelope is
applied or recognised as a duplicate: no status its trade can have still leads to the one the step
needs (`NeverTooEarly`, by a set of statuses closed under the table), and the sums fit, since a
balance and an escrow are parts of the money minted and what was settled is a part of all prices.
The latter needs the hypothesis on `Price`: net positions are never reduced, so settled prices add
up without a bound, and a bundle is refused when they no longer fit.

What the mail carries (`MailInv`). That a trade which waits for a decision finds one (`Delivers`) is
not inductive: the envelope is of no use if its id counts as processed, or if another
envelope has the same id, whose import would mark it. So `Numbered` says that every id under way
or processed was drawn before the next one, and no two envelopes share one. A handler then either
sends nothing and decides nothing, or announces what it decides under the next id (`Posts`); an
import takes one id off, and only the import of the awaited envelope ends the wait. Of the copy
of an import the same must hold, since it may be committed. An export that is lost counts in
`losses`, and from then on `Delivers` is not claimed. `InFlightCanBeRefunded` needs only
`Numbered`, and is why asking again helps where an acceptance or a request was lost: it is the
safety half of `AcceptancesAreDecided`, as `EveryDecisionArrives` is of `DecisionsArrive`.

The search. When it answers no, nothing is queued, so that everything seen was expanded, and the
goal was not among the successors; then all that is seen but the goal is closed under the table,
and the goal is not in the closure. A status is put into the queue when it is first seen, so
that the statuses not yet seen and those in the queue are fewer by one after each step; no
reasoning about the recursion of a function is needed.

`MoneyTheorems` proves the laws of totals from the library's cardinality theorems; `Money`
defines a total as a number of units rather than by a fold, so that it has laws to prove.

The invariants of `Supply` and `UserAdmin` are inductive together with their type invariants.
`SupplyIsBacked` and `SupplyIsCredited` use the laws of totals again: a mint raises one account,
one colony's total and either one admin's part or one proposal from pending to approved, and each
total by the same amount. `SuperAdminAlwaysRemains` is one observation (`SomebodyElseRemains`):
the actor of a change is not its target, so if the target was a super admin then the actor is one
and stays, and if not, the super admin there was is somebody else.

`CredentialsProofs` strengthens its properties by what makes a code or a token unusable again:
a secret that codes were accepted for is never enrolled a second time, of the secret in force only
codes up to `lastStep` were accepted, a pending secret has no accepted codes and excludes an
enabled one (`SecretsKnown`, `CodesSpent`); and a reset token that set a password is not the one
on the account (`TokensSpent`). Nothing need be said about the pending requests, because every
second transaction compares what it relies on with the account as it is.

For `PgStore` what has to be shown is that at a commit the rows written over the tables are the
effect of the request on the tables as they are *then* (`CommitServes`), although they were
computed from what it read statement by statement. What it read it holds locked, so it still
says the same; and what it looked for and did not find still is not there: a session of a user is
inserted only by who holds the user or creates it, a name is inserted once, and two bootstraps
exclude each other by the advisory lock. A commit in turn changes only rows the request holds or
inserts, so the others keep their part of the invariant. For the deadlocks: a request that has
not begun to prune waits for a row that comes after all it holds. Were nobody pruning, each of a
set of deadlocked requests would wait for one that holds a later row still; a finite set has a
last one.

For `Cutover` a state is good if its chain verifies, its payloads are compact, `last_ledger_hash`
is the hash of the last entry and `minted_total` what the ledger minted. A load of what was saved
indented gives the state back that was saved (`LoadIndented`), an operation keeps a state good
and prolongs its ledger (`PerformGood`), and a server on PostgreSQL, which loads no ledger, does
the same to it (`ServeGood`). The invariant says that the file, the memory, the copy being
saved, the database and what an import has read are good, and which of them extend which.
A hash is made of the entry and of the hash before it, so by going back from two equal ones
`HashPinsHistory` finds all entries before them equal. This is a fact about the ledger as it is
written and verified, and rests on the abstraction of a hash as the tuple it is made of.

Checked by TLC only: the liveness properties (`OffersAreClosed`, `AcceptancesAreDecided`,
`DecisionsArrive`, `EveryRequestEnds`), which are beyond the prover.

## 5. What is left

Done: the trade protocol with its escrow, restores and liveness; supply, administration and
credentials; the PostgreSQL store with its refinement; the ledger, the state file and the
migration; and the proofs above.

Modelled no further, though it could be: in which order sessions are evicted, whose times are
compared as texts (`service/common.go:139`); reads on PostgreSQL, each a snapshot in one
statement; a bootstrap that races an import, which the documented procedure excludes
(`storage/pg_migrate.go:73`).

Not modelled:

* The HTTP API and the web console: decoding, routing, cookies, headers, metrics and views around
  the service. They keep no state that a later request depends on.
* Power failures: the state file is not synced before the rename, and what is found afterwards
  depends on the file system.
* The schema migrations of a starting server: statements given to PostgreSQL as text, serialised by its own lock.
* Flags, logging, TLS, deployment files; cryptography beyond who can produce what.

# payment-Hubs: TLA+ specifications and proofs

This directory holds a formal model of the payment hub: the ledger, the
dispute service with its state machine, the rate limiter, the card vault, the
OAuth server, the gateway and its audit log. Every definition is a translation of Go code or SQL
of the repository; `PROJECT.json` ("map") names the lines of each. TLC checks
the modules on small instances, and TLAPS proves the most important properties
for every value of the constants.

    tlc -workers 2 -config Ledger_posting.cfg MCLedger.tla     (a run)
    tlapm LedgerProofs.tla                                     (a proof)

## 1. The system

### Processes and how they interact

    clients --TLS--> cmd/api: Recoverer > CorrelationID > RequestLogger > BodySizeLimit
                              > IPAllowlist > RateLimit > Audit > (route: scope) > handler
                       |  RateLimit ---> Redis (one Lua script per request)
                       |  token     ---> PostgreSQL oauth_clients
                       |  handlers  ---> LedgerService ---> PostgreSQL (pgx pool)
                       `  Audit     ---> ChainLogger (one hash in memory; the entry is dropped)
                       RequestLogger prints one line http_request for each request
    services --gRPC--> cmd/auditd: Ingest ---> ChainLogger (the same)
    cmd/vault: VaultService ---> VaultStore ---> SQLite file; FileBasedKMS (memory + files)
    DisputesService ---> PostgreSQL disputes, holds, reserves (a transaction of a connection)
                    `--> StateMachine ---> TransitionStore (PostgreSQL, other connections; or memory)
    ComprehensiveValidation ---> PostgreSQL (a connection inside a connection, same pool)

### Components

| component | state | operations | hard | correct when |
|---|---|---|---|---|
| ledger (`internal/ledger/service.go`, `postgres.go`, migrations 010-012) | accounts, balances, append-only journal, snapshots, all in PostgreSQL; triggers keep balances and snapshots | CreateAccount, Credit, Debit, Transfer, GetAccount, GetBalance, Reconcile, ListAccounts | a transfer is several reads and two transactions; retries; an answer lost at commit; triggers that fire row by row | balances are the sum of the journal, snapshots chain, nothing is overdrawn, success means posted, a credit has its debit |
| ledger validator (`validator.go`, the functions of 012) | none of its own | ComprehensiveValidation, single checks, get_account_balance_at_time, detect_reconciliation_drift | several queries, each of another moment; snapshots stamped with the start of their transaction | a verdict is explained by what was committed between its queries; the balance of a settled moment is final |
| dispute state machine (`state_machine.go`, migration 021) | transitions of each dispute, hash-chained | Transition, GetCurrentState, GetStateHistory, VerifyChainIntegrity | read, validate and store with nothing held | one life cycle for each dispute, REVERSED is final |
| dispute service (`service.go`, `reasons.go`, migration 020) | disputes, holds, fraud reserves; a pool of connections | Create, Authorize, Settle, Initiate, Reverse, the triggers on the status | the transition is made outside the transaction of the rest, on a second connection; reserves are read, summed and written | a row has a history, holds follow authorizations and end with the dispute, reserves follow holds, success means done, no call waits for ever |
| rate limiter (`internal/security/ratelimit.go`) | a token bucket for each client in Redis | Allow | clocks of several processes, overtaking, expiry, repeated scripts | no client beyond capacity and refill; a full bucket grants its burst |
| vault (`internal/vault`, migration 001) | `vault_cards` in SQLite | TokenizeCard, DetokenizeCard, RotateKey | rotation reads on one connection and writes on another under SQLite's locks; restart | a stored card can be opened; rotation loses no update |
| crypto (`internal/crypto`) | master keys in memory and in files | GenerateDataKey, Decrypt, Encrypt | keys do not come back after a restart | a card opens exactly with the master key that sealed it |
| audit (`pkg/audit`, `cmd/auditd`, `audit_middleware.go`, `logging_middleware.go`) | the last hash of each process; no entry is kept | Append, VerifyChain, Ingest, the request lines | concurrent requests, panics, shutdown | the hash stands for all that was told, each answer once and in order; lines and entries agree; a chain shows gaps |
| auth (`internal/auth`) | `oauth_clients`, the signing key of the process | TokenHandler, ValidateToken, RequireScopes | scopes are read before the token is signed and are good until it expires | a lost scope runs out |
| gateway (`internal/api`, `cmd/api`) | none of its own | the middleware chain, the handlers of tokens, accounts, postings and disputes | order of the middleware, panic, shutdown | no effect without authorisation; entry and line for each but after a panic or the end of the process |
| request filters (`internal/security`) | none | allowlist, body limit, schemas, correlation ids | - | - |
| tokenizer (`internal/vault/tokenizer.go`) | none | validation of card numbers | the check digit | slips of the pen are refused |
| tls, config, `cmd/ledger` | none | loading at start | - | - |

`PROJECT.json` lists the components with their status and, under "hazards",
every place in this code that is hard to test, with the property that covers it
or the reason why none does.

### The code as it stands

Several packages do not compile as they are written (`internal/vault/service.go:56`
redeclares its named results with nothing new; `internal/disputes/service.go`
declares `getFraudReserve` twice and names a `LedgerService` its package does
not have; `disputes.go` aliases its types to themselves; in
`internal/ledger/validator.go:344` and `:496` a `&curren` has become the sign of a
currency). They are modelled at the level of the source: what the statements say.
`cmd/vault` opens the store and never registers its gRPC service, and `cmd/api` never sets the disputes
service, whose routes answer 503; the models of the vault and of the state
machine are of the packages.

The migrations, taken together, make two parts inert. No journal entry passes
the row triggers of 011, and no transition passes 021. Both facts are checked
and proved (`NothingIsPosted`, `NothingIsRecorded`). So that the rest can be
said at all, `Ledger` has a constant `Schema`, the triggers and checks that are
there, and `DisputeStateMachine` has `Store`, for each dispute the table or the
store in memory that the tests of the repository use. Everything else about the ledger is checked
and proved for the schemas that let entries through: that is the Go code and the
remaining triggers, which someone who repairs 011 will rely on. In the same way
`DisputesService` has `Obstacles`: four statements of its calls that can never
succeed, and that would hide everything behind them (section 2). `Ledger` has one:
`GetAccount` scans `created_at`, a TIMESTAMP, into a `string`
(`postgres.go:193`), which pgx refuses for every account that is there. As the code
stands, CreateAccount therefore reports an error after it has committed, and no
Transfer gets past its first read. `Ledger_errors` has that obstacle; the other
runs are about the ledger without it, as the tests of the repository expect it to
be.

## 2. The modules

| module | models | by |
|---|---|---|
| `Book` | abstract: what the ledger promises | accounts and entries, no balances |
| `Ledger` | the ledger service, its PostgreSQL store, the triggers and constraints | one action per database transaction or read; implements `Book` |
| `LedgerReports` (EXTENDS `Ledger`) | ComprehensiveValidation, the balance history, the drift function and the overdraft check while clients post | one action per query; posting split in begin and commit |
| `DisputeLifecycle` | abstract: the life cycle of a dispute | a state for each dispute |
| `DisputeStateMachine` | StateMachine over a TransitionStore | read and store as two actions; implements `DisputeLifecycle` with one caller |
| `DisputeReasons` | reason codes, validation of a request, fees | operators |
| `DisputesService` (EXTENDS `DisputeReasons`, INSTANCE `DisputeStateMachine`) | DisputesService, the triggers of migration 020, the connection pool with the validators that share it | one action per statement that others can see or wait for |
| `TokenBucket` | RateLimitMiddleware and the Redis script | read of the clock and script as two actions |
| `Vault` | VaultStore, KMS and encryptor, SQLite's locks | one action per statement |
| `AuditChain` | Append and VerifyChain as operators | a hash is the triple it is made of |
| `Gateway` (EXTENDS `AuditChain`) | the middleware, OAuth, audit log, auditd, restarts | one action per step another request can see |
| `Tokenizer` | validatePAN and luhnCheck | operators |
| `Sums` | lemmas on sums over finite sets, used by four proof modules | TLAPS |
| `*Proofs` | theorems | TLAPS |
| `MC*` | instances | constants and symmetry for TLC |

### Ledger

`accounts`, `balances`, `journal`, `snapshots` are the four tables. For each
client, `pc` says where its call stands, `legs` are the entries the call posts,
`leg` and `attempt` the loop variables of `transferWithRetry` and
`PostJournalEntry`, `reply` how the last call ended. A transaction of
`postJournalEntryWithRetry` is SERIALIZABLE and locks the account row first, so
it is one step, `PostEntry`; it commits when the account exists, the amount is
positive, the entry number is new, and no trigger of `Schema` raises
(`Accepted`), and it does what the triggers do, in their order: `Insert`. The
CHECK of `account_balances` is evaluated on the row *proposed* by the upsert of
the balance trigger (`011_entries.sql:134`), before the conflict makes it an
update: a negative change is refused whatever the balance is (`BalanceRaises`).

Transfer reads the first account, reads the second, compares currencies, checks
the funds and then posts the debit and the credit, each with its own retries:
`GetFromAccount`, `GetToAccount`, `CheckFunds`, then `PostEntry` twice. The
accounts are read by *number* and posted to by *id* with the same string
(`service.go:243`), so a transfer gets past its reads only between accounts
whose number is the id of an account; `Names` holds both kinds. Both reads, and
the one at the end of CreateAccount, are `GetAccount` (`Readable`), which fails
always when `scan` is in `Obstacles`.
`PostReplyLost` is the commit whose answer never comes, `SerializationFailure`
the rollback that is retried, `DatabaseUnavailable` any other failure.

`Book` is what a client of the ledger relies on: accounts are opened once, under
a number of their own, and entries are added at the end, one at a time. It keeps
no balance; what an account holds is what its entries come to, and `Post` refuses
to spend more than that (expenses excepted), to use an entry number twice, and to
credit a transfer that has not been debited. `ImplementsBook` says that calls,
legs, retries, lost answers and the stored balances are all details of that. It
needs the trigger that keeps balances: the book decides by the entries, the ledger
by the stored balance.

### LedgerReports

`Begin` is the start of the database transaction, whose time the snapshot gets
(`CURRENT_TIMESTAMP`). The validator is one reader with the query it comes to in
`at`; a verdict keeps the entries committed between the two queries it compares
(`span`), for the property. A failed query gives an invalid result, except the
one that lists the transactions, whose error nobody looks at
(`validator.go:522`): `ReadTransactions` may find none although there are some,
and the report lacks their checks.

The operations that only compute are operators: `BalanceAt` is
get_account_balance_at_time, `Drift` is detect_reconciliation_drift,
`validate_balance_consistency` the function of that name, and
`ValidateOverdraftPrevention` the check of the validator. `DriftTellsOfFalls`
compares the first three with each other, `OverdraftAlarmsAreFalse` the last
with the trigger that will judge the same entry.

### DisputeStateMachine and DisputeLifecycle

`history` are the stored transitions of each dispute in the order of the store.
`Transition` enters, `ReadLatest` reads and validates, `CreateTransition`
stores, with or without the answer coming back. The position of a transition
stands for its hash, since no two hashes are alike (they cover the clock).
Over `Store = "postgres"` the triggers of 021 judge each insertion
(`DatabaseRejects`). `DisputeLifecycle` is what a reader of
`internal/disputes/README.md` expects: one state, moving along
`AllowedTransitions`. With one caller at a time the state machine implements it;
with two it does not (section 6).

### DisputesService and DisputeReasons

`status` and `holds` are the rows of `disputes` and `funds_holds`, `reserve` the
merchants' `fraud_reserves`. A row becomes visible at the commit of its call, so
the writes of a call are one step, `Commit`, and what the call has read before
(`base`, the reserve) is kept in `call`. The transition is not part of that
transaction: `InsertDispute`, `ReadDispute` and `SettleNext` hand it to the state
machine, which runs as it is (`Machine!Transition`, `Machine!Continue`) on other
connections of the pool, and stays when the rest is rolled back. `CreateDispute`
goes begin, insert, transition, hold and reading of the reserve (`ApplyFundsHold`),
`UpdateFraudReserve` (which waits for the lock of the row), commit; `Authorize` the
same from a row it reads; `Settle` makes one transition after another; `Initiate` has
no transaction; `Reverse` ends at an update that the trigger refuses. `overlapped`
and `late` are bookkeeping: the merchants two of whose calls were between their
reading and their commit at once, and how many authorizations of a dispute had
read it and were still in progress when its row became REVERSED (`Authorizers`).

Nothing in the code writes a dispute's status after its creation, and the triggers
wait for just that; `UpdateStatus` is an operator who brings the row to the
dispute's latest transition, as `validate_dispute_transition` allows.

`Obstacles` are the statements that never succeed in the repository:

- `metadata`: CreateDispute writes `json.RawMessage{}`, which is no JSON;
- `scan`: every SELECT of a dispute lists seventeen columns for sixteen targets;
- `hold_id`: the hold of a creation refers to `dispute.ID`, which is not the id
  that the row was given;
- `release_entry`: the release of a hold posts one journal entry, which the row
  triggers of migration 011 refuse.

With any of the first two, nothing of the service happens at all; with `Store`
as the table, `NoDisputeInPostgres` is proved. The run drops them, to see what is behind them.

A connection is held by every call in a transaction and by every validator with
open rows (`InUse`); whoever wants one for a statement, or for the transition,
waits for `FreeConnection`. `OpenRows`, `CloseRows` and `DeadlinePasses` are
ComprehensiveValidation as the pool sees it (`validator.go:513-527`).

`DisputeReasons` has the codes, what `validateDisputeRequest` asks of a request as
the service fills it in, and the fees. `HoldsCoverTheDispute` is a statement about the
fees that TLC evaluates for every amount from 1 to 1100, past both ends
of both scales, and that is proved for all amounts.

### Tokenizer

A card number is a sequence of digits, separators and other characters.
`SlipsAreRefused` says what a check digit is for, and TLC evaluates it over the
numbers of `MCVault`: any one wrong digit is refused, and any swap of two
neighbours but of 0 and 9.

### TokenBucket

`bucket` is the Redis hash with its expiry, `clock` the time of Redis, `Offset`
how far ahead each caller's process is. A caller reads its clock (`Allow`) and
later runs the script (`RunScript`), which another call may have done in
between. `window` counts, for the properties, from some call on: tokens taken,
and time the limiter refilled a second time because the bucket's clock went back
or the bucket was lost. Time and tokens are integers scaled so that no fraction
is rounded, except the time to live, which the code rounds as well.

### Vault

A row keeps its key id and, for the ciphertext, the lifetime of the process
whose master key sealed it; `keys` and `files` are the master keys in memory and
on disk, the same way. `readers` hold SQLite's shared lock with open rows,
`writer` holds the reserved one, and so does an insert that waits for
them (`InsertWaits`); `Blocked` says when a statement meets a lock, and such a
statement waits and then fails (`DatabaseLocked`). A rotation opens
its rows, rewrites card after card in its transaction, closes the rows at the
last one *or at a failed read* (`rows.Err` is not asked), and commits. `Restart`
takes the keys and every call in progress with it.

### AuditChain and Gateway

`AuditChain` has what an entry is made of, its hash, and `VerifyChain`, which
takes the first entry at its word. A `ChainLogger` keeps one hash, `previousHash`;
one `Append` under its lock is `AppendTo`. It returns the entry, and both its
callers, `AuditMiddleware` (`audit_middleware.go:32`) and `Ingest`
(`cmd/auditd/main.go:27`), drop it: no entry is stored, printed or sent anywhere.
`log` and `ended` are therefore no state of the program but history variables,
what the logger of each process has returned so far and in the lifetimes that are
over. The properties hold against them what the program does have: the one hash,
the lines of `RequestLogger` (`lines`), and what clients were answered.

In `Gateway` every request has a name and is used once. `RequestLogger` is around
everything. Within it a request is refused before the audit (`Refuse`), or goes
through `Open`, `RequestToken`/`SignToken` or `RefuseToken`,
`Authenticate`/`Handle` or `RefuseRequest`. Its handler ends with a status, of
which the class counts, and `Append` is called with it (`Respond`, `AppendEntry`);
after that the line is printed (`PrintLine`). A batch for auditd is told entry by
entry, and answered after the last (`Ingest`). A panic skips both, the append and
the line (`HandlerPanics`); a restart cuts off every request of the process (main
returns as soon as `Serve` does, `cmd/api/main.go:139`), and starts a new key and
a new chain. `SetScopes` is an operator who writes `oauth_clients`.

## 3. The runs

| run | question | properties |
|---|---|---|
| `Ledger_posting` | do balances, snapshots and journal stay together under retries and lost answers? | `TypeOK`, `BalancesMatchJournal`, `SnapshotsChain`, `NoOverdraft`, `OkMeansPosted`, `CallsReturn` |
| `Ledger_transfer` | what survives of a transfer when others interleave and spend, and the database fails? | `ImplementsBook`, `OkMeansPosted` |
| `Ledger_migrations` | what do the migrations as written let through? | `NothingIsPosted` |
| `Ledger_errors` (violation) | does a call that reports an error leave nothing behind? | `ErrorsLeaveNothing` |
| `Reports_reading` | are verdicts and histories right while clients post? | `ReportTypeOK`, `VerdictsAreExplained`, `DriftTellsOfFalls`, `OverdraftAlarmsAreFalse`, `HistorySettles` |
| `Disputes_tree` | what do overlapping calls leave of a history? | `TypeOK`, `HistoryIsATree`, `ForksAreBounded` |
| `Disputes_sequential` | is it the life cycle with one caller, and what does the table of 021 accept? | `HistoriesAreChained`, `NothingIsRecorded`, `ImplementsLifecycle` |
| `Disputes_terminal` (violation) | is REVERSED final? | `ReversedIsTerminal` |
| `Disputes_service` | do rows, transitions, holds and reserves agree when calls race and fail, and does every call get its connections? | `TypeOK`, `DisputesBegin`, `HoldsAreAccountedFor`, `ReservesFollowHolds`, `FraudIsNeverDisputed`, `OkMeansDone`, `CallsReturn` |
| `RateLimit_skew` | what do skewed clocks, overtaking, repetition and loss cost? | `TypeOK`, `BudgetIsKept`, `BurstIsGranted`, `PromptCallsForgiveNothing` |
| `Vault_rotation` | do rotations, failures and restarts lose cards or updates, or wait for ever? | `TypeOK`, `CardsOpenInTheirLifetime`, `NoLostUpdate`, `OldCardsStay`, `CallsReturn` |
| `Gateway_requests` | do the audit chain and the lines tell what was answered, and does a lost scope run out? | `TypeOK`, `AuditTellsTheAnswers`, `PiecesVerify`, `LostScopesRunOut` |

What the less obvious properties say: `OkMeansPosted`, that no retry reports a
success it did not have. `ImplementsBook`, that the ledger is a book (section 2), so
that in particular the credit of a transfer follows its debit (`CreditFollowsDebit`).
`OverdraftAlarmsAreFalse`, that what the overdraft check of the validator warns of
would have been accepted.
`VerdictsAreExplained`, that the validator cries wolf exactly when entries that do
not cancel out were committed between its two queries. `HistorySettles`, that the balance of a past moment is final once all
transactions in progress began later. `HistoryIsATree`, that overlapping calls
may fork a history but never break it; `ForksAreBounded`, that no transition is
extended by more others than there are callers. `DriftTellsOfFalls`, that all
balances of now agree and a drift since the beginning means only that an account once
held more. `DisputesBegin`, what a failure between the transition and the commit
can leave. `HoldsAreAccountedFor`, that a dispute's holds are one and its
authorizations, and that what is held of a REVERSED dispute was held after the
release by authorizations that had read the dispute before its end and were still
in progress then, once at most by each. `ReservesFollowHolds`, that increments
are lost only between overlapping calls of a merchant, and never too many made.
`BudgetIsKept`, that a client gets
capacity, refill and the forgiven time, and nothing else; `PromptCallsForgiveNothing`
says who can be forgiven. `CardsOpenInTheirLifetime`, that a card opens exactly
in the lifetime that sealed it last. `AuditTellsTheAnswers` is about what the program has: the
one hash of each logger is that of the last entry it made, so that it stands for
all that `Append` was told since the process began; that was each answer once, in
order and in one lifetime; and the line of a request has the status that was told,
and is not there before the entry. It also says exactly when an effect has neither
entry nor line: after a panic or the end of the process; and that only requests refused
before the audit have a line alone. It does *not* say that an entry can be read
afterwards: none can.

### Bounds, and why they are enough

- *Ledger*: two clients, since every conflict of this code is between two calls;
  `MaxEntries = 2` stops new calls once two entries are there, so that two calls
  in progress can bring the journal up to five. Two ids (three where a transfer
  needs an account whose number is another's id), one number that is no id, and the
  types that differ: asset (debit-normal, must not be overdrawn), expense
  (debit-normal, may be), liability (credit-normal). In `Ledger_transfer` two of
  three transaction ids share a prefix, so that their transfers exclude each other,
  and the third has its own, so that two transfers run leg by leg beside each other
  after a posting (five entries); and `Schema` lacks the CHECK of 010: what a
  transfer found when it checked the funds is spent by the other client before its
  entries are posted. With the CHECK nothing is ever spent (`BalancesOnlyRise`).
  Amount 1 is enough there; 1 and 2 in `Ledger_posting` tell a wrong sign from a
  wrong amount. 466 000 states.
- *Reports*: one account type, asset; the sides only change signs here. Three ticks, so that a transaction can begin before and commit after
  another; two stamps, since one would allow a single entry of a transaction.
- *Disputes*: three callers (two overtake the third twice), five transitions before
  new calls stop. The longest path of the life cycle has five states.
- *DisputesService*: two callers. The first creates, authorizes and settles, the
  second authorizes and reverses one dispute and initiates another, so that every two
  operations on one dispute meet. Two disputes of one merchant
  and one journal entry, one with a Visa and one with a Mastercard code, and one of a
  fraud code. Three transitions of the first, four of the second (enough for
  PENDING to DISPUTED), and one of the third, which never has any. Amounts
  and the rate are 1: the reserve counts holds. The pool has three connections:
  the two callers and one validator can fill it. One merchant, with a reserve: a
  merchant without one cannot commit a hold at all.
- *TokenBucket*: two processes, one a tick ahead; a bucket of two tokens, three
  half tokens a tick, so that refill overshoots the capacity; five ticks, more
  than two times the time to live; one forgiven tick before new calls stop.
- *Vault*: two calls, two cards, two keys (the test key and another), one restart.
- *Gateway*: three requests (a token, its use, a third beside them), one gateway
  and one auditd with a batch of two entries, one client with one scope, a token
  life of one tick, one change of the table, one restart. `removed`, `read` and
  `signed` are bookkeeping for `LostScopesRunOut`. About 625 000 states.

Symmetry is used only in runs without liveness properties. Deadlock is checked
except in `RateLimit_skew` and `Gateway_requests`, which stop at their bounds.

### Fairness

`CallsReturn` of the ledger and of the vault assumes weak fairness of each call
*in progress* (`Continue`), not of starting one. The code justifies it: each
query of the ledger has a deadline of five seconds and each posting at most
three attempts, and SQLite makes a statement wait only as long as its busy
timeout before it fails.

The calls of the dispute service wait for connections and for the lock of a
reserve, and other calls may take these first. `FairCaller` is what the pool and
the lock table give: those who wait are served in turn, so a call that is
able to go on again and again does. It is strong fairness of `Proceed`, with the
spontaneous failures of the database left out of what has to happen. A validator
closes its rows or meets its deadline of five seconds (weak fairness).

`CallsReturn` of the service holds because the pool is larger than the number of
calls in a transaction; a validator that fills it gives up at its deadline. TLC
finds a deadlock with `PoolSize = 2` in the same instance: two calls hold the two
connections and each waits for one more, with no deadline of their own in the code
(`disputes/service.go:110`). Whoever sizes the pool has to keep it above the number of
concurrent dispute calls. The mutant `DeadlinePassesUnseen` shows that the
deadline of the validators is needed as well. No other run uses fairness.

## 4. The proofs

| module | theorems | assumptions on constants |
|---|---|---|
| `LedgerProofs` | `TypeCorrect`, `NothingPosted`, `NeverOverdrawn`, `BalancesOnlyRise`, `OkPosted`, `CreditsFollowDebits`, `SnapshotsLink`, `BalancesAreSums`, `LedgerIsBook`, `CallsEnd` | `LedgerAssumption`; `SnapshotsLink`, `BalancesAreSums` and `LedgerIsBook` say which triggers are in `Schema` |
| `LedgerReportsProofs` | `ReportsKeepLedger`, `ReportTypeCorrect`, `PastSettles`, `VerdictsExplained`, `DriftOnlyFalls`, `OverdraftAlarms` | the same and `ReportsAssumption`; the triggers on balances and snapshots in `Schema` where they are needed |
| `DisputeStateMachineProofs` | `OperationCheckIsRedundant`, `TypeCorrect`, `NothingRecorded`, `HistoryTree`, `SequentialRefinement`, `SequentialTerminal` and `SequentialChains` (when `Callers` has one element), `ForksBounded` (when it is finite) | `StateMachineAssumption` |
| `DisputesServiceProofs` | `ServiceUsesMachine`, `ServiceTree`, `ServiceRecordsNothing`, `ServiceTypeCorrect`, `ServiceBegins`, `ServiceNeverFraud`, `ServiceOk`, `NoDisputeInPostgres`, `ServiceHolds`, `ServiceReserves` (when `Disputes` is finite), `RowsFollowLifecycle`, `RowsTellHistory`, `NeverWedged`, `CallsEnd`, `SerialServiceKeepsLifecycle` and `SerialServiceKeepsChains` (when `Callers` has one element), `HoldsCover` | `ServiceAssumption` |
| `TokenBucketProofs` | `TypeCorrect`, `BudgetKept`, `BurstGranted`, `PromptUnforgiven` | `TokenBucketAssumption` |
| `VaultProofs` | `TypeCorrect`, `CardsOpen`, `NoRotationLost`, `OldCards`, `CallsEnd`, `SlipsFail` | `VaultAssumption` |
| `GatewayProofs` | `TypeCorrect`, `OneHashIsEnough`, `AuditTells`, `AllPiecesVerify`, `PiecesAlwaysVerify`, `LostScopesEnd` | `GatewayAssumption` |
| `Sums` | lemmas only | - |

The arguments:

- **Sums.** The balance of an account is a sum over a journal of any length, and
  the provers have no rule of induction for that. A sum over a set is the value of
  a recursive function, and each fact about it (it is an integer, it does not
  depend on the order, a new element adds its weight, two disjoint sets add up)
  is proved by taking a *smallest* subset for which it fails, which the library's
  theorem on well-founded orderings gives for a finite set.
- **Ledger.** The types are inductive together with `IdleAtFirst` (an idle call
  stands at its first entry), because they say that a call in progress is at one
  of its entries and that every entry's account exists.
  `NothingPosted` needs that the sum over an empty set is 0: a first entry can
  balance nothing. `NeverOverdrawn` and `BalancesOnlyRise` follow from the type
  invariant and what `Accepted` refuses. `OkPosted` and `CreditsFollowDebits`
  rest on `CallInv`: the legs a call has gone past are in the journal, and
  the legs of a transfer are its debit and its credit of one transaction and
  amount. `BalancesAreSums` is inductive as it stands once a sum with one
  entry more is the sum and its change.
- **The ledger as a book.** The refinement of `Book` joins these: a step of the
  ledger opens an account, inserts an accepted entry, or changes neither table.
  What the book derives from the entries is the sum that `BalancesAreSums` equates
  with the stored balance (`HoldsIsSum`), so the trigger refuses what the book
  refuses; that a credit finds its debit is `CreditFollowsDebit` after the step.
  With another `Schema` the refinement is not claimed: without the trigger nothing
  compares an entry with what the account holds.
- **Calls end.** `CallsReturn` is liveness and out of the prover's reach, but what
  makes it true is not: `CallsEnd` of the ledger, of the dispute service and of the
  vault say that every step of a call in progress ends it or lowers a measure of
  what it has left (reads, entries and attempts; the disputes of a settlement and
  the stage of the current one; the rows of a rotation), and that the steps of
  other calls leave the measure alone. `NeverWedged` adds for the dispute service
  that with more connections than callers and validators holding rows each call
  can go on, or waits for a row lock whose holder can.
- **Reports.** `ReportsKeepLedger`: with every posting split in two the ledger is
  still the one of `Ledger`, so its theorems hold here. `PastSettles`: what
  commits now is stamped later than the moment asked about, so the snapshots up
  to it stay. `VerdictsExplained` keeps, for the verdict and for the balance
  that was read, the entries committed since (`VerdictInv`). `DriftOnlyFalls`
  needs that snapshots mirror the journal entry by entry (`Mirror`).
  `OverdraftAlarms` combines the types with `NoOverdraft`: an alarm on the wrong
  side would be right only if the balance were already below zero.
- **State machine.** `HistoryTree` rests on: what a caller holds between its
  read and its store is a transition of that dispute which allows the step, and
  a dispute that is being created has no history and one creator. The refinement
  and `SequentialChains` add that with one caller what it holds is still the latest;
  so does `SequentialTerminal`, which is the comment that `Disputes_terminal` refutes
  for more callers.
  `ForksBounded` counts: those who have extended a transition that is not the latest
  any more, together with those who still hold it, are never more than the callers
  (`ForkInv`), since nobody begins to hold it again.
- **Dispute service.** `ServiceUsesMachine` shows that the service is a client of
  the state machine: each of its steps is a step of the machine or leaves it
  alone. The theorems about the machine then hold of the service by
  instantiation (`ServiceTree`, `ServiceRecordsNothing`, `SerialServiceKeepsLifecycle`,
  `SerialServiceKeepsChains`). The rest has its own invariant,
  `ServiceInv`: where each call can stand and that its transition is in progress
  only while it waits (`CallShape`), what it relies on and has recorded
  (`Claims`), that two calls never create one dispute (`OneCreator`), and what a
  row says of its history and holds (`Rows`, `ValidRows`). To it `PoolInv` adds that no more
  connections are out than there are, `HoldInv` that the holds of a dispute and
  those that calls still owe it stay within its authorizations, and after its end
  within those that were late (a row that is REVERSED lets no other authorization in), and `ReserveInv`
  that the reserve, and what a call has read of it, is no more than the sum
  of the holds, and equal to it while nothing overlapped. `RowsFollowLifecycle` is a
  second refinement of `DisputeLifecycle`, by the rows instead of the histories: with
  any number of callers the histories fork and the rows do not, because a creation
  commits only a dispute that has no row and the trigger judges the rest.
  `RowsTellHistory` says that a row is never ahead of its history. `HoldsCover` is
  `HoldsCoverTheDispute` for every amount: both fees are monotone between their bounds.
- **Rate limiter.** `BudgetKept` is a potential argument: tokens in the bucket
  plus tokens spent never exceed the capacity plus the refill of the window and
  the forgiven time; a bucket that expires would have been full
  (`FillsInTTL`), so losing it then is free. `BurstGranted` uses that a window
  that began full has lost at most what was spent. `PromptUnforgiven` rests on
  `Dated`: no bucket and no call is dated later than the furthest clock.
- **Vault.** The invariant joins four parts to the types. `Sealing`: a master key
  in memory is of this lifetime, and is there when a row of this lifetime is.
  `Locks`: while a rotation reads, or has rewritten a row, the rows it has read
  are what the table holds. Without the lock of the reader this fails (that is the
  mutant `OpenRowsAtOnce`). `Opened`: what it rewrites it could open. `Fresh`: an insert
  meets no card of its token. From these, a step that changes a card is the
  commit of a rotation that still has that very row (`OnlyRotations`).
- **Check digit.** `SlipsFail` is about `luhnCheck` on digits, in numbers of any length.
  The fold is a sum over the positions, a slip changes one or two of its
  terms (`SumChanged`, `SumChangedTwice`), and doubling a digit permutes the
  residues. Taking the separators out is a `SelectSeq`, which is recursive and which the
  provers cannot expand: with separators `SlipsAreRefused` is evaluated only.
- **Gateway and audit chain.** What each logger has returned is a chain whose last
  hash is the one it keeps (`LogInv`: each entry holds the hash of the one before),
  and an append keeps it one. A hash tells the entry it was made of, so that, followed
  backwards, the one hash that is kept tells all entries since the process began:
  two chains with the same last hash are the same (`OneHashIsEnough`). In the same
  way the entries of a collection that verifies, followed backwards from its last,
  are those of the log that the last is in: it is a piece of one log, however long
  (`AllPiecesVerify`; `PiecesAlwaysVerify` is the same of two and three). `AuditTells`
  follows each request to the one log that speaks of it, which is that of its
  process or, after a restart, one that is over (`Said`); what that log says is the
  answer without what is still pending, and the line is printed only when nothing
  is. `LostScopesEnd` rests on `ScopeInv`: whatever claims a token, a request or a
  handler carries were granted by the table at some time (`Granted`), and once a
  scope is lost those that still have it were read before, and run out with the life
  of a token (`RunsOut`).

Only model-checked: the three liveness properties (`CallsReturn`), whose fairness
the provers cannot handle; their safety halves are proved (`CallsEnd`,
`NeverWedged`). Only evaluated: `SlipsAreRefused` for numbers with separators. The
two violation runs check statements that are false, and need no proof. Every
other property of a run is a theorem.

## 5. Not modelled, and why

- Operations that only read and whose result nothing in the code acts on:
  GetDispute, ListDisputes and CalculateMerchantReserve, MaskPII, ListAccounts and
  Reconcile. They change nothing, and what they return
  is a row of a table that is modelled.
- The formats of expiry, CVV and cardholder name are regular expressions, and a
  token is random bytes: there is no behaviour to check.
- The latest transition in the table is found by `created_at` and then by a
  random id (`disputes/service.go:799`), so two transitions of one moment may
  come in any order. The table accepts none at all; the store in memory, over
  which everything else is said, keeps its order.
- Signatures, ciphers and hashes are taken to work: SHA-256 without collisions,
  AES-GCM opens only with its key, a JWT validates only under its key. (The KMS
  seals data keys by XOR, which never fails by itself: with another master key a
  wrong data key comes out, and AES-GCM refuses the card.)
- TLS, configuration, body limits, schemas, correlation ids, formatting,
  logging: no state that outlives a request. Deployment, proto, OpenAPI and
  generated code: nothing to check.
- Amounts are integers. NUMERIC(20,8) does not round sums; the `float64` in the
  Go code may, and that is left to tests.
- A client that repeats a Credit under the same transaction id posts twice (the
  entry number holds the time, `service.go:129`). Nothing in the code promises
  otherwise; the model allows it.

## 6. Where code and documents disagree

Checked as violations:

- `LEDGER_IMPLEMENTATION.md:68` says "**Atomicity**: All operations within
  single transactions". CreateAccount commits, reads the account back in a
  statement of its own, and returns that statement's error, which comes always
  (`Ledger_errors`, under the full migration set and with nothing else failing).
- `state_machine.go:88` calls REVERSED a "Terminal state". A caller that read
  before the reversal stores its transition after it (`Disputes_terminal`,
  over the store in memory that the tests use; the table of 021 stores nothing).

Met while modelling, and reflected in the models or left to the plan:

- Transfer posts its two entries in two transactions, and a refused credit leaves
  the debit, while `PHASE_I_REVIEW_AND_REFINEMENT.md:413` has "All transactions
  atomic (all-or-nothing)". As the code stands this is behind two obstacles: the
  scan of `GetAccount` ends every transfer before its debit, and the triggers of
  011 let no entry through. It is what `Ledger_transfer` allows, which has neither; what
  does hold there is `CreditFollowsDebit`, part of `ImplementsBook`.
- Transfer *debits* the account it takes from (`service.go:268`, "money out of from
  account") and credits the other one, and the balance trigger lets a debit *raise* an
  asset account (`011_entries.sql:111`). `internal/ledger/integration_test.go:346-349` expects the asset
  to fall by the amount. The model has what the code does.
- The CHECK of 010 is evaluated on the row that the balance trigger proposes and
  refuses every negative change, whatever the balance is: no posting ever takes money
  out of any account (`BalancesOnlyRise`), although the tests and documents expect
  postings and transfers that lower a balance.
- VerifyChainIntegrity recomputes each hash with the present time
  (`state_machine.go:270`), so it fails for every dispute that has a transition.
- The overdraft check of the validator takes a debit to *lower* an asset account
  (`validator.go:365`); the trigger and the balance check take it to raise one
  (`OverdraftAlarmsAreFalse`): it warns of what would be accepted, and lets pass what is
  refused.
- detect_reconciliation_drift sums changes from its start time on and compares
  with the largest balance ever up to its end (`012_balances.sql:186`): it reports
  accounts with which nothing is wrong (`DriftTellsOfFalls`).
- ReverseDispute sets `resolved_at` and leaves `status` alone
  (`disputes/service.go:407`): the trigger on updates refuses a status that stays
  what it is, so the call never succeeds, its transition is made all the same, and
  nothing is released. A comment says "trigger will handle the journal entries"
  (`service.go:482`).
- `internal/disputes/README.md:10` says "All dispute operations are atomic". The
  transition is made outside the transaction and stays when it is rolled back
  (`DisputesBegin` and `OkMeansDone` say what does hold).
- Fraud and authorization codes ask for fields of the request that the service
  never fills in: no such dispute is ever created (`FraudIsNeverDisputed`), and
  fraud reserves collect from all others.
- Two calls of one merchant that overlap read the same reserve, and one increment
  is lost (`ReservesFollowHolds`). A merchant without a reserve is meant to be
  given one, but pgx's error is not the one that is looked for: its disputes fail.
- The tokenizer keeps the first six and last four *characters* of the number as it
  was written, separators included (`tokenizer.go:49`), and its expiry pattern
  accepts a year of three digits where the comment says MM/YY or MM/YYYY.
- PostgresTransitionStore and the dispute queries compare errors with
  `sql.ErrNoRows`, and pgx returns `pgx.ErrNoRows`: no rows is a failure.
- FileBasedKMS writes its keys and never reads them. A second instance over the
  same directory, as in `kms_test.go:133`, cannot decrypt what the first sealed, although
  `VAULT_IMPLEMENTATION.md:153` lists "Key persistence across instances". The
  next key of that name is written over the file.
- DecryptCard parses the plaintext with a verb that `Sscanf` does not accept and
  drops the error: it returns blanks (`vault/store.go:147`).
- StoreCard always seals under `test-key-1`, so a rotation away from it never
  stays complete (`vault/store.go:161` says "re-encrypts all cards").
- "All API requests must be logged for audit compliance"
  (`PHASE_I_REVIEW_AND_REFINEMENT.md:553`): the audit entry of *every* request is thrown
  away as soon as it is made (`audit_middleware.go:32`; `cmd/auditd/main.go:27` for
  batches), and of the chain only its last hash stays in memory. What is
  printed are the lines of `RequestLogger`, and they are missing for handlers that
  panic and for requests in progress at shutdown; requests refused before the audit
  middleware have a line and were never told to the chain. `AuditTellsTheAnswers`
  says exactly which.
- Tests that open SQLite as `:memory:` with the default pool give each connection
  a database of its own; the model takes the file that `cmd/vault` opens.

## 7. Plan

Done: `Ledger` with `Book`, `LedgerReports`, `DisputeStateMachine` with
`DisputeLifecycle`, `DisputesService` with the pool and `DisputeReasons`,
`TokenBucket`, `Vault`, `Tokenizer`, `AuditChain`, `Gateway`; proofs of every safety
property and of both refinements.

Left, in this order:

1. An abstract token bucket over one clock, and its refinement by `TokenBucket` when
   the clocks of all processes agree.
2. The handlers of the gateway in more detail: the errors that each of them turns
   into an answer, with the ledger of `Ledger` behind them.
3. `intersectScopes` and the request validator as operators with a reference
   definition.

# Verification of jungle-backend

TLA+ modules of the wagering backend in `src/`, the TLC configurations that check them on small
instances, and theorems checked by TLAPS. Paths below are relative to `src/`.

## 1. The system

| Part | Code | State | Operations |
|---|---|---|---|
| Wager rules | `internal/domain/{money,wallet,ledger,wager}` | none | validation, reference rules, direction and size of a movement, status transitions |
| Wagering service | `internal/application/wagering/service.go`, `internal/repository/postgres/{wagering,wallet,ledger,transaction}.go` | tables `wallets`, `wager_transactions`, `ledger_entries`, `outbox_events` | `Process` (HTTP), `ProcessInTx` (queue), `ResumePendingReference`, `RejectPendingReference` (worker), two reads |
| Wallet service | `internal/application/wallet/service.go` | the same tables | `Create`, `Get`, `Ledger`, `Reconcile` |
| API | `cmd/api` | none | HTTP endpoints over the two services |
| Consumer | `cmd/consumer` | `inbox_messages`, a batch of SQS messages | receive, handle in one transaction with the inbox row, delete or leave for redelivery |
| Reference worker | `cmd/reference-worker` | `PENDING_REFERENCE` rows it has locked | claim a batch, resume, retry later, give up |
| Publisher | `cmd/publisher`, `internal/repository/postgres/outbox.go` | `outbox_events`, a claimed batch | claim with token and lease, send, mark published or for retry |
| Schema | `migrations` | keys, CHECKs, triggers | |
| Authentication | `cmd/api/auth`, `cmd/api/handlers/auth.go` | the verifier's signing keys, shared by all requests | check a token, fetch keys it does not know |
| Wiring, configuration, health, logging, swagger, k6, postman, keycloak | `internal/fxmodules`, `internal/platform`, ... | | not modelled, see 7 |

**How they interact.** The API, the consumer and the reference worker run the same use cases in
PostgreSQL transactions (READ COMMITTED) and meet only in rows and row locks. A use case writes
wallet, ledger, wager and outbox in one transaction. The consumer puts its inbox row in the same
transaction and deletes the message after the commit. The publisher reads the outbox in
transactions of its own and talks to SQS between them. The only memory that concurrent requests
share is the key cache of the token verifier.

**What is hard.** Requests that race with their own repetition; read-modify-write of a wallet;
references that arrive later than what refers to them; two reversals of one wager; the lock orders
of clients (wallet, insert, reference) and workers (rows of the batch, wallet, reference);
at-least-once delivery in and out; leases and visibility times that end early; crashes between any
two steps; reads of a ledger whose order is not the order of its commits; creations of one wallet by
several callers; retries by workers with different clocks; poison messages in a FIFO group; keys
that are rotated while they are fetched; integers at the end of their range; and three definitions
of what a valid transaction is (request validation, entity, schema). `PROJECT.json` lists each
hazard at its line with the properties that cover it.

**What makes each part correct.** Wagering: one effect per wager, wallet and ledger agree, answers
are stored outcomes, final rows stay, events match outcomes, nothing waits for ever. Consumer: an
id is executed once, only handled messages are deleted, every message ends. Publisher: PUBLISHED
means sent, duplicates only after failures, claims are respected, everything is published in the
end. Ledger reads: a reconciliation reports true differences only, a walk shows every entry once.
Wallet creation: a player has one wallet per currency, whole or not at all. Reference worker:
nobody is given up early or waits without bound, and attempts survive restarts. Rules: what is
decided can be stored and loaded, and arithmetic is that of unlimited integers or an error.
Authentication: an answer follows from the token and the published keys.

## 2. The modules

| Module | What it models |
|---|---|
| `WagerDomain` | the rules of one transaction: `ValidRequest`, `PayloadHash`, `ReferenceVerdict`, `Direction`, `Accepts`, `Move` |
| `Wagering` | clients and reference workers over the database, one action per SQL statement |
| `Settlement` | what the wagering service promises: requests settled one after the other |
| `WageringRefinement` | the mapping under which `Wagering` implements `Settlement` |
| `MCWagering` | two scenarios of requests for it |
| `WageringProofs` | theorems about `Wagering`: types, ledger, copies, effects, events, final rows, answers, reversals, deadlocks, and that it implements `Settlement` |
| `ReferenceRetry`, `MCReferenceRetry` | polling, attempts, TTL and clocks of the reference workers |
| `ReferenceRetryProofs` | its theorems, and those about the delays of `Backoff` and their calls in `ArithmeticCalls` |
| `WagerEntity` | one transaction as request, entity and row, and what each of them accepts |
| `MachineInteger`, `Money`, `Backoff` | integers of `Word` bits; amounts and their text; the three retry delays |
| `ArithmeticCalls`, `MCDomain` | one call of any of these with each of its arguments; the same or one use of `WagerEntity` |
| `WalletCreation` | `POST /wallets` by callers that race, fail and ask again |
| `LedgerReads`, `MCLedgerReads` | reconciliation and pages of the ledger, with concurrent writers |
| `OutboxPublisher` | the outbox table and the publishers |
| `InboxConsumer`, `MCInboxConsumer` | the handling of a message, step by step, and the inbox |
| `FifoDelivery`, `MCFifoDelivery` | the order of the queue, receive counts and the dead-letter queue |
| `SigningKeys` | the key cache of the token verifier |
| `DomainProofs` | theorems about `WagerEntity` and about the amounts of `ArithmeticCalls` |
| `WalletProofs` | theorems about `LedgerReads` and `WalletCreation`, the two models of the wallet service |
| `OutboxProofs`, `InboxProofs`, `FifoProofs`, `SigningKeysProofs` | the theorems of these components |

### Wagering

`wallets`, `wagers` and `outbox` are the committed tables. A transaction writes to copies of its
own (`workWallets`, `workWagers`, `workEvents`), which `Commit` publishes and `Rollback` drops;
`walletLock` and `wagerLock` are the row locks. A process is at the statement its `pc` names:
`findKey`, `findExt` (the lookups of `processTx`), `lockWallet`, `insert`, `refindKey`,
`refindExt`, `resolve` (`FindReferenceForUpdate`), `reversal` (`HasSuccessfulReversal`), `settle`
(everything `applyWithPendingEvent` writes, under the wallet lock and visible to nobody else),
`commit`, `reply`. A worker claims an ordered batch and takes `lockWallet` to `settle` for each
record. `reply` may be lost: the caller then sends anything again (`Submit`).

Decisions a reader should know:

- **Constraints are not guards.** The version predicate of `UpdateWallet`, the unique index on
  successful reversals, the CHECKs and the status trigger do not appear in the actions. That they
  never fire is what `LockedCopiesFresh`, `UndoneOncePerKind`, `LedgerConsistent` and
  `FinalRowsImmutable` say, and `WagerEntity` for the CHECKs of a row. Unique keys appear where the code relies on them: `InsertWager` is
  `ON CONFLICT DO NOTHING` and waits for an uncommitted row of the same key.
- **Visibility.** A statement sees the committed rows and its own (`View`). A row of another
  transaction that is not committed is invisible to `FindReferenceForUpdate`, which is why a
  reference can be missing while it is being written.
- **Identifiers** are unique per provider; `ext`, `key` and `ref` stand for pairs with the
  provider. Amounts are minor units of BRL, the only currency the schema accepts; `MaxMoney`
  is the largest int64. The game id is compared by no rule and left out.
- **Time.** Retry delays are `MakeDue`; the order of a batch by due time is any order; the time to
  live may be found elapsed at any attempt (`GiveUp`), the attempts end at `MaxAttempts`.
  `ReferenceRetry` has the clock.
- **Spelling.** A wallet id is the one the database answers; what a request that spells it otherwise
  meets is in `WagerEntity`.
- **The reference of a refused row.** `ResolveReference` of the entity comes before `Debit` and
  `Credit`, and `Reject` does not clear it: a reversal or a WIN whose reference is good and whose
  movement the wallet refuses is stored REJECTED *with* its reference (`KeptReference`); one that is
  rejected for the reference itself is stored without.
- **One step for what is written.** `settle` is atomic in the model: nobody else sees the statements
  in between, and a failure between two of them is a rollback (`Abort`) like one before or after them.
- **Deadlocks.** `WaitsFor` is read off the guards, and PostgreSQL aborts a process of any cycle
  (`AbortDeadlockVictim`).

### Settlement and its refinement

`Settlement` has no processes, locks or copies. A step settles one new request or a batch of waiting
ones, each on the state the one before it left. The mapping takes the committed tables: `wallets`
with their ledgers, `Committed` (a row without its attempts and due time), and `outbox` as it is. Every step of `Wagering` but a commit of a transaction stutters, and every
commit is one step: a client's request, or all the records of a worker's batch in their order.

One thing is not serial, and the abstract specification says so (`MayBeMissing`). The wallet lock
orders the requests of one wallet. A reference that belongs to *another* wallet may be committed
between the look for it and the commit of the request that missed it, so such a request may wait
or be rejected as if it had come first.

`ChangingSpec` is `Spec` with the stuttering steps told apart first, for speed.

### ReferenceRetry and the delays

One action per step of the worker's loop, over a clock `now`. `Skew` is the difference between a
worker's clock, which times attempts and the TTL, and the database's, which says what is due.
Time may pass while a worker has work (`Busy`), but that counts as a failure: `WaitBounded` is about
runs without failures. What a found reference leads to is left to `Wagering` (`SETTLED`).
`Backoff` holds the delay functions of the worker, the publisher and the consumer.

### WagerEntity, Money and ArithmeticCalls

A transaction goes from its request (`Preparable`) through the entity's constructor (`Buildable`)
and methods to its row (`SchemaAccepts`, `MayBecome`) and back (`Load`), and may be loaded and
settled again by workers. What the reference turns out to be is any member of `References`. Commits
may fail anywhere. `Money` computes with `Word` bits in place of 64 and follows the code's checks;
`ArithmeticCalls` compares each answer with unlimited integers. `MCDomain` puts the two into one
run; they share no state, and its behaviours are behaviours of both (`DomainIsBoth` in
`DomainProofs`).

### WalletCreation

A caller's transaction inserts the wallet, then the four rows of its opening. The insert waits for
an uncommitted wallet of the same player and currency (`InsertConflicts`) and fails if that one is
committed. An answer may be lost (`CommitWallet` answers `ERROR`), and the caller may ask again with a
new id. Wagering and LedgerReads start from the wallets that `WalletsComplete` describes.

### OutboxPublisher

`row` is the table; a publisher is at `poll`, `send`, `mark` or `retry` with the rest of its batch.
Marks find the row only under the publisher's own claim (`HasClaim`). The token of a claim is
represented by its publisher: after a new claim or a restart a publisher never uses an older one.
`recovered` is a history variable. Failures (`ClaimReplyLost`, `SendFails`, `MarkFails`, `Crash`,
`LeaseTooShort`) are bounded by `MaxFaults`.

### InboxConsumer

`queue` and `receives` are SQS (external: `VisibilityEnds`, `Redrive`); messages may be delivered
in any order, which includes every FIFO order (`FifoDelivery` has the order). A consumer takes its batch through `find`,
`insert`, `refind`, `process`, `commit`, `delete`. `body` is what the messages say, one of a set of
scenarios chosen at the start. Of the use case the module keeps whether it
refuses, replays or applies, because `Wagering` has the rest; `ApiProcesses` is the HTTP API storing
a wager of its own. `executed` is a history variable.

### FifoDelivery

The queue is external: a group with a hidden message delivers nothing, a batch holds the messages
of a group in their order, and a message received `MaxReceives` times goes to the dead-letter queue
(`scripts/localstack-init.sh:22-24`). The handling of a message is one step here. `tried` is
history.

### LedgerReads

Writers begin at a time (`stamp`, PostgreSQL's `now()`), take the wallet lock, add entries with
random ids and commit. `LockStoredBalance` and `Compare` are `Reconcile`; `ReadPage` is the listing
endpoint with its cursor. `paging.committed` and `paging.cursors` are history.

### SigningKeys

The verifier's lock covers the reads and the merge, not the two HTTP calls between them, so
`Lookup`, `Refresh`, `Discover`, `Fetch`, `Merge` and `LookupAgain` are steps of their own. The provider is
external; a kid names one key for ever. Signature and claims are one bit each. Withdrawn keys
remain accepted, as in the code, which never removes one; no doc says otherwise.

## 3. The runs

| Run | Instance | Shows |
|---|---|---|
| `wagering_outcomes` | 2 clients, a worker with batches of 2, 2 wallets, 9 requests for 3 external ids, aborts anywhere; 0.94 million states up to symmetry | one effect per wager, ledger, answers, faithful replays, events, what succeeds undoes its reference, no deadlock among clients, every commit is a step of `Settlement` |
| `wagering_progress` | 1 client, 2 workers with batches of 2, 9 requests, fairness, no aborts but of deadlocks; 59 thousand states | pending wagers and requests end; at most one reversal of each kind succeeds |
| `outbox` | 2 events, 2 publishers, batches of 2, 3 faults, fairness; 70 thousand states | PUBLISHED means sent, duplicates have causes, claims hold, everything is published |
| `inbox` | 3 messages that conflict or are refused, 2 consumers, batches of 2, 2 receives, the API; 1 million states | an id is executed once, deleted means handled |
| `fifo` | 4 messages in 2 groups, one poison, 2 consumers, batches of 3, 2 receives, 2 faults, fairness; 139 thousand states | order, dead letters, every message ends |
| `ledger_reads` | 2 writers, 4 entries, pages of 1 | reads are explained |
| `ledger_alarm` | pages of 2 | violation: a reconciliation reports a difference that is none |
| `ledger_pages` | pages of 1 | violation: an entry is on no page |
| `wallet_creation` | 3 callers with 2 tries each, 1 player, 2 currencies, balances 0 and 2 | one whole wallet, true answers |
| `retry` | 2 requests, 2 workers with batches of 1, clocks 2 apart, TTL 2, 4 attempts, 1 failure, time up to 8; 5 million states | nobody is given up early or waits without bound, attempts survive |
| `domain` | every request and reference of one transaction; texts of 5 characters, integers of 10 bits | rows can be worked on, arithmetic is exact |
| `signing_keys` | 2 requests at once, 2 kids, 3 rotations | answers are justified |

**Why the bounds are enough.** The races are between two transactions on the same wallet, id or
reference; a third one meets the same locks (the insert of a wallet is the exception: with three
callers, two wait for one that then fails). Two rows make a batch in which the second depends on
the first. Two attempts have a retry and an end; the retry run has four, so that the delay is
capped before they end and the TTL may end first. Three faults allow a duplicate send, the loss of
its mark and the end of a lease in one behaviour. Two receives of a message are a first and a
repeated delivery, and two failures use them up. Balances up to 3 have room for one overflow
and one lack of funds. An integer of 10 bits has the three digits that a point divides, an odd
greatest amount and delays that overflow after a few doublings; texts of 5 characters reach one digit beyond
the greatest amount. Three rotations publish a key, withdraw one and publish again.

The requests of `wagering_outcomes` are few for each external id and chosen against each other: the
same id with two payloads and two keys, the same key for two ids, a bet that takes all, a win too
large for the wallet, a win whose money may be spent before it is rolled back, a win that names its bet
and may come before it or overflow the wallet, and reversals that may come first, differ in the amount, come from another wallet or refer to themselves. Those of
`wagering_progress` wait for each other (two refunds of a bet in one batch, a refund and a rollback
of it), deadlock (a rollback of a refund that a worker holds), or are answered at once: a wallet of
another player, a wallet that nobody has, a loss, and an invalid request.

Each composed invariant (`DeliverySound`, `WalkExplained`, `WalletsSound`, `RetriesSound`, `RowsSound`,
`AmountsAreExact`, `DelaysAreExact`, `AnswersJustified`) is the conjunction of named parts, which
include the module's type invariant.

Every property of a passing run has a mutant: a definition that models code is changed as a bug
would change it, and the run then fails. The changed definitions stand before the ones they
replace, under a comment that begins with "Fault".

The runs of `Wagering` and `SigningKeys` check for deadlock. The others do not, because these systems
may stop: all events published, all messages handled, no writer left, all tries used, the clock at
its bound, a call answered.

**Fairness.** Weak fairness of the processes' own steps: the loops in `run` always come back.
Strong fairness of the steps that wait for a row lock: PostgreSQL queues the waiters, so a lock
that is released again and again reaches each of them. Weak fairness of the passing of time (due
attempts, leases, visibility, redrive) and of the deadlock detector. No fairness of failures, of
requests arriving, or of a worker giving up early. In `FifoDelivery` some consumer receives, not
each one.

## 4. What is proved

Each theorem holds for every number of clients, workers, callers, events, messages and requests and
every value of the other constants that the `ASSUME`s of the modules allow. Beyond what the code
needs anyway (positive batch sizes, delays that are durations), they say that the sets of external
ids and of publishers are finite, that there is a reference worker, that the configured maximum
delay is a machine integer not below the base, and that `None` (`Absent` in `WalletCreation`) is none of the values.

### Wagering

- `TypeCorrect` (`WageringProofs`). Types alone are not inductive: a step that uses `record[p].req`
  needs that a process at that place has a record. `ControlInv` says what each `pc` implies about
  records, wallet copies, verdicts and replies, that workers stay on their steps, and that batches
  hold rows of the table.
- `LedgerSound`, `CopiesFresh` (`WageringProofs`): `LedgerConsistent` and `LockedCopiesFresh`. The
  inductive invariant `LedgerInv` adds `CopiesExplained`, that the committed ledger followed by the
  entries of a copy explains the copy's balance. A commit keeps `LedgerConsistent` because of it;
  it survives commits of others because the lock is exclusive, and movements by `MoveExplained` (one
  accepted movement extends an explained ledger).
- `FinalRowsStay` (`WageringProofs`): `FinalRowsImmutable`, from `RowInv`. Rows are stored
  under their own id; clients past their insert have different ids and keys, none of which is
  committed (`ClientsApart`); the rows of a worker's batch are waiting ones that it has locked
  (`WorkersHold`); a transaction has written only rows it inserted or locked, with a settled status
  (`WritesOwned`, `CommitsWritten`). So a commit overwrites only what was absent or waiting.
- `OneEffect`, `EventsTell`: `OneEffectPerWager` and `EventsMatchOutcome`, from `EffectInv`. Ledgers and
  rows match each other entry by entry, in the tables (`CommittedMatch`) and in the copies of every
  transaction (`WorkMatches`), and events match rows in both. `SettleEffect` shows it for the one
  write of an outcome, `CommitEffect` for putting two matching pairs together. The number of entries is then
  one or none (`EntriesCounted`).
- `AnswersStayTrue`, `ReplaysFaithful`: `AnswersHold` and `ReplayIsFaithful`. Every way to the
  answer (`AnswerKinds`) gives a committed row of the same payload, and rows stay (`RowsStay`).
- `UndoneOnce`, `ReversalsUndo` (`WageringProofs`): `UndoneOncePerKind` and
  `ReversalUndoesReference`, from `ReversalInv`. A process that has found its reference good, and no
  reversal of its kind, still sees it so when it writes (`ReferencesHold`): a row that would change
  this belongs to the same wallet, and whoever writes it needs the lock the process holds. Then
  `UndoneRight` holds of the rows as each transaction sees them (`WorkReferences`), and a commit makes
  these the rows of the table.
- `NoDeadlock` (`WageringProofs`): `ClientsNeverDeadlock`. A client holds no wallet lock
  before `insert` and no row lock before it has resolved (`LocksHeld`). A client in a circle cannot
  wait for a row lock, because who has one waits for nobody; so none can wait for an insert, because
  who has inserted waits for row locks at most; so none can wait for a wallet.
- `WageringImplementsSettlement` (`WageringProofs`): `ImplementsSettlement`, initial states and
  every step, from `SerialInv` and the invariants above. While a transaction is open, its writes are
  the end of a chain of works (`Chained`) that begins with none (`NoWork`) and has one `Link` for each
  request it has settled. A `Link` says what the request looked at and wrote, without the
  table but for the rows it has locked or that are final; `Ready` says the same of a process that has
  resolved its reference and not written yet. A chain outlives the commits of others because whoever
  changes the wallet, the reference that was found or a reversal of it needs a lock the process holds
  (`ReversalInv`); a reference that was *missing* may appear meanwhile if its wallet is another one, and
  that is `MayBeMissing`. The committed state as it looks after a work (`Seen`) is a state of
  `Settlement`, and a `Link` leads from one to the next by `Settle` (`LinkSettles`). Before the first
  link this is the committed state (`SeenNothing`), after the last what a commit leaves (`SeenAll`).
  So a client's commit, a chain of one link, is `Accept` (`ClientSettles`), and a worker's is `Retry`
  (`WorkerSettles`), where the recursive function in `Retry` is the chain because its equation has one
  solution (`SettledOneWay`). Every other step changes neither tables nor outbox, or only the
  due times that the mapping drops. `OutcomeAssumption` says that `None` is no record.

### The other components

- `PublisherTypes`, `ClaimsKept`, `PublishedSent`, `SendsBounded` (`OutboxProofs`), from
  `PublisherInv`. A batch holds no row twice, and what is about to be marked was sent
  (`BatchesRight`). `SendsClaimed` counts: an event's sends, and the publishers that may still send
  it (`Owing`), are at most its claims. The counting needs a finite set of publishers.
- `InboxTypes`, `Once`, `DeletedAfterCommit`, `InboxTellsWagers` (`InboxProofs`), from `InboxInv`:
  `ConsumersRight` says that until it commits, a consumer alone has inserted the row of its message
  id, which is not committed, and has stored the wager of its external id alone or found it with its
  own payload.
- `DeliveriesSound` (`FifoProofs`): `DeliverySound`, from `FifoInv`. `OvertakenExplained` needs
  `OrderInv`: the earlier messages of a group stand in front in the same batch or have passed, and
  what was handled or deleted was executed. `GoodIsNotDeadLettered` needs `CountInv`: the receives of
  a good message are at most its faults, plus one while it is in flight.
- `AlarmsAlwaysExplained`, `WalksAlwaysExplained` (`WalletProofs`): `AlarmsExplained` and
  `WalkExplained`, from `ReadsInv`. Ids tell the entries apart (`Apart`), so their order is total and
  sorting is possible (`SortedLists`, from a least set that could not be sorted); a page is then what
  `PageRows` says. `AuditRight` needs the lock that the reconciliation keeps between its reads, and
  `BalanceAtEnd`, that balance and ledger are committed together. `WalkRight` follows the cursor:
  older than everything shown, and what is neither shown nor named by a cursor is older still.
- `WalletsAlwaysSound`, `AnswersAlwaysTrue` (`WalletProofs`), from `CreationInv`:
  an uncommitted wallet is what was asked for, complete up to the statement its caller is at
  (`PartsBefore`), and the only one of its player and currency, committed ones included.
- `AnswersAreJustified` (`SigningKeysProofs`), from `KeysInv`, which follows the kid of each request: one
  published all the time is in the key set the request was sent, and after the merge in the cache.
- `NobodyGivenUpEarly`, `NobodyWaitsForEver`, `OnlyMissingRejected`, `AttemptsCounted` and
  `DelaysBounded` (`ReferenceRetryProofs`), from `RetryInv`: the next attempt of a request lies
  between the sums of the delays so far, up to the skew (`Scheduled`, `Earliest`, `Latest`); workers
  hold different requests (`WorkersRight`); and while nothing fails, some worker wakes up for every
  request before it is overdue (`Prompt`).
  The delays are recursive functions. Induction takes an operator as a parameter, which the provers
  cannot instantiate; the proofs use that every set of numbers has a least member
  (`LeastNumber`) and argue about the least number for which a claim fails.
- `DelaysExact` (`ReferenceRetryProofs`): `DelaysAreExact`. The loop with its early stop computes, for
  every word width and number of attempts, the smaller of the limit and the base doubled in
  unlimited integers (`GrownIsDoubled`): either both doubled so far, or the limit is reached and the
  doubled base is past it. The visibility timeout follows from what a quotient is (`QuotientBounds`).
- `RowsAreSound`, `OnlyTheCurrencyIsRefused`, `MismatchIsExplained` (`DomainProofs`), from
  `EntityInv`. `RowsSound` alone is not inductive: that a row can be loaded depends on what the
  entity was when it was saved. `Lasting` is what no method of the entity changes, `Fresh` what a
  request makes, `Complete` what an outcome or a wait leaves; `AtWork` says which of them the process
  has in its hands at each step and how its row goes with it. What is `Complete` can be
  rehydrated (`CompleteBuilds`) and, in BRL, stored (`CompleteIsStored`).
- `AmountsExact` (`DomainProofs`): `AmountsAreExact`, for integers of any width and texts of any
  length. `NumberCounts` gives the value of a text digit by digit, so that appending a digit is
  ten times the number and the digit (`NumberAppend`); `PartsOfText` splits a text at its first
  point. Then all its digits as one number are a hundred times the whole and the hundredths
  (`WellFormedValue`), and the three comparisons with the greatest integer refuse exactly what is
  greater (`TooLargeIsExact`). A text is refused for its form only if it has not the `Pattern` of
  an amount (`PatternIsWellFormed`). What `NumberText` writes is read as its argument
  (`NumberTextExact`), so what `String` writes is read back (`ReadsBack`) or, with a sign, refused
  (`MinusRefused`). Sums are exact because the guards say when they fit (`SumExact`).

Each inductive invariant was checked by TLC on small instances before it was proved, except the chain
in `SerialInv`, whose existential quantifier ranges over too much to enumerate; what it is for,
`ImplementsSettlement`, was.

### Checked by TLC only

What holds under fairness (`PendingIsResolved`, `EveryRequestEnds`, `EventuallyPublished`,
`GoodIsExecuted`, `EveryMessageEnds`), which is out of the prover's reach. Every invariant and every
action property of a passing run is the subject of a theorem.

## 5. Where the code and its documentation differ

- **A reconciliation can report a difference that does not exist** (`ledger_alarm`).
  `LedgerBalance` (`internal/repository/postgres/ledger.go:49-59`) takes the entry that is last by
  `(created_at, id)`. `created_at` is the time its transaction began and `id` is random. If A begins,
  B begins, takes the lock, commits, and A then commits, the ledger ends with A's entry but B's is
  the newest. Two entries of one worker batch even have the same `created_at`. The balance and the
  ledger agree all the while, as `cmd/api/README.md:878` says they must, and `LedgerConsistent`
  states; `AlarmsExplained` shows this order is the only cause.
- **Walking through the ledger skips one entry per page** (`ledger_pages`). The cursor is made from
  the first entry that was not returned (`cmd/api/handlers/wallet.ledger.get.go:27-29`) and the next
  page starts strictly below it (`internal/repository/postgres/wallet.go:98`), while
  `cmd/api/README.md:785` tells clients to use it for the next page. `MissesExplained` shows nothing
  else is missed, `PagesDescend` that nothing is repeated.
- **A WIN does not wait for its reference** (`Waits` and `Reject` of `Wagering`; it has no run of its
  own). `cmd/api/README.md:420` answers a "wager without a resolvable reference" with 202 and
  `PENDING_REFERENCE`, and the diagram at `cmd/api/README.md:125-129` says so for every kind.
  `applyWithPendingEvent` (`internal/application/wagering/service.go:546-549`) waits only with a REFUND
  or a ROLLBACK; a WIN whose reference is not there is REJECTED for good, under the code
  `REFERENCE_PENDING`.

Four things the models show that contradict no document, and that a reader may want to know. A bet
may be both refunded and rolled back, so its stake is returned twice (`UndoneOncePerKind`). A request
in another currency than BRL passes the validation and fails at the insert each time, which callers
take for a transient error (`OnlyCurrencyIsRefused`). A refund that spells its wallet's UUID in
another way is refused when its bet is there and accepted when the bet comes later
(`MismatchExplained`). The TTL of a waiting request is compared only when its reference is still
missing at an attempt.

## 6. The plan

Done: the modules of section 2 and the theorems of section 4. What is left is liveness, which stays
with TLC, and the parts of the next section.

## 7. Not modelled

`PersistPermanentFailure` and its counterpart in the consumer, because nothing raises
`application.PermanentFailure`, and `Fail` of the entity, which only they would call;
`cmd/api/repository`, an older copy of `internal/repository/postgres` that only its own tests use;
configuration, wiring, the HTTP server, logging, health checks, static files and load tests, which
keep none of the state the properties are about; the decoding and the signature of tokens; the
expiry of a token while its keys are fetched; the text of hashes, cursors and events. The JSON of
requests is decoded by a library and left out.

# Global Wallet Microservices: TLA+ models and proofs

This directory models the services of the platform that keep state: they move
and record money, quote rates, cache balances, route requests between two
regions, keep sessions, notify partners and carry audit events. TLC checks the
models on small instances; TLAPS proves the central invariants of the ledger,
its relay, the wallet, FX and auth services, the balance cache, the webhooks and
the gateway for every instance. Paths below are relative to the
repository root. `PROJECT.json` gives, for every definition, the source lines
it translates, and lists runs, mutants, hazards, findings and theorems.

## 1. The system

| Component | State | Operations |
| --- | --- | --- |
| **Ledger service** (`cmd/ledger-service`) | `ledger_entries`, a hash chain of double-entry journal entries with unique indexes on `_id`, `idempotency_key` and `sequence_number`; `ledger_outbox`; one mutex (`seqMu`) per pod | `RecordTransaction`, `VerifyAuditChain`, queries |
| **Merkle checkpoints** (`merkle.go`, `pkg/merkle`) | `ledger_merkle_roots` | generate, verify, prove inclusion |
| **Wallet service** (`cmd/wallet-service/main.go`, `compliance.go`) | `wallets`, `idempotency_records` (30-day TTL), `wallet_velocity_records`, `ledger_tasks` | `TransferFunds`, `ExchangeCurrency`, `DepositFunds`, `WithdrawFunds`, `CreateWallet`, status and KYC changes |
| **Ledger outbox relay** (`ledger_outbox.go`) | `ledger_tasks`, `ledger_relay_lease`; each pod's leader flag and batch | lease, `ProcessBatch`, `DispatchImmediate`, marks |
| **Balance cache** (`cache.go`, `pkg/cache`) | a map in each pod, Redis, a fanout exchange | read-through, invalidate, evict, subscribe |
| **API gateway** (`cmd/api-gateway`) and **failover coordinator** (`pkg/coordinator`) | the active target, cached by each replica; ownership and claims caches; token buckets | routing, failover, authentication, forwarding |
| **FX service** (`cmd/fx-service`) | rate book, quotes and conversions, in each pod and in `fx_db` | rate, quote, convert, refresh rates |
| **Audit pipeline** (`pkg/observability`, `cmd/logging-service`) | channel, spool file, outbox, broker queues, event store | emit, spool, replay, relay, consume, retain |
| **Webhooks** (`pkg/webhook`) | subscriptions, deliveries | dispatch, retry, register, delete |
| **Auth service** (`cmd/auth-service`) | users, refresh tokens, revoked tokens, health of the OIDC provider | login, refresh, validate, revoke |
| **Circuit breaker** (`pkg/resilience`), **fraud detector** (`pkg/ai`) | counters of a library | guard calls; score transfers |

**How they interact.** A request passes the gateway's `AuthMiddleware` (claims
cache, else `ValidateToken` of the auth service) and an ownership check, and is
sent to the wallet service of the region the coordinator names; that service
asks the coordinator again before it writes. A movement is one MongoDB
transaction that writes the wallets, a velocity record, an idempotency record,
a `LedgerTask` and AUDIT events together. After the commit the handler
invalidates cached balances and sends the task to the ledger service itself
(`DispatchImmediate`); whatever that call did not finish is sent by the relay
of the pod that holds the lease. The ledger service answers a repeated key with
the entry it already has. The gateway dispatches webhooks for completed
movements in the background. Events go to RabbitMQ through the logger or an
outbox relay, and the logging service stores them.

**What is hard.** Several pods of each service share one database and nothing
else; handlers read before their transaction and act on it inside; every
database or RPC call may fail after it took effect; pods crash between two
writes; leases and expiry are judged by local clocks; workers take the same
records without claiming them and write back counts they read earlier; caches
are filled by readers that were overtaken. `PROJECT.json` lists these hazards
by line.

**What makes each part correct.**

- Ledger: one gapless chain however pods collide; what was acknowledged is
  stored; the verifier neither raises false alarms nor vouches for what it did
  not read.
- Wallet: no pot is overdrawn; every balance is explained by the committed
  tasks; replays are answered with the one committed movement; frozen wallets
  and velocity limits are respected at the commit.
- Relay: a completed task is in the ledger; no task is given up early, none
  stays pending for ever once the lease document exists; a lease is lost only by
  expiry or by its holder.
- Balance cache: a served balance is not older than a known bound, and exact
  where nothing failed or raced.
- Gateway and coordinator: the handlers that ask `isWritable` stop writing in
  the old region within a known time after a failover; the ownership cache lets
  nobody through whom the wallet service would not, and shuts nobody out.
- FX: a quote is converted at most once, at its terms, and not used up for
  nothing; whoever was told its id may name it, also that of a spot conversion.
- Audit pipeline: no event disappears without one of the causes the code names.
- Webhooks: where there is a database no notification is lost silently,
  attempts are limited, every delivery comes to rest.
- Auth: a revoked token is refused after a known time, a rotated refresh token
  is dead, the lockout limit holds.

## 2. Modules

| Module | Models | Notes |
| --- | --- | --- |
| `DoubleEntry` | `double_entry.go`: postings and their validation | pure operators |
| `LedgerChain` | `RecordTransaction`, `VerifyAuditChain` | extends `DoubleEntry` |
| `Journal` | the ledger's promise to its callers | `LedgerChain` implements it |
| `Money` | `pkg/db/currency.go`: scaled conversion, banker's rounding, at least one unit | pure operators |
| `WalletService` | the four movements, creation, status, KYC, velocity | extends `Money`; sees the ledger as `Journal` promises it and the relay as one action |
| `LedgerRelay` | lease, relay loop, marks, immediate dispatch | |
| `BalanceCache` | `cache.go`, `redis.go`, `invalidation_bus.go`, `GetBalance` | |
| `Gateway` | routing and access checks of the gateway, `coordinator.go`, `isWritable` | |
| `FXEngine` | `engine.go`, `provider.go`, the FX handlers of the gateway | extends `Money` |
| `AuditPipeline` | `publisher.go`, `spool.go`, `outbox.go`, the logging service | |
| `WebhookDispatcher` | `dispatcher.go`, the webhook handlers of the gateway | |
| `AuthService` | `cmd/auth-service`, session handlers and `AuthMiddleware` of the gateway | |
| `LedgerChain_proofs`, `LedgerRelay_proofs`, `WalletService_proofs`, `FXEngine_proofs`, `WebhookDispatcher_proofs`, `Gateway_proofs`, `AuthService_proofs`, `BalanceCache_proofs` | theorems | checked by TLAPS |
| `MC_*` and `*.cfg` | instances for TLC | |

Operators whose comment says "Mutant" or "Plausible error" are deliberate bugs:
each replaces one definition and must make the property it is paired with fail.
No specification uses them.

A convention of all modules: a step of the code that can fail is a disjunct
guarded by `Fail`, which spends one of `MaxFaults` faults (or by `Faults`, a
switch). Where the code ignores an error the disjunct goes on like the code.

### LedgerChain

A *call* is one RPC in one goroutine of the pod `PodOf[c]`; `pc[c]` follows
`RecordTransaction`: `check` (duplicate lookup and posting validation), `lock`
(take `seqMu`, read the head), `insert`, `dup` (the lookup after a duplicate
key error), `exhausted` (`handleInsertError`), `audit` (append the AUDIT
event), `done`. `seqNumber` and `prevHash` are the locals the head was read
into; between that read and the insert other pods may move the head. The
indexes of `pkg/db/indexes.go` are `Conflicts`.

`Faults` makes every database operation fallible, including the two places
where the code takes an error for "no document" (`NoDuplicateSeen`,
`ReadHeadMiss`), inserts that take effect unseen, and crashes. `VerifyStart`,
`VerifyNext` and `VerifyEnd` are one scan of `VerifyAuditChain`; its cursor is
not a snapshot, so inserts may fall between two reads.

SHA-256 is taken to be injective: the hash of an entry is the sequence of
everything sealed up to it. Timestamps, account types and encodings are left
out.

### WalletService

A *handler* is one request goroutine in any pod: `precheck` (what happens
before the transaction), `tx` (run the callback on a snapshot), `commit`,
`dispatch`, `idle`. `TxBegin` decides on the snapshot; `dirty[h]` collects the
documents written since, and the commit succeeds only if none is in the
handler's write set, which is MongoDB's first-committer-wins rule. A conflict
runs the callback again, as `WithTransaction` does. A *read* that changes
afterwards causes no conflict, which is why checks that only read are hazards.

Where the operations differ the model differs: a transfer checks status and
limits inside its transaction, the others before it; a replayed transfer
answers at once, the others go on to dispatch the task they built.

Abstractions: `Refuse` stands for every answer that writes nothing before the
transaction (ownership, fraud, standby fence, failed precheck, failed lookup)
and may happen to any request. Amounts are unbounded integers. Velocity records
move from the last hour to the last day to gone by `AgeVelocity`. An FX rate is
any of `Rates`; a transfer whose destination cannot be read goes on in the
currency of its source. A velocity query that fails outside a transaction lets the
request pass, as in the code; one that fails inside a transaction aborts it,
since MongoDB aborts the transaction with the failed operation. Idempotency
records expire only while no request is under way (30 days against seconds).

### LedgerRelay

A process starts with `EnsureDocExists`, the upsert of the lease document, which
`initOnce` makes once and whose error is dropped: without the document
(`created`) the filter of `TryAcquireOrRenew` matches nothing, and every pod
takes the lease for held by another. After that each pod's loop is
`TryAcquireOrRenew`, `Fetch`, then `Send` and `Mark` for each task of the batch. `seen` is the retry count read with the batch, by which
the code decides to give up. The marks do not look at the status they
overwrite. `lease.left` counts ticks to expiry; pod `p` takes the lease for
expired when `left < Skew[p]`. Ticks may fall between any two steps, so a batch
can outlive its lease. `late` holds calls that timed out at the relay and may
still reach the ledger. `Stop` cancels the context: later calls fail, and the
loop releases the lease if it believes it is leader. Back-off only delays a
step and is not modelled.

### BalanceCache

A balance is the number of movements the wallet has seen, so "old" is "less
than `version`". A read goes `l1`, `l2`, `db`, and back through `set1`, `set2`, or ends with an
error of the database and caches nothing;
a hit in Redis is copied into the pod (`backfill`) with a full TTL of its own.
A movement commits, then invalidates its pod, Redis and the bus in that order.
Messages are queued per pod; a pod drops its own. `LoseSubscription` is the
consumer that returns when its channel closes and is not started again. Times
are relative: `left` of an entry, `held` of a balance a call carries, and
`replaced`, how long ago a version stopped being current. `raced` is a history
variable: wallets that were read while they were committed or invalidated.
`Pause` bounds how long a call holds a balance before it stores it; the code
has no such bound of its own, so `StalenessBounded` is relative to it. A pod
starts with its subscription made.

### Gateway

A *request* has a handler, the caller's token and, for a new wallet, the
`owner_id` of its body. A handler is a record of what distinguishes it: whether
it writes, whether the wallet service fences it, whose token the gateway
accepts, whether and when the service checks the caller again, whether the
gateway remembers an owner, and whether it is routed at all. Its steps:
`access`, `probe` and `ask` (the `GetBalance` that `verifyWalletAccess` makes
for an opaque wallet id), `route`, `send`, `fence` (`isWritable`), `apply`.

The wallet's id is abstracted to what the access checks see of it
(`walletID`): whether it is in a namespace, opaque (`wal_`, `acc_`, a UUID) or of
the system (`wal-`, `acc-`), and which subjects it begins with, on which both
the gateway and the wallet service admit a caller (`Matches`). Ids of every kind
can begin with a subject: one called `wal` matches every `wal_` wallet. A caller
whom neither the token nor the id nor the cached owner admits is looked up with
the wallet service, unless the id is in a namespace, which refuses at once.

The three lookups of the active target share `FromCache`, `Find` and `Store`,
the two halves of `GetActiveTarget`: `found` is the target that was read and is
not yet in the cache, and it may be overtaken. A gateway in `Detached` could not
reach the database when it started and uses the in-memory coordinator.
`since[o]` says how long ago region `o` was the active one. `handleFailover`
names the new target or takes the other one than the gateway believes active;
both are `Failover(g, t)` for some `t`, and several may be under way at once, in
one gateway too.

Abstractions: one wallet; bodies that passed validation. `Apply` keeps of the
wallet service what access depends on, the wallet and its owner; that repeated
requests take effect once is the subject of `WalletService` (`AnswersAgree`).
`HandleAdminWalletStatus`, an HTTP handler of the wallet service itself, does not
pass the gateway. An open circuit breaker is one way for `Send` to fail.

### FXEngine

One currency pair. Every pod has a rate book, overrides and the provider's last
good snapshot; quotes and conversions exist in the pod's maps (`quotesMem`,
`conversionsMem`) and in `fx_db`. A call follows `CreateQuote`, `GetQuote` or
`ConvertCurrency` one map or database operation at a time; rates, fees and
spreads are computed with `Money` as the code does it. The live rate is any of
`LiveRates`. `Known` are the quote ids that clients have been told: by
`CreateQuote`, and by the answer of any conversion, which for a spot conversion
names the quote made for it. A conversion that asks for something other than its
quote is refused (`Mismatch`); the amount stands for the two currencies too. An
override by an administrator changes the pod's rate book as well when the pair
is one with USD.

### AuditPipeline

`AsyncLogger.run` is `Take`, `PublishEvent`, `SpoolEvent`, `StartReplay`,
`ReplayLine`, `ReplayEnd`; the spool file is a sequence of lines, where `Torn`
is a line a failed write left. A publication puts the event on the `wire`:
publisher confirms are enabled but never awaited, so a connection that breaks
takes unread events with it. `signal` is the token in `reconnectSig`. The
outbox relays fetch, publish and mark like the code, without a lease. The
broker routes to the ingest queue once the logging service has declared it; the
consumer saves, acknowledges or rejects, and a rejected event goes where the
dead-letter exchange routes it. `lost` is a history variable of copies that are
gone and why.

`Size` is what a line takes in the spool file and `Estimate` what pruning takes
it for (`len(type) + len(message) + 200`); the two need not agree. `Prune` has
the outcomes the code permits: the filtered file; the file as it was, when it
cannot be opened or renamed; the filter of a part of it, because the scanner's
error is not read; and a part of the filtered file, with a torn line or without,
because the encoder's errors are ignored before the rename. What these lose is
`unwritten` in `lost`, what the filter drops is `pruned` or `expired`.

### WebhookDispatcher

Each event is dispatched by a goroutine of its home pod, a gateway or, for
`fraud.flagged`, a wallet service: list the active subscriptions, then for each
one `DispatchSingle` (the HTTP request) and `InsertDelivery` (the record).
`worker[p]` is the retry loop of a gateway with the batch it fetched and the
attempt counts in it; wallet services run none, so gateways retry what they
recorded. An endpoint may process a request although the sender sees an error.
The backoff is the flag `due`. `spoiled` is a history variable: deliveries that a
fault or a second worker has interfered with.

A gateway that cannot reach MongoDB within its three attempts at the start, or
has no `MONGO_URI`, is `detached` until it is restarted: subscriptions made with
it are kept in its own `memSubs` and known to nobody else, it stores no delivery
records and starts no retry worker.

### AuthService

One user, and the sessions that logins create. A token pair is named after the
call that issued it. The user document, refresh tokens and blocklist are
changed one database operation at a time, as the code does. `TokenID` is the
`jti` of a token that has one, else `deriveTokenID`: local tokens, and those of
an OIDC provider that leaves the claim out (`bare`), are known by subject and
second. The account may be suspended. One tick is one second. `RevokeToken`
tries a string that does not validate as a refresh token; the gateway only sends
it access tokens, on which that has no effect. The gateway's claims cache is filled
by a validation that may be under way while the token is revoked.

## 3. Runs

| Run | Expect | What it shows |
| --- | --- | --- |
| `ledger_faults` | pass | 3 calls on 2 pods with all faults: `ChainIntact`, `AcknowledgedIsRecorded`, `VerifierRaisesNoAlarm`, and the refinement `ImplementsJournal` |
| `ledger_contention` | pass | no faults: every call returns (`CallsReturn`), a collision is always due to another pod's entry, never to a call behind the same `seqMu` (`CollisionsComeFromOtherPods`), and `VERIFIED` covers the ledger |
| `wallet_movements` | pass | all operations compete for funds and keys with faults: `NoOverdraft`, `OutboxExplainsBalances`, `AnswersAgree` |
| `wallet_fence` | pass | status and tier changes interleave with debits: transfers are fenced and keep their limits |
| `wallet_ledgermismatch` | violation | `LedgerMatchesOutbox` (section 4) |
| `relay_delivery` | pass | two relays, skewed clocks, expiring leases, crashes, a lease document that may not be created, a task the ledger always refuses: `CompletedIsRecorded`, `GivenUpAfterMaxRetries`, `RetriesBounded`, `LeaseLostFairly`, and `EveryTaskSettles` |
| `cache_coherence` | pass | two pods, two wallets, a movement and the reads around it: `StalenessBounded`, two TTLs and two pauses whatever fails or races; `CoherentWithoutRaces` |
| `gateway_failover` | pass | two gateways, one detached, two failovers, ids in and out of namespaces: `FencedWritesFollowTarget`, `RefusalsExplained`, `AccessMatchesOwnership` |
| `fx_quotes` | pass | four calls on two pods, a quote asked for or left by a spot conversion, rate changes, restarts: `OneConversionPerQuote`, `LockedAnswersAgree`, `ConsumedIsConverted` |
| `audit_events` | pass | a logger with a channel and a spool of one event, pruning and writes that fail part-way, two outbox relays, one fault: `AccountedFor`, `OutboxHonest`, `EventsSettle` |
| `webhook_deliveries` | pass | two gateways, each with a database or without, and a wallet service, one fault: `NoSilentLoss`, `LimitKeptAlone`, `DeliveriesSettle` |
| `auth_sessions` | pass | calls of one user, in sequence or at once, one fault: `RevocationTakesHold`, `RotatedIsDead`, `LockoutAlone` |

### Bounds

- `MaxInsertRetries = 2` (5 in the code). With three calls two collisions can
  happen to one call, so the limit is reached; the properties other than
  `CollisionsComeFromOtherPods` do not depend on the number, and the proofs are
  for any.
- Requests of the ledger: the same key under two transaction ids, a
  cross-currency request and an invalid one. Two calls share a pod, one has its
  own, so both the mutex and the indexes are exercised.
- `MaxCalls = 3` requests in `WalletService`, two at a time: enough for a
  movement, its replay and a competitor. Limits and opening balances make the
  third debit fail by balance in `wallet_movements` (`MCOpening`) and by limit
  in `wallet_fence` (`MCAmpleOpening`).
- Relay: `MaxRetries = 2` (5), `BatchSize = 1` (50), two tasks, the older one
  always refused: the head of the queue can starve the other and reaches its
  limit. The two commit in the order of their `created_at` (`MCSpec`).
  `TTL = 1` with a skew of one tick. `MaxFaults` bounds database errors,
  crashes and shutdowns; failed and timed-out ledger calls are not bounded.
  Both upserts of the lease document must fail for nobody ever to lead, so there
  are two faults, and `MCSpec` keeps the second for that (`SecondFault`).
- Cache: `TTL = Pause = 1`, an L1 of one entry, so that eviction, expiry in
  either tier and a balance copied from Redis in its last tick all happen. The
  bound of `StalenessBounded` is tight: with one tick less it is violated.
- Gateway: `TTL = ReadTime = CallTime = 1`; a transfer of the owner, and a
  request of another kind and caller (`MCOffered`): a creation by the owner or an
  administrator, a balance read by an administrator, a KYC change, reads by a
  stranger. The wallet (`MCWallets`) does not exist yet and is opaque with a
  subject that matches it, or is opaque and exists, or is in the namespace of
  somebody other than its owner. Two failovers, so the target can come back while an old lookup is under
  way; one fault. The bound `Stale` of `FencedWritesFollowTarget` is tight as
  well.
- FX: quote `q1`, asked for or made by a spot conversion, and the quote of
  another spot conversion; one key used by up to three calls, an amount left out
  or not the quote's, `QuoteTTL = 1` of two ticks, fee and spread large enough
  that rounding of a small amount shows. One rate change and one fault or restart.
- Audit: `BufferSize = 1`, and a spool of three units where a line takes two and
  a torn one takes one: the second event to be spooled meets a file that must
  prune, an AUDIT event may be in it, and a torn line may be joined to the next.
  The estimate is the size in the run; `SpoolWithinLimit` is refuted with
  `MCEstimate` at one. `MCSpec` lets a behaviour use
  either the logger or the outbox (`OnePath`); the two meet only in the ingest
  queue, which is a set.
- Webhooks: `MaxAttempts = 3` (the first request and two retries, which two
  workers can interleave), `BatchLimit = 1` of two deliveries, one dispatched by a
  gateway and one by a wallet service, to one subscriber.
- Auth: `MaxFailed = 2` (5 in the code), `LockTicks = 1`, tokens of four ticks,
  a cache of one tick; three calls reach a login, a logout and a use, or two
  wrong passwords and the right one. A fourth, the use of a token after its
  logout and after another use (`AfterLogout`), and four ticks reach the last
  moment at which `RevocationTakesHold` lets a revoked token pass: a validation
  begun before the logout that is answered a deadline later and cached for the
  whole of `CacheTTL`.
- Models in which each call or event happens once may stop when all are done,
  hence `CHECK_DEADLOCK FALSE` there; the ledger and relay runs check deadlock.
- `SYMMETRY` is used in safety runs only, over calls of one pod and over
  handlers, which are interchangeable.

### Fairness

- `CallsReturn`: weak fairness of each call's steps; a goroutine that can run
  does run, and the run has no faults.
- `EveryTaskSettles`: weak fairness of each relay loop (a restart of a stopped
  pod included, which the orchestrator does) and of the clock. Nothing is
  assumed of the ledger: it may refuse for ever, and the task is then given up.
  The property starts from a lease document that was created at some time.
- `DeliveriesSettle`: weak fairness of the dispatching goroutines, of each
  retry worker (its ticker fires) and of the backoff timer. Endpoints may
  refuse for ever; subscriptions come and go freely. The property assumes that
  from some time on some gateway has a database.
- `EventsSettle`: weak fairness of the logger goroutine, the relays, the
  consumer (its reconnect loop included) and of the broker taking what is on a
  wire. Strong fairness of `Take`: the `select` of `run` chooses at random
  between the channel and the replay ticker, so an event in the channel is
  taken although replays keep coming. Strong fairness of `Deliver` to the
  consumer: the broker serves its queue in order, so no event waits for ever
  while others are delivered. For events of the logger the property
  assumes that its connection is up for good from some time on; outboxed events
  need no such assumption, since their attempts are counted.

## 4. Findings

**Checked by a run.** `wallet_ledgermismatch`: a replayed deposit dispatches
the task it built itself; if that arrives first, the ledger keeps an id and
amount the wallets never committed. `ledger_outbox.go:28` calls the task
immutable and stored atomically with the movement.

**Claims that the models refute.** They stand at the end of their modules;
adding one to the configuration named makes TLC produce the counterexample.

| Claim | Configuration | What happens |
| --- | --- | --- |
| `NoAuditEventLost` (`docs/LOGGING_IMPLEMENTATION.md:192`: AUDIT events "must never be dropped") | `LedgerChain_faults` | the append follows the insert and is in no transaction with it; if it fails, the retry is answered as a duplicate and the event is never written |
| `VerifiedCoversLedger` with `Faults = TRUE` | `LedgerChain_faults` | `cursor.Err()` is not read: a cursor that breaks off ends in `VERIFIED` for a prefix |
| `AllMovementsFenced` (`docs/BEGINNER_GUIDE.md:350`: "atomic transaction fencing") | `WalletService_fence` | withdrawals, exchanges and deposits check the status before their transaction only |
| `SingleActiveWorker` (`README.md:60`: "single-worker active outbox processing") | `LedgerRelay_delivery` | a batch outlives its lease; `CompletedIsRecorded` and `GivenUpAfterMaxRetries` hold all the same |
| `AtLeastOnce` (`README.md:54`: "guaranteed at-least-once outbox relay") | `LedgerRelay_delivery` | failures of any kind, `MaxRetries` in number, end delivery |
| `LeaseDocExists` (`cmd/wallet-service/ledger_outbox.go:193`: "guarantees that the singleton lease document exists") | `LedgerRelay_delivery` | the upsert is tried once per process and its error dropped |
| `SettledAnyway` (`cmd/wallet-service/ledger_outbox.go:295`: the relay "guarantees reliable asynchronous delivery") | `LedgerRelay_delivery` | with no lease document `FindOneAndUpdate` finds none, which reads as a lease held by another pod: nobody leads until some pod is restarted |
| `EveryWriteIsFenced` (`docs/PENDING_REQUIREMENTS_AND_ARCHITECTURE_SPEC.md:255`: `UpdateWalletKYC` too "must also strictly verify writability"; `:258`: "Every non-idempotent mutation RPC" is refused on a standby) | `Gateway_failover` | `UpdateWalletKYC` does not ask `isWritable`; a gateway that fell back to its own coordinator keeps sending it to the old region |
| `OnlyActiveWrites` (`docs/BEGINNER_GUIDE.md:321`: "all gateway replicas immediately synchronize"; `:323`: "only the promoted active node can execute balance modifications") | `Gateway_failover` | for `Stale` ticks after a failover the old region still writes; `FencedWritesFollowTarget` is what is left |
| `OwnersAreAdmitted` (`cmd/api-gateway/middleware.go:499`: "A subject owns a wallet if", among others, it is the cached owner) | `Gateway_failover` | the owner of a wallet whose id is in another namespace is let in only as long as the creation is cached; once it expired, or an administrator read the balance, the owner is refused without a lookup |
| `QuoteExecutedOnce` (`SECURITY.md:33`: conversions under CAS, "preventing double-execution") | `FXEngine_quotes` | a spot conversion tells its client the id of its quote and drops the error of marking it `EXECUTED` in `fx_db`; if that failed, a conversion at another pod that names the quote under another key passes the compare-and-set |
| `AnswersAgreePerKey` (`cmd/fx-service/engine.go:543`: "an idempotent FX conversion") | `FXEngine_quotes` | two spot conversions, or a spot and a quoted one, with one key: the loser looks for the existing conversion in the memory it has just overwritten |
| `InvalidObservable` (`docs/LOGGING_ARCHITECTURE.md:199`, `:385`: invalid events reach the dead-letter queue) | `AuditPipeline_events` | the dead-letter exchange is declared `direct` and its queue bound with `#`, which a direct exchange compares literally |
| `AuditNeverDropped` (`docs/LOGGING_ARCHITECTURE.md:191`: "Durable spool; never drop"; `:570`: "AUDIT events are never dropped") | `AuditPipeline_events` | pruning drops expired events of every level |
| `SpoolWithinLimit` (`docs/LOGGING_ARCHITECTURE.md:291`: "Maximum spool file size; oldest events are dropped when exceeded") | `AuditPipeline_events`, with `MCEstimate` at 1 | pruning adds up estimates that are below the real size, drops nothing, and the file grows past its limit |
| `ConfirmedWhenSent` (`docs/LOGGING_ARCHITECTURE.md:260`: "The publisher waits for a publisher confirmation") | `AuditPipeline_events` | confirms are enabled and never awaited: an event on the wire of a connection that breaks was reported as sent |
| `RecordedOrRetried` (`pkg/webhook/dispatcher.go:295`: "records status or schedules retry") | `WebhookDispatcher_deliveries` | a gateway without a database sends once and does neither |
| `LogoutEndsSession` (`cmd/auth-service/server.go:111`: `RevokeToken` "invalidates refresh sessions") | `AuthService_sessions` | only the access token goes to the blocklist |
| `RevokedAtOnce` (`cmd/auth-service/revocation.go:30`: "The local claim cache in the API Gateway is also invalidated when a token is revoked") | `AuthService_sessions` | nothing calls `claimsCache.invalidate`; a gateway admits the token for what is left of its entry, and a validation under way may add another |
| `LocksEnd` (`SECURITY.md:37`: "automatic 15-minute temporary lockout auto-expiration"; `docs/RELEASE_NOTES_v1.7.0.md:79`) | `AuthService_sessions` | a right password between the read and the write of a wrong one clears `locked_until` of an account that is then `LOCKED` |

**Observed while modelling**, beside these claims; the properties are stated
around these behaviours, as their comments say.

- Withdrawals and exchanges read their velocity usage before their transaction,
  so two checked at the same time may exceed the limit. `TransfersKeepLimits`
  is stated of transfers only.
- Cache: the subscription to the invalidation bus is not renewed after its
  connection ends (`REQ-DIST-02` of
  `docs/PENDING_REQUIREMENTS_AND_ARCHITECTURE_SPEC.md` asks for it).
- FX: an override of a pair changes only the pod that the request reaches; a
  quote is used up although a fault, or expiry between the two
  compare-and-sets, then prevents the conversion.
- Webhooks: subscriptions accepted by a gateway without a database are gone with
  its restart; retries still go to deactivated subscriptions; a failed read of
  the subscription marks the delivery failed; a second worker can set a settled
  record back to `retry_pending` and send again. `LimitKeptAlone` says when the
  limit is exact.
- Auth: two refreshes of one token at a time both succeed; a blocklist that
  cannot be read admits revoked tokens; tokens without a `jti` that a user was
  given in one second share an id and are revoked together.
- Audit: a leftover reconnect signal closes a new connection; events published
  before the queue is declared are gone without notice; a torn line keeps the
  spool from being replayed; pruning that fails part-way replaces the spool by a
  part of it, AUDIT events or not.
- Gateway: an id that begins with a subject admits that subject, so the subjects
  `wal` and `acc` are let through to every `wal_` and `acc_` wallet, here and in
  the wallet service; a gateway that fell back to the in-memory coordinator never
  sees a failover elsewhere.

## 5. Proofs

The theorems hold for all values of the constants that satisfy the named
assumption of each module (`LedgerAssumption`, `WalletAssumption` and so on:
functions have the right domains, limits are natural numbers, divisors are not
zero) and `NoneAssumption` (`None` is not a document): any number of pods,
calls, wallets, quotes, gateways and retries, with and without faults. The
assumptions are operators (`WalletConstants`, ...) so that a lemma can name
them without unfolding them; TLC evaluates them in every run.

**LedgerChain.** `ChainIntact` is not inductive: an insert extends the chain
only because its number and previous hash come from one document. `ChainInv`
adds `HeadWasRead` (a call about to insert holds the genesis or the successor
of a stored entry; entries are never removed, so this stays true when others
insert), `StoredBeforeAudit` and `AnsweredWhenDone`. The step that matters is
an insert: its number is at most one above a stored one, the unique index says
it is not taken, so by gaplessness it is the next. `ChainIsIntact` and
`AcknowledgementsAreDurable` follow. `VerifyInv` adds that the verifier has
read exactly the entries below `expectedSeq` and that all postings validate,
which yields `VerifierIsTrustworthy`: a chain the service wrote is never
reported corrupted, and without read errors `VERIFIED` covers the ledger.
`VerifierNeverAlarms` adds the trial balance: every stored entry balances in
every currency, so debits and credits are the sum of one and the same function.
For `LedgerImplementsJournal`, `LogInv` says that the entries are finitely many,
numbered 1 to their count, one per key; the log of `Journal` lists them by
number. An insert is then `Record`, a successful answer `Acknowledge`, and every
other step leaves log and answers as they are. `CollisionsExplained` has two
hypotheses of its own: finitely many calls, and `OneKeyPerTxn`, a transaction id
comes with one idempotency key. The callers in this repository keep the second;
`Requests` in general need not, and a call whose transaction id is stored under
another key is refused over and over with nobody else there. `CollisionInv` says
that the attempts a call about to insert has lost are at most as many as the
calls of other pods that hold a number below the one it read, and that if that
number is taken by now another pod took it, because the call holds the mutex of
its own pod. A refused insert thus adds one lost attempt and one holder that was
not counted before.

**LedgerRelay.** `RelayInv` adds to the two invariants that a mark follows an
answer (`AnsweredIsRecorded`), that the loop is at a task of its batch
(`BatchInHand`) and that a count read with a batch is never ahead of the stored
one (`CountsAreStale`); counts only grow, so giving up by a stale count is
never early. `LeaseIsLostFairly` is an action property and needs the type
invariant only. `RetriesStayBounded` counts relays (`PodsAssumption`: finitely
many, at least one). The bound alone says nothing about increments still to
come, so `FailuresSpokenFor` adds them: while a task near the limit is
undecided, its count plus the relays that read it early enough not to give up
stays within `MaxRetries - 2 + |Pods|`; once it is decided nobody fetches it
again, and its count plus the relays that still hold it stays within
`MaxRetries - 2 + 2 * |Pods|`.

**WalletService.** `NoOverdraft` is not inductive because a handler decides in
one step and writes in another. `WalletInv` adds `Shape` (what a handler holds
at each step), `IdemNamesTask` (an idempotency record names the committed task)
and `Fresh`: as long as nobody wrote a document of its write set, what a
handler judged at its snapshot is still so (the debit is covered, the wallets
exist, a transfer's wallets are operational, the key is unused). A commit
requires exactly that, so it cannot overdraw (`NeverOverdrawn`), stores one
task per key (`AnswersAlwaysAgree`), and fences transfers
(`TransfersAlwaysFenced`). The status check of the other movements is not part
of `Fresh`: they make it before their transaction, and the invariant with it
would be false (`AllMovementsFenced`, section 4). `BalancesFollowOutbox` proves that every step moves every pot
by exactly what the task stored in that step says, and no pot moves otherwise;
with `OutboxNamesExisting` it is the induction step of `OutboxExplainsBalances`.

**FXEngine.** `QuoteInv`: an id of a quote is drawn by one call, stored once,
and named by others only after the call that drew it has answered, `CreateQuote`
or a spot conversion; a call that names a quote and has passed the
compare-and-set in `fx_db` is alone with it, and the quote is never `ACTIVE`
again, also when a pod that restarts loads old copies. `SpotInvariant` adds, as
long as nothing failed, that the quote of a spot conversion past its two marks is
not `ACTIVE` in `fx_db`, so no conversion that names it passes the
compare-and-set. Together they are
`QuoteConvertedOnce`: the first part holds through faults, the second cannot
(`QuoteExecutedOnce`, section 4). `FXInv` adds that all documents about a quote,
in the database, in the maps of the pods and in the hands of calls, carry the
terms it was issued with, from which `LockedConversionsAgree` follows. For
`ExecutedQuotesAreConverted`, `ConsumeInv` says, as long as nothing failed, that
a document called `EXPIRED` has lapsed and one called `EXECUTED` was consumed,
wherever it is kept (`DocsSound`); that the pod of a call between the two
compare-and-sets has a copy of the quote (`CopyThere`), which nobody else makes
`EXECUTED` (`Clear`), so the second one is lost to expiry only; and that an
executed quote has a call that converts it or has lapsed (`Owned`).

**WebhookDispatcher.** `NeverSilentlyLost` is about pods with a database; that a
gateway without one loses what its first request does not deliver is part of the
model and of the statement. It needs that an attempt count is never
ahead of the requests sent, and that a worker's outcome is true of the endpoint.
`LimitAlwaysKeptAlone` needs in addition, for records nobody spoiled, that the
stored count equals the requests sent, that at most one worker holds the record
and that the count in its hands is the stored one.

**Gateway.** `GatewayInv` bounds the age of every belief about the active
target: a value just read is as old as the read (at most `ReadTime`), a cached
one at most `ReadTime` plus the part of its TTL that has passed, and what a
request acts on at most that plus the time of its call. Time passing adds one
to both sides. `WritesAlwaysFollowTarget` reads off the bound `Stale` for any
TTL and deadlines. `RefusalsAlwaysExplained`: the region a gateway chose and
the one the fence found were both active within `Stale` and differ, so one of
them is not active now. `AccessAlwaysMatches`: a cached owner is the owner, an
administrator or a subject the id begins with, and stays one, because a wallet
keeps its owner; so whoever is let through is one of these. A mismatch leads to a probe unless the id is in a namespace, and a
probe in the name of the owner is refused only by a fault or its deadline.

**AuthService.** `AuthInv` says at which step a call can be and what it holds
there, and that a token that is presented was given out and never changes.
`LockoutExactAlone` needs that, with one login at a time, the stored count is
the number of wrong passwords and the count in hand is the stored one.
`RotatedStaysDead`: without faults a refresh that was answered has put its token
on the blocklist or spent it, so one that is made later finds it dead.
`RevocationAlwaysTakesHold` is an age again: a token whose logout took effect is
on the blocklist or has ended (a record of the blocklist ends with its token,
because tokens with one id have one expiry), so a validation with a positive
verdict began before the logout, and the cache entry it leaves ends at most
`CacheTTL` plus one `RPCTimeout` after it.

**BalanceCache.** `CacheInv` is the shape of calls, with `CommitsCounted`: a
version is at most the number of calls that are past their commit, which keeps
versions among finitely many. The capacity of an L1 is a statement about
cardinalities: an entry is added either where there was one, or below the
limit, or after another was evicted. `AgeInv` bounds how long ago a balance can
have been replaced, wherever it is kept: what a call read from the database by
the time it is held, an entry of Redis by `Pause` plus the part of its TTL that
has passed, what is copied from Redis by that plus the time it is held, and an
entry of a pod by `2 * Pause + TTL` plus the part of its own TTL that has
passed. A tick adds one to both sides; a commit starts the age of the version it
replaces at zero. `CoherenceInv` names, for every stale copy, the one who will
remove it: a stale entry of a pod has a writer of the wallet that has yet to
invalidate locally, or one of another pod that has yet to publish, or a message
from another pod in its queue; a stale entry of Redis has a writer that has yet
to reach it; and reads and invalidations of the wallet exclude each other. Each
step of `Invalidate` hands the duty on, the last one to the bus, and a delivered
message leaves with the copy it was about.

**Only model-checked.**

- Liveness under fairness (`CallsReturn`, `EveryTaskSettles`,
  `DeliveriesSettle`, `EventsSettle`): beyond the prover.
- `OutboxExplainsBalances` and `TransfersKeepLimits`: sums over sets, defined
  by a recursive fold, about which nothing can be proved without induction over
  data. The step that changes the sum is proved (`BalancesFollowOutbox`).
- The properties of `AuditPipeline`. `TypeOK` and `AccountedFor` rest on what
  pruning the spool keeps, a fold over a sequence and so induction over data.
  `OutboxHonest` does not, and is not proved yet.

## 6. Not modelled, and the plan

- **Merkle checkpoints**: ranges, the tree and inclusion proofs over the chain
  `LedgerChain` shows to be gapless; the first thing to add.
- **Rate limiter** of the gateway: one token bucket per client behind a mutex,
  with real-valued tokens; sequential, and covered well by unit tests.
- **Circuit breaker**: the state machine is the `gobreaker` library, which the
  repository configures; an open breaker appears as a failed call.
- **Fraud detector**: one fail-open call, part of `Refuse`.
- **`pkg/cache` memory and tiered caches**: no service constructs them.
- **User administration, token signing, JWKS**: single writes and cryptography.
- Pure I/O and front ends (walletctl, TLS, metrics, tracing, HTTP and gRPC
  translation, read-only queries) keep no state a property could be about.

Left for later: `MerkleCheckpoints`, a proof of `OutboxHonest`, and `LedgerRelay`
shown to implement the `RelayDelivers` action of `WalletService`.

# Formal models of the device-uniqueness backend

TLA+ models of the backend's services: the path that turns a username claim
into a name on a chain (intake, reservation outbox, registration queue, chain
writer with its lease and adaptive batch size), the username indexer that reads
the names back, and the HTTP services around it (authentication, invite
tickets, TURN credentials, push relay, username search). TLC checks the models
on small instances; TLAPS proves their safety properties for every number of
writers, rows, claims, requests, replicas, accounts and faults, and that the
writers implement the abstract life of a claim.

## 1. The system

The repository is a Rust workspace. One binary (`dub`) runs each of the
services below as a role; they share Postgres databases and talk to two
Substrate chains.

| Component | State it keeps | Operations that change it | What makes it correct |
|---|---|---|---|
| Registration intake (`usernames/register.rs`, `eligibility.rs`, `device_check.rs`, `widevine.rs`) | inserts `username_reservations`, `widevine_devices`, vouchers, Apple's per-device bits | `register`, `reserve`, `redeem_and_reserve` | a name once, a device once, a voucher once; nothing half-inserted |
| Reservation outbox (`chain/outbox.rs`) | per row: `status`, `attempt`, `not_before`, and the same three for dotNS | `insert*`, `claim_*`, `mark_*` (each guarded by the writer's lease) | the life of a row; terminal is final; the dotNS half follows the People half |
| Writer lease (`chain/lease.rs`) | `writer_lease`: holder, epoch, expiry | `try_acquire`, `renew`, `fence` | one epoch, one writer |
| Chain writer (`chain/writer*.rs`) | in memory: claimed rows, nonce, batch size, link state | active loop: renew, People pass, dotNS pass; startup reconcile | a row is confirmed only if the chain holds the name; no row is lost or charged for what strikes a batch |
| Adaptive batch size (`chain/writer/lane.rs`, `chain-client/src/batch.rs`) | size, ceiling, clean run | `succeeded`, `failed` | stays in range, learns from failures, recovers |
| Registration queue (`queue.rs`, `chain/writer/passes.rs`) | `QUEUED` rows and their `queue_group`; the advancer's lease | intake group, `refresh_groups`, `advance_iteration`, `fallback_drain`, the standing it reports | each claim promoted once; nobody starves; nobody is demoted by a fault; a retired queue empties; the estimate is right |
| Auth handshake (`auth/*`) | challenges, App Attest keys and counters, refresh tokens; CRL cache, Google token | `create`, `register`, `issue`, `rotate_token` | a challenge, a counter value and a refresh token are used once; hard mode mints only on evidence that verifies |
| Invite tickets (`invite-tickets`) | ticket rows, adaptive batch size, advisory lock | `tick_pool`, `claim_oldest` | a ticket goes to one claimant and is registered on chain |
| Username indexer (`username-indexer`: `bootstrap`, `sync`, `incremental`, `projection`) | projection rows (finalized, speculative), checkpoint | `ensure_seeded`, `pass` | the projection equals the chain at the checkpoint; speculation follows the best chain |
| Username search (`search`, `poc`, `http`) | spent puzzles; reads the projection | `issue_puzzle`, `consume`, `prune_expired`, `search` | a puzzle passes once; a walk over the pages neither repeats nor misses a row |
| TURN (`turn`) | cached credential, circuit breaker, ring roots, verification slots | `issue`, `issue_with_proof`, root refresh | a served credential is live, paid for and authorized; roots are never older than allowed |
| Push relay (`notifications`) | cached provider tokens | `notify`, APNs and FCM sends | a push is delivered at most once and reported truthfully |
| JWT, HTTP layers (`jwt-verify`, `http-common`) | rate limiter cells and refunds | `verify`, `allow`, `refund` | what is refused costs nothing more, what is refunded was paid |
| Chain clients, service binary, generated types, generators | — | RPC, start and stop, build time | — |

Interactions: the intake inserts rows that the queue promotes and the writer
drains; the three only meet in the database, where the outbox `status` and the
lease row are the whole protocol. The writer runs the queue's janitor. The
indexer and the chain writer meet only on the chain, search reads what the
indexer writes, and the other services trust the tokens the auth handshake
issues. Each role of the binary is a process of its own; replicas of a role
share the database and nothing else.

What is hard here: writers overlap during a deploy; a stalled writer comes back
after its lease was taken; a process dies between marking a row and recording
its outcome; an extrinsic times out and lands later, after its row was retried,
failed or taken over; one statement of a batch fails; the events of a batch
cannot be used; two advancers promote at once; the queue is retired with claims
inside; two claims of one device or voucher race; a transaction's session dies
inside a critical section; a fork the indexer has read loses; a lock session
dies under its holder; a handler is dropped at an await while its call goes on;
a cached list, token, credential or root is stale when used; an answer is lost
and the request repeated. PROJECT.json lists these hazards line by line.

## 2. The modules

| Module | Models | Checked through |
|---|---|---|
| `ChainWriter` | outbox, lease, both lanes of the chain writer, device records, and the chains as far as the writer sees them | `MCChainWriter` |
| `Reservation` | abstract: the life of a claim as a client may rely on it; implemented by `ChainWriter` | `Lifecycle == INSTANCE Reservation WITH ...` in `ChainWriter` |
| `BatchLane` | the adaptive claim size of one lane | itself |
| `RegistrationQueue` | the queue, its advancers, intake group, janitor and estimate | `MCRegistrationQueue` |
| `RegisterIntake` | the register handler and name availability | `MCRegisterIntake` |
| `UsernameIndexer` | the projection, its replicas, the chain they follow | itself |
| `Serving` | what the HTTP services share: connections, bearer tokens, rate limiter, clock, faults | `MCServices` |
| `Attestation` | what each platform verifier decides | `AuthTokens` |
| `AuthTokens`, `InviteTickets`, `TurnCredentials`, `PushRelay`, `UsernameSearch` | one service each, on top of `Serving` | `MCServices` |
| `ChainWriterProofs`, then `OutboxProofs` and `WriteAheadProofs` on top of it | theorems about `ChainWriter` | tlapm |
| `BatchLaneProofs`, `RegistrationQueueProofs`, `RegisterIntakeProofs`, `UsernameIndexerProofs` | theorems about one module each | tlapm |
| `ServicesProofs` | theorems about the services, on top of `MCServices` | tlapm |

### ChainWriter

State: `status`, `attempt`, `due` (whether `not_before` has passed), `device`
and `lease` are the database; `owner` and `inflight` the chains; `pc`, `epoch`,
`lane`, `batch`, `snap`, `todo`, `fate` and `after` the memory of each writer.
`snap` is what the writer read of a row's attempt: the code writes back values
it read earlier, and so does the model.

| Code | Actions |
|---|---|
| `lease::try_acquire`, `renew`, expiry | `TryAcquire`, `Heartbeat`, `LeaseExpires` |
| `reconcile`, `reconcile_submitting` | `Reconcile`, `ReconOwners` (`ReadChunk`, `SkipChunk`) |
| `pass`: claim, `hold` | `Claim`, `Hold` |
| `triage`: context, gates, owner read | `Triage`, `Owners` |
| `one`, `batch`: nonce, sign | `Submit` |
| `mark_submitting`, one statement per row | `Mark` |
| submit and watch, `finalize` | `Broadcast`, `Await` (`Finalized`, `BatchFails`, `TimesOut`, `WatchBreaks`, `RenewalFails`) |
| `apply`, `settle`, `classify_submit_failure` | `Settle`, `Classify` |
| `reconcile_batch`, `defer_reconciled`, `retry_batch` | `Rebatch`, `DeferAll` |
| `Lane::record`, one guarded statement or fenced transaction per row | `Record` |
| intake, queue, backoff | `Reserve`, `Promote`, `BackoffElapses` |
| process crash, or a database error that ends the active loop | `Abandon` |
| a call in a pool nobody watches; somebody else registers the name | `LeavesPool`, `TakenByOther` (external) |

The two lanes are one engine in the code (`Engine<L: Lane>`) and one set of
actions here, with `lane[w]` saying which; where they differ (gates, link,
terminal statuses, device record) the difference is a conjunct. `classify`
compares texts in the code; `Reasons` are the classes it tells apart.

Abstractions. One SQL statement, or one transaction, is one step: in
particular `LEASE_HELD` and the update it guards are evaluated together (the
database evaluates the `EXISTS` in the statement's snapshot without locking the
lease row, so the window inside one statement is outside the model). Time is
abstract: a lease or a backoff ends in a step of its own. Nonces are not
numbers: a wrong nonce is a refused broadcast. The adaptive size is any size up
to `BatchMax`, which `BatchLane` justifies (`SizeOK`). A candidate that does
not parse is one of the refusals of the gate; during the reconcile it is left
out, since such a row is never marked. A lost lease inside the reconcile goes
straight back to acquisition: the code first enters the active loop, whose
renewal fails at once. `Rebatch` records the rows of an unusable batch in claim
order, where `engine.rs:481` records the landed ones first. Gauges, logs and
backoff lengths are left out.

`blame` is a ghost: what happened to a row on its own account, by cause. A
`verdict` is the chain's answer about the row; `lone` is a submission of the row
alone that ended in an error which is no such answer (nonce, signature, mark,
refused broadcast, broken watch, events: `engine.rs:310` has only a text to go
by); `interrupted` is a submission the next lease holder finds `SUBMITTING` and
not landed. `AttemptsAccounted` balances the attempts against it.

Faults. Each kind of fault is a constant and each occurrence spends one unit of
`MaxFaults`, so that a run can afford the interleavings; the proofs do not
depend on the bound.

### RegistrationQueue

State: `row`, `group` and the advancer's `lease` in the database; `balance` on
the chain; `enabled` for `QUEUE_ENABLED`; per advancer the program counter, the
slot, the row its open statement has locked (`hand`), the balances it has yet
to read (`unread`) and those read and not written (`fresh`). A promotion is one
SQL statement, split here into `Pick` (the locking sub-select) and `Commit`,
because another advancer's statement can run in between: that is what
`SKIP LOCKED` is for. `DropWork` models an abandoned iteration, whose last
statement may or may not still commit. Ghosts: `passed` counts the iterations
that served the last slot over a claim's head, `witness` what that slot chose
from, `quote` what the queue told everybody when the iteration began.

Abstractions: api and writer share one `enabled` flag; a renewal that errors is
the crash action; the janitor's single UPDATE is one step taken when no
statement holds a queued row; malformed subjects (always group 1) and voucher
claims (which never enter the queue) are left out; claims are numbered in
`(created_at, id)` order and may become visible in any order, since
`created_at` is the start of the inserting transaction. Balances are whole DOT.

### BatchLane

`size`, `ceiling` and `clean` as in the code, with two ghosts: `run`, the
length of the current clean run, and `failedAt`, the size that failed last.
`ThresholdSpec` puts the lane in front of a chain that takes at most `limit`
rows per batch, one of `Limits`, and now and then fails a batch that fits. The
failure counter, which only lengthens a backoff, is left out.

### RegisterIntake

One step of a request is the handler from one await to the next. `outbox`,
`voucher`, `challenge` and `widevine` are the database, `apple` the two bits at
Apple, `lock` and `tx` the advisory lock and the open transaction of the claim
that holds it.

| Code | Actions |
|---|---|
| `register`: rate limit, decoding, validation, signatures | `Validate` (`Report`, `DotnsFlags`, `DigitFlags`, `CandidateSigned`) |
| `available_digits`, `base_state`, `select_digit` | `ReadNames`, `SelectDigit` (`Availability`, `Rejects`) |
| `available::check` | `CheckAvailable` |
| `voucher_state`, `redeem_and_reserve` | `CheckVoucher`, `Redeem` |
| `widevine_gate`: evidence, challenge, device lookup | `WidevineGate`, `Consume`, `Seen` |
| `evaluate`, `decide_gate` | `DeviceCheckGate` |
| `reserve`: one insert, or lock, second query, insert, `register_device`, commit | `Reserve`, or `ClaimLock`, `Requery`, `Insert`, `Mark`, `Commit` |

One base name is modelled, so a full username is its digits; a payload is the
set of rules it breaks. A lost commit may or may not have happened. Processes
die (`crash`) and sessions die under a transaction (`session`) at any await.
What becomes of the row afterwards is the other modules' business. Left out: a
database error of `voucher_state` (`register.rs:198`), which ends the request
before anything has changed, and an iOS claim that also carries Android evidence
(`register.rs:398-449`, `525`).

### UsernameIndexer

The chain grows, finalizes and drops unfinalized blocks (external); a block
stands for its hash and carries the consumers' names. `row` and `checkpoint` are
the database, `lock` the projection lock; the rest is the memory of each
replica. `EnsureSeeded`, `Snapshot`, `ScanPage`, `Sweep` and `WriteCheckpoint`
are the bootstrap; `Wake`, `TryLock`, `IndexBlock`, `PlanWindow`, `ScanWindow`,
`PinHead` and `Admit` one pass; `PassFails`, `Crash` and a lost lock session the
faults. A database may start empty, at a checkpoint, or filled from another
chain. Every change of a consumer is taken to be announced by one of the events
the indexer looks for; values that do not decode are rows without a name. `Wake`
takes the best and the finalized head in one step; `sync.rs:365` reads them one
after the other, so there the best head can be the older of the two.

### The services

`Serving` holds the connections. A request arrives and its handler runs to its
first await in one step; each further step is the stretch between two awaits,
and the handler may be dropped at any of them (client gone, timeout, process
stopped), its outstanding call finishing or not. The extractor and the limiter
are in `Serving`; each service adds its variables, its requests (honest ones,
and ones with one flaw) and its actions, named after the functions they model.
Bytes, certificates and signatures are reduced to the outcome of the check made
on them; a failed call, a dropped handler and a flawed request each spend one of
`MaxFaults`. `MCServices` starts the process with one role and runs that role's
service, as the binary does.

- `AuthTokens`: challenges, the token route with its verdict per platform in the
  three modes (`StartVerdict`, `FindKey`, `CommitCount`, `RevokedSerials`,
  `CrlFetched`, `Exchange`, `Decode`, `MintSession`), key registration, and
  `SelectToken`/`RotateToken`. History: what a session was earned with.
- `InviteTickets`: maintainers (`AcquireTickLock`, `CountAndPlan`, `SubmitBatch`,
  `BatchFinalized`, `InsertAvailable`, `TickError`, `MaintainerFault`) against a
  chain with a quota (a batch is its keys by the position of their calls), and
  the claim route (`PreCheck`, `SelectOldest`, `CommitClaim`, `AnswerClaim`) with
  its database retries. The row lock of `SKIP LOCKED` is held between the last
  two statements of a claim.
- `TurnCredentials`: both routes, coturn and Cloudflare (`CloudflareIssues`,
  `CloudflareRejects`, `CloudflareFails` with cache, breaker and refunds), the
  root refreshers and the verification slots, which a dropped handler's
  verification keeps (`OrphanEnds`).
- `PushRelay`: `NotifyArrives`, the APNs send with its retry at the sibling
  environment, the FCM exchange and send, with shared provider tokens.
- `UsernameSearch`: the gate, one-shot puzzles (`IssuePuzzle`, `Consume`,
  `PruneExpired`, replicas with lagging clocks), and one client's walk over the
  pages (`SearchPage`) while `ProjectionChanges` moves rows.

What these modules take for granted, or leave out:
- The limiter forgets no key. The code's stores hold 8192 entries and drop idle
  ones (`state_store.rs:23-31`, `config.rs:24-25`): a key evicted there gets its
  burst back and loses its banked refunds, so what `CredentialsEarned` and
  `PushesHonest` say of the limiter is about keys that stay in the store.
- A root refresh ends within `RefreshTime`. `roots.rs:184-272` sets no limit and
  stamps the snapshot when it is stored (`roots.rs:82`), so the age of a root is
  known only up to the time its refresh took.
- The genesis of a TURN endpoint is fixed in a run: ours, another chain's, or
  unknown, which `roots.rs:147` lets pass. An endpoint that changes chain is
  rechecked by the code only after an error.
- Cloudflare grants any lifetime (`cloudflare.rs:286-295` takes what it says, and
  so does the model): a useful life is claimed for coturn's credentials and for
  those served from the cache, not for a fresh one of Cloudflare.
- A revocation list is as of its arrival; `crl.rs:80-84` stamps it after the body
  was read, so the list can be older by one fetch timeout than the model has it.
- The first APNs environment is production; the configuration may choose the
  other one (`apns.rs:307`), to which the model is symmetric.

## 3. The runs

| Run | Instance | Shows |
|---|---|---|
| `takeover` | 2 writers with one holder id, 2 rows, alone and in batches of 2, reconcile chunks of 1, 2 faults out of 13 kinds, 2 leases | `AssignedIsOwned`, `NoOrphan`, `WriteAhead`, `Custody`, `AttemptsAccounted`, `TerminalIsFinal` |
| `halves` | 2 writers, 2 claims of one device, both with a dotNS half, 2 faults out of 16 kinds, 3 leases | `DotnsFollowsPeople`, `DeviceAccounting`, and that `ChainWriter` implements `Reservation` on both lanes |
| `settles` | 2 writers, 1 row with a dotNS half, 2 faults out of 5 kinds, 3 leases, fair | `Settles` |
| `batch_size` | the configured 25 rows and probe run of 20, six chain limits, 3 slips, fair | `SizeOK`, `ProbesOnlyAfterCleanRun`, `EveryFailureLearns`, `KeepsBestSize` |
| `queue_quotes` | 1 advancer, 3 claims (two of one account), 3 balances, 2 faults, 1 balance move | `QuotesHold`, `BoundedWait`, `NeverDemoted` |
| `queue_drains` | 2 advancers whose statements overlap, 2 claims, retirement, 1 fault, fair | `PicksAreSound`, `PromotedOnce`, `Drains` |
| `indexer` | 2 replicas, 1 account, 1 name, 2 new blocks up to height 3, window 1, 1 fault out of 3 kinds, fair | `CheckpointExact`, `SpeculationExact`, `CatchesUp` |
| `intake` | 2 concurrent claims out of 14 kinds of request, gates off, soft and hard, 2 faults out of 9 kinds, fair | `OneFreePerDevice`, `VoucherForRow`, `SlotForRow`, `ChallengeOnce`, `SoftGatesWatch`, `AnswersAreTrue`, `Answered` |
| `services` | one role at a time; 2 connections, 2 requests, 1 fault, 2 clock ticks; 2 maintainers, 2 pools and 5 keys; 5 TURN deployments, 2 lifetimes Cloudflare may grant; 3 accounts and 2 puzzles | `SessionsEarned`, `TicketsAccounted`, `CredentialsEarned`, `PushesHonest`, `ServedOnce`, `ServicesTypeOK` |

Why the bounds are enough. A takeover needs two writers and two leases. In
`takeover` the writers share a holder id: each may then take the lease from the
other while it is live, which allows every overlap that distinct ids and expiry
allow, and more; the two processes are interchangeable, so the run is
symmetric in them. A row left behind, a partial mark and a partial reconcile
need two rows, and so does a fault that strikes a row alone, where it may be
charged, and in a batch, where it may not. Two faults are what the two attempts
of a row can pay for. A writer that comes back and takes a third lease is in
`halves` and `settles`. Two faults combine a late extrinsic with another one, or
a stall with a crash. Three claims make the last slot choose between groups and between
claims of one group; a further iteration repeats the pattern. The batch sizes
are the real ones, and the limits of `batch_size` are those of a chain that takes
one row, two, a few, all but one, exactly all and more than all. Every bound
that only limits the search (`MaxFaults`, `MaxEpoch`, `MaxMoves`,
`MaxTransients`) is arbitrary in the theorems.

In `indexer` accounts do not interact, so one shows a name given, dropped with
its fork and given again; two blocks above the first make a fork of length two
and a window that is too long for speculation. In `intake` every race is
between two claims; the inputs pair each kind of device with a second claim of
the same device, the same challenge, the same voucher and the same name. In
`services` a race needs two handlers, and a session, a puzzle and a cached
token from before the run stand for the requests that came earlier; the time
constants are small but keep the order of the real ones (a ticket's retry, a
token's refresh before its end of life, a prune grace above the clock lag).
The bounds of `indexer`, `intake` and `services` are arbitrary in the theorems
too.

Deadlock is checked everywhere but in `queue_drains`, where a retired and empty
queue with all advancers stopped really stops, and in `intake`, where all
requests end answered.

Fairness. `settles`: every writer process keeps stepping (the code loops for
ever and the deployment restarts it), queued claims are promoted, backoffs run
out; nothing is assumed of lost leases, of the chain or of faults, whose number
is bounded. `NoOrphan` and `Settles` leave out reconcile faults: a chunk that
cannot be read stays `SUBMITTING` until the lease changes hands, which
`reconcile_submitting` documents. `queue_drains`: advancers keep stepping until
they are stopped, an unrenewed lease runs out, the writer keeps running the
janitor. `batch_size`: passes keep being made. `indexer`: replicas keep stepping
(the loop wakes on a timer and the deployment restarts it), and a replica that
tries the projection lock again and again gets it some time when it is free
(strong fairness: `pg_try_advisory_lock` does not queue, but the holder lets go
between passes, whose timing is independent); nothing is assumed of the chain,
which the bounds bring to rest. `intake`: a handler at work keeps running, also
into the lock, which Postgres grants in order.

Every property of a passing run has a mutant in PROJECT.json: a plausible bug of
the mapped code under which the same run reports the violation.

### Where the code and its words disagree

| Run | Shows |
|---|---|
| `already_registered` | `PeopleLite::AlreadyRegistered` is taken for success of the row; with two rows of one candidate the second becomes `ASSIGNED` and nobody owns its name |
| `device_twice` | a failed claim releases its device while its extrinsic can still land, so one device can get two names |
| `lone_row` | a row alone in its pass pays an attempt for a nonce, a signature, a mark, a watch or events that failed (`one`, `engine.rs:294-314`), although `docs/architecture.md:256-259` says that only per-item failures spend the budget and `engine.rs:677` that the single-row path agrees with the batch path: `OnlyVerdictsSpendAttempts` is violated |

What the code does keep of the last one is `AttemptsAccounted`, which `takeover`
checks with all these faults and section 4 proves: such a charge is always of a
submission of that row alone, and what strikes a batch costs its rows nothing,
also when only some of them were marked. An interrupted submission costs two
attempts, the one `mark_submitting` wrote ahead and the one the reconcile adds.

A smaller one has no run: `register.rs:283` parks claims in the queue whatever
the queue service is doing, although the route's description (`register.rs:90`)
promises a fallback to the direct path; the comment at the code says it is meant.

## 4. What is proved

All theorems hold for any sets of writers, rows, claims, advancers, requests,
replicas, accounts and connections and for any number of faults. What they assume is the
named `ASSUME`s of the modules (bounds are natural numbers, `None` is none of
the values it is absent from; for the intake, what the decoded body of a
request can hold: `InputsAssumption`, `ModesAssumption`; for the services, that
there are finitely many connections and accounts, what the configuration
rejects at start, such as a TURN lifetime of zero, and that the evidence called
flawed is what the verifiers refuse: `EvidenceAssumption`), which TLC evaluates in every
run, and where said, a named hypothesis of the theorem.

`ChainWriterProofs`
- `TypeCorrect`: `Spec => []TypeOK`.
- `CustodyHolds`: `Spec => []Custody`. `Custody` is the inductive invariant: an
  epoch above zero belongs to one writer, none is above the lease's; a writer
  keeps each row in one place (`Shape`); and what the writer of the newest epoch
  has in hand is not terminal (`Fenced`). The last part needs all the others: a
  step of an older writer must be unable to write, and a step of the newest one
  must leave its other rows alone.
- `TerminalFinal`: `Spec => TerminalIsFinal`, from `Custody`: a guarded update
  touches a row in the hand of the newest writer, and such a row is not
  terminal.
- `AssignedOwned`: `OneRowPerCandidate => (Spec => []AssignedIsOwned)`, from
  `Honesty` (an outcome that says landed is about a name the candidate owns) and
  the fact that ownership is never lost. The hypothesis is necessary: the run
  `already_registered` is what happens without it.

`OutboxProofs`
- `DevicesAccounted`: `DeviceAccounting` is preserved because an outcome is only
  recorded for a row that still waits for one (`RowStep`, from `Custody`).
- `DotnsBehindPeople`: `[]DotnsFollowsPeople`, from `HalvesHold`. `Halves` adds to
  the two halves of a row that whatever a writer has in hand, however old its
  lease, and whatever call is still under way or has landed, is of a half that
  was ready: without it, nothing is known of the call of a writer that was
  taken over long ago.
- `WritersImplementLifecycle`: under `OneRowPerCandidate`, `Spec =>
  ImplementsLifecycle`: every initial state of `ChainWriter` is one of
  `Reservation` and every step a step of `Reservation` or a stutter, on both
  lanes. Uses `Custody`, `Honesty` and `Halves`; most steps of a writer (leases,
  claims, reads, batching) stutter, the record of an outcome and a landing are
  the abstract steps.

`WriteAheadProofs`
- `WrittenAhead`: `[]WriteAhead`, from `Marked`: the rows of an extrinsic that are
  no longer to be marked are `SUBMITTING` as long as the writer's epoch is the
  newest.
- `NoRowOrphaned`: `[]NoOrphan` if the startup reconcile completes
  (`ReconcileCompletes`: no `reconcile` or `link` fault). `Tracked` says who
  covers a `SUBMITTING` row at every point: the newest writer has it in hand, or
  its reconcile of that lane is yet to come; `Nested` that inner loops work on
  rows of the batch. The hypothesis is necessary: an unread chunk is left for
  the next lease, as `reconcile_submitting` documents.
- `AttemptsPaidFor`: `[]AttemptsAccounted`, without a hypothesis: any number of
  writers, every kind of fault. `Counted` relates, at every point of a pass, the
  attempt the newest writer read of a row (`snap`), the attempt in the row and
  what the row has to pay (`Bill`); it speaks of the writer of the newest epoch
  only (`Newest`), because an older one writes nothing. `mark_submitting` raises
  the attempt before the outcome is known, so the invariant must allow one more
  for a row in hand, and a deferral must write back what was read: this is
  what the partly marked batch depends on. A `SUBMITTING` row that is in nobody's
  hand, and the one the reconcile adds to it, is why an interruption counts two.

`BatchLaneProofs`: `SizeIsBounded`, `FailedSizeIsAvoided` and `FailuresLearn`,
from the inductive `SizeOK /\ CleanRun`: until a clean run is complete the
ceiling stays at or below the size that failed. `ThresholdIsLane`: the lane of
the run `batch_size` is one of those lanes.

`RegistrationQueueProofs`
- `TypeCorrect`, and `PicksSound`: `PicksAreSound` is inductive (distinct rows in
  hand, all still queued; the last slot holds the earliest of its choices).
- `PromotionOnce`: every step that sets `RESERVED` does so to rows in hand or
  queued, hence never to one the writer has taken.
- `NobodyStarves`: `[]BoundedWait`, since a commit that passes a claim over lets
  an earlier one out; uses the cardinality lemmas of `FiniteSetTheorems`.
- `NobodyDemoted`: by `GroupsAreEarned`: while no balance has moved, a claim's
  group is at most what its balance is worth and a value read is exactly that.
- `QuotesExact`: `[]QuotesHold`. The estimate replays the queue slot by slot
  until it is empty, as a recursive function over the slots. That this function
  exists and serves every claim exactly once (`SimExists`, `SimEmpties`,
  `SimServes`) is proved by way of a least counterexample, `<` being
  well-founded on the naturals. `SimShift` says that serving one whole
  iteration moves every later claim one iteration forward. `QuotesStand`, the
  inductive invariant, compares the claims still queued with what the replay leaves after
  the slots served so far, from the first slot until the next refresh; the
  picks of `PicksSound` are what makes the last slot agree.

`RegisterIntakeProofs`
- `TypeCorrect`: `TypeOK` includes that the lock belongs to the one live
  transaction, which the dying session, the answer and the vanished client all
  preserve.
- `ClaimsOrderly`: `[]Orderly`, the inductive core: what a claim has passed on its
  way (`Path`), what its open transaction holds (`Holding`: its name is still
  free), and that a stored row belongs to a claim that is over (`Stored`). On it
  rest the others.
- `AnswersTrue` (with `Told`), `SoftWatches`, `VouchersPayOnce` (with `Burnt`: the
  voucher and its row change in one transaction), `ChallengesOnce` (with `Once`).
- `SlotsPaid`: `[]SlotForRow`, from `Wasted`: the devices used up for nothing are
  no more than the faults. A claim between `register_device` and its commit
  covers its device; a step that uncovers one is a fault, and it is of one claim
  and so of one device.
- `OneFreeEach`: `[]OneFreePerDevice` under `OnePlatformPerDevice`, from
  `Exclusive`: a stored free claim has its device recorded, and a claim past the
  second question to Apple, under the lock, competes with no stored one.
  The hypothesis says that a device is either an iPhone or an Android phone: the
  two gates keep separate records, so a device that passed as both would have
  two slots.

`UsernameIndexerProofs`
- `TypeCorrect` and `BasisHolds`: no pass and no scan reads a block the chain does
  not have, and a block names the accounts it changes.
- `CheckpointsExact`: `[]CheckpointExact`, from `ProjectedHolds`: until a lock
  session is lost, whoever is in a critical section holds the lock, a scan has
  upserted all but what it still has to do, and a pass is one block ahead of the
  checkpoint.
- `SpeculationsExact`: `Spec => SpeculationExact`, from `Watched`: a pass during
  which the chain stood still has in `todo` every account that differs between
  the finalized and the best head, whatever its cache held before.

`ServicesProofs`. A process keeps its role (`RoleKept`), so each theorem rests on
an inductive invariant of one role.
- `PushesAreHonest`: `[]PushesHonest`, from `PushInv`: every handler serves a
  request of its own that has had no effect yet, was paid for, and holds a token
  that outlives its call; deliveries nobody was told of are counted against the
  faults.
- `CredentialsAreEarned`: `[]CredentialsEarned`, from `TurnInv`. `Current` follows
  a root from the chain through a refresh into a snapshot: what a refresher is
  reading left the chain, if at all, after the refresh began. `InTime` carries
  that through the handlers of a proof (slot, verification, Cloudflare). The
  limiter's books balance because a handler waiting for Cloudflare counts as a
  cell spent, which it either turns into a credential or hands back. Nothing is
  assumed of what Cloudflare grants.
- `SearchServesOnce`: `[]ServedOnce`, from `SearchInv`. A puzzle that let a request
  through is spent or so far past its window that no handler which passed the
  offline checks can still be waiting to insert it (`OneShot`, `Consuming`): this
  is where the prune grace must cover the clock lag. A page is a prefix of what
  is after the cursor, and a short read is all of it (`PageIsWhole`), so the walk
  has shown exactly the listed rows up to its cursor (`Shown`).
- `SessionsAreEarned`: `[]SessionsEarned`, from `AuthInv`. A challenge is spent by
  one handler, which alone owns it until it mints (`Owns`, `Alone`); what that
  handler carries was judged by the verifier of its platform (`Judged`, `Mints`)
  against a revocation list no older than the cache allows (`CrlTrue`); every
  assertion that was accepted since a key was registered raised its counter, so
  two sessions of one key differ in their count (`Minted`, `Apart`). Tokens form one chain
  per session, of which only the last is unused (`TokensInOrder`,
  `TokensRooted`), since a rotation holds the row it replaces (`Rotates`).
- `TicketsAreAccounted`: `[]TicketsAccounted`, from `InviteInv`. `PoolInv` is the
  maintainers': a key is generated once and held by one maintainer until it has
  a row (`Stock`), what a maintainer has learnt of its batch is so on chain
  (`Progress`), and until something fails (`Calm`) the lock keeps one of them
  awake and what it holds fits its pool. `DriftInv` is about the seeds lost in
  whatever has failed: a maintainer's keys are in no batch but its own and on
  chain only as far as it knows (`Knows`), so the keys that nobody has and that
  are registered, or in flight and may yet be (`Adrift`), grow only when
  a maintainer drops its batch, by one batch and for one fault. A batch that
  lands long after its maintainer gave up adds none. `ClaimInv` is the claims': a
  row is locked by one handler, a claimed key is in the hands of one
  (`Claiming`), and the keys nobody has are no more than the faults
  (`LostKeys`). Neither notices the other but by new rows, which are available,
  and by flipped ones, which only lower the count (`PoolUnderClaims`,
  `ClaimsUnderPool`).
- `ServicesTyped`: `[]ServicesTypeOK`, all roles in one theorem, from `Typed`
  together with the five invariants above. `Bounded` and `Limited` bound the
  clock, the faults and the rate limits, a refund included; `Asked` gives every
  busy handler its request; `CrlHeld` is the mutual exclusion of the revocation
  list's fetch; `PoolLimits` keeps every maintainer's batch between one and the
  maximum; `Slots` counts the verifications of dropped clients (`orphans`)
  against the same slots as the live ones; `Guarded` is the breaker's
  count and the genesis check of the TURN refresher. For these a
  step is of few kinds (`StepKinds`, `LimitMoves`, `HandlerMoves`), so what the
  roles share is proved once.

`Halves`, `Marked`, `Nested`, `Tracked`, `Counted`, `Wasted`, `DriftInv`,
`Orderly`, `Told`, `Burnt`, `Once`, `Exclusive`, `Basis`, `Projected`, `Watched`,
`PushInv`, `TurnInv`, `SearchInv`, `AuthInv`, `InviteInv`, `QuotesStand` and `Typed` were checked with
TLC on the instances of the runs before they were proved.

Only model-checked: `Settles`, `KeepsBestSize`, `Drains`, `CatchesUp` and
`Answered`, since liveness under fairness is beyond the prover. Every invariant
and action property of the passing runs is a theorem, four of them under a
hypothesis named above: `NoOrphan` (`ReconcileCompletes`), `OneFreePerDevice`
(`OnePlatformPerDevice`), `AssignedIsOwned` and `ImplementsLifecycle`
(`OneRowPerCandidate`). Two conjuncts speak of less than all behaviours: that no
pool exceeds its target is said until the first fault (a maintainer that
loses its lock session while its batch is under way is replaced by one that does
not know of it), and `NeverDemoted` until the first balance moves.

## 5. Plan

Done: all modules; the proofs about the outbox, the writers, the batch size, the
queue, the intake, the indexer and all five services; the refinement of
`Reservation`.

Left, in this order:
1. The cached nonce of a lane as a number, through timeouts, broken watches and
   takeovers.
2. Liveness of the services (a pool refills, a breaker closes again).

## 6. Not modelled

RPC clients, transaction building and generated chain types; configuration from
the environment; the bytes of signatures, payloads and certificates (pure
functions, checked by unit tests with vectors: the models have what they
decide); metrics, health and tracing; CORS and document generation; the start
and stop of the binary's roles beyond what it does to each worker. Nonce values
of the chain writer are reduced to refused broadcasts. PROJECT.json gives the
reason for each component.

## 7. Running

    tlc -workers 2 -config takeover.cfg MCChainWriter
    tlc -workers 2 -config batch_size.cfg BatchLane
    tlc -workers 2 -config intake.cfg MCRegisterIntake
    tlc -workers 2 -config services.cfg MCServices
    tlapm ChainWriterProofs.tla

The other configurations run with the module PROJECT.json names for them.

# MemWal: TLA+ specifications of the relayer

MemWal is a memory service: a client sends a text, the relayer (Rust, `services/server`)
embeds it, seals it, stores the ciphertext as a Walrus blob paid for by one of the server's
Sui wallets, hands the Blob object over to the user and indexes the vector. A Node sidecar
(`services/server/scripts/sidecar`) talks to Walrus, SEAL and Sui; a Move contract
(`services/contract`) holds accounts, delegate keys and the SEAL policy.

This directory models the parts where money, data or secrecy can be lost: the asynchronous
write pipeline, the limiter in front of the sidecar's uploads, the account contract with the
SEAL policy, the security delete of exposed blobs, and the OAuth bridge that hands delegate
keys to MCP clients. Paths below are relative to
`services/server` unless they start with another directory.

## Inventory

| Component | State | Operations | Hard part | Correct when | Module |
|---|---|---|---|---|---|
| Write handlers, `src/routes/remember.rs` | `remember_jobs` row: status, claim token and lease, recovery token and lease, prepared payload | `remember`, `remember_bulk`, same-key retry, paid recovery, preparation tasks | leases expire under their holder; three statements per claim; handler may die between them | a retry never forgets or repeats a payment | `RememberPipeline` |
| Wallet queue and workers, `src/jobs.rs` | `apalis_jobs`, per-job advisory lock, journal columns | upload, transfer, finalize, bulk fan-out, error classification, handoff | attempts overlap, statements fail, process crashes, wallets rotate | at most one payment, none lost, `done` only for a delivered and indexed blob | `RememberPipeline` |
| Durable upload route, `scripts/sidecar/routes/walrus-upload-journal.ts`, `src/storage/walrus.rs` | none of its own: the step, prepared transaction and object id travel in the journal | encode, prepare, register, upload, certify | a request outlives its caller's timeout | each step can be repeated | `RememberPipeline` |
| Transfer route, `scripts/sidecar/routes/walrus-metadata.ts` | Blob ownership on chain | `set-metadata-batch` | not idempotent | only the owner wallet transfers | `RememberPipeline` |
| Sweep, `src/storage/db.rs`, `src/main.rs` | row status | `fail_stale_remember_jobs` | races with live attempts | every job a worker took up gets a verdict | `RememberPipeline` |
| Upload limiter, `scripts/sidecar/concurrency.ts` | semaphores, queues, counters | acquire wallet slot, acquire global slot, release, time out | timer against release, hold and wait | slots conserved, nobody sleeps beside a free slot | `UploadSlots` |
| Account contract, `services/contract/sources/account.move` | registry, accounts, delegate keys, encryption counter, migration counts | create, add/remove key, deactivate, quarantine, import, `seal_approve`, fence | key servers lag, the counter rotates between sealing and storing | a revoked party cannot open what is stored after its revocation | `AccountPolicy` |
| Security delete, `src/routes/security_delete.rs`, `src/jobs_security_delete.rs`, `src/storage/security_delete_store.rs`, `migrations_legacy/001` | tracking rows, batches, lineage of claims, resolver checkpoint and fence | claim, resolve ids, build, cancel, submit, replay, reconcile, sweep, resolver scan, tracking trigger | four parties write without a lock between them, on verdicts read earlier; a transaction executes late | a row ends as what the chain says; a resolved batch stays resolved; no blob of the owner is given up | `SecurityDelete` |
| Authentication, `src/auth.rs` | key-to-account cache (every hit is verified on chain), nonces | resolve, verify, evict | nonce window | no request is accepted twice | planned |
| Rate limits and quota, `src/rate_limit.rs` | Redis windows, fallback buckets | three-layer check, quota check | check and record are separate for the layers | admitted weight stays within each limit | planned |
| OAuth bridge, `src/routes/oauth.rs`, `src/oauth.rs`, `src/storage/db.rs`, `migrations/011` | clients, authorize sessions, delegates, codes, grants, tokens | register, authorize, complete, cancel, exchange, rotate, revoke, accept a bearer, evict, prune | every request is several statements; rotation, revocation and pruning overlap | a grant is what its owner signed for, once; one live refresh token; a revoked grant is dead | `OAuthBridge` |
| Analyze/recall/admin routes, engines, model services, Sui client, MCP, indexer, SDKs, apps | no protocol state | | | | not modelled |

The components interact through the database and two queues of work. A handler inserts the
row and spawns a preparation task; the task persists the sealed payload and pushes a wallet
job; a worker takes the job, locks the row's advisory lock, drives the sidecar one journal
step at a time and persists each step before asking for the next; after the certificate it
records the mint, drops the claim and pushes a transfer job; the worker of that job
transfers the blob, upserts the vector and reports `done`. A retry of the client enters at
the handler, a retry of Apalis at the worker, a sweep at the row.

`PROJECT.json` lists the hazards with their source lines and the properties that cover them.

## Modules

* `RememberPipeline` - one `remember_jobs` row and every actor that can touch it.
* `PaidWrite` - what the pipeline promises: charge once, deliver only what was charged,
  index only what was delivered, report only what is indexed.
* `RememberPipelineInv` - the inductive invariant, in parts, and the refinement mapping.
* `MCRememberPipeline` - model-checking instance (symmetry).
* `RememberPipelineTypeProofs`, `RememberPipelineProofs` - proofs.
* `UploadSlots`, `UploadSlotsProofs` - the limiter and its proofs.
* `AccountPolicy` - the account contract, key servers and writers; `MCAccountPolicy` its
  instance, `AccountPolicyProofs` and `AccountMigrationProofs` its proofs.
* `SecurityDelete` - tracking rows, batches and the parties that write them, against a chain;
  `MCSecurityDelete` its instance, `SecurityDeleteProofs` its proofs.
* `DeletionLedger` - what security delete promises the owner: a batch deletes what it claimed
  and nothing else, completes all at once and by its own transaction only.
* `OAuthBridge` - sessions, codes, grants and tokens; `MCOAuthBridge` its instance,
  `OAuthBridgeProofs` its proofs.
* `Connections` - what the bridge promises: one connection per session, for the client that
  opened it and an account whose owner approved it, never again once it has ended;
  `OAuthBridgeRefinement` proves that the bridge implements it.

### RememberPipeline

Lock, claims and journal are keyed by the job id, so a single row is the whole protocol.
One SQL statement is one step; statements under the lock with nothing observable between
them are one step. Data is reduced to what decides: a ciphertext is the preparation that
produced it (sealing is randomised, so two preparations never agree), a Blob object is the
transaction that registered it, a lease is a Boolean that a timer clears.

| State | Code |
|---|---|
| `row` | columns of `remember_jobs` (migrations 005 and 012) |
| `journal` | `upload_*` columns, `UploadJournal` of `storage/walrus.rs` |
| `fresh`, `prep`, `recovery` | handlers between two statements, spawned tasks |
| `queue` | `apalis_jobs`: state, attempts, payload |
| `wk` | a worker inside `execute_wallet_job`, with its in-memory journal |
| `lock` | `pg_try_advisory_xact_lock` of `JobUploadLock` |
| `chain`, `orphans` | transactions and Blob objects; sidecar requests whose caller is gone |
| `index` | the row's `vector_entries` record |

| Actions | Code |
|---|---|
| `InsertRow`, `ClaimInserted`, `RetryUnpaid`, `RetryPaid`, `EnqueueRecovery`, `PublishRecovery` | `remember`, `claim_remember_preparation`, `claim_paid_recovery`, `enqueue_persisted_paid_recovery` |
| `PersistPreparation`, `EnqueuePrepared`, `PreparationFails` | `spawn_prepare_remember_job` |
| `InsertBulkRow`, `EnqueueBulk`, `BulkPreparationFails`, `FanOut` | `remember_bulk`, `spawn_prepare_bulk_remember_job`, `execute_bulk_remember` |
| `Dispatch`, `Ack` | Apalis (external): polling, orphan re-enqueue, retry while attempts remain |
| `DeferUpload`, `StartUpload`, `StartUploadFails` | lock, `consume_preparation_claim`, `upload_resume_disposition` |
| `SidecarEncode` ... `SidecarCertify`, `CallRejected`, `RegisterReverts`, `CallFails`, `OrphanRuns` | `upload-step-v3` and its caller |
| `PersistStep`, `PersistUploaded`, `PersistFails` | `persist_upload_journal`, `persist_uploaded_state` |
| `Handoff`, `HandoffFails` | `resume_metadata_and_transfer`, `classify_wallet_remember_handoff_failure` |
| `TransferSucceeds`, `TransferRejected`, `TransferFails`, `IndexAndDone`, `IndexFails`, `Rescue`, `RescueFails` | transfer and finalize operations |
| `Sweep`, `LeaseExpires`, `Crash` | sweep task, claim TTL, process death |

Decisions worth knowing:

* A failed call or statement spends one of `MaxFaults`, a crash one of `MaxCrashes`, and
  both count towards `MaxFailures`. A failed push pushes nothing: a push that is committed
  and yet reported as an error is not modelled, and what `DoneLostOnlyInHandoff` says of bulk
  requests depends on it. A transfer that the on-chain SEAL fence rejects, because the
  access counter was rotated after sealing, is here a fault like any other (the fence itself
  is in `AccountPolicy`). A call that times out leaves its request in `orphans`, where it may still take effect at any
  later time.
* The error classifier (`classify_sidecar_error`) decides between retry and abort by text;
  the model takes either.
* `Sweep` needs a free lock: a live holder writes the row at least once per sidecar
  timeout, which is half of the sweep's threshold.
* The loop budget of `execute_durable_upload` (six calls) is not modelled: five calls reach
  the certificate from any journal.
* Insert and spawn of a bulk request are one step; a crash between them is the crash that
  loses the task.
* `RequestSlot` keeps queue slots in reserve so that the bound on the queue never stops a
  worker from pushing. It is a bound of the model, not of the code.

### UploadSlots

Each stretch between two awaits of `acquireWalrusUploadSlots` is one action; a promise that
is resolved continues in a later one. Timers are a `TimeOut` that may happen whenever a
request waits.

### AccountPolicy

A Move call is atomic, so it is one action with the contract's name and its assertions as
guards. What is concurrent is around it: a key server evaluates `seal_approve` on the state
of a node that may lag (`view`, `Sync`), and a key once handed out stays out (`held`); a
writer reads the counter from such a node, seals (`drafts`, `SealEncrypt`), and the transfer
transaction carries `seal_encrypt_fence` (`PersistBlob`).

| State | Code |
|---|---|
| `registry`, `account`, `caps` | `AccountRegistry`, `MemWalAccount`, roots some `MigrationCap` is bound to |
| `view` | an account object as one full node returns it (external) |
| `held` | SEAL keys handed out: party and counter (external) |
| `drafts`, `stored` | ciphertexts not yet transferred; blobs transferred through the fence |

Decisions worth knowing:

* A delegate is its public key, which determines its address. A SEAL id is owner and
  counter; a Merkle proof exists exactly for the leaves of a manifest.
* "Stored" is "handed to the owner". The ciphertext bytes are on Walrus before that, under
  the counter the writer read: the fence decides what becomes the owner's memory.
* The fence is the one of `sealAbi = v1-new`. A sidecar configured with
  `allowLegacySealAbi` lets `v1` requests through without a fence; those are not modelled.
* The version gates are left out: `init` writes `VERSION`, and `migrate_registry` cannot
  run in the package that did. So are labels, timestamps and completion evidence.
* `readers` of a stored blob is history: who was listed when it was stored or since. It is
  what `RevocationBites` compares the holders of its key with; no action reads it.

### SecurityDelete

A database transaction is one step, and a read of the chain is one step. Between them stand
what a party has read (`job[a].got`) and the evictions it has decided on (`job[a].plan`),
which it makes one by one while others go on.

| State | Code |
|---|---|
| `row` | `delete_blobs_tracking`: state, current batch, is the object id known |
| `batch`, `member` | `deletion_batches` (state, inputs with versions, epoch, package) and `deletion_batch_members` |
| `job` | the handler of each batch and each reconciler loop, between two steps |
| `checkpoint`, `completed`, `scan` | `ResolverCheckpoint`, `completed_fence`, the running scan |
| `holder`, `version`, `sent`, `outcome`, `suspects`, `epoch`, `package`, `lapsed` | Sui and Walrus (external) |

| Actions | Code |
|---|---|
| `InsertEntry`, `CommitEntry` | trigger `track_deletable`; the sequence number is drawn before the commit |
| `Claim`, `resolve_claimed_object_ids`, `CheckObjects`, `Evict`, `Build`, `PrepareFails`, `cancel_deletion` | `prepare_deletion`, `cancel_deletion` |
| `Submit`, `FreshThenExecute`, `Stale`, `FreshnessUnread`, `Rejected`, `Settle`, `ExamineFailure`, `Fail`, `Abandon` | `submit_deletion` and, from the freshness check on, the replay |
| `ReconcileAwaiting`, `ReconcileExecuting`, `RetryOrExpire`, `run_sweep_page`, `sweep_mark_external` | `run_reconciler_tick` |
| `ResolverStart`, `ResolverPage`, `complete_resolver_scan`, `ResolverStops` | `run_resolver_tick` |
| `TxSucceeds`, `TxFails`, `ObjectChanges`, `ClockAdvances` | Sui execution, the owner's wallet, epochs, package upgrades (external) |

Decisions worth knowing:

* One object resolver. Each server process starts one (`src/jobs_security_delete.rs:664`)
  on the shared checkpoint row; two of them scanning at once are not modelled. There may be
  several reconcilers.
* One owner: every statement carries the owner's predicate. An object that leaves the owner
  does not come back.
* The execution gate is left out (it only delays); TTL and grace periods may pass at any
  time. Nonces, sponsor gas and signatures decide nothing here and are left out too.
* Epoch and package are read a few calls before the transaction is stored; the model reads
  them with the store. Should they change in between, the transaction is as dead as if they
  changed right after.
* A transaction that was sent runs at most once, in its epoch, on the versions it was built
  for. `Rejected` releases the claims while it may still run: this is what the code does when
  an attempt is refused and no effects are found (`src/routes/security_delete.rs:936`).
  `TerminalIsTrue` and `ResolvedIsFinal` hold through it; the rows are deletable again and
  the sweep or the next batch finds the objects gone. `DeletionLedger` says so too: `Execute`
  of a batch that was released is a step of it, but only within what that batch had claimed,
  and it completes no other batch.

### OAuthBridge

Statements commit one by one, except for the transactions of `rotate_oauth_refresh_token` and
`revoke_oauth_grant`. Both are split where PostgreSQL lets another transaction in: at the
row lock the first UPDATE takes, and between the snapshot of an UPDATE and its writes.

| State | Code |
|---|---|
| `client`, `session`, `delegate`, `code`, `grant` + `revoked`, `token` | the `mcp_oauth_*` tables (migration 011) |
| `job` | the handler of each request, between two statements |
| `pruning` | the clients a running prune statement has found |
| `signed`, `onchain` | personal messages of wallets, delegate keys on chain (external) |

| Actions | Code |
|---|---|
| `register_client`, `authorize` | routes of the same names |
| `session_complete`, `find_reusable_oauth_delegate`, `activate_oauth_delegate`, `insert_oauth_code` | `session_complete` |
| `session_cancel`, `SessionExpires`, `CodeExpires` | cancellation and the expiry of both rows |
| `token_code`, `insert_oauth_grant`, `insert_oauth_token` | `token`, `authorization_code` |
| `token_refresh`, `RotateUpdate`, `rotate_oauth_refresh_token` | `token`, `refresh_token` |
| `revoke`, `RevokeUpdate`, `revoke_oauth_grant` | `revoke`, and the answer to a reused refresh token |
| `PruneStart`, `prune_unconsumed_oauth_clients` | hourly pruning, with the cascading deletes |
| `Abandon` | a statement fails, the client hangs up, the process dies |
| `SignProof`, `add_delegate_key`, `remove_delegate_key` | wallets (external) and the account contract, without its limits (see `AccountPolicy`) |

Decisions worth knowing:

* A request id is used once and names the code, the grant and the token pair its handler
  mints; a delegate key is named by its session; an account stands for its owner's address.
* Token lifetimes are left out: an expired token is only refused more. Registration limits
  and the read-only session routes are left out as well.
* `ORDER BY` takes the newest delegate of an account; the model takes any. Redirect URI,
  verifier and resource are compared after the code is deleted, so a mismatch spends the
  code (`Finish` in `token_code`).
* `token_code` checks the client and deletes the code in one step. The route authenticates
  the client first (`src/routes/oauth.rs:911`), so that the code of a client pruned in
  between is spent; in the model the exchange is refused and leaves it.
* `RotateUpdate` reads the grant's revoked flag when it takes the token row's lock.
  PostgreSQL reads the joined grant in the statement's snapshot, before any wait, so a
  presenter that waited behind a rotation which then aborts may still rotate a token of a
  grant revoked meanwhile. Its bearer is refused and so is the next rotation; only "begins
  no rotation" of `RevokedStaysDead` is about the row lock, not the statement's start.
* `prune_unconsumed_oauth_clients` may take any unconsumed client, however recently it was
  used, and `RevokeUpdate` waits only for another revocation of the same grant: both allow
  more than PostgreSQL does.
* `src/storage/db.rs:1311` says that a revocation kills the tokens "in one statement". A
  rotation that overlaps it inserts a live pair that the UPDATE does not see.
  `RevokedStaysDead` says why that is harmless: bearer and refresh both look at the grant.
* A delegate removed on chain stays active in the table, is the one every later completion
  of the account reuses, and fails the on-chain check there. `revoke_oauth_delegate`, which
  would retire it, has no caller.

## Runs

| Run | Instance | Checks | Shows |
|---|---|---|---|
| `RP_race` | 2 workers, 2 wallets, 2 preparations, 2 transactions, 1 fault | `IndInv`, `AtMostOnePaid`, `PaidIsJournaled`, `DoneIsDelivered`, `JournalForward`, `PaidRecordKept`, `DoneLostOnlyInHandoff`, `ImplementsPaidWrite` | overlapping attempts and same-key restarts keep one payment (650k states) |
| `RP_crash` | 1 worker, 1 crash, 2 faults, all kinds | `TypeOK`, `AtMostOnePaid`, `PaidIsJournaled`, `IndexedIsDelivered`, `ImplementsPaidWrite` | a crash between any two steps (560k states) |
| `RP_live` | 1 worker, 2 wallets, 2 transactions, 1 crash or 1 fault, all kinds, fairness | `StatusSettles`, `RecordedIsDelivered` | verdicts and delivery after any single failure (250k states) |
| `US` | 4 requests, 2 wallets, capacity 2 and 2, fairness, deadlock checked | `TypeOK`, `SlotsConserved`, `NoOvertaking`, `QueuesExact`, `CountersExact`, `WaitEnds` | the limiter neither leaks nor wedges |
| `AP` | 1 account, 2 delegates, 2 roots, 1 node, 2 rotations, 1 blob | `AuthorityInv` (of which `TypeOK` is a part), `RevocationBites`, `FrozenIsUnreadable`, `SnapshotExact`, `ImportsNeverStuck`, `WithdrawalRotates` | revocation bites in spite of lag; a migration can be completed (1.3M states) |
| `SD` | 2 blobs on 2 pages, 2 batches, 1 reconciler or the resolver, 1 outside change | `TypeOK`, `ClaimsExact`, `TxCoversClaims`, `TerminalIsTrue`, `UnclaimedNotOwnerConfirmed`, `ResolvedIsFinal`, `ImplementsDeletionLedger` | handlers, replay, reconciler, sweep, resolver and trigger keep rows, batches and chain in agreement (1.7M states) |
| `OA` | 2 clients, 2 sessions, 2 accounts, 4 requests, 3 owner actions | `TypeOK`, `GrantConsented`, `ConsentOnce`, `OneRefreshPerGrant`, `RevokedStaysDead`, `ImplementsConnections` | consent, exchange, rotation, revocation and pruning in any order (460k states) |
| `RP_restart`, `RP_wallet`, `RP_final`, `RP_fenced`, `SD_scan` | small | one property each, violated | the five disagreements below |

Bounds. Two workers are what it takes for attempts to overlap, two preparations for
ciphertexts to disagree, two transactions for a second payment, two wallets for a rotation
to matter; one crash or fault reaches every window once and two reach a failed recovery. A
third of each adds no new pair of actors; the proofs remove the bounds for the safety
properties. Liveness needs `Txs` larger than the crashes and faults that can waste a signed
transaction: `RP_live` has two transactions and `MaxFailures` = 1, one crash or one fault. Accounts of the contract share nothing but the import counters, so one owner
shows the protocol; two roots of which one has no delegates make a stale cap visible, two
rotations a key that is two counters old. The totals that can be declared include the exact
ones of both roots, and a key list is full when both delegates are imported. Deadlock is not checked for `AP`, where the bound
on rotations stops it, nor for the pipeline: a finished or failed row is the end
of it.

For `SD`, the second batch is the one that claims what the first released while a party
still holds verdicts about it; two blobs on two pages, one of them inserted during the run,
are what the fence and the cursor are about; one outside change (object, failed transaction,
epoch, upgrade or expiry) is enough for a verdict to be stale. `ActiveCap` is 2, so that
both batches may be live at once; the default is 16 (`src/types.rs:491`). The run enables either the
reconciler or the resolver beside the handlers; the proofs have no such limit. For `OA`,
four requests are a completion, an exchange and two more that overlap, for instance a
rotation with a revocation or with another rotation. Requests and batches are used once, so
both runs come to an end and deadlock is not checked.

Fairness. `FairSpec` of the pipeline asks weakly that tokio runs tasks and handlers, that
calls return, that leases expire and that the minute sweep runs, strongly that Apalis
eventually hands out a pending entry, and that a client of a keyed write keeps retrying. No
fairness is put on faults, crashes or first requests. `RecordedIsDelivered` has one escape:
a recovery draws the next wallet of the pool, not the one that owns the blob
(`TransferWalletPinned` below), and nothing in the code makes it ever draw the right one, so
delivery is claimed unless transfers signed by the wrong wallet come up for ever. It also
supposes that the access counter is not rotated between sealing and transfer; the fence
would reject the blob for good. In `UploadSlots` resolved promises
continue and handlers end; timers are not counted on.

### Disagreements between the code and its own comments

* `RestartOnlyUnpaid`: the comment at `src/routes/remember.rs:704` allows a restart only of
  a failure "that never minted a paid blob". The test is `blob_id IS NULL`, which is also
  true while the journal is at `registered` or `uploaded`, that is, after the payment. The
  restarted job seals new bytes. At `registered` they never match the journal, so the job
  cannot finish; at `uploaded` what is left to do does not look at the bytes, and it finishes
  with the blob of the old ciphertext.
* `TransferWalletPinned`: `src/jobs.rs:6` and `:628` say the transfer uses the wallet of the
  upload. A resume uses the wallet of the current attempt.
* `DoneIsFinal`: `src/jobs.rs:199` guards against downgrading a finished row;
  the failure path of the handoff has no such guard. `DoneLostOnlyInHandoff` is what does
  hold: the failed push of a transfer or finalize job is the only step that does it.
* `RerunDelivers`: `src/jobs.rs:1503` says that a re-run resumes after the upload. The claim
  token is cleared when the mint is recorded, so the re-run is fenced off before that, and
  a write without a key is never delivered.
* `NotOwnerConfirmed`: `src/jobs_security_delete.rs:498` asks that a terminal state is never
  a guess. `complete_resolver_scan` gives up as `not_owner` every deletable row below the
  fence that has no object id. A row that was claimed while its page was listed is skipped by
  `set_object_ids`; released before the scan completes, it is given up although its owner
  holds the blob. `UnclaimedNotOwnerConfirmed` is what does hold.

One more, outside the models: `docs/api/security-delete.md:399` says that sponsor signatures
are "never returned or stored", while `begin_batch_execution`
(`src/storage/security_delete_store.rs:563`) stores the signatures of a batch for the replay.

## Proofs

TLAPS proves, for every value of the constants under the named assumptions of the modules
(pool and attempts positive, `None` different from everything else, a finite set of
requests, `"global"` not a wallet key, finite sets of owners and delegates, manifests that
are relations between roots and owners, finite sets of blobs and batches, batches that are
not reconcilers, every blob on a page):

* `RememberPipelineProofs`: `Invariance`, `TypeCorrect`, `PaidAtMostOnce`,
  `NoPaidBlobLost`, `DoneMeansDelivered`, `IndexedMeansDelivered`, `JournalOnlyForward`,
  `MintRecordKept`, `DoneLostToFailedPushOnly`, `Refinement`.
* `UploadSlotsProofs`: `SlotInvariance`, `SlotsAreConserved`, `NoWakeUpIsLost`,
  `QueuesStayExact`, `CountersStayExact`, `TypeCorrect`, `LimitsHold`.
* `AccountPolicyProofs`: `Authority`, `Types`, `Revocation`, `Frozen`, `Withdrawal`.
* `AccountMigrationProofs`: `Snapshot`, `NeverStuck`.
* `SecurityDeleteProofs`: `Inductive`, `TypeCorrect`, `ClaimsCorrect`, `CoversCorrect`,
  `TerminalCorrect`, `UnclaimedCorrect`, `ResolvedFinal`, `LedgerRefined`.
* `OAuthBridgeProofs`: `Inductive`, `TypeCorrect`, `ConsentCorrect`, `OnceCorrect`,
  `RefreshCorrect`, `RevokedDead`.
* `OAuthBridgeRefinement`: `ConnectionsRefined`.

The argument for the pipeline. "At most one payment" is not inductive: it depends on what
is in the journal, in the workers' memory, and in flight. `IndInv` says that

* `LockInv`: only the lock holder is between loading the journal and releasing the lock;
* `JournalInv`: the holder's in-memory journal is the durable one while it calls and one
  step ahead while it holds an answer, and a freshly signed transaction is unsubmitted until
  the journal names it;
* `ChainInv`: whatever was submitted, or is in flight, is named by the durable journal;
* `JobsInv`, `RowInv`: every transfer or finalize job, and the row's recorded mint, name the
  journaled, certified blob; the index follows the transfer, `done` follows the index;
* `UnpaidInv`: an upload runs only while no mint is recorded, and a bulk preparation is the
  first thing that happens to its row.

A journal names one transaction and never lets go of one that may have been submitted, so
two payments would be named by one journal. Type correctness is proved first and apart;
each part of the invariant then has one lemma per action it depends on, and the refinement
is read off the same invariant, with each action mapped to `Charge`, `Deliver`, `Finish`,
`Withdraw` or a stutter.

`DoneLostToFailedPushOnly` is what `UnpaidInv` is for. Two statements write the status without
looking at it and yet cannot hit a finished row: `persist_uploaded_state`, because nobody is
inside an upload once a mint is recorded (recording needs the lock, delivering needs a recorded
mint), and the bulk route's `mark_remember_jobs_failed`, because nothing was queued for the row
while its preparation is alive. The third, the failed push, has no such argument and is the
exception the property names.

For the limiter, conservation needs the queues to be exact (a woken waiter really waits)
and free slots to imply empty queues (how many are woken); the three are proved together.

For the contract, `RevocationBites` speaks of keys already handed out and says nothing of
the ones a lagging node can still hand out. `AuthorityInv` adds that a node at the account's
counter missed no withdrawal (`ViewInv`), that keys of the current counter are held by
current readers (`HeldInv`), and that whoever is listed, on chain or in a view that reaches
a blob's counter, is among its readers (`StoredInv`). The calls then fall into two classes,
one lemma each: those that withdraw access rotate (`RotateStep`), those that keep the counter
only add readers (`GrowStep`); `WithdrawalRotates` is that classification. `SnapshotExact`
is inductive beside it: a root is replaced only while nothing was imported. `NeverStuck`
follows from it by counting. What is on chain is a part of the manifest, so if a counter
is short of the declared total some leaf is missing; its account is a legacy one
(`LegacyInv`: nothing but imports makes accounts before the end), and its key list, without
duplicates and made of leaves of its owner only, is short of them and so within the limit.
`HonestManifest` is the assumption: totals as the manifest has them, delegates of listed
accounts, no account above the limit. That every import raises a counter and nothing lowers
one is read off the actions.

For security delete, what a party does with a verdict is right only if the verdict is still
true when it is used. `IndInv` of `SecurityDeleteProofs` therefore speaks of what parties
hold in memory: `JobShape` and `BatchShape` say what stands at each point of a handler,
`PlansTrue` that every eviction decided on is still true of the chain (objects only ever
leave the owner), `EffectsTrue` that after a success every input of the transaction is gone,
`PreparationCovers` that what was read healthy and what is to be evicted are together all
that the batch holds, and `ScanTrue` that a row below the fence on a page already listed is
known, was claimed, or is not the owner's. With them `ClaimsExact`, `TxCoversClaims`,
`TerminalIsTrue` and `UnclaimedNotOwnerConfirmed` are inductive. The table steps fall into a
few classes (claim, resolve, evict, learn an id, give up), each with one lemma that every
action doing that step cites.

`LedgerRefined` reads each of these classes as a step of `DeletionLedger`: a claim is `Claim`,
an eviction `Drop`, a resolution `Complete` or `Release`, giving up and the sweep `Close`, the
trigger `Track`, a successful transaction `Execute`, anything else on chain `World`; what
handlers read and remember is a stutter. `Scope` maps to the lineage, claims that ended
included. `IndInv` says that a transaction covers what its batch holds; `Execute` also needs the
converse, that it holds nothing the batch never claimed. That is `ScopeTrue`, of the stored
inputs and of what the preparing handler has read, and it is kept because lineage rows are
never deleted (`MembersStay`). `Complete` needs `EffectsTrue`: the inputs of a successful
transaction are gone, so no blob of a completed batch is still the owner's.

For the OAuth bridge, `GrantConsented` and `ConsentOnce` are about grant rows, but a consent
travels from the session through a handler's locals and the code row to the grant. `IndInv`
of `OAuthBridgeProofs` follows it: `HeldOver` says that whatever carries a consent belongs to
a session that is over, `HeldOnce` that only one place carries it, `ConsentTrue` that it is
what the owner signed at every place. `OneRefreshPerGrant` needs `LocksTrue`: a rotation
that holds a token row is the only one, and the row is live until it commits.

`ConnectionsRefined` maps a grant that is not revoked to a connection, and calls a session
spent when its consent is neither pending nor carried by anything. Inserting the grant is
`Connect`, expiry, cancellation, lost handlers, revocation and pruning are `End`, issuing and
rotating tokens and everything else that changes whether a request is accepted is `Serve`.
`HeldOnce` gives that a session connects once. Two facts about the middle of a transaction come
on top: the tokens in the snapshot of a revocation are of the grant it revokes, although
rotations, pruning and cascades run in between (`FoundTrue`), and a session that was not opened
has no client (`Unopened`).

Only model-checked: liveness (`StatusSettles`, `RecordedIsDelivered`, `WaitEnds`), since
fairness and `ENABLED` are out of the prover's reach. The properties of the violation runs
are false and are not proved.

## Not modelled

* Loss of the lock's database connection while its holder lives.
* Jobs without a `remember_jobs` row (the legacy one-shot upload) and `ResumeIndex`, which
  needs a recorded blob without an object id: the durable path always records both.
* Requeueing on limiter congestion: it is reached only by jobs without a `remember_jobs`
  row (`src/jobs.rs:1790`). A tracked job takes the durable branch, where congestion is a
  retryable error that spends an attempt, unlike the comment at `src/jobs.rs:281` says.
* Quota, rate limits, authentication: no influence on a row once it is accepted.
* Of security delete: wallet authentication, listing, the execution gate, rows written before
  signatures were stored. Of the OAuth bridge: registration limits, metadata documents,
  token lifetimes, the encryption of delegate keys.
* Engines, model services, recall, SDKs, plugins, indexer and applications (most of the
  repository's lines): request/response code without protocol state, user interface, or
  calls to services whose answers no property here tells apart.
* Contents: embedding, sealing, encoding, metadata attributes.

## Plan

1. `RateLimit` for the three windows and the quota, with concurrent requests.
2. The nonce replay window of `src/auth.rs`.
3. A `LockLost` action in the pipeline and what still holds with it.
4. Liveness of security delete: with a fair reconciler no row stays `deleting`.

--------------------------- MODULE RememberPipeline ---------------------------
(***************************************************************************)
(* The asynchronous write pipeline of the relayer, for one remember_jobs   *)
(* row: request handlers and preparation tasks (routes/remember.rs), the   *)
(* wallet job queue and its workers (jobs.rs), the durable upload journal  *)
(* and the sidecar route that advances it (walrus-upload-journal.ts), and  *)
(* the chain that is charged for the blob.                                 *)
(*                                                                         *)
(* Rows are independent: the advisory lock, the claims and the journal are *)
(* all keyed by the job id, so one row with every actor that can touch it  *)
(* is the whole protocol.  Each SQL statement is one step; statements that *)
(* run under the upload lock with nothing observable between them are one  *)
(* step.  A ciphertext is named by the preparation that produced it        *)
(* (sealing is randomised), a Blob object by the transaction that          *)
(* registered it.                                                          *)
(***************************************************************************)
EXTENDS Integers, FiniteSets

CONSTANTS
    Workers,      \* concurrent wallet-queue handlers (WALLET_JOB_CONCURRENCY)
    Slots,        \* bound: queue entries alive at once
    Tokens,       \* bound: preparation claims, hence ciphertexts
    RecTokens,    \* bound: paid-recovery claims in use at once
    Txs,          \* bound: register transactions ever signed
    PoolSize,     \* server wallets
    MAX_ATTEMPTS, \* Apalis attempts of one wallet job
    MaxCrashes,   \* bound: crashes of the server process
    MaxFaults,    \* bound: failed calls and failed statements
    MaxFailures,  \* bound: crashes and faults together
    Kinds,        \* kinds of request explored: "keyed", "plain", "bulk"
    None          \* NULL

ASSUME PoolAssumption == PoolSize \in Nat \ {0} /\ MAX_ATTEMPTS \in Nat \ {0}
ASSUME BoundAssumption == /\ MaxCrashes \in Nat /\ MaxFaults \in Nat
                          /\ MaxFailures \in Nat
ASSUME KindAssumption == Kinds \subseteq {"keyed", "plain", "bulk"}
ASSUME NoneAssumption ==
    None \notin Workers \cup Slots \cup Tokens \cup RecTokens \cup Txs \cup Nat

VARIABLES
    kind,      \* how the row was requested
    row,       \* the remember_jobs row
    journal,   \* its upload journal columns
    fresh,     \* the handler that inserted the row has not claimed it yet
    prep,      \* spawned preparation tasks
    recovery,  \* handlers inside the paid-recovery branch
    queue,     \* apalis_jobs
    wk,        \* wallet-queue workers
    lock,      \* holder of the per-job advisory lock
    chain,     \* register transactions and the Blob objects they create
    orphans,   \* sidecar requests whose caller has gone
    index,     \* blob_id of the row's vector_entries record
    issued,    \* preparation tokens handed out
    crashes, faults

serverVars == <<fresh, prep, recovery, wk, lock>>
vars == <<kind, row, journal, fresh, prep, recovery, queue, wk, lock, chain,
          orphans, index, issued, crashes, faults>>

Statuses == {"none", "pending", "running", "uploaded", "done", "failed"}
Wallets == 0 .. PoolSize - 1
OrNone(S) == S \cup {None}

\* The columns of remember_jobs that decide anything.  leased / recLeased say
\* that the claim timestamp is set and younger than PREPARE_CLAIM_TTL_SECS.
Row == [status : Statuses, blob : OrNone(Tokens), obj : OrNone(Txs),
        token : OrNone(Tokens), leased : BOOLEAN,
        recToken : OrNone(RecTokens), recLeased : BOOLEAN,
        prepared : OrNone(Tokens)]

\* UploadJournal: the pinned wallet, the resume step with its blob id (ct) and
\* Blob object (obj), and the signed register transaction (tx).
Steps == {"start", "encoded", "registered", "uploaded", "certified"}
Journal == [wallet : OrNone(Wallets), step : Steps, ct : OrNone(Tokens),
            tx : OrNone(Txs), obj : OrNone(Txs)]

\* WalletJob and BulkRememberJob payloads.
Ops == {"bulk", "upload", "transfer", "finalize"}
Job == [op : Ops, wallet : Wallets, token : OrNone(Tokens), ct : Tokens,
        blob : OrNone(Tokens), obj : OrNone(Txs)]
ASSUME NoneIsNoJob == None \notin Job
Entry == [st : {"Pending", "Running", "Done"}, attempts : Nat,
          job : OrNone(Job)]

PrepTask == [token : OrNone(Tokens), ct : Tokens, stage : {"encrypt", "persisted"}]
RecTask == [token : RecTokens, stage : {"claimed", "enqueued"}]

PCs == {"idle", "lock", "call", "answer", "certified", "handoff", "transfer",
        "index", "rescue", "fanout", "ack"}
Worker == [pc : PCs, slot : OrNone(Slots), job : OrNone(Job), attempt : Nat,
           journal : Journal, result : {"ok", "error", "abort"}]

TxState == [st : {"none", "signed", "ok", "failed"}, ct : OrNone(Tokens),
            wallet : OrNone(Wallets), certified : BOOLEAN,
            owner : {"none", "wallet", "user"}]
Orphan == [req : {"register", "certify", "transfer"}, tx : Txs,
           wallet : Wallets]

NoJournal == [wallet |-> None, step |-> "start", ct |-> None, tx |-> None,
              obj |-> None]
IdleWorker == [pc |-> "idle", slot |-> None, job |-> None, attempt |-> 0,
               journal |-> NoJournal, result |-> "ok"]
DoneEntry == [st |-> "Done", attempts |-> 0, job |-> None]
NoTx == [st |-> "none", ct |-> None, wallet |-> None, certified |-> FALSE,
         owner |-> "none"]

Init ==
    /\ kind \in Kinds
    /\ row = [status |-> "none", blob |-> None, obj |-> None, token |-> None,
              leased |-> FALSE, recToken |-> None, recLeased |-> FALSE,
              prepared |-> None]
    /\ journal = NoJournal
    /\ fresh = FALSE
    /\ prep = {} /\ recovery = {}
    /\ queue = [q \in Slots |-> DoneEntry]
    /\ wk = [w \in Workers |-> IdleWorker]
    /\ lock = None
    /\ chain = [t \in Txs |-> NoTx]
    /\ orphans = {}
    /\ index = None
    /\ issued = {}
    /\ crashes = 0 /\ faults = 0

-------------------------------------------------------------------------------
(* Helpers.                                                                *)

\* A call or a statement fails: the environment spends one of its faults.
Fault ==
    /\ faults < MaxFaults /\ crashes + faults < MaxFailures
    /\ faults' = faults + 1
NoFault == faults' = faults

\* A queue slot no entry and no running handler uses any more.
FreeSlot(q) == /\ queue[q].st = "Done"
               /\ \A w \in Workers : wk[w].slot # q

\* Bound: requests leave enough free slots for the pushes of the workers (one,
\* and one for every crash that can strand an entry), so that a full queue
\* never blocks the jobs that would empty it.
RequestSlot(q) ==
    /\ FreeSlot(q)
    /\ Cardinality({other \in Slots : FreeSlot(other)}) > 1 + MaxCrashes - crashes

\* push_request: a new entry, first attempt not yet started.
Pushed(q, job) == [queue EXCEPT ![q] = [st |-> "Pending", attempts |-> 0,
                                        job |-> job]]

UploadJob(wallet, token, ct) ==
    [op |-> "upload", wallet |-> wallet, token |-> token, ct |-> ct,
     blob |-> None, obj |-> None]

\* Mutant: the walk does not wrap around.
WalletForAttemptNoWrap(start, attempt) == start + (attempt - 1)

\* wallet_index_for_upload_attempt: attempts walk the pool from the start wallet.
WalletForAttempt(start, attempt) == (start + (attempt - 1)) % PoolSize

\* The guard of claim_remember_preparation's UPDATE.
PreparationClaimable(r) ==
    /\ r.blob = None
    /\ r.status \in {"pending", "failed"}
    /\ ~r.leased

\* Mutant: a failed row with a paid blob is not recovered.
RecoveryClaimableUploadedOnly(r) ==
    r.blob # None /\ r.status = "uploaded" /\ ~r.recLeased

\* The guard of claim_paid_recovery's UPDATE.
RecoveryClaimable(r) ==
    /\ r.blob # None
    /\ r.status \in {"failed", "uploaded"}
    /\ ~r.recLeased

\* Mutant: only a recorded mint is protected from a late error.
AfterWalletErrorUploadedOnly(r, result) ==
    IF r.status = "uploaded" THEN r
    ELSE [r EXCEPT !.status = IF result = "abort" THEN "failed" ELSE "running"]

\* update_remember_job_after_wallet_error: never downgrades uploaded or done.
AfterWalletError(r, result) ==
    IF r.status \in {"uploaded", "done"} THEN r
    ELSE [r EXCEPT !.status = IF result = "abort" THEN "failed" ELSE "running"]

\* mark_remember_job_failed of jobs.rs: unconditional.
MarkFailed(r) == [r EXCEPT !.status = "failed"]

\* A worker returns from its handler; what Apalis does with it is Ack.
Return(w, result) == [wk EXCEPT ![w].pc = "ack", ![w].result = result]

-------------------------------------------------------------------------------
(* Request handlers and preparation (routes/remember.rs).                  *)

\* remember: INSERT ... 'pending'; the handler still has to claim the row.
InsertRow ==
    /\ kind # "bulk" /\ row.status = "none"
    /\ row' = [row EXCEPT !.status = "pending"]
    /\ fresh' = TRUE
    /\ NoFault
    /\ UNCHANGED <<kind, journal, prep, recovery, queue, wk, lock, chain, orphans,
                   index, issued, crashes>>

\* remember_bulk: INSERT ... 'pending', and the preparation is spawned without
\* a claim.
InsertBulkRow ==
    /\ kind = "bulk" /\ row.status = "none"
    /\ row' = [row EXCEPT !.status = "pending"]
    /\ \E ct \in Tokens \ issued :
         /\ prep' = prep \cup {[token |-> None, ct |-> ct, stage |-> "encrypt"]}
         /\ issued' = issued \cup {ct}
    /\ NoFault
    /\ UNCHANGED <<kind, journal, fresh, recovery, queue, wk, lock, chain,
                   orphans, index, crashes>>

\* Mutant: a restart begins with an empty journal.
ClaimPreparationResetsJournal ==
    /\ PreparationClaimable(row)
    /\ \E token \in Tokens \ issued :
         /\ row' = [row EXCEPT !.token = token, !.leased = TRUE,
                               !.status = "pending"]
         /\ prep' = prep \cup {[token |-> token, ct |-> token,
                                stage |-> "encrypt"]}
         /\ issued' = issued \cup {token}
    /\ journal' = NoJournal
    /\ NoFault
    /\ UNCHANGED <<kind, recovery, queue, wk, lock, chain, orphans, index,
                   crashes>>

\* Mutant: a restart clears whatever an earlier attempt recorded.
ClaimPreparationDiscardsMint ==
    /\ row.status \in {"pending", "failed"} /\ ~row.leased
    /\ \E token \in Tokens \ issued :
         /\ row' = [row EXCEPT !.token = token, !.leased = TRUE,
                               !.status = "pending", !.blob = None, !.obj = None]
         /\ prep' = prep \cup {[token |-> token, ct |-> token,
                                stage |-> "encrypt"]}
         /\ issued' = issued \cup {token}
    /\ NoFault
    /\ UNCHANGED <<kind, journal, recovery, queue, wk, lock, chain, orphans,
                   index, crashes>>

\* claim_remember_preparation succeeds and the preparation task is spawned.
\* The journal columns are not touched.
ClaimPreparation ==
    /\ PreparationClaimable(row)
    /\ \E token \in Tokens \ issued :
         /\ row' = [row EXCEPT !.token = token, !.leased = TRUE,
                               !.status = "pending"]
         /\ prep' = prep \cup {[token |-> token, ct |-> token,
                                stage |-> "encrypt"]}
         /\ issued' = issued \cup {token}
    /\ NoFault
    /\ UNCHANGED <<kind, journal, recovery, queue, wk, lock, chain, orphans,
                   index, crashes>>

\* The inserting handler claims its own row, or answers 500 when a same-key
\* request has claimed it in between or the statement fails.
ClaimInserted ==
    /\ fresh /\ fresh' = FALSE
    /\ \/ ClaimPreparation
       \/ /\ (~PreparationClaimable(row) /\ NoFault) \/ Fault
          /\ UNCHANGED <<kind, row, journal, prep, recovery, queue, wk, lock,
                         chain, orphans, index, issued, crashes>>

\* A same-key retry that finds a row without a paid blob.
RetryUnpaid ==
    /\ kind = "keyed" /\ row.status # "none"
    /\ UNCHANGED fresh
    /\ ClaimPreparation

\* A same-key retry that finds a paid blob: claim first ...
RetryPaid ==
    /\ kind = "keyed"
    /\ RecoveryClaimable(row)
    /\ \E token \in RecTokens :
         /\ \A h \in recovery : h.token # token
         /\ row' = [row EXCEPT !.recToken = token, !.recLeased = TRUE]
         /\ recovery' = recovery \cup {[token |-> token, stage |-> "claimed"]}
    /\ NoFault
    /\ UNCHANGED <<kind, journal, fresh, prep, queue, wk, lock, chain, orphans,
                   index, issued, crashes>>

\* ... enqueue second, with the persisted payload, the next wallet of the pool
\* and no fencing token (enqueue_persisted_paid_recovery) ...
EnqueueRecovery(h) ==
    /\ h \in recovery /\ h.stage = "claimed"
    /\ \/ /\ row.prepared # None
          /\ \E q \in Slots, wallet \in Wallets :
               /\ RequestSlot(q)
               /\ queue' = Pushed(q, UploadJob(wallet, None, row.prepared))
          /\ recovery' = (recovery \ {h}) \cup {[h EXCEPT !.stage = "enqueued"]}
          /\ NoFault
       \/ /\ recovery' = recovery \ {h}
          /\ Fault
          /\ UNCHANGED queue
    /\ UNCHANGED <<kind, row, journal, fresh, prep, wk, lock, chain, orphans,
                   index, issued, crashes>>

\* ... and publish 'uploaded' last, fenced by the recovery token, unless the
\* statement fails.
PublishRecovery(h) ==
    /\ h \in recovery /\ h.stage = "enqueued"
    /\ \/ /\ row' = IF /\ row.recToken = h.token /\ row.blob # None
                       /\ row.status \in {"failed", "uploaded"}
                    THEN [row EXCEPT !.status = "uploaded"] ELSE row
          /\ NoFault
       \/ UNCHANGED row /\ Fault
    /\ recovery' = recovery \ {h}
    /\ UNCHANGED <<kind, journal, fresh, prep, queue, wk, lock, chain, orphans,
                   index, issued, crashes>>

\* spawn_prepare_remember_job: the sealed payload is persisted under the claim
\* token; a task that lost its claim stops.
PersistPreparation(p) ==
    /\ p \in prep /\ p.stage = "encrypt" /\ p.token # None
    /\ IF row.token = p.token
       THEN /\ row' = [row EXCEPT !.prepared = p.ct]
            /\ prep' = (prep \ {p}) \cup {[p EXCEPT !.stage = "persisted"]}
       ELSE prep' = prep \ {p} /\ UNCHANGED row
    /\ NoFault
    /\ UNCHANGED <<kind, journal, fresh, recovery, queue, wk, lock, chain,
                   orphans, index, issued, crashes>>

\* The wallet job is pushed with the claim token and the next wallet of the pool.
EnqueuePrepared(p) ==
    /\ p \in prep /\ p.stage = "persisted"
    /\ \E q \in Slots, wallet \in Wallets :
         RequestSlot(q) /\ queue' = Pushed(q, UploadJob(wallet, p.token, p.ct))
    /\ prep' = prep \ {p}
    /\ NoFault
    /\ UNCHANGED <<kind, row, journal, fresh, recovery, wk, lock, chain, orphans,
                   index, issued, crashes>>

\* spawn_prepare_bulk_remember_job: nothing is persisted or claimed, the sealed
\* items go into one fan-out job.
EnqueueBulk(p) ==
    /\ p \in prep /\ p.token = None
    /\ \E q \in Slots, wallet \in Wallets :
         /\ RequestSlot(q)
         /\ queue' = Pushed(q, [UploadJob(wallet, None, p.ct) EXCEPT !.op = "bulk"])
    /\ prep' = prep \ {p}
    /\ NoFault
    /\ UNCHANGED <<kind, row, journal, fresh, recovery, wk, lock, chain, orphans,
                   index, issued, crashes>>

\* Embedding, sealing, the quota or the push fails: mark_remember_job_failed of
\* remember.rs, fenced by the token ...
PreparationFails(p) ==
    /\ p \in prep /\ p.token # None
    /\ Fault
    /\ prep' = prep \ {p}
    /\ row' = IF row.token = p.token /\ row.status \notin {"done", "uploaded"}
              THEN MarkFailed(row) ELSE row
    /\ UNCHANGED <<kind, journal, fresh, recovery, queue, wk, lock, chain,
                   orphans, index, issued, crashes>>

\* ... and mark_remember_jobs_failed on the bulk route, unconditional.
BulkPreparationFails(p) ==
    /\ p \in prep /\ p.token = None
    /\ Fault
    /\ prep' = prep \ {p}
    /\ row' = MarkFailed(row)
    /\ UNCHANGED <<kind, journal, fresh, recovery, queue, wk, lock, chain,
                   orphans, index, issued, crashes>>

\* A lease outlives its TTL.
LeaseExpires ==
    /\ row.leased \/ row.recLeased
    /\ \/ row' = [row EXCEPT !.leased = FALSE]
       \/ row' = [row EXCEPT !.recLeased = FALSE]
    /\ row' # row
    /\ NoFault
    /\ UNCHANGED <<kind, journal, fresh, prep, recovery, queue, wk, lock, chain,
                   orphans, index, issued, crashes>>


-------------------------------------------------------------------------------
(* The wallet queue and its workers (jobs.rs).                             *)

\* Mutant: a transfer job goes straight to indexing.
EntryPointSkipsTransfer(job) ==
    CASE job.op = "bulk" -> "fanout"
      [] job.op = "upload" ->
           IF job.token # None /\ row.token # job.token THEN "ack" ELSE "lock"
      [] OTHER -> "index"

\* Where execute_wallet_job starts for each operation; an upload whose fencing
\* token is no longer the row's returns Ok before touching anything.
EntryPoint(job) ==
    CASE job.op = "bulk" -> "fanout"
      [] job.op = "upload" ->
           IF job.token # None /\ row.token # job.token THEN "ack" ELSE "lock"
      [] job.op = "transfer" -> "transfer"
      [] OTHER -> "index"

\* Apalis hands an entry to a worker: a pending one, or one still Running whose
\* worker it believes dead (orphan re-enqueue).
Dispatch(w, q) ==
    /\ wk[w].pc = "idle"
    /\ queue[q].st \in {"Pending", "Running"}
    /\ queue' = [queue EXCEPT ![q].st = "Running"]
    /\ wk' = [wk EXCEPT ![w] = [pc |-> EntryPoint(queue[q].job), slot |-> q,
                                job |-> queue[q].job,
                                attempt |-> queue[q].attempts + 1,
                                journal |-> NoJournal, result |-> "ok"]]
    /\ NoFault
    /\ UNCHANGED <<kind, row, journal, fresh, prep, recovery, lock, chain,
                   orphans, index, issued, crashes>>

\* The handler's result reaches Apalis: retried while attempts remain, else dead.
Ack(w) ==
    /\ wk[w].pc = "ack"
    /\ queue' = [queue EXCEPT ![wk[w].slot] =
                   IF wk[w].result = "error" /\ wk[w].attempt < MAX_ATTEMPTS
                   THEN [st |-> "Pending", attempts |-> wk[w].attempt,
                         job |-> wk[w].job]
                   ELSE DoneEntry]
    /\ wk' = [wk EXCEPT ![w] = IdleWorker]
    /\ NoFault
    /\ UNCHANGED <<kind, row, journal, fresh, prep, recovery, lock, chain,
                   orphans, index, issued, crashes>>

\* execute_bulk_remember: one upload job per item, without a fencing token.
FanOut(w) ==
    /\ wk[w].pc = "fanout"
    /\ \/ /\ \E q \in Slots :
               /\ FreeSlot(q)
               /\ queue' = Pushed(q, [wk[w].job EXCEPT !.op = "upload"])
          /\ wk' = Return(w, "ok")
          /\ NoFault
       \/ Fault /\ wk' = Return(w, "error") /\ UNCHANGED queue
    /\ UNCHANGED <<kind, row, journal, fresh, prep, recovery, lock, chain,
                   orphans, index, issued, crashes>>

\* LockOutcome::Defer: another attempt holds the lock, or the lock pool is
\* unreachable.
DeferUpload(w) ==
    /\ wk[w].pc = "lock"
    /\ IF lock # None THEN NoFault ELSE Fault
    /\ row' = AfterWalletError(row, "error")
    /\ wk' = Return(w, "error")
    /\ UNCHANGED <<kind, journal, fresh, prep, recovery, queue, lock, chain,
                   orphans, index, issued, crashes>>

\* The guard of consume_preparation_claim's UPDATE.
ClaimConsumable(r, token) ==
    /\ r.token = token /\ r.blob = None
    /\ r.status \in {"pending", "running"}

\* Mutant: the lock is not looked at.
LockAlwaysFree == TRUE

\* Whether the per-job advisory lock can be had.
LockFree == lock = None

\* Under the lock: consume the claim, then the idempotency guard
\* (upload_resume_disposition) decides between nothing, resuming, uploading.
StartUpload(w) ==
    LET job == wk[w].job
        wallet == WalletForAttempt(job.wallet, wk[w].attempt)
        claimed == IF job.token = None THEN row
                   ELSE [row EXCEPT !.status = "running", !.leased = FALSE]
    IN
    /\ wk[w].pc = "lock" /\ LockFree
    /\ \/ \* fenced inside the lock, or AlreadyDone
          /\ \/ job.token # None /\ ~ClaimConsumable(row, job.token)
             \/ job.token = None /\ row.status = "done"
          /\ wk' = Return(w, "ok")
          /\ UNCHANGED <<row, lock>>
       \/ \* ResumeTransfer: a paid blob is recorded
          /\ job.token = None /\ row.blob # None /\ row.status # "done"
          /\ lock' = w
          /\ wk' = [wk EXCEPT ![w].pc = "handoff",
                             ![w].journal = [wallet |-> wallet, step |-> "certified",
                                             ct |-> row.blob, tx |-> None,
                                             obj |-> row.obj]]
          /\ UNCHANGED row
       \/ \* Upload: mark running and load the journal
          /\ job.token # None => ClaimConsumable(row, job.token)
          /\ row.blob = None
          /\ lock' = w
          /\ row' = [claimed EXCEPT !.status = "running"]
          /\ wk' = [wk EXCEPT ![w].pc = "call",
                             ![w].journal = [journal EXCEPT
                                !.wallet = IF @ = None THEN wallet ELSE @]]
    /\ NoFault
    /\ UNCHANGED <<kind, journal, fresh, prep, recovery, queue, chain, orphans,
                   index, issued, crashes>>

\* UploadResume::Indeterminate or a failed claim statement: retried, row untouched.
StartUploadFails(w) ==
    /\ wk[w].pc = "lock" /\ LockFree
    /\ Fault
    /\ wk' = Return(w, "error")
    /\ UNCHANGED <<kind, row, journal, fresh, prep, recovery, queue, lock, chain,
                   orphans, index, issued, crashes>>


-------------------------------------------------------------------------------
(* The sidecar (walrus-upload-journal.ts) and the chain.                   *)

\* What the chain does with a submitted register transaction: the first
\* submission settles it, a digest already on chain is only looked up.
\* "failed" stands for finalized-as-failed and for expired-unsubmitted alike.
RegisterEffects(c, t) ==
    IF c[t].st # "signed" THEN {c}
    ELSE {[c EXCEPT ![t].st = "ok", ![t].owner = "wallet"],
          [c EXCEPT ![t].st = "failed"]}

CertifyEffects(c, t) == {[c EXCEPT ![t].certified = TRUE]}

\* set-metadata-batch: one transaction signed by keyIndex, valid only while
\* that wallet owns the Blob object.
TransferValid(c, t, wallet) == c[t].owner = "wallet" /\ c[t].wallet = wallet
\* Mutant: the batch answers success for a chunk it dropped.
TransferEffectsDropped(c, t, wallet) == {c}

TransferEffects(c, t, wallet) ==
    IF TransferValid(c, t, wallet) THEN {[c EXCEPT ![t].owner = "user"]} ELSE {c}

\* The step of the upload route the worker's journal asks for.
InCall(w, step) == wk[w].pc = "call" /\ wk[w].journal.step = step

\* flow.encode() of the Walrus SDK accepts only the bytes the step was made of.
DataMatches(w) == wk[w].job.ct = wk[w].journal.ct

Answer(w, j) == [wk EXCEPT ![w].pc = "answer", ![w].journal = j]

SidecarEncode(w) ==
    /\ InCall(w, "start")
    /\ wk' = Answer(w, [wk[w].journal EXCEPT !.step = "encoded",
                                            !.ct = wk[w].job.ct])
    /\ NoFault
    /\ UNCHANGED <<kind, row, journal, fresh, prep, recovery, queue, lock, chain,
                   orphans, index, issued, crashes>>

\* Sign, do not submit: the prepared transaction goes back to be journaled.
SidecarPrepare(w) ==
    /\ InCall(w, "encoded") /\ wk[w].journal.tx = None /\ DataMatches(w)
    /\ \E t \in Txs :
         /\ chain[t].st = "none"
         /\ chain' = [chain EXCEPT ![t] = [NoTx EXCEPT !.st = "signed",
                          !.ct = wk[w].journal.ct, !.wallet = wk[w].journal.wallet]]
         /\ wk' = Answer(w, [wk[w].journal EXCEPT !.tx = t])
    /\ NoFault
    /\ UNCHANGED <<kind, row, journal, fresh, prep, recovery, queue, lock,
                   orphans, index, issued, crashes>>

\* executePreparedRegisterTransaction, then the created Blob is validated.  A
\* registered step consumes the prepared transaction.
SidecarRegister(w) ==
    LET t == wk[w].journal.tx IN
    /\ InCall(w, "encoded") /\ t # None /\ DataMatches(w)
    /\ chain' \in RegisterEffects(chain, t)
    /\ chain'[t].st = "ok"
    /\ wk' = Answer(w, [wk[w].journal EXCEPT !.step = "registered", !.tx = None,
                                            !.obj = t])
    /\ NoFault
    /\ UNCHANGED <<kind, row, journal, fresh, prep, recovery, queue, lock,
                   orphans, index, issued, crashes>>

\* Slivers go to the storage nodes, unless the blob is certified already.
SidecarUpload(w) ==
    LET j == wk[w].journal IN
    /\ InCall(w, "registered")
    /\ chain[j.obj].certified \/ DataMatches(w)
    /\ wk' = Answer(w, [j EXCEPT !.step = IF chain[j.obj].certified
                                         THEN "certified" ELSE "uploaded"])
    /\ NoFault
    /\ UNCHANGED <<kind, row, journal, fresh, prep, recovery, queue, lock, chain,
                   orphans, index, issued, crashes>>

\* The certificate is submitted unless the blob is certified already.  The
\* bytes of this request are not looked at.
SidecarCertify(w) ==
    LET j == wk[w].journal IN
    /\ InCall(w, "uploaded") \/ InCall(w, "certified")
    /\ chain' \in CertifyEffects(chain, j.obj)
    /\ wk' = Answer(w, [j EXCEPT !.step = "certified"])
    /\ NoFault
    /\ UNCHANGED <<kind, row, journal, fresh, prep, recovery, queue, lock,
                   orphans, index, issued, crashes>>

\* The request in flight can still change the chain when nobody waits for it.
InFlight(w) ==
    LET j == wk[w].journal IN
    CASE InCall(w, "encoded") /\ j.tx # None /\ DataMatches(w) ->
           {[req |-> "register", tx |-> j.tx, wallet |-> j.wallet]}
      [] InCall(w, "uploaded") ->
           {[req |-> "certify", tx |-> j.obj, wallet |-> j.wallet]}
      [] wk[w].pc = "transfer" ->
           {[req |-> "transfer", tx |-> wk[w].job.obj, wallet |-> wk[w].job.wallet]}
      [] OTHER -> {}

OrphanRuns(o) ==
    /\ o \in orphans
    /\ chain' \in CASE o.req = "register" -> RegisterEffects(chain, o.tx)
                    [] o.req = "certify" -> CertifyEffects(chain, o.tx)
                    [] o.req = "transfer" -> TransferEffects(chain, o.tx, o.wallet)
    /\ orphans' = orphans \ {o}
    /\ NoFault
    /\ UNCHANGED <<kind, row, journal, fresh, prep, recovery, queue, wk, lock,
                   index, issued, crashes>>

-------------------------------------------------------------------------------
(* execute_durable_upload around those calls.                              *)

\* The upload attempt ends in an error: the row is updated, the lock released.
AbandonUpload(w, result) ==
    /\ row' = AfterWalletError(row, result)
    /\ lock' = None
    /\ wk' = Return(w, result)

\* Bytes that do not match the journaled step, or a register transaction that
\* can no longer succeed: the route answers with an error every time.
CallRejected(w) ==
    /\ \/ InCall(w, "encoded") /\ ~DataMatches(w)
       \/ InCall(w, "encoded") /\ wk[w].journal.tx # None
             /\ chain[wk[w].journal.tx].st = "failed"
       \/ InCall(w, "registered") /\ ~DataMatches(w)
             /\ ~chain[wk[w].journal.obj].certified
    /\ \E result \in {"error", "abort"} : AbandonUpload(w, result)
    /\ NoFault
    /\ UNCHANGED <<kind, journal, fresh, prep, recovery, queue, chain, orphans,
                   index, issued, crashes>>

\* The submitted register transaction is finalized as failed, or has expired.
RegisterReverts(w) ==
    LET t == wk[w].journal.tx IN
    /\ InCall(w, "encoded") /\ t # None /\ DataMatches(w)
    /\ chain[t].st = "signed"
    /\ chain' = [chain EXCEPT ![t].st = "failed"]
    /\ Fault
    /\ \E result \in {"error", "abort"} : AbandonUpload(w, result)
    /\ UNCHANGED <<kind, journal, fresh, prep, recovery, queue, orphans, index,
                   issued, crashes>>

\* The call fails before any effect, or times out with the request still in
\* flight (SIDECAR_WALRUS_TIMEOUT).
CallFails(w) ==
    /\ wk[w].pc = "call"
    /\ Fault
    /\ \/ /\ \E result \in {"error", "abort"} : AbandonUpload(w, result)
          /\ UNCHANGED orphans
       \/ AbandonUpload(w, "error") /\ orphans' = orphans \cup InFlight(w)
    /\ UNCHANGED <<kind, journal, fresh, prep, recovery, queue, chain, index,
                   issued, crashes>>

\* Mutant: the signed transaction is only journaled once it was submitted.
PersistStepAfterSubmit(w) ==
    /\ wk[w].pc = "answer"
    /\ journal' = IF wk[w].journal.tx = None THEN wk[w].journal ELSE journal
    /\ wk' = [wk EXCEPT ![w].pc = IF wk[w].journal.step = "certified"
                                 THEN "certified" ELSE "call"]
    /\ NoFault
    /\ UNCHANGED <<kind, row, fresh, prep, recovery, queue, lock, chain, orphans,
                   index, issued, crashes>>

\* persist_upload_journal: each checkpoint is durable before the next call.
PersistStep(w) ==
    /\ wk[w].pc = "answer"
    /\ journal' = wk[w].journal
    /\ wk' = [wk EXCEPT ![w].pc = IF wk[w].journal.step = "certified"
                                 THEN "certified" ELSE "call"]
    /\ NoFault
    /\ UNCHANGED <<kind, row, fresh, prep, recovery, queue, lock, chain, orphans,
                   index, issued, crashes>>

\* Mutant: the row is reported done as soon as the mint is recorded.
PersistUploadedAsDone(w) ==
    /\ wk[w].pc = "certified"
    /\ row' = [row EXCEPT !.status = "done", !.blob = wk[w].journal.ct,
                          !.obj = wk[w].journal.obj, !.token = None,
                          !.leased = FALSE]
    /\ wk' = [wk EXCEPT ![w].pc = "handoff"]
    /\ NoFault
    /\ UNCHANGED <<kind, journal, fresh, prep, recovery, queue, lock, chain,
                   orphans, index, issued, crashes>>

\* persist_uploaded_state: the mint is recorded, the claim token dropped.
PersistUploaded(w) ==
    /\ wk[w].pc = "certified"
    /\ row' = [row EXCEPT !.status = "uploaded", !.blob = wk[w].journal.ct,
                          !.obj = wk[w].journal.obj, !.token = None,
                          !.leased = FALSE]
    /\ wk' = [wk EXCEPT ![w].pc = "handoff"]
    /\ NoFault
    /\ UNCHANGED <<kind, journal, fresh, prep, recovery, queue, lock, chain,
                   orphans, index, issued, crashes>>

\* Either statement fails.
PersistFails(w) ==
    /\ wk[w].pc \in {"answer", "certified"}
    /\ Fault
    /\ AbandonUpload(w, "error")
    /\ UNCHANGED <<kind, journal, fresh, prep, recovery, queue, chain, orphans,
                   index, issued, crashes>>

\* build_resume_transfer_job: the wallet is the caller's, the journaled one
\* after an upload and this attempt's one on a resume.
TransferJob(w) ==
    [op |-> "transfer", wallet |-> wk[w].journal.wallet, token |-> None,
     ct |-> wk[w].job.ct, blob |-> wk[w].journal.ct, obj |-> wk[w].journal.obj]

\* resume_metadata_and_transfer, and the end of the locked section.
Handoff(w) ==
    /\ wk[w].pc = "handoff"
    /\ \E q \in Slots : FreeSlot(q) /\ queue' = Pushed(q, TransferJob(w))
    /\ lock' = None
    /\ wk' = Return(w, "ok")
    /\ NoFault
    /\ UNCHANGED <<kind, row, journal, fresh, prep, recovery, chain, orphans,
                   index, issued, crashes>>

\* The push fails: classify_wallet_remember_handoff_failure marks the row
\* failed and aborts; when that statement fails too, the job stays retryable.
HandoffFails(w) ==
    /\ wk[w].pc = "handoff"
    /\ Fault
    /\ \/ row' = MarkFailed(row) /\ wk' = Return(w, "abort")
       \/ wk' = Return(w, "error") /\ UNCHANGED row
    /\ lock' = None
    /\ UNCHANGED <<kind, journal, fresh, prep, recovery, queue, chain, orphans,
                   index, issued, crashes>>


-------------------------------------------------------------------------------
(* SetMetadataAndTransfer and FinalizeUploadedBlob.                        *)

TransferSucceeds(w) ==
    LET job == wk[w].job IN
    /\ wk[w].pc = "transfer"
    /\ TransferValid(chain, job.obj, job.wallet)
    /\ chain' \in TransferEffects(chain, job.obj, job.wallet)
    /\ wk' = [wk EXCEPT ![w].pc = "index"]
    /\ NoFault
    /\ UNCHANGED <<kind, row, journal, fresh, prep, recovery, queue, lock,
                   orphans, index, issued, crashes>>

\* The signer does not own the object (any more): the batch route has no
\* already-transferred answer, so this is an error like any other.
TransferRejected(w) ==
    LET job == wk[w].job IN
    /\ wk[w].pc = "transfer"
    /\ ~TransferValid(chain, job.obj, job.wallet)
    /\ \E result \in {"error", "abort"} :
         /\ row' = AfterWalletError(row, result)
         /\ wk' = Return(w, result)
    /\ NoFault
    /\ UNCHANGED <<kind, journal, fresh, prep, recovery, queue, lock, chain,
                   orphans, index, issued, crashes>>

\* Fails before the effect, or times out with the transaction in flight.
TransferFails(w) ==
    /\ wk[w].pc = "transfer"
    /\ Fault
    /\ \E result \in {"error", "abort"} :
         /\ row' = AfterWalletError(row, result)
         /\ wk' = Return(w, result)
         /\ orphans' \in {orphans}
              \cup IF result = "error" THEN {orphans \cup InFlight(w)} ELSE {}
    /\ UNCHANGED <<kind, journal, fresh, prep, recovery, queue, lock, chain,
                   index, issued, crashes>>

\* The row insert_vector_and_mark_remember_done writes.
DoneRow(r, blob) ==
    [r EXCEPT !.status = "done", !.blob = blob, !.token = None, !.leased = FALSE,
              !.recToken = None, !.recLeased = FALSE]

\* The vector is upserted under the job id; the status write that follows is
\* best effort, so a fault can leave the row as it was.
IndexAndDone(w) ==
    /\ wk[w].pc = "index"
    /\ index' = wk[w].job.blob
    /\ \/ row' = DoneRow(row, wk[w].job.blob) /\ NoFault
       \/ UNCHANGED row /\ Fault
    /\ wk' = Return(w, "ok")
    /\ UNCHANGED <<kind, journal, fresh, prep, recovery, queue, lock, chain,
                   orphans, issued, crashes>>

\* insert_vector fails; after a transfer the worker goes on to hand the
\* indexing to a job of its own.
IndexFails(w) ==
    /\ wk[w].pc = "index"
    /\ Fault
    /\ \E result \in {"error", "abort"} :
         /\ row' = AfterWalletError(row, result)
         /\ wk' = IF wk[w].job.op = "finalize" THEN Return(w, result)
                  ELSE [wk EXCEPT ![w].pc = "rescue"]
    /\ UNCHANGED <<kind, journal, fresh, prep, recovery, queue, lock, chain,
                   orphans, index, issued, crashes>>

\* enqueue_finalize_uploaded_blob.
Rescue(w) ==
    /\ wk[w].pc = "rescue"
    /\ \E q \in Slots :
         /\ FreeSlot(q)
         /\ queue' = Pushed(q, [wk[w].job EXCEPT !.op = "finalize"])
    /\ wk' = Return(w, "ok")
    /\ NoFault
    /\ UNCHANGED <<kind, row, journal, fresh, prep, recovery, lock, chain,
                   orphans, index, issued, crashes>>

RescueFails(w) ==
    /\ wk[w].pc = "rescue"
    /\ Fault
    /\ \/ row' = MarkFailed(row) /\ wk' = Return(w, "abort")
       \/ wk' = Return(w, "error") /\ UNCHANGED row
    /\ UNCHANGED <<kind, journal, fresh, prep, recovery, queue, lock, chain,
                   orphans, index, issued, crashes>>

-------------------------------------------------------------------------------
(* Sweep and crash.                                                        *)

\* Mutant: the sweep only looks at running rows.
SweptRunningOnly == {"running"}
SweptStatuses == {"running", "uploaded"}

\* fail_stale_remember_jobs.  A live lock holder writes the row at least once
\* per sidecar timeout, half the sweep's ten minutes, so its row is not stale.
Sweep ==
    /\ row.status \in SweptStatuses /\ lock = None
    /\ row' = [row EXCEPT !.status = "failed"]
    /\ NoFault
    /\ UNCHANGED <<kind, journal, fresh, prep, recovery, queue, wk, lock, chain,
                   orphans, index, issued, crashes>>

\* The server process dies: tasks, handlers and workers vanish, the lock's
\* transaction rolls back, queue and row stay, the sidecar keeps going.
Crash ==
    /\ crashes < MaxCrashes /\ crashes + faults < MaxFailures
    /\ crashes' = crashes + 1
    /\ fresh' = FALSE /\ prep' = {} /\ recovery' = {}
    /\ wk' = [w \in Workers |-> IdleWorker]
    /\ lock' = None
    /\ orphans' = orphans \cup UNION {InFlight(w) : w \in Workers}
    /\ UNCHANGED <<kind, row, journal, queue, chain, index, issued, faults>>

RequestStep ==
    \/ InsertRow \/ InsertBulkRow \/ ClaimInserted \/ RetryUnpaid \/ RetryPaid
    \/ \E h \in recovery : EnqueueRecovery(h) \/ PublishRecovery(h)
    \/ \E p \in prep :
         \/ PersistPreparation(p) \/ EnqueuePrepared(p) \/ PreparationFails(p)
         \/ EnqueueBulk(p) \/ BulkPreparationFails(p)

UploadStep(w) ==
    \/ DeferUpload(w) \/ StartUpload(w) \/ StartUploadFails(w)
    \/ SidecarEncode(w) \/ SidecarPrepare(w) \/ SidecarRegister(w)
    \/ SidecarUpload(w) \/ SidecarCertify(w)
    \/ CallRejected(w) \/ RegisterReverts(w) \/ CallFails(w)
    \/ PersistStep(w) \/ PersistUploaded(w) \/ PersistFails(w)
    \/ Handoff(w) \/ HandoffFails(w)

DeliverStep(w) ==
    \/ TransferSucceeds(w) \/ TransferRejected(w) \/ TransferFails(w)
    \/ IndexAndDone(w) \/ IndexFails(w) \/ Rescue(w) \/ RescueFails(w)

Next ==
    \/ RequestStep
    \/ \E w \in Workers :
         \/ \E q \in Slots : Dispatch(w, q)
         \/ Ack(w) \/ FanOut(w) \/ UploadStep(w) \/ DeliverStep(w)
    \/ \E o \in orphans : OrphanRuns(o)
    \/ LeaseExpires \/ Sweep \/ Crash

Spec == Init /\ [][Next]_vars

\* Fairness: tokio runs every spawned task and handler, Apalis keeps polling
\* each entry, calls return or time out, timers fire, the sweep runs every
\* minute, and the client of a keyed write keeps retrying it.  Nothing is
\* assumed of the actions that spend a fault, nor of first requests.
WorkerProgress(w) ==
    \/ Ack(w) \/ FanOut(w)
    \/ StartUpload(w) \/ DeferUpload(w) \/ CallRejected(w)
    \/ SidecarEncode(w) \/ SidecarPrepare(w) \/ SidecarRegister(w)
    \/ SidecarUpload(w) \/ SidecarCertify(w)
    \/ PersistStep(w) \/ PersistUploaded(w) \/ Handoff(w)
    \/ TransferSucceeds(w) \/ TransferRejected(w) \/ IndexAndDone(w) \/ Rescue(w)

Fairness ==
    /\ WF_vars(ClaimInserted) /\ WF_vars(RetryUnpaid) /\ WF_vars(RetryPaid)
    /\ WF_vars(\E h \in recovery : EnqueueRecovery(h) \/ PublishRecovery(h))
    /\ WF_vars(\E p \in prep : \/ PersistPreparation(p) \/ EnqueuePrepared(p)
                              \/ EnqueueBulk(p))
    /\ \A w \in Workers : WF_vars(WorkerProgress(w))
    /\ \A q \in Slots : SF_vars(\E w \in Workers : Dispatch(w, q))
    /\ WF_vars(\E o \in orphans : OrphanRuns(o))
    /\ WF_vars(LeaseExpires) /\ WF_vars(Sweep)

FairSpec == Spec /\ Fairness

-------------------------------------------------------------------------------
(* Properties.                                                             *)

\* Every record has the columns and values the code can give it; in particular
\* the wallet an attempt rotates to is always one of the pool.
TypeOK ==
    /\ kind \in Kinds
    /\ row \in Row
    /\ journal \in Journal
    /\ fresh \in BOOLEAN
    /\ prep \subseteq PrepTask
    /\ recovery \subseteq RecTask
    /\ queue \in [Slots -> Entry]
    /\ wk \in [Workers -> Worker]
    /\ lock \in OrNone(Workers)
    /\ chain \in [Txs -> TxState]
    /\ orphans \subseteq Orphan
    /\ index \in OrNone(Tokens)
    /\ issued \subseteq Tokens
    /\ crashes \in Nat /\ faults \in Nat

Paid == {t \in Txs : chain[t].st = "ok"}

\* One write is paid at most once: however attempts, crashes, retries and late
\* sidecar requests interleave, at most one register transaction of the job
\* succeeds on chain.
AtMostOnePaid == \A s, t \in Paid : s = t

\* A journal names transaction t: as the prepared transaction, or as the
\* transaction that created the Blob of a later step.
Names(j, t) ==
    \/ j.step = "encoded" /\ j.tx = t
    \/ j.step \in {"registered", "uploaded", "certified"} /\ j.obj = t
Journaled(t) == Names(journal, t)

\* No paid blob is lost: whatever was charged, or may still be by a request in
\* flight, can be found again through the durable journal.
PaidIsJournaled ==
    /\ \A t \in Paid : Journaled(t)
    /\ \A o \in orphans : Journaled(o.tx)

\* 'done' is only reported for a blob that is certified, owned by the user and
\* searchable, and the row and the index name that very blob.
DoneIsDelivered ==
    row.status = "done" =>
        /\ row.obj \in Paid
        /\ chain[row.obj].certified /\ chain[row.obj].owner = "user"
        /\ chain[row.obj].ct = row.blob /\ index = row.blob

\* The index never points at a blob the user does not own.
IndexedIsDelivered ==
    index # None => \E t \in Paid : chain[t].ct = index /\ chain[t].owner = "user"

StepRank == [s \in Steps |-> CASE s = "start" -> 0 [] s = "encoded" -> 1
                               [] s = "registered" -> 2 [] s = "uploaded" -> 3
                               [] OTHER -> 4]

\* The durable journal only moves forward: no stale attempt rewinds a step,
\* swaps the pinned wallet, or replaces a transaction that may have been sent.
JournalForward ==
    [][/\ StepRank[journal'.step] >= StepRank[journal.step]
       /\ journal.wallet # None => journal'.wallet = journal.wallet
       /\ journal.ct # None => journal'.ct = journal.ct
       /\ journal.tx # None => \/ journal'.tx = journal.tx
                               \/ journal'.obj = journal.tx]_vars

\* A recorded mint is never replaced or forgotten by the row.
PaidRecordKept ==
    [][row.blob # None => row'.blob = row.blob /\ row'.obj = row.obj]_vars

\* A restart that seals the text again happens only while nothing was paid.
RestartOnlyUnpaid == [][row'.token # row.token /\ row'.token # None => Paid = {}]_vars

\* Metadata and transfer are signed by the wallet that registered the blob.
TransferWalletPinned ==
    \A q \in Slots : queue[q].st # "Done" /\ queue[q].job.op = "transfer" =>
        queue[q].job.wallet = chain[queue[q].job.obj].wallet

\* A finished row is never downgraded.
DoneIsFinal == [][row.status = "done" => row'.status = "done"]_vars

\* A worker gives up because it could not push the next job.
PushAborted == \E w \in Workers : /\ wk[w].pc \in {"handoff", "rescue"}
                                  /\ wk'[w].pc = "ack" /\ wk'[w].result = "abort"

\* The one way a finished row is downgraded: a worker whose push of a transfer
\* or finalize job failed marks the row failed without looking at it, and
\* aborts.  Late errors, unconditional bulk failures, second uploads, retries
\* and the sweep all leave 'done' alone.
DoneLostOnlyInHandoff ==
    [][row.status = "done" /\ row'.status # "done" => PushAborted]_vars

\* Without a retrying client, a job a worker has taken up ends: whoever polls
\* sees a verdict.  (A keyed client that keeps retrying a delivered write whose
\* success was not recorded keeps claiming the row, which no sweep then finds
\* stale.)
StatusSettles ==
    (kind # "keyed" /\ row.status \in {"running", "uploaded"})
        ~> row.status \in {"done", "failed"}

\* A transfer is signed by another wallet than the one that owns the blob.
WrongWallet == \E w \in Workers : /\ wk[w].pc = "transfer"
                                  /\ wk[w].job.wallet # chain[wk[w].job.obj].wallet

\* Once the mint of a keyed write is recorded and the client keeps retrying, the
\* user gets the blob, whatever crash or failed call or statement hits the rest
\* of the pipeline within the bounds.  One thing only can keep it away: retries
\* that go on for ever drawing a wallet that does not own the blob (see
\* TransferWalletPinned).  The account's access counter is not rotated between
\* sealing and transfer: the on-chain fence then rejects for good, here at most
\* once, as a fault.
RecordedIsDelivered ==
    \/ (kind = "keyed" /\ row.blob # None) ~> \E t \in Txs : chain[t].owner = "user"
    \/ []<>WrongWallet

\* The same without a key: a re-run of the job resumes after the upload and
\* hands the recorded blob over.
RerunDelivers ==
    (kind = "plain" /\ row.blob # None) ~> \E t \in Txs : chain[t].owner = "user"
===============================================================================

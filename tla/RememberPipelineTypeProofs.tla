---------------------- MODULE RememberPipelineTypeProofs ----------------------
(***************************************************************************)
(* Every step of RememberPipeline keeps its records well typed and filled  *)
(* in as far as their stage says, for every value of the constants.        *)
(***************************************************************************)
EXTENDS RememberPipelineInv, TLAPS

\* The initial row, queue, workers and chain are well typed.
LEMMA InitType == Init => TypeOK
  <1> SUFFICES ASSUME Init PROVE TypeOK
    OBVIOUS
  <1>1. row \in Row
    BY DEF Init, Row, OrNone, Statuses
  <1>2. NoJournal \in Journal /\ journal \in Journal
    BY DEF Init, NoJournal, Journal, OrNone, Steps
  <1>3. queue \in [Slots -> Entry]
    BY DEF Init, DoneEntry, Entry, OrNone
  <1>4. wk \in [Workers -> Worker]
    BY <1>2 DEF Init, IdleWorker, Worker, OrNone, PCs
  <1>5. chain \in [Txs -> TxState]
    BY DEF Init, NoTx, TxState, OrNone
  <1> QED
    BY <1>1, <1>2, <1>3, <1>4, <1>5 DEF Init, TypeOK, OrNone

\* Rotating through the pool stays in the pool.
LEMMA WalletTyped ==
    \A start \in Wallets, attempt \in Nat : WalletForAttempt(start, attempt) \in Wallets
  BY PoolAssumption DEF WalletForAttempt, Wallets

\* The two parts that are proved together: types, and the fields each stage has.
Typed == TypeOK /\ ShapeInv

QueueTyped == /\ queue \in [Slots -> Entry]
              /\ \A q \in Slots : queue[q].st # "Done" => JobShape(queue[q].job)
WorkersTyped == /\ wk \in [Workers -> Worker]
                /\ \A w \in Workers : WorkerShape(wk[w])

RowTyped == row \in Row /\ (row.blob # None => row.obj # None)
JournalTyped == journal \in Journal /\ WellFormed(journal)
ServerTyped == /\ fresh \in BOOLEAN /\ prep \subseteq PrepTask
               /\ recovery \subseteq RecTask /\ lock \in OrNone(Workers)
WorldTyped == /\ kind \in Kinds /\ chain \in [Txs -> TxState]
              /\ orphans \subseteq Orphan /\ index \in OrNone(Tokens)
              /\ issued \subseteq Tokens /\ crashes \in Nat /\ faults \in Nat

\* Typed, in the six groups of variables the steps change together.
LEMMA TypedParts ==
    Typed <=> /\ RowTyped /\ JournalTyped /\ QueueTyped /\ WorkersTyped
              /\ ServerTyped /\ WorldTyped
  BY DEF Typed, TypeOK, ShapeInv, RowTyped, JournalTyped, QueueTyped, WorkersTyped,
         ServerTyped, WorldTyped

\* A worker that has an entry may return any result.
LEMMA ReturnTyped ==
  ASSUME Typed, NEW w \in Workers, wk[w].pc # "idle",
         NEW result \in {"ok", "error", "abort"}, wk' = Return(w, result)
  PROVE  WorkersTyped'
  <1>1. wk \in [Workers -> Worker] /\ \A v \in Workers : WorkerShape(wk[v])
    BY DEF Typed, TypeOK, ShapeInv
  <1> DEFINE r == [wk[w] EXCEPT !.pc = "ack", !.result = result]
  <1>2. wk' = [wk EXCEPT ![w] = r]
    BY <1>1 DEF Return
  <1>3. r \in Worker
    BY <1>1 DEF Worker, PCs
  <1>4. WorkerShape(r)
    BY <1>1 DEF WorkerShape, LockedPCs, Worker
  <1> HIDE DEF r
  <1> QED BY <1>1, <1>2, <1>3, <1>4 DEF WorkersTyped

\* A worker record replaced by a well-shaped one.
LEMMA WorkerReplaced ==
  ASSUME Typed, NEW w \in Workers, NEW v \in Worker, WorkerShape(v),
         wk' = [wk EXCEPT ![w] = v]
  PROVE  WorkersTyped'
  BY DEF Typed, TypeOK, ShapeInv, WorkersTyped

\* A pushed entry is well typed when its job is.
LEMMA PushTyped ==
  ASSUME Typed, NEW q \in Slots, NEW job \in Job, JobShape(job),
         queue' = Pushed(q, job)
  PROVE  QueueTyped'
  BY DEF Typed, TypeOK, ShapeInv, QueueTyped, Pushed, Entry, OrNone

\* The job a worker runs, or a live entry holds, is a complete job.
LEMMA JobOf ==
  ASSUME Typed
  PROVE  /\ \A w \in Workers : wk[w].pc # "idle" =>
               wk[w].job \in Job /\ wk[w].slot \in Slots /\ JobShape(wk[w].job)
         /\ \A q \in Slots : queue[q].st # "Done" =>
               queue[q].job \in Job /\ JobShape(queue[q].job)
  BY DEF Typed, TypeOK, ShapeInv, WorkerShape, JobShape, Worker, Entry, OrNone

\* update_remember_job_after_wallet_error leaves a row a row.
LEMMA AfterWalletErrorTyped ==
  ASSUME NEW r \in Row, NEW result
  PROVE  AfterWalletError(r, result) \in Row
  BY DEF AfterWalletError, Row, Statuses

\* The job a preparation or a recovery pushes is a complete job.
LEMMA UploadJobTyped ==
  ASSUME NEW wallet \in Wallets, NEW token \in OrNone(Tokens), NEW ct \in Tokens
  PROVE  UploadJob(wallet, token, ct) \in Job /\ JobShape(UploadJob(wallet, token, ct))
  <1>1. UploadJob(wallet, token, ct) \in Job
    BY DEF UploadJob, Job, Ops, OrNone
  <1>2. UploadJob(wallet, token, ct) # None
    BY <1>1, NoneIsNoJob
  <1> QED BY <1>1, <1>2 DEF UploadJob, JobShape

\* mark_remember_job_failed leaves a row a row.
LEMMA MarkFailedTyped ==
  ASSUME NEW r \in Row
  PROVE  MarkFailed(r) \in Row
  BY DEF MarkFailed, Row, Statuses

\* Request handlers and preparation tasks keep the records typed.
LEMMA RequestTyped == Typed /\ RequestStep => Typed'
  <1> SUFFICES ASSUME Typed, RequestStep PROVE Typed'
    OBVIOUS
  <1> USE DEF NoFault, Fault
  <1>a. /\ RowTyped /\ JournalTyped /\ QueueTyped /\ WorkersTyped /\ ServerTyped
        /\ WorldTyped
    BY TypedParts
  <1>b. SUFFICES /\ RowTyped' /\ JournalTyped' /\ QueueTyped' /\ WorkersTyped'
                 /\ ServerTyped' /\ WorldTyped'
    BY TypedParts, PTL
  <1> DEFINE Goal == /\ RowTyped' /\ JournalTyped' /\ QueueTyped' /\ WorkersTyped'
                     /\ ServerTyped' /\ WorldTyped'
  <1>1. CASE InsertRow
    <2>1. RowTyped'
      BY <1>1, <1>a DEF InsertRow, RowTyped, Row, Statuses
    <2> QED BY <1>1, <1>a, <2>1
        DEF InsertRow, JournalTyped, QueueTyped, WorkersTyped, WorldTyped, ServerTyped
  <1>11. CASE InsertBulkRow
    <2>1. RowTyped'
      BY <1>11, <1>a DEF InsertBulkRow, RowTyped, Row, Statuses
    <2>2. PICK ct \in Tokens :
            /\ prep' = prep \cup {[token |-> None, ct |-> ct, stage |-> "encrypt"]}
            /\ issued' = issued \cup {ct}
      BY <1>11 DEF InsertBulkRow
    <2>3. prep' \subseteq PrepTask /\ issued' \subseteq Tokens
      BY <1>a, <2>2 DEF ServerTyped, WorldTyped, PrepTask, OrNone
    <2> QED BY <1>11, <1>a, <2>1, <2>3
        DEF InsertBulkRow, JournalTyped, QueueTyped, WorkersTyped, WorldTyped, ServerTyped
  <1>2. ASSUME ClaimPreparation
        PROVE  /\ RowTyped' /\ prep' \subseteq PrepTask /\ issued' \subseteq Tokens
               /\ JournalTyped' /\ QueueTyped' /\ WorkersTyped'
    <2>1. PICK token \in Tokens :
            /\ row' = [row EXCEPT !.token = token, !.leased = TRUE,
                                  !.status = "pending"]
            /\ prep' = prep \cup {[token |-> token, ct |-> token,
                                   stage |-> "encrypt"]}
            /\ issued' = issued \cup {token}
      BY <1>2 DEF ClaimPreparation
    <2>2. RowTyped'
      BY <1>a, <2>1 DEF RowTyped, Row, Statuses, OrNone
    <2>3. prep' \subseteq PrepTask /\ issued' \subseteq Tokens
      BY <1>a, <2>1 DEF ServerTyped, WorldTyped, PrepTask, OrNone
    <2> QED BY <1>2, <1>a, <2>2, <2>3
        DEF ClaimPreparation, JournalTyped, QueueTyped, WorkersTyped
  <1>3. CASE ClaimInserted
    <2>1. CASE ClaimPreparation
      BY <1>a, <1>2, <1>3, <2>1
      DEF ClaimInserted, ClaimPreparation, ServerTyped, WorldTyped
    <2>2. CASE ~ClaimPreparation
      <3>1. /\ fresh' = FALSE
            /\ UNCHANGED <<kind, row, journal, prep, recovery, queue, wk, lock,
                           chain, orphans, index, issued, crashes>>
            /\ NoFault \/ Fault
        BY <1>3, <2>2 DEF ClaimInserted
      <3>2. faults' \in Nat
        BY <1>a, <3>1 DEF WorldTyped
      <3> QED BY <1>a, <3>1, <3>2
          DEF RowTyped, JournalTyped, QueueTyped, WorkersTyped, ServerTyped, WorldTyped
    <2> QED BY <2>1, <2>2
  <1>4. CASE RetryUnpaid
    BY <1>a, <1>2, <1>4 DEF RetryUnpaid, ClaimPreparation, ServerTyped, WorldTyped
  <1>5. CASE RetryPaid
    <2>1. PICK token \in RecTokens :
            /\ row' = [row EXCEPT !.recToken = token, !.recLeased = TRUE]
            /\ recovery' = recovery \cup {[token |-> token, stage |-> "claimed"]}
      BY <1>5 DEF RetryPaid
    <2>2. RowTyped'
      BY <1>a, <2>1 DEF RowTyped, Row, OrNone
    <2>3. recovery' \subseteq RecTask
      BY <1>a, <2>1 DEF ServerTyped, RecTask
    <2> QED BY <1>5, <1>a, <2>2, <2>3
        DEF RetryPaid, JournalTyped, QueueTyped, WorkersTyped, ServerTyped, WorldTyped
  <1>6. ASSUME NEW h \in recovery, EnqueueRecovery(h) PROVE Goal
    <2>1. recovery' \subseteq RecTask
      BY <1>6, <1>a DEF EnqueueRecovery, ServerTyped, RecTask
    <2>2. QueueTyped'
      <3>1. CASE queue' = queue
        BY <1>a, <3>1 DEF QueueTyped
      <3>2. CASE queue' # queue
        <4>1. PICK q \in Slots, wallet \in Wallets :
                queue' = Pushed(q, UploadJob(wallet, None, row.prepared))
          BY <1>6, <3>2 DEF EnqueueRecovery
        <4>2. row.prepared \in Tokens
          BY <1>6, <1>a, <3>2 DEF EnqueueRecovery, RowTyped, Row, OrNone
        <4> QED BY <4>1, <4>2, UploadJobTyped, PushTyped DEF OrNone
      <3> QED BY <3>1, <3>2
    <2> QED BY <1>6, <1>a, <2>1, <2>2
        DEF EnqueueRecovery, RowTyped, JournalTyped, WorkersTyped, ServerTyped, WorldTyped
  <1>7. ASSUME NEW h \in recovery, PublishRecovery(h) PROVE Goal
    <2>1. RowTyped'
      BY <1>7, <1>a DEF PublishRecovery, RowTyped, Row, Statuses
    <2> QED BY <1>7, <1>a, <2>1
        DEF PublishRecovery, JournalTyped, QueueTyped, WorkersTyped, ServerTyped, WorldTyped
  <1>8. ASSUME NEW p \in prep, PersistPreparation(p) PROVE Goal
    <2>1. p \in PrepTask
      BY <1>a DEF ServerTyped
    <2>2. RowTyped'
      BY <1>8, <1>a, <2>1 DEF PersistPreparation, RowTyped, Row, PrepTask, OrNone
    <2>3. prep' \subseteq PrepTask
      BY <1>8, <1>a, <2>1 DEF PersistPreparation, ServerTyped, PrepTask
    <2> QED BY <1>8, <1>a, <2>2, <2>3
        DEF PersistPreparation, JournalTyped, QueueTyped, WorkersTyped, ServerTyped,
            WorldTyped
  <1>9. ASSUME NEW p \in prep, EnqueuePrepared(p) PROVE Goal
    <2>1. PICK q \in Slots, wallet \in Wallets :
            queue' = Pushed(q, UploadJob(wallet, p.token, p.ct))
      BY <1>9 DEF EnqueuePrepared
    <2>2. p.token \in OrNone(Tokens) /\ p.ct \in Tokens
      BY <1>a DEF ServerTyped, PrepTask
    <2>3. QueueTyped'
      BY <2>1, <2>2, UploadJobTyped, PushTyped
    <2> QED BY <1>9, <1>a, <2>3
        DEF EnqueuePrepared, RowTyped, JournalTyped, WorkersTyped, ServerTyped, WorldTyped
  <1>12. ASSUME NEW p \in prep, EnqueueBulk(p) PROVE Goal
    <2> DEFINE job(v) == [UploadJob(v, None, p.ct) EXCEPT !.op = "bulk"]
    <2>1. PICK q \in Slots, wallet \in Wallets : queue' = Pushed(q, job(wallet))
      BY <1>12 DEF EnqueueBulk
    <2>2. UploadJob(wallet, None, p.ct) \in Job
      BY <1>a, UploadJobTyped DEF ServerTyped, PrepTask, OrNone
    <2>3. job(wallet) \in Job /\ job(wallet).op # "transfer"
      BY <2>2 DEF Job, Ops
    <2>4. JobShape(job(wallet))
      BY <2>3, NoneIsNoJob DEF JobShape
    <2> HIDE DEF job
    <2>5. QueueTyped'
      BY <2>1, <2>3, <2>4, PushTyped
    <2> QED BY <1>12, <1>a, <2>5
        DEF EnqueueBulk, RowTyped, JournalTyped, WorkersTyped, ServerTyped, WorldTyped
  <1>10. ASSUME NEW p \in prep, PreparationFails(p) \/ BulkPreparationFails(p) PROVE Goal
    <2>1. row' = row \/ row' = MarkFailed(row)
      BY <1>10, Zenon DEF PreparationFails, BulkPreparationFails
    <2>2. RowTyped'
      BY <1>a, <2>1 DEF RowTyped, Row, Statuses, MarkFailed
    <2> QED BY <1>10, <1>a, <2>2
        DEF PreparationFails, BulkPreparationFails, JournalTyped, QueueTyped,
            WorkersTyped, ServerTyped, WorldTyped
  <1> QED
    BY <1>1, <1>3, <1>4, <1>5, <1>6, <1>7, <1>8, <1>9, <1>10, <1>11, <1>12
    DEF RequestStep

\* TypedParts in the next state.
LEMMA PrimedParts ==
    /\ RowTyped' /\ JournalTyped' /\ QueueTyped' /\ WorkersTyped'
    /\ ServerTyped' /\ WorldTyped'
    => Typed'
  BY TypedParts, PTL

\* Dispatch, acknowledgement and fan-out keep the records typed.
LEMMA QueueStepTyped ==
  ASSUME Typed, NEW w \in Workers,
         (\E q \in Slots : Dispatch(w, q)) \/ Ack(w) \/ FanOut(w)
  PROVE  Typed'
  <1> USE DEF NoFault, Fault
  <1>a. /\ RowTyped /\ JournalTyped /\ QueueTyped /\ WorkersTyped /\ ServerTyped
        /\ WorldTyped
    BY TypedParts
  <1>1. ASSUME NEW q \in Slots, Dispatch(w, q) PROVE Typed'
    <2> DEFINE v == [pc |-> EntryPoint(queue[q].job), slot |-> q,
                     job |-> queue[q].job, attempt |-> queue[q].attempts + 1,
                     journal |-> NoJournal, result |-> "ok"]
    <2>1. queue[q].job \in Job /\ JobShape(queue[q].job)
      BY <1>1, JobOf DEF Dispatch, TypeOK
    <2>2. QueueTyped'
      BY <1>1, <1>a DEF Dispatch, QueueTyped, Entry, JobShape
    <2>3. /\ EntryPoint(queue[q].job) \in {"fanout", "ack", "lock", "transfer", "index"}
          /\ EntryPoint(queue[q].job) = "transfer" => queue[q].job.op = "transfer"
      BY <2>1 DEF EntryPoint
    <2>4. v \in Worker
      <3>1. NoJournal \in Journal
        BY DEF NoJournal, Journal, OrNone, Steps
      <3>2. queue[q].attempts + 1 \in Nat
        BY <1>a DEF QueueTyped, Entry
      <3> QED BY <2>1, <2>3, <3>1, <3>2 DEF Worker, PCs, OrNone
    <2>5. WorkerShape(v)
      BY <2>1, <2>3, NoneAssumption DEF WorkerShape, LockedPCs
    <2> HIDE DEF v
    <2>6. WorkersTyped'
      BY <1>1, <2>4, <2>5, WorkerReplaced DEF Dispatch, v
    <2> QED BY <1>1, <1>a, <2>2, <2>6, PrimedParts
        DEF Dispatch, RowTyped, JournalTyped, ServerTyped, WorldTyped
  <1>2. CASE Ack(w)
    <2>0. wk[w].job \in Job /\ JobShape(wk[w].job) /\ wk[w].attempt \in Nat
      BY <1>2, <1>a, JobOf DEF Ack, WorkersTyped, Worker
    <2>1. IdleWorker \in Worker
      BY DEF IdleWorker, Worker, NoJournal, Journal, OrNone, Steps, PCs
    <2>2. WorkerShape(IdleWorker)
      BY DEF IdleWorker, WorkerShape, LockedPCs
    <2>3. WorkersTyped'
      BY <1>2, <2>1, <2>2, WorkerReplaced DEF Ack
    <2>4. DoneEntry \in Entry /\ DoneEntry.st = "Done"
      BY DEF DoneEntry, Entry, OrNone
    <2> DEFINE e == [st |-> "Pending", attempts |-> wk[w].attempt, job |-> wk[w].job]
    <2>5. e \in Entry /\ JobShape(e.job)
      BY <2>0 DEF Entry, OrNone
    <2>6. queue' \in {[queue EXCEPT ![wk[w].slot] = e],
                      [queue EXCEPT ![wk[w].slot] = DoneEntry]}
      BY <1>2 DEF Ack
    <2> HIDE DEF e
    <2>7. QueueTyped'
      BY <1>a, <2>4, <2>5, <2>6 DEF QueueTyped
    <2> QED BY <1>2, <1>a, <2>3, <2>7, PrimedParts
        DEF Ack, RowTyped, JournalTyped, ServerTyped, WorldTyped
  <1>3. CASE FanOut(w)
    <2>0. wk[w].job \in Job /\ wk[w].pc # "idle"
      BY <1>3, JobOf DEF FanOut
    <2>1. WorkersTyped'
      BY <1>3, <2>0, ReturnTyped DEF FanOut
    <2> DEFINE job == [wk[w].job EXCEPT !.op = "upload"]
    <2>2. job \in Job /\ job.op # "transfer"
      BY <2>0 DEF Job, Ops
    <2>3. JobShape(job)
      BY <2>2, NoneIsNoJob DEF JobShape
    <2>4. queue' = queue \/ \E q \in Slots : queue' = Pushed(q, job)
      BY <1>3 DEF FanOut
    <2> HIDE DEF job
    <2>5. QueueTyped'
      BY <1>a, <2>2, <2>3, <2>4, PushTyped DEF QueueTyped
    <2> QED BY <1>3, <1>a, <2>1, <2>5, PrimedParts
        DEF FanOut, RowTyped, JournalTyped, ServerTyped, WorldTyped
  <1> QED BY <1>1, <1>2, <1>3

\* What the chain may become, transaction by transaction.
LEMMA EffectsTyped ==
  ASSUME NEW c \in [Txs -> TxState], NEW t \in Txs, NEW wallet
  PROVE  /\ RegisterEffects(c, t) \subseteq [Txs -> TxState]
         /\ CertifyEffects(c, t) \subseteq [Txs -> TxState]
         /\ TransferEffects(c, t, wallet) \subseteq [Txs -> TxState]
  <1> DEFINE ok == [c[t] EXCEPT !.st = "ok", !.owner = "wallet"]
             failed == [c[t] EXCEPT !.st = "failed"]
             cert == [c[t] EXCEPT !.certified = TRUE]
             user == [c[t] EXCEPT !.owner = "user"]
  <1>1. ok \in TxState /\ failed \in TxState /\ user \in TxState
    BY DEF TxState
  <1>2. cert \in TxState
    BY DEF TxState
  <1>3. RegisterEffects(c, t) \subseteq {c, [c EXCEPT ![t] = ok], [c EXCEPT ![t] = failed]}
    BY DEF RegisterEffects
  <1>4. CertifyEffects(c, t) \subseteq {[c EXCEPT ![t] = cert]}
    BY DEF CertifyEffects
  <1>5. TransferEffects(c, t, wallet) \subseteq {c, [c EXCEPT ![t] = user]}
    BY DEF TransferEffects
  <1> HIDE DEF ok, failed, cert, user
  <1>6. /\ [c EXCEPT ![t] = ok] \in [Txs -> TxState]
        /\ [c EXCEPT ![t] = failed] \in [Txs -> TxState]
        /\ [c EXCEPT ![t] = cert] \in [Txs -> TxState]
        /\ [c EXCEPT ![t] = user] \in [Txs -> TxState]
    BY <1>1, <1>2
  <1> QED BY <1>3, <1>4, <1>5, <1>6

\* An attempt that ends in an error keeps the row and its worker typed.
LEMMA AbandonTyped ==
  ASSUME Typed, NEW w \in Workers, wk[w].pc # "idle",
         NEW result \in {"error", "abort"}, AbandonUpload(w, result)
  PROVE  RowTyped' /\ WorkersTyped' /\ lock' \in OrNone(Workers)
  <1>1. RowTyped'
    BY TypedParts DEF AbandonUpload, AfterWalletError, RowTyped, Row, Statuses
  <1>2. WorkersTyped'
    BY ReturnTyped DEF AbandonUpload
  <1> QED BY <1>1, <1>2 DEF AbandonUpload, OrNone

\* An answer that is a well-formed journal is a well-formed worker.
LEMMA AnswerTyped ==
  ASSUME Typed, NEW w \in Workers, wk[w].pc # "idle",
         NEW j \in Journal, WellFormed(j), j.wallet # None, j.step # "start",
         wk' = Answer(w, j)
  PROVE  WorkersTyped'
  <1>1. wk \in [Workers -> Worker] /\ WorkerShape(wk[w])
    BY DEF Typed, TypeOK, ShapeInv
  <1> DEFINE v == [wk[w] EXCEPT !.pc = "answer", !.journal = j]
  <1>2. wk' = [wk EXCEPT ![w] = v]
    BY <1>1 DEF Answer
  <1>3. v \in Worker
    BY <1>1 DEF Worker, PCs
  <1>4. WorkerShape(v)
    BY <1>1 DEF WorkerShape, LockedPCs, Worker
  <1> HIDE DEF v
  <1> QED BY <1>2, <1>3, <1>4, WorkerReplaced

\* The requests a worker can leave behind.
LEMMA InFlightTyped ==
  ASSUME Typed, NEW w \in Workers
  PROVE  InFlight(w) \subseteq Orphan
  <1>0. wk[w] \in Worker /\ WorkerShape(wk[w]) /\ wk[w].journal \in Journal
    BY DEF Typed, TypeOK, ShapeInv, Worker
  <1>1. CASE InCall(w, "encoded") /\ wk[w].journal.tx # None /\ DataMatches(w)
    BY <1>0, <1>1 DEF InFlight, InCall, Orphan, WorkerShape, LockedPCs, Journal, OrNone
  <1>2. CASE InCall(w, "uploaded")
    BY <1>0, <1>2
    DEF InFlight, InCall, Orphan, WorkerShape, LockedPCs, Journal, OrNone, WellFormed,
        Registered
  <1>3. CASE wk[w].pc = "transfer"
    <2>1. wk[w].job \in Job /\ wk[w].job.obj # None
      BY <1>0, <1>3, JobOf DEF WorkerShape, JobShape
    <2> QED BY <1>3, <2>1 DEF InFlight, InCall, Orphan, Job, OrNone
  <1>4. CASE /\ ~(InCall(w, "encoded") /\ wk[w].journal.tx # None /\ DataMatches(w))
             /\ ~InCall(w, "uploaded") /\ wk[w].pc # "transfer"
    BY <1>4 DEF InFlight
  <1> QED BY <1>1, <1>2, <1>3, <1>4

\* Entering the locked section keeps the records typed.
LEMMA StartTyped ==
  ASSUME Typed, NEW w \in Workers, StartUpload(w)
  PROVE  Typed'
  <1>a. /\ RowTyped /\ JournalTyped /\ QueueTyped /\ WorkersTyped /\ ServerTyped
        /\ WorldTyped
    BY TypedParts
  <1> DEFINE wallet == WalletForAttempt(wk[w].job.wallet, wk[w].attempt)
  <1>0. /\ wk[w] \in Worker /\ WorkerShape(wk[w]) /\ wk[w].pc = "lock"
        /\ wk[w].job \in Job
    BY <1>a, JobOf DEF StartUpload, WorkersTyped
  <1>1. wallet \in Wallets
    BY <1>0, WalletTyped DEF Worker, Job
  <1> HIDE DEF wallet
  <1>2. RowTyped'
    BY <1>a DEF StartUpload, RowTyped, Row, Statuses
  <1>3. lock' \in OrNone(Workers)
    BY <1>a DEF StartUpload, ServerTyped, OrNone
  <1>4. WorkersTyped'
    <2> DEFINE paid == [wallet |-> wallet, step |-> "certified", ct |-> row.blob,
                        tx |-> None, obj |-> row.obj]
               loaded == [journal EXCEPT !.wallet = IF @ = None THEN wallet ELSE @]
               after(pc, j) == [wk[w] EXCEPT !.pc = pc, !.journal = j]
    <2>1. CASE wk' = Return(w, "ok")
      BY <1>0, <2>1, ReturnTyped
    <2>2. CASE /\ wk' = [wk EXCEPT ![w].pc = "handoff", ![w].journal = paid]
               /\ row.blob # None
      <3>1. paid \in Journal /\ WellFormed(paid) /\ paid.wallet # None
        <4>1. row.blob \in OrNone(Tokens) /\ row.obj \in OrNone(Txs) /\ row.obj # None
          BY <1>a, <2>2 DEF RowTyped, Row
        <4>2. wallet # None
          BY <1>1, NoneAssumption, PoolAssumption DEF Wallets
        <4> QED BY <1>1, <2>2, <4>1, <4>2
            DEF Journal, Steps, WellFormed, Registered, OrNone
      <3> DEFINE v == after("handoff", paid)
      <3>2. wk' = [wk EXCEPT ![w] = v]
        BY <1>a, <2>2 DEF WorkersTyped
      <3>3. v \in Worker
        BY <1>0, <3>1 DEF Worker, PCs
      <3>4. WorkerShape(v)
        BY <1>0, <3>1 DEF WorkerShape, LockedPCs, Worker
      <3> HIDE DEF v
      <3> QED BY <3>2, <3>3, <3>4, WorkerReplaced
    <2>3. CASE wk' = [wk EXCEPT ![w].pc = "call", ![w].journal = loaded]
      <3>1. loaded \in Journal /\ WellFormed(loaded) /\ loaded.wallet # None
        <4>2. wallet # None
          BY <1>1, NoneAssumption, PoolAssumption DEF Wallets
        <4> QED BY <1>a, <1>1, <4>2 DEF JournalTyped, Journal, WellFormed, OrNone
      <3> DEFINE v == after("call", loaded)
      <3>2. wk' = [wk EXCEPT ![w] = v]
        BY <1>a, <2>3 DEF WorkersTyped
      <3>3. v \in Worker
        BY <1>0, <3>1 DEF Worker, PCs
      <3>4. WorkerShape(v)
        BY <1>0, <3>1 DEF WorkerShape, LockedPCs, Worker
      <3> HIDE DEF v
      <3> QED BY <3>2, <3>3, <3>4, WorkerReplaced
    <2> QED BY <2>1, <2>2, <2>3 DEF StartUpload, wallet
  <1> QED BY <1>a, <1>2, <1>3, <1>4, PrimedParts
      DEF StartUpload, NoFault, JournalTyped, QueueTyped, ServerTyped, WorldTyped

\* The journal a worker holds inside the locked section.
LEMMA HeldJournal ==
  ASSUME Typed, NEW w \in Workers, wk[w].pc \in LockedPCs
  PROVE  /\ wk[w].journal \in Journal /\ WellFormed(wk[w].journal)
         /\ wk[w].journal.wallet \in Wallets /\ wk[w].journal.wallet # None
         /\ wk[w].job \in Job /\ wk[w].pc # "idle"
         /\ wk[w] \in Worker /\ WorkerShape(wk[w])
         /\ wk[w].journal.step \in Registered => wk[w].journal.obj \in Txs
  <1>1. wk[w] \in Worker /\ WorkerShape(wk[w]) /\ wk[w].pc # "idle"
    BY DEF Typed, TypeOK, ShapeInv, LockedPCs
  <1>2. wk[w].journal \in Journal /\ WellFormed(wk[w].journal)
        /\ wk[w].journal.wallet # None
    BY <1>1 DEF Worker, WorkerShape
  <1>3. wk[w].job \in Job
    BY <1>1, JobOf
  <1> QED BY <1>1, <1>2, <1>3 DEF Journal, OrNone, WellFormed

\* Every answer of the sidecar is a well-formed journal.
LEMMA SidecarTyped ==
  ASSUME Typed, NEW w \in Workers,
         \/ SidecarEncode(w) \/ SidecarPrepare(w) \/ SidecarRegister(w)
         \/ SidecarUpload(w) \/ SidecarCertify(w)
  PROVE  Typed'
  <1> USE DEF NoFault, Fault
  <1>a. /\ RowTyped /\ JournalTyped /\ QueueTyped /\ WorkersTyped /\ ServerTyped
        /\ WorldTyped
    BY TypedParts
  <1>b. wk[w].pc \in LockedPCs
    BY DEF SidecarEncode, SidecarPrepare, SidecarRegister, SidecarUpload,
           SidecarCertify, InCall, LockedPCs
  <1> DEFINE j == wk[w].journal
  <1>c. /\ j \in Journal /\ WellFormed(j) /\ j.wallet \in Wallets /\ j.wallet # None
        /\ wk[w].job \in Job /\ wk[w].pc # "idle"
        /\ j.step \in Registered => j.obj \in Txs
    BY <1>b, HeldJournal
  <1>d. wk[w].job.ct \in Tokens /\ wk[w].job.ct # None
    BY <1>c, NoneAssumption DEF Job
  <1>1. CASE SidecarEncode(w)
    <2> DEFINE k == [j EXCEPT !.step = "encoded", !.ct = wk[w].job.ct]
    <2>1. k \in Journal /\ WellFormed(k) /\ k.wallet # None /\ k.step # "start"
      BY <1>1, <1>c, <1>d
      DEF SidecarEncode, InCall, Journal, WellFormed, Steps, OrNone, Registered
    <2>2. WorkersTyped'
      <3> HIDE DEF k
      <3> QED BY <1>1, <1>c, <2>1, AnswerTyped DEF SidecarEncode, k
    <2> QED BY <1>1, <1>a, <2>2, PrimedParts
        DEF SidecarEncode, RowTyped, JournalTyped, QueueTyped, ServerTyped, WorldTyped
  <1>2. CASE SidecarPrepare(w)
    <2>1. PICK t \in Txs :
            /\ chain' = [chain EXCEPT ![t] = [NoTx EXCEPT !.st = "signed",
                             !.ct = wk[w].journal.ct, !.wallet = wk[w].journal.wallet]]
            /\ wk' = Answer(w, [wk[w].journal EXCEPT !.tx = t])
      BY <1>2 DEF SidecarPrepare
    <2> DEFINE k == [j EXCEPT !.tx = t]
               tx == [NoTx EXCEPT !.st = "signed", !.ct = j.ct, !.wallet = j.wallet]
    <2>2. k \in Journal /\ WellFormed(k) /\ k.wallet # None /\ k.step # "start"
      BY <1>2, <1>c DEF SidecarPrepare, InCall, Journal, WellFormed, OrNone, Registered
    <2>3. tx \in TxState
      BY <1>c DEF NoTx, TxState, Journal, OrNone
    <2>4. chain' \in [Txs -> TxState]
      <3> HIDE DEF tx
      <3> QED BY <1>a, <2>1, <2>3 DEF WorldTyped, tx
    <2>5. WorkersTyped'
      <3> HIDE DEF k
      <3> QED BY <1>c, <2>1, <2>2, AnswerTyped DEF k
    <2> QED BY <1>2, <1>a, <2>4, <2>5, PrimedParts
        DEF SidecarPrepare, RowTyped, JournalTyped, QueueTyped, ServerTyped, WorldTyped
  <1>3. CASE SidecarRegister(w)
    <2>0. j.tx \in Txs /\ j.step = "encoded"
      BY <1>3, <1>c DEF SidecarRegister, InCall, Journal, OrNone
    <2> DEFINE k == [j EXCEPT !.step = "registered", !.tx = None, !.obj = j.tx]
    <2>1. k \in Journal /\ WellFormed(k) /\ k.wallet # None /\ k.step # "start"
      BY <2>0, <1>c, NoneAssumption DEF Journal, WellFormed, Steps, OrNone, Registered
    <2>2. WorkersTyped'
      <3> HIDE DEF k
      <3> QED BY <1>3, <1>c, <2>1, AnswerTyped DEF SidecarRegister, k
    <2>3. chain' \in [Txs -> TxState]
      BY <1>3, <1>a, <2>0, EffectsTyped DEF SidecarRegister, WorldTyped
    <2> QED BY <1>3, <1>a, <2>2, <2>3, PrimedParts
        DEF SidecarRegister, RowTyped, JournalTyped, QueueTyped, ServerTyped, WorldTyped
  <1>4. CASE SidecarUpload(w)
    <2> DEFINE k == [j EXCEPT !.step = IF chain[j.obj].certified
                                       THEN "certified" ELSE "uploaded"]
    <2>1. k \in Journal /\ WellFormed(k) /\ k.wallet # None /\ k.step # "start"
      BY <1>4, <1>c DEF SidecarUpload, InCall, Journal, WellFormed, Steps, Registered
    <2>2. WorkersTyped'
      <3> HIDE DEF k
      <3> QED BY <1>4, <1>c, <2>1, AnswerTyped DEF SidecarUpload, k
    <2> QED BY <1>4, <1>a, <2>2, PrimedParts
        DEF SidecarUpload, RowTyped, JournalTyped, QueueTyped, ServerTyped, WorldTyped
  <1>5. CASE SidecarCertify(w)
    <2>0. j.obj \in Txs /\ j.step \in Registered
      BY <1>5, <1>c DEF SidecarCertify, InCall, Registered
    <2> DEFINE k == [j EXCEPT !.step = "certified"]
    <2>1. k \in Journal /\ WellFormed(k) /\ k.wallet # None /\ k.step # "start"
      BY <2>0, <1>c DEF Journal, WellFormed, Steps, Registered
    <2>2. WorkersTyped'
      <3> HIDE DEF k
      <3> QED BY <1>5, <1>c, <2>1, AnswerTyped DEF SidecarCertify, k
    <2>3. chain' \in [Txs -> TxState]
      BY <1>5, <1>a, <2>0, EffectsTyped DEF SidecarCertify, WorldTyped
    <2> QED BY <1>5, <1>a, <2>2, <2>3, PrimedParts
        DEF SidecarCertify, RowTyped, JournalTyped, QueueTyped, ServerTyped, WorldTyped
  <1> QED BY <1>1, <1>2, <1>3, <1>4, <1>5

\* Steps that end or defer an upload attempt, and the durable checkpoints.
LEMMA UploadEndTyped ==
  ASSUME Typed, NEW w \in Workers,
         \/ DeferUpload(w) \/ StartUploadFails(w) \/ CallRejected(w)
         \/ RegisterReverts(w) \/ CallFails(w) \/ PersistFails(w)
  PROVE  Typed'
  <1> USE DEF NoFault, Fault
  <1>a. /\ RowTyped /\ JournalTyped /\ QueueTyped /\ WorkersTyped /\ ServerTyped
        /\ WorldTyped
    BY TypedParts
  <1>b. wk[w].pc # "idle"
    BY DEF DeferUpload, StartUploadFails, CallRejected, RegisterReverts, CallFails,
           PersistFails, InCall
  <1>c. faults' \in Nat
    BY <1>a DEF WorldTyped, DeferUpload, StartUploadFails, CallRejected,
                RegisterReverts, CallFails, PersistFails
  <1>d. ASSUME \E result \in {"error", "abort"} : AbandonUpload(w, result)
        PROVE  RowTyped' /\ WorkersTyped' /\ lock' \in OrNone(Workers)
    BY <1>b, <1>d, AbandonTyped
  <1>1. CASE DeferUpload(w)
    <2>1. RowTyped'
      BY <1>1, <1>a DEF DeferUpload, AfterWalletError, RowTyped, Row, Statuses
    <2>2. WorkersTyped'
      BY <1>1, <1>b, ReturnTyped DEF DeferUpload
    <2> QED BY <1>1, <1>a, <1>c, <2>1, <2>2, PrimedParts
        DEF DeferUpload, JournalTyped, QueueTyped, ServerTyped, WorldTyped
  <1>2. CASE StartUploadFails(w)
    <2>1. WorkersTyped'
      BY <1>2, <1>b, ReturnTyped DEF StartUploadFails
    <2> QED BY <1>2, <1>a, <1>c, <2>1, PrimedParts
        DEF StartUploadFails, RowTyped, JournalTyped, QueueTyped, ServerTyped, WorldTyped
  <1>3. CASE CallRejected(w)
    <2>1. RowTyped' /\ WorkersTyped' /\ lock' \in OrNone(Workers)
      BY <1>3, <1>d DEF CallRejected
    <2> QED BY <1>3, <1>a, <1>c, <2>1, PrimedParts
        DEF CallRejected, JournalTyped, QueueTyped, ServerTyped, WorldTyped
  <1>4. CASE RegisterReverts(w)
    <2>1. RowTyped' /\ WorkersTyped' /\ lock' \in OrNone(Workers)
      BY <1>4, <1>d DEF RegisterReverts
    <2>2. chain' \in [Txs -> TxState]
      <3> DEFINE t == wk[w].journal.tx
                 failed == [chain[t] EXCEPT !.st = "failed"]
      <3>1. t \in Txs
        <4>1. wk[w].journal \in Journal
          BY <1>4, HeldJournal DEF RegisterReverts, InCall, LockedPCs
        <4> QED BY <1>4, <4>1 DEF RegisterReverts, Journal, OrNone
      <3>2. failed \in TxState
        BY <1>a, <3>1 DEF WorldTyped, TxState
      <3>3. chain' = [chain EXCEPT ![t] = failed]
        BY <1>4 DEF RegisterReverts
      <3> HIDE DEF failed
      <3> QED BY <1>a, <3>1, <3>2, <3>3 DEF WorldTyped
    <2> QED BY <1>4, <1>a, <1>c, <2>1, <2>2, PrimedParts
        DEF RegisterReverts, JournalTyped, QueueTyped, ServerTyped, WorldTyped
  <1>5. CASE CallFails(w)
    <2>1. RowTyped' /\ WorkersTyped' /\ lock' \in OrNone(Workers)
      BY <1>5, <1>d DEF CallFails
    <2>2. orphans' \subseteq Orphan
      BY <1>5, <1>a, InFlightTyped DEF CallFails, WorldTyped
    <2> QED BY <1>5, <1>a, <1>c, <2>1, <2>2, PrimedParts
        DEF CallFails, JournalTyped, QueueTyped, ServerTyped, WorldTyped
  <1>6. CASE PersistFails(w)
    <2>1. RowTyped' /\ WorkersTyped' /\ lock' \in OrNone(Workers)
      BY <1>6, <1>d DEF PersistFails
    <2> QED BY <1>6, <1>a, <1>c, <2>1, PrimedParts
        DEF PersistFails, JournalTyped, QueueTyped, ServerTyped, WorldTyped
  <1> QED BY <1>1, <1>2, <1>3, <1>4, <1>5, <1>6

\* The durable checkpoints and the handoff keep the records typed.
LEMMA CheckpointTyped ==
  ASSUME Typed, NEW w \in Workers,
         PersistStep(w) \/ PersistUploaded(w) \/ Handoff(w) \/ HandoffFails(w)
  PROVE  Typed'
  <1> USE DEF NoFault, Fault
  <1>a. /\ RowTyped /\ JournalTyped /\ QueueTyped /\ WorkersTyped /\ ServerTyped
        /\ WorldTyped
    BY TypedParts
  <1> DEFINE j == wk[w].journal
  <1>b. /\ j \in Journal /\ WellFormed(j) /\ j.wallet \in Wallets /\ j.wallet # None
        /\ wk[w].job \in Job /\ wk[w].pc # "idle"
        /\ wk[w] \in Worker /\ WorkerShape(wk[w])
        /\ j.step \in Registered => j.obj \in Txs
    BY HeldJournal DEF PersistStep, PersistUploaded, Handoff, HandoffFails, LockedPCs
  <1>c. ASSUME wk[w].pc \in {"certified", "handoff"}
        PROVE  j.ct \in Tokens /\ j.obj \in Txs /\ j.obj # None
    BY <1>b, <1>c, NoneAssumption
    DEF WorkerShape, WellFormed, Registered, Journal, OrNone
  <1>1. CASE PersistStep(w)
    <2> DEFINE v == [wk[w] EXCEPT !.pc = IF j.step = "certified" THEN "certified"
                                         ELSE "call"]
    <2>1. v \in Worker
      BY <1>b DEF Worker, PCs
    <2>2. WorkerShape(v)
      BY <1>1, <1>b DEF PersistStep, WorkerShape, LockedPCs, Worker
    <2>3. wk' = [wk EXCEPT ![w] = v]
      BY <1>1, <1>a DEF PersistStep, WorkersTyped
    <2> HIDE DEF v
    <2>4. WorkersTyped'
      BY <2>1, <2>2, <2>3, WorkerReplaced
    <2> QED BY <1>1, <1>a, <1>b, <2>4, PrimedParts
        DEF PersistStep, RowTyped, JournalTyped, QueueTyped, ServerTyped, WorldTyped
  <1>2. CASE PersistUploaded(w)
    <2> DEFINE v == [wk[w] EXCEPT !.pc = "handoff"]
    <2>1. v \in Worker
      BY <1>b DEF Worker, PCs
    <2>2. WorkerShape(v)
      BY <1>2, <1>b DEF PersistUploaded, WorkerShape, LockedPCs, Worker
    <2>3. wk' = [wk EXCEPT ![w] = v]
      BY <1>2, <1>a DEF PersistUploaded, WorkersTyped
    <2> HIDE DEF v
    <2>4. WorkersTyped'
      BY <2>1, <2>2, <2>3, WorkerReplaced
    <2>5. RowTyped'
      BY <1>2, <1>a, <1>c DEF PersistUploaded, RowTyped, Row, Statuses, OrNone
    <2> QED BY <1>2, <1>a, <2>4, <2>5, PrimedParts
        DEF PersistUploaded, JournalTyped, QueueTyped, ServerTyped, WorldTyped
  <1>3. CASE Handoff(w)
    <2>1. WorkersTyped'
      BY <1>3, <1>b, ReturnTyped DEF Handoff
    <2>2. TransferJob(w) \in Job /\ TransferJob(w).obj # None
      BY <1>3, <1>b, <1>c DEF Handoff, TransferJob, Job, Ops, OrNone
    <2>3. QueueTyped'
      BY <1>3, <2>2, PushTyped, NoneIsNoJob DEF Handoff, JobShape
    <2> QED BY <1>3, <1>a, <2>1, <2>3, PrimedParts
        DEF Handoff, RowTyped, JournalTyped, ServerTyped, WorldTyped, OrNone
  <1>4. CASE HandoffFails(w)
    <2>1. WorkersTyped'
      BY <1>4, <1>b, ReturnTyped DEF HandoffFails
    <2>2. RowTyped'
      BY <1>4, <1>a DEF HandoffFails, RowTyped, MarkFailed, Row, Statuses
    <2> QED BY <1>4, <1>a, <2>1, <2>2, PrimedParts
        DEF HandoffFails, JournalTyped, QueueTyped, ServerTyped, WorldTyped, OrNone
  <1> QED BY <1>1, <1>2, <1>3, <1>4

\* Transfer, indexing and rescue keep the records typed.
LEMMA DeliverTyped ==
  ASSUME Typed, RowInv, NEW w \in Workers, DeliverStep(w)
  PROVE  Typed'
  <1> USE DEF NoFault, Fault
  <1>a. /\ RowTyped /\ JournalTyped /\ QueueTyped /\ WorkersTyped /\ ServerTyped
        /\ WorldTyped
    BY TypedParts
  <1>b. /\ wk[w].pc # "idle" /\ wk[w].job \in Job /\ JobShape(wk[w].job)
        /\ wk[w] \in Worker /\ WorkerShape(wk[w])
    BY <1>a, JobOf
    DEF DeliverStep, TransferSucceeds, TransferRejected, TransferFails, IndexAndDone,
        IndexFails, Rescue, RescueFails, WorkersTyped
  <1>1. CASE TransferSucceeds(w)
    <2>0. wk[w].job.obj \in Txs
      BY <1>1, <1>b DEF TransferSucceeds, WorkerShape, JobShape, Job, OrNone
    <2>1. chain' \in [Txs -> TxState]
      BY <1>1, <1>a, <2>0, EffectsTyped DEF TransferSucceeds, WorldTyped
    <2> DEFINE v == [wk[w] EXCEPT !.pc = "index"]
    <2>2. v \in Worker
      BY <1>b DEF Worker, PCs
    <2>3. WorkerShape(v)
      BY <1>b DEF WorkerShape, LockedPCs, Worker
    <2>4. wk' = [wk EXCEPT ![w] = v]
      BY <1>1, <1>a DEF TransferSucceeds, WorkersTyped
    <2> HIDE DEF v
    <2>5. WorkersTyped'
      BY <2>2, <2>3, <2>4, WorkerReplaced
    <2> QED BY <1>1, <1>a, <2>1, <2>5, PrimedParts
        DEF TransferSucceeds, RowTyped, JournalTyped, QueueTyped, ServerTyped, WorldTyped
  <1>2. ASSUME NEW result \in {"error", "abort"}, row' = AfterWalletError(row, result)
        PROVE  RowTyped'
    BY <1>2, <1>a DEF AfterWalletError, RowTyped, Row, Statuses
  <1>3. CASE TransferRejected(w)
    <2>1. RowTyped' /\ WorkersTyped'
      BY <1>3, <1>2, <1>b, ReturnTyped DEF TransferRejected
    <2> QED BY <1>3, <1>a, <2>1, PrimedParts
        DEF TransferRejected, JournalTyped, QueueTyped, ServerTyped, WorldTyped
  <1>4. CASE TransferFails(w)
    <2>1. RowTyped' /\ WorkersTyped'
      BY <1>4, <1>2, <1>b, ReturnTyped DEF TransferFails
    <2>2. orphans' \subseteq Orphan
      <3>1. orphans' = orphans \/ orphans' = orphans \cup InFlight(w)
        BY <1>4 DEF TransferFails
      <3> QED BY <1>a, <3>1, InFlightTyped DEF WorldTyped
    <2> QED BY <1>4, <1>a, <2>1, <2>2, PrimedParts
        DEF TransferFails, JournalTyped, QueueTyped, ServerTyped, WorldTyped
  <1>5. CASE IndexAndDone(w)
    <2>0. wk[w].job.blob \in OrNone(Tokens)
      BY <1>b DEF Job
    <2>1. RowTyped'
      <3>1. row.obj # None
        BY <1>5, <1>a DEF IndexAndDone, RowInv, Delivering, RowTyped
      <3>2. row' = row \/ row' = DoneRow(row, wk[w].job.blob)
        BY <1>5 DEF IndexAndDone
      <3> QED BY <1>a, <2>0, <3>1, <3>2 DEF RowTyped, DoneRow, Row, Statuses, OrNone
    <2>2. WorkersTyped'
      BY <1>5, <1>b, ReturnTyped DEF IndexAndDone
    <2> QED BY <1>5, <1>a, <2>0, <2>1, <2>2, PrimedParts
        DEF IndexAndDone, JournalTyped, QueueTyped, ServerTyped, WorldTyped
  <1>6. CASE IndexFails(w)
    <2>1. RowTyped'
      BY <1>6, <1>2 DEF IndexFails
    <2> DEFINE v == [wk[w] EXCEPT !.pc = "rescue"]
    <2>2. v \in Worker
      BY <1>b DEF Worker, PCs
    <2>3. WorkerShape(v)
      BY <1>b DEF WorkerShape, LockedPCs, Worker
    <2>4. \/ wk' = [wk EXCEPT ![w] = v]
          \/ \E result \in {"error", "abort"} : wk' = Return(w, result)
      BY <1>6, <1>a DEF IndexFails, WorkersTyped
    <2> HIDE DEF v
    <2>5. WorkersTyped'
      BY <1>b, <2>2, <2>3, <2>4, WorkerReplaced, ReturnTyped
    <2> QED BY <1>6, <1>a, <2>1, <2>5, PrimedParts
        DEF IndexFails, JournalTyped, QueueTyped, ServerTyped, WorldTyped
  <1>7. CASE Rescue(w)
    <2>1. WorkersTyped'
      BY <1>7, <1>b, ReturnTyped DEF Rescue
    <2> DEFINE job == [wk[w].job EXCEPT !.op = "finalize"]
    <2>2. job \in Job /\ job.op # "transfer"
      BY <1>b DEF Job, Ops
    <2>3. JobShape(job)
      BY <2>2, NoneIsNoJob DEF JobShape
    <2> HIDE DEF job
    <2>4. QueueTyped'
      BY <1>7, <2>2, <2>3, PushTyped DEF Rescue, job
    <2> QED BY <1>7, <1>a, <2>1, <2>4, PrimedParts
        DEF Rescue, RowTyped, JournalTyped, ServerTyped, WorldTyped
  <1>8. CASE RescueFails(w)
    <2>1. WorkersTyped'
      BY <1>8, <1>b, ReturnTyped DEF RescueFails
    <2>2. RowTyped'
      BY <1>8, <1>a DEF RescueFails, RowTyped, MarkFailed, Row, Statuses
    <2> QED BY <1>8, <1>a, <2>1, <2>2, PrimedParts
        DEF RescueFails, JournalTyped, QueueTyped, ServerTyped, WorldTyped
  <1> QED BY <1>1, <1>3, <1>4, <1>5, <1>6, <1>7, <1>8 DEF DeliverStep

\* Late requests, timers, the sweep and a crash keep the records typed.
LEMMA EnvironmentTyped ==
  ASSUME Typed, (\E o \in orphans : OrphanRuns(o)) \/ LeaseExpires \/ Sweep \/ Crash
  PROVE  Typed'
  <1> USE DEF NoFault, Fault
  <1>a. /\ RowTyped /\ JournalTyped /\ QueueTyped /\ WorkersTyped /\ ServerTyped
        /\ WorldTyped
    BY TypedParts
  <1>1. ASSUME NEW o \in orphans, OrphanRuns(o) PROVE Typed'
    <2>0. o \in Orphan
      BY <1>a DEF WorldTyped
    <2>1. chain' \in RegisterEffects(chain, o.tx) \cup CertifyEffects(chain, o.tx)
                      \cup TransferEffects(chain, o.tx, o.wallet)
      BY <1>1, <2>0 DEF OrphanRuns, Orphan
    <2>2. chain' \in [Txs -> TxState]
      BY <1>a, <2>0, <2>1, EffectsTyped DEF WorldTyped, Orphan
    <2> QED BY <1>1, <1>a, <2>2, PrimedParts
        DEF OrphanRuns, RowTyped, JournalTyped, QueueTyped, WorkersTyped, ServerTyped,
            WorldTyped
  <1>2. CASE LeaseExpires
    <2>1. RowTyped'
      BY <1>2, <1>a DEF LeaseExpires, RowTyped, Row
    <2> QED BY <1>2, <1>a, <2>1, PrimedParts
        DEF LeaseExpires, JournalTyped, QueueTyped, WorkersTyped, ServerTyped, WorldTyped
  <1>3. CASE Sweep
    <2>1. RowTyped'
      BY <1>3, <1>a DEF Sweep, RowTyped, Row, Statuses
    <2> QED BY <1>3, <1>a, <2>1, PrimedParts
        DEF Sweep, JournalTyped, QueueTyped, WorkersTyped, ServerTyped, WorldTyped
  <1>4. CASE Crash
    <2>1. IdleWorker \in Worker
      BY DEF IdleWorker, Worker, NoJournal, Journal, OrNone, Steps, PCs
    <2>2. WorkerShape(IdleWorker)
      BY DEF IdleWorker, WorkerShape, LockedPCs
    <2>3. WorkersTyped'
      BY <1>4, <2>1, <2>2 DEF Crash, WorkersTyped
    <2>4. orphans' \subseteq Orphan
      BY <1>4, <1>a, InFlightTyped DEF Crash, WorldTyped
    <2>5. fresh' \in BOOLEAN
      BY <1>4 DEF Crash
    <2> QED BY <1>4, <1>a, <2>3, <2>4, <2>5, PrimedParts
        DEF Crash, RowTyped, JournalTyped, QueueTyped, ServerTyped, WorldTyped, OrNone
  <1> QED BY <1>1, <1>2, <1>3, <1>4

\* The initial state is well typed and well shaped.
LEMMA InitTyped == Init => Typed
  <1> SUFFICES ASSUME Init PROVE Typed
    OBVIOUS
  <1>1. TypeOK
    BY InitType
  <1>2. WellFormed(journal)
    BY DEF Init, NoJournal, WellFormed, Registered
  <1>3. WorkerShape(IdleWorker)
    BY DEF IdleWorker, WorkerShape, LockedPCs
  <1>4. \A q \in Slots : queue[q].st = "Done"
    BY DEF Init, DoneEntry
  <1>5. row.blob = None
    BY DEF Init
  <1> QED BY <1>1, <1>2, <1>3, <1>4, <1>5 DEF Typed, ShapeInv, Init

\* One step of the pipeline keeps every record well typed and well shaped.
LEMMA NextTyped == Typed /\ RowInv /\ [Next]_vars => Typed'
  <1> SUFFICES ASSUME Typed, RowInv, [Next]_vars PROVE Typed'
    OBVIOUS
  <1>1. CASE RequestStep
    BY <1>1, RequestTyped
  <1>2. ASSUME NEW w \in Workers,
               (\E q \in Slots : Dispatch(w, q)) \/ Ack(w) \/ FanOut(w)
        PROVE  Typed'
    BY <1>2, QueueStepTyped
  <1>3. ASSUME NEW w \in Workers, UploadStep(w) PROVE Typed'
    BY <1>3, StartTyped, SidecarTyped, UploadEndTyped, CheckpointTyped DEF UploadStep
  <1>4. ASSUME NEW w \in Workers, DeliverStep(w) PROVE Typed'
    BY <1>4, DeliverTyped
  <1>5. CASE (\E o \in orphans : OrphanRuns(o)) \/ LeaseExpires \/ Sweep \/ Crash
    BY <1>5, EnvironmentTyped
  <1>6. CASE UNCHANGED vars
    BY <1>6, TypedParts, PrimedParts
    DEF vars, RowTyped, JournalTyped, QueueTyped, WorkersTyped, ServerTyped, WorldTyped
  <1> QED BY <1>1, <1>2, <1>3, <1>4, <1>5, <1>6 DEF Next
====

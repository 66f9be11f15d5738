------------------------ MODULE RememberPipelineProofs ------------------------
(***************************************************************************)
(* The safety properties of RememberPipeline, for every pool size, number  *)
(* of workers, queue bound, and budget of crashes and faults.              *)
(***************************************************************************)
EXTENDS RememberPipelineTypeProofs

-------------------------------------------------------------------------------
(* The lock.                                                               *)

\* A step that changes one worker, and the lock only if nobody else holds it.
LEMMA LockFrame ==
  ASSUME Typed, LockInv, NEW w \in Workers,
         \A u \in Workers : u # w => wk'[u] = wk[u],
         wk'[w].pc \in LockedPCs => lock' = w,
         lock' = lock \/ lock = w \/ lock = None
  PROVE  LockInv'
  <1>1. None \notin Workers
    BY NoneAssumption
  <1> QED BY <1>1 DEF LockInv

\* Returning changes nobody else.
LEMMA ReturnFrame ==
  ASSUME Typed, NEW w \in Workers, NEW result, wk' = Return(w, result)
  PROVE  /\ \A u \in Workers : u # w => wk'[u] = wk[u]
         /\ wk'[w].pc = "ack" /\ wk'[w].job = wk[w].job /\ wk'[w].slot = wk[w].slot
  BY DEF Typed, TypeOK, Return, Worker

\* An answer of the sidecar moves its own worker only.
LEMMA AnswerFrame ==
  ASSUME Typed, NEW w \in Workers, NEW j, wk' = Answer(w, j)
  PROVE  /\ \A u \in Workers : u # w => wk'[u] = wk[u]
         /\ wk'[w].pc = "answer" /\ wk'[w].job = wk[w].job /\ wk'[w].journal = j
  BY DEF Typed, TypeOK, Answer, Worker

\* Steps of a worker that stays, or comes to be, outside the locked section.
Leaving(w) ==
    \/ Ack(w) \/ FanOut(w) \/ DeferUpload(w) \/ StartUploadFails(w)
    \/ CallRejected(w) \/ RegisterReverts(w) \/ CallFails(w) \/ PersistFails(w)
    \/ Handoff(w) \/ HandoffFails(w) \/ DeliverStep(w)
    \/ \E q \in Slots : Dispatch(w, q)

\* Such a step touches no other worker, and the lock only if it is its own.
LEMMA LeavingFrame ==
  ASSUME Typed, LockInv, NEW w \in Workers, Leaving(w)
  PROVE  /\ \A u \in Workers : u # w => wk'[u] = wk[u]
         /\ wk'[w].pc \notin LockedPCs
         /\ lock' = lock \/ lock = w
  <1>a. wk \in [Workers -> Worker] /\ (wk[w].pc \in LockedPCs => lock = w)
    BY DEF Typed, TypeOK, LockInv
  <1>1. CASE Ack(w)
    BY <1>1, <1>a DEF Ack, IdleWorker, LockedPCs
  <1>2. CASE \E q \in Slots : Dispatch(w, q)
    <2>1. PICK q \in Slots : Dispatch(w, q)
      BY <1>2
    <2>2. queue[q].job \in Job
      BY <2>1, JobOf DEF Dispatch
    <2> QED BY <2>1, <2>2, <1>a DEF Dispatch, EntryPoint, LockedPCs
  <1>3. lock' = lock \/ lock = w
    <2>1. CASE Ack(w) \/ FanOut(w) \/ DeferUpload(w) \/ StartUploadFails(w)
      BY <2>1 DEF Ack, FanOut, DeferUpload, StartUploadFails
    <2>4. CASE \E q \in Slots : Dispatch(w, q)
      <3>1. PICK q \in Slots : UNCHANGED lock
        BY <2>4, Zenon DEF Dispatch
      <3> QED BY <3>1
    <2>2. CASE \/ CallRejected(w) \/ RegisterReverts(w) \/ CallFails(w)
               \/ PersistFails(w) \/ Handoff(w) \/ HandoffFails(w)
      <3>1. wk[w].pc \in {"call", "answer", "certified", "handoff"}
        BY <2>2, Zenon DEF CallRejected, RegisterReverts, CallFails, PersistFails,
                           Handoff, HandoffFails, InCall
      <3> QED BY <1>a, <3>1 DEF LockedPCs
    <2>3. CASE DeliverStep(w)
      BY <2>3 DEF DeliverStep, TransferSucceeds, TransferRejected, TransferFails,
                  IndexAndDone, IndexFails, Rescue, RescueFails
    <2> QED BY <2>1, <2>2, <2>3, <2>4 DEF Leaving
  <1>4. ASSUME NEW result, wk' = Return(w, result)
        PROVE  /\ \A u \in Workers : u # w => wk'[u] = wk[u]
               /\ wk'[w].pc \notin LockedPCs
    BY <1>4, ReturnFrame DEF LockedPCs
  <1>5. CASE \/ FanOut(w) \/ DeferUpload(w) \/ StartUploadFails(w)
             \/ CallRejected(w) \/ RegisterReverts(w) \/ CallFails(w) \/ PersistFails(w)
             \/ Handoff(w) \/ HandoffFails(w)
    <2>1. \E result : wk' = Return(w, result)
      BY <1>5 DEF FanOut, DeferUpload, StartUploadFails, CallRejected,
        RegisterReverts, CallFails, PersistFails, Handoff, HandoffFails, AbandonUpload
    <2> QED BY <1>3, <1>4, <2>1
  <1>6. CASE TransferSucceeds(w) \/ (IndexFails(w) /\ wk[w].job.op # "finalize")
    <2>1. \/ wk' = [wk EXCEPT ![w].pc = "index"]
          \/ wk' = [wk EXCEPT ![w].pc = "rescue"]
      BY <1>6 DEF TransferSucceeds, IndexFails
    <2>2. /\ \A u \in Workers : u # w => wk'[u] = wk[u]
          /\ wk'[w].pc \in {"index", "rescue"}
      BY <1>a, <2>1 DEF Worker
    <2> QED BY <1>3, <2>2 DEF LockedPCs
  <1>7. CASE \/ TransferRejected(w) \/ TransferFails(w) \/ IndexAndDone(w)
             \/ (IndexFails(w) /\ wk[w].job.op = "finalize") \/ Rescue(w) \/ RescueFails(w)
    <2>1. \E result : wk' = Return(w, result)
      BY <1>7 DEF TransferRejected, TransferFails, IndexAndDone, IndexFails, Rescue,
                  RescueFails
    <2> QED BY <1>3, <1>4, <2>1
  <1> QED BY <1>1, <1>2, <1>5, <1>6, <1>7 DEF Leaving, DeliverStep

\* No step puts a worker in the locked section without the lock.
LEMMA NextLock == Typed /\ LockInv /\ [Next]_vars => LockInv'
  <1> SUFFICES ASSUME Typed, LockInv, [Next]_vars PROVE LockInv'
    OBVIOUS
  <1>a. wk \in [Workers -> Worker] /\ \A w \in Workers : wk[w].pc \in LockedPCs => lock = w
    BY DEF Typed, TypeOK, LockInv
  <1>1. CASE UNCHANGED <<wk, lock>>
    BY <1>1 DEF LockInv
  <1>2. CASE RequestStep
    BY <1>1, <1>2
    DEF RequestStep, InsertRow, InsertBulkRow, ClaimInserted, ClaimPreparation,
        RetryUnpaid, RetryPaid, EnqueueRecovery, PublishRecovery, PersistPreparation, EnqueuePrepared,
        EnqueueBulk, PreparationFails, BulkPreparationFails
  <1>3. CASE (\E o \in orphans : OrphanRuns(o)) \/ LeaseExpires \/ Sweep \/ UNCHANGED vars
    BY <1>1, <1>3 DEF OrphanRuns, LeaseExpires, Sweep, vars
  <1>4. CASE Crash
    BY <1>4 DEF Crash, LockInv, IdleWorker, LockedPCs
  <1>5. ASSUME NEW w \in Workers, Leaving(w) PROVE LockInv'
    BY <1>5, LeavingFrame, LockFrame
  <1>6. ASSUME NEW w \in Workers, StartUpload(w) PROVE LockInv'
    <2>1. lock = None /\ \A u \in Workers : u # w => wk'[u] = wk[u]
      BY <1>6, <1>a DEF StartUpload, LockFree, Return
    <2>2. wk' = Return(w, "ok") \/ lock' = w
      BY <1>6 DEF StartUpload
    <2>3. wk'[w].pc \in LockedPCs => lock' = w
      BY <2>2, ReturnFrame DEF LockedPCs
    <2> QED BY <2>1, <2>3, LockFrame
  <1>7. ASSUME NEW w \in Workers,
               \/ SidecarEncode(w) \/ SidecarPrepare(w) \/ SidecarRegister(w)
               \/ SidecarUpload(w) \/ SidecarCertify(w)
        PROVE  LockInv'
    <2>1. (\E j : wk' = Answer(w, j)) /\ lock = w /\ lock' = lock
      BY <1>7, <1>a DEF SidecarEncode, SidecarPrepare, SidecarRegister, SidecarUpload,
                        SidecarCertify, InCall, LockedPCs
    <2> QED BY <2>1, AnswerFrame, LockFrame
  <1>8. ASSUME NEW w \in Workers, PersistStep(w) \/ PersistUploaded(w) PROVE LockInv'
    <2>1. /\ \A u \in Workers : u # w => wk'[u] = wk[u]
          /\ lock' = w /\ lock = w
      BY <1>8, <1>a DEF PersistStep, PersistUploaded, LockedPCs
    <2> QED BY <2>1, LockFrame
  <1> QED BY <1>2, <1>3, <1>4, <1>5, <1>6, <1>7, <1>8 DEF Next, UploadStep, Leaving

-------------------------------------------------------------------------------
(* The chain and the journal.                                              *)

\* From chain c to chain d nothing that was charged, certified or delivered is
\* undone, and a signed transaction keeps its content.
Grows(c, d) ==
    \A t \in Txs :
        /\ c[t].st # "none" => /\ d[t].st # "none" /\ d[t].ct = c[t].ct
                               /\ d[t].wallet = c[t].wallet
        /\ c[t].st = "ok" => d[t].st = "ok"
        /\ c[t].certified => d[t].certified
        /\ c[t].owner = "user" => d[t].owner = "user"

\* Every effect of a request on the chain is growth, at its own transaction.
LEMMA EffectsGrow ==
  ASSUME NEW c \in [Txs -> TxState], Owned(c), NEW t \in Txs, NEW wallet,
         NEW d \in RegisterEffects(c, t) \cup CertifyEffects(c, t)
                     \cup TransferEffects(c, t, wallet)
  PROVE  /\ Grows(c, d) /\ \A u \in Txs : u # t => d[u] = c[u]
         /\ d[t].st # c[t].st => c[t].st = "signed" /\ d[t].st \in {"ok", "failed"}
  <1>a. c[t] \in TxState
    OBVIOUS
  <1>1. CASE d \in RegisterEffects(c, t)
    <2>1. CASE d = c
      BY <2>1 DEF Grows
    <2>2. CASE /\ d = [c EXCEPT ![t].st = "ok", ![t].owner = "wallet"]
               /\ c[t].st = "signed"
      BY <1>a, <2>2 DEF Grows, Owned, TxState
    <2>3. CASE d = [c EXCEPT ![t].st = "failed"] /\ c[t].st = "signed"
      BY <1>a, <2>3 DEF Grows, TxState
    <2> QED BY <1>1, <2>1, <2>2, <2>3 DEF RegisterEffects
  <1>2. CASE d \in CertifyEffects(c, t)
    BY <1>a, <1>2 DEF CertifyEffects, Grows, TxState
  <1>3. CASE d \in TransferEffects(c, t, wallet)
    BY <1>a, <1>3 DEF TransferEffects, Grows, TxState
  <1> QED BY <1>1, <1>2, <1>3

\* What a journal says of the chain stays true as the chain grows.
LEMMA BackedKept ==
  ASSUME NEW c \in [Txs -> TxState], NEW d \in [Txs -> TxState], Grows(c, d),
         NEW j \in Journal, WellFormed(j), Backed(c, j)
  PROVE  Backed(d, j)
  <1>1. j.tx # None => j.tx \in Txs
    BY DEF Journal, OrNone
  <1>2. j.obj # None => j.obj \in Txs
    BY DEF Journal, OrNone
  <1>3. j.step = "certified" => j.obj # None
    BY DEF WellFormed, Registered
  <1> QED BY <1>1, <1>2, <1>3 DEF Backed, Grows

\* What is known of a lock holder stays true as the chain grows.
LEMMA HeldKept ==
  ASSUME NEW c \in [Txs -> TxState], NEW d \in [Txs -> TxState], Grows(c, d),
         NEW k, NEW v \in Worker, WorkerShape(v), HeldInv(c, k, v),
         v.pc = "answer" /\ v.journal.tx # None /\ c[v.journal.tx].st = "signed"
           => d[v.journal.tx].st = "signed"
  PROVE  HeldInv(d, k, v)
  <1>1. v.pc = "answer" => Backed(d, v.journal)
    BY BackedKept DEF HeldInv, WorkerShape, Worker, LockedPCs
  <1>2. v.pc = "answer" => OneAhead(d, v.journal, k)
    BY DEF HeldInv, OneAhead
  <1> QED BY <1>1, <1>2 DEF HeldInv

\* Workers outside the locked section owe the journal nothing.
LEMMA HeldOutside ==
  ASSUME NEW c, NEW k, NEW v, v.pc \notin LockedPCs
  PROVE  HeldInv(c, k, v)
  BY DEF HeldInv, LockedPCs

\* A step that leaves the journal alone, only adds to the chain, and moves no
\* worker into or within the locked section.
LEMMA JournalQuiet ==
  ASSUME Typed, Typed', JournalInv, journal' = journal, Grows(chain, chain'),
         \A u \in Workers : wk'[u].pc \in LockedPCs =>
            /\ wk'[u] = wk[u]
            /\ (wk[u].pc = "answer" /\ wk[u].journal.tx # None
                  /\ chain[wk[u].journal.tx].st = "signed")
                 => chain'[wk[u].journal.tx].st = "signed"
  PROVE  JournalInv'
  <1>a. /\ chain \in [Txs -> TxState] /\ chain' \in [Txs -> TxState]
        /\ journal \in Journal /\ WellFormed(journal)
    BY DEF Typed, TypeOK, ShapeInv
  <1>1. Backed(chain', journal)
    BY <1>a, BackedKept DEF JournalInv
  <1>2. ASSUME NEW u \in Workers PROVE HeldInv(chain', journal, wk'[u])
    <2>1. CASE wk'[u].pc \in LockedPCs
      <3>1. wk[u] \in Worker /\ WorkerShape(wk[u]) /\ HeldInv(chain, journal, wk[u])
        BY DEF Typed, TypeOK, ShapeInv, JournalInv
      <3> QED BY <1>a, <2>1, <3>1, HeldKept
    <2>2. CASE wk'[u].pc \notin LockedPCs
      BY <2>2, HeldOutside
    <2> QED BY <2>1, <2>2
  <1> QED BY <1>1, <1>2 DEF JournalInv

\* A step of the lock holder: it alone has to be looked at.
LEMMA JournalOfHolder ==
  ASSUME Typed, LockInv, NEW w \in Workers, wk[w].pc \in LockedPCs \/ lock = None,
         \A u \in Workers : u # w => wk'[u] = wk[u],
         Backed(chain', journal'), HeldInv(chain', journal', wk'[w])
  PROVE  JournalInv'
  <1>1. ASSUME NEW u \in Workers, u # w PROVE HeldInv(chain', journal', wk'[u])
    <2>1. wk[u].pc \notin LockedPCs
      BY <1>1, NoneAssumption DEF LockInv
    <2> QED BY <1>1, <2>1, HeldOutside
  <1> QED BY <1>1 DEF JournalInv

\* Nothing happening on chain is growth too.
LEMMA SameChainGrows == \A c : Grows(c, c)
  BY DEF Grows

\* A late request touches its own transaction only.
LEMMA OrphanEffect ==
  ASSUME Typed, ChainInv, NEW o \in orphans, OrphanRuns(o)
  PROVE  /\ o \in Orphan /\ o.tx \in Txs /\ Grows(chain, chain')
         /\ \A v \in Txs : v # o.tx => chain'[v] = chain[v]
  <1>1. o \in Orphan /\ chain \in [Txs -> TxState] /\ Owned(chain)
    BY DEF Typed, TypeOK, ChainInv
  <1>2. o.tx \in Txs
    BY <1>1 DEF Orphan
  <1>3. chain' \in RegisterEffects(chain, o.tx) \cup CertifyEffects(chain, o.tx)
                    \cup TransferEffects(chain, o.tx, o.wallet)
    BY <1>1 DEF OrphanRuns, Orphan
  <1> QED BY <1>1, <1>2, <1>3, EffectsGrow

\* The actions that write the chain.
LEMMA ChainFrame ==
  ASSUME Typed, [Next]_vars
  PROVE  \/ chain' = chain
         \/ \E w \in Workers : \/ SidecarPrepare(w) \/ SidecarRegister(w)
                               \/ SidecarCertify(w) \/ RegisterReverts(w)
                               \/ TransferSucceeds(w)
         \/ \E o \in orphans : OrphanRuns(o)
  <1>1. CASE RequestStep
    BY <1>1
    DEF RequestStep, InsertRow, InsertBulkRow, ClaimInserted, ClaimPreparation,
        RetryUnpaid, RetryPaid, EnqueueRecovery, PublishRecovery, PersistPreparation, EnqueuePrepared,
        EnqueueBulk, PreparationFails, BulkPreparationFails
  <1>2. ASSUME NEW w \in Workers, NEW q \in Slots, Dispatch(w, q) PROVE chain' = chain
    BY <1>2, Zenon DEF Dispatch
  <1>3. ASSUME NEW w \in Workers, Ack(w) \/ FanOut(w) PROVE chain' = chain
    BY <1>3, Zenon DEF Ack, FanOut
  <1>4. ASSUME NEW w \in Workers, UploadStep(w),
               ~SidecarPrepare(w), ~SidecarRegister(w), ~SidecarCertify(w),
               ~RegisterReverts(w)
        PROVE  chain' = chain
    BY <1>4, Zenon
    DEF UploadStep, DeferUpload, StartUpload, StartUploadFails, SidecarEncode,
        SidecarUpload, CallRejected, CallFails, PersistStep, PersistUploaded,
        PersistFails, Handoff, HandoffFails
  <1>5. ASSUME NEW w \in Workers, DeliverStep(w), ~TransferSucceeds(w)
        PROVE  chain' = chain
    BY <1>5, Zenon
    DEF DeliverStep, TransferRejected, TransferFails, IndexAndDone, IndexFails, Rescue,
        RescueFails
  <1>6. CASE LeaseExpires \/ Sweep \/ Crash \/ UNCHANGED vars
    BY <1>6 DEF LeaseExpires, Sweep, Crash, vars
  <1> QED BY <1>1, <1>2, <1>3, <1>4, <1>5, <1>6 DEF Next

\* Whatever runs, the chain only grows.
LEMMA NextGrows ==
  ASSUME Typed, ChainInv, [Next]_vars
  PROVE  Grows(chain, chain')
  <1>a. chain \in [Txs -> TxState] /\ Owned(chain)
    BY DEF Typed, TypeOK, ChainInv
  <1>1. CASE chain' = chain
    BY <1>1, SameChainGrows
  <1>2. ASSUME NEW w \in Workers, SidecarPrepare(w) PROVE Grows(chain, chain')
    <2>1. PICK t \in Txs :
            /\ chain[t].st = "none"
            /\ chain' = [chain EXCEPT ![t] = [NoTx EXCEPT !.st = "signed",
                             !.ct = wk[w].journal.ct, !.wallet = wk[w].journal.wallet]]
      BY <1>2 DEF SidecarPrepare
    <2>2. \A u \in Txs : u # t => chain'[u] = chain[u]
      BY <1>a, <2>1
    <2>3. chain[t].owner # "user"
      BY <1>a, <2>1 DEF Owned
    <2>4. ~chain[t].certified
      BY <1>a, <2>1 DEF Owned
    <2> QED BY <2>1, <2>2, <2>3, <2>4 DEF Grows
  <1>3. ASSUME NEW w \in Workers, SidecarRegister(w) \/ SidecarCertify(w)
        PROVE  Grows(chain, chain')
    <2>1. wk[w].pc \in LockedPCs
      BY <1>3 DEF SidecarRegister, SidecarCertify, InCall, LockedPCs
    <2>2. CASE SidecarRegister(w)
      <3>1. wk[w].journal.tx \in Txs
        BY <2>1, <2>2, HeldJournal DEF SidecarRegister, Journal, OrNone
      <3> QED BY <1>a, <2>2, <3>1, EffectsGrow DEF SidecarRegister
    <2>3. CASE SidecarCertify(w)
      <3>1. wk[w].journal.obj \in Txs
        BY <2>1, <2>3, HeldJournal DEF SidecarCertify, InCall, Registered
      <3> QED BY <1>a, <2>3, <3>1, EffectsGrow DEF SidecarCertify
    <2> QED BY <1>3, <2>2, <2>3
  <1>4. ASSUME NEW w \in Workers, RegisterReverts(w) PROVE Grows(chain, chain')
    <2> DEFINE t == wk[w].journal.tx
    <2>1. t \in Txs
      BY <1>4, HeldJournal DEF RegisterReverts, InCall, LockedPCs, Journal, OrNone
    <2>2. chain' \in RegisterEffects(chain, t)
      BY <1>4 DEF RegisterReverts, RegisterEffects
    <2> QED BY <1>a, <2>1, <2>2, EffectsGrow
  <1>5. ASSUME NEW w \in Workers, TransferSucceeds(w) PROVE Grows(chain, chain')
    <2>1. wk[w].job.obj \in Txs
      <3>1. wk[w].job \in Job /\ wk[w].job.obj # None
        BY <1>5, JobOf DEF TransferSucceeds, JobShape, Typed, ShapeInv, WorkerShape
      <3> QED BY <3>1 DEF Job, OrNone
    <2> QED BY <1>5, <1>a, <2>1, EffectsGrow DEF TransferSucceeds
  <1>6. ASSUME NEW o \in orphans, OrphanRuns(o) PROVE Grows(chain, chain')
    BY <1>6, OrphanEffect
  <1> QED BY <1>1, <1>2, <1>3, <1>4, <1>5, <1>6, ChainFrame

\* The actions that write the journal, or enter or move in the locked section.
LEMMA HeldFrame ==
  ASSUME Typed, LockInv, [Next]_vars
  PROVE  \/ /\ journal' = journal
            /\ \A u \in Workers : wk'[u].pc \in LockedPCs => wk'[u] = wk[u]
         \/ \E w \in Workers :
              \/ StartUpload(w) \/ SidecarEncode(w) \/ SidecarPrepare(w)
              \/ SidecarRegister(w) \/ SidecarUpload(w) \/ SidecarCertify(w)
              \/ PersistStep(w) \/ PersistUploaded(w)
  <1>1. CASE RequestStep
    BY <1>1
    DEF RequestStep, InsertRow, InsertBulkRow, ClaimInserted, ClaimPreparation,
        RetryUnpaid, RetryPaid, EnqueueRecovery, PublishRecovery, PersistPreparation, EnqueuePrepared,
        EnqueueBulk, PreparationFails, BulkPreparationFails
  <1>2. ASSUME NEW w \in Workers, Leaving(w)
        PROVE  journal' = journal /\ \A u \in Workers : wk'[u].pc \in LockedPCs => wk'[u] = wk[u]
    <2>1. journal' = journal
      BY <1>2, Zenon
      DEF Leaving, Ack, FanOut, DeferUpload, StartUploadFails, CallRejected,
          RegisterReverts, CallFails, PersistFails, Handoff, HandoffFails, DeliverStep,
          TransferSucceeds, TransferRejected, TransferFails, IndexAndDone, IndexFails,
          Rescue, RescueFails, Dispatch
    <2> QED BY <1>2, <2>1, LeavingFrame
  <1>3. CASE (\E o \in orphans : OrphanRuns(o)) \/ LeaseExpires \/ Sweep \/ UNCHANGED vars
    BY <1>3, Zenon DEF OrphanRuns, LeaseExpires, Sweep, vars
  <1>4. CASE Crash
    BY <1>4 DEF Crash, IdleWorker, LockedPCs
  <1> QED BY <1>1, <1>2, <1>3, <1>4 DEF Next, UploadStep, Leaving

\* An answer is one step ahead of the durable journal.
LEMMA SidecarJournal ==
  ASSUME Typed, LockInv, JournalInv, ChainInv, NEW w \in Workers, Grows(chain, chain'), Typed',
         \/ SidecarEncode(w) \/ SidecarPrepare(w) \/ SidecarRegister(w)
         \/ SidecarUpload(w) \/ SidecarCertify(w)
  PROVE  JournalInv'
  <1> DEFINE j == wk[w].journal
  <1>a. /\ chain \in [Txs -> TxState] /\ chain' \in [Txs -> TxState]
        /\ journal \in Journal /\ WellFormed(journal) /\ Backed(chain, journal)
    BY DEF Typed, TypeOK, ShapeInv, JournalInv
  <1>b. /\ wk[w].pc = "call" /\ wk[w].pc \in LockedPCs
        /\ journal' = journal
    BY DEF SidecarEncode, SidecarPrepare, SidecarRegister, SidecarUpload,
           SidecarCertify, InCall, LockedPCs
  <1>c. /\ j \in Journal /\ WellFormed(j) /\ j.wallet # None
        /\ j.step \in Registered => j.obj \in Txs
    BY <1>b, HeldJournal
  <1>d. Extends(j, journal) /\ SameStep(j, journal)
    BY <1>b DEF JournalInv, HeldInv
  <1>e. Backed(chain', journal)
    BY <1>a, BackedKept
  <1>f. SUFFICES ASSUME NEW k, wk' = Answer(w, k)
                 PROVE  Extends(k, journal) /\ OneAhead(chain', k, journal) /\ Backed(chain', k)
    <2>1. PICK k : wk' = Answer(w, k)
      BY DEF SidecarEncode, SidecarPrepare, SidecarRegister, SidecarUpload,
             SidecarCertify
    <2> QED BY <1>b, <1>e, <1>f, <2>1, AnswerFrame, JournalOfHolder DEF HeldInv
  <1>g. wk'[w].journal = k
    BY <1>f, AnswerFrame
  <1>1. CASE SidecarEncode(w)
    <2>1. k = [j EXCEPT !.step = "encoded", !.ct = wk[w].job.ct]
      BY <1>1, <1>g, AnswerFrame DEF SidecarEncode
    <2> QED BY <1>1, <1>a, <1>c, <1>d, <2>1
        DEF SidecarEncode, InCall, Journal, WellFormed, Extends, SameStep, OneAhead, Backed
  <1>2. CASE SidecarPrepare(w)
    <2>1. PICK t \in Txs :
            /\ chain' = [chain EXCEPT ![t] = [NoTx EXCEPT !.st = "signed",
                             !.ct = wk[w].journal.ct, !.wallet = wk[w].journal.wallet]]
            /\ wk' = Answer(w, [wk[w].journal EXCEPT !.tx = t])
      BY <1>2 DEF SidecarPrepare
    <2>2. k = [j EXCEPT !.tx = t]
      BY <1>g, <2>1, AnswerFrame
    <2>3. chain'[t].st = "signed" /\ chain'[t].ct = j.ct /\ chain'[t].wallet = j.wallet
      BY <1>a, <2>1 DEF NoTx
    <2>4. k.tx = t /\ k.step = "encoded" /\ k.ct = j.ct /\ k.wallet = j.wallet /\ k.obj = None
      BY <1>2, <1>c, <2>2 DEF SidecarPrepare, InCall, Journal, WellFormed
    <2>5. j.tx = None /\ j.step = "encoded"
      BY <1>2 DEF SidecarPrepare, InCall
    <2> QED BY <1>d, <2>3, <2>4, <2>5, NoneAssumption
        DEF Extends, SameStep, OneAhead, Backed
  <1>3. CASE SidecarRegister(w)
    <2>1. k = [j EXCEPT !.step = "registered", !.tx = None, !.obj = j.tx]
      BY <1>3, <1>g, AnswerFrame DEF SidecarRegister
    <2>2. j.tx # None /\ j.step = "encoded" /\ chain'[j.tx].st = "ok"
      BY <1>3 DEF SidecarRegister, InCall
    <2>3. /\ k.step = "registered" /\ k.tx = None /\ k.obj = j.tx /\ k.ct = j.ct
          /\ k.wallet = j.wallet
      BY <1>c, <2>1 DEF Journal
    <2>4. journal.tx = j.tx /\ journal.wallet = j.wallet /\ journal.ct = j.ct
      BY <1>a, <1>d, <2>2 DEF Extends, SameStep, WellFormed
    <2> QED BY <1>d, <1>e, <2>2, <2>3, <2>4 DEF Extends, SameStep, OneAhead, Backed
  <1>4. CASE SidecarUpload(w)
    <2>1. k = [j EXCEPT !.step = IF chain[j.obj].certified
                                 THEN "certified" ELSE "uploaded"]
      BY <1>4, <1>g, AnswerFrame DEF SidecarUpload
    <2>2. j.step = "registered" /\ chain' = chain
      BY <1>4 DEF SidecarUpload, InCall
    <2>3. /\ k.step \in {"certified", "uploaded"} /\ k.tx = j.tx /\ k.obj = j.obj
          /\ k.ct = j.ct /\ k.wallet = j.wallet
          /\ k.step = "certified" => chain[j.obj].certified
      BY <1>c, <2>1 DEF Journal
    <2>4. journal.obj = j.obj /\ journal.wallet = j.wallet /\ journal.ct = j.ct
      BY <1>a, <1>d, <2>2 DEF Extends, SameStep, WellFormed
    <2>5. j.tx = None
      BY <1>c, <2>2 DEF WellFormed, Registered
    <2> QED BY <1>a, <1>d, <2>2, <2>3, <2>4, <2>5
        DEF Extends, SameStep, OneAhead, Backed, Registered
  <1>5. CASE SidecarCertify(w)
    <2>1. k = [j EXCEPT !.step = "certified"]
      BY <1>5, <1>g, AnswerFrame DEF SidecarCertify
    <2>2. j.step \in {"uploaded", "certified"} /\ chain' \in CertifyEffects(chain, j.obj)
      BY <1>5 DEF SidecarCertify, InCall
    <2>3. /\ k.step = "certified" /\ k.tx = j.tx /\ k.obj = j.obj
          /\ k.ct = j.ct /\ k.wallet = j.wallet
      BY <1>c, <2>1 DEF Journal
    <2>4. journal.obj = j.obj /\ journal.wallet = j.wallet /\ journal.ct = j.ct
      BY <1>a, <1>d, <2>2 DEF Extends, SameStep, WellFormed
    <2>5. j.tx = None /\ j.obj \in Txs
      BY <1>c, <2>2 DEF WellFormed, Registered
    <2>6. chain'[j.obj].certified
      BY <1>a, <2>2, <2>5 DEF CertifyEffects, TxState
    <2> QED BY <1>e, <1>d, <2>2, <2>3, <2>4, <2>5, <2>6
        DEF Extends, SameStep, OneAhead, Backed, Registered
  <1> QED BY <1>1, <1>2, <1>3, <1>4, <1>5

\* The transaction of an answer not yet journaled is left alone by everybody else.
LEMMA SignedKept ==
  ASSUME Typed, LockInv, JournalInv, ChainInv, [Next]_vars, NEW u \in Workers,
         wk[u].pc = "answer", wk'[u] = wk[u], wk[u].journal.tx # None,
         chain[wk[u].journal.tx].st = "signed"
  PROVE  chain'[wk[u].journal.tx].st = "signed"
  <1> DEFINE t == wk[u].journal.tx
  <1>a. /\ chain \in [Txs -> TxState] /\ Owned(chain) /\ lock = u /\ t \in Txs
        /\ wk \in [Workers -> Worker]
    <2>1. wk[u].journal \in Journal
      BY HeldJournal DEF LockedPCs
    <2> QED BY <2>1 DEF Typed, TypeOK, ChainInv, LockInv, LockedPCs, Journal, OrNone
  <1>b. ASSUME NEW w \in Workers,
               \/ SidecarPrepare(w) \/ SidecarRegister(w) \/ SidecarCertify(w)
               \/ RegisterReverts(w)
        PROVE  FALSE
    <2>1. wk[w].pc = "call" /\ wk[w].pc \in LockedPCs
      BY <1>b, Zenon DEF SidecarPrepare, SidecarRegister, SidecarCertify, RegisterReverts,
                         InCall, LockedPCs
    <2>2. w = u
      BY <1>a, <2>1 DEF LockInv
    <2> QED BY <2>1, <2>2
  <1>1. CASE chain' = chain
    BY <1>1
  <1>2. ASSUME NEW w \in Workers, TransferSucceeds(w) PROVE chain'[t].st = "signed"
    <2>1. /\ TransferValid(chain, wk[w].job.obj, wk[w].job.wallet)
          /\ chain' \in TransferEffects(chain, wk[w].job.obj, wk[w].job.wallet)
      BY <1>2 DEF TransferSucceeds
    <2>2. wk[w].job.obj \in Txs
      <3>1. wk[w].job \in Job /\ wk[w].job.obj # None
        BY <1>2, JobOf DEF TransferSucceeds, JobShape, Typed, ShapeInv, WorkerShape
      <3> QED BY <3>1 DEF Job, OrNone
    <2>3. chain[wk[w].job.obj].st = "ok"
      BY <1>a, <2>1, <2>2 DEF TransferValid, Owned
    <2> QED BY <1>a, <2>1, <2>2, <2>3, EffectsGrow
  <1>3. ASSUME NEW o \in orphans, OrphanRuns(o) PROVE chain'[t].st = "signed"
    <2>2. o.tx # t
      <3>1. Names(journal, o.tx)
        BY DEF ChainInv, OrphanInv
      <3>2. OneAhead(chain, wk[u].journal, journal) /\ Backed(chain, wk[u].journal)
        BY DEF JournalInv, HeldInv
      <3>3. WellFormed(wk[u].journal)
        BY HeldJournal DEF LockedPCs
      <3>4. journal.step = "encoded" /\ journal.tx = None
        BY <3>2, <3>3 DEF OneAhead, WellFormed, Registered
      <3> QED BY <1>a, <3>1, <3>4, NoneAssumption DEF Names
    <2> QED BY <1>3, <1>a, <2>2, OrphanEffect
  <1> QED BY <1>1, <1>b, <1>2, <1>3, ChainFrame

\* The journal stays backed by the chain, and its holder in step with it.
LEMMA NextJournal ==
  ASSUME Typed, LockInv, JournalInv, ChainInv, RowInv, Typed', [Next]_vars
  PROVE  JournalInv'
  <1>a. Grows(chain, chain')
    BY NextGrows
  <1>b. /\ chain \in [Txs -> TxState] /\ wk \in [Workers -> Worker]
        /\ journal \in Journal /\ WellFormed(journal) /\ Backed(chain, journal)
    BY DEF Typed, TypeOK, ShapeInv, JournalInv
  <1>1. CASE /\ journal' = journal
             /\ \A u \in Workers : wk'[u].pc \in LockedPCs => wk'[u] = wk[u]
    BY <1>1, <1>a, SignedKept, JournalQuiet
  <1>2. ASSUME NEW w \in Workers,
               \/ SidecarEncode(w) \/ SidecarPrepare(w) \/ SidecarRegister(w)
               \/ SidecarUpload(w) \/ SidecarCertify(w)
        PROVE  JournalInv'
    BY <1>2, <1>a, SidecarJournal
  <1>3. ASSUME NEW w \in Workers, PersistStep(w) PROVE JournalInv'
    <2> DEFINE j == wk[w].journal
    <2>1. wk[w].pc = "answer" /\ journal' = j /\ chain' = chain
      BY <1>3 DEF PersistStep
    <2>2. Backed(chain, j) /\ j.wallet # None
      BY <2>1, HeldJournal DEF JournalInv, HeldInv, LockedPCs
    <2>3. /\ wk'[w].journal = j /\ \A u \in Workers : u # w => wk'[u] = wk[u]
          /\ \/ wk'[w].pc = "call"
             \/ wk'[w].pc = "certified" /\ j.step = "certified"
      BY <1>3, <1>b DEF PersistStep, Worker
    <2>4. HeldInv(chain, j, wk'[w])
      BY <2>2, <2>3 DEF HeldInv, Extends, SameStep
    <2> QED BY <2>1, <2>2, <2>3, <2>4, JournalOfHolder DEF LockedPCs
  <1>4. ASSUME NEW w \in Workers, PersistUploaded(w) PROVE JournalInv'
    <2>1. wk[w].pc = "certified" /\ journal' = journal /\ chain' = chain
      BY <1>4 DEF PersistUploaded
    <2>2. wk[w].journal = journal /\ journal.step = "certified"
      BY <2>1 DEF JournalInv, HeldInv
    <2>3. /\ wk'[w].journal = wk[w].journal /\ wk'[w].pc = "handoff"
          /\ \A u \in Workers : u # w => wk'[u] = wk[u]
      BY <1>4, <1>b DEF PersistUploaded, Worker
    <2>4. HeldInv(chain, journal, wk'[w])
      BY <2>2, <2>3 DEF HeldInv
    <2> QED BY <1>b, <2>1, <2>3, <2>4, JournalOfHolder DEF LockedPCs
  <1>5. ASSUME NEW w \in Workers, StartUpload(w) PROVE JournalInv'
    <2> DEFINE wallet == WalletForAttempt(wk[w].job.wallet, wk[w].attempt)
               paid == [wallet |-> wallet, step |-> "certified", ct |-> row.blob,
                        tx |-> None, obj |-> row.obj]
               loaded == [journal EXCEPT !.wallet = IF @ = None THEN wallet ELSE @]
    <2>0. journal' = journal /\ chain' = chain /\ lock = None
      BY <1>5 DEF StartUpload, LockFree
    <2>1. wallet \in Wallets /\ wallet # None
      <3>1. wk[w].job \in Job /\ wk[w] \in Worker
        BY <1>5, <1>b, JobOf DEF StartUpload
      <3>2. wallet \in Wallets
        BY <3>1, WalletTyped DEF Worker, Job
      <3> QED BY <3>2, NoneAssumption, PoolAssumption DEF Wallets
    <2> HIDE DEF wallet
    <2>2. \A u \in Workers : u # w => wk'[u] = wk[u]
      BY <1>5, <1>b DEF StartUpload, Return
    <2>3. CASE wk' = Return(w, "ok")
      <3>1. wk'[w].pc \notin LockedPCs
        BY <2>3, ReturnFrame DEF LockedPCs
      <3> QED BY <1>b, <2>0, <2>2, <3>1, HeldOutside, JournalOfHolder
    <2>4. CASE /\ wk' = [wk EXCEPT ![w].pc = "handoff", ![w].journal = paid]
               /\ row.blob # None
      <3>1. wk'[w].pc = "handoff" /\ wk'[w].journal = paid
        BY <1>b, <2>4 DEF Worker
      <3>2. journal.step = "certified" /\ row.blob = journal.ct /\ row.obj = journal.obj
        BY <2>4 DEF RowInv
      <3>3. HeldInv(chain, journal, wk'[w])
        BY <3>1, <3>2 DEF HeldInv
      <3> QED BY <1>b, <2>0, <2>2, <3>3, JournalOfHolder
    <2>5. CASE wk' = [wk EXCEPT ![w].pc = "call", ![w].journal = loaded]
      <3>1. wk'[w].pc = "call" /\ wk'[w].journal = loaded
        BY <1>b, <2>5 DEF Worker
      <3>2. Extends(loaded, journal) /\ SameStep(loaded, journal)
        BY <1>b, <2>1 DEF Extends, SameStep, Journal
      <3>3. HeldInv(chain, journal, wk'[w])
        <4> HIDE DEF loaded
        <4> QED BY <3>1, <3>2 DEF HeldInv
      <3> QED BY <1>b, <2>0, <2>2, <3>3, JournalOfHolder
    <2> QED BY <1>5, <2>3, <2>4, <2>5 DEF StartUpload, wallet
  <1> QED BY <1>1, <1>2, <1>3, <1>4, <1>5, HeldFrame

-------------------------------------------------------------------------------
(* What the journal names.                                                 *)

\* Every effect of a request leaves each paid Blob with an owner.
LEMMA EffectsOwned ==
  ASSUME NEW c \in [Txs -> TxState], Owned(c), NEW t \in Txs, NEW wallet,
         NEW d, \/ d \in RegisterEffects(c, t)
                \/ d \in CertifyEffects(c, t) /\ c[t].st = "ok"
                \/ d \in TransferEffects(c, t, wallet)
  PROVE  Owned(d)
  <1>a. c[t] \in TxState
    OBVIOUS
  <1>1. CASE d \in RegisterEffects(c, t)
    <2>1. CASE d = [c EXCEPT ![t].st = "ok", ![t].owner = "wallet"]
      BY <1>a, <2>1 DEF Owned, TxState
    <2>2. CASE d = [c EXCEPT ![t].st = "failed"] /\ c[t].st = "signed"
      BY <1>a, <2>2 DEF Owned, TxState
    <2> QED BY <1>1, <2>1, <2>2 DEF RegisterEffects
  <1>2. CASE d \in CertifyEffects(c, t) /\ c[t].st = "ok"
    BY <1>a, <1>2 DEF CertifyEffects, Owned, TxState
  <1>3. CASE d \in TransferEffects(c, t, wallet)
    BY <1>a, <1>3 DEF TransferEffects, TransferValid, Owned, TxState
  <1> QED BY <1>1, <1>2, <1>3

\* A checkpoint one step ahead names every transaction the previous one named.
LEMMA NamesKept ==
  ASSUME NEW c, NEW j, NEW k, OneAhead(c, j, k), NEW t \in Txs, Names(k, t)
  PROVE  Names(j, t)
  BY NoneAssumption DEF OneAhead, Names, Registered

\* A request in flight stays about a journaled transaction as the chain grows.
LEMMA OrphanKept ==
  ASSUME NEW c, NEW d, Grows(c, d), NEW k, NEW o \in Orphan, OrphanInv(c, k, o)
  PROVE  OrphanInv(d, k, o)
  BY DEF OrphanInv, Grows, Orphan

\* A request that a worker leaves behind is about the journaled transaction.
LEMMA InFlightNamed ==
  ASSUME Typed, JournalInv, JobsInv, NEW w \in Workers, NEW o \in InFlight(w)
  PROVE  OrphanInv(chain, journal, o)
  <1> DEFINE j == wk[w].journal
  <1>a. WellFormed(journal) /\ Backed(chain, journal) /\ HeldInv(chain, journal, wk[w])
        /\ DeliverInv(chain, journal, wk[w])
    BY DEF Typed, ShapeInv, JournalInv, JobsInv
  <1>1. CASE InCall(w, "encoded") /\ j.tx # None /\ DataMatches(w)
    <2>1. o = [req |-> "register", tx |-> j.tx, wallet |-> j.wallet]
      BY <1>1 DEF InFlight, InCall
    <2>2. journal.step = "encoded" /\ journal.tx = j.tx
      BY <1>1, <1>a DEF HeldInv, SameStep, InCall
    <2> QED BY <1>1, <1>a, <2>1, <2>2 DEF OrphanInv, Names, Backed
  <1>2. CASE InCall(w, "uploaded")
    <2>1. o = [req |-> "certify", tx |-> j.obj, wallet |-> j.wallet]
      BY <1>2 DEF InFlight, InCall
    <2>2. journal.step = "uploaded" /\ journal.obj = j.obj /\ journal.obj # None
      BY <1>2, <1>a DEF HeldInv, SameStep, InCall, WellFormed, Registered
    <2> QED BY <1>a, <2>1, <2>2 DEF OrphanInv, Names, Backed
  <1>3. CASE wk[w].pc = "transfer"
    <2>1. o = [req |-> "transfer", tx |-> wk[w].job.obj, wallet |-> wk[w].job.wallet]
      BY <1>3 DEF InFlight, InCall
    <2>2. journal.step = "certified" /\ wk[w].job.obj = journal.obj /\ journal.obj # None
      BY <1>3, <1>a DEF DeliverInv, Delivering, PaidJob, WellFormed, Registered
    <2> QED BY <1>a, <2>1, <2>2 DEF OrphanInv, Names, Backed
  <1>4. CASE /\ ~(InCall(w, "encoded") /\ j.tx # None /\ DataMatches(w))
             /\ ~InCall(w, "uploaded") /\ wk[w].pc # "transfer"
    BY <1>4 DEF InFlight
  <1> QED BY <1>1, <1>2, <1>3, <1>4

\* The actions that add to the requests in flight.
LEMMA OrphansFrame ==
  ASSUME Typed, [Next]_vars
  PROVE  orphans' \subseteq orphans \cup UNION {InFlight(w) : w \in Workers}
  <1>1. CASE RequestStep
    BY <1>1
    DEF RequestStep, InsertRow, InsertBulkRow, ClaimInserted, ClaimPreparation,
        RetryUnpaid, RetryPaid, EnqueueRecovery, PublishRecovery, PersistPreparation, EnqueuePrepared,
        EnqueueBulk, PreparationFails, BulkPreparationFails
  <1>2. ASSUME NEW w \in Workers,
               (\E q \in Slots : Dispatch(w, q)) \/ Ack(w) \/ FanOut(w)
        PROVE  orphans' = orphans
    BY <1>2, Zenon DEF Dispatch, Ack, FanOut
  <1>4. ASSUME NEW w \in Workers, UploadStep(w), ~CallFails(w)
        PROVE  orphans' = orphans
    BY <1>4, Zenon
    DEF UploadStep, DeferUpload, StartUpload, StartUploadFails, SidecarEncode,
        SidecarPrepare, SidecarRegister, SidecarUpload, SidecarCertify, CallRejected,
        RegisterReverts, PersistStep, PersistUploaded, PersistFails, Handoff, HandoffFails
  <1>5. ASSUME NEW w \in Workers, DeliverStep(w), ~TransferFails(w)
        PROVE  orphans' = orphans
    BY <1>5, Zenon
    DEF DeliverStep, TransferSucceeds, TransferRejected, IndexAndDone, IndexFails, Rescue,
        RescueFails
  <1>6. ASSUME NEW w \in Workers, CallFails(w) \/ TransferFails(w)
        PROVE  orphans' \subseteq orphans \cup InFlight(w)
    BY <1>6 DEF CallFails, TransferFails
  <1>7. CASE LeaseExpires \/ Sweep \/ Crash \/ UNCHANGED vars
    BY <1>7 DEF LeaseExpires, Sweep, Crash, vars
  <1>8. ASSUME NEW o \in orphans, OrphanRuns(o) PROVE orphans' \subseteq orphans
    BY <1>8, Zenon DEF OrphanRuns
  <1> QED BY <1>1, <1>2, <1>4, <1>5, <1>6, <1>7, <1>8 DEF Next

\* The only action that writes the journal.
LEMMA JournalFrame ==
  ASSUME Typed, LockInv, [Next]_vars
  PROVE  journal' = journal \/ \E w \in Workers : PersistStep(w)
  BY HeldFrame, Zenon
  DEF StartUpload, SidecarEncode, SidecarPrepare, SidecarRegister, SidecarUpload,
      SidecarCertify, PersistUploaded

\* A transaction is only submitted once the journal names it.
LEMMA SubmittedNamed ==
  ASSUME Typed, LockInv, JournalInv, ChainInv, [Next]_vars,
         NEW t \in Txs, chain'[t].st \in {"ok", "failed"}
  PROVE  Names(journal, t)
  <1>a. chain \in [Txs -> TxState] /\ Owned(chain)
    BY DEF Typed, TypeOK, ChainInv
  <1>b. chain[t].st \in {"ok", "failed"} => Names(journal, t)
    BY DEF ChainInv, Submitted
  <1>c. ASSUME NEW w \in Workers, InCall(w, "encoded"), wk[w].journal.tx # None
        PROVE  Names(journal, wk[w].journal.tx)
    BY <1>c DEF JournalInv, HeldInv, SameStep, InCall, Names
  <1>1. CASE chain' = chain
    BY <1>1, <1>b
  <1>2. ASSUME NEW w \in Workers, SidecarPrepare(w) PROVE Names(journal, t)
    <2>1. PICK u \in Txs :
            chain' = [chain EXCEPT ![u] = [NoTx EXCEPT !.st = "signed",
                          !.ct = wk[w].journal.ct, !.wallet = wk[w].journal.wallet]]
      BY <1>2 DEF SidecarPrepare
    <2>2. u # t
      BY <1>a, <2>1 DEF NoTx
    <2> QED BY <1>a, <1>b, <2>1, <2>2
  <1>3. ASSUME NEW w \in Workers, SidecarRegister(w) \/ RegisterReverts(w)
        PROVE  Names(journal, t)
    <2>1. InCall(w, "encoded") /\ wk[w].journal.tx # None
      BY <1>3, Zenon DEF SidecarRegister, RegisterReverts
    <2>2. wk[w].journal.tx \in Txs
      BY <2>1, HeldJournal DEF InCall, LockedPCs, Journal, OrNone
    <2>3. chain' \in RegisterEffects(chain, wk[w].journal.tx)
      BY <1>3 DEF SidecarRegister, RegisterReverts, RegisterEffects
    <2>4. \A u \in Txs : u # wk[w].journal.tx => chain'[u] = chain[u]
      BY <1>a, <2>2, <2>3, EffectsGrow
    <2> QED BY <1>b, <1>c, <2>1, <2>4
  <1>4. ASSUME NEW w \in Workers, SidecarCertify(w) \/ TransferSucceeds(w)
        PROVE  Names(journal, t)
    <2>1. chain'[t].st = chain[t].st
      BY <1>4, <1>a DEF SidecarCertify, CertifyEffects, TransferSucceeds, TransferEffects,
                        TxState
    <2> QED BY <1>b, <2>1
  <1>5. ASSUME NEW o \in orphans, OrphanRuns(o) PROVE Names(journal, t)
    <2>1. Names(journal, o.tx)
      BY DEF ChainInv, OrphanInv
    <2> QED BY <1>5, <1>b, <2>1, OrphanEffect
  <1> QED BY <1>1, <1>2, <1>3, <1>4, <1>5, ChainFrame

\* Every step leaves each paid Blob with an owner.
LEMMA NextOwned ==
  ASSUME Typed, LockInv, JournalInv, ChainInv, [Next]_vars
  PROVE  Owned(chain')
  <1>a. chain \in [Txs -> TxState] /\ Owned(chain)
    BY DEF Typed, TypeOK, ChainInv
  <1>1. CASE chain' = chain
    BY <1>1, <1>a
  <1>2. ASSUME NEW w \in Workers, SidecarPrepare(w) PROVE Owned(chain')
    <2> DEFINE new == [NoTx EXCEPT !.st = "signed", !.ct = wk[w].journal.ct,
                                   !.wallet = wk[w].journal.wallet]
    <2>1. PICK u \in Txs : chain' = [chain EXCEPT ![u] = new]
      BY <1>2 DEF SidecarPrepare
    <2>2. new.owner = "none" /\ new.st = "signed"
      BY DEF NoTx
    <2>3. ~new.certified
      BY DEF NoTx
    <2> HIDE DEF new
    <2> QED BY <1>a, <2>1, <2>2, <2>3 DEF Owned
  <1>3. ASSUME NEW w \in Workers, SidecarRegister(w) \/ RegisterReverts(w)
        PROVE  Owned(chain')
    <2>1. InCall(w, "encoded") /\ wk[w].journal.tx # None
      BY <1>3, Zenon DEF SidecarRegister, RegisterReverts
    <2>2. wk[w].journal.tx \in Txs
      BY <2>1, HeldJournal DEF InCall, LockedPCs, Journal, OrNone
    <2>3. chain' \in RegisterEffects(chain, wk[w].journal.tx)
      BY <1>3 DEF SidecarRegister, RegisterReverts, RegisterEffects
    <2> QED BY <1>a, <2>2, <2>3, EffectsOwned
  <1>4. ASSUME NEW w \in Workers, SidecarCertify(w) PROVE Owned(chain')
    <2> DEFINE j == wk[w].journal
    <2>1. wk[w].pc = "call" /\ j.step \in {"uploaded", "certified"}
          /\ chain' \in CertifyEffects(chain, j.obj)
      BY <1>4 DEF SidecarCertify, InCall
    <2>2. j.obj \in Txs
      BY <2>1, HeldJournal DEF LockedPCs, Registered
    <2>3. chain[j.obj].st = "ok"
      <3>1. journal.obj = j.obj
        BY <2>1 DEF JournalInv, HeldInv, SameStep
      <3> QED BY <2>2, <3>1, NoneAssumption DEF JournalInv, Backed
    <2> QED BY <1>a, <2>1, <2>2, <2>3, EffectsOwned
  <1>5. ASSUME NEW w \in Workers, TransferSucceeds(w) PROVE Owned(chain')
    <2>1. wk[w].job.obj \in Txs
      <3>1. wk[w].job \in Job /\ wk[w].job.obj # None
        BY <1>5, JobOf DEF TransferSucceeds, JobShape, Typed, ShapeInv, WorkerShape
      <3> QED BY <3>1 DEF Job, OrNone
    <2> QED BY <1>5, <1>a, <2>1, EffectsOwned DEF TransferSucceeds
  <1>6. ASSUME NEW o \in orphans, OrphanRuns(o) PROVE Owned(chain')
    <2>1. o \in Orphan /\ o.tx \in Txs
      BY <1>6, OrphanEffect
    <2>2. o.req # "register" => chain[o.tx].st = "ok"
      BY DEF ChainInv, OrphanInv
    <2>3. \/ chain' \in RegisterEffects(chain, o.tx)
          \/ chain' \in CertifyEffects(chain, o.tx) /\ o.req # "register"
          \/ chain' \in TransferEffects(chain, o.tx, o.wallet)
      BY <1>6, <2>1 DEF OrphanRuns, Orphan
    <2> QED BY <1>a, <2>1, <2>2, <2>3, EffectsOwned
  <1> QED BY <1>1, <1>2, <1>3, <1>4, <1>5, <1>6, ChainFrame

\* Nothing is submitted, or left in flight, that the journal does not name.
LEMMA NextChain ==
  ASSUME Typed, LockInv, JournalInv, ChainInv, JobsInv, Typed', [Next]_vars
  PROVE  ChainInv'
  <1>1. Owned(chain')
    BY NextOwned
  <1>2. \A t \in Txs : Names(journal, t) => Names(journal', t)
    <2>1. CASE journal' = journal
      BY <2>1
    <2>2. ASSUME NEW w \in Workers, PersistStep(w)
          PROVE  \A t \in Txs : Names(journal, t) => Names(journal', t)
      BY <2>2, NamesKept DEF PersistStep, JournalInv, HeldInv
    <2> QED BY <2>1, <2>2, JournalFrame
  <1>3. ASSUME NEW o \in orphans' PROVE OrphanInv(chain', journal', o)
    <2>1. o \in Orphan /\ o.tx \in Txs
      BY DEF Typed, TypeOK, Orphan
    <2>2. OrphanInv(chain, journal, o)
      BY OrphansFrame, InFlightNamed DEF ChainInv
    <2>3. OrphanInv(chain', journal, o)
      BY <2>1, <2>2, NextGrows, OrphanKept
    <2> QED BY <1>2, <2>1, <2>3 DEF OrphanInv
  <1>4. \A t \in Txs : chain'[t].st \in {"ok", "failed"} => Names(journal', t)
    BY <1>2, SubmittedNamed
  <1> QED BY <1>1, <1>3, <1>4 DEF ChainInv, Submitted

-------------------------------------------------------------------------------
(* Jobs after the mint.                                                    *)

\* A certified journal is final.
LEMMA CertifiedKept ==
  ASSUME Typed, LockInv, JournalInv, [Next]_vars, journal.step = "certified"
  PROVE  /\ journal'.step = "certified" /\ journal'.obj = journal.obj
         /\ journal'.ct = journal.ct
  <1>1. ASSUME NEW w \in Workers, PersistStep(w)
        PROVE  /\ journal'.step = "certified" /\ journal'.obj = journal.obj
               /\ journal'.ct = journal.ct
    <2>1. /\ journal' = wk[w].journal
          /\ OneAhead(chain, wk[w].journal, journal) /\ Extends(wk[w].journal, journal)
      BY <1>1 DEF PersistStep, JournalInv, HeldInv
    <2>2. journal.ct # None
      BY DEF Typed, ShapeInv, WellFormed
    <2> QED BY <2>1, <2>2 DEF OneAhead, Extends, Registered
  <1> QED BY <1>1, JournalFrame

\* A job after the mint keeps naming the journaled, certified blob.
LEMMA PaidJobKept ==
  ASSUME Typed, LockInv, JournalInv, ChainInv, [Next]_vars,
         NEW job, PaidJob(chain, journal, job)
  PROVE  PaidJob(chain', journal', job)
  <1>1. journal.obj \in Txs
    BY DEF PaidJob, Typed, TypeOK, ShapeInv, Journal, OrNone, WellFormed, Registered
  <1> QED BY <1>1, CertifiedKept, NextGrows DEF PaidJob, Grows

\* Where the job of a live queue entry comes from.
LEMMA QueueFrame ==
  ASSUME Typed, Typed', [Next]_vars, NEW q \in Slots, queue'[q].st # "Done",
         queue'[q].job.op \in AfterMint
  PROVE  \/ queue[q].st # "Done" /\ queue'[q].job = queue[q].job
         \/ \E w \in Workers : wk[w].pc = "ack" /\ queue'[q].job = wk[w].job
         \/ \E w \in Workers : wk[w].pc = "handoff" /\ queue'[q].job = TransferJob(w)
         \/ \E w \in Workers : /\ wk[w].pc = "rescue"
                               /\ queue'[q].job = [wk[w].job EXCEPT !.op = "finalize"]
  <1>a. queue \in [Slots -> Entry]
    BY DEF Typed, TypeOK
  <1>b. ASSUME NEW p \in Slots, NEW job, queue' = Pushed(p, job), queue'[q].job # job
        PROVE  queue[q].st # "Done" /\ queue'[q].job = queue[q].job
    BY <1>a, <1>b DEF Pushed
  <1>1. CASE queue' = queue
    BY <1>1
  <1>2. CASE RequestStep
    <2>1. ASSUME NEW h \in recovery, EnqueueRecovery(h), queue' # queue
          PROVE  queue[q].st # "Done" /\ queue'[q].job = queue[q].job
      <3>1. PICK p \in Slots, wallet \in Wallets :
              queue' = Pushed(p, UploadJob(wallet, None, row.prepared))
        BY <2>1 DEF EnqueueRecovery
      <3>2. UploadJob(wallet, None, row.prepared).op = "upload"
        BY DEF UploadJob
      <3> QED BY <1>b, <3>1, <3>2 DEF AfterMint
    <2>2. ASSUME NEW h \in prep, EnqueuePrepared(h)
          PROVE  queue[q].st # "Done" /\ queue'[q].job = queue[q].job
      <3>1. PICK p \in Slots, wallet \in Wallets :
              queue' = Pushed(p, UploadJob(wallet, h.token, h.ct))
        BY <2>2 DEF EnqueuePrepared
      <3>2. UploadJob(wallet, h.token, h.ct).op = "upload"
        BY DEF UploadJob
      <3> QED BY <1>b, <3>1, <3>2 DEF AfterMint
    <2>3. ASSUME NEW h \in prep, EnqueueBulk(h)
          PROVE  queue[q].st # "Done" /\ queue'[q].job = queue[q].job
      <3>1. PICK p \in Slots, wallet \in Wallets :
              queue' = Pushed(p, [UploadJob(wallet, None, h.ct) EXCEPT !.op = "bulk"])
        BY <2>3 DEF EnqueueBulk
      <3>2. [UploadJob(wallet, None, h.ct) EXCEPT !.op = "bulk"].op = "bulk"
        BY DEF UploadJob
      <3> QED BY <1>b, <3>1, <3>2 DEF AfterMint
    <2> QED BY <1>1, <1>2, <2>1, <2>2, <2>3
        DEF RequestStep, InsertRow, InsertBulkRow, ClaimInserted, ClaimPreparation,
            RetryUnpaid, RetryPaid, PublishRecovery, PersistPreparation, PreparationFails, BulkPreparationFails
  <1>3. ASSUME NEW w \in Workers, NEW p \in Slots, Dispatch(w, p)
        PROVE  queue[q].st # "Done" /\ queue'[q].job = queue[q].job
    BY <1>3, <1>a DEF Dispatch, Entry
  <1>4. ASSUME NEW w \in Workers, Ack(w)
        PROVE  \/ queue[q].st # "Done" /\ queue'[q].job = queue[q].job
               \/ wk[w].pc = "ack" /\ queue'[q].job = wk[w].job
    BY <1>4, <1>a DEF Ack, DoneEntry
  <1>5. ASSUME NEW w \in Workers, FanOut(w), queue' # queue
        PROVE  queue[q].st # "Done" /\ queue'[q].job = queue[q].job
    <2>1. PICK p \in Slots : queue' = Pushed(p, [wk[w].job EXCEPT !.op = "upload"])
      BY <1>5, Zenon DEF FanOut
    <2>2. wk[w].job \in Job
      BY <1>5, JobOf DEF FanOut
    <2>3. [wk[w].job EXCEPT !.op = "upload"].op = "upload"
      BY <2>2 DEF Job
    <2> QED BY <1>b, <2>1, <2>3 DEF AfterMint
  <1>6. ASSUME NEW w \in Workers, Handoff(w)
        PROVE  \/ queue[q].st # "Done" /\ queue'[q].job = queue[q].job
               \/ wk[w].pc = "handoff" /\ queue'[q].job = TransferJob(w)
    BY <1>6, <1>b DEF Handoff
  <1>7. ASSUME NEW w \in Workers, Rescue(w)
        PROVE  \/ queue[q].st # "Done" /\ queue'[q].job = queue[q].job
               \/ /\ wk[w].pc = "rescue"
                  /\ queue'[q].job = [wk[w].job EXCEPT !.op = "finalize"]
    BY <1>7, <1>b DEF Rescue
  <1>8. ASSUME NEW w \in Workers, UploadStep(w), ~Handoff(w) PROVE queue' = queue
    BY <1>8, Zenon
    DEF UploadStep, DeferUpload, StartUpload, StartUploadFails, SidecarEncode,
        SidecarPrepare, SidecarRegister, SidecarUpload, SidecarCertify, CallRejected,
        CallFails, RegisterReverts, PersistStep, PersistUploaded, PersistFails, HandoffFails
  <1>9. ASSUME NEW w \in Workers, DeliverStep(w), ~Rescue(w) PROVE queue' = queue
    BY <1>9, Zenon
    DEF DeliverStep, TransferSucceeds, TransferRejected, TransferFails, IndexAndDone,
        IndexFails, RescueFails
  <1>10. CASE (\E o \in orphans : OrphanRuns(o)) \/ LeaseExpires \/ Sweep \/ Crash
              \/ UNCHANGED vars
    <2>1. queue' = queue
      BY <1>10, Zenon DEF OrphanRuns, LeaseExpires, Sweep, Crash, vars
    <2> QED BY <1>1, <2>1
  <1> QED BY <1>1, <1>2, <1>3, <1>4, <1>5, <1>6, <1>7, <1>8, <1>9, <1>10 DEF Next

\* The control states of a worker on its way to the handoff.
Uploading == {"fanout", "lock", "call", "answer", "certified", "handoff"}

\* The actions that move a worker, and how they move it.
LEMMA WorkerFrame ==
  ASSUME Typed, [Next]_vars, NEW u \in Workers
  PROVE  \/ wk'[u] = wk[u] \/ wk'[u].pc = "idle"
         \/ wk[u].pc # "idle" /\ wk'[u].pc = "ack" /\ wk'[u].job = wk[u].job
         \/ wk[u].pc \in Uploading /\ wk'[u].pc \in Uploading /\ wk'[u].job = wk[u].job
         \/ \E q \in Slots : Dispatch(u, q)
         \/ TransferSucceeds(u)
         \/ IndexFails(u) /\ wk'[u].pc = "rescue" /\ wk'[u].job = wk[u].job
  <1>a. wk \in [Workers -> Worker]
    BY DEF Typed, TypeOK
  <1> DEFINE Returned(w) == /\ wk[w].pc # "idle" /\ wk'[w].pc = "ack"
                            /\ wk'[w].job = wk[w].job
                            /\ \A v \in Workers : v # w => wk'[v] = wk[v]
             Moved(w) == /\ wk[w].pc \in Uploading /\ wk'[w].pc \in Uploading
                         /\ wk'[w].job = wk[w].job
                         /\ \A v \in Workers : v # w => wk'[v] = wk[v]
  <1>1. CASE wk' = wk
    BY <1>1
  <1>2. CASE RequestStep
    BY <1>1, <1>2
    DEF RequestStep, InsertRow, InsertBulkRow, ClaimInserted, ClaimPreparation,
        RetryUnpaid, RetryPaid, EnqueueRecovery, PublishRecovery, PersistPreparation, EnqueuePrepared,
        EnqueueBulk, PreparationFails, BulkPreparationFails
  <1>3. ASSUME NEW w \in Workers, NEW q \in Slots, Dispatch(w, q), w # u
        PROVE  wk'[u] = wk[u]
    BY <1>3, <1>a DEF Dispatch
  <1>4. ASSUME NEW w \in Workers, Ack(w)
        PROVE  wk'[u] = wk[u] \/ wk'[u].pc = "idle"
    BY <1>4, <1>a DEF Ack, IdleWorker
  <1>5. ASSUME NEW w \in Workers, NEW result, wk' = Return(w, result), wk[w].pc # "idle"
        PROVE  Returned(w)
    BY <1>5, ReturnFrame
  <1>6. ASSUME NEW w \in Workers,
               \/ FanOut(w) \/ DeferUpload(w) \/ StartUploadFails(w) \/ CallRejected(w)
               \/ RegisterReverts(w) \/ CallFails(w) \/ PersistFails(w) \/ Handoff(w)
               \/ HandoffFails(w)
        PROVE  Returned(w)
    <2>1. /\ \E result : wk' = Return(w, result)
          /\ wk[w].pc # "idle"
      BY <1>6 DEF FanOut, DeferUpload, StartUploadFails, CallRejected, InCall,
        RegisterReverts, CallFails, PersistFails, Handoff, HandoffFails, AbandonUpload
    <2> QED BY <1>5, <2>1
  <1>7. ASSUME NEW w \in Workers, StartUpload(w) PROVE Returned(w) \/ Moved(w)
    <2>1. wk[w].pc = "lock"
      BY <1>7 DEF StartUpload
    <2>2. CASE wk' = Return(w, "ok")
      BY <1>5, <2>1, <2>2
    <2>3. CASE \E j : \/ wk' = [wk EXCEPT ![w].pc = "handoff", ![w].journal = j]
                      \/ wk' = [wk EXCEPT ![w].pc = "call", ![w].journal = j]
      BY <1>a, <2>1, <2>3 DEF Worker, Uploading
    <2> QED BY <1>7, <2>2, <2>3 DEF StartUpload
  <1>8. ASSUME NEW w \in Workers,
               \/ SidecarEncode(w) \/ SidecarPrepare(w) \/ SidecarRegister(w)
               \/ SidecarUpload(w) \/ SidecarCertify(w)
        PROVE  Moved(w)
    <2>1. (\E j : wk' = Answer(w, j)) /\ wk[w].pc = "call"
      BY <1>8 DEF SidecarEncode, SidecarPrepare, SidecarRegister, SidecarUpload,
                  SidecarCertify, InCall
    <2> QED BY <2>1, AnswerFrame DEF Uploading
  <1>9. ASSUME NEW w \in Workers, PersistStep(w) \/ PersistUploaded(w) PROVE Moved(w)
    <2>1. CASE PersistStep(w)
      BY <2>1, <1>a DEF PersistStep, Worker, Uploading
    <2>2. CASE PersistUploaded(w)
      BY <2>2, <1>a DEF PersistUploaded, Worker, Uploading
    <2> QED BY <1>9, <2>1, <2>2
  <1>10. ASSUME NEW w \in Workers,
               \/ TransferRejected(w) \/ TransferFails(w) \/ IndexAndDone(w)
               \/ Rescue(w) \/ RescueFails(w)
        PROVE  Returned(w)
    <2>1. /\ \E result : wk' = Return(w, result)
          /\ wk[w].pc # "idle"
      BY <1>10 DEF TransferRejected, TransferFails, IndexAndDone, Rescue, RescueFails
    <2> QED BY <1>5, <2>1
  <1>11. ASSUME NEW w \in Workers, TransferSucceeds(w), w # u PROVE wk'[u] = wk[u]
    BY <1>11, <1>a DEF TransferSucceeds
  <1>12. ASSUME NEW w \in Workers, IndexFails(w)
         PROVE  \/ Returned(w)
                \/ /\ wk'[w].pc = "rescue" /\ wk'[w].job = wk[w].job
                   /\ \A v \in Workers : v # w => wk'[v] = wk[v]
    <2>1. \/ \E result : wk' = Return(w, result)
          \/ wk' = [wk EXCEPT ![w].pc = "rescue"]
      BY <1>12 DEF IndexFails
    <2>2. wk[w].pc # "idle"
      BY <1>12 DEF IndexFails
    <2>3. CASE wk' = [wk EXCEPT ![w].pc = "rescue"]
      BY <1>a, <2>3 DEF Worker
    <2> QED BY <1>5, <2>1, <2>2, <2>3
  <1>13. CASE Crash
    BY <1>13 DEF Crash, IdleWorker
  <1>14. CASE (\E o \in orphans : OrphanRuns(o)) \/ LeaseExpires \/ Sweep
              \/ UNCHANGED vars
    <2>1. wk' = wk
      BY <1>14, Zenon DEF OrphanRuns, LeaseExpires, Sweep, vars
    <2> QED BY <1>1, <2>1
  <1> HIDE DEF Returned, Moved
  <1>15. ASSUME NEW w \in Workers, UploadStep(w) \/ FanOut(w) PROVE Returned(w) \/ Moved(w)
    BY <1>15, <1>6, <1>7, <1>8, <1>9 DEF UploadStep
  <1> QED BY <1>1, <1>2, <1>3, <1>4, <1>10, <1>11, <1>12, <1>13, <1>14, <1>15
      DEF Next, DeliverStep, Returned, Moved

\* Every job after the mint, queued or running, names the journaled blob.
LEMMA NextJobs ==
  ASSUME Typed, LockInv, JournalInv, ChainInv, JobsInv, Typed', [Next]_vars
  PROVE  JobsInv'
  <1>1. ASSUME NEW q \in Slots, queue'[q].st # "Done", queue'[q].job.op \in AfterMint
        PROVE  PaidJob(chain, journal, queue'[q].job)
    <2>1. CASE queue[q].st # "Done" /\ queue'[q].job = queue[q].job
      BY <1>1, <2>1 DEF JobsInv, EntryInv
    <2>2. ASSUME NEW w \in Workers, wk[w].pc = "ack", queue'[q].job = wk[w].job
          PROVE  PaidJob(chain, journal, queue'[q].job)
      BY <1>1, <2>2 DEF JobsInv, DeliverInv
    <2>3. ASSUME NEW w \in Workers, wk[w].pc = "handoff", queue'[q].job = TransferJob(w)
          PROVE  PaidJob(chain, journal, queue'[q].job)
      BY <2>3 DEF JournalInv, HeldInv, TransferJob, PaidJob
    <2>4. ASSUME NEW w \in Workers, wk[w].pc = "rescue",
                 queue'[q].job = [wk[w].job EXCEPT !.op = "finalize"]
          PROVE  PaidJob(chain, journal, queue'[q].job)
      <3>1. wk[w].job \in Job
        BY <2>4, JobOf
      <3>2. /\ PaidJob(chain, journal, wk[w].job)
            /\ chain[journal.obj].owner = "user"
        BY <2>4 DEF JobsInv, DeliverInv, Delivering
      <3> QED BY <2>4, <3>1, <3>2 DEF PaidJob, Job
    <2> QED BY <1>1, <2>1, <2>2, <2>3, <2>4, QueueFrame
  <1>2. ASSUME NEW q \in Slots PROVE EntryInv(chain', journal', queue'[q])
    BY <1>1, PaidJobKept DEF EntryInv
  <1>3. ASSUME NEW u \in Workers PROVE DeliverInv(chain', journal', wk'[u])
    <2>a. DeliverInv(chain, journal, wk[u])
      BY DEF JobsInv
    <2>b. ASSUME journal.step = "certified", chain[journal.obj].owner = "user"
          PROVE  chain'[journal'.obj].owner = "user"
      <3>1. journal.obj \in Txs
        BY <2>b DEF Typed, TypeOK, ShapeInv, Journal, OrNone, WellFormed, Registered
      <3> QED BY <2>b, <3>1, CertifiedKept, NextGrows DEF Grows
    <2>1. CASE wk'[u] = wk[u]
      BY <2>1, <2>a, <2>b, PaidJobKept DEF DeliverInv, Delivering, PaidJob
    <2>2. CASE wk'[u].pc = "idle"
      BY <2>2 DEF DeliverInv
    <2>3. CASE wk[u].pc # "idle" /\ wk'[u].pc = "ack" /\ wk'[u].job = wk[u].job
      BY <2>3, <2>a, PaidJobKept DEF DeliverInv, Delivering
    <2>4. CASE wk[u].pc \in Uploading /\ wk'[u].pc \in Uploading /\ wk'[u].job = wk[u].job
      BY <2>4, <2>a DEF DeliverInv, Delivering, Uploading
    <2>5. ASSUME NEW q \in Slots, Dispatch(u, q)
          PROVE  DeliverInv(chain', journal', wk'[u])
      <3> DEFINE job == queue[q].job
      <3>1. /\ wk'[u].job = job /\ wk'[u].pc = EntryPoint(job) /\ chain' = chain
            /\ journal' = journal /\ queue[q].st # "Done"
        BY <2>5 DEF Dispatch, Typed, TypeOK
      <3>2. job \in Job /\ (job.op \in AfterMint => PaidJob(chain, journal, job))
        BY <3>1, JobOf DEF JobsInv, EntryInv
      <3>3. /\ EntryPoint(job) \in Delivering <=> job.op \in AfterMint
            /\ EntryPoint(job) \notin {"idle", "rescue"}
            /\ EntryPoint(job) = "index" => job.op = "finalize"
            /\ EntryPoint(job) = "ack" => job.op \notin AfterMint
        BY <3>2 DEF EntryPoint, Delivering, AfterMint, Job, Ops
      <3>4. EntryPoint(job) = "index" => chain[journal.obj].owner = "user"
        BY <3>2, <3>3 DEF PaidJob, AfterMint
      <3> QED BY <3>1, <3>2, <3>3, <3>4 DEF DeliverInv
    <2>6. CASE TransferSucceeds(u)
      <3>1. /\ wk'[u].pc = "index" /\ wk'[u].job = wk[u].job /\ wk[u].pc = "transfer"
            /\ journal' = journal
        BY <2>6 DEF TransferSucceeds, Typed, TypeOK, Worker
      <3>2. PaidJob(chain, journal, wk[u].job) /\ wk[u].job.op \in AfterMint
        BY <2>a, <3>1 DEF DeliverInv, Delivering
      <3>3. wk[u].job.obj \in Txs
        BY <3>2 DEF PaidJob, Typed, TypeOK, ShapeInv, Journal, OrNone, WellFormed, Registered
      <3>4. chain'[wk[u].job.obj].owner = "user"
        BY <2>6, <3>3 DEF TransferSucceeds, TransferEffects, Typed, TypeOK, TxState
      <3>5. PaidJob(chain', journal', wk[u].job)
        BY <3>2, PaidJobKept
      <3> QED BY <3>1, <3>2, <3>4, <3>5 DEF DeliverInv, Delivering, PaidJob
    <2>7. CASE IndexFails(u) /\ wk'[u].pc = "rescue" /\ wk'[u].job = wk[u].job
      <3>1. wk[u].pc = "index"
        BY <2>7 DEF IndexFails
      <3>2. /\ PaidJob(chain, journal, wk[u].job) /\ wk[u].job.op \in AfterMint
            /\ chain[journal.obj].owner = "user"
        BY <2>a, <3>1 DEF DeliverInv, Delivering
      <3>3. PaidJob(chain', journal', wk[u].job) /\ chain'[journal'.obj].owner = "user"
        BY <2>b, <3>2, PaidJobKept DEF PaidJob
      <3> QED BY <2>7, <3>2, <3>3 DEF DeliverInv, Delivering
    <2> QED BY <2>1, <2>2, <2>3, <2>4, <2>5, <2>6, <2>7, WorkerFrame
  <1> QED BY <1>2, <1>3 DEF JobsInv

-------------------------------------------------------------------------------
(* The row and the index.                                                  *)

\* A step that records no mint and reports nothing.
RowQuiet ==
    /\ row'.blob = row.blob /\ row'.obj = row.obj /\ index' = index
    /\ row'.status = "done" => row.status = "done"
    /\ row'.status = "uploaded" => row.status = "uploaded" \/ row.blob # None

\* update_remember_job_after_wallet_error records no mint and reports no success.
LEMMA WalletErrorQuiet ==
  ASSUME Typed, NEW result, row' = AfterWalletError(row, result), index' = index
  PROVE  RowQuiet
  BY DEF Typed, TypeOK, Row, AfterWalletError, RowQuiet

\* mark_remember_job_failed records no mint and reports no success.
LEMMA MarkFailedQuiet ==
  ASSUME Typed, row' = row \/ row' = MarkFailed(row), index' = index
  PROVE  RowQuiet
  BY DEF Typed, TypeOK, Row, MarkFailed, RowQuiet

\* Only persist_uploaded_state and the final status write do more than that.
LEMMA RowFrame ==
  ASSUME Typed, [Next]_vars
  PROVE  RowQuiet \/ \E w \in Workers : PersistUploaded(w) \/ IndexAndDone(w)
  <1>a. row \in Row
    BY DEF Typed, TypeOK
  <1>1. CASE row' = row /\ index' = index
    BY <1>1, MarkFailedQuiet
  <1>2. CASE RequestStep
    <2>1. index' = index
      BY <1>2, Zenon
      DEF RequestStep, InsertRow, InsertBulkRow, ClaimInserted, ClaimPreparation,
          RetryUnpaid, RetryPaid, EnqueueRecovery, PublishRecovery, PersistPreparation, EnqueuePrepared,
          EnqueueBulk, PreparationFails, BulkPreparationFails
    <2>2. CASE InsertRow \/ InsertBulkRow
      <3>1. row' = [row EXCEPT !.status = "pending"]
        BY <2>2, Zenon DEF InsertRow, InsertBulkRow
      <3>2. row.status = "none"
        BY <2>2, Zenon DEF InsertRow, InsertBulkRow
      <3> QED BY <2>1, <3>1, <3>2, <1>a DEF Row, RowQuiet
    <2>3. CASE ClaimPreparation
      <3>1. PICK token \in Tokens : row' = [row EXCEPT !.token = token, !.leased = TRUE,
                                                       !.status = "pending"]
        BY <2>3, Zenon DEF ClaimPreparation
      <3> QED BY <2>1, <3>1, <1>a DEF Row, RowQuiet
    <2>4. CASE RetryPaid
      <3>1. PICK token \in RecTokens :
              row' = [row EXCEPT !.recToken = token, !.recLeased = TRUE]
        BY <2>4, Zenon DEF RetryPaid
      <3> QED BY <2>1, <3>1, <1>a DEF Row, RowQuiet
    <2>5. ASSUME NEW h \in recovery, PublishRecovery(h) PROVE RowQuiet
      BY <2>1, <2>5, <1>a DEF PublishRecovery, Row, RowQuiet
    <2>6. ASSUME NEW p \in prep, PersistPreparation(p) PROVE RowQuiet
      <3>1. row' = row \/ row' = [row EXCEPT !.prepared = p.ct]
        BY <2>6, Zenon DEF PersistPreparation
      <3> QED BY <2>1, <3>1, <1>a DEF Row, RowQuiet
    <2>7. ASSUME NEW p \in prep, PreparationFails(p) \/ BulkPreparationFails(p)
          PROVE RowQuiet
      <3>1. row' = row \/ row' = MarkFailed(row)
        BY <2>7 DEF PreparationFails, BulkPreparationFails
      <3> QED BY <2>1, <3>1, MarkFailedQuiet
    <2>8. ASSUME NEW h \in recovery, EnqueueRecovery(h) PROVE row' = row
      BY <2>8, Zenon DEF EnqueueRecovery
    <2>9. ASSUME NEW p \in prep, EnqueuePrepared(p) \/ EnqueueBulk(p) PROVE row' = row
      BY <2>9, Zenon DEF EnqueuePrepared, EnqueueBulk
    <2>10. CASE ClaimInserted
      <3>1. ClaimPreparation \/ row' = row
        BY <2>10, Zenon DEF ClaimInserted
      <3> QED BY <2>1, <2>3, <3>1, <1>1
    <2>11. CASE RetryUnpaid
      BY <2>3, <2>11 DEF RetryUnpaid
    <2> QED BY <1>1, <1>2, <2>1, <2>2, <2>4, <2>5, <2>6, <2>7, <2>8, <2>9, <2>10, <2>11
        DEF RequestStep
  <1>3. ASSUME NEW w \in Workers,
               (\E q \in Slots : Dispatch(w, q)) \/ Ack(w) \/ FanOut(w)
        PROVE  row' = row /\ index' = index
    BY <1>3, Zenon DEF Dispatch, Ack, FanOut
  <1>4. ASSUME NEW w \in Workers, StartUpload(w) PROVE RowQuiet
    BY <1>4, <1>a DEF StartUpload, Row, RowQuiet
  <1>5. ASSUME NEW w \in Workers,
               \/ StartUploadFails(w) \/ SidecarEncode(w) \/ SidecarPrepare(w)
               \/ SidecarRegister(w) \/ SidecarUpload(w) \/ SidecarCertify(w)
               \/ PersistStep(w) \/ Handoff(w)
        PROVE  row' = row /\ index' = index
    BY <1>5, Zenon
    DEF StartUploadFails, SidecarEncode, SidecarPrepare, SidecarRegister, SidecarUpload,
        SidecarCertify, PersistStep, Handoff
  <1>6. ASSUME NEW w \in Workers,
               \/ DeferUpload(w) \/ CallRejected(w) \/ RegisterReverts(w) \/ CallFails(w)
               \/ PersistFails(w) \/ TransferRejected(w) \/ TransferFails(w)
               \/ IndexFails(w)
        PROVE  RowQuiet
    <2>1. index' = index
      BY <1>6, Zenon
      DEF DeferUpload, CallRejected, RegisterReverts, CallFails, PersistFails,
          TransferRejected, TransferFails, IndexFails
    <2>2. \E result : row' = AfterWalletError(row, result)
      BY <1>6, Zenon
      DEF DeferUpload, CallRejected, RegisterReverts, CallFails, PersistFails,
          TransferRejected, TransferFails, IndexFails, AbandonUpload
    <2> QED BY <2>1, <2>2, WalletErrorQuiet
  <1>7. ASSUME NEW w \in Workers, HandoffFails(w) \/ RescueFails(w) \/ Rescue(w)
        PROVE  RowQuiet
    <2>1. index' = index /\ (row' = row \/ row' = MarkFailed(row))
      BY <1>7, Zenon DEF HandoffFails, RescueFails, Rescue
    <2> QED BY <2>1, MarkFailedQuiet
  <1>8. ASSUME NEW w \in Workers, TransferSucceeds(w) PROVE row' = row /\ index' = index
    BY <1>8, Zenon DEF TransferSucceeds
  <1>9. CASE LeaseExpires
    BY <1>9, <1>a DEF LeaseExpires, Row, RowQuiet
  <1>10. CASE Sweep
    BY <1>10, <1>a DEF Sweep, Row, RowQuiet
  <1>11. CASE (\E o \in orphans : OrphanRuns(o)) \/ Crash \/ UNCHANGED vars
    <2>1. row' = row /\ index' = index
      BY <1>11, Zenon DEF OrphanRuns, Crash, vars
    <2> QED BY <1>1, <2>1
  <1> QED BY <1>1, <1>2, <1>3, <1>4, <1>5, <1>6, <1>7, <1>8, <1>9, <1>10, <1>11
      DEF Next, UploadStep, DeliverStep

\* Who reaches the hand-off: after recording the mint, or on finding it recorded.
LEMMA HandoffFrame ==
  ASSUME Typed, LockInv, [Next]_vars, NEW u \in Workers, wk'[u].pc = "handoff"
  PROVE  wk[u].pc = "handoff" \/ row.blob # None \/ PersistUploaded(u)
  <1>a. wk \in [Workers -> Worker] /\ wk'[u].pc \in LockedPCs
    BY DEF Typed, TypeOK, LockedPCs
  <1>1. CASE \A v \in Workers : wk'[v].pc \in LockedPCs => wk'[v] = wk[v]
    BY <1>1, <1>a
  <1>2. ASSUME NEW w \in Workers,
               \/ SidecarEncode(w) \/ SidecarPrepare(w) \/ SidecarRegister(w)
               \/ SidecarUpload(w) \/ SidecarCertify(w)
        PROVE  wk[u].pc = "handoff"
    <2>1. \E j : wk' = Answer(w, j)
      BY <1>2 DEF SidecarEncode, SidecarPrepare, SidecarRegister, SidecarUpload,
                  SidecarCertify
    <2> QED BY <2>1, AnswerFrame
  <1>3. ASSUME NEW w \in Workers, PersistStep(w) PROVE wk[u].pc = "handoff"
    BY <1>3, <1>a DEF PersistStep, Worker
  <1>4. ASSUME NEW w \in Workers, PersistUploaded(w), w # u PROVE wk[u].pc = "handoff"
    BY <1>4, <1>a DEF PersistUploaded, Worker
  <1>5. ASSUME NEW w \in Workers, StartUpload(w), row.blob = None
        PROVE  wk[u].pc = "handoff"
    BY <1>5, <1>a DEF StartUpload, Return, Worker
  <1> QED BY <1>1, <1>2, <1>3, <1>4, <1>5, HeldFrame

\* What PersistUploaded and IndexAndDone write.
LEMMA RecordedRow ==
  ASSUME Typed, JournalInv, JobsInv, RowInv, NEW w \in Workers,
         PersistUploaded(w) \/ IndexAndDone(w)
  PROVE  /\ journal.step = "certified" /\ journal' = journal /\ chain' = chain
         /\ journal.ct # None
         /\ row'.blob = journal.ct /\ row'.obj = journal.obj
         /\ index' = index \/ (index' = journal.ct /\ chain[journal.obj].owner = "user")
         /\ row'.status = "done" => row.status = "done" \/ index' # None
         /\ row'.token = row.token \/ row'.token = None
  <1>a. row \in Row /\ WellFormed(journal)
    BY DEF Typed, TypeOK, ShapeInv
  <1>1. CASE PersistUploaded(w)
    <2>1. /\ wk[w].pc = "certified" /\ journal' = journal /\ chain' = chain
          /\ index' = index
      BY <1>1 DEF PersistUploaded
    <2>2. wk[w].journal = journal /\ journal.step = "certified"
      BY <2>1 DEF JournalInv, HeldInv
    <2>3. /\ row'.blob = wk[w].journal.ct /\ row'.obj = wk[w].journal.obj
          /\ row'.status = "uploaded" /\ row'.token = None
      BY <1>1, <1>a DEF PersistUploaded, Row
    <2> QED BY <1>a, <2>1, <2>2, <2>3 DEF WellFormed
  <1>2. CASE IndexAndDone(w)
    <2>1. /\ wk[w].pc = "index" /\ journal' = journal /\ chain' = chain
          /\ index' = wk[w].job.blob
          /\ row' = row \/ row' = DoneRow(row, wk[w].job.blob)
      BY <1>2 DEF IndexAndDone
    <2>2. PaidJob(chain, journal, wk[w].job) /\ chain[journal.obj].owner = "user"
      BY <2>1 DEF JobsInv, DeliverInv, Delivering
    <2>3. row.blob # None
      BY <2>1 DEF RowInv, Delivering
    <2>4. /\ journal.step = "certified" /\ row.blob = journal.ct
          /\ row.obj = journal.obj /\ index' = journal.ct
      BY <2>1, <2>2, <2>3 DEF RowInv, PaidJob
    <2>5. DoneRow(row, wk[w].job.blob).blob = wk[w].job.blob
          /\ DoneRow(row, wk[w].job.blob).obj = row.obj
          /\ DoneRow(row, wk[w].job.blob).token = None
      BY <1>a DEF DoneRow, Row
    <2> QED BY <1>a, <2>1, <2>2, <2>3, <2>4, <2>5 DEF PaidJob
  <1> QED BY <1>1, <1>2

\* The row records a mint once certified, for good, and success once delivered.
LEMMA NextRow ==
  ASSUME Typed, LockInv, JournalInv, ChainInv, JobsInv, RowInv, Typed', [Next]_vars
  PROVE  RowInv' /\ (row.blob # None => row'.blob = row.blob /\ row'.obj = row.obj)
  <1>1. \/ RowQuiet
        \/ /\ journal.step = "certified" /\ journal' = journal /\ chain' = chain
           /\ journal.ct # None
           /\ row'.blob = journal.ct /\ row'.obj = journal.obj
           /\ index' = index \/ (index' = journal.ct /\ chain[journal.obj].owner = "user")
           /\ row'.status = "done" => row.status = "done" \/ index' # None
    BY RowFrame, RecordedRow
  <1>2. row.blob # None => row'.blob = row.blob /\ row'.obj = row.obj
    BY <1>1 DEF RowQuiet, RowInv
  <1>3. row'.blob # None => /\ journal'.step = "certified"
                            /\ row'.blob = journal'.ct /\ row'.obj = journal'.obj
    BY <1>1, CertifiedKept DEF RowQuiet, RowInv
  <1>4. row'.blob = None => row'.obj = None /\ row'.status \notin {"uploaded", "done"}
    BY <1>1 DEF RowQuiet, RowInv
  <1>5. ASSUME NEW u \in Workers,
               \/ wk'[u].pc \in {"handoff"} \cup Delivering
               \/ wk'[u].pc = "ack" /\ wk'[u].job.op \in AfterMint
        PROVE  row'.blob # None
    <2>1. CASE row.blob # None
      BY <1>2, <2>1
    <2>2. CASE PersistUploaded(u)
      BY <2>2, RecordedRow
    <2>3. CASE wk'[u].pc = "handoff"
      BY <2>1, <2>2, <2>3, HandoffFrame DEF RowInv
    <2>4. CASE wk'[u].pc \in Delivering
      <3>1. CASE wk[u].pc \in Delivering
        BY <2>1, <3>1 DEF RowInv
      <3>2. ASSUME NEW q \in Slots, Dispatch(u, q) PROVE row.blob # None
        <4>1. /\ queue[q].st # "Done" /\ wk'[u].pc = EntryPoint(queue[q].job)
          BY <3>2 DEF Dispatch, Typed, TypeOK
        <4>2. queue[q].job.op \in AfterMint
          BY <2>4, <4>1, JobOf DEF EntryPoint, Delivering, AfterMint, Job, Ops
        <4> QED BY <4>1, <4>2 DEF RowInv
      <3> QED BY <2>1, <2>4, <3>1, <3>2, WorkerFrame
          DEF Delivering, Uploading, TransferSucceeds, IndexFails
    <2>5. CASE wk'[u].pc = "ack" /\ wk'[u].job.op \in AfterMint
      <3>1. CASE wk'[u] = wk[u]
        BY <2>1, <2>5, <3>1 DEF RowInv
      <3>2. CASE wk[u].pc # "idle" /\ wk'[u].job = wk[u].job
        BY <2>1, <2>5, <3>2 DEF RowInv, JobsInv, DeliverInv
      <3>3. ASSUME NEW q \in Slots, Dispatch(u, q) PROVE FALSE
        <4>1. /\ queue[q].st # "Done" /\ wk'[u].pc = EntryPoint(queue[q].job)
              /\ wk'[u].job = queue[q].job
          BY <3>3 DEF Dispatch, Typed, TypeOK
        <4> QED BY <2>5, <4>1, JobOf DEF EntryPoint, AfterMint, Job, Ops
      <3>4. TransferSucceeds(u) => wk[u].pc # "idle" /\ wk'[u].job = wk[u].job
        BY DEF TransferSucceeds, Typed, TypeOK, Worker
      <3> QED BY <2>5, <3>1, <3>2, <3>3, <3>4, WorkerFrame DEF Uploading, IndexFails
    <2> QED BY <1>5, <2>3, <2>4, <2>5
  <1>6. ASSUME NEW q \in Slots, queue'[q].st # "Done", queue'[q].job.op \in AfterMint
        PROVE  row'.blob # None
    <2>1. row.blob # None
      <3>1. ASSUME NEW w \in Workers, wk[w].pc = "ack", wk[w].job.op \in AfterMint
            PROVE  row.blob # None
        BY <3>1 DEF RowInv
      <3> QED BY <1>6, <3>1, QueueFrame DEF RowInv, Delivering
    <2> QED BY <1>2, <2>1
  <1>7. index' # None => index' = row'.blob /\ chain'[journal'.obj].owner = "user"
    <2>1. ASSUME index # None PROVE chain'[journal'.obj].owner = "user"
      <3>1. journal.step = "certified" /\ chain[journal.obj].owner = "user"
        BY <2>1 DEF RowInv
      <3>2. journal.obj \in Txs
        BY <3>1 DEF Typed, TypeOK, ShapeInv, Journal, OrNone, WellFormed, Registered
      <3> QED BY <3>1, <3>2, CertifiedKept, NextGrows DEF Grows
    <2> QED BY <1>1, <2>1 DEF RowQuiet, RowInv
  <1>8. row'.status = "done" => index' # None
    BY <1>1 DEF RowQuiet, RowInv
  <1> QED BY <1>2, <1>3, <1>4, <1>5, <1>6, <1>7, <1>8 DEF RowInv

-------------------------------------------------------------------------------
(* Before the mint is recorded, and after success is reported.             *)

\* The row does not go back to not being there, and keeps 'done' unless a
\* worker aborts over a push.
StatusKept ==
    /\ row'.status = "none" => row.status = "none"
    /\ row.status = "done" => row'.status = "done" \/ PushAborted

\* The steps of a worker.
WorkerStep(w) ==
    \/ \E q \in Slots : Dispatch(w, q)
    \/ Ack(w) \/ FanOut(w) \/ UploadStep(w) \/ DeliverStep(w)

\* An idle worker with an empty queue does nothing.
LEMMA NobodyActs ==
  ASSUME Untouched, NEW w \in Workers, WorkerStep(w)
  PROVE  FALSE
  <1>1. wk[w].pc = "idle" /\ \A q \in Slots : queue[q].st = "Done"
    BY DEF Untouched
  <1>2. CASE \E q \in Slots : Dispatch(w, q)
    BY <1>1, <1>2 DEF Dispatch
  <1>3. CASE Ack(w) \/ FanOut(w)
    BY <1>1, <1>3 DEF Ack, FanOut
  <1>4. CASE UploadStep(w)
    BY <1>1, <1>4
    DEF UploadStep, DeferUpload, StartUpload, StartUploadFails, SidecarEncode,
        SidecarPrepare, SidecarRegister, SidecarUpload, SidecarCertify, CallRejected,
        RegisterReverts, CallFails, PersistStep, PersistUploaded, PersistFails, Handoff,
        HandoffFails, InCall
  <1>5. CASE DeliverStep(w)
    BY <1>1, <1>5
    DEF DeliverStep, TransferSucceeds, TransferRejected, TransferFails, IndexAndDone,
        IndexFails, Rescue, RescueFails
  <1> QED BY <1>2, <1>3, <1>4, <1>5 DEF WorkerStep

\* A worker leaves the status alone, records an outcome, or downgrades 'done'
\* in the one place where it does not look.
LEMMA WorkerStatus ==
  ASSUME Typed, RowInv, UnpaidInv, NEW w \in Workers, WorkerStep(w)
  PROVE  StatusKept
  <1>a. row \in Row /\ wk \in [Workers -> Worker]
    BY DEF Typed, TypeOK
  <1>1. CASE row' = row
    BY <1>1 DEF StatusKept
  <1>2. CASE (\E q \in Slots : Dispatch(w, q)) \/ Ack(w) \/ FanOut(w)
    <2>1. row' = row
      BY <1>2, Zenon DEF Dispatch, Ack, FanOut
    <2> QED BY <1>1, <2>1
  <1>3. CASE \/ StartUploadFails(w) \/ SidecarEncode(w) \/ SidecarPrepare(w)
             \/ SidecarRegister(w) \/ SidecarUpload(w) \/ SidecarCertify(w)
             \/ PersistStep(w) \/ Handoff(w) \/ TransferSucceeds(w) \/ Rescue(w)
    <2>1. row' = row
      BY <1>3, Zenon
      DEF StartUploadFails, SidecarEncode, SidecarPrepare, SidecarRegister, SidecarUpload,
          SidecarCertify, PersistStep, Handoff, TransferSucceeds, Rescue
    <2> QED BY <1>1, <2>1
  <1>4. CASE \/ DeferUpload(w) \/ CallRejected(w) \/ RegisterReverts(w) \/ CallFails(w)
             \/ PersistFails(w) \/ TransferRejected(w) \/ TransferFails(w) \/ IndexFails(w)
    <2>1. \E result : row' = AfterWalletError(row, result)
      BY <1>4, Zenon
      DEF DeferUpload, CallRejected, RegisterReverts, CallFails, PersistFails,
          TransferRejected, TransferFails, IndexFails, AbandonUpload
    <2> QED BY <1>a, <2>1 DEF AfterWalletError, Row, StatusKept
  <1>5. CASE StartUpload(w)
    <2> DEFINE claimed == IF wk[w].job.token = None THEN row
                          ELSE [row EXCEPT !.status = "running", !.leased = FALSE]
    <2>a. row' = row \/ (row.blob = None /\ row' = [claimed EXCEPT !.status = "running"])
      BY <1>5, Zenon DEF StartUpload
    <2>b. claimed \in Row
      BY <1>a DEF Row, Statuses
    <2> HIDE DEF claimed
    <2>c. \A r \in Row : [r EXCEPT !.status = "running"].status = "running"
      BY DEF Row
    <2>1. row' = row \/ (row.blob = None /\ row'.status = "running")
      BY <2>a, <2>b, <2>c, Zenon
    <2> QED BY <1>1, <2>1 DEF RowInv, StatusKept
  <1>6. CASE PersistUploaded(w)
    <2>1. wk[w].pc = "certified" /\ row'.status = "uploaded"
      BY <1>a, <1>6 DEF PersistUploaded, Row
    <2>2. row.blob = None
      BY <2>1 DEF UnpaidInv, Unpaid
    <2> QED BY <2>1, <2>2 DEF RowInv, StatusKept
  <1>7. CASE IndexAndDone(w)
    BY <1>a, <1>7 DEF IndexAndDone, DoneRow, Row, StatusKept
  <1>8. CASE HandoffFails(w) \/ RescueFails(w)
    <2>1. \/ row' = row
          \/ /\ row' = MarkFailed(row) /\ wk' = Return(w, "abort")
             /\ wk[w].pc \in {"handoff", "rescue"}
      BY <1>8 DEF HandoffFails, RescueFails
    <2>2. CASE row' = MarkFailed(row) /\ wk' = Return(w, "abort")
               /\ wk[w].pc \in {"handoff", "rescue"}
      <3>1. PushAborted
        BY <1>a, <2>2 DEF PushAborted, Return, Worker
      <3>2. row'.status = "failed"
        BY <1>a, <2>2 DEF MarkFailed, Row
      <3> QED BY <3>1, <3>2 DEF StatusKept
    <2> QED BY <1>1, <2>1, <2>2
  <1> QED BY <1>2, <1>3, <1>4, <1>5, <1>6, <1>7, <1>8 DEF WorkerStep, UploadStep, DeliverStep

\* What the invariant says of a row nobody has uploaded for.
BulkInv ==
    /\ fresh => kind # "bulk"
    /\ row.status = "none" => Untouched /\ prep = {} /\ row.blob = None
    /\ \A p \in prep : p.token = None =>
         /\ kind = "bulk" /\ prep = {p} /\ p.stage = "encrypt"
         /\ Untouched /\ row.blob = None

\* Claiming a preparation: not on a bulk row, with a token, on a row that is there.
LEMMA ClaimStatus ==
  ASSUME Typed, BulkInv, ClaimPreparation, kind # "bulk"
  PROVE  /\ row.status \in {"pending", "failed"} /\ row'.status = "pending"
         /\ row'.blob = row.blob
         /\ kind' = kind /\ \A p \in prep' : p.token # None
  <1>a. row \in Row /\ prep \subseteq PrepTask
    BY DEF Typed, TypeOK
  <1>1. row.status \in {"pending", "failed"}
    BY DEF ClaimPreparation, PreparationClaimable
  <1>2. PICK token \in Tokens :
          /\ row' = [row EXCEPT !.token = token, !.leased = TRUE, !.status = "pending"]
          /\ prep' = prep \cup {[token |-> token, ct |-> token, stage |-> "encrypt"]}
    BY Zenon DEF ClaimPreparation
  <1>3. row'.status = "pending" /\ row'.blob = row.blob
    BY <1>a, <1>2 DEF Row
  <1>4. \A p \in prep' : p.token # None
    BY <1>2, NoneAssumption DEF BulkInv
  <1>5. kind' = kind
    BY DEF ClaimPreparation
  <1> QED BY <1>1, <1>3, <1>4, <1>5

\* The requests keep a row's beginning in order, and never touch 'done'.
LEMMA RequestStatus ==
  ASSUME Typed, RowInv, BulkInv, RequestStep
  PROVE  StatusKept /\ BulkInv'
  <1>a. row \in Row /\ prep \subseteq PrepTask
    BY DEF Typed, TypeOK
  <1>b. wk' = wk
    BY Zenon
    DEF RequestStep, InsertRow, InsertBulkRow, ClaimInserted, ClaimPreparation,
        RetryUnpaid, RetryPaid, EnqueueRecovery, PublishRecovery, PersistPreparation, EnqueuePrepared,
        EnqueueBulk, PreparationFails, BulkPreparationFails
  <1>c. kind' = kind
    BY Zenon
    DEF RequestStep, InsertRow, InsertBulkRow, ClaimInserted, ClaimPreparation,
        RetryUnpaid, RetryPaid, EnqueueRecovery, PublishRecovery, PersistPreparation, EnqueuePrepared,
        EnqueueBulk, PreparationFails, BulkPreparationFails
  <1>1. CASE InsertRow
    <2>1. /\ kind # "bulk" /\ row.status = "none" /\ row'.status = "pending"
          /\ prep' = prep
      BY <1>a, <1>1 DEF InsertRow, Row
    <2> QED BY <1>c, <2>1 DEF BulkInv, StatusKept
  <1>2. CASE InsertBulkRow
    <2>1. /\ kind = "bulk" /\ row.status = "none" /\ row'.status = "pending"
          /\ row'.blob = row.blob /\ fresh' = fresh
      BY <1>a, <1>2 DEF InsertBulkRow, Row
    <2>2. PICK ct \in Tokens : prep' = prep \cup {[token |-> None, ct |-> ct, stage |-> "encrypt"]}
      BY <1>2, Zenon DEF InsertBulkRow
    <2>3. Untouched /\ prep = {} /\ row.blob = None
      BY <2>1 DEF BulkInv
    <2>4. Untouched'
      BY <1>2, <2>3 DEF InsertBulkRow, Untouched
    <2> QED BY <1>c, <2>1, <2>2, <2>3, <2>4 DEF BulkInv, StatusKept
  <1>3. ASSUME ClaimPreparation, kind # "bulk" PROVE StatusKept /\ BulkInv'
    BY <1>3, <1>c, ClaimStatus DEF BulkInv, StatusKept
  <1>4. CASE ClaimInserted
    <2>1. fresh /\ ~fresh'
      BY <1>4 DEF ClaimInserted
    <2>2. CASE ClaimPreparation
      BY <1>3, <2>1, <2>2 DEF BulkInv
    <2>3. CASE UNCHANGED <<row, prep, recovery, queue>>
      BY <1>b, <1>c, <2>1, <2>3 DEF BulkInv, Untouched, StatusKept
    <2> QED BY <1>4, <2>2, <2>3 DEF ClaimInserted
  <1>5. CASE RetryUnpaid
    BY <1>3, <1>5 DEF RetryUnpaid
  <1>6. CASE RetryPaid
    <2>1. /\ kind = "keyed" /\ row.status \in {"failed", "uploaded"}
          /\ prep' = prep /\ fresh' = fresh
      BY <1>6 DEF RetryPaid, RecoveryClaimable
    <2>2. PICK token \in RecTokens : row' = [row EXCEPT !.recToken = token, !.recLeased = TRUE]
      BY <1>6, Zenon DEF RetryPaid
    <2>3. row'.status = row.status
      BY <1>a, <2>2 DEF Row
    <2> QED BY <1>c, <2>1, <2>3 DEF BulkInv, StatusKept
  <1>7. ASSUME NEW h \in recovery, EnqueueRecovery(h) \/ PublishRecovery(h)
        PROVE  StatusKept /\ BulkInv'
    <2>1. prep' = prep /\ fresh' = fresh
      BY <1>7, Zenon DEF EnqueueRecovery, PublishRecovery
    <2>2. row' = row \/ (row.status # "done" /\ row' = [row EXCEPT !.status = "uploaded"])
      BY <1>7 DEF EnqueueRecovery, PublishRecovery
    <2>3. row.status # "none" /\ \A p \in prep : p.token # None
      BY <1>7 DEF BulkInv, Untouched
    <2>4. StatusKept
      BY <1>a, <2>2 DEF Row, StatusKept
    <2> QED BY <1>c, <2>1, <2>3, <2>4 DEF BulkInv, StatusKept
  <1>8. ASSUME NEW p \in prep, p.token # None,
               PersistPreparation(p) \/ EnqueuePrepared(p) \/ PreparationFails(p)
        PROVE  StatusKept /\ BulkInv'
    <2>1. /\ fresh' = fresh
          /\ prep' \subseteq prep \cup {[p EXCEPT !.stage = "persisted"]}
      BY <1>8 DEF PersistPreparation, EnqueuePrepared, PreparationFails
    <2>2. \/ row' = row \/ row' = [row EXCEPT !.prepared = p.ct]
          \/ row.status # "done" /\ row' = MarkFailed(row)
      BY <1>8 DEF PersistPreparation, EnqueuePrepared, PreparationFails
    <2>3. row.status # "none" /\ \A o \in prep : o.token # None
      BY <1>8 DEF BulkInv
    <2>4. StatusKept
      BY <1>a, <2>2 DEF Row, MarkFailed, StatusKept
    <2>5. [p EXCEPT !.stage = "persisted"].token # None
      BY <1>a, <1>8 DEF PrepTask
    <2> QED BY <1>c, <2>1, <2>3, <2>4, <2>5 DEF BulkInv, StatusKept
  <1>9. ASSUME NEW p \in prep, p.token = None,
               EnqueueBulk(p) \/ BulkPreparationFails(p)
        PROVE  StatusKept /\ BulkInv'
    <2>1. fresh' = fresh /\ prep' = prep \ {p} /\ (row' = row \/ row' = MarkFailed(row))
      BY <1>9 DEF EnqueueBulk, BulkPreparationFails
    <2>2. prep = {p} /\ row.blob = None /\ row.status # "none"
      BY <1>9 DEF BulkInv
    <2>3. row.status # "done"
      BY <2>2 DEF RowInv
    <2>4. row'.status # "none"
      BY <1>a, <2>1, <2>2 DEF MarkFailed, Row
    <2> QED BY <1>c, <2>1, <2>2, <2>3, <2>4 DEF BulkInv, StatusKept
  <1>10. ASSUME NEW p \in prep, p.token = None, EnqueuePrepared(p) PROVE FALSE
    BY <1>10 DEF BulkInv, EnqueuePrepared
  <1> QED BY <1>1, <1>2, <1>4, <1>5, <1>6, <1>7, <1>8, <1>9, <1>10
      DEF RequestStep, PersistPreparation, PreparationFails, EnqueueBulk, BulkPreparationFails

\* No step takes a row back to its beginning or uploads for a bulk row that is
\* still being prepared; 'done' is lost to a failed push only.
LEMMA NextStatus ==
  ASSUME Typed, RowInv, UnpaidInv, [Next]_vars
  PROVE  StatusKept /\ BulkInv'
  <1>a. row \in Row
    BY DEF Typed, TypeOK
  <1>b. BulkInv
    BY DEF UnpaidInv, BulkInv
  <1>1. CASE RequestStep
    BY <1>1, <1>b, RequestStatus
  <1>2. ASSUME NEW w \in Workers, WorkerStep(w) PROVE StatusKept /\ BulkInv'
    <2>1. StatusKept
      BY <1>2, WorkerStatus
    <2>2. ~Untouched
      BY <1>2, NobodyActs
    <2>3. kind' = kind /\ fresh' = fresh /\ prep' = prep
      BY <1>2, Zenon
      DEF WorkerStep, UploadStep, DeliverStep, Dispatch, Ack, FanOut, DeferUpload,
          StartUpload, StartUploadFails, SidecarEncode, SidecarPrepare, SidecarRegister,
          SidecarUpload, SidecarCertify, CallRejected, RegisterReverts, CallFails,
          PersistStep, PersistUploaded, PersistFails, Handoff, HandoffFails,
          TransferSucceeds, TransferRejected, TransferFails, IndexAndDone, IndexFails,
          Rescue, RescueFails
    <2> QED BY <1>b, <2>1, <2>2, <2>3 DEF BulkInv, StatusKept
  <1>3. CASE (\E o \in orphans : OrphanRuns(o)) \/ LeaseExpires \/ Sweep \/ UNCHANGED vars
    <2>1. UNCHANGED <<kind, fresh, prep, recovery, queue, wk>>
      BY <1>3, Zenon DEF OrphanRuns, LeaseExpires, Sweep, vars
    <2>2. \/ row' = row \/ row' = [row EXCEPT !.leased = FALSE]
          \/ row' = [row EXCEPT !.recLeased = FALSE]
          \/ row.status \in {"running", "uploaded"} /\ row' = [row EXCEPT !.status = "failed"]
      BY <1>3 DEF OrphanRuns, LeaseExpires, Sweep, SweptStatuses, vars
    <2>3. StatusKept /\ row'.blob = row.blob
      BY <1>a, <2>2 DEF Row, StatusKept
    <2>4. Untouched => Untouched'
      BY <2>1 DEF Untouched
    <2> QED BY <1>b, <2>1, <2>3, <2>4 DEF BulkInv, StatusKept
  <1>4. CASE Crash
    <2>1. /\ ~fresh' /\ prep' = {} /\ recovery' = {} /\ row' = row /\ queue' = queue
          /\ \A w \in Workers : wk'[w].pc = "idle"
      BY <1>4 DEF Crash, IdleWorker
    <2>2. Untouched => Untouched'
      BY <2>1 DEF Untouched
    <2> QED BY <1>b, <2>1, <2>2 DEF BulkInv, StatusKept
  <1> QED BY <1>1, <1>2, <1>3, <1>4 DEF Next, WorkerStep

\* An upload runs only while no mint is recorded: whoever records one holds the
\* lock, or delivers what is recorded already.
LEMMA NextUnpaid ==
  ASSUME Typed, LockInv, RowInv, UnpaidInv, [Next]_vars
  PROVE  UnpaidInv'
  <1>a. wk \in [Workers -> Worker] /\ row \in Row
    BY DEF Typed, TypeOK
  <1>1. ASSUME NEW u \in Workers, wk'[u].pc \in Unpaid PROVE row'.blob = None
    <2>1. wk[u].pc \in Unpaid \/ (lock = None /\ row.blob = None)
      <3>1. wk'[u].pc \in LockedPCs
        BY <1>1 DEF Unpaid, LockedPCs
      <3>2. ASSUME NEW w \in Workers,
                   \/ SidecarEncode(w) \/ SidecarPrepare(w) \/ SidecarRegister(w)
                   \/ SidecarUpload(w) \/ SidecarCertify(w)
            PROVE  wk[u].pc \in Unpaid
        <4>1. (\E j : wk' = Answer(w, j)) /\ wk[w].pc = "call"
          BY <3>2 DEF SidecarEncode, SidecarPrepare, SidecarRegister, SidecarUpload,
                      SidecarCertify, InCall
        <4> QED BY <1>1, <4>1, AnswerFrame DEF Unpaid
      <3>3. ASSUME NEW w \in Workers, PersistStep(w) \/ PersistUploaded(w)
            PROVE  wk[u].pc \in Unpaid
        BY <1>1, <1>a, <3>3 DEF PersistStep, PersistUploaded, Worker, Unpaid
      <3>4. ASSUME NEW w \in Workers, StartUpload(w)
            PROVE  wk[u].pc \in Unpaid \/ (lock = None /\ row.blob = None)
        <4>1. CASE u # w
          BY <1>1, <1>a, <3>4, <4>1 DEF StartUpload, Return
        <4>2. CASE u = w
          <5>1. \/ wk' = Return(u, "ok")
                \/ \E j : wk' = [wk EXCEPT ![u].pc = "handoff", ![u].journal = j]
                \/ row.blob = None
            BY <3>4, <4>2, Zenon DEF StartUpload
          <5>2. row.blob = None
            BY <1>1, <1>a, <5>1, ReturnFrame DEF Unpaid, Worker
          <5> QED BY <3>4, <5>2 DEF StartUpload, LockFree
        <4> QED BY <4>1, <4>2
      <3> QED BY <1>1, <3>1, <3>2, <3>3, <3>4, HeldFrame
    <2>2. row.blob = None
      BY <2>1 DEF UnpaidInv
    <2>3. ASSUME NEW w \in Workers, PersistUploaded(w) PROVE FALSE
      <3>1. wk[w].pc = "certified" /\ lock = w /\ wk'[w].pc = "handoff"
        BY <1>a, <2>3 DEF PersistUploaded, LockInv, LockedPCs, Worker
      <3>2. wk[u].pc \in Unpaid => lock = u
        BY DEF LockInv, LockedPCs, Unpaid
      <3>3. w = u
        BY <2>1, <3>1, <3>2, NoneAssumption
      <3> QED BY <1>1, <3>1, <3>3 DEF Unpaid
    <2>4. ASSUME NEW w \in Workers, IndexAndDone(w) PROVE FALSE
      BY <2>2, <2>4 DEF IndexAndDone, RowInv, Delivering
    <2> QED BY <2>2, <2>3, <2>4, RowFrame DEF RowQuiet
  <1>2. BulkInv'
    BY NextStatus
  <1> QED BY <1>1, <1>2 DEF UnpaidInv, BulkInv

-------------------------------------------------------------------------------
(* The inductive invariant and the theorems.                               *)

\* Nothing is signed, queued or recorded at the start.
LEMMA InitInv == Init => IndInv
  <1> SUFFICES ASSUME Init PROVE IndInv
    OBVIOUS
  <1>1. Typed
    BY InitTyped
  <1>2. /\ journal = NoJournal /\ row.blob = None /\ row.obj = None
        /\ row.status = "none" /\ orphans = {} /\ index = None
        /\ \A q \in Slots : queue[q].st = "Done"
        /\ \A w \in Workers : wk[w].pc = "idle"
        /\ \A t \in Txs : chain[t].st = "none" /\ chain[t].owner = "none"
    BY DEF Init, DoneEntry, IdleWorker, NoTx
  <1>3. \A t \in Txs : ~chain[t].certified
    BY DEF Init, NoTx
  <1>4. LockInv
    BY <1>2 DEF LockInv, LockedPCs
  <1>5. JournalInv
    BY <1>2 DEF JournalInv, Backed, NoJournal, HeldInv
  <1>6. ChainInv
    BY <1>2, <1>3 DEF ChainInv, Owned, Submitted
  <1>7. JobsInv
    BY <1>2 DEF JobsInv, EntryInv, DeliverInv
  <1>8. RowInv
    BY <1>2 DEF RowInv, Delivering
  <1>9. UnpaidInv
    <2>1. prep = {} /\ recovery = {} /\ ~fresh
      BY DEF Init
    <2> QED BY <1>2, <2>1 DEF UnpaidInv, Unpaid, Untouched
  <1> QED BY <1>1, <1>4, <1>5, <1>6, <1>7, <1>8, <1>9 DEF IndInv, Typed

\* The parts of the invariant, put together.
LEMMA NextInv == IndInv /\ [Next]_vars => IndInv'
  <1> SUFFICES ASSUME IndInv, [Next]_vars PROVE IndInv'
    OBVIOUS
  <1>1. Typed /\ LockInv /\ JournalInv /\ ChainInv /\ JobsInv /\ RowInv /\ UnpaidInv
    BY DEF IndInv, Typed
  <1>2. Typed'
    BY <1>1, NextTyped
  <1>3. LockInv' /\ JournalInv' /\ ChainInv' /\ JobsInv' /\ RowInv' /\ UnpaidInv'
    BY <1>1, <1>2, NextLock, NextJournal, NextChain, NextJobs, NextRow, NextUnpaid
  <1> QED BY <1>2, <1>3 DEF IndInv, Typed

\* The invariant holds in every reachable state.
THEOREM Invariance == Spec => []IndInv
  BY InitInv, NextInv, PTL DEF Spec

\* Every record of the pipeline keeps its type, whatever interleaves.
THEOREM TypeCorrect == Spec => []TypeOK
  <1>1. IndInv => TypeOK
    BY DEF IndInv
  <1> QED BY <1>1, Invariance, PTL

\* A journal names at most one transaction.
LEMMA NamesOne ==
  ASSUME NEW j, NEW s, NEW t, Names(j, s), Names(j, t)
  PROVE  s = t
  BY DEF Names

\* The register step of one write is charged at most once, across attempts,
\* crashes, same-key retries and sidecar requests that outlive their caller.
THEOREM PaidAtMostOnce == Spec => []AtMostOnePaid
  <1>1. IndInv => AtMostOnePaid
    <2> SUFFICES ASSUME IndInv, NEW s \in Paid, NEW t \in Paid PROVE s = t
      BY DEF AtMostOnePaid
    <2>1. Names(journal, s) /\ Names(journal, t)
      BY DEF IndInv, ChainInv, Submitted, Paid
    <2> QED BY <2>1, NamesOne
  <1> QED BY <1>1, Invariance, PTL

\* Whatever was charged, or may still be charged by a request in flight, is
\* named by the durable journal columns of the row.
THEOREM NoPaidBlobLost == Spec => []PaidIsJournaled
  <1>1. IndInv => PaidIsJournaled
    BY DEF IndInv, ChainInv, Submitted, Paid, PaidIsJournaled, Journaled, OrphanInv
  <1> QED BY <1>1, Invariance, PTL

\* The row reports 'done' only for a certified blob the user owns, under the
\* blob id the index holds.
THEOREM DoneMeansDelivered == Spec => []DoneIsDelivered
  <1>1. IndInv => DoneIsDelivered
    <2> SUFFICES ASSUME IndInv, row.status = "done"
                 PROVE  /\ row.obj \in Paid
                        /\ chain[row.obj].certified /\ chain[row.obj].owner = "user"
                        /\ chain[row.obj].ct = row.blob /\ index = row.blob
      BY DEF DoneIsDelivered
    <2>1. /\ journal.step = "certified" /\ row.obj = journal.obj
          /\ row.blob = journal.ct /\ index = row.blob
          /\ chain[journal.obj].owner = "user"
      BY DEF IndInv, RowInv
    <2>2. journal.obj # None /\ journal.obj \in Txs
      BY <2>1 DEF IndInv, TypeOK, ShapeInv, Journal, OrNone, WellFormed, Registered
    <2>3. Backed(chain, journal)
      BY DEF IndInv, JournalInv
    <2> QED BY <2>1, <2>2, <2>3 DEF Backed, Paid
  <1> QED BY <1>1, Invariance, PTL

\* A search hit never leads to a blob the user does not own.
THEOREM IndexedMeansDelivered == Spec => []IndexedIsDelivered
  <1>1. IndInv => IndexedIsDelivered
    <2> SUFFICES ASSUME IndInv, index # None
                 PROVE  \E t \in Paid : chain[t].ct = index /\ chain[t].owner = "user"
      BY DEF IndexedIsDelivered
    <2>1. /\ journal.step = "certified" /\ index = journal.ct
          /\ chain[journal.obj].owner = "user"
      BY DEF IndInv, RowInv
    <2>2. journal.obj # None /\ journal.obj \in Txs
      BY <2>1 DEF IndInv, TypeOK, ShapeInv, Journal, OrNone, WellFormed, Registered
    <2>3. Backed(chain, journal)
      BY DEF IndInv, JournalInv
    <2> QED BY <2>1, <2>2, <2>3 DEF Backed, Paid
  <1> QED BY <1>1, Invariance, PTL

\* No stale attempt rewinds the durable journal, swaps its wallet or blob, or
\* drops a transaction that may have been sent.
THEOREM JournalOnlyForward == Spec => JournalForward
  <1> DEFINE Step == /\ StepRank[journal'.step] >= StepRank[journal.step]
                     /\ journal.wallet # None => journal'.wallet = journal.wallet
                     /\ journal.ct # None => journal'.ct = journal.ct
                     /\ journal.tx # None => \/ journal'.tx = journal.tx
                                             \/ journal'.obj = journal.tx
  <1>1. IndInv /\ [Next]_vars => Step
    <2> SUFFICES ASSUME IndInv, [Next]_vars PROVE Step
      OBVIOUS
    <2>1. Typed /\ LockInv /\ journal \in Journal
      BY DEF IndInv, Typed, TypeOK
    <2>2. \A s \in Steps : StepRank[s] \in Nat
      BY DEF StepRank, Steps
    <2>3. CASE journal' = journal
      BY <2>1, <2>2, <2>3 DEF Journal
    <2>4. ASSUME NEW w \in Workers, PersistStep(w) PROVE Step
      <3> DEFINE j == wk[w].journal
      <3>1. journal' = j /\ Extends(j, journal) /\ OneAhead(chain, j, journal)
        BY <2>4 DEF PersistStep, IndInv, JournalInv, HeldInv
      <3>2. WellFormed(journal)
        BY DEF IndInv, ShapeInv
      <3>3. StepRank[j.step] >= StepRank[journal.step]
        BY <3>1 DEF OneAhead, StepRank, Steps, Registered
      <3>4. journal.tx # None => j.tx = journal.tx \/ j.obj = journal.tx
        BY <3>1, <3>2 DEF OneAhead, WellFormed, Registered
      <3> QED BY <3>1, <3>3, <3>4 DEF Extends
    <2> QED BY <2>1, <2>3, <2>4, JournalFrame
  <1>2. IndInv /\ [Next]_vars => [Step]_vars
    BY <1>1
  <1> HIDE DEF Step
  <1>3. Spec => [][Step]_vars
    BY <1>2, Invariance, PTL DEF Spec
  <1> QED BY <1>3 DEF JournalForward, Step

\* Once the row records a mint, nothing replaces or clears it.
THEOREM MintRecordKept == Spec => PaidRecordKept
  <1> DEFINE Step == row.blob # None => row'.blob = row.blob /\ row'.obj = row.obj
  <1>1. IndInv /\ [Next]_vars => Step
    <2> SUFFICES ASSUME IndInv, [Next]_vars PROVE Step
      OBVIOUS
    <2>1. Typed /\ LockInv /\ JournalInv /\ ChainInv /\ JobsInv /\ RowInv
      BY DEF IndInv, Typed
    <2>2. Typed'
      BY <2>1, NextTyped
    <2> QED BY <2>1, <2>2, NextRow
  <1>2. IndInv /\ [Next]_vars => [Step]_vars
    BY <1>1
  <1> HIDE DEF Step
  <1>3. Spec => [][Step]_vars
    BY <1>2, Invariance, PTL DEF Spec
  <1> QED BY <1>3 DEF PaidRecordKept, Step

\* A finished row is downgraded in one place only, by a worker whose push of
\* the next job failed.
THEOREM DoneLostToFailedPushOnly == Spec => DoneLostOnlyInHandoff
  <1> DEFINE Step ==
        row.status = "done" /\ row'.status # "done" => PushAborted
  <1>1. IndInv /\ [Next]_vars => Step
    BY NextStatus DEF IndInv, Typed, StatusKept
  <1>2. IndInv /\ [Next]_vars => [Step]_vars
    BY <1>1
  <1> HIDE DEF Step
  <1>3. Spec => [][Step]_vars
    BY <1>2, Invariance, PTL DEF Spec
  <1> QED BY <1>3 DEF DoneLostOnlyInHandoff, Step

-------------------------------------------------------------------------------
(* Refinement of PaidWrite.                                                *)

PaidIn(c) == {t \in Txs : c[t].st = "ok"}
UserIn(c) == {t \in Txs : c[t].owner = "user"}

\* What a request does to the charged and the delivered blobs.
LEMMA EffectsOnSets ==
  ASSUME NEW c \in [Txs -> TxState], Owned(c), NEW t \in Txs, NEW wallet
  PROVE  /\ \A d \in RegisterEffects(c, t) :
              /\ UserIn(d) = UserIn(c)
              /\ \/ PaidIn(d) = PaidIn(c)
                 \/ c[t].st = "signed" /\ PaidIn(d) = PaidIn(c) \cup {t}
         /\ \A d \in CertifyEffects(c, t) : UserIn(d) = UserIn(c) /\ PaidIn(d) = PaidIn(c)
         /\ \A d \in TransferEffects(c, t, wallet) :
              /\ PaidIn(d) = PaidIn(c)
              /\ \/ UserIn(d) = UserIn(c)
                 \/ t \in PaidIn(c) /\ UserIn(d) = UserIn(c) \cup {t}
  <1>a. c[t] \in TxState
    OBVIOUS
  <1>1. ASSUME NEW d \in RegisterEffects(c, t)
        PROVE  /\ UserIn(d) = UserIn(c)
               /\ \/ PaidIn(d) = PaidIn(c)
                  \/ c[t].st = "signed" /\ PaidIn(d) = PaidIn(c) \cup {t}
    <2>1. CASE d = c
      BY <2>1
    <2>2. CASE /\ d = [c EXCEPT ![t].st = "ok", ![t].owner = "wallet"]
               /\ c[t].st = "signed"
      BY <1>a, <2>2 DEF Owned, TxState, PaidIn, UserIn
    <2>3. CASE d = [c EXCEPT ![t].st = "failed"] /\ c[t].st = "signed"
      BY <1>a, <2>3 DEF TxState, PaidIn, UserIn
    <2> QED BY <1>1, <2>1, <2>2, <2>3 DEF RegisterEffects
  <1>2. ASSUME NEW d \in CertifyEffects(c, t)
        PROVE  UserIn(d) = UserIn(c) /\ PaidIn(d) = PaidIn(c)
    BY <1>a, <1>2 DEF CertifyEffects, TxState, PaidIn, UserIn
  <1>3. ASSUME NEW d \in TransferEffects(c, t, wallet)
        PROVE  /\ PaidIn(d) = PaidIn(c)
               /\ \/ UserIn(d) = UserIn(c)
                  \/ t \in PaidIn(c) /\ UserIn(d) = UserIn(c) \cup {t}
    <2>1. CASE d = c
      BY <2>1
    <2>2. CASE d = [c EXCEPT ![t].owner = "user"] /\ c[t].owner = "wallet"
      <3>1. t \in PaidIn(c)
        BY <2>2 DEF Owned, PaidIn
      <3>2. PaidIn(d) = PaidIn(c)
        BY <1>a, <2>2 DEF TxState, PaidIn
      <3>3. UserIn(d) = UserIn(c) \cup {t}
        BY <1>a, <2>2 DEF TxState, UserIn
      <3> QED BY <3>1, <3>2, <3>3
    <2> QED BY <1>3, <2>1, <2>2 DEF TransferEffects, TransferValid
  <1> QED BY <1>1, <1>2, <1>3

\* A step either leaves the charged and the delivered blobs alone, or is one
\* charge or one delivery and nothing else.
LEMMA ChainStep ==
  ASSUME IndInv, [Next]_vars
  PROVE  \/ Paid' = Paid /\ UserOwned' = UserOwned
         \/ \E t \in Txs : Write!Charge(t) \/ Write!Deliver(t)
  <1>a. /\ Typed /\ LockInv /\ JournalInv /\ ChainInv /\ JobsInv
        /\ chain \in [Txs -> TxState] /\ Owned(chain)
    BY DEF IndInv, Typed, TypeOK, ChainInv
  <1>b. /\ Paid = PaidIn(chain) /\ Paid' = PaidIn(chain')
        /\ UserOwned = UserIn(chain) /\ UserOwned' = UserIn(chain')
    BY DEF Paid, UserOwned, PaidIn, UserIn
  <1>c. ASSUME NEW t \in Txs, chain[t].st = "signed", Names(journal, t)
        PROVE  PaidIn(chain) = {}
    <2>1. ASSUME NEW s \in PaidIn(chain) PROVE FALSE
      <3>1. Names(journal, s)
        BY <1>a, <2>1 DEF ChainInv, Submitted, PaidIn
      <3>2. s = t
        BY <1>c, <3>1, NamesOne
      <3> QED BY <1>c, <2>1, <3>2 DEF PaidIn
    <2> QED BY <2>1
  <1> DEFINE Same == Paid' = Paid /\ UserOwned' = UserOwned
             Kept == row' = row /\ index' = index
  <1>d. ASSUME NEW t \in Txs, Names(journal, t), chain' \in RegisterEffects(chain, t), Kept
        PROVE  Same \/ Write!Charge(t)
    <2>1. /\ UserIn(chain') = UserIn(chain)
          /\ \/ PaidIn(chain') = PaidIn(chain)
             \/ chain[t].st = "signed" /\ PaidIn(chain') = PaidIn(chain) \cup {t}
      BY <1>a, <1>d, EffectsOnSets
    <2> QED BY <1>b, <1>c, <1>d, <2>1 DEF Write!Charge
  <1>e. ASSUME NEW t \in Txs, NEW wallet, chain' \in TransferEffects(chain, t, wallet), Kept
        PROVE  Same \/ Write!Deliver(t)
    <2>1. /\ PaidIn(chain') = PaidIn(chain)
          /\ \/ UserIn(chain') = UserIn(chain)
             \/ t \in PaidIn(chain) /\ UserIn(chain') = UserIn(chain) \cup {t}
      BY <1>a, <1>e, EffectsOnSets
    <2> QED BY <1>b, <1>e, <2>1 DEF Write!Deliver
  <1>1. ASSUME NEW w \in Workers, SidecarPrepare(w) PROVE Same
    <2> DEFINE new == [NoTx EXCEPT !.st = "signed", !.ct = wk[w].journal.ct,
                                   !.wallet = wk[w].journal.wallet]
    <2>1. PICK u \in Txs : chain[u].st = "none" /\ chain' = [chain EXCEPT ![u] = new]
      BY <1>1 DEF SidecarPrepare
    <2>2. new.owner = "none" /\ new.st = "signed"
      BY DEF NoTx
    <2>3. chain[u].owner = "none"
      BY <1>a, <2>1 DEF Owned
    <2> HIDE DEF new
    <2> QED BY <1>a, <1>b, <2>1, <2>2, <2>3 DEF PaidIn, UserIn
  <1>2. ASSUME NEW w \in Workers, RegisterReverts(w) PROVE Same
    <2> DEFINE t == wk[w].journal.tx
    <2>1. InCall(w, "encoded") /\ t # None
          /\ chain[t].st = "signed" /\ chain' = [chain EXCEPT ![t].st = "failed"]
      BY <1>2, Zenon DEF RegisterReverts
    <2>2. t \in Txs
      BY <1>a, <2>1, HeldJournal DEF InCall, LockedPCs, Journal, OrNone
    <2> QED BY <1>a, <1>b, <2>1, <2>2 DEF TxState, PaidIn, UserIn
  <1>3. ASSUME NEW w \in Workers, SidecarRegister(w)
        PROVE  \E t \in Txs : Same \/ Write!Charge(t)
    <2> DEFINE t == wk[w].journal.tx
    <2>1. InCall(w, "encoded") /\ t # None /\ Kept /\ chain' \in RegisterEffects(chain, t)
      BY <1>3, Zenon DEF SidecarRegister
    <2>2. t \in Txs
      BY <1>a, <2>1, HeldJournal DEF InCall, LockedPCs, Journal, OrNone
    <2>4. Names(journal, t)
      BY <1>a, <2>1 DEF JournalInv, HeldInv, SameStep, InCall, Names
    <2> QED BY <1>d, <2>1, <2>2, <2>4
  <1>4. ASSUME NEW w \in Workers, SidecarCertify(w) PROVE Same
    <2> DEFINE t == wk[w].journal.obj
    <2>1. t \in Txs
      BY <1>4, <1>a, HeldJournal DEF SidecarCertify, InCall, LockedPCs, Registered
    <2>2. chain' \in CertifyEffects(chain, t)
      BY <1>4, Zenon DEF SidecarCertify
    <2> QED BY <1>a, <1>b, <2>1, <2>2, EffectsOnSets
  <1>5. ASSUME NEW w \in Workers, TransferSucceeds(w)
        PROVE  \E t \in Txs : Same \/ Write!Deliver(t)
    <2>1. Kept /\ chain' \in TransferEffects(chain, wk[w].job.obj, wk[w].job.wallet)
      BY <1>5, Zenon DEF TransferSucceeds
    <2>2. wk[w].job.obj \in Txs
      <3>1. wk[w].job \in Job /\ wk[w].job.obj # None
        BY <1>5, <1>a, JobOf DEF TransferSucceeds, JobShape, Typed, ShapeInv, WorkerShape
      <3> QED BY <3>1 DEF Job, OrNone
    <2> QED BY <1>e, <2>1, <2>2
  <1>6. ASSUME NEW o \in orphans, OrphanRuns(o)
        PROVE  \E t \in Txs : Same \/ Write!Charge(t) \/ Write!Deliver(t)
    <2>1. o \in Orphan /\ o.tx \in Txs /\ Names(journal, o.tx)
      BY <1>a, <1>6, OrphanEffect DEF ChainInv, OrphanInv
    <2>2. Kept
      BY <1>6, Zenon DEF OrphanRuns
    <2>3. \/ chain' \in RegisterEffects(chain, o.tx)
          \/ chain' \in CertifyEffects(chain, o.tx)
          \/ chain' \in TransferEffects(chain, o.tx, o.wallet)
      BY <1>6, <2>1 DEF OrphanRuns, Orphan
    <2>4. CASE chain' \in CertifyEffects(chain, o.tx)
      BY <1>a, <1>b, <2>1, <2>4, EffectsOnSets
    <2> QED BY <1>d, <1>e, <2>1, <2>2, <2>3, <2>4
  <1>7. CASE chain' = chain
    BY <1>7, <1>b
  <1> QED BY <1>a, <1>1, <1>2, <1>3, <1>4, <1>5, <1>6, <1>7, ChainFrame

\* Every step of the pipeline is a step of PaidWrite or leaves it unchanged.
LEMMA StepRefines == IndInv /\ [Next]_vars => [Write!Next]_(Write!vars)
  <1> SUFFICES ASSUME IndInv, [Next]_vars PROVE [Write!Next]_(Write!vars)
    OBVIOUS
  <1>0. Typed /\ LockInv /\ JournalInv /\ JobsInv /\ RowInv
    BY DEF IndInv, Typed
  <1>1. CASE \E t \in Txs : Write!Charge(t) \/ Write!Deliver(t)
    BY <1>1 DEF Write!Next
  <1>2. CASE Paid' = Paid /\ UserOwned' = UserOwned
    <2>1. CASE RowQuiet
      <3>1. CASE row'.status # "done" /\ row.status = "done"
        BY <1>2, <2>1, <3>1 DEF RowQuiet, Write!Next, Write!Withdraw
      <3>2. CASE (row'.status = "done") = (row.status = "done")
        BY <1>2, <2>1, <3>2 DEF RowQuiet, Write!vars
      <3> QED BY <2>1, <3>1, <3>2 DEF RowQuiet
    <2>2. ASSUME NEW w \in Workers, PersistUploaded(w) PROVE [Write!Next]_(Write!vars)
      <3>1. row'.status = "uploaded" /\ index' = index
        BY <1>0, <2>2 DEF PersistUploaded, Typed, TypeOK, Row
      <3>2. CASE row.status = "done"
        BY <1>2, <3>1, <3>2 DEF Write!Next, Write!Withdraw
      <3>3. CASE row.status # "done"
        BY <1>2, <3>1, <3>3 DEF Write!vars
      <3> QED BY <3>2, <3>3
    <2>3. ASSUME NEW w \in Workers, IndexAndDone(w) PROVE Write!Next
      <3>1. wk[w].pc = "index" /\ index' = wk[w].job.blob
            /\ (row' = row \/ row' = DoneRow(row, wk[w].job.blob))
        BY <2>3 DEF IndexAndDone
      <3>2. PaidJob(chain, journal, wk[w].job) /\ chain[journal.obj].owner = "user"
        BY <1>0, <3>1 DEF JobsInv, DeliverInv, Delivering
      <3>3. journal.obj \in UserOwned /\ journal.ct # None
        BY <1>0, <3>2 DEF PaidJob, UserOwned, Typed, TypeOK, ShapeInv, Journal, OrNone,
                          WellFormed, Registered
      <3>4. index' # None
        BY <3>1, <3>2, <3>3 DEF PaidJob
      <3>5. row'.status = row.status \/ row'.status = "done"
        BY <1>0, <3>1 DEF DoneRow, Typed, TypeOK, Row
      <3>6. /\ (index' # None) = TRUE
            /\ (row'.status = "done") \in {row.status = "done", TRUE}
        BY <3>4, <3>5
      <3> QED BY <1>2, <3>3, <3>6 DEF Write!Next, Write!Finish
    <2> QED BY <1>0, <2>1, <2>2, <2>3, RowFrame
  <1> QED BY <1>1, <1>2, ChainStep

\* Charged once, delivered after the charge, searchable after the delivery,
\* reported last: the pipeline implements PaidWrite.
THEOREM Refinement == Spec => ImplementsPaidWrite
  <1>1. Init => Write!Init
    BY DEF Init, Write!Init, Paid, UserOwned, NoTx
  <1> QED BY <1>1, StepRefines, Invariance, PTL DEF Spec, ImplementsPaidWrite, Write!Spec
===============================================================================

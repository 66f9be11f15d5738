------------------------- MODULE RememberPipelineInv --------------------------
(***************************************************************************)
(* The inductive invariant behind the safety properties of                 *)
(* RememberPipeline, in the parts the proofs use, and the refinement of    *)
(* PaidWrite.                                                              *)
(***************************************************************************)
EXTENDS RememberPipeline

Submitted(t) == chain[t].st \in {"ok", "failed"}
Registered == {"registered", "uploaded", "certified"}
LockedPCs == {"call", "answer", "certified", "handoff"}

\* Only the lock holder is inside the locked section.
LockInv == \A w \in Workers : wk[w].pc \in LockedPCs => lock = w

\* The fields a journal has at each step.
WellFormed(j) ==
    /\ j.step = "start" => j.ct = None /\ j.tx = None /\ j.obj = None
    /\ j.step # "start" => j.ct # None /\ j.wallet # None
    /\ j.step = "encoded" => j.obj = None
    /\ j.step \in Registered => j.tx = None /\ j.obj # None

\* A job after the mint carries the Blob object.
JobShape(job) == job # None /\ (job.op = "transfer" => job.obj # None)

WorkerShape(v) ==
    /\ v.pc # "idle" => v.slot # None /\ JobShape(v.job)
    /\ v.pc \in LockedPCs => WellFormed(v.journal) /\ v.journal.wallet # None
    /\ v.pc = "answer" => v.journal.step # "start"
    /\ v.pc \in {"certified", "handoff"} => v.journal.step = "certified"
    /\ v.pc = "transfer" => v.job.op = "transfer"

\* The records are filled in as far as their stage says.
ShapeInv ==
    /\ WellFormed(journal)
    /\ row.blob # None => row.obj # None
    /\ \A q \in Slots : queue[q].st # "Done" => JobShape(queue[q].job)
    /\ \A w \in Workers : WorkerShape(wk[w])

\* What a journal j says of the chain c.
Backed(c, j) ==
    /\ j.tx # None => /\ c[j.tx].st # "none"
                      /\ c[j.tx].ct = j.ct /\ c[j.tx].wallet = j.wallet
    /\ j.obj # None => /\ c[j.obj].st = "ok"
                       /\ c[j.obj].ct = j.ct /\ c[j.obj].wallet = j.wallet
    /\ j.step = "certified" => c[j.obj].certified

\* j extends k: the pinned fields of k are those of j.
Extends(j, k) ==
    /\ j.wallet # None
    /\ k.wallet # None => j.wallet = k.wallet
    /\ k.ct # None => j.ct = k.ct

\* The in-memory journal of a call is the durable one; an answer is one step ahead.
SameStep(j, k) == j.step = k.step /\ j.ct = k.ct /\ j.tx = k.tx /\ j.obj = k.obj
OneAhead(c, j, k) ==
    \/ k.step = "start" /\ j.step = "encoded" /\ j.tx = None
    \/ k.step = "encoded" /\ k.tx = None /\ j.step = "encoded" /\ j.tx # None
         /\ c[j.tx].st = "signed"
    \/ k.step = "encoded" /\ k.tx # None /\ j.step = "registered" /\ j.obj = k.tx
    \/ k.step \in Registered /\ j.step \in {"uploaded", "certified"}
         /\ j.obj = k.obj /\ (k.step = "certified" => j.step = "certified")

\* A worker v in the locked section, against the chain c and the journal k.
HeldInv(c, k, v) ==
    LET j == v.journal IN
    /\ v.pc = "call" => Extends(j, k) /\ SameStep(j, k)
    /\ v.pc = "answer" => Extends(j, k) /\ OneAhead(c, j, k) /\ Backed(c, j)
    /\ v.pc = "certified" => j = k /\ j.step = "certified"
    /\ v.pc = "handoff" => j.step = "certified" /\ k.step = "certified"
                             /\ j.obj = k.obj /\ j.ct = k.ct

JournalInv ==
    /\ Backed(chain, journal)
    /\ \A w \in Workers : HeldInv(chain, journal, wk[w])

\* A request in flight is about a transaction the journal k names.
OrphanInv(c, k, o) ==
    /\ Names(k, o.tx)
    /\ c[o.tx].st # "none"
    /\ o.req # "register" => c[o.tx].st = "ok"

\* A Blob object has an owner, and can be certified, once its transaction succeeded.
Owned(c) == \A t \in Txs : /\ c[t].owner # "none" <=> c[t].st = "ok"
                           /\ c[t].certified => c[t].st = "ok"

\* Nothing is submitted, or in flight, that the journal does not name.
ChainInv ==
    /\ \A t \in Txs : Submitted(t) => Names(journal, t)
    /\ Owned(chain)
    /\ \A o \in orphans : OrphanInv(chain, journal, o)

\* A job after the mint names the journaled, certified blob.
AfterMint == {"transfer", "finalize"}
PaidJob(c, k, job) ==
    /\ k.step = "certified"
    /\ job.obj = k.obj /\ job.blob = k.ct
    /\ job.op = "finalize" => c[k.obj].owner = "user"

Delivering == {"transfer", "index", "rescue"}
EntryInv(c, k, e) == e.st # "Done" /\ e.job.op \in AfterMint => PaidJob(c, k, e.job)
DeliverInv(c, k, v) ==
    v.pc # "idle" =>
        /\ v.pc \in Delivering <=> (v.job.op \in AfterMint /\ v.pc # "ack")
        /\ v.job.op \in AfterMint => PaidJob(c, k, v.job)
        /\ v.pc \in {"index", "rescue"} => c[k.obj].owner = "user"

JobsInv ==
    /\ \A q \in Slots : EntryInv(chain, journal, queue[q])
    /\ \A w \in Workers : DeliverInv(chain, journal, wk[w])

\* The row records the mint only once it is certified, and 'done' only once the
\* blob is delivered and indexed.
RowInv ==
    /\ row.blob # None => /\ journal.step = "certified"
                          /\ row.blob = journal.ct /\ row.obj = journal.obj
    /\ row.blob = None => row.obj = None /\ row.status \notin {"uploaded", "done"}
    /\ \A w \in Workers :
         \/ wk[w].pc \in {"handoff"} \cup Delivering
         \/ wk[w].pc = "ack" /\ wk[w].job.op \in AfterMint
         => row.blob # None
    /\ \A q \in Slots : queue[q].st # "Done" /\ queue[q].job.op \in AfterMint
         => row.blob # None
    /\ index # None => index = row.blob /\ chain[journal.obj].owner = "user"
    /\ row.status = "done" => index # None

\* Nothing has been handed to the wallet queue yet.
Untouched ==
    /\ \A q \in Slots : queue[q].st = "Done"
    /\ \A w \in Workers : wk[w].pc = "idle"
    /\ recovery = {}

\* An upload runs only while no mint is recorded, and a bulk preparation, whose
\* failure is written without a look at the row, is the first thing that happens
\* to its row.
Unpaid == {"call", "answer", "certified"}
UnpaidInv ==
    /\ \A w \in Workers : wk[w].pc \in Unpaid => row.blob = None
    /\ fresh => kind # "bulk"
    /\ row.status = "none" => Untouched /\ prep = {} /\ row.blob = None
    /\ \A p \in prep : p.token = None =>
         /\ kind = "bulk" /\ prep = {p} /\ p.stage = "encrypt"
         /\ Untouched /\ row.blob = None

\* The refinement mapping to PaidWrite.
UserOwned == {t \in Txs : chain[t].owner = "user"}
Write == INSTANCE PaidWrite
         WITH charged <- Paid, delivered <- UserOwned,
              searchable <- (index # None), reported <- (row.status = "done")

\* The pipeline, with every crash, retry and late request, implements PaidWrite:
\* charge once, deliver what was charged, index what was delivered, report last.
ImplementsPaidWrite == Write!Spec

\* The inductive invariant.
IndInv ==
    /\ TypeOK /\ ShapeInv /\ LockInv /\ JournalInv /\ ChainInv /\ JobsInv /\ RowInv
    /\ UnpaidInv
===============================================================================

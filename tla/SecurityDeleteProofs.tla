------------------------- MODULE SecurityDeleteProofs -------------------------
(***************************************************************************)
(* The invariants of SecurityDelete and ResolvedIsFinal, for every set of   *)
(* blobs, batches and reconcilers, every page layout and every bound.       *)
(***************************************************************************)
EXTENDS SecurityDelete, FiniteSetTheorems, TLAPS

\* What a party may be doing: a handler works on its own batch, the steps of
\* prepare_deletion are the handler's, and nothing is executed or replayed
\* before its transaction is stored.
JobOK(a) ==
    /\ job[a].at \notin {"idle", "sweep"} =>
         job[a].batch \in Batches /\ batch[job[a].batch].state # "unused"
    /\ a \in Batches /\ job[a].at # "idle" => job[a].batch = a
    /\ job[a].at \in {"resolve", "check", "build"} => a \in Batches
    /\ job[a].at \in {"absent", "sweep"} => a \in Reconcilers
    /\ job[a].at \in {"fresh", "absent"} => batch[job[a].batch].inputs # {}
JobShape == \A a \in Actors : JobOK(a)

\* A batch id that is not in use has left no trace, and only a stored
\* transaction is executing or sent.
BatchOK(t) ==
    /\ batch[t].state = "unused" => batch[t].inputs = {} /\ \A b \in Blobs : member[t][b] = "none"
    /\ batch[t].state = "executing" => batch[t].inputs # {}
LedgerOK(t) ==
    /\ t \in sent => batch[t].inputs # {}
    /\ outcome[t] # "none" => t \in sent
BatchShape == \A t \in Batches : BatchOK(t) /\ LedgerOK(t)

\* What is true of the chain once a terminal state was read off it.
Says(b, s) ==
    /\ s # "deleted"
    /\ s = "deleted_external" => holder[b] = "gone"
    /\ s = "not_owner" => holder[b] # "owner"
    /\ s = "expired" => lapsed /\ b \in Expiring

\* The evictions a party has decided on stay true until it makes them.
PlanTrue(a) == \A p \in job[a].plan : Says(p[1], p[2])
PlansTrue == \A a \in Actors : PlanTrue(a)

\* The effects of a transaction say what became of its inputs.
EffectsTrue ==
    \A t \in Batches : outcome[t] = "success" => \A b \in InputsOf(t) : holder[b] = "gone"

\* The first components of a set of pairs.
First(P) == {p[1] : p \in P}

\* While a batch is being prepared, every blob it holds without an object id is
\* to be evicted, and then every blob it holds is to be evicted or deleted.
Covers(t) ==
    /\ job[t].at = "check" => \A b \in RowsOf(t) : row[b].id \/ b \in First(job[t].plan)
    /\ job[t].at = "build" => RowsOf(t) \subseteq First(job[t].got) \cup First(job[t].plan)
PreparationCovers == \A t \in Batches : Covers(t)

\* A blob no batch ever claimed that the scan should have found by now.
Missed(b) ==
    /\ b \in checkpoint.fence /\ row[b].state = "deletable" /\ ~row[b].id
    /\ \A t \in Batches : member[t][b] = "none"
    /\ scan = "complete" \/ Page[b] < checkpoint.page

\* The scan passes over a blob only when the owner does not hold it: the fence
\* holds no row of an open insert, and a page that was listed set the ids.
ScanTrue ==
    /\ \A b \in checkpoint.fence : row[b].state \notin {"untracked", "inserting"}
    /\ \A b \in Blobs : Missed(b) => holder[b] # "owner"
    /\ ~checkpoint.started => checkpoint.page = 1 /\ scan = "idle"
    /\ scan = "complete" => checkpoint.page = 1

IndInv == /\ TypeOK /\ JobShape /\ BatchShape /\ ClaimsExact /\ PlansTrue /\ EffectsTrue
          /\ PreparationCovers /\ TxCoversClaims /\ TerminalIsTrue
          /\ ScanTrue /\ UnclaimedNotOwnerConfirmed

-------------------------------------------------------------------------------
(* Types.                                                                  *)

TablesType == /\ row \in [Blobs -> Row] /\ batch \in [Batches -> Batch]
              /\ member \in [Batches -> [Blobs -> Outcome]]
JobType == job \in [Actors -> Job]
RestType ==
    /\ enabled \in Deployments
    /\ checkpoint \in Checkpoint /\ completed \subseteq Blobs /\ scan \in Scan
    /\ holder \in [Blobs -> {"owner", "other", "gone"}] /\ version \in [Blobs -> Nat]
    /\ sent \subseteq Batches /\ outcome \in [Batches -> {"none", "success", "failure"}]
    /\ suspects \in [Batches -> SUBSET Blobs]
    /\ epoch \in Nat /\ package \in Nat /\ lapsed \in BOOLEAN /\ changes \in Nat

\* TypeOK in three parts.
LEMMA TypeParts == TypeOK <=> TablesType /\ JobType /\ RestType
BY DEF TypeOK, TablesType, JobType, RestType

\* A resolution that takes place, said of each row, batch and claim.
Released(t, from, to, rowState, claim) ==
    /\ batch[t].state = from
    /\ batch'[t].state = to /\ batch'[t].inputs = batch[t].inputs
    /\ \A u \in Batches : u # t => batch'[u] = batch[u]
    /\ \A b \in Blobs : IF row[b].state = "deleting" /\ row[b].batch = t
                        THEN /\ row'[b].state = rowState /\ row'[b].batch = NoBatch
                             /\ row'[b].id = row[b].id
                        ELSE row'[b] = row[b]
    /\ \A b \in Blobs :
         member'[t][b] = IF member[t][b] = "claimed" THEN claim ELSE member[t][b]
    /\ \A u \in Batches : u # t => member'[u] = member[u]

\* rollback_batch and finalize_batch_deleted either find the batch in another
\* state and change nothing, or resolve it.
LEMMA ResolveEffect ==
    ASSUME TablesType, NEW t \in Batches, NEW from \in LiveState, NEW to \in ResolvedState,
           NEW rowState \in RowState, NEW claim \in Outcome,
           Resolve(t, from, to, rowState, claim)
    PROVE  /\ TablesType'
           /\ UNCHANGED tables \/ Released(t, from, to, rowState, claim)
<1>1. CASE batch[t].state = from
  <2>1. /\ batch' = [batch EXCEPT ![t].state = to]
        /\ row' = [b \in Blobs |-> IF b \in RowsOf(t)
                                   THEN [row[b] EXCEPT !.state = rowState, !.batch = NoBatch]
                                   ELSE row[b]]
        /\ member' = [member EXCEPT ![t] =
                         [b \in Blobs |-> IF member[t][b] = "claimed" THEN claim
                                                                      ELSE member[t][b]]]
    BY <1>1 DEF Resolve
  <2>2. row' \in [Blobs -> Row]
    BY <2>1 DEF TablesType, Row
  <2>3. batch' \in [Batches -> Batch]
    BY <2>1 DEF TablesType, Batch
  <2>4. member' \in [Batches -> [Blobs -> Outcome]]
    BY <2>1 DEF TablesType
  <2>5. /\ batch'[t].state = to /\ batch'[t].inputs = batch[t].inputs
        /\ \A u \in Batches : u # t => batch'[u] = batch[u]
    BY <2>1 DEF TablesType, Batch
  <2>6. \A b \in Blobs : IF row[b].state = "deleting" /\ row[b].batch = t
                         THEN /\ row'[b].state = rowState /\ row'[b].batch = NoBatch
                              /\ row'[b].id = row[b].id
                         ELSE row'[b] = row[b]
    BY <2>1 DEF TablesType, Row, RowsOf
  <2>7. /\ \A b \in Blobs :
             member'[t][b] = IF member[t][b] = "claimed" THEN claim ELSE member[t][b]
        /\ \A u \in Batches : u # t => member'[u] = member[u]
    BY <2>1 DEF TablesType
  <2> QED BY <1>1, <2>2, <2>3, <2>4, <2>5, <2>6, <2>7 DEF TablesType, Released
<1>2. CASE batch[t].state # from
  BY <1>2 DEF Resolve, TablesType, tables
<1> QED BY <1>1, <1>2

\* An eviction that takes place.
Evicted(t, b, s) ==
    /\ UNCHANGED batch
    /\ row[b].state = "deleting" /\ row[b].batch = t
    /\ row'[b].state = s /\ row'[b].batch = NoBatch /\ row'[b].id = row[b].id
    /\ \A c \in Blobs : c # b => row'[c] = row[c]
    /\ \A u \in Batches, c \in Blobs :
         member'[u][c] = IF u = t /\ c = b /\ member[t][b] = "claimed" THEN s ELSE member[u][c]

\* evict_claimed_blob finds the claim gone and changes nothing, or evicts.
LEMMA EvictEffect ==
    ASSUME TablesType, NEW t \in Batches, NEW b \in Blobs, NEW s \in TerminalState,
           evict_claimed_blob(t, b, s)
    PROVE  TablesType' /\ (UNCHANGED tables \/ Evicted(t, b, s))
<1>0. s \in RowState /\ s \in Outcome
  BY DEF RowState, Outcome
<1>1. CASE row[b].state = "deleting" /\ row[b].batch = t
  <2>1. /\ row' = [row EXCEPT ![b].state = s, ![b].batch = NoBatch]
        /\ member' = IF member[t][b] = "claimed"
                     THEN [member EXCEPT ![t][b] = s] ELSE member
        /\ UNCHANGED batch
    BY <1>1 DEF evict_claimed_blob
  <2>2. row' \in [Blobs -> Row]
    BY <1>0, <2>1 DEF TablesType, Row
  <2>3. member' \in [Batches -> [Blobs -> Outcome]]
    BY <1>0, <2>1 DEF TablesType
  <2>4. /\ row'[b].state = s /\ row'[b].batch = NoBatch /\ row'[b].id = row[b].id
        /\ \A c \in Blobs : c # b => row'[c] = row[c]
    BY <2>1 DEF TablesType, Row
  <2>5. \A u \in Batches, c \in Blobs :
          member'[u][c] = IF u = t /\ c = b /\ member[t][b] = "claimed" THEN s ELSE member[u][c]
    BY <2>1 DEF TablesType
  <2> QED BY <1>1, <2>1, <2>2, <2>3, <2>4, <2>5 DEF TablesType, Evicted
<1>2. CASE ~(row[b].state = "deleting" /\ row[b].batch = t)
  BY <1>2 DEF evict_claimed_blob, TablesType, tables
<1> QED BY <1>1, <1>2

\* A claim that takes place.
Claimed(t, S) ==
    /\ batch[t].state = "unused" /\ S # {}
    /\ batch'[t].state = "awaiting_signature" /\ batch'[t].inputs = batch[t].inputs
    /\ \A u \in Batches : u # t => batch'[u] = batch[u]
    /\ \A b \in S : /\ row[b].state = "deletable" /\ row'[b].id = row[b].id
                    /\ row'[b].state = "deleting" /\ row'[b].batch = t
    /\ \A b \in Blobs \ S : row'[b] = row[b]
    /\ \A b \in Blobs : member'[t][b] = IF b \in S THEN "claimed" ELSE "none"
    /\ \A u \in Batches : u # t => member'[u] = member[u]

\* Claim as it is said of each row, batch and claim.
LEMMA ClaimEffect ==
    ASSUME TablesType, JobType, NEW t \in Batches, NEW S \in SUBSET Blobs, Claim(t, S)
    PROVE  /\ TablesType' /\ JobType' /\ Claimed(t, S)
           /\ job'[t] = [at |-> IF \E b \in S : ~row[b].id THEN "resolve" ELSE "check",
                         batch |-> t, plan |-> {}, got |-> {}]
           /\ \A x \in Actors : x # t => job'[x] = job[x]
<1>1. row' \in [Blobs -> Row]
  BY DEF Claim, TablesType, Row, RowState
<1>2. batch' \in [Batches -> Batch]
  BY DEF Claim, TablesType, Batch, LiveState
<1>3. member' \in [Batches -> [Blobs -> Outcome]]
  BY DEF Claim, TablesType, Outcome
<1>4. JobType'
  BY DEF JobType, Claim, Job, Idle, Inputs, Actors
<1>5. /\ batch[t].state = "unused" /\ S # {}
      /\ batch'[t].state = "awaiting_signature" /\ batch'[t].inputs = batch[t].inputs
      /\ \A u \in Batches : u # t => batch'[u] = batch[u]
  BY DEF Claim, TablesType, Batch
<1>6. /\ \A b \in S : /\ row[b].state = "deletable" /\ row'[b].id = row[b].id
                      /\ row'[b].state = "deleting" /\ row'[b].batch = t
      /\ \A b \in Blobs \ S : row'[b] = row[b]
  BY DEF Claim, TablesType, Row, Deletable
<1>7. /\ \A b \in Blobs : member'[t][b] = IF b \in S THEN "claimed" ELSE "none"
      /\ \A u \in Batches : u # t => member'[u] = member[u]
  BY DEF Claim, TablesType
<1>8. job'[t] = [at |-> IF \E b \in S : ~row[b].id THEN "resolve" ELSE "check",
                 batch |-> t, plan |-> {}, got |-> {}]
  BY DEF Claim, JobType, Job, Idle, Actors
<1>9. \A x \in Actors : x # t => job'[x] = job[x]
  BY DEF Claim, JobType, Actors
<1> QED BY <1>1, <1>2, <1>3, <1>4, <1>5, <1>6, <1>7, <1>8, <1>9 DEF TablesType, Claimed

\* A stored transaction.
Prepared(t, inputs) ==
    /\ UNCHANGED <<row, member>>
    /\ batch[t].state = "awaiting_signature" /\ batch[t].inputs = {}
    /\ batch'[t].state = batch[t].state /\ batch'[t].inputs = inputs
    /\ \A u \in Batches : u # t => batch'[u] = batch[u]

\* set_batch_prepared loses its compare-and-set and changes nothing, or stores
\* the transaction.
LEMMA PreparedEffect ==
    ASSUME TablesType, NEW t \in Batches, NEW inputs \in Inputs, epoch \in Nat, package \in Nat,
           set_batch_prepared(t, inputs), UNCHANGED <<row, member>>
    PROVE  TablesType' /\ (UNCHANGED tables \/ Prepared(t, inputs))
<1> DEFINE Stores == /\ batch[t].state = "awaiting_signature" /\ batch[t].inputs = {}
                     /\ Cardinality(RowsOf(t)) = Cardinality(inputs)
<1>1. CASE Stores
  <2>1. batch' = [batch EXCEPT ![t].inputs = inputs, ![t].expire = epoch, ![t].package = package]
    BY <1>1 DEF set_batch_prepared
  <2>2. batch' \in [Batches -> Batch]
    BY <2>1 DEF TablesType, Batch
  <2>3. /\ batch'[t].state = batch[t].state /\ batch'[t].inputs = inputs
        /\ \A u \in Batches : u # t => batch'[u] = batch[u]
    BY <2>1 DEF TablesType, Batch
  <2> QED BY <1>1, <2>2, <2>3 DEF TablesType, Prepared
<1>2. CASE ~Stores
  BY <1>2 DEF set_batch_prepared, TablesType, tables
<1> QED BY <1>1, <1>2

\* What Continue and Return do to the jobs.
LEMMA ContinueEffect ==
    ASSUME JobType, NEW a \in Actors,
           NEW at \in {"resolve", "check", "build", "fresh", "await", "absent", "fail", "sweep"},
           NEW plan \in SUBSET (Blobs \X TerminalState), NEW got \in Inputs,
           Continue(a, at, plan, got)
    PROVE  /\ JobType'
           /\ job'[a] = [at |-> at, batch |-> job[a].batch, plan |-> plan, got |-> got]
           /\ \A x \in Actors : x # a => job'[x] = job[x]
BY DEF JobType, Continue, Job

\* A handler that has answered keeps nothing.
LEMMA ReturnEffect ==
    ASSUME JobType, NEW a \in Actors, Return(a)
    PROVE  /\ JobType' /\ job'[a] = Idle
           /\ \A x \in Actors : x # a => job'[x] = job[x]
BY DEF JobType, Return, Job, Idle, Inputs

-------------------------------------------------------------------------------
(* The seven things a step does to the tables.                             *)

\* A row given up as s: it is what the chain says, or a scan that is over has
\* not found the blob.
GivenUp(b, s) ==
    \/ Says(b, s)
    \/ s = "not_owner" /\ ((\A t \in Batches : member[t][b] = "none") => holder[b] # "owner")

\* The rows that are claimed stay, the others move on.
Marked ==
    /\ UNCHANGED <<batch, member>>
    /\ \A b \in Blobs :
         /\ row'[b].batch = row[b].batch
         /\ row[b].id => row'[b].id
         /\ \/ row'[b].state = row[b].state
            \/ row[b].state = "untracked" /\ row'[b].state = "inserting"
            \/ row[b].state = "inserting" /\ row'[b].state = "deletable"
            \/ /\ row[b].state = "deletable" /\ row'[b].state \in TerminalState
               /\ GivenUp(b, row'[b].state)
    /\ \/ \A b \in Blobs : row[b].state = "inserting" => row'[b].state = "inserting"
       \/ \E b \in Blobs : /\ row[b].state = "inserting" /\ row'[b].state = "deletable"
                            /\ \A c \in Blobs : c # b => row'[c] = row[c]

Submitted(t) ==
    /\ UNCHANGED <<row, member>>
    /\ batch[t].state = "awaiting_signature" /\ batch[t].inputs # {}
    /\ batch'[t].state = "executing" /\ batch'[t].inputs = batch[t].inputs
    /\ \A u \in Batches : u # t => batch'[u] = batch[u]

RolledBack(t) ==
    \/ Released(t, "awaiting_signature", "rolled_back", "deletable", "released")
    \/ Released(t, "executing", "failed", "deletable", "released")

TableStep ==
    \/ UNCHANGED tables
    \/ Marked
    \/ \E t \in Batches : RolledBack(t)
    \/ \E t \in Batches : outcome[t] = "success"
                          /\ Released(t, "executing", "completed", "deleted", "deleted")
    \/ \E t \in Batches, b \in Blobs, s \in TerminalState : Says(b, s) /\ Evicted(t, b, s)
    \/ \E t \in Batches, S \in SUBSET Blobs : Claimed(t, S)
    \/ \E t \in Batches, inputs \in Inputs :
         /\ inputs # {} /\ RowsOf(t) \subseteq First(inputs) /\ inputs \subseteq job[t].got
         /\ Prepared(t, inputs)
    \/ \E t \in Batches : Submitted(t)

\* The states a resolution moves to are states of the tables.
LEMMA StateNames ==
    /\ {"awaiting_signature", "executing"} \subseteq LiveState
    /\ {"rolled_back", "failed", "completed"} \subseteq ResolvedState
    /\ {"deletable", "deleted"} \subseteq RowState
    /\ {"released", "deleted"} \subseteq Outcome
BY DEF LiveState, ResolvedState, RowState, Outcome, TerminalState

\* A rollback of either kind.
LEMMA RollbackEffect ==
    ASSUME TablesType, NEW t \in Batches,
           \/ rollback_batch(t, "awaiting_signature", "rolled_back")
           \/ rollback_batch(t, "executing", "failed")
    PROVE  TablesType' /\ (UNCHANGED tables \/ RolledBack(t))
<1>1. CASE rollback_batch(t, "awaiting_signature", "rolled_back")
  <2>1. Resolve(t, "awaiting_signature", "rolled_back", "deletable", "released")
    BY <1>1 DEF rollback_batch
  <2> QED BY <2>1, StateNames, ResolveEffect DEF RolledBack
<1>2. CASE rollback_batch(t, "executing", "failed")
  <2>1. Resolve(t, "executing", "failed", "deletable", "released")
    BY <1>2 DEF rollback_batch
  <2> QED BY <2>1, StateNames, ResolveEffect DEF RolledBack
<1> QED BY <1>1, <1>2

\* Every step of the program and of its environment does one of the seven.
LEMMA TablesStep ==
    ASSUME IndInv, Next
    PROVE  TablesType' /\ TableStep
<1>0. TablesType /\ JobType /\ RestType
  BY TypeParts DEF IndInv
<1>1. ASSUME NEW b \in Blobs, InsertEntry(b) PROVE TablesType' /\ Marked
  BY <1>0, <1>1 DEF InsertEntry, TablesType, Row, RowState, Marked
<1>2. ASSUME NEW b \in Blobs, CommitEntry(b) PROVE TablesType' /\ Marked
  BY <1>0, <1>2 DEF CommitEntry, TablesType, Row, RowState, Marked
<1>3. ASSUME NEW t \in Batches, NEW S \in SUBSET Blobs, Claim(t, S)
      PROVE  TablesType' /\ Claimed(t, S)
  BY <1>0, <1>3, ClaimEffect
<1>4. ASSUME NEW t \in Batches, resolve_claimed_object_ids(t) PROVE TablesType' /\ Marked
  <2>1. /\ row' = [b \in Blobs |-> IF b \in {c \in RowsOf(t) : ~row[c].id} \cap Owned
                                   THEN [row[b] EXCEPT !.id = TRUE] ELSE row[b]]
        /\ UNCHANGED <<batch, member>>
    BY <1>4 DEF resolve_claimed_object_ids
  <2> QED BY <1>0, <2>1 DEF TablesType, Row, Marked
<1>5. ASSUME NEW t \in Batches, Build(t) PROVE TablesType' /\ TableStep
  <2>1. CASE job[t].got = {}
    <3>1. rollback_batch(t, "awaiting_signature", "rolled_back")
      BY <1>5, <2>1 DEF Build
    <3> QED BY <1>0, <3>1, RollbackEffect DEF TableStep
  <2>2. CASE job[t].got # {}
    <3>1. set_batch_prepared(t, job[t].got) /\ UNCHANGED <<row, member>>
      BY <1>5, <2>2 DEF Build
    <3>2. job[t].got \in Inputs
      BY <1>0 DEF JobType, Job, Actors
    <3>3. RowsOf(t) \subseteq First(job[t].got)
      BY <1>5 DEF Build, IndInv, PreparationCovers, Covers, First
    <3>4. TablesType' /\ (UNCHANGED tables \/ Prepared(t, job[t].got))
      BY <1>0, <3>1, <3>2, PreparedEffect DEF RestType
    <3> QED BY <2>2, <3>2, <3>3, <3>4 DEF TableStep
  <2> QED BY <2>1, <2>2
<1>6. ASSUME NEW t \in Batches, PrepareFails(t) \/ cancel_deletion(t)
      PROVE  TablesType' /\ TableStep
  <2>1. rollback_batch(t, "awaiting_signature", "rolled_back")
    BY <1>6 DEF PrepareFails, cancel_deletion
  <2> QED BY <1>0, <2>1, RollbackEffect DEF TableStep
<1>7. ASSUME NEW t \in Batches, Submit(t) PROVE TablesType' /\ Submitted(t)
  BY <1>0, <1>7 DEF Submit, TablesType, Batch, LiveState, Submitted
<1>8. ASSUME NEW a \in Actors, NEW t \in Batches, Settle(a, t) PROVE TablesType' /\ TableStep
  <2>1. outcome[t] = "success" /\ Resolve(t, "executing", "completed", "deleted", "deleted")
    BY <1>8 DEF Settle, finalize_batch_deleted
  <2>2. /\ TablesType'
        /\ UNCHANGED tables \/ Released(t, "executing", "completed", "deleted", "deleted")
    BY <1>0, <2>1, StateNames, ResolveEffect
  <2> QED BY <2>1, <2>2 DEF TableStep
<1>9. ASSUME NEW a \in Actors, NEW b \in Blobs, NEW s \in TerminalState, Evict(a, b, s)
      PROVE  TablesType' /\ TableStep
  <2>1. job[a].batch \in Batches
    BY <1>9 DEF Evict, IndInv, JobShape, JobOK
  <2>2. Says(b, s)
    BY <1>9 DEF Evict, IndInv, PlansTrue, PlanTrue
  <2>3. TablesType' /\ (UNCHANGED tables \/ Evicted(job[a].batch, b, s))
    BY <1>0, <1>9, <2>1, EvictEffect DEF Evict
  <2> QED BY <2>1, <2>2, <2>3 DEF TableStep
<1>10. ASSUME NEW a \in Actors, Fail(a) PROVE TablesType' /\ TableStep
  <2>1. job[a].batch \in Batches /\ rollback_batch(job[a].batch, "executing", "failed")
    BY <1>10 DEF Fail, IndInv, JobShape, JobOK
  <2> QED BY <1>0, <2>1, RollbackEffect DEF TableStep
<1>11. ASSUME NEW r \in Reconcilers, NEW t \in Batches, ReconcileAwaiting(r, t)
       PROVE  TablesType' /\ TableStep
  <2>1. rollback_batch(t, "awaiting_signature", "rolled_back")
    BY <1>11 DEF ReconcileAwaiting
  <2> QED BY <1>0, <2>1, RollbackEffect DEF TableStep
<1>12. ASSUME NEW r \in Reconcilers, NEW b \in Blobs, NEW s \in TerminalState,
              sweep_mark_external(r, b, s)
       PROVE  TablesType' /\ Marked
  <2>1. /\ row' = IF row[b].state = "deletable" THEN [row EXCEPT ![b].state = s] ELSE row
        /\ UNCHANGED <<batch, member>>
    BY <1>12 DEF sweep_mark_external
  <2>2. Says(b, s)
    BY <1>12 DEF sweep_mark_external, IndInv, PlansTrue, PlanTrue, Actors
  <2>3. TablesType'
    BY <1>0, <2>1 DEF TablesType, Row, RowState
  <2> QED BY <1>0, <2>1, <2>2, <2>3 DEF TablesType, Row, Marked, GivenUp
<1>13. ASSUME ResolverPage PROVE TablesType' /\ Marked
  <2>1. /\ row' = [b \in Blobs |-> IF b \in Deletable \cap Owned /\ Page[b] = checkpoint.page
                                   THEN [row[b] EXCEPT !.id = TRUE] ELSE row[b]]
        /\ UNCHANGED <<batch, member>>
    BY <1>13 DEF ResolverPage
  <2> QED BY <1>0, <2>1 DEF TablesType, Row, Marked
<1>14. ASSUME complete_resolver_scan PROVE TablesType' /\ Marked
  <2>1. /\ row' = [b \in Blobs |-> IF b \in Deletable \cap checkpoint.fence /\ ~row[b].id
                                   THEN [row[b] EXCEPT !.state = "not_owner"] ELSE row[b]]
        /\ UNCHANGED <<batch, member>>
    BY <1>14 DEF complete_resolver_scan
  <2>2. ASSUME NEW b \in Deletable \cap checkpoint.fence, ~row[b].id
        PROVE  GivenUp(b, "not_owner")
    BY <1>14, <2>2 DEF complete_resolver_scan, IndInv, ScanTrue, Missed, Deletable, GivenUp
  <2>3. TablesType'
    BY <1>0, <2>1 DEF TablesType, Row, RowState, TerminalState
  <2>4. ASSUME NEW b \in Blobs
        PROVE  /\ row'[b].batch = row[b].batch
               /\ row[b].id => row'[b].id
               /\ \/ row'[b].state = row[b].state
                  \/ /\ row[b].state = "deletable" /\ row'[b].state \in TerminalState
                     /\ GivenUp(b, row'[b].state)
    BY <1>0, <2>1, <2>2 DEF TablesType, Row, Deletable, TerminalState
  <2> QED BY <2>1, <2>3, <2>4 DEF Marked
<1>15. ASSUME NEW t \in Batches, \/ CheckObjects(t) \/ FreshnessUnread(t) \/ Rejected(t)
                                 \/ TxSucceeds(t) \/ TxFails(t)
       PROVE  UNCHANGED tables
  BY <1>15 DEF CheckObjects, FreshnessUnread, Rejected, TxSucceeds, TxFails
<1>16. ASSUME NEW a \in Actors, FreshThenExecute(a) \/ Stale(a) \/ Abandon(a)
       PROVE  UNCHANGED tables
  BY <1>16 DEF FreshThenExecute, Stale, Abandon
<1>17. ASSUME NEW a \in Actors, NEW t \in Batches,
              ExamineFailure(a, t) \/ ReconcileExecuting(a, t)
       PROVE  UNCHANGED tables
  BY <1>17 DEF ExamineFailure, ReconcileExecuting
<1>18. ASSUME NEW r \in Reconcilers, RetryOrExpire(r) \/ run_sweep_page(r)
       PROVE  UNCHANGED tables
  BY <1>18 DEF RetryOrExpire, run_sweep_page
<1>19. ASSUME ResolverStart \/ ResolverStops \/ ClockAdvances PROVE UNCHANGED tables
  BY <1>19 DEF ResolverStart, ResolverStops, ClockAdvances
<1>20. ASSUME NEW b \in Blobs, NEW to, ObjectChanges(b, to) PROVE UNCHANGED tables
  BY <1>20 DEF ObjectChanges
<1>21. UNCHANGED tables => TablesType' /\ TableStep
  BY <1>0 DEF TablesType, tables, TableStep
<1>22. Reconcilers \subseteq Actors
  BY DEF Actors
<1>23. CASE \E b \in Blobs : InsertEntry(b) \/ CommitEntry(b)
  BY <1>23, <1>1, <1>2 DEF TableStep
<1>24. CASE \E t \in Batches : Handler(t)
  BY <1>24, <1>3, <1>4, <1>5, <1>6, <1>7, <1>15, <1>21 DEF TableStep, Handler
<1>25. CASE \E a \in Actors : Execution(a)
  BY <1>25, <1>8, <1>9, <1>10, <1>16, <1>17, <1>21 DEF Execution
<1>26. CASE \E r \in Reconcilers : Reconciler(r)
  BY <1>26, <1>11, <1>12, <1>17, <1>18, <1>21, <1>22 DEF TableStep, Reconciler
<1>27. CASE Resolver
  BY <1>27, <1>13, <1>14, <1>19, <1>21 DEF TableStep, Resolver
<1>28. CASE Environment
  BY <1>28, <1>15, <1>19, <1>20, <1>21 DEF Environment
<1> QED BY <1>23, <1>24, <1>25, <1>26, <1>27, <1>28 DEF Next

-------------------------------------------------------------------------------
(* What the seven steps preserve.                                          *)

\* A stored transaction is never replaced.
LEMMA InputsKept ==
    ASSUME TableStep, NEW t \in Batches, batch[t].inputs # {}
    PROVE  batch'[t].inputs = batch[t].inputs
BY DEF TableStep, tables, Marked, RolledBack, Released, Evicted, Claimed, Prepared, Submitted

\* Only Claim adds rows to a batch, and only to a batch that was not in use.
LEMMA RowsShrink ==
    ASSUME TypeOK, ClaimsExact, TableStep, NEW t \in Batches, batch[t].state # "unused"
    PROVE  /\ RowsOf(t)' \subseteq RowsOf(t) /\ batch'[t].state # "unused"
           /\ \A b \in RowsOf(t)' : row[b].id => row'[b].id
<1>1. batch'[t].state # "unused"
  BY DEF TableStep, tables, Marked, RolledBack, Released, Evicted, Claimed, Prepared, Submitted
<1>2. ASSUME NEW b \in Blobs, row'[b].state = "deleting", row'[b].batch = t
      PROVE  /\ row[b].state = "deleting" /\ row[b].batch = t
             /\ row[b].id => row'[b].id
  BY <1>2 DEF TableStep, tables, Marked, RolledBack, Released, Evicted, Claimed, Prepared,
              Submitted, TerminalState
<1> QED BY <1>1, <1>2 DEF RowsOf

\* ClaimsExact is kept by each of the seven steps.
LEMMA ClaimsStep ==
    ASSUME TypeOK, ClaimsExact, BatchShape, TableStep
    PROVE  ClaimsExact'
<1>0. \A b \in Blobs : row[b].batch \in Batches \cup {NoBatch}
  BY DEF TypeOK, Row
<1>1. CASE UNCHANGED tables
  BY <1>1 DEF tables, ClaimsExact
<1>2. CASE Marked
  BY <1>2 DEF Marked, ClaimsExact, TerminalState
<1>3. ASSUME NEW t \in Batches, RolledBack(t) PROVE ClaimsExact'
  BY <1>0, <1>3, NameAssumption DEF RolledBack, Released, ClaimsExact, LiveState
<1>4. ASSUME NEW t \in Batches, Released(t, "executing", "completed", "deleted", "deleted")
      PROVE  ClaimsExact'
  BY <1>0, <1>4, NameAssumption DEF Released, ClaimsExact, LiveState
<1>5. ASSUME NEW t \in Batches, NEW b \in Blobs, NEW s \in TerminalState, Evicted(t, b, s)
      PROVE  ClaimsExact'
  BY <1>0, <1>5, NameAssumption DEF Evicted, ClaimsExact, LiveState, TerminalState
<1>6. ASSUME NEW t \in Batches, NEW S \in SUBSET Blobs, Claimed(t, S) PROVE ClaimsExact'
  BY <1>0, <1>6, NameAssumption DEF Claimed, ClaimsExact, LiveState
<1>7. ASSUME NEW t \in Batches, NEW inputs, Prepared(t, inputs) PROVE ClaimsExact'
  BY <1>7 DEF Prepared, ClaimsExact
<1>8. ASSUME NEW t \in Batches, Submitted(t) PROVE ClaimsExact'
  BY <1>8 DEF Submitted, ClaimsExact, LiveState
<1> QED BY <1>1, <1>2, <1>3, <1>4, <1>5, <1>6, <1>7, <1>8 DEF TableStep

-------------------------------------------------------------------------------
(* What happens on the chain is not undone.                                *)

ChainKept ==
    /\ \A b \in Blobs : /\ holder[b] = "gone" => holder'[b] = "gone"
                        /\ holder[b] # "owner" => holder'[b] # "owner"
    /\ lapsed => lapsed'
    /\ \A t \in Batches : /\ outcome[t] # "none" => outcome'[t] = outcome[t]
                          /\ t \in sent => t \in sent'
                          /\ t \in sent' => t \in sent \/ batch[t].inputs # {}
                          /\ outcome'[t] # outcome[t] => t \in sent
                          /\ outcome'[t] = "success" /\ outcome[t] # "success" =>
                               \A b \in InputsOf(t) : holder'[b] = "gone"

\* No step gives an object back, undoes an effect or turns a clock back.
LEMMA ChainStep ==
    ASSUME IndInv, Next
    PROVE  RestType' /\ ChainKept
<1>0. TablesType /\ JobType /\ RestType
  BY TypeParts DEF IndInv
<1>1. ASSUME UNCHANGED <<objects, ledger, clocks>> PROVE ChainKept
  BY <1>1 DEF objects, ledger, clocks, ChainKept
<1>2. ASSUME UNCHANGED <<resolver, objects, ledger, clocks>> PROVE RestType'
  BY <1>0, <1>2 DEF resolver, objects, ledger, clocks, RestType
<1>3. ASSUME NEW b \in Blobs, InsertEntry(b) \/ CommitEntry(b)
      PROVE  UNCHANGED <<resolver, objects, ledger, clocks>>
  BY <1>3 DEF InsertEntry, CommitEntry
<1>4. ASSUME NEW t \in Batches, Handler(t) PROVE UNCHANGED <<resolver, objects, ledger, clocks>>
  BY <1>4 DEF Handler, Claim, resolve_claimed_object_ids, CheckObjects, Build, PrepareFails,
              cancel_deletion, Submit, FreshnessUnread, Rejected
<1>5. ASSUME NEW a \in Actors, Execution(a), ~FreshThenExecute(a)
      PROVE  UNCHANGED <<resolver, objects, ledger, clocks>>
  BY <1>5 DEF Execution, Stale, Settle, ExamineFailure, Evict, Fail, Abandon
<1>6. ASSUME NEW r \in Reconcilers, Reconciler(r)
      PROVE  UNCHANGED <<resolver, objects, ledger, clocks>>
  BY <1>6 DEF Reconciler, ReconcileAwaiting, ReconcileExecuting, RetryOrExpire, run_sweep_page,
              sweep_mark_external
<1>7. ASSUME NEW a \in Actors, FreshThenExecute(a) PROVE RestType' /\ ChainKept
  <2>1. job[a].batch \in Batches /\ batch[job[a].batch].inputs # {}
    BY <1>7 DEF FreshThenExecute, IndInv, JobShape, JobOK
  <2>2. /\ sent' = sent \cup {job[a].batch}
        /\ UNCHANGED <<resolver, objects, outcome, suspects, clocks>>
    BY <1>7 DEF FreshThenExecute
  <2> QED BY <1>0, <2>1, <2>2 DEF resolver, objects, clocks, RestType, ChainKept
<1>8. ASSUME ResolverStart PROVE RestType' /\ UNCHANGED <<objects, ledger, clocks>>
  <2>1. checkpoint' \in Checkpoint
    BY <1>0, <1>8 DEF ResolverStart, RestType, Checkpoint, Sequenced
  <2>2. scan' = "list" /\ UNCHANGED <<enabled, completed, objects, ledger, clocks>>
    BY <1>8 DEF ResolverStart
  <2> QED BY <1>0, <2>1, <2>2 DEF objects, ledger, clocks, RestType, Scan
<1>9. ASSUME ResolverPage PROVE RestType' /\ UNCHANGED <<objects, ledger, clocks>>
  <2>1. checkpoint' \in Checkpoint
    BY <1>0, <1>9, NumberAssumption DEF ResolverPage, RestType, Checkpoint
  <2>2. scan' \in Scan /\ UNCHANGED <<enabled, completed, objects, ledger, clocks>>
    BY <1>9 DEF ResolverPage, Scan
  <2> QED BY <1>0, <2>1, <2>2 DEF objects, ledger, clocks, RestType
<1>10. ASSUME complete_resolver_scan PROVE RestType' /\ UNCHANGED <<objects, ledger, clocks>>
  <2>1. checkpoint' \in Checkpoint
    BY <1>0, <1>10 DEF complete_resolver_scan, RestType, Checkpoint
  <2>2. completed' \subseteq Blobs
    BY <1>0, <1>10 DEF complete_resolver_scan, RestType, Checkpoint
  <2>3. scan' = "idle" /\ UNCHANGED <<enabled, objects, ledger, clocks>>
    BY <1>10 DEF complete_resolver_scan
  <2> QED BY <1>0, <2>1, <2>2, <2>3 DEF objects, ledger, clocks, RestType, Scan
<1>11. ASSUME ResolverStops PROVE RestType' /\ UNCHANGED <<objects, ledger, clocks>>
  BY <1>0, <1>11 DEF ResolverStops, objects, ledger, clocks, RestType, Scan
<1>12. ASSUME NEW t \in Batches, TxSucceeds(t) PROVE RestType' /\ ChainKept
  <2>1. /\ t \in sent /\ outcome[t] = "none" /\ outcome' = [outcome EXCEPT ![t] = "success"]
        /\ holder' = [b \in Blobs |-> IF b \in InputsOf(t) THEN "gone" ELSE holder[b]]
        /\ UNCHANGED <<resolver, version, sent, suspects, clocks>>
    BY <1>12 DEF TxSucceeds, Executable
  <2>2. InputsOf(t) \subseteq Blobs
    BY <1>0 DEF InputsOf, TablesType, Batch, Inputs
  <2> QED BY <1>0, <2>1, <2>2 DEF resolver, clocks, RestType, ChainKept
<1>13. ASSUME NEW t \in Batches, TxFails(t) PROVE RestType' /\ ChainKept
  <2>1. PICK S \in {{}, InputsOf(t)} \cup {{b} : b \in InputsOf(t)} :
          suspects' = [suspects EXCEPT ![t] = S]
    BY <1>13 DEF TxFails
  <2>2. InputsOf(t) \subseteq Blobs
    BY <1>0 DEF InputsOf, TablesType, Batch, Inputs
  <2>3. suspects' \in [Batches -> SUBSET Blobs]
    BY <1>0, <2>1, <2>2 DEF RestType
  <2>4. /\ t \in sent /\ outcome[t] = "none" /\ outcome' = [outcome EXCEPT ![t] = "failure"]
        /\ version' = [b \in Blobs |-> IF b \in InputsOf(t) THEN version[b] + 1 ELSE version[b]]
        /\ changes' = changes + 1
        /\ UNCHANGED <<resolver, holder, sent, epoch, package, lapsed>>
    BY <1>13 DEF TxFails, Executable, Change
  <2> QED BY <1>0, <2>3, <2>4 DEF resolver, RestType, ChainKept
<1>14. ASSUME NEW b \in Blobs, NEW to \in {"owner", "other", "gone"}, ObjectChanges(b, to)
       PROVE  RestType' /\ ChainKept
  <2>1. /\ holder[b] = "owner" /\ holder' = [holder EXCEPT ![b] = to]
        /\ version' = [version EXCEPT ![b] = @ + 1] /\ changes' = changes + 1
        /\ UNCHANGED <<resolver, ledger, epoch, package, lapsed>>
    BY <1>14 DEF ObjectChanges, Change
  <2> QED BY <1>0, <2>1 DEF resolver, ledger, RestType, ChainKept
<1>15. ASSUME ClockAdvances PROVE RestType' /\ ChainKept
  <2>1. /\ epoch' \in Nat /\ package' \in Nat /\ lapsed' \in BOOLEAN /\ changes' \in Nat
        /\ lapsed => lapsed'
    <3>1. changes' = changes + 1
      BY <1>15 DEF ClockAdvances, Change
    <3>2. CASE epoch' = epoch + 1 /\ UNCHANGED <<package, lapsed>>
      BY <1>0, <3>1, <3>2 DEF RestType
    <3>3. CASE package' = package + 1 /\ UNCHANGED <<epoch, lapsed>>
      BY <1>0, <3>1, <3>3 DEF RestType
    <3>4. CASE lapsed' = TRUE /\ UNCHANGED <<epoch, package>>
      BY <1>0, <3>1, <3>4 DEF RestType
    <3> QED BY <1>15, <3>2, <3>3, <3>4 DEF ClockAdvances
  <2>2. UNCHANGED <<resolver, objects, ledger>>
    BY <1>15 DEF ClockAdvances
  <2> QED BY <1>0, <2>1, <2>2 DEF resolver, objects, ledger, RestType, ChainKept
<1>16. CASE \E b \in Blobs : InsertEntry(b) \/ CommitEntry(b)
  BY <1>16, <1>1, <1>2, <1>3
<1>17. CASE \E t \in Batches : Handler(t)
  BY <1>17, <1>1, <1>2, <1>4
<1>18. CASE \E a \in Actors : Execution(a)
  BY <1>18, <1>1, <1>2, <1>5, <1>7
<1>19. CASE \E r \in Reconcilers : Reconciler(r)
  BY <1>19, <1>1, <1>2, <1>6
<1>20. CASE Resolver
  BY <1>20, <1>1, <1>8, <1>9, <1>10, <1>11 DEF Resolver
<1>21. CASE Environment
  BY <1>21, <1>12, <1>13, <1>14, <1>15 DEF Environment
<1> QED BY <1>16, <1>17, <1>18, <1>19, <1>20, <1>21 DEF Next

\* A transaction is sent only when it is stored, and has effects only when sent.
LEMMA BatchShapeStep ==
    ASSUME TypeOK, BatchShape, TableStep, ChainKept
    PROVE  BatchShape'
<1>1. ASSUME NEW t \in Batches PROVE BatchOK(t)'
  <2>0. BatchOK(t)
    BY DEF BatchShape
  <2>1. CASE UNCHANGED tables
    BY <2>0, <2>1 DEF tables, BatchOK
  <2>2. CASE Marked
    BY <2>0, <2>2 DEF Marked, BatchOK
  <2>3. ASSUME NEW u \in Batches, RolledBack(u) PROVE BatchOK(t)'
    BY <2>0, <2>3 DEF RolledBack, Released, BatchOK
  <2>4. ASSUME NEW u \in Batches, Released(u, "executing", "completed", "deleted", "deleted")
        PROVE  BatchOK(t)'
    BY <2>0, <2>4 DEF Released, BatchOK
  <2>5. ASSUME NEW u \in Batches, NEW b \in Blobs, NEW s \in TerminalState, Evicted(u, b, s)
        PROVE  BatchOK(t)'
    BY <2>0, <2>5 DEF Evicted, BatchOK
  <2>6. ASSUME NEW u \in Batches, NEW S \in SUBSET Blobs, Claimed(u, S) PROVE BatchOK(t)'
    BY <2>0, <2>6 DEF Claimed, BatchOK
  <2>7. ASSUME NEW u \in Batches, NEW inputs, Prepared(u, inputs) PROVE BatchOK(t)'
    BY <2>0, <2>7 DEF Prepared, BatchOK
  <2>8. ASSUME NEW u \in Batches, Submitted(u) PROVE BatchOK(t)'
    BY <2>0, <2>8 DEF Submitted, BatchOK
  <2> QED BY <2>1, <2>2, <2>3, <2>4, <2>5, <2>6, <2>7, <2>8 DEF TableStep
<1>2. ASSUME NEW t \in Batches PROVE LedgerOK(t)'
  BY InputsKept DEF BatchShape, LedgerOK, ChainKept
<1> QED BY <1>1, <1>2 DEF BatchShape

\* The effects of a transaction stay what became of its inputs.
LEMMA EffectsStep ==
    ASSUME BatchShape, EffectsTrue, TableStep, ChainKept, TypeOK
    PROVE  EffectsTrue'
<1> SUFFICES ASSUME NEW t \in Batches, outcome'[t] = "success", NEW b \in InputsOf(t)'
             PROVE  holder'[b] = "gone"
  BY DEF EffectsTrue
<1>1. batch[t].inputs # {}
  BY DEF BatchShape, LedgerOK, ChainKept
<1>2. b \in InputsOf(t)
  BY <1>1, InputsKept DEF InputsOf
<1>3. b \in Blobs
  BY <1>2 DEF InputsOf, TypeOK, Batch, Inputs
<1> QED BY <1>2, <1>3 DEF EffectsTrue, ChainKept

\* The stored transaction goes on covering the claims of its batch.
LEMMA CoversStep ==
    ASSUME TypeOK, ClaimsExact, BatchShape, TxCoversClaims, TableStep
    PROVE  TxCoversClaims'
<1> SUFFICES ASSUME NEW t \in Batches, batch'[t].inputs # {}
             PROVE  RowsOf(t)' \subseteq InputsOf(t)'
  BY DEF TxCoversClaims
<1>1. CASE batch[t].inputs # {}
  <2>1. batch[t].state # "unused" /\ InputsOf(t)' = InputsOf(t)
    BY <1>1, InputsKept DEF BatchShape, BatchOK, InputsOf
  <2> QED BY <1>1, <2>1, RowsShrink DEF TxCoversClaims
<1>2. CASE batch[t].inputs = {}
  <2>1. PICK u \in Batches, inputs \in Inputs :
          RowsOf(u) \subseteq First(inputs) /\ Prepared(u, inputs)
    BY <1>2 DEF TableStep, tables, Marked, RolledBack, Released, Evicted, Claimed, Submitted
  <2>2. u = t /\ batch'[t].inputs = inputs /\ RowsOf(t)' = RowsOf(t)
    BY <1>2, <2>1 DEF Prepared, RowsOf
  <2> QED BY <2>1, <2>2 DEF First, InputsOf
<1> QED BY <1>1, <1>2

-------------------------------------------------------------------------------
(* Terminal states.                                                        *)

\* What was read off the chain stays true.
LEMMA SaysStays ==
    ASSUME ChainKept, NEW b \in Blobs, NEW s, Says(b, s)
    PROVE  Says(b, s)'
BY DEF Says, ChainKept

\* The rows part of TerminalIsTrue, said of a state.
RowTrue(b) ==
    /\ row[b].state \in {"deleted", "deleted_external"} => holder[b] = "gone"
    /\ row[b].state = "expired" => lapsed /\ b \in Expiring

\* The claims part of TerminalIsTrue.
ClaimTrue(t, b) ==
    /\ member[t][b] = "deleted" => outcome[t] = "success" /\ b \in InputsOf(t)
    /\ member[t][b] = "not_owner" => holder[b] # "owner"

\* TerminalIsTrue, row by row and claim by claim.
LEMMA TerminalParts ==
    TerminalIsTrue <=> /\ \A b \in Blobs : RowTrue(b)
                       /\ \A t \in Batches, b \in Blobs : ClaimTrue(t, b)
                       /\ \A t \in Batches : batch[t].state = "completed" => outcome[t] = "success"
BY DEF TerminalIsTrue, RowTrue, ClaimTrue

\* A row that keeps its state stays true.
LEMMA RowStays ==
    ASSUME ChainKept, NEW b \in Blobs, RowTrue(b), row'[b].state = row[b].state
    PROVE  RowTrue(b)'
BY DEF RowTrue, ChainKept

\* So does a claim, whose inputs are stored.
LEMMA ClaimStays ==
    ASSUME BatchShape, TableStep, ChainKept, NEW t \in Batches, NEW b \in Blobs, ClaimTrue(t, b),
           member'[t][b] = member[t][b]
    PROVE  ClaimTrue(t, b)'
<1>1. CASE member[t][b] = "deleted"
  <2>1. outcome[t] = "success" /\ b \in InputsOf(t) /\ batch[t].inputs # {}
    BY <1>1 DEF ClaimTrue, BatchShape, LedgerOK
  <2>2. outcome'[t] = "success" /\ b \in InputsOf(t)'
    BY <2>1, InputsKept DEF InputsOf, ChainKept
  <2> QED BY <1>1, <2>2 DEF ClaimTrue
<1>2. CASE member[t][b] # "deleted"
  BY <1>2 DEF ClaimTrue, ChainKept
<1> QED BY <1>1, <1>2

\* A batch that is resolved leaves rows, claims and its own state true.
LEMMA TerminalStep ==
    ASSUME TypeOK, ClaimsExact, BatchShape, EffectsTrue, TxCoversClaims, TerminalIsTrue,
           TableStep, ChainKept
    PROVE  TerminalIsTrue'
<1>0. /\ \A b \in Blobs : RowTrue(b)
      /\ \A t \in Batches, b \in Blobs : ClaimTrue(t, b)
      /\ \A t \in Batches : batch[t].state = "completed" => outcome[t] = "success"
  BY TerminalParts
<1> DEFINE Good == /\ \A b \in Blobs : RowTrue(b)'
                   /\ \A t \in Batches, b \in Blobs : ClaimTrue(t, b)'
                   /\ \A t \in Batches : batch'[t].state = "completed" => outcome'[t] = "success"
<1>1. ASSUME UNCHANGED tables PROVE Good
  BY <1>0, <1>1, RowStays, ClaimStays DEF tables, ChainKept
<1>2. ASSUME Marked PROVE Good
  <2>1. ASSUME NEW b \in Blobs PROVE RowTrue(b)'
    <3>1. CASE row'[b].state = row[b].state
      BY <1>0, <3>1, RowStays
    <3>2. CASE row'[b].state \in {"inserting", "deletable"}
      BY <3>2 DEF RowTrue
    <3>3. CASE row'[b].state \in TerminalState /\ GivenUp(b, row'[b].state)
      BY <3>3, SaysStays DEF GivenUp, Says, RowTrue
    <3> QED BY <1>2, <3>1, <3>2, <3>3 DEF Marked
  <2> QED BY <1>0, <1>2, <2>1, ClaimStays DEF Marked, ChainKept
<1>3. ASSUME NEW t \in Batches, RolledBack(t) PROVE Good
  <2>1. ASSUME NEW b \in Blobs PROVE RowTrue(b)'
    <3>1. CASE row[b].state = "deleting" /\ row[b].batch = t
      BY <1>3, <3>1 DEF RolledBack, Released, RowTrue
    <3>2. CASE ~(row[b].state = "deleting" /\ row[b].batch = t)
      BY <1>0, <1>3, <3>2, RowStays DEF RolledBack, Released
    <3> QED BY <3>1, <3>2
  <2>2. ASSUME NEW u \in Batches, NEW b \in Blobs PROVE ClaimTrue(u, b)'
    <3>1. CASE member'[u][b] = member[u][b]
      BY <1>0, <3>1, ClaimStays
    <3>2. CASE member'[u][b] # member[u][b]
      BY <1>3, <3>2 DEF RolledBack, Released, ClaimTrue
    <3> QED BY <3>1, <3>2
  <2>3. ASSUME NEW u \in Batches, batch'[u].state = "completed" PROVE outcome'[u] = "success"
    BY <1>0, <1>3, <2>3 DEF RolledBack, Released, ChainKept
  <2> QED BY <2>1, <2>2, <2>3
<1>4. ASSUME NEW t \in Batches, outcome[t] = "success",
             Released(t, "executing", "completed", "deleted", "deleted")
      PROVE  Good
  <2>0. /\ outcome'[t] = "success" /\ batch[t].inputs # {}
        /\ InputsOf(t)' = InputsOf(t) /\ RowsOf(t) \subseteq InputsOf(t)
    BY <1>4, InputsKept DEF ChainKept, BatchShape, LedgerOK, InputsOf, TxCoversClaims
  <2>1. ASSUME NEW b \in Blobs PROVE RowTrue(b)'
    <3>1. CASE row[b].state = "deleting" /\ row[b].batch = t
      <4>1. holder[b] = "gone"
        BY <1>4, <2>0, <3>1 DEF RowsOf, EffectsTrue
      <4> QED BY <1>4, <3>1, <4>1 DEF Released, RowTrue, ChainKept
    <3>2. CASE ~(row[b].state = "deleting" /\ row[b].batch = t)
      BY <1>0, <1>4, <3>2, RowStays DEF Released
    <3> QED BY <3>1, <3>2
  <2>2. ASSUME NEW u \in Batches, NEW b \in Blobs PROVE ClaimTrue(u, b)'
    <3>1. CASE member'[u][b] = member[u][b]
      BY <1>0, <3>1, ClaimStays
    <3>2. CASE member'[u][b] # member[u][b]
      <4>1. u = t /\ member[t][b] = "claimed" /\ member'[t][b] = "deleted"
        BY <1>4, <3>2 DEF Released
      <4>2. b \in InputsOf(t)
        BY <2>0, <4>1 DEF ClaimsExact, RowsOf
      <4> QED BY <2>0, <4>1, <4>2 DEF ClaimTrue
    <3> QED BY <3>1, <3>2
  <2>3. ASSUME NEW u \in Batches, batch'[u].state = "completed" PROVE outcome'[u] = "success"
    BY <1>0, <1>4, <2>0, <2>3 DEF Released, ChainKept
  <2> QED BY <2>1, <2>2, <2>3
<1>5. ASSUME NEW t \in Batches, NEW b \in Blobs, NEW s \in TerminalState, Says(b, s), Evicted(t, b, s)
      PROVE  Good
  <2>0. Says(b, s)'
    BY <1>5, SaysStays
  <2>1. ASSUME NEW c \in Blobs PROVE RowTrue(c)'
    <3>1. CASE c = b
      BY <1>5, <2>0, <3>1 DEF Evicted, Says, RowTrue
    <3>2. CASE c # b
      BY <1>0, <1>5, <3>2, RowStays DEF Evicted
    <3> QED BY <3>1, <3>2
  <2>2. ASSUME NEW u \in Batches, NEW c \in Blobs PROVE ClaimTrue(u, c)'
    <3>1. CASE member'[u][c] = member[u][c]
      BY <1>0, <3>1, ClaimStays
    <3>2. CASE member'[u][c] # member[u][c]
      <4>1. c = b /\ member'[u][c] = s
        BY <1>5, <3>2 DEF Evicted
      <4> QED BY <2>0, <4>1 DEF Says, ClaimTrue
    <3> QED BY <3>1, <3>2
  <2> QED BY <1>0, <1>5, <2>1, <2>2 DEF Evicted, ChainKept
<1>6. ASSUME NEW t \in Batches, NEW S \in SUBSET Blobs, Claimed(t, S) PROVE Good
  <2>1. ASSUME NEW b \in Blobs PROVE RowTrue(b)'
    <3>1. CASE b \in S
      BY <1>6, <3>1 DEF Claimed, RowTrue
    <3>2. CASE b \notin S
      BY <1>0, <1>6, <3>2, RowStays DEF Claimed
    <3> QED BY <3>1, <3>2
  <2>2. ASSUME NEW u \in Batches, NEW b \in Blobs PROVE ClaimTrue(u, b)'
    <3>1. CASE u = t
      BY <1>6, <3>1 DEF Claimed, ClaimTrue
    <3>2. CASE u # t
      BY <1>0, <1>6, <3>2, ClaimStays DEF Claimed
    <3> QED BY <3>1, <3>2
  <2> QED BY <1>0, <1>6, <2>1, <2>2 DEF Claimed, ChainKept
<1>7. ASSUME NEW t \in Batches, NEW inputs, Prepared(t, inputs) PROVE Good
  BY <1>0, <1>7, RowStays, ClaimStays DEF Prepared, ChainKept
<1>8. ASSUME NEW t \in Batches, Submitted(t) PROVE Good
  BY <1>0, <1>8, RowStays, ClaimStays DEF Submitted, ChainKept
<1>9. Good
  BY <1>1, <1>2, <1>3, <1>4, <1>5, <1>6, <1>7, <1>8 DEF TableStep
<1> QED BY <1>9 DEF TerminalIsTrue, RowTrue, ClaimTrue

\* A claim that was made is never forgotten, and an unclaimed blob is given up
\* only when the owner does not hold it.
LEMMA UnclaimedStep ==
    ASSUME TypeOK, ClaimsExact, BatchShape, UnclaimedNotOwnerConfirmed, TableStep, ChainKept
    PROVE  UnclaimedNotOwnerConfirmed'
<1> SUFFICES ASSUME NEW b \in Blobs, row'[b].state = "not_owner",
                    \A t \in Batches : member'[t][b] = "none"
             PROVE  holder'[b] # "owner"
  BY DEF UnclaimedNotOwnerConfirmed
<1>1. ASSUME NEW t \in Batches PROVE member[t][b] = "none"
  BY DEF TableStep, tables, Marked, RolledBack, Released, Evicted, Claimed, Prepared, Submitted,
         BatchShape, BatchOK, TerminalState
<1>2. CASE row[b].state = "not_owner"
  BY <1>1, <1>2 DEF UnclaimedNotOwnerConfirmed, ChainKept
<1>3. CASE row[b].state # "not_owner"
  <2>1. row[b].state # "deleting"
    BY <1>1 DEF ClaimsExact, TypeOK, Row
  <2>2. Marked
    BY <1>3, <2>1 DEF TableStep, tables, RolledBack, Released, Evicted, Claimed, Prepared, Submitted
  <2>3. GivenUp(b, "not_owner")
    BY <1>3, <2>2 DEF Marked
  <2> QED BY <1>1, <2>3 DEF GivenUp, Says, ChainKept
<1> QED BY <1>2, <1>3

\* No step of the tables rewrites what is resolved.
LEMMA FinalStep ==
    ASSUME TypeOK, BatchShape, TableStep
    PROVE  /\ \A b \in Blobs : row[b].state \in TerminalState => row'[b].state = row[b].state
           /\ \A t \in Batches : batch[t].state \in ResolvedState => batch'[t] = batch[t]
           /\ \A t \in Batches, b \in Blobs :
                member[t][b] \notin {"none", "claimed"} => member'[t][b] = member[t][b]
<1>1. ASSUME NEW b \in Blobs, row[b].state \in TerminalState PROVE row'[b].state = row[b].state
  BY <1>1 DEF TableStep, tables, Marked, RolledBack, Released, Evicted, Claimed, Prepared,
              Submitted, TerminalState
<1>2. ASSUME NEW t \in Batches, batch[t].state \in ResolvedState PROVE batch'[t] = batch[t]
  BY <1>2 DEF TableStep, tables, Marked, RolledBack, Released, Evicted, Claimed, Prepared,
              Submitted, ResolvedState
<1>3. ASSUME NEW t \in Batches, NEW b \in Blobs, member[t][b] \notin {"none", "claimed"}
      PROVE  member'[t][b] = member[t][b]
  BY <1>3 DEF TableStep, tables, Marked, RolledBack, Released, Evicted, Claimed, Prepared,
              Submitted, BatchShape, BatchOK
<1> QED BY <1>1, <1>2, <1>3

-------------------------------------------------------------------------------
(* The jobs.                                                               *)

JobGood(a) == JobOK(a) /\ PlanTrue(a) /\ (a \in Batches => Covers(a))

\* A job nobody touches stays good: what it relies on does not go away.
LEMMA JobStays ==
    ASSUME IndInv, TableStep, ChainKept, NEW a \in Actors, job'[a] = job[a]
    PROVE  JobGood(a)'
<1>0. JobOK(a) /\ PlanTrue(a) /\ (a \in Batches => Covers(a))
  BY DEF IndInv, JobShape, PlansTrue, PreparationCovers
<1>1. TypeOK /\ ClaimsExact
  BY DEF IndInv
<1>2. ASSUME job[a].batch \in Batches, batch[job[a].batch].state # "unused"
      PROVE  batch'[job[a].batch].state # "unused"
  BY <1>1, <1>2, RowsShrink
<1>3. ASSUME job[a].batch \in Batches, batch[job[a].batch].inputs # {}
      PROVE  batch'[job[a].batch].inputs # {}
  BY <1>3, InputsKept
<1>4. JobOK(a)'
  BY <1>0, <1>2, <1>3 DEF JobOK
<1>5. \A p \in job[a].plan : p[1] \in Blobs
  BY <1>1 DEF TypeOK, Job
<1>6. PlanTrue(a)'
  BY <1>0, <1>5, SaysStays DEF PlanTrue
<1>7. ASSUME a \in Batches PROVE Covers(a)'
  <2>1. CASE job[a].at \in {"check", "build"}
    <3>1. batch[a].state # "unused"
      BY <1>0, <1>7, <2>1 DEF JobOK
    <3>2. /\ RowsOf(a)' \subseteq RowsOf(a)
          /\ \A b \in RowsOf(a)' : row[b].id => row'[b].id
      BY <1>1, <1>7, <3>1, RowsShrink
    <3> QED BY <1>0, <1>7, <3>2 DEF Covers
  <2>2. CASE job[a].at \notin {"check", "build"}
    BY <2>2 DEF Covers
  <2> QED BY <2>1, <2>2
<1> QED BY <1>4, <1>6, <1>7 DEF JobGood

\* One job moves, and the jobs are good if it is.
LEMMA OneJobMoves ==
    ASSUME IndInv, TableStep, ChainKept, NEW a \in Actors, JobGood(a)',
           \A x \in Actors : x # a => job'[x] = job[x]
    PROVE  JobShape' /\ PlansTrue' /\ PreparationCovers'
<1>1. ASSUME NEW x \in Actors PROVE JobGood(x)'
  BY JobStays
<1> QED BY <1>1 DEF JobGood, JobShape, PlansTrue, PreparationCovers, Actors

\* A job that ends.
LEMMA JobReturns ==
    ASSUME IndInv, TableStep, ChainKept, NEW a \in Actors, Return(a)
    PROVE  JobType' /\ JobShape' /\ PlansTrue' /\ PreparationCovers'
<1>1. /\ JobType' /\ job'[a] = Idle
      /\ \A x \in Actors : x # a => job'[x] = job[x]
  BY TypeParts, ReturnEffect DEF IndInv
<1>2. JobGood(a)'
  BY <1>1 DEF Idle, JobGood, JobOK, PlanTrue, Covers
<1> QED BY <1>1, <1>2, OneJobMoves

\* A job that goes on outside prepare_deletion.
LEMMA JobContinues ==
    ASSUME IndInv, TableStep, ChainKept, NEW a \in Actors,
           NEW at \in {"fresh", "await", "fail"}, NEW plan \in SUBSET (Blobs \X TerminalState),
           Continue(a, at, plan, {}), job[a].at \notin {"idle", "sweep"},
           at = "fresh" => batch[job[a].batch].inputs # {},
           \A p \in plan : Says(p[1], p[2])
    PROVE  JobType' /\ JobShape' /\ PlansTrue' /\ PreparationCovers'
<1>1. /\ {} \in Inputs /\ JobType
      /\ at \in {"resolve", "check", "build", "fresh", "await", "absent", "fail", "sweep"}
  BY TypeParts DEF Inputs, IndInv
<1>2. /\ JobType'
      /\ job'[a] = [at |-> at, batch |-> job[a].batch, plan |-> plan, got |-> {}]
      /\ \A x \in Actors : x # a => job'[x] = job[x]
  BY <1>1 DEF JobType, Continue, Job
<1>3. JobOK(a) /\ TypeOK /\ ClaimsExact
  BY DEF IndInv, JobShape
<1>4. /\ job[a].batch \in Batches /\ batch[job[a].batch].state # "unused"
      /\ a \in Batches => job[a].batch = a
  BY <1>3 DEF JobOK
<1>5. batch'[job[a].batch].state # "unused"
  BY <1>3, <1>4, RowsShrink
<1>6. at = "fresh" => batch'[job[a].batch].inputs # {}
  BY <1>4, InputsKept
<1>7. JobOK(a)'
  BY <1>2, <1>4, <1>5, <1>6 DEF JobOK
<1>8. PlanTrue(a)'
  BY <1>2, SaysStays DEF PlanTrue
<1>9. Covers(a)'
  BY <1>2 DEF Covers
<1> QED BY <1>2, <1>7, <1>8, <1>9, OneJobMoves DEF JobGood

\* What a read of the chain says of a blob is true, and terminal unless the
\* blob is live.
LEMMA VerdictTrue ==
    ASSUME TypeOK, NEW b \in Blobs
    PROVE  /\ Verdict(b) # "live" => Verdict(b) \in TerminalState /\ Says(b, Verdict(b))
           /\ terminal_state(b) # "live" =>
                terminal_state(b) \in TerminalState /\ Says(b, terminal_state(b))
           /\ b \notin Owned => Verdict(b) # "live"
<1>1. /\ holder[b] = "gone" => Verdict(b) = "deleted_external"
      /\ holder[b] = "other" => Verdict(b) = "not_owner"
      /\ holder[b] = "owner" => Verdict(b) = "live"
      /\ holder[b] \in {"owner", "other", "gone"}
  BY DEF Verdict, TypeOK
<1>2. terminal_state(b) = IF Verdict(b) = "live" /\ lapsed /\ b \in Expiring
                          THEN "expired" ELSE Verdict(b)
  BY DEF terminal_state
<1>3. Verdict(b) # "live" => Verdict(b) \in TerminalState /\ Says(b, Verdict(b))
  BY <1>1 DEF TerminalState, Says
<1>4. terminal_state(b) # "live" =>
        terminal_state(b) \in TerminalState /\ Says(b, terminal_state(b))
  <2>1. CASE Verdict(b) = "live" /\ lapsed /\ b \in Expiring
    BY <1>2, <2>1 DEF TerminalState, Says
  <2>2. CASE ~(Verdict(b) = "live" /\ lapsed /\ b \in Expiring)
    BY <1>2, <1>3, <2>2
  <2> QED BY <2>1, <2>2
<1>5. b \notin Owned => Verdict(b) # "live"
  BY <1>1 DEF Owned
<1> QED BY <1>3, <1>4, <1>5

\* A claim starts the preparation of its batch.
LEMMA ClaimJob ==
    ASSUME IndInv, TableStep, ChainKept, NEW t \in Batches, NEW S \in SUBSET Blobs, Claim(t, S)
    PROVE  JobType' /\ JobShape' /\ PlansTrue' /\ PreparationCovers'
<1>0. TablesType /\ JobType /\ ClaimsExact /\ TypeOK /\ t \in Actors
  BY TypeParts DEF IndInv, Actors
<1>1. /\ JobType' /\ Claimed(t, S)
      /\ job'[t] = [at |-> IF \E b \in S : ~row[b].id THEN "resolve" ELSE "check",
                    batch |-> t, plan |-> {}, got |-> {}]
      /\ \A x \in Actors : x # t => job'[x] = job[x]
  BY <1>0, ClaimEffect
<1>2. ASSUME NEW b \in RowsOf(t)' PROVE b \in S /\ row'[b].id = row[b].id
  BY <1>0, <1>1 DEF RowsOf, Claimed, ClaimsExact, LiveState
<1>3. job'[t].at \in {"resolve", "check"} /\ job'[t].batch = t /\ job'[t].plan = {}
  BY <1>1
<1>4. JobOK(t)'
  BY <1>1, <1>3 DEF JobOK, Claimed
<1>5. Covers(t)'
  BY <1>1, <1>2 DEF Covers
<1>6. PlanTrue(t)'
  BY <1>3 DEF PlanTrue
<1> QED BY <1>0, <1>1, <1>4, <1>5, <1>6, OneJobMoves DEF JobGood

\* What the scan of the owner's objects does not find is to be evicted.
LEMMA ResolveIdsJob ==
    ASSUME IndInv, TableStep, ChainKept, NEW t \in Batches, resolve_claimed_object_ids(t)
    PROVE  JobType' /\ JobShape' /\ PlansTrue' /\ PreparationCovers'
<1> DEFINE unknown == {b \in RowsOf(t) : ~row[b].id}
           plan == (unknown \ Owned) \X {"not_owner"}
<1>0. /\ TypeOK /\ JobType /\ t \in Actors /\ job[t].at = "resolve" /\ JobOK(t)
      /\ {} \in Inputs /\ plan \in SUBSET (Blobs \X TerminalState)
  BY TypeParts DEF IndInv, Actors, resolve_claimed_object_ids, JobShape, Inputs, RowsOf,
                   TerminalState
<1>1. /\ row' = [b \in Blobs |-> IF b \in unknown \cap Owned
                                 THEN [row[b] EXCEPT !.id = TRUE] ELSE row[b]]
      /\ UNCHANGED batch /\ Continue(t, "check", plan, {})
  BY DEF resolve_claimed_object_ids
<1>2. /\ JobType'
      /\ job'[t] = [at |-> "check", batch |-> job[t].batch, plan |-> plan, got |-> {}]
      /\ \A x \in Actors : x # t => job'[x] = job[x]
  <2> HIDE DEF plan
  <2> QED BY <1>0, <1>1 DEF JobType, Continue, Job
<1>3. JobOK(t)'
  BY <1>0, <1>1, <1>2 DEF JobOK
<1>4. PlanTrue(t)'
  <2>1. ASSUME NEW p \in plan PROVE Says(p[1], p[2])'
    <3>1. p[1] \in Blobs /\ p[1] \notin Owned /\ p[2] = "not_owner"
      BY DEF RowsOf
    <3>2. Says(p[1], p[2])
      BY <3>1 DEF Owned, Says
    <3> QED BY <3>1, <3>2, SaysStays
  <2> QED BY <1>2, <2>1 DEF PlanTrue
<1>5. Covers(t)'
  <2>1. ASSUME NEW b \in RowsOf(t)' PROVE row'[b].id \/ b \in First(plan)
    <3>1. b \in Blobs /\ b \in RowsOf(t)
      BY <1>0, <1>1 DEF RowsOf, TypeOK, Row
    <3>2. CASE row[b].id
      BY <1>0, <1>1, <3>1, <3>2 DEF TypeOK, Row
    <3>3. CASE ~row[b].id /\ b \in Owned
      BY <1>0, <1>1, <3>1, <3>3 DEF TypeOK, Row
    <3>4. CASE ~row[b].id /\ b \notin Owned
      <4>1. <<b, "not_owner">> \in plan
        BY <3>1, <3>4
      <4> QED BY <4>1 DEF First
    <3> QED BY <3>2, <3>3, <3>4
  <2> QED BY <1>2, <2>1 DEF Covers
<1> QED BY <1>0, <1>2, <1>3, <1>4, <1>5, OneJobMoves DEF JobGood

\* Every object that was checked is to be deleted or evicted.
LEMMA CheckJob ==
    ASSUME IndInv, TableStep, ChainKept, NEW t \in Batches, CheckObjects(t)
    PROVE  JobType' /\ JobShape' /\ PlansTrue' /\ PreparationCovers'
<1> DEFINE known == {b \in RowsOf(t) : row[b].id}
           healthy == {b \in known : terminal_state(b) = "live"}
           plan == {<<b, terminal_state(b)>> : b \in known \ healthy}
           got == {Current(b) : b \in healthy}
<1>0. TypeOK /\ JobType /\ t \in Actors /\ job[t].at = "check" /\ job[t].plan = {} /\ JobOK(t)
  BY TypeParts DEF IndInv, Actors, CheckObjects, JobShape
<1>1. UNCHANGED <<row, batch>> /\ Continue(t, "build", plan, got)
  BY DEF CheckObjects, tables
<1>2. ASSUME NEW b \in known \ healthy
      PROVE  b \in Blobs /\ terminal_state(b) \in TerminalState /\ Says(b, terminal_state(b))
  BY <1>0, VerdictTrue DEF RowsOf
<1>3. plan \in SUBSET (Blobs \X TerminalState)
  BY <1>2
<1>4. got \in Inputs
  BY <1>0 DEF Current, RowsOf, Inputs, TypeOK
<1>5. /\ JobType'
      /\ job'[t] = [at |-> "build", batch |-> job[t].batch, plan |-> plan, got |-> got]
      /\ \A x \in Actors : x # t => job'[x] = job[x]
  <2> HIDE DEF plan, got
  <2> QED BY <1>0, <1>1, <1>3, <1>4 DEF JobType, Continue, Job
<1>6. JobOK(t)'
  BY <1>0, <1>1, <1>5 DEF JobOK
<1>7. PlanTrue(t)'
  <2>1. ASSUME NEW p \in plan PROVE Says(p[1], p[2])'
    <3>1. PICK b \in known \ healthy : p = <<b, terminal_state(b)>>
      OBVIOUS
    <3>2. p[1] = b /\ p[2] = terminal_state(b)
      BY <3>1
    <3> HIDE DEF known, healthy, plan
    <3>3. b \in Blobs /\ Says(p[1], p[2])
      BY <1>2, <3>2
    <3> QED BY <3>2, <3>3, SaysStays
  <2> QED BY <1>5, <2>1 DEF PlanTrue
<1>8. Covers(t)'
  <2>1. ASSUME NEW b \in RowsOf(t) PROVE b \in First(got) \cup First(plan)
    <3>1. row[b].id
      BY <1>0 DEF IndInv, PreparationCovers, Covers, First
    <3>2. CASE terminal_state(b) = "live"
      <4>1. Current(b) \in got /\ Current(b)[1] = b
        BY <3>1, <3>2 DEF Current
      <4> QED BY <4>1 DEF First
    <3>3. CASE terminal_state(b) # "live"
      <4>1. <<b, terminal_state(b)>> \in plan
        BY <3>1, <3>3
      <4>2. <<b, terminal_state(b)>>[1] = b
        OBVIOUS
      <4> HIDE DEF plan, got
      <4> QED BY <4>1, <4>2 DEF First
    <3> QED BY <3>2, <3>3
  <2>2. RowsOf(t)' = RowsOf(t)
    BY <1>1 DEF RowsOf
  <2> QED BY <1>5, <2>1, <2>2 DEF Covers
<1> QED BY <1>0, <1>5, <1>6, <1>7, <1>8, OneJobMoves DEF JobGood

\* An eviction leaves the plan when the row has left the batch.
LEMMA EvictJob ==
    ASSUME IndInv, TableStep, ChainKept, NEW a \in Actors, NEW b \in Blobs, NEW s \in TerminalState,
           Evict(a, b, s)
    PROVE  JobType' /\ JobShape' /\ PlansTrue' /\ PreparationCovers'
<1> DEFINE rest == job[a].plan \ {<<b, s>>}
<1>0. /\ TypeOK /\ TablesType /\ JobType /\ ClaimsExact /\ JobOK(a) /\ PlanTrue(a)
      /\ job[a].at \in {"check", "build", "fail"} /\ (a \in Batches => Covers(a))
  BY TypeParts DEF IndInv, Evict, JobShape, PlansTrue, PreparationCovers
<1>1. /\ job[a].batch \in Batches /\ batch[job[a].batch].state # "unused"
      /\ a \in Batches => job[a].batch = a
  BY <1>0 DEF JobOK
<1>2. /\ JobType'
      /\ job'[a] = [job[a] EXCEPT !.plan = rest]
      /\ \A x \in Actors : x # a => job'[x] = job[x]
  BY <1>0 DEF Evict, JobType, Job
<1>3. /\ job'[a].at = job[a].at /\ job'[a].batch = job[a].batch
      /\ job'[a].got = job[a].got /\ job'[a].plan = rest
  BY <1>0, <1>2 DEF JobType, Job
<1>4. batch'[job[a].batch].state # "unused"
  BY <1>0, <1>1, RowsShrink
<1>5. JobOK(a)'
  BY <1>0, <1>3, <1>4 DEF JobOK
<1>6. PlanTrue(a)'
  <2>1. ASSUME NEW p \in rest PROVE Says(p[1], p[2])'
    <3>1. p[1] \in Blobs /\ Says(p[1], p[2])
      BY <1>0 DEF PlanTrue, JobType, Job
    <3> QED BY <3>1, SaysStays
  <2> QED BY <1>3, <2>1 DEF PlanTrue
<1>7. ASSUME a \in Batches PROVE Covers(a)'
  <2>1. /\ RowsOf(a)' \subseteq RowsOf(a)
        /\ \A c \in RowsOf(a)' : row[c].id => row'[c].id
    BY <1>0, <1>1, <1>7, RowsShrink
  <2>2. b \notin RowsOf(a)'
    <3>1. evict_claimed_blob(a, b, s)
      BY <1>1, <1>7 DEF Evict
    <3>2. CASE row[b].state = "deleting" /\ row[b].batch = a
      <4>1. row' = [row EXCEPT ![b].state = s, ![b].batch = NoBatch]
        BY <3>1, <3>2 DEF evict_claimed_blob
      <4>2. row'[b].batch = NoBatch
        BY <1>0, <4>1 DEF TablesType, Row
      <4> QED BY <1>7, <4>2, NameAssumption DEF RowsOf
    <3>3. CASE ~(row[b].state = "deleting" /\ row[b].batch = a)
      BY <2>1, <3>3 DEF RowsOf
    <3> QED BY <3>2, <3>3
  <2>3. ASSUME NEW c, c # b, c \in First(job[a].plan) PROVE c \in First(rest)
    BY <2>3 DEF First
  <2> QED BY <1>0, <1>3, <1>7, <2>1, <2>2, <2>3 DEF Covers
<1> QED BY <1>2, <1>5, <1>6, <1>7, OneJobMoves DEF JobGood

\* The failure of a batch is examined by its handler or by a reconciler.
LEMMA ExamineJob ==
    ASSUME IndInv, TableStep, ChainKept, NEW a \in Actors, NEW t \in Batches, ExamineFailure(a, t)
    PROVE  JobType' /\ JobShape' /\ PlansTrue' /\ PreparationCovers'
<1> DEFINE verdict(b) == IF a \in Reconcilers THEN terminal_state(b) ELSE Verdict(b)
           named == {b \in RowsOf(t) \cap suspects[t] : row[b].id /\ verdict(b) # "live"}
<1>0. TypeOK /\ JobType /\ JobOK(a) /\ ClaimsExact
  BY TypeParts DEF IndInv, JobShape
<1>1. PICK read \in {named, IF a \in Reconcilers THEN named ELSE {}} :
        job' = [job EXCEPT ![a] = [at |-> "fail", batch |-> t, got |-> {},
                                   plan |-> {<<b, verdict(b)>> : b \in read}]]
  BY DEF ExamineFailure
<1> DEFINE plan == {<<b, verdict(b)>> : b \in read}
<1>2. read \subseteq named
  OBVIOUS
<1>3. ASSUME NEW b \in named
      PROVE  b \in Blobs /\ verdict(b) \in TerminalState /\ Says(b, verdict(b))
  BY <1>0, VerdictTrue DEF RowsOf
<1> HIDE DEF verdict, named
<1>4. plan \in SUBSET (Blobs \X TerminalState)
  BY <1>2, <1>3
<1>5. ASSUME NEW p \in plan PROVE p[1] \in Blobs /\ Says(p[1], p[2])
  <2>1. PICK b \in read : p = <<b, verdict(b)>>
    OBVIOUS
  <2>2. p[1] = b /\ p[2] = verdict(b)
    BY <2>1
  <2> QED BY <1>2, <1>3, <2>2
<1>6. /\ a \in Batches => a = t
      /\ batch[t].state # "unused"
  BY <1>0, NameAssumption DEF ExamineFailure, Learns, JobOK
<1> HIDE DEF plan
<1>7. /\ JobType' /\ job'[a] = [at |-> "fail", batch |-> t, got |-> {}, plan |-> plan]
      /\ \A x \in Actors : x # a => job'[x] = job[x]
  BY <1>0, <1>1, <1>4 DEF JobType, Job, Inputs, plan
<1>8. JobOK(a)'
  BY <1>0, <1>6, <1>7, RowsShrink DEF JobOK
<1>9. PlanTrue(a)' /\ Covers(a)'
  BY <1>5, <1>7, SaysStays DEF PlanTrue, Covers
<1> QED BY <1>7, <1>8, <1>9, OneJobMoves DEF JobGood

\* A stale input that the owner no longer holds is to be evicted.
LEMMA StaleJob ==
    ASSUME IndInv, TableStep, ChainKept, NEW a \in Actors, Stale(a)
    PROVE  JobType' /\ JobShape' /\ PlansTrue' /\ PreparationCovers'
<1> DEFINE lost == stale_inputs(job[a].batch) \ Owned
           plan == {<<b, Verdict(b)>> : b \in lost}
<1>0. TypeOK /\ job[a].at = "fresh" /\ JobOK(a)
  BY DEF IndInv, Stale, JobShape
<1>1. CASE Continue(a, "fail", {}, {})
  BY <1>0, <1>1, JobContinues
<1>2. CASE Continue(a, "fail", plan, {})
  <2>1. job[a].batch \in Batches
    BY <1>0 DEF JobOK
  <2>2. lost \subseteq Blobs
    BY <1>0, <2>1 DEF stale_inputs, TypeOK, Batch, Inputs
  <2>3. ASSUME NEW b \in lost
        PROVE  b \in Blobs /\ Verdict(b) \in TerminalState /\ Says(b, Verdict(b))
    BY <1>0, <2>2, VerdictTrue
  <2> HIDE DEF lost
  <2>4. plan \in SUBSET (Blobs \X TerminalState)
    BY <2>3
  <2>5. ASSUME NEW p \in plan PROVE Says(p[1], p[2])
    <3>1. PICK b \in lost : p = <<b, Verdict(b)>>
      OBVIOUS
    <3>2. p[1] = b /\ p[2] = Verdict(b)
      BY <3>1
    <3> QED BY <2>3, <3>2
  <2> HIDE DEF plan
  <2> QED BY <1>0, <1>2, <2>4, <2>5, JobContinues
<1> QED BY <1>1, <1>2 DEF Stale

\* A sweep plans what the chain says, and drops what it has marked.
LEMMA SweepJob ==
    ASSUME IndInv, TableStep, ChainKept, NEW r \in Reconcilers,
           \/ run_sweep_page(r)
           \/ \E b \in Blobs, s \in TerminalState : sweep_mark_external(r, b, s)
    PROVE  JobType' /\ JobShape' /\ PlansTrue' /\ PreparationCovers'
<1>0. TypeOK /\ JobType /\ JobOK(r) /\ PlanTrue(r) /\ r \in Actors /\ r \notin Batches
  BY TypeParts, NameAssumption DEF IndInv, JobShape, PlansTrue, Actors
<1>1. ASSUME NEW plan \in SUBSET (Blobs \X TerminalState), Continue(r, "sweep", plan, {}),
             \A p \in plan : Says(p[1], p[2])
      PROVE  JobType' /\ JobShape' /\ PlansTrue' /\ PreparationCovers'
  <2>1. /\ JobType'
        /\ job'[r] = [at |-> "sweep", batch |-> job[r].batch, plan |-> plan, got |-> {}]
        /\ \A x \in Actors : x # r => job'[x] = job[x]
    BY <1>0, <1>1 DEF JobType, Continue, Job, Inputs
  <2>2. JobOK(r)'
    BY <1>0, <2>1 DEF JobOK
  <2>3. PlanTrue(r)'
    BY <1>1, <2>1, SaysStays DEF PlanTrue
  <2> QED BY <1>0, <2>1, <2>2, <2>3, OneJobMoves DEF JobGood
<1>2. CASE run_sweep_page(r)
  <2> DEFINE found == {b \in Deletable : row[b].id /\ terminal_state(b) # "live"}
             plan == {<<b, terminal_state(b)>> : b \in found}
  <2>1. Continue(r, "sweep", plan, {})
    BY <1>2 DEF run_sweep_page
  <2>2. ASSUME NEW b \in found
        PROVE  b \in Blobs /\ terminal_state(b) \in TerminalState /\ Says(b, terminal_state(b))
    BY <1>0, VerdictTrue DEF Deletable
  <2> HIDE DEF found
  <2>3. plan \in SUBSET (Blobs \X TerminalState)
    BY <2>2
  <2>4. ASSUME NEW p \in plan PROVE Says(p[1], p[2])
    <3>1. PICK b \in found : p = <<b, terminal_state(b)>>
      OBVIOUS
    <3>2. p[1] = b /\ p[2] = terminal_state(b)
      BY <3>1
    <3> QED BY <2>2, <3>2
  <2> HIDE DEF plan
  <2> QED BY <1>1, <2>1, <2>3, <2>4
<1>3. ASSUME NEW b \in Blobs, NEW s \in TerminalState, sweep_mark_external(r, b, s)
      PROVE  JobType' /\ JobShape' /\ PlansTrue' /\ PreparationCovers'
  <2> DEFINE rest == job[r].plan \ {<<b, s>>}
  <2>1. CASE Return(r)
    BY <1>0, <2>1, JobReturns
  <2>2. CASE Continue(r, "sweep", rest, {})
    <3>1. rest \in SUBSET (Blobs \X TerminalState)
      BY <1>0 DEF JobType, Job
    <3>2. \A p \in rest : Says(p[1], p[2])
      BY <1>0 DEF PlanTrue
    <3> HIDE DEF rest
    <3> QED BY <1>1, <2>2, <3>1, <3>2
  <2> QED BY <1>3, <2>1, <2>2 DEF sweep_mark_external
<1> QED BY <1>2, <1>3

\* The jobs stay good in every step.
LEMMA JobsStep ==
    ASSUME IndInv, Next, TableStep, ChainKept
    PROVE  JobType' /\ JobShape' /\ PlansTrue' /\ PreparationCovers'
<1> DEFINE Good == JobType' /\ JobShape' /\ PlansTrue' /\ PreparationCovers'
<1>0. TypeOK /\ JobType /\ JobShape /\ BatchShape /\ ClaimsExact
  BY TypeParts DEF IndInv
<1>1. ASSUME UNCHANGED job PROVE Good
  <2>1. ASSUME NEW x \in Actors PROVE JobGood(x)'
    BY <1>1, JobStays
  <2>2. JobType'
    BY <1>0, <1>1 DEF JobType
  <2> QED BY <2>1, <2>2 DEF JobGood, JobShape, PlansTrue, PreparationCovers, Actors
<1>2. Batches \subseteq Actors /\ Reconcilers \subseteq Actors
  BY DEF Actors
<1>3. ASSUME NEW a \in Actors, NEW at \in {"fresh", "await", "fail"}, Continue(a, at, {}, {}),
             job[a].at \in {"fresh", "await", "absent"},
             at = "fresh" => job[a].at = "absent"
      PROVE  Good
  <2>1. at = "fresh" => batch[job[a].batch].inputs # {}
    BY <1>0, <1>3 DEF JobShape, JobOK
  <2> QED BY <1>3, <2>1, JobContinues
<1>4. ASSUME NEW t \in Batches, Submit(t) PROVE Good
  <2>1. /\ JobType'
        /\ job'[t] = [at |-> "fresh", batch |-> t, plan |-> {}, got |-> {}]
        /\ \A x \in Actors : x # t => job'[x] = job[x]
    BY <1>0, <1>2, <1>4 DEF Submit, Idle, JobType, Job, Inputs
  <2>2. batch'[t].state # "unused" /\ batch'[t].inputs # {}
    BY <1>0, <1>4, InputsKept, RowsShrink DEF Submit
  <2>3. JobGood(t)'
    BY <2>1, <2>2 DEF JobGood, JobOK, PlanTrue, Covers
  <2> QED BY <1>2, <2>1, <2>3, OneJobMoves
<1>5. ASSUME NEW t \in Batches, Handler(t) PROVE Good
  <2>1. t \in Actors
    BY <1>2
  <2>2. ASSUME Build(t) \/ PrepareFails(t) PROVE Return(t)
    BY <2>2 DEF Build, PrepareFails
  <2>3. ASSUME cancel_deletion(t) PROVE UNCHANGED job
    BY <2>3 DEF cancel_deletion
  <2>4. ASSUME FreshnessUnread(t) \/ Rejected(t)
        PROVE  Continue(t, "fail", {}, {}) /\ job[t].at \in {"fresh", "await", "absent"}
    BY <2>4 DEF FreshnessUnread, Rejected
  <2>5. ASSUME FreshnessUnread(t) \/ Rejected(t) PROVE Good
    BY <1>3, <2>1, <2>4, <2>5
  <2>6. ASSUME Build(t) \/ PrepareFails(t) PROVE Good
    BY <2>1, <2>2, <2>6, JobReturns
  <2>7. ASSUME CheckObjects(t) \/ resolve_claimed_object_ids(t) PROVE Good
    BY <2>7, CheckJob, ResolveIdsJob
  <2>8. ASSUME NEW S \in SUBSET Blobs, Claim(t, S) PROVE Good
    BY <2>8, ClaimJob
  <2> HIDE DEF Good
  <2> QED BY <1>1, <1>4, <1>5, <2>3, <2>5, <2>6, <2>7, <2>8 DEF Handler
<1>6. ASSUME NEW a \in Actors, Execution(a) PROVE Good
  <2>1. ASSUME FreshThenExecute(a) PROVE Good
    <3>1. Continue(a, "await", {}, {}) /\ job[a].at = "fresh"
      BY <2>1 DEF FreshThenExecute
    <3> QED BY <1>3, <3>1
  <2>2. ASSUME Stale(a) PROVE Good
    BY <2>2, StaleJob
  <2>3. ASSUME NEW t \in Batches, Settle(a, t) PROVE Good
    BY <2>3, JobReturns DEF Settle
  <2>4. ASSUME NEW t \in Batches, ExamineFailure(a, t) PROVE Good
    BY <2>4, ExamineJob
  <2>5. ASSUME NEW b \in Blobs, NEW s \in TerminalState, Evict(a, b, s) PROVE Good
    BY <2>5, EvictJob
  <2>6. ASSUME Fail(a) \/ Abandon(a) PROVE Good
    BY <2>6, JobReturns DEF Fail, Abandon
  <2> HIDE DEF Good
  <2> QED BY <1>6, <2>1, <2>2, <2>3, <2>4, <2>5, <2>6 DEF Execution
<1>7. ASSUME NEW r \in Reconcilers, Reconciler(r) PROVE Good
  <2>1. r \in Actors /\ r \notin Batches
    BY <1>2, NameAssumption
  <2>2. ASSUME NEW t \in Batches, ReconcileAwaiting(r, t) PROVE Good
    BY <1>1, <2>2 DEF ReconcileAwaiting
  <2>3. ASSUME NEW t \in Batches, ReconcileExecuting(r, t) PROVE Good
    <3>1. /\ JobType'
          /\ job'[r] = [at |-> "absent", batch |-> t, plan |-> {}, got |-> {}]
          /\ \A x \in Actors : x # r => job'[x] = job[x]
      BY <1>0, <2>1, <2>3 DEF ReconcileExecuting, Idle, JobType, Job, Inputs
    <3>2. batch[t].inputs # {} /\ batch[t].state # "unused"
      BY <1>0, <2>3 DEF ReconcileExecuting, BatchShape, BatchOK
    <3>3. batch'[t].state # "unused" /\ batch'[t].inputs # {}
      BY <1>0, <3>2, InputsKept, RowsShrink
    <3>4. JobGood(r)'
      BY <2>1, <3>1, <3>3 DEF JobGood, JobOK, PlanTrue
    <3> QED BY <2>1, <3>1, <3>4, OneJobMoves
  <2>4. ASSUME RetryOrExpire(r) PROVE Good
    <3>1. job[r].at = "absent" /\ (\/ Continue(r, "fail", {}, {}) \/ Continue(r, "fresh", {}, {})
                                   \/ Return(r))
      BY <2>4 DEF RetryOrExpire
    <3>2. CASE Return(r)
      BY <2>1, <3>2, JobReturns
    <3>3. CASE Continue(r, "fail", {}, {})
      BY <1>3, <2>1, <3>1, <3>3
    <3>4. CASE Continue(r, "fresh", {}, {})
      BY <1>3, <2>1, <3>1, <3>4
    <3> QED BY <3>1, <3>2, <3>3, <3>4
  <2>5. ASSUME run_sweep_page(r) PROVE Good
    BY <2>5, SweepJob
  <2>6. ASSUME NEW b \in Blobs, NEW s \in TerminalState, sweep_mark_external(r, b, s) PROVE Good
    BY <2>6, SweepJob
  <2> HIDE DEF Good
  <2> QED BY <1>7, <2>2, <2>3, <2>4, <2>5, <2>6 DEF Reconciler
<1>8. ASSUME Resolver \/ Environment \/ (\E b \in Blobs : InsertEntry(b) \/ CommitEntry(b))
      PROVE  Good
  <2>1. UNCHANGED job
    BY <1>8 DEF Resolver, ResolverStart, ResolverPage, complete_resolver_scan, ResolverStops,
                Environment, TxSucceeds, TxFails, ObjectChanges, ClockAdvances, InsertEntry,
                CommitEntry
  <2> QED BY <1>1, <2>1
<1> HIDE DEF Good
<1>9. Good
  BY <1>5, <1>6, <1>7, <1>8 DEF Next
<1> QED BY <1>9 DEF Good

-------------------------------------------------------------------------------
(* The scan.                                                               *)

\* Deletable, without an object id, and never claimed.
Unseen(b) == /\ row[b].state = "deletable" /\ ~row[b].id
             /\ \A t \in Batches : member[t][b] = "none"

\* A tracked row is unseen only if it was: ids, claims and terminal states stay.
LEMMA UnseenBefore ==
    ASSUME TypeOK, ClaimsExact, BatchShape, TableStep, NEW b \in Blobs,
           row[b].state \notin {"untracked", "inserting"}
    PROVE  /\ Unseen(b)' => Unseen(b)
           /\ row'[b].state \notin {"untracked", "inserting"}
<1>1. row'[b].state \notin {"untracked", "inserting"}
  BY DEF TableStep, tables, Marked, RolledBack, Released, Evicted, Claimed, Prepared, Submitted,
         TerminalState
<1>2. ASSUME Unseen(b)' PROVE Unseen(b)
  <2>1. ASSUME NEW t \in Batches PROVE member[t][b] = "none"
    BY <1>2 DEF Unseen, TableStep, tables, Marked, RolledBack, Released, Evicted, Claimed,
                Prepared, Submitted, BatchShape, BatchOK, TerminalState
  <2>2. row[b].state # "deleting"
    BY <2>1 DEF ClaimsExact, TypeOK, Row
  <2>3. row[b].state = "deletable"
    BY <1>2, <2>2, FinalStep DEF Unseen, TypeOK, Row, RowState
  <2>4. row[b].id => row'[b].id
    BY <2>2 DEF TableStep, tables, Marked, RolledBack, Released, Evicted, Claimed, Prepared,
                Submitted
  <2> QED BY <1>2, <2>1, <2>3, <2>4 DEF Unseen
<1> QED BY <1>1, <1>2

\* The scan never passes over a blob the owner holds.
LEMMA ScanStep ==
    ASSUME IndInv, Next, TableStep, ChainKept
    PROVE  ScanTrue'
<1>0. /\ TypeOK /\ ClaimsExact /\ BatchShape /\ ScanTrue
      /\ checkpoint.fence \subseteq Blobs /\ checkpoint.page \in 1 .. LastPage
      /\ checkpoint \in Checkpoint
  BY DEF IndInv, TypeOK, Checkpoint
<1>1. ASSUME NEW b \in checkpoint.fence
      PROVE  /\ Unseen(b)' => Unseen(b)
             /\ row'[b].state \notin {"untracked", "inserting"}
  BY <1>0, UnseenBefore DEF ScanTrue
<1>2. ASSUME NEW b \in Blobs, b \in checkpoint.fence, Unseen(b),
             scan = "complete" \/ Page[b] < checkpoint.page
      PROVE  holder'[b] # "owner"
  BY <1>0, <1>2 DEF ScanTrue, Missed, Unseen, ChainKept
<1>3. ASSUME checkpoint'.fence = checkpoint.fence, checkpoint'.page = checkpoint.page,
             checkpoint'.started = checkpoint.started,
             scan' = scan \/ (scan' = "list" /\ checkpoint.started) \/ scan' = "idle"
      PROVE  ScanTrue'
  <2>1. \A b \in checkpoint'.fence : row'[b].state \notin {"untracked", "inserting"}
    BY <1>1, <1>3
  <2>2. ASSUME NEW b \in Blobs, Missed(b)' PROVE holder'[b] # "owner"
    BY <1>1, <1>2, <1>3, <2>2 DEF Missed, Unseen
  <2>3. ~checkpoint'.started => checkpoint'.page = 1 /\ scan' = "idle"
    BY <1>0, <1>3 DEF ScanTrue
  <2>4. scan' = "complete" => checkpoint'.page = 1
    BY <1>0, <1>3 DEF ScanTrue
  <2> QED BY <2>1, <2>2, <2>3, <2>4 DEF ScanTrue
<1>4. ASSUME ResolverStart PROVE ScanTrue'
  <2> DEFINE fresh == ~checkpoint.started \/ (checkpoint.page = 1 /\ checkpoint.done)
  <2>1. CASE fresh
    <3>1. /\ \A b \in Blobs : row[b].state # "inserting"
          /\ checkpoint' = [checkpoint EXCEPT !.fence = Sequenced, !.started = TRUE]
          /\ scan' = "list" /\ UNCHANGED row
      BY <1>4, <2>1 DEF ResolverStart, tables
    <3>2. /\ checkpoint'.fence = Sequenced /\ checkpoint'.started = TRUE
          /\ checkpoint'.page = 1
      BY <1>0, <2>1, <3>1 DEF Checkpoint, ScanTrue
    <3>3. \A b \in Sequenced : row'[b].state \notin {"untracked", "inserting"}
      BY <3>1 DEF Sequenced
    <3>4. ASSUME NEW b \in Blobs PROVE ~(Page[b] < 1)
      BY NumberAssumption
    <3> QED BY <3>1, <3>2, <3>3, <3>4 DEF ScanTrue, Missed
  <2>2. CASE ~fresh
    <3>1. checkpoint' = checkpoint /\ scan' = "list" /\ checkpoint.started
      BY <1>4, <2>2 DEF ResolverStart
    <3> QED BY <1>3, <3>1
  <2> QED BY <2>1, <2>2
<1>5. ASSUME ResolverPage PROVE ScanTrue'
  <2>1. /\ scan = "list" /\ UNCHANGED <<member, holder>>
        /\ row' = [b \in Blobs |-> IF b \in Deletable \cap Owned /\ Page[b] = checkpoint.page
                                   THEN [row[b] EXCEPT !.id = TRUE] ELSE row[b]]
        /\ checkpoint' = [checkpoint EXCEPT !.page = IF checkpoint.page = LastPage THEN 1
                                                     ELSE checkpoint.page + 1]
        /\ scan' = IF checkpoint.page = LastPage THEN "complete" ELSE "list"
    BY <1>5 DEF ResolverPage, objects
  <2>2. /\ checkpoint'.fence = checkpoint.fence /\ checkpoint'.started = checkpoint.started
        /\ checkpoint'.page = IF checkpoint.page = LastPage THEN 1 ELSE checkpoint.page + 1
    BY <1>0, <2>1 DEF Checkpoint
  <2>3. \A b \in checkpoint'.fence : row'[b].state \notin {"untracked", "inserting"}
    BY <1>1, <2>2
  <2>4. ASSUME NEW b \in Blobs, Missed(b)' PROVE holder'[b] # "owner"
    <3>1. b \in checkpoint.fence /\ Unseen(b)' /\ Unseen(b)
      BY <1>1, <2>2, <2>4 DEF Missed, Unseen
    <3>2. Page[b] \in 1 .. LastPage /\ Page[b] <= checkpoint.page
      BY <1>0, <2>1, <2>2, <2>4, NumberAssumption DEF Missed
    <3>3. CASE Page[b] < checkpoint.page
      BY <1>2, <3>1, <3>3
    <3>4. CASE Page[b] = checkpoint.page
      <4>1. ~row'[b].id /\ b \in Deletable
        BY <3>1 DEF Unseen, Deletable
      <4>2. b \notin Owned
        BY <1>0, <2>1, <3>4, <4>1 DEF TypeOK, Row
      <4> QED BY <2>1, <4>2 DEF Owned
    <3> QED BY <1>0, <3>2, <3>3, <3>4
  <2>5. checkpoint.started
    BY <1>0, <2>1 DEF ScanTrue
  <2> QED BY <2>1, <2>2, <2>3, <2>4, <2>5 DEF ScanTrue
<1>6. ASSUME complete_resolver_scan PROVE ScanTrue'
  <2>1. scan' = "idle" /\ \E saved : checkpoint' = [checkpoint EXCEPT !.done = saved]
    BY <1>6 DEF complete_resolver_scan
  <2>2. /\ checkpoint'.fence = checkpoint.fence /\ checkpoint'.page = checkpoint.page
        /\ checkpoint'.started = checkpoint.started
    BY <1>0, <2>1 DEF Checkpoint
  <2> QED BY <1>3, <2>1, <2>2
<1>7. ASSUME ResolverStops PROVE ScanTrue'
  BY <1>3, <1>7 DEF ResolverStops
<1>8. ASSUME UNCHANGED <<checkpoint, scan>> PROVE ScanTrue'
  BY <1>3, <1>8
<1>9. CASE \E b \in Blobs : InsertEntry(b) \/ CommitEntry(b)
  BY <1>8, <1>9 DEF InsertEntry, CommitEntry, resolver
<1>10. ASSUME NEW t \in Batches, Handler(t) PROVE UNCHANGED <<checkpoint, scan>>
  BY <1>10 DEF Handler, Claim, resolve_claimed_object_ids, CheckObjects, Build, PrepareFails,
               cancel_deletion, Submit, FreshnessUnread, Rejected, resolver
<1>11. ASSUME NEW a \in Actors, Execution(a) PROVE UNCHANGED <<checkpoint, scan>>
  BY <1>11 DEF Execution, FreshThenExecute, Stale, Settle, ExamineFailure, Evict, Fail, Abandon,
               resolver
<1>12. ASSUME NEW r \in Reconcilers, Reconciler(r) PROVE UNCHANGED <<checkpoint, scan>>
  BY <1>12 DEF Reconciler, ReconcileAwaiting, ReconcileExecuting, RetryOrExpire, run_sweep_page,
               sweep_mark_external, resolver
<1>13. ASSUME Environment PROVE UNCHANGED <<checkpoint, scan>>
  BY <1>13 DEF Environment, TxSucceeds, TxFails, ObjectChanges, ClockAdvances, resolver
<1>14. CASE Resolver
  BY <1>4, <1>5, <1>6, <1>7, <1>14 DEF Resolver
<1> QED BY <1>8, <1>9, <1>10, <1>11, <1>12, <1>13, <1>14 DEF Next

-------------------------------------------------------------------------------
(* The theorems.                                                           *)

\* The first state satisfies the inductive invariant.
LEMMA InitInv == Init => IndInv
<1> SUFFICES ASSUME Init PROVE IndInv
  OBVIOUS
<1>0. /\ Known[enabled] \subseteq Tracked /\ Tracked \subseteq Blobs /\ 1 \in 1 .. LastPage
      /\ completed = Known[enabled] /\ completed \subseteq Blobs
  BY NameAssumption, NumberAssumption DEF Init
<1>1. TypeOK
  <2>1. row \in [Blobs -> Row]
    BY DEF Init, Row, RowState
  <2>2. batch \in [Batches -> Batch]
    BY DEF Init, Batch, Inputs
  <2>3. member \in [Batches -> [Blobs -> Outcome]]
    BY DEF Init, Outcome
  <2>4. job \in [Actors -> Job]
    BY DEF Init, Job, Idle, Inputs
  <2>5. checkpoint \in Checkpoint
    BY <1>0 DEF Init, Checkpoint
  <2> QED BY <1>0, <2>1, <2>2, <2>3, <2>4, <2>5 DEF TypeOK, Init, Scan
<1>2. \A a \in Actors : job[a] = [at |-> "idle", batch |-> NoBatch, plan |-> {}, got |-> {}]
  BY DEF Init, Idle
<1>3. JobShape /\ PlansTrue /\ PreparationCovers
  BY <1>2 DEF JobShape, JobOK, PlansTrue, PlanTrue, PreparationCovers, Covers, Actors
<1>4. \A b \in Blobs : row[b].batch = NoBatch /\ row[b].state \in {"deletable", "untracked"}
  BY DEF Init
<1>5. \A t \in Batches : /\ batch[t].state = "unused" /\ batch[t].inputs = {}
                         /\ outcome[t] = "none" /\ t \notin sent
                         /\ \A b \in Blobs : member[t][b] = "none"
  BY DEF Init
<1>6. BatchShape /\ ClaimsExact /\ EffectsTrue /\ TxCoversClaims
  BY <1>4, <1>5 DEF BatchShape, BatchOK, LedgerOK, ClaimsExact, EffectsTrue, TxCoversClaims
<1>7. TerminalIsTrue /\ UnclaimedNotOwnerConfirmed
  BY <1>4, <1>5 DEF TerminalIsTrue, UnclaimedNotOwnerConfirmed
<1>8. ScanTrue
  <2>1. /\ checkpoint.fence = Known[enabled] /\ checkpoint.page = 1 /\ scan = "idle"
    BY DEF Init
  <2>2. \A b \in Known[enabled] : row[b].state = "deletable"
    BY <1>0 DEF Init
  <2>3. \A b \in Blobs : ~(Page[b] < 1)
    BY NumberAssumption
  <2> QED BY <2>1, <2>2, <2>3 DEF ScanTrue, Missed
<1> QED BY <1>1, <1>3, <1>6, <1>7, <1>8 DEF IndInv

\* Every step preserves it.
LEMMA StepInv == IndInv /\ [Next]_vars => IndInv'
<1> SUFFICES ASSUME IndInv, [Next]_vars PROVE IndInv'
  OBVIOUS
<1>1. CASE Next
  <2>0. /\ TypeOK /\ JobShape /\ BatchShape /\ ClaimsExact /\ PlansTrue /\ EffectsTrue
        /\ PreparationCovers /\ TxCoversClaims /\ TerminalIsTrue
        /\ ScanTrue /\ UnclaimedNotOwnerConfirmed
    BY DEF IndInv
  <2>1. TablesType' /\ TableStep
    BY <1>1, TablesStep
  <2>2. RestType' /\ ChainKept
    BY <1>1, ChainStep
  <2>3. JobType' /\ JobShape' /\ PlansTrue' /\ PreparationCovers'
    BY <1>1, <2>1, <2>2, JobsStep
  <2>4. TypeOK'
    BY <2>1, <2>2, <2>3 DEF TablesType, JobType, RestType, TypeOK
  <2>5. BatchShape' /\ ClaimsExact' /\ EffectsTrue' /\ TxCoversClaims'
    BY <2>0, <2>1, <2>2, BatchShapeStep, ClaimsStep, EffectsStep, CoversStep
  <2>6. TerminalIsTrue'
    BY <2>0, <2>1, <2>2, TerminalStep
  <2>7. UnclaimedNotOwnerConfirmed'
    BY <2>0, <2>1, <2>2, UnclaimedStep
  <2>8. ScanTrue'
    BY <1>1, <2>1, <2>2, ScanStep
  <2> QED BY <2>3, <2>4, <2>5, <2>6, <2>7, <2>8 DEF IndInv
<1>2. CASE UNCHANGED vars
  <2>1. /\ UNCHANGED <<row, batch, member, job, enabled, checkpoint, completed, scan>>
        /\ UNCHANGED <<holder, version, sent, outcome, suspects, epoch, package, lapsed, changes>>
    BY <1>2 DEF vars, tables, resolver, objects, ledger, clocks
  <2>2. TypeOK' /\ BatchShape' /\ ClaimsExact' /\ EffectsTrue' /\ TxCoversClaims'
    BY <2>1 DEF IndInv, TypeOK, BatchShape, BatchOK, LedgerOK, ClaimsExact, EffectsTrue, InputsOf,
                TxCoversClaims, RowsOf
  <2>3. TerminalIsTrue' /\ UnclaimedNotOwnerConfirmed' /\ ScanTrue'
    BY <2>1 DEF IndInv, TerminalIsTrue, UnclaimedNotOwnerConfirmed, ScanTrue, Missed, InputsOf
  <2>4. JobShape' /\ PlansTrue' /\ PreparationCovers'
    BY <2>1 DEF IndInv, JobShape, JobOK, PlansTrue, PlanTrue, Says, PreparationCovers, Covers,
                RowsOf
  <2> QED BY <2>2, <2>3, <2>4 DEF IndInv
<1> QED BY <1>1, <1>2

\* The inductive invariant holds of every behaviour of the handlers, the
\* reconcilers, the resolver and the chain.
THEOREM Inductive == Spec => []IndInv
BY InitInv, StepInv, PTL DEF Spec

\* The tables, jobs and chain stay typed: a scan's cursor never leaves the pages.
THEOREM TypeCorrect == Spec => []TypeOK
<1>1. IndInv => TypeOK
  BY DEF IndInv
<1> QED BY <1>1, Inductive, PTL

\* A row is in deletion for a batch exactly when that batch holds a live claim
\* on it (create_batch_and_claim, evict_claimed_blob, rollback, finalize).
THEOREM ClaimsCorrect == Spec => []ClaimsExact
<1>1. IndInv => ClaimsExact
  BY DEF IndInv
<1> QED BY <1>1, Inductive, PTL

\* The stored transaction deletes every blob its batch holds (prepare_deletion).
THEOREM CoversCorrect == Spec => []TxCoversClaims
<1>1. IndInv => TxCoversClaims
  BY DEF IndInv
<1> QED BY <1>1, Inductive, PTL

\* What a row or a claim ended as is true of the chain.
THEOREM TerminalCorrect == Spec => []TerminalIsTrue
<1>1. IndInv => TerminalIsTrue
  BY DEF IndInv
<1> QED BY <1>1, Inductive, PTL

\* The resolver's scan gives up no unclaimed blob the owner holds.
THEOREM UnclaimedCorrect == Spec => []UnclaimedNotOwnerConfirmed
<1>1. IndInv => UnclaimedNotOwnerConfirmed
  BY DEF IndInv
<1> QED BY <1>1, Inductive, PTL

\* Terminal rows, resolved batches and resolved claims are never rewritten.
THEOREM ResolvedFinal == Spec => ResolvedIsFinal
<1> DEFINE Final ==
      /\ \A b \in Blobs : row[b].state \in TerminalState => row'[b].state = row[b].state
      /\ \A t \in Batches : batch[t].state \in ResolvedState => batch'[t] = batch[t]
      /\ \A t \in Batches, b \in Blobs :
           member[t][b] \notin {"none", "claimed"} => member'[t][b] = member[t][b]
<1>1. ASSUME IndInv, [Next]_vars PROVE [Final]_vars
  <2>1. CASE Next
    <3>1. TableStep
      BY <1>1, <2>1, TablesStep
    <3> QED BY <1>1, <3>1, FinalStep DEF IndInv
  <2> QED BY <1>1, <2>1
<1> QED BY <1>1, Inductive, PTL DEF Spec, ResolvedIsFinal
-------------------------------------------------------------------------------
(* The refinement of DeletionLedger.  Besides IndInv it needs to know that    *)
(* a transaction holds nothing its batch did not claim (ScopeTrue).           *)

ScopeTrue ==
    \A t \in Batches : /\ \A p \in job[t].got : member[t][p[1]] # "none"
                       /\ \A p \in batch[t].inputs : member[t][p[1]] # "none"

\* A claim that was made is never forgotten.
LEMMA MembersStay ==
    ASSUME BatchShape, TableStep, NEW t \in Batches, NEW b \in Blobs, member[t][b] # "none"
    PROVE  member'[t][b] # "none"
BY DEF TableStep, tables, Marked, RolledBack, Released, Evicted, Claimed, Prepared, Submitted,
       BatchShape, BatchOK, TerminalState

\* A handler reads the objects of the rows its batch holds at that moment.
LEMMA GotStep ==
    ASSUME IndInv, Next, NEW t \in Batches
    PROVE  job'[t].got \subseteq job[t].got \cup {Current(b) : b \in RowsOf(t)}
<1> DEFINE Fine == job'[t].got \subseteq job[t].got \cup {Current(b) : b \in RowsOf(t)}
<1>0. JobType /\ t \in Actors /\ Reconcilers \subseteq Actors /\ Batches \subseteq Actors
  BY TypeParts DEF IndInv, Actors
<1>1. ASSUME UNCHANGED job PROVE Fine
  BY <1>1
<1>2. ASSUME NEW a \in Actors, Return(a) PROVE Fine
  BY <1>0, <1>2 DEF Return, Idle, JobType
<1>3. ASSUME NEW a \in Actors, NEW at, NEW plan, Continue(a, at, plan, {}) PROVE Fine
  BY <1>0, <1>3 DEF Continue, JobType, Job
<1>4. ASSUME CheckObjects(t) PROVE Fine
  <2>1. Continue(t, "build",
                 {<<b, terminal_state(b)>> : b \in {c \in RowsOf(t) : row[c].id}
                                                   \ {c \in {d \in RowsOf(t) : row[d].id} :
                                                        terminal_state(c) = "live"}},
                 {Current(b) : b \in {c \in {d \in RowsOf(t) : row[d].id} :
                                        terminal_state(c) = "live"}})
    BY <1>4 DEF CheckObjects
  <2>2. job'[t].got = {Current(b) : b \in {c \in {d \in RowsOf(t) : row[d].id} :
                                             terminal_state(c) = "live"}}
    BY <1>0, <2>1 DEF Continue, JobType, Job
  <2> QED BY <2>2
<1>5. ASSUME NEW u \in Batches, u # t, CheckObjects(u) PROVE Fine
  BY <1>0, <1>5 DEF CheckObjects, Continue, JobType
<1>6. ASSUME NEW u \in Batches, Handler(u) PROVE Fine
  <2>1. ASSUME NEW S \in SUBSET Blobs, Claim(u, S) PROVE Fine
    BY <1>0, <2>1 DEF Claim, Idle, JobType, Job
  <2>2. ASSUME resolve_claimed_object_ids(u) PROVE Fine
    BY <1>0, <1>3, <2>2 DEF resolve_claimed_object_ids
  <2>3. ASSUME FreshnessUnread(u) \/ Rejected(u) PROVE Fine
    BY <1>0, <1>3, <2>3 DEF FreshnessUnread, Rejected
  <2>4. ASSUME Build(u) \/ PrepareFails(u) PROVE Fine
    BY <1>0, <1>2, <2>4 DEF Build, PrepareFails
  <2>5. ASSUME cancel_deletion(u) PROVE Fine
    BY <1>1, <2>5 DEF cancel_deletion
  <2>6. ASSUME Submit(u) PROVE Fine
    BY <1>0, <2>6 DEF Submit, Idle, JobType, Job
  <2> HIDE DEF Fine
  <2> QED BY <1>4, <1>5, <1>6, <2>1, <2>2, <2>3, <2>4, <2>5, <2>6 DEF Handler
<1>7. ASSUME NEW a \in Actors, Execution(a) PROVE Fine
  <2>1. ASSUME FreshThenExecute(a) \/ Stale(a) PROVE Fine
    BY <1>3, <2>1 DEF FreshThenExecute, Stale
  <2>2. ASSUME NEW u \in Batches, Settle(a, u) PROVE Fine
    BY <1>2, <2>2 DEF Settle
  <2>3. ASSUME NEW u \in Batches, ExamineFailure(a, u) PROVE Fine
    <3>1. PICK plan : job' = [job EXCEPT ![a] = [at |-> "fail", batch |-> u, got |-> {},
                                                 plan |-> plan]]
      BY <2>3 DEF ExamineFailure
    <3> QED BY <1>0, <3>1 DEF JobType, Job
  <2>4. ASSUME NEW b \in Blobs, NEW s \in TerminalState, Evict(a, b, s) PROVE Fine
    BY <1>0, <2>4 DEF Evict, JobType, Job
  <2>5. ASSUME Fail(a) \/ Abandon(a) PROVE Fine
    BY <1>2, <2>5 DEF Fail, Abandon
  <2> HIDE DEF Fine
  <2> QED BY <1>7, <2>1, <2>2, <2>3, <2>4, <2>5 DEF Execution
<1>8. ASSUME NEW r \in Reconcilers, Reconciler(r) PROVE Fine
  <2>1. job'[t].got = job[t].got
    <3>1. r # t /\ r \in Actors
      BY <1>0, NameAssumption
    <3>2. \A x \in Actors : x # r => job'[x] = job[x]
      BY <1>0, <1>8, <3>1 DEF Reconciler, ReconcileAwaiting, ReconcileExecuting, RetryOrExpire,
            run_sweep_page, sweep_mark_external, Continue, Return, JobType
    <3> QED BY <1>0, <3>1, <3>2
  <2> QED BY <2>1
<1>9. ASSUME Resolver \/ Environment \/ (\E b \in Blobs : InsertEntry(b) \/ CommitEntry(b))
      PROVE  UNCHANGED job
  BY <1>9 DEF Resolver, ResolverStart, ResolverPage, complete_resolver_scan, ResolverStops,
              Environment, TxSucceeds, TxFails, ObjectChanges, ClockAdvances, InsertEntry,
              CommitEntry
<1> HIDE DEF Fine
<1>10. Fine
  BY <1>1, <1>6, <1>7, <1>8, <1>9 DEF Next
<1> QED BY <1>10 DEF Fine

\* ScopeTrue is kept: what is stored is what the handler read.
LEMMA ScopeStep ==
    ASSUME IndInv, ScopeTrue, Next
    PROVE  ScopeTrue'
<1>0. /\ TypeOK /\ ClaimsExact /\ BatchShape /\ TableStep
  BY TablesStep DEF IndInv
<1> SUFFICES ASSUME NEW t \in Batches
             PROVE  /\ \A p \in job'[t].got : member'[t][p[1]] # "none"
                    /\ \A p \in batch'[t].inputs : member'[t][p[1]] # "none"
  BY DEF ScopeTrue
<1>1. /\ \A p \in job[t].got : p[1] \in Blobs
      /\ \A p \in batch[t].inputs : p[1] \in Blobs
  BY <1>0 DEF TypeOK, Job, Batch, Inputs, Actors
<1>2. ASSUME NEW p \in job[t].got \cup batch[t].inputs PROVE member'[t][p[1]] # "none"
  BY <1>0, <1>1, <1>2, MembersStay DEF ScopeTrue
<1>3. ASSUME NEW p \in job'[t].got PROVE member'[t][p[1]] # "none"
  <2>1. CASE p \in job[t].got
    BY <1>2, <2>1
  <2>2. CASE p \notin job[t].got
    <3>1. PICK b \in RowsOf(t) : p = Current(b)
      BY <1>3, <2>2, GotStep
    <3>2. b \in Blobs /\ p[1] = b /\ member[t][b] = "claimed"
      BY <1>0, <3>1 DEF RowsOf, Current, ClaimsExact
    <3> QED BY <1>0, <3>2, MembersStay
  <2> QED BY <2>1, <2>2
<1>4. ASSUME NEW p \in batch'[t].inputs PROVE p \in job[t].got \cup batch[t].inputs
  <2>1. CASE batch[t].inputs # {}
    BY <1>0, <1>4, <2>1, InputsKept
  <2>2. CASE batch[t].inputs = {}
    <3>1. PICK u \in Batches, inputs \in Inputs :
            inputs \subseteq job[u].got /\ Prepared(u, inputs)
      BY <1>0, <1>4, <2>2 DEF TableStep, tables, Marked, RolledBack, Released, Evicted, Claimed,
                              Submitted
    <3> QED BY <1>4, <2>2, <3>1 DEF Prepared
  <2> QED BY <2>1, <2>2
<1> QED BY <1>2, <1>3, <1>4

\* What the abstract names of the states are.
LEMMA FateNames ==
    /\ FateOf("untracked") = "new" /\ FateOf("inserting") = "new"
    /\ FateOf("deletable") = "open" /\ FateOf("deleting") = "claimed"
    /\ FateOf("deleted") = "deleted"
    /\ \A s \in TerminalState : s # "deleted" => FateOf(s) = "closed"
BY DEF FateOf, TerminalState

\* The same of the batches.
LEMMA VerdictNames ==
    /\ VerdictOf("unused") = "unused" /\ VerdictOf("completed") = "done"
    /\ VerdictOf("awaiting_signature") = "open" /\ VerdictOf("executing") = "open"
    /\ VerdictOf("failed") = "released" /\ VerdictOf("rolled_back") = "released"
    /\ \A s : s # "unused" => VerdictOf(s) # "unused"
BY DEF VerdictOf, LiveState

Refined == Ledger!Next \/ UNCHANGED Ledger!vars

\* The abstract state, element by element.
LEMMA LedgerParts ==
    /\ \A b \in Blobs : Fate[b] = FateOf(row[b].state) /\ Fate'[b] = FateOf(row'[b].state)
    /\ \A t \in Batches : /\ Verdicts[t] = VerdictOf(batch[t].state)
                          /\ Verdicts'[t] = VerdictOf(batch'[t].state)
                          /\ Claims[t] = RowsOf(t) /\ Claims'[t] = RowsOf(t)'
                          /\ Scope[t] = {b \in Blobs : member[t][b] # "none"}
                          /\ Scope'[t] = {b \in Blobs : member'[t][b] # "none"}
BY DEF Fate, Verdicts, Claims, Scope

\* The blobs a step of the tables puts somewhere, and the batches it concerns.
LEMMA FateIs ==
    ASSUME NEW S, NEW f, \A b \in Blobs : FateOf(row'[b].state) =
                                             IF b \in S THEN f ELSE FateOf(row[b].state)
    PROVE  Ledger!Put(S, f)
BY DEF Ledger!Put, Fate

\* The trigger and the sweep: rows are tracked or closed.
LEMMA MarkedRefines ==
    ASSUME IndInv, Marked, UNCHANGED <<holder, outcome, lapsed>>
    PROVE  Refined
<1>0. TypeOK /\ ClaimsExact
  BY DEF IndInv
<1>1. UNCHANGED <<Owned, Over, Scope, Verdicts, Executed>>
  BY DEF Marked, Owned, Over, Scope, Verdicts, Executed
<1>2. \A b \in Blobs : row'[b].batch = row[b].batch
                       /\ (row'[b].state = "deleting" <=> row[b].state = "deleting")
  BY DEF Marked, TerminalState
<1>3. UNCHANGED Claims
  <2>1. \A t \in Batches : RowsOf(t)' = RowsOf(t)
    BY <1>2 DEF RowsOf
  <2> QED BY <2>1 DEF Claims
<1>4. ASSUME NEW b \in Blobs, row[b].state = "inserting", row'[b].state = "deletable",
             \A c \in Blobs : c # b => row'[c] = row[c]
      PROVE  Refined
  <2>1. Ledger!Put({b}, "open")
    BY <1>4, FateIs, FateNames
  <2>2. Fate[b] = "new"
    BY <1>4, LedgerParts, FateNames
  <2>3. Ledger!Track(b)
    BY <1>1, <1>3, <2>1, <2>2 DEF Ledger!Track
  <2> QED BY <2>3 DEF Refined, Ledger!Next
<1>5. ASSUME \A b \in Blobs : row[b].state = "inserting" => row'[b].state = "inserting"
      PROVE  Refined
  <2> DEFINE S == {b \in Blobs : row[b].state = "deletable" /\ row'[b].state \in TerminalState}
  <2>1. ASSUME NEW b \in S
        PROVE  /\ row'[b].state # "deleted"
               /\ b \notin Owned \/ b \in Over \/ \E t \in Batches : b \in Scope[t]
    <3>1. b \in Blobs /\ row'[b].state \in TerminalState /\ GivenUp(b, row'[b].state)
      BY DEF Marked, TerminalState
    <3>2. CASE Says(b, row'[b].state)
      BY <3>1, <3>2 DEF Says, TerminalState, Owned, Over
    <3>3. CASE /\ row'[b].state = "not_owner"
               /\ (\A t \in Batches : member[t][b] = "none") => holder[b] # "owner"
      BY <3>1, <3>3, LedgerParts DEF Owned
    <3> QED BY <3>1, <3>2, <3>3 DEF GivenUp
  <2>2. ASSUME NEW b \in Blobs
        PROVE  FateOf(row'[b].state) = IF b \in S THEN "closed" ELSE FateOf(row[b].state)
    <3>1. CASE b \in S
      BY <2>1, <3>1, FateNames
    <3>2. CASE b \notin S
      <4>1. \/ row'[b].state = row[b].state
            \/ row[b].state = "untracked" /\ row'[b].state = "inserting"
        BY <1>5, <3>2 DEF Marked
      <4> QED BY <3>2, <4>1, FateNames
    <3> QED BY <3>1, <3>2
  <2>3. Ledger!Put(S, "closed")
    <3> HIDE DEF S
    <3> QED BY <2>2, FateIs
  <2>4. \A b \in S : Fate[b] = "open"
    BY LedgerParts, FateNames
  <2>5. S \in SUBSET Blobs
    OBVIOUS
  <2> HIDE DEF S
  <2>6. Ledger!Close(S)
    BY <1>1, <1>3, <2>1, <2>3, <2>4 DEF Ledger!Close
  <2> QED BY <2>5, <2>6 DEF Refined, Ledger!Next
<1> QED BY <1>4, <1>5 DEF Marked

\* The rows and the claims of a batch that is resolved.
LEMMA ResolvedRows ==
    ASSUME IndInv, NEW t \in Batches, NEW from, NEW to, NEW f, NEW c,
           Released(t, from, to, f, c), f # "deleting", c # "none",
           UNCHANGED <<holder, outcome, lapsed>>
    PROVE  /\ Ledger!Put(Claims[t], FateOf(f))
           /\ Claims' = [Claims EXCEPT ![t] = {}]
           /\ Verdicts' = [Verdicts EXCEPT ![t] = VerdictOf(to)]
           /\ UNCHANGED <<Owned, Over, Scope, Executed>>
<1>0. TypeOK /\ ClaimsExact /\ \A b \in Blobs : row[b].batch \in Batches \cup {NoBatch}
  BY DEF IndInv, TypeOK, Row
<1>1. Ledger!Put(Claims[t], FateOf(f))
  <2>1. ASSUME NEW b \in Blobs
        PROVE  FateOf(row'[b].state) = IF b \in Claims[t] THEN FateOf(f) ELSE FateOf(row[b].state)
    BY LedgerParts DEF Released, RowsOf
  <2> QED BY <2>1, FateIs
<1>2. RowsOf(t)' = {}
  BY NameAssumption DEF Released, RowsOf
<1>3. \A u \in Batches : u # t => RowsOf(u)' = RowsOf(u)
  BY NameAssumption DEF Released, RowsOf
<1>4. Claims' = [Claims EXCEPT ![t] = {}]
  BY <1>2, <1>3 DEF Claims
<1>5. Verdicts' = [Verdicts EXCEPT ![t] = VerdictOf(to)]
  BY DEF Verdicts, Released
<1>6. UNCHANGED Scope
  BY DEF Scope, Released
<1>7. UNCHANGED <<Owned, Over, Executed>>
  BY DEF Owned, Over, Executed
<1> QED BY <1>1, <1>4, <1>5, <1>6, <1>7

\* Every step of the tables is one of the ledger.
LEMMA TablesRefine ==
    ASSUME IndInv, TableStep, UNCHANGED <<holder, outcome, lapsed>>
    PROVE  Refined
<1>0. /\ TypeOK /\ ClaimsExact /\ BatchShape /\ EffectsTrue /\ TxCoversClaims
      /\ \A b \in Blobs : row[b].batch \in Batches \cup {NoBatch}
  BY DEF IndInv, TypeOK, Row
<1>1. UNCHANGED <<Owned, Over, Executed>>
  BY DEF Owned, Over, Executed
<1>2. CASE UNCHANGED tables
  BY <1>1, <1>2 DEF tables, Fate, Claims, RowsOf, Scope, Verdicts, Refined, Ledger!vars
<1>3. CASE Marked
  BY <1>3, MarkedRefines
<1>4. ASSUME NEW t \in Batches, RolledBack(t) PROVE Refined
  <2>1. PICK from \in LiveState, to \in {"rolled_back", "failed"} :
          Released(t, from, to, "deletable", "released")
    BY <1>4 DEF RolledBack, LiveState
  <2>2. /\ Ledger!Put(Claims[t], "open") /\ Claims' = [Claims EXCEPT ![t] = {}]
        /\ Verdicts' = [Verdicts EXCEPT ![t] = "released"]
        /\ UNCHANGED <<Owned, Over, Scope, Executed>>
    BY <2>1, ResolvedRows, FateNames, VerdictNames
  <2>3. Verdicts[t] = "open"
    BY <2>1, LedgerParts, VerdictNames DEF Released, LiveState
  <2>4. Ledger!Release(t)
    BY <2>2, <2>3 DEF Ledger!Release, Ledger!Resolve
  <2> QED BY <2>4 DEF Refined, Ledger!Next
<1>5. ASSUME NEW t \in Batches, outcome[t] = "success",
             Released(t, "executing", "completed", "deleted", "deleted")
      PROVE  Refined
  <2>1. /\ Ledger!Put(Claims[t], "deleted") /\ Claims' = [Claims EXCEPT ![t] = {}]
        /\ Verdicts' = [Verdicts EXCEPT ![t] = "done"]
        /\ UNCHANGED <<Owned, Over, Scope, Executed>>
    BY <1>5, ResolvedRows, FateNames, VerdictNames
  <2>2. Verdicts[t] = "open"
    BY <1>5, LedgerParts, VerdictNames DEF Released
  <2>3. t \in Executed /\ Claims[t] \cap Owned = {}
    <3>1. batch[t].inputs # {}
      BY <1>0, <1>5 DEF BatchShape, LedgerOK
    <3>2. \A b \in RowsOf(t) : holder[b] = "gone"
      BY <1>0, <1>5, <3>1 DEF TxCoversClaims, EffectsTrue
    <3> QED BY <1>5, <3>2, LedgerParts DEF Executed, Owned
  <2>4. Ledger!Complete(t)
    BY <2>1, <2>2, <2>3 DEF Ledger!Complete, Ledger!Resolve
  <2> QED BY <2>4 DEF Refined, Ledger!Next
<1>6. ASSUME NEW t \in Batches, NEW b \in Blobs, NEW s \in TerminalState, Says(b, s),
             Evicted(t, b, s)
      PROVE  Refined
  <2>1. s # "deleted" /\ (b \notin Owned \/ b \in Over)
    BY <1>6 DEF Says, TerminalState, Owned, Over
  <2>2. b \in Claims[t]
    BY <1>6, LedgerParts DEF Evicted, RowsOf
  <2>3. Ledger!Put({b}, "closed")
    BY <1>6, <2>1, FateIs, FateNames DEF Evicted
  <2>4. RowsOf(t)' = RowsOf(t) \ {b}
    BY <1>6, NameAssumption DEF Evicted, RowsOf
  <2>5. \A u \in Batches : u # t => RowsOf(u)' = RowsOf(u)
    BY <1>6, NameAssumption DEF Evicted, RowsOf
  <2>6. Claims' = [Claims EXCEPT ![t] = @ \ {b}]
    BY <2>4, <2>5 DEF Claims
  <2>7. UNCHANGED <<Scope, Verdicts>>
    BY <1>6 DEF Evicted, Scope, Verdicts, TerminalState
  <2>8. Ledger!Drop(t, b)
    BY <1>1, <2>1, <2>2, <2>3, <2>6, <2>7 DEF Ledger!Drop
  <2> QED BY <2>8 DEF Refined, Ledger!Next
<1>7. ASSUME NEW t \in Batches, NEW S \in SUBSET Blobs, Claimed(t, S) PROVE Refined
  <2>1. Verdicts[t] = "unused" /\ S # {} /\ \A b \in S : Fate[b] = "open"
    BY <1>7, LedgerParts, FateNames, VerdictNames DEF Claimed
  <2>2. Ledger!Put(S, "claimed")
    <3>1. \A b \in Blobs : FateOf(row'[b].state) = IF b \in S THEN "claimed" ELSE FateOf(row[b].state)
      BY <1>7, FateNames DEF Claimed
    <3> QED BY <3>1, FateIs
  <2>3. RowsOf(t)' = S
    <3>1. \A b \in Blobs : ~(row[b].state = "deleting" /\ row[b].batch = t)
      BY <1>0, <1>7 DEF Claimed, ClaimsExact, BatchShape, BatchOK
    <3> QED BY <1>7, <3>1 DEF Claimed, RowsOf
  <2>4. \A u \in Batches : u # t => RowsOf(u)' = RowsOf(u)
    BY <1>7 DEF Claimed, RowsOf
  <2>5. Claims' = [Claims EXCEPT ![t] = S]
    BY <2>3, <2>4 DEF Claims
  <2>6. Scope' = [Scope EXCEPT ![t] = S]
    <3>1. {b \in Blobs : member'[t][b] # "none"} = S
      BY <1>7 DEF Claimed
    <3>2. \A u \in Batches : u # t => member'[u] = member[u]
      BY <1>7 DEF Claimed
    <3> QED BY <3>1, <3>2 DEF Scope
  <2>7. Verdicts' = [Verdicts EXCEPT ![t] = "open"]
    <3>1. VerdictOf(batch'[t].state) = "open"
      BY <1>7, VerdictNames DEF Claimed
    <3>2. \A u \in Batches : u # t => VerdictOf(batch'[u].state) = VerdictOf(batch[u].state)
      BY <1>7 DEF Claimed
    <3> QED BY <3>1, <3>2 DEF Verdicts
  <2>8. Ledger!Claim(t, S)
    BY <1>1, <2>1, <2>2, <2>5, <2>6, <2>7 DEF Ledger!Claim
  <2> QED BY <2>8 DEF Refined, Ledger!Next
<1>8. ASSUME NEW t \in Batches, NEW inputs, Prepared(t, inputs) PROVE Refined
  <2>1. UNCHANGED <<Fate, Claims, Scope>>
    BY <1>8 DEF Prepared, Fate, Claims, RowsOf, Scope
  <2>2. UNCHANGED Verdicts
    BY <1>8 DEF Prepared, Verdicts
  <2> QED BY <1>1, <2>1, <2>2 DEF Refined, Ledger!vars
<1>9. ASSUME NEW t \in Batches, Submitted(t) PROVE Refined
  <2>1. UNCHANGED <<Fate, Claims, Scope>>
    BY <1>9 DEF Submitted, Fate, Claims, RowsOf, Scope
  <2>2. UNCHANGED Verdicts
    BY <1>9, VerdictNames DEF Submitted, Verdicts
  <2> QED BY <1>1, <2>1, <2>2 DEF Refined, Ledger!vars
<1> QED BY <1>2, <1>3, <1>4, <1>5, <1>6, <1>7, <1>8, <1>9 DEF TableStep

\* A step that moves the chain leaves the tables alone: a transaction takes
\* effect, or the world moves on.
LEMMA ChainMoves ==
    ASSUME IndInv, Next
    PROVE  \/ UNCHANGED <<holder, outcome, lapsed>>
           \/ \E t \in Batches : TxSucceeds(t)
           \/ UNCHANGED tables /\ Executed' = Executed
<1>1. ASSUME NEW t \in Batches, TxFails(t) PROVE UNCHANGED tables /\ Executed' = Executed
  BY <1>1 DEF TxFails, Executable, Executed, IndInv, TypeOK
<1>2. ASSUME ClockAdvances \/ \E b \in Blobs, to \in {"owner", "other", "gone"} : ObjectChanges(b, to)
      PROVE  UNCHANGED tables /\ Executed' = Executed
  BY <1>2 DEF ClockAdvances, ObjectChanges, ledger, Executed
<1>3. ASSUME NEW t \in Batches, Handler(t) PROVE UNCHANGED <<holder, outcome, lapsed>>
  BY <1>3 DEF Handler, Claim, resolve_claimed_object_ids, CheckObjects, Build, PrepareFails,
              cancel_deletion, Submit, FreshnessUnread, Rejected, objects, ledger, clocks
<1>4. ASSUME NEW a \in Actors, Execution(a) PROVE UNCHANGED <<holder, outcome, lapsed>>
  BY <1>4 DEF Execution, FreshThenExecute, Stale, Settle, ExamineFailure, Evict, Fail, Abandon,
              objects, ledger, clocks
<1>5. ASSUME NEW r \in Reconcilers, Reconciler(r) PROVE UNCHANGED <<holder, outcome, lapsed>>
  BY <1>5 DEF Reconciler, ReconcileAwaiting, ReconcileExecuting, RetryOrExpire, run_sweep_page,
              sweep_mark_external, objects, ledger, clocks
<1>6. ASSUME Resolver \/ \E b \in Blobs : InsertEntry(b) \/ CommitEntry(b)
      PROVE  UNCHANGED <<holder, outcome, lapsed>>
  BY <1>6 DEF Resolver, ResolverStart, ResolverPage, complete_resolver_scan, ResolverStops,
              InsertEntry, CommitEntry, objects, ledger, clocks
<1> QED BY <1>1, <1>2, <1>3, <1>4, <1>5, <1>6 DEF Next, Environment

\* Every step of security delete is a step of the ledger or leaves it unchanged.
LEMMA LedgerStep ==
    ASSUME IndInv, ScopeTrue, [Next]_vars
    PROVE  Refined
<1>0. /\ TypeOK /\ BatchShape /\ TxCoversClaims
  BY DEF IndInv
<1>1. CASE UNCHANGED vars
  BY <1>1 DEF vars, tables, objects, ledger, clocks, Owned, Over, Fate, Claims, RowsOf, Scope,
              Verdicts, Executed, Refined, Ledger!vars
<1>2. ASSUME UNCHANGED tables PROVE UNCHANGED <<Fate, Claims, Scope, Verdicts>>
  BY <1>2 DEF tables, Fate, Claims, RowsOf, Scope, Verdicts
<1>3. ASSUME NEW t \in Batches, TxSucceeds(t) PROVE Refined
  <2> DEFINE D == InputsOf(t)
  <2>1. /\ t \in sent /\ outcome[t] = "none" /\ stale_inputs(t) = {}
        /\ outcome' = [outcome EXCEPT ![t] = "success"]
        /\ holder' = [b \in Blobs |-> IF b \in D THEN "gone" ELSE holder[b]]
        /\ UNCHANGED tables /\ UNCHANGED lapsed
    BY <1>3 DEF TxSucceeds, Executable, clocks
  <2>2. batch[t].inputs # {} /\ batch[t].state # "unused"
    BY <1>0, <2>1 DEF BatchShape, LedgerOK, BatchOK
  <2>3. D \in SUBSET Blobs
    BY <1>0 DEF InputsOf, TypeOK, Batch, Inputs
  <2>4. D \subseteq Owned
    BY <2>1, <2>3 DEF stale_inputs, InputsOf, Owned
  <2>5. D \subseteq Scope[t]
    BY <2>3, LedgerParts DEF ScopeTrue, InputsOf
  <2>6. Claims[t] \subseteq D
    BY <1>0, <2>2, LedgerParts DEF TxCoversClaims
  <2>7. Verdicts[t] # "unused" /\ t \notin Executed
    BY <2>1, <2>2, LedgerParts, VerdictNames DEF Executed
  <2>8. Owned' = Owned \ D /\ Executed' = Executed \cup {t} /\ UNCHANGED Over
    <3> HIDE DEF D
    <3> QED BY <1>0, <2>1, <2>3 DEF Owned, Executed, Over, TypeOK
  <2> HIDE DEF D
  <2>9. Ledger!Execute(t, D)
    BY <1>2, <2>1, <2>4, <2>5, <2>6, <2>7, <2>8 DEF Ledger!Execute
  <2> QED BY <2>3, <2>9 DEF Refined, Ledger!Next
<1>4. ASSUME Next, UNCHANGED tables, Executed' = Executed PROVE Refined
  <2>1. ChainKept
    BY <1>4, ChainStep
  <2>2. Owned' \subseteq Owned /\ Over \subseteq Over' /\ Over' \subseteq Blobs
    BY <2>1, NameAssumption DEF ChainKept, Owned, Over
  <2>3. Ledger!World
    BY <1>2, <1>4, <2>2 DEF Ledger!World
  <2> QED BY <2>3 DEF Refined, Ledger!Next
<1>5. CASE Next
  <2>1. TableStep
    BY <1>5, TablesStep
  <2> QED BY <1>3, <1>4, <1>5, <2>1, TablesRefine, ChainMoves
<1> QED BY <1>1, <1>5

\* Security delete implements DeletionLedger: a transaction deletes only blobs
\* its batch claimed and all it still claims, also when it takes effect after
\* the claims were released, and rows are recorded as deleted only together and
\* only by the effects of their own batch.
THEOREM LedgerRefined == Spec => ImplementsDeletionLedger
<1>1. Init => ScopeTrue
  <2>1. Init => \A t \in Batches : job[t].got = {} /\ batch[t].inputs = {}
    BY DEF Init, Idle, Actors
  <2> QED BY <2>1 DEF ScopeTrue
<1>2. IndInv /\ ScopeTrue /\ [Next]_vars => ScopeTrue'
  <2>1. UNCHANGED vars /\ ScopeTrue => ScopeTrue'
    BY DEF vars, tables, ScopeTrue
  <2> QED BY <2>1, ScopeStep
<1>3. Init => Ledger!Init
  <2> SUFFICES ASSUME Init PROVE Ledger!Init
    OBVIOUS
  <2>1. Owned = Blobs /\ Over = {} /\ Executed = {}
    BY DEF Init, Owned, Over, Executed
  <2>2. Fate \in [Blobs -> {"new", "open"}]
    BY FateNames DEF Init, Fate
  <2>3. \A t \in Batches : RowsOf(t) = {}
    BY DEF Init, RowsOf
  <2>4. /\ Claims = [t \in Batches |-> {}] /\ Scope = [t \in Batches |-> {}]
        /\ Verdicts = [t \in Batches |-> "unused"]
    BY <2>3, VerdictNames DEF Init, Claims, Scope, Verdicts
  <2> QED BY <2>1, <2>2, <2>4 DEF Ledger!Init
<1>4. IndInv /\ ScopeTrue /\ [Next]_vars => [Ledger!Next]_(Ledger!vars)
  BY LedgerStep DEF Refined
<1> QED BY <1>1, <1>2, <1>3, <1>4, Inductive, PTL
        DEF Spec, ImplementsDeletionLedger, Ledger!Spec
===============================================================================

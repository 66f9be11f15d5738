----------------------------- MODULE SecurityDelete ---------------------------
(***************************************************************************)
(* Security delete: the blobs of an owner are claimed into batches, each    *)
(* batch becomes one sponsored Sui transaction that deletes its Blob        *)
(* objects, and the tracking rows record what became of every blob.  Four   *)
(* parties write the tables without a lock between them: the route handlers *)
(* (routes/security_delete.rs), the reconciler and the object resolver      *)
(* (jobs_security_delete.rs) and the tracking trigger (migrations_legacy);  *)
(* what keeps them apart are the compare-and-set statements of              *)
(* storage/security_delete_store.rs.                                        *)
(*                                                                         *)
(* One owner: every statement carries the owner's predicate.  A database    *)
(* transaction is one step; so is a read of the chain, with the statement   *)
(* that follows it when no other party can tell them apart.  The execution  *)
(* gate is left out, it only delays; TTL and grace may pass at any time.    *)
(***************************************************************************)
EXTENDS Integers, FiniteSets

CONSTANTS
    Blobs,            \* blob ids of the owner
    Batches,          \* batch ids (fresh UUIDs); also the handler of each batch
    Reconcilers,      \* reconciler loops, one per server process
    Tracked,          \* blobs tracked when the model starts
    Known,            \* those of them an earlier scan found, by deployment
    Expiring,         \* blobs whose end_epoch is near
    Deployments,      \* sets of background jobs a deployment may enable
    Page, LastPage,   \* the page of list_owned_blobs a blob is on
    ActiveCap,        \* max_active_batches_per_owner
    DeleteBatchMax,   \* delete_batch_max
    MaxChanges,       \* bound: objects changed, failed transactions, epochs and upgrades
    NoBatch

ASSUME FiniteAssumption == IsFiniteSet(Blobs) /\ IsFiniteSet(Batches)
ASSUME NameAssumption == /\ NoBatch \notin Batches /\ Batches \cap Reconcilers = {}
                         /\ Expiring \subseteq Blobs /\ Tracked \subseteq Blobs
                         /\ Known \in [Deployments -> SUBSET Tracked]
                         /\ Deployments \subseteq SUBSET {"reconciler", "resolver"}
ASSUME NumberAssumption ==
    /\ LastPage \in Nat \ {0} /\ Page \in [Blobs -> 1..LastPage]
    /\ {ActiveCap, DeleteBatchMax, MaxChanges} \subseteq Nat

VARIABLES
    enabled,   \* deletion_reconciler_enabled, deletion_object_resolver_enabled
    row,       \* delete_blobs_tracking
    batch,     \* deletion_batches
    member,    \* deletion_batch_members: the outcome of each claim
    job,       \* what each handler and each reconciler is doing
    checkpoint, completed, scan,  \* resolver_checkpoint, resolver_completed, the running scan
    holder, version,              \* Sui: who holds the Blob object, and its version
    sent, outcome, suspects,      \* Sui: transactions sent, their effects, what a failure names
    epoch, package, lapsed,       \* Sui epoch, Walrus package, Walrus epoch at an end_epoch
    changes                       \* counts what MaxChanges bounds

tables == <<row, batch, member>>
resolver == <<enabled, checkpoint, completed, scan>>
objects == <<holder, version>>
ledger == <<sent, outcome, suspects>>
clocks == <<epoch, package, lapsed, changes>>
vars == <<tables, job, resolver, objects, ledger, clocks>>

Actors == Batches \cup Reconcilers
TerminalState == {"deleted", "deleted_external", "not_owner", "expired"}
RowState == {"untracked", "inserting", "deletable", "deleting"} \cup TerminalState
LiveState == {"awaiting_signature", "executing"}
ResolvedState == {"completed", "failed", "rolled_back"}
Outcome == {"none", "claimed", "released"} \cup TerminalState

Row == [state : RowState, batch : Batches \cup {NoBatch}, id : BOOLEAN]
Inputs == SUBSET (Blobs \X Nat)
Batch == [state : {"unused"} \cup LiveState \cup ResolvedState,
          inputs : Inputs, expire : Nat, package : Nat]
\* plan: the evictions a party has decided on from what it read; got: the
\* objects it read.
Job == [at : {"idle", "resolve", "check", "build", "fresh", "await", "absent", "fail", "sweep"},
        batch : Batches \cup {NoBatch},
        plan : SUBSET (Blobs \X TerminalState), got : Inputs]
\* fence: the rows whose tracked_seq is below the scan fence; page 1 is the
\* cursor None, done says that completed_fence is set.
Checkpoint == [fence : SUBSET Blobs, page : 1..LastPage, started : BOOLEAN, done : BOOLEAN]
Scan == {"idle", "list", "complete"}

Idle == [at |-> "idle", batch |-> NoBatch, plan |-> {}, got |-> {}]

Init ==
    /\ enabled \in Deployments
    /\ row = [b \in Blobs |-> [state |-> IF b \in Tracked THEN "deletable" ELSE "untracked",
                               batch |-> NoBatch, id |-> b \in Known[enabled]]]
    /\ batch = [t \in Batches |-> [state |-> "unused", inputs |-> {}, expire |-> 0, package |-> 0]]
    /\ member = [t \in Batches |-> [b \in Blobs |-> "none"]]
    /\ job = [a \in Actors |-> Idle]
    /\ completed = Known[enabled]
    /\ checkpoint = [fence |-> completed, page |-> 1,
                     started |-> completed # {}, done |-> completed # {}]
    /\ scan = "idle"
    /\ holder = [b \in Blobs |-> "owner"]
    /\ version = [b \in Blobs |-> 0]
    /\ sent = {}
    /\ outcome = [t \in Batches |-> "none"]
    /\ suspects = [t \in Batches |-> {}]
    /\ epoch = 0 /\ package = 0 /\ lapsed = FALSE /\ changes = 0

-------------------------------------------------------------------------------
(* The store.                                                              *)

Active == {t \in Batches : batch[t].state \in LiveState}
RowsOf(t) == {b \in Blobs : row[b].state = "deleting" /\ row[b].batch = t}
Deletable == {b \in Blobs : row[b].state = "deletable"}
Sequenced == {b \in Blobs : row[b].state # "untracked"}   \* tracked_seq is drawn

\* Mutant: the batch is not compared before it is resolved.
ResolveAnyState(t, from, to, rowState, claim) ==
    /\ batch' = [batch EXCEPT ![t].state = to]
    /\ row' = [b \in Blobs |-> IF b \in RowsOf(t)
                               THEN [row[b] EXCEPT !.state = rowState, !.batch = NoBatch]
                               ELSE row[b]]
    /\ member' = [member EXCEPT ![t] =
                     [b \in Blobs |-> IF member[t][b] = "claimed" THEN claim
                                                                  ELSE member[t][b]]]

\* One transaction: compare-and-set of the batch, then its rows, then its members.
Resolve(t, from, to, rowState, claim) ==
    IF batch[t].state = from
    THEN /\ batch' = [batch EXCEPT ![t].state = to]
         /\ row' = [b \in Blobs |-> IF b \in RowsOf(t)
                                    THEN [row[b] EXCEPT !.state = rowState, !.batch = NoBatch]
                                    ELSE row[b]]
         /\ member' = [member EXCEPT ![t] =
                          [b \in Blobs |-> IF member[t][b] = "claimed" THEN claim
                                                                       ELSE member[t][b]]]
    ELSE UNCHANGED tables

rollback_batch(t, from, to) == Resolve(t, from, to, "deletable", "released")
finalize_batch_deleted(t) == Resolve(t, "executing", "completed", "deleted", "deleted")

\* Mutant: the row is evicted whichever batch holds it.
EvictAnyBatch(t, b, terminal) ==
    IF row[b].state = "deleting"
    THEN /\ row' = [row EXCEPT ![b].state = terminal, ![b].batch = NoBatch]
         /\ member' = IF member[t][b] = "claimed"
                      THEN [member EXCEPT ![t][b] = terminal] ELSE member
         /\ UNCHANGED batch
    ELSE UNCHANGED tables

evict_claimed_blob(t, b, terminal) ==
    IF row[b].state = "deleting" /\ row[b].batch = t
    THEN /\ row' = [row EXCEPT ![b].state = terminal, ![b].batch = NoBatch]
         /\ member' = IF member[t][b] = "claimed"
                      THEN [member EXCEPT ![t][b] = terminal] ELSE member
         /\ UNCHANGED batch
    ELSE UNCHANGED tables

\* The epoch and the package were read a few calls earlier: should they change
\* in between, the transaction is as dead as if they changed right after.
set_batch_prepared(t, inputs) ==
    IF /\ batch[t].state = "awaiting_signature" /\ batch[t].inputs = {}
       /\ Cardinality(RowsOf(t)) = Cardinality(inputs)
    THEN batch' = [batch EXCEPT ![t].inputs = inputs, ![t].expire = epoch, ![t].package = package]
    ELSE UNCHANGED batch

-------------------------------------------------------------------------------
(* What a read of the chain says of a blob.                                *)

Verdict(b) == CASE holder[b] = "gone"  -> "deleted_external"
                [] holder[b] = "other" -> "not_owner"
                [] OTHER               -> "live"

terminal_state(b) == IF Verdict(b) = "live" /\ lapsed /\ b \in Expiring
                     THEN "expired" ELSE Verdict(b)

Owned == {b \in Blobs : holder[b] = "owner"}
Current(b) == <<b, version[b]>>
InputsOf(t) == {p[1] : p \in batch[t].inputs}
stale_inputs(t) == {p[1] : p \in {q \in batch[t].inputs :
                                    holder[q[1]] # "owner" \/ version[q[1]] # q[2]}}

-------------------------------------------------------------------------------
(* The tracking trigger: tracked_seq is drawn when the insert runs, the row *)
(* is seen when its transaction commits.                                   *)

InsertEntry(b) ==
    /\ row[b].state = "untracked"
    /\ row' = [row EXCEPT ![b].state = "inserting"]
    /\ UNCHANGED <<batch, member, job, resolver, objects, ledger, clocks>>

CommitEntry(b) ==
    /\ row[b].state = "inserting"
    /\ row' = [row EXCEPT ![b].state = "deletable"]
    /\ UNCHANGED <<batch, member, job, resolver, objects, ledger, clocks>>

-------------------------------------------------------------------------------
(* prepare_deletion.                                                       *)

Continue(a, at, plan, got) ==
    job' = [job EXCEPT ![a].at = at, ![a].plan = plan, ![a].got = got]
Return(a) == job' = [job EXCEPT ![a] = Idle]

\* create_batch_and_claim_selection and _all, under the owner's advisory lock.
Claim(t, S) ==
    /\ batch[t].state = "unused"
    /\ S # {} /\ S \subseteq Deletable /\ Cardinality(S) <= DeleteBatchMax
    /\ Cardinality(Active) < ActiveCap
    /\ batch' = [batch EXCEPT ![t].state = "awaiting_signature"]
    /\ row' = [b \in Blobs |-> IF b \in S THEN [row[b] EXCEPT !.state = "deleting", !.batch = t]
                                          ELSE row[b]]
    /\ member' = [member EXCEPT ![t] = [b \in Blobs |-> IF b \in S THEN "claimed" ELSE "none"]]
    /\ job' = [job EXCEPT ![t] = [Idle EXCEPT !.batch = t,
                 !.at = IF \E b \in S : ~row[b].id THEN "resolve" ELSE "check"]]
    /\ UNCHANGED <<resolver, objects, ledger, clocks>>

\* The ids of the rows the scan of the owner's objects found; the others are
\* to be evicted.
resolve_claimed_object_ids(t) ==
    LET unknown == {b \in RowsOf(t) : ~row[b].id}
    IN  /\ job[t].at = "resolve"
        /\ row' = [b \in Blobs |-> IF b \in unknown \cap Owned
                                   THEN [row[b] EXCEPT !.id = TRUE] ELSE row[b]]
        /\ Continue(t, "check", (unknown \ Owned) \X {"not_owner"}, {})
        /\ UNCHANGED <<batch, member, resolver, objects, ledger, clocks>>

CheckObjects(t) ==
    LET known == {b \in RowsOf(t) : row[b].id}
        healthy == {b \in known : terminal_state(b) = "live"}
    IN  /\ job[t].at = "check" /\ job[t].plan = {}
        /\ Continue(t, "build", {<<b, terminal_state(b)>> : b \in known \ healthy},
                    {Current(b) : b \in healthy})
        /\ UNCHANGED <<tables, resolver, objects, ledger, clocks>>

\* Mutant: the transaction is stored before the evictions are made.
BuildEarly(t) ==
    /\ job[t].at = "build" /\ job[t].got # {}
    /\ batch' = [batch EXCEPT ![t].inputs = job[t].got]
    /\ Return(t)
    /\ UNCHANGED <<row, member, resolver, objects, ledger, clocks>>

Build(t) ==
    /\ job[t].at = "build" /\ job[t].plan = {}
    /\ IF job[t].got = {}
       THEN rollback_batch(t, "awaiting_signature", "rolled_back")
       ELSE set_batch_prepared(t, job[t].got) /\ UNCHANGED <<row, member>>
    /\ Return(t)
    /\ UNCHANGED <<resolver, objects, ledger, clocks>>

\* An RPC error, or the prepare budget runs out.
PrepareFails(t) ==
    /\ job[t].at \in {"resolve", "check", "build"}
    /\ rollback_batch(t, "awaiting_signature", "rolled_back")
    /\ Return(t)
    /\ UNCHANGED <<resolver, objects, ledger, clocks>>

cancel_deletion(t) ==
    /\ batch[t].state = "awaiting_signature"
    /\ rollback_batch(t, "awaiting_signature", "rolled_back")
    /\ UNCHANGED <<job, resolver, objects, ledger, clocks>>

-------------------------------------------------------------------------------
(* submit_deletion, and the replay by the reconciler, which shares its      *)
(* steps from the freshness check on.                                      *)

\* The signature is verified, then begin_batch_execution.
Submit(t) ==
    /\ batch[t].state = "awaiting_signature" /\ batch[t].inputs # {}
    /\ batch' = [batch EXCEPT ![t].state = "executing"]
    /\ job' = [job EXCEPT ![t] = [Idle EXCEPT !.at = "fresh", !.batch = t]]
    /\ UNCHANGED <<row, member, resolver, objects, ledger, clocks>>

\* revalidate_before_execute and resolve_stale_retry_inputs, then execute_tx.  A
\* failed read of the system object skips the package check.
FreshThenExecute(a) ==
    LET t == job[a].batch
    IN  /\ job[a].at = "fresh" /\ stale_inputs(t) = {}
        /\ sent' = sent \cup {t}
        /\ Continue(a, "await", {}, {})
        /\ UNCHANGED <<tables, resolver, objects, outcome, suspects, clocks>>

Stale(a) ==
    LET t == job[a].batch
    IN  /\ job[a].at = "fresh"
        /\ \/ /\ package # batch[t].package
              /\ Continue(a, "fail", {}, {})
           \/ /\ stale_inputs(t) # {}
              /\ Continue(a, "fail", {<<b, Verdict(b)>> : b \in stale_inputs(t) \ Owned}, {})
        /\ UNCHANGED <<tables, resolver, objects, ledger, clocks>>

\* The handler releases the claims when the freshness read fails.
FreshnessUnread(t) ==
    /\ job[t].at = "fresh"
    /\ Continue(t, "fail", {}, {})
    /\ UNCHANGED <<tables, resolver, objects, ledger, clocks>>

\* resolve_rejected_execution: an attempt was refused (Rejected, NotFound, no
\* sponsor funds) and no effects are found.
Rejected(t) ==
    /\ job[t].at = "await" /\ outcome[t] = "none"
    /\ Continue(t, "fail", {}, {})
    /\ UNCHANGED <<tables, resolver, objects, ledger, clocks>>

Ticks(r) == "reconciler" \in enabled /\ job[r].at = "idle"

\* The effects of its transaction reach a party in the answer of execute_tx or
\* through get_tx_status, and the batch may have been resolved by then.
Learns(a, t) == \/ job[a].at = "await" /\ job[a].batch = t
                \/ a \in Reconcilers /\ Ticks(a) /\ batch[t].state = "executing"

\* Mutant: failed effects also finalize.
SettleAnyEffects(a, t) ==
    /\ Learns(a, t) /\ outcome[t] # "none"
    /\ finalize_batch_deleted(t)
    /\ Return(a)
    /\ UNCHANGED <<resolver, objects, ledger, clocks>>

\* complete_submit, or the reconciler.
Settle(a, t) ==
    /\ Learns(a, t) /\ outcome[t] = "success"
    /\ finalize_batch_deleted(t)
    /\ Return(a)
    /\ UNCHANGED <<resolver, objects, ledger, clocks>>

\* resolve_failed_batch of the reconciler, resolve_committed_failure of the
\* handler, which does not know "expired" and evicts nothing when the objects
\* cannot be read.
ExamineFailure(a, t) ==
    LET verdict(b) == IF a \in Reconcilers THEN terminal_state(b) ELSE Verdict(b)
        named == {b \in RowsOf(t) \cap suspects[t] : row[b].id /\ verdict(b) # "live"}
    IN  /\ Learns(a, t) /\ outcome[t] = "failure"
        /\ \E read \in {named, IF a \in Reconcilers THEN named ELSE {}} :
              job' = [job EXCEPT ![a] = [at |-> "fail", batch |-> t, got |-> {},
                                         plan |-> {<<b, verdict(b)>> : b \in read}]]
        /\ UNCHANGED <<tables, resolver, objects, ledger, clocks>>

Evict(a, b, terminal) ==
    /\ job[a].at \in {"check", "build", "fail"} /\ <<b, terminal>> \in job[a].plan
    /\ evict_claimed_blob(job[a].batch, b, terminal)
    /\ job' = [job EXCEPT ![a].plan = @ \ {<<b, terminal>>}]
    /\ UNCHANGED <<resolver, objects, ledger, clocks>>

Fail(a) ==
    /\ job[a].at = "fail" /\ job[a].plan = {}
    /\ rollback_batch(job[a].batch, "executing", "failed")
    /\ Return(a)
    /\ UNCHANGED <<resolver, objects, ledger, clocks>>

\* The process dies, the client disconnects, a read fails and the handler or the
\* tick gives up, or the answer of execute_tx is lost.
Abandon(a) ==
    /\ job[a].at # "idle"
    /\ Return(a)
    /\ UNCHANGED <<tables, resolver, objects, ledger, clocks>>

-------------------------------------------------------------------------------
(* run_reconciler_tick.                                                    *)

ReconcileAwaiting(r, t) ==
    /\ Ticks(r) /\ batch[t].state = "awaiting_signature"
    /\ rollback_batch(t, "awaiting_signature", "rolled_back")
    /\ UNCHANGED <<job, resolver, objects, ledger, clocks>>

\* No effects are found: past its epoch the transaction is dead, else
\* claim_batch_retry.
ReconcileExecuting(r, t) ==
    /\ Ticks(r) /\ batch[t].state = "executing" /\ outcome[t] = "none"
    /\ job' = [job EXCEPT ![r] = [Idle EXCEPT !.at = "absent", !.batch = t]]
    /\ UNCHANGED <<tables, resolver, objects, ledger, clocks>>

RetryOrExpire(r) ==
    LET t == job[r].batch
    IN  /\ job[r].at = "absent"
        /\ IF epoch > batch[t].expire THEN Continue(r, "fail", {}, {})
           ELSE IF batch[t].state = "executing" THEN Continue(r, "fresh", {}, {})
           ELSE Return(r)
        /\ UNCHANGED <<tables, resolver, objects, ledger, clocks>>

run_sweep_page(r) ==
    LET found == {b \in Deletable : row[b].id /\ terminal_state(b) # "live"}
    IN  /\ Ticks(r) /\ found # {}
        /\ Continue(r, "sweep", {<<b, terminal_state(b)>> : b \in found}, {})
        /\ UNCHANGED <<tables, resolver, objects, ledger, clocks>>

sweep_mark_external(r, b, terminal) ==
    /\ job[r].at = "sweep" /\ <<b, terminal>> \in job[r].plan
    /\ row' = IF row[b].state = "deletable" THEN [row EXCEPT ![b].state = terminal] ELSE row
    /\ LET rest == job[r].plan \ {<<b, terminal>>}
       IN  IF rest = {} THEN Return(r) ELSE Continue(r, "sweep", rest, {})
    /\ UNCHANGED <<batch, member, resolver, objects, ledger, clocks>>

-------------------------------------------------------------------------------
(* run_resolver_tick.                                                      *)

\* Mutant: the fence is drawn while an insert is open.
ResolverStartUnlocked ==
    /\ "resolver" \in enabled /\ scan = "idle"
    /\ \E b \in Deletable : ~row[b].id /\ b \notin completed
    /\ checkpoint' = [checkpoint EXCEPT !.fence = Sequenced, !.started = TRUE, !.page = 1]
    /\ scan' = "list"
    /\ UNCHANGED <<tables, job, enabled, completed, objects, ledger, clocks>>

\* A new fence is reserved only while no insert of the owner is open.
ResolverStart ==
    LET fresh == ~checkpoint.started \/ (checkpoint.page = 1 /\ checkpoint.done)
    IN  /\ "resolver" \in enabled /\ scan = "idle"
        /\ \E b \in Deletable : ~row[b].id /\ b \notin completed
        /\ fresh => \A b \in Blobs : row[b].state # "inserting"
        /\ checkpoint' = IF fresh THEN [checkpoint EXCEPT !.fence = Sequenced, !.started = TRUE]
                                  ELSE checkpoint
        /\ scan' = "list"
        /\ UNCHANGED <<tables, job, enabled, completed, objects, ledger, clocks>>

\* Mutant: the cursor is not reset after the last page.
ResolverPageNoWrap ==
    /\ scan = "list"
    /\ row' = [b \in Blobs |-> IF b \in Deletable \cap Owned /\ Page[b] = checkpoint.page
                               THEN [row[b] EXCEPT !.id = TRUE] ELSE row[b]]
    /\ checkpoint' = [checkpoint EXCEPT !.page = @ + 1]
    /\ scan' = IF checkpoint.page = LastPage THEN "complete" ELSE "list"
    /\ UNCHANGED <<batch, member, job, enabled, completed, objects, ledger, clocks>>

\* One page: list_owned_blobs, set_object_ids, then the cursor is saved.
ResolverPage ==
    LET last == checkpoint.page = LastPage
    IN  /\ scan = "list"
        /\ row' = [b \in Blobs |-> IF b \in Deletable \cap Owned /\ Page[b] = checkpoint.page
                                   THEN [row[b] EXCEPT !.id = TRUE] ELSE row[b]]
        /\ checkpoint' = [checkpoint EXCEPT !.page = IF last THEN 1 ELSE @ + 1]
        /\ scan' = IF last THEN "complete" ELSE "list"
        /\ UNCHANGED <<batch, member, job, enabled, completed, objects, ledger, clocks>>

\* complete_resolver_scan, then completed_fence is saved unless the process
\* stops in between.
complete_resolver_scan ==
    /\ scan = "complete"
    /\ row' = [b \in Blobs |-> IF b \in Deletable \cap checkpoint.fence /\ ~row[b].id
                               THEN [row[b] EXCEPT !.state = "not_owner"] ELSE row[b]]
    /\ completed' = checkpoint.fence
    /\ \E saved \in {TRUE, checkpoint.done} :
          checkpoint' = [checkpoint EXCEPT !.done = saved]
    /\ scan' = "idle"
    /\ UNCHANGED <<batch, member, job, enabled, objects, ledger, clocks>>

ResolverStops ==
    /\ scan # "idle"
    /\ scan' = "idle"
    /\ UNCHANGED <<tables, job, enabled, checkpoint, completed, objects, ledger, clocks>>

-------------------------------------------------------------------------------
(* Sui and Walrus.                                                         *)

\* Everything the outside world does counts towards the bound.
Change == changes < MaxChanges /\ changes' = changes + 1

\* A transaction that was sent runs at most once, in its epoch, on the object
\* versions it was built for.
Executable(t) == /\ t \in sent /\ outcome[t] = "none"
                 /\ epoch = batch[t].expire /\ stale_inputs(t) = {}

TxSucceeds(t) ==
    /\ Executable(t) /\ package = batch[t].package
    /\ outcome' = [outcome EXCEPT ![t] = "success"]
    /\ holder' = [b \in Blobs |-> IF b \in InputsOf(t) THEN "gone" ELSE holder[b]]
    /\ UNCHANGED <<tables, job, resolver, version, sent, suspects, clocks>>

\* classify_execution_failure: the culprit of a command, nothing (congestion, a
\* superseded package), or every input.
TxFails(t) ==
    /\ Executable(t)
    /\ \E S \in {{}, InputsOf(t)} \cup {{b} : b \in InputsOf(t)} :
          /\ package # batch[t].package => S = {}
          /\ suspects' = [suspects EXCEPT ![t] = S]
    /\ outcome' = [outcome EXCEPT ![t] = "failure"]
    /\ version' = [b \in Blobs |-> IF b \in InputsOf(t) THEN version[b] + 1 ELSE version[b]]
    /\ Change
    /\ UNCHANGED <<tables, job, resolver, holder, sent, epoch, package, lapsed>>

\* The owner changes the object (to "owner"), gives it away or deletes it.
ObjectChanges(b, to) ==
    /\ holder[b] = "owner" /\ Change
    /\ holder' = [holder EXCEPT ![b] = to]
    /\ version' = [version EXCEPT ![b] = @ + 1]
    /\ UNCHANGED <<tables, job, resolver, ledger, epoch, package, lapsed>>

ClockAdvances ==
    /\ Change
    /\ \/ epoch' = epoch + 1 /\ UNCHANGED <<package, lapsed>>
       \/ package' = package + 1 /\ UNCHANGED <<epoch, lapsed>>
       \/ ~lapsed /\ Expiring # {} /\ lapsed' = TRUE /\ UNCHANGED <<epoch, package>>
    /\ UNCHANGED <<tables, job, resolver, objects, ledger>>

-------------------------------------------------------------------------------

Handler(t) ==
    \/ \E S \in SUBSET Blobs : Claim(t, S)
    \/ resolve_claimed_object_ids(t) \/ CheckObjects(t) \/ Build(t) \/ PrepareFails(t)
    \/ cancel_deletion(t) \/ Submit(t) \/ FreshnessUnread(t) \/ Rejected(t)

Execution(a) ==
    \/ FreshThenExecute(a) \/ Stale(a)
    \/ \E t \in Batches : Settle(a, t) \/ ExamineFailure(a, t)
    \/ job[a].plan # {} /\ \E b \in Blobs, s \in TerminalState : Evict(a, b, s)
    \/ Fail(a) \/ Abandon(a)

Reconciler(r) ==
    \/ \E t \in Batches : ReconcileAwaiting(r, t) \/ ReconcileExecuting(r, t)
    \/ RetryOrExpire(r) \/ run_sweep_page(r)
    \/ job[r].plan # {} /\ \E b \in Blobs, s \in TerminalState : sweep_mark_external(r, b, s)

Resolver == ResolverStart \/ ResolverPage \/ complete_resolver_scan \/ ResolverStops

Environment ==
    \/ \E t \in Batches : TxSucceeds(t) \/ TxFails(t)
    \/ \E b \in Blobs, to \in {"owner", "other", "gone"} : ObjectChanges(b, to)
    \/ ClockAdvances

Next ==
    \/ \E b \in Blobs : InsertEntry(b) \/ CommitEntry(b)
    \/ \E t \in Batches : Handler(t)
    \/ \E a \in Actors : Execution(a)
    \/ \E r \in Reconcilers : Reconciler(r)
    \/ Resolver
    \/ Environment

Spec == Init /\ [][Next]_vars
-------------------------------------------------------------------------------
(* Properties.                                                             *)

\* The rows, the batches and the parties' locals have their types; the cursor
\* of the resolver stays within the pages (jobs_security_delete.rs:591-595).
TypeOK ==
    /\ enabled \in Deployments
    /\ row \in [Blobs -> Row] /\ batch \in [Batches -> Batch]
    /\ member \in [Batches -> [Blobs -> Outcome]] /\ job \in [Actors -> Job]
    /\ checkpoint \in Checkpoint /\ completed \subseteq Blobs /\ scan \in Scan
    /\ holder \in [Blobs -> {"owner", "other", "gone"}] /\ version \in [Blobs -> Nat]
    /\ sent \subseteq Batches /\ outcome \in [Batches -> {"none", "success", "failure"}]
    /\ suspects \in [Batches -> SUBSET Blobs]
    /\ epoch \in Nat /\ package \in Nat /\ lapsed \in BOOLEAN /\ changes \in Nat

\* The current-claim pointer and the lineage ledger agree: a row is being
\* deleted for a batch exactly when that batch holds a live claim on it, only
\* unresolved batches hold claims, and no blob is claimed twice
\* (security_delete_store.rs:324-495, 607-723).
ClaimsExact ==
    /\ \A b \in Blobs, t \in Batches :
         (row[b].state = "deleting" /\ row[b].batch = t) <=> member[t][b] = "claimed"
    /\ \A b \in Blobs : row[b].batch # NoBatch <=> row[b].state = "deleting"
    /\ \A b \in Blobs, t \in Batches : member[t][b] = "claimed" => batch[t].state \in LiveState

\* The stored transaction deletes every blob its batch still holds, whatever was
\* evicted while it was built (security_delete_store.rs:498-527): what its
\* effects finalize was really among its inputs.
TxCoversClaims ==
    \A t \in Batches : batch[t].inputs # {} => RowsOf(t) \subseteq InputsOf(t)

\* What a row or a claim ended as is true of the chain: deleted and
\* deleted_external blobs are gone, and a batch is completed only by the
\* effects of its own transaction, although handler, replay and reconciler all
\* resolve it (routes/security_delete.rs:897-1048, jobs_security_delete.rs:124-231).
TerminalIsTrue ==
    /\ \A b \in Blobs : row[b].state \in {"deleted", "deleted_external"} => holder[b] = "gone"
    /\ \A b \in Blobs : row[b].state = "expired" => lapsed /\ b \in Expiring
    /\ \A t \in Batches, b \in Blobs :
         /\ member[t][b] = "deleted" => outcome[t] = "success" /\ b \in InputsOf(t)
         /\ member[t][b] = "not_owner" => holder[b] # "owner"
    /\ \A t \in Batches : batch[t].state = "completed" => outcome[t] = "success"

\* The resolver gives up only on blobs the owner does not hold, as long as no
\* batch ever claimed them: rows inserted while it scans are fenced off
\* (security_delete_store.rs:836-862, 941-973).
UnclaimedNotOwnerConfirmed ==
    \A b \in Blobs : row[b].state = "not_owner" /\ (\A t \in Batches : member[t][b] = "none")
                     => holder[b] # "owner"

\* No blob the owner still holds is given up as not_owner
\* (jobs_security_delete.rs:498-500).
NotOwnerConfirmed ==
    \A b \in Blobs : row[b].state = "not_owner" => holder[b] # "owner"

\* Terminal rows, resolved batches and resolved claims are never rewritten,
\* whoever comes late with what it read before (security_delete_store.rs:607-723).
ResolvedIsFinal ==
    [][/\ \A b \in Blobs : row[b].state \in TerminalState => row'[b].state = row[b].state
       /\ \A t \in Batches : batch[t].state \in ResolvedState => batch'[t] = batch[t]
       /\ \A t \in Batches, b \in Blobs :
            member[t][b] \notin {"none", "claimed"} => member'[t][b] = member[t][b]]_vars

-------------------------------------------------------------------------------
(* The refinement of DeletionLedger.                                       *)

Over == IF lapsed THEN Expiring ELSE {}
FateOf(state) == CASE state \in {"untracked", "inserting"} -> "new"
                   [] state = "deletable" -> "open"
                   [] state = "deleting" -> "claimed"
                   [] state = "deleted" -> "deleted"
                   [] OTHER -> "closed"
VerdictOf(state) == CASE state = "unused" -> "unused"
                      [] state \in LiveState -> "open"
                      [] state = "completed" -> "done"
                      [] OTHER -> "released"
Fate == [b \in Blobs |-> FateOf(row[b].state)]
Claims == [t \in Batches |-> RowsOf(t)]
Scope == [t \in Batches |-> {b \in Blobs : member[t][b] # "none"}]
Verdicts == [t \in Batches |-> VerdictOf(batch[t].state)]
Executed == {t \in Batches : outcome[t] = "success"}

Ledger == INSTANCE DeletionLedger
          WITH held <- Owned, over <- Over, fate <- Fate, claims <- Claims, scope <- Scope,
               verdict <- Verdicts, executed <- Executed

\* Security delete implements DeletionLedger (routes/security_delete.rs:897-1048,
\* security_delete_store.rs:324-723): whoever resolves a batch and however late
\* its transaction takes effect, the transaction deletes only blobs its batch
\* claimed and all it still claims, and rows are recorded as deleted only
\* together and only by the effects of their own batch.
ImplementsDeletionLedger == Ledger!Spec
===============================================================================

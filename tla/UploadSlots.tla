----------------------------- MODULE UploadSlots ------------------------------
(***************************************************************************)
(* The sidecar's upload limiter (sidecar/concurrency.ts): every route that *)
(* signs with a server wallet takes a slot of that wallet and then one of  *)
(* the whole process, waits for each in a queue of its own, and gives up   *)
(* after a timeout.  Code between two awaits runs without interruption, so *)
(* each action is one such stretch; a promise that is resolved continues   *)
(* in a later one.                                                         *)
(***************************************************************************)
EXTENDS Integers, Sequences, FiniteSets

CONSTANTS
    Requests,    \* bound: requests alive at once
    Keys,        \* key indexes of the server wallets
    MaxActive,   \* WALRUS_UPLOAD_MAX_CONCURRENCY
    PerWallet    \* WALRUS_UPLOAD_PER_WALLET_CONCURRENCY

ASSUME CapacityAssumption == MaxActive \in Nat \ {0} /\ PerWallet \in Nat \ {0}
ASSUME RequestsAssumption == IsFiniteSet(Requests)
ASSUME GlobalAssumption == "global" \notin Keys

VARIABLES
    pc,         \* where each request stands in acquireWalrusUploadSlots
    key,        \* the wallet it signs with
    available,  \* AsyncSemaphore.available, per semaphore
    waiters,    \* AsyncSemaphore.waiters, per semaphore
    queued,     \* queuedWalrusUploads
    active      \* activeWalrusUploads

vars == <<pc, key, available, waiters, queued, active>>

\* One semaphore per wallet and the global one.
Semaphores == Keys \cup {"global"}
Capacity(s) == IF s = "global" THEN MaxActive ELSE PerWallet

\* "atWallet" and "atGlobal" wait in a queue; "hasWallet" and "hasGlobal" have
\* been given the slot and wait to continue; "lateWallet" and "lateGlobal" have
\* timed out and wait to be told.
PCs == {"none", "atWallet", "hasWallet", "atGlobal", "hasGlobal", "active",
        "lateWallet", "lateGlobal"}

Init ==
    /\ pc = [r \in Requests |-> "none"]
    /\ key \in [Requests -> Keys]
    /\ available = [s \in Semaphores |-> Capacity(s)]
    /\ waiters = [s \in Semaphores |-> <<>>]
    /\ queued = 0 /\ active = 0

\* Math.max(0, n - 1)
Dec(n) == IF n > 0 THEN n - 1 ELSE 0

\* The semaphore a waiting request waits for.
AwaitedBy(r) == IF pc[r] = "atWallet" THEN key[r] ELSE "global"

\* A queue without its entry i.
Without(q, i) == [j \in 1 .. Len(q) - 1 |-> IF j < i THEN q[j] ELSE q[j + 1]]

\* Mutant: the last slot is given twice.
AcquireOneMore(r, s, has, at) ==
    /\ pc' = [pc EXCEPT ![r] = IF available[s] >= 0 THEN has ELSE at]
    /\ available' = [available EXCEPT ![s] = @ - 1]
    /\ UNCHANGED waiters

\* AsyncSemaphore.acquire: take a free slot, or join the queue.
Acquire(r, s, has, at) ==
    /\ pc' = [pc EXCEPT ![r] = IF available[s] > 0 THEN has ELSE at]
    /\ available' = [available EXCEPT ![s] = IF @ > 0 THEN @ - 1 ELSE @]
    /\ waiters' = [waiters EXCEPT ![s] = IF available[s] > 0 THEN @ ELSE Append(@, r)]

\* Mutant: a release wakes nobody.
WokenNobody(s, n) == 0

\* How many waiters a drain that finds n free slots wakes.
Woken(s, n) == IF n < Len(waiters[s]) THEN n ELSE Len(waiters[s])

\* AsyncSemaphore.release, then drain, on every semaphore of S; the requests
\* woken continue with the slot they waited for.
Free(s) == IF available[s] < Capacity(s) THEN available[s] + 1 ELSE Capacity(s)
WokenBy(s) == {waiters[s][i] : i \in 1 .. Woken(s, Free(s))}
Release(S) ==
    /\ available' = [s \in Semaphores |->
         IF s \in S THEN Free(s) - Woken(s, Free(s)) ELSE available[s]]
    /\ waiters' = [s \in Semaphores |->
         IF s \in S THEN SubSeq(waiters[s], Woken(s, Free(s)) + 1, Len(waiters[s]))
         ELSE waiters[s]]

\* The control state of every request once r has moved to `to` and the waiters
\* of the released semaphores have been woken.
Moved(r, to, S) ==
    [x \in Requests |->
       IF x = r THEN to
       ELSE IF "global" \in S /\ x \in WokenBy("global") THEN "hasGlobal"
       ELSE IF \E s \in S \ {"global"} : x \in WokenBy(s) THEN "hasWallet"
       ELSE pc[x]]

\* A route handler calls acquireWalrusUploadSlots: the wallet's slot first.
Arrive(r) ==
    /\ pc[r] = "none"
    /\ \E k \in Keys :
         /\ key' = [key EXCEPT ![r] = k]
         /\ Acquire(r, k, "hasWallet", "atWallet")
    /\ queued' = queued + 1
    /\ UNCHANGED active

\* ... then, holding it, the global one.
AcquireGlobal(r) ==
    /\ pc[r] = "hasWallet"
    /\ Acquire(r, "global", "hasGlobal", "atGlobal")
    /\ UNCHANGED <<key, queued, active>>

\* Mutant: the queue counter is not taken down.
EnterStillQueued(r) ==
    /\ pc[r] = "hasGlobal"
    /\ pc' = [pc EXCEPT ![r] = "active"]
    /\ active' = active + 1
    /\ UNCHANGED <<key, available, waiters, queued>>

\* Both slots are held: the handler goes on.
Enter(r) ==
    /\ pc[r] = "hasGlobal"
    /\ pc' = [pc EXCEPT ![r] = "active"]
    /\ queued' = Dec(queued) /\ active' = active + 1
    /\ UNCHANGED <<key, available, waiters>>

\* The route's finally block runs the returned closure.
Leave(r) ==
    /\ pc[r] = "active"
    /\ active' = Dec(active)
    /\ Release({"global", key[r]})
    /\ pc' = Moved(r, "none", {"global", key[r]})
    /\ UNCHANGED <<key, queued>>

\* Mutant: a waiter that timed out stays in its queue.
TimeOutStaysQueued(r) ==
    /\ pc[r] \in {"atWallet", "atGlobal"}
    /\ pc' = [pc EXCEPT ![r] = IF @ = "atWallet" THEN "lateWallet" ELSE "lateGlobal"]
    /\ UNCHANGED <<key, available, waiters, queued, active>>

\* The timer fires: the waiter leaves its queue and the promise is rejected.
TimeOut(r) ==
    /\ pc[r] \in {"atWallet", "atGlobal"}
    /\ \E i \in 1 .. Len(waiters[AwaitedBy(r)]) :
         /\ waiters[AwaitedBy(r)][i] = r
         /\ waiters' = [waiters EXCEPT ![AwaitedBy(r)] = Without(@, i)]
    /\ pc' = [pc EXCEPT ![r] = IF @ = "atWallet" THEN "lateWallet" ELSE "lateGlobal"]
    /\ UNCHANGED <<key, available, queued, active>>

\* Mutant: a request that timed out on the global slot keeps its wallet slot.
GiveUpKeepsWallet(r) ==
    /\ pc[r] \in {"lateWallet", "lateGlobal"}
    /\ queued' = Dec(queued)
    /\ pc' = [pc EXCEPT ![r] = "none"]
    /\ UNCHANGED <<key, available, waiters, active>>

\* The catch block: whatever was acquired is given back.
GiveUp(r) ==
    /\ pc[r] \in {"lateWallet", "lateGlobal"}
    /\ queued' = Dec(queued)
    /\ LET held == IF pc[r] = "lateGlobal" THEN {key[r]} ELSE {} IN
         Release(held) /\ pc' = Moved(r, "none", held)
    /\ UNCHANGED <<key, active>>

Next == \E r \in Requests :
    \/ Arrive(r) \/ AcquireGlobal(r) \/ Enter(r) \/ Leave(r)
    \/ TimeOut(r) \/ GiveUp(r)

Spec == Init /\ [][Next]_vars

\* Fairness: resolved promises continue and a route handler ends.  The timer is
\* not counted on.
FairSpec ==
    /\ Spec
    /\ \A r \in Requests : WF_vars(AcquireGlobal(r) \/ Enter(r) \/ Leave(r) \/ GiveUp(r))

-------------------------------------------------------------------------------
\* Slots are never handed out below zero, queues hold requests, counters count.
TypeOK ==
    /\ pc \in [Requests -> PCs]
    /\ key \in [Requests -> Keys]
    /\ available \in [Semaphores -> Nat]
    /\ waiters \in [Semaphores -> Seq(Requests)]
    /\ queued \in Nat /\ active \in Nat

Awaits(r, s) ==
    IF s = "global" THEN pc[r] = "atGlobal" ELSE pc[r] = "atWallet" /\ key[r] = s

\* A queue holds exactly the requests that wait for its slots, each once: a
\* timer that races a release leaves no waiter behind and wakes none twice.
QueuesExact ==
    \A s \in Semaphores :
      /\ \A i, j \in 1 .. Len(waiters[s]) : waiters[s][i] = waiters[s][j] => i = j
      /\ \A i \in 1 .. Len(waiters[s]) : Awaits(waiters[s][i], s)
      /\ \A r \in Requests : Awaits(r, s) =>
           \E i \in 1 .. Len(waiters[s]) : waiters[s][i] = r

\* Who holds a slot of semaphore s, resolved but not yet running code included.
Holders(s) ==
    IF s = "global" THEN {r \in Requests : pc[r] \in {"hasGlobal", "active"}}
    ELSE {r \in Requests : key[r] = s /\ pc[r] \in
            {"hasWallet", "atGlobal", "hasGlobal", "active", "lateGlobal"}}

\* No slot is leaked and none is minted: through every order of timeouts, wake
\* ups and releases, the free slots and the held ones make up the capacity.
SlotsConserved ==
    \A s \in Semaphores : available[s] + Cardinality(Holders(s)) = Capacity(s)

\* A free slot means an empty queue: no wake-up is lost, and a newcomer never
\* overtakes a request that waits.
NoOvertaking == \A s \in Semaphores : available[s] > 0 => waiters[s] = <<>>

\* The counters the health and metrics routes report are exact.
CountersExact ==
    /\ active = Cardinality({r \in Requests : pc[r] = "active"})
    /\ queued = Cardinality({r \in Requests : pc[r] \notin {"none", "active"}})

\* Holding a wallet slot while waiting for a global one never wedges the
\* limiter: even if no timer ever fires, whoever waits is let in or has given up.
WaitEnds ==
    \A r \in Requests : pc[r] \in {"atWallet", "atGlobal"} ~> pc[r] \in {"active", "none"}
===============================================================================

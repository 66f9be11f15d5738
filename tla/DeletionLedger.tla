---------------------------- MODULE DeletionLedger ----------------------------
(***************************************************************************)
(* What security delete promises the owner of the blobs, without object     *)
(* ids, versions, handlers and retries: a blob is claimed by one batch at a *)
(* time, the transaction of a batch deletes nothing the batch did not claim *)
(* and misses nothing it still claims, a batch is completed all at once and *)
(* only by its own transaction, and what is given up is not the owner's any *)
(* more, is past its end or was claimed before.                            *)
(***************************************************************************)
CONSTANTS Blobs, Batches

VARIABLES
    held,      \* the blobs the owner holds on chain
    over,      \* the blobs past their end
    fate,      \* what is recorded of each blob
    claims,    \* the blobs each batch claims now
    scope,     \* the blobs each batch ever claimed
    verdict,   \* what became of each batch
    executed   \* the batches whose transaction took effect

vars == <<held, over, fate, claims, scope, verdict, executed>>

Init ==
    /\ held = Blobs /\ over = {}
    /\ fate \in [Blobs -> {"new", "open"}]
    /\ claims = [t \in Batches |-> {}] /\ scope = [t \in Batches |-> {}]
    /\ verdict = [t \in Batches |-> "unused"]
    /\ executed = {}

Put(S, f) == fate' = [b \in Blobs |-> IF b \in S THEN f ELSE fate[b]]

Track(b) ==
    /\ fate[b] = "new"
    /\ Put({b}, "open")
    /\ UNCHANGED <<held, over, claims, scope, verdict, executed>>

Claim(t, S) ==
    /\ verdict[t] = "unused" /\ S # {} /\ \A b \in S : fate[b] = "open"
    /\ Put(S, "claimed")
    /\ claims' = [claims EXCEPT ![t] = S] /\ scope' = [scope EXCEPT ![t] = S]
    /\ verdict' = [verdict EXCEPT ![t] = "open"]
    /\ UNCHANGED <<held, over, executed>>

\* A blob leaves its batch.
Drop(t, b) ==
    /\ b \in claims[t] /\ (b \notin held \/ b \in over)
    /\ Put({b}, "closed")
    /\ claims' = [claims EXCEPT ![t] = @ \ {b}]
    /\ UNCHANGED <<held, over, scope, verdict, executed>>

\* The transaction may take effect after its batch was released.
Execute(t, D) ==
    /\ verdict[t] # "unused" /\ t \notin executed
    /\ claims[t] \subseteq D /\ D \subseteq scope[t] \cap held
    /\ held' = held \ D /\ executed' = executed \cup {t}
    /\ UNCHANGED <<over, fate, claims, scope, verdict>>

Resolve(t, v, f) ==
    /\ verdict[t] = "open"
    /\ Put(claims[t], f)
    /\ claims' = [claims EXCEPT ![t] = {}]
    /\ verdict' = [verdict EXCEPT ![t] = v]
    /\ UNCHANGED <<held, over, scope, executed>>

Complete(t) == t \in executed /\ claims[t] \cap held = {} /\ Resolve(t, "done", "deleted")
Release(t) == Resolve(t, "released", "open")

Close(S) ==
    /\ \A b \in S : /\ fate[b] = "open"
                    /\ b \notin held \/ b \in over \/ \E t \in Batches : b \in scope[t]
    /\ Put(S, "closed")
    /\ UNCHANGED <<held, over, claims, scope, verdict, executed>>

\* The owner gives a blob away or deletes it, blobs reach their end.
World ==
    /\ held' \subseteq held /\ over \subseteq over' /\ over' \subseteq Blobs
    /\ UNCHANGED <<fate, claims, scope, verdict, executed>>

Next ==
    \/ World
    \/ \E b \in Blobs : Track(b)
    \/ \E t \in Batches : \/ \E S \in SUBSET Blobs : Claim(t, S) \/ Execute(t, S)
                          \/ \E b \in Blobs : Drop(t, b)
                          \/ Complete(t) \/ Release(t)
    \/ \E S \in SUBSET Blobs : Close(S)

Spec == Init /\ [][Next]_vars
===============================================================================

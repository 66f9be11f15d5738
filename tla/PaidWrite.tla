------------------------------ MODULE PaidWrite -------------------------------
(***************************************************************************)
(* What the write pipeline promises about one memory, without its rows,    *)
(* locks, queues and journals: at most one registration is charged, only a *)
(* charged blob is handed to the user, only a delivered blob becomes       *)
(* searchable, and success is only reported for a searchable one.          *)
(***************************************************************************)
CONSTANT Txs   \* register transactions

VARIABLES
    charged,     \* registrations that succeeded on chain
    delivered,   \* Blob objects the user owns
    searchable,  \* the memory is in the search index
    reported     \* the client is told 'done'

vars == <<charged, delivered, searchable, reported>>

Init == charged = {} /\ delivered = {} /\ ~searchable /\ ~reported

Charge(t) ==
    /\ charged = {}
    /\ charged' = {t}
    /\ UNCHANGED <<delivered, searchable, reported>>

Deliver(t) ==
    /\ t \in charged
    /\ delivered' = delivered \cup {t}
    /\ UNCHANGED <<charged, searchable, reported>>

\* The success report is best effort; it never comes before the index entry.
Finish ==
    /\ delivered # {}
    /\ searchable' = TRUE
    /\ reported' \in {reported, TRUE}
    /\ UNCHANGED <<charged, delivered>>

\* A later error or sweep may take the report back, never what it was about.
Withdraw ==
    /\ reported /\ reported' = FALSE
    /\ UNCHANGED <<charged, delivered, searchable>>

Next ==
    \/ \E t \in Txs : Charge(t) \/ Deliver(t)
    \/ Finish \/ Withdraw

Spec == Init /\ [][Next]_vars
===============================================================================

--------------------------- MODULE MCSecurityDelete ---------------------------
(***************************************************************************)
(* Two blobs on two pages of the owner's objects: b2 is tracked when the   *)
(* model starts and about to expire, b1 is inserted while it runs.  With   *)
(* the reconciler b2 has its object id, with the resolver it is unknown.   *)
(***************************************************************************)
EXTENDS SecurityDelete, TLC

CONSTANTS b1, b2   \* model values

MCPage == b1 :> 2 @@ b2 :> 1

\* One background job at a time: each of them against the handlers.
MCDeployments == {{"reconciler"}, {"resolver"}}
MCKnown == [d \in MCDeployments |-> IF "resolver" \in d THEN {} ELSE {b2}]
MCResolverOnly == {{"resolver"}}
MCNoneKnown == [d \in MCResolverOnly |-> {}]

Symmetry == Permutations(Batches)
===============================================================================

--------------------------- MODULE MCAccountPolicy ----------------------------
(***************************************************************************)
(* One account and two delegates: one root lists the account as active and *)
(* without delegates, the other as inactive with both.                     *)
(***************************************************************************)
EXTENDS AccountPolicy, TLC

CONSTANTS o1, k1, k2, s1, s2   \* model values

MCAccountLeaves == {<<s1, o1, TRUE>>, <<s2, o1, FALSE>>}
MCDelegateLeaves == {<<s2, o1, k1>>, <<s2, o1, k2>>}
MCTotals == {<<0, 0>>, <<1, 0>>, <<1, 2>>}

Symmetry == Permutations(Keys)
===============================================================================

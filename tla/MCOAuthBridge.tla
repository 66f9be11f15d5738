---------------------------- MODULE MCOAuthBridge -----------------------------
(***************************************************************************)
(* Model values for OAuthBridge.  Requests and accounts are only compared   *)
(* for equality; clients and sessions are too, but two of each leave little *)
(* to gain.                                                                 *)
(***************************************************************************)
EXTENDS OAuthBridge, TLC

Symmetry == Permutations(Requests) \cup Permutations(Accounts)
===============================================================================

-------------------------- MODULE MCRegistryChecks --------------------------
(***************************************************************************)
(* TLC instances of RegistryChecks.  Calls, direct checks and readers are  *)
(* interchangeable; clients are not (they are scheduled in name order).    *)
(***************************************************************************)
EXTENDS RegistryChecks, TLC

Interchangeable == Permutations(Calls) \union Permutations(Directs)
=============================================================================

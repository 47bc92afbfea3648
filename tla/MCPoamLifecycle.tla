-------------------------- MODULE MCPoamLifecycle --------------------------
(***************************************************************************)
(* PoamLifecycle on small instances: scans are interchangeable.            *)
(***************************************************************************)
EXTENDS PoamLifecycle, TLC

Interchangeable == Permutations(Scans)
=============================================================================

-------------------------- MODULE MCNodeLifecycle --------------------------
(***************************************************************************)
(* Small instances of NodeLifecycle for TLC.                                *)
(***************************************************************************)
EXTENDS NodeLifecycle, TLC

\* The request goroutines are interchangeable (safety runs only).
ReqSymmetry == Permutations(Req)
=============================================================================

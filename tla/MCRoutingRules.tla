--------------------------- MODULE MCRoutingRules ---------------------------
(***************************************************************************)
(* Small instances of RoutingRules for TLC.                                 *)
(***************************************************************************)
EXTENDS RoutingRules, TLC

\* Request goroutines and addresses are interchangeable.
RulesSymmetry == Permutations(Req) \cup Permutations(Src \ Bad)
=============================================================================

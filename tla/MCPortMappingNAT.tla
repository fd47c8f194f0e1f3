-------------------------- MODULE MCPortMappingNAT --------------------------
(***************************************************************************)
(* Small instances of PortMappingNAT for TLC.                               *)
(***************************************************************************)
EXTENDS PortMappingNAT, TLC

\* Request goroutines and ports are interchangeable.
NATSymmetry == Permutations(Req) \cup Permutations(Port)
=============================================================================

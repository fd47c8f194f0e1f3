---------------------------- MODULE MCNodeConfig ----------------------------
(***************************************************************************)
(* Small instances of NodeConfig for TLC.                                   *)
(***************************************************************************)
EXTENDS NodeConfig

\* The detour_ids that clients send: one, which can agree with the config of
\* its node, contradict it, or stand alone.
OneColumn == {<<1, 2>>}
=============================================================================

------------------------------- MODULE MCDDNS -------------------------------
(***************************************************************************)
(* Small instances of DDNS for TLC.                                         *)
(***************************************************************************)
EXTENDS DDNS
=============================================================================

------------------------------ MODULE MCRemote ------------------------------
(***************************************************************************)
(* Instances of Remote for TLC.                                            *)
(***************************************************************************)
EXTENDS RemoteProperties

CONSTANTS a, f
=============================================================================

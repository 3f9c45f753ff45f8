---------------------------- MODULE MCMacFlight ----------------------------
(***************************************************************************)
(* Small instances of the send engine for TLC.                             *)
(***************************************************************************)
EXTENDS MacFlightProperties, TLC

\* Messages of one class differ only in their name, and so do the neighbours
\* where no gateway is configured.
Symmetry == Permutations(Dm) \cup Permutations(Chan)
=============================================================================

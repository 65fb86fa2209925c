------------------------------ MODULE MCManager ------------------------------
(***************************************************************************)
(* Instances of Manager for TLC.  Profiles of one protocol are alike, so   *)
(* permuting them is sound for the safety runs.                            *)
(***************************************************************************)
EXTENDS Manager, TLC

Symmetry == Permutations(OpenVPN) \cup Permutations(WireGuard)
=============================================================================

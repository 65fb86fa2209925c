---------------------------- MODULE MCStatusPoll ----------------------------
(* A small instance of StatusPoll for TLC, symmetric like MCManager's.     *)
EXTENDS StatusPoll, TLC

Symmetry == Permutations(OpenVPN) \cup Permutations(WireGuard)
=============================================================================

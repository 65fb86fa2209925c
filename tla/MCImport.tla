------------------------------ MODULE MCImport ------------------------------
(* Small instances of Import for TLC.                                      *)
EXTENDS Import, TLC

CONSTANTS a, b, d, x

(* A file alone, two files, a file chosen twice, one with an issue.        *)
BatchesDef == {<<a>>, <<a, b>>, <<d, d>>, <<a, x>>}

(* Profile IDs are drawn at random and requests are alike.                 *)
Interchangeable == Permutations(OpenVPN) \cup Permutations(Calls)
=============================================================================

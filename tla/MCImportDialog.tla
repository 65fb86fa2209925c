--------------------------- MODULE MCImportDialog ---------------------------
(* A small instance of ImportDialog for TLC.                               *)
EXTENDS ImportDialog, TLC

CONSTANTS a, b

BatchesDef == {<<a>>, <<a, b>>}

OneBatch == {<<a>>}

Interchangeable == Permutations(OpenVPN) \cup Permutations(Calls)
=============================================================================

-------------------------- MODULE PublishedLibrary --------------------------
(***************************************************************************)
(* What the store promises its callers, with Library's outcomes as steps:  *)
(* a manifest changes by one legal change at a time, is never written over *)
(* one whose durability is unknown, and a power loss takes back nothing    *)
(* but that last change.                                                   *)
(***************************************************************************)
EXTENDS Library

VARIABLE lib

Init == lib = EmptyLibrary

Write ==
  /\ ~lib.unknown
  /\ \E candidate \in Changes(lib.mem) :
       /\ Legal(candidate)
       /\ \E w \in PublishOutcomes(lib, candidate) : lib' = w.lib

Repair == \E r \in RepairOutcomes(lib) : lib' = r.lib

PowerLoss == lib' \in ReopenedAfterPowerLoss(lib)

Next == Write \/ Repair \/ PowerLoss

Spec == Init /\ [][Next]_lib
=============================================================================

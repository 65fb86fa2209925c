---------------------------- MODULE OwnedProcess ----------------------------
(***************************************************************************)
(* What the OpenVPN supervisor promises about the processes it runs: it    *)
(* owns one at a time, nothing of a process it does not own is on the      *)
(* machine, and it lets go only of a process nothing is left of.           *)
(***************************************************************************)
CONSTANTS Procs, None

VARIABLES slot,     \* the process owned, None when there is none
          present   \* processes of which something is on the machine

vars == <<slot, present>>

Init == slot = None /\ present = {}

Take(i) == slot = None /\ present = {} /\ slot' = i /\ present' = {i}

Vanish(i) == i \in present /\ present' = present \ {i} /\ UNCHANGED slot

Release == slot \in Procs \ present /\ slot' = None /\ UNCHANGED present

Next == (\E i \in Procs : Take(i) \/ Vanish(i)) \/ Release

Spec == Init /\ [][Next]_vars
=============================================================================

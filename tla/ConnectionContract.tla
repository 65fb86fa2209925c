-------------------------- MODULE ConnectionContract --------------------------
(***************************************************************************)
(* What the tunnel manager promises whoever uses it: which tunnels may be  *)
(* up, what the lifecycle that Status builds on says meanwhile, and which  *)
(* profile the library desires.                                            *)
(* A tunnel comes up only while a connection is being opened and nothing   *)
(* else is up; success is reported only of what is true and recorded; a    *)
(* conflict ends only in a disconnection, or when nothing is up.  Steps,   *)
(* gates, copies, observations and compensations do not appear.            *)
(***************************************************************************)
CONSTANTS Profiles, None,
          Outsiders   \* TRUE if others raise tunnels beside the manager

VARIABLES
  up,        \* the profiles whose tunnel, or remains of one, is up
  status,    \* the lifecycle; unknown until startup has been reconciled
  desired,   \* the profile the library desires, None if none
  fallback   \* the one it would desire after a power loss

vars == <<up, status, desired, fallback>>

records == <<desired, fallback>>

Opening == {"connecting", "restoring"}

(* Statuses under which no operation is changing tunnels.                  *)
Ended == {"disconnected", "active", "failed"}

Init == up = {} /\ status = "unknown" /\ desired = None /\ fallback = None

-----------------------------------------------------------------------------
(* Nothing is up but what is desired, unless others raise tunnels.         *)
AsDesired == Outsiders \/ up' \subseteq {desired'}

(* The library has been written, perhaps not for good, or has not.         *)
Written ==
  \E d \in Profiles \cup {None} :
    desired' \in {desired, d} /\ fallback' \in {desired, fallback, d}

(* The record is durable, or it is as it was.                              *)
Kept == UNCHANGED records \/ (Written /\ fallback' = desired')

-----------------------------------------------------------------------------
Connect ==
  /\ status \in Ended
  /\ status' = "connecting"
  /\ UNCHANGED <<up, records>>

(* A backend brings a tunnel up, or leaves remains of one.                 *)
Start(p) ==
  /\ status \in Opening
  /\ up = {} /\ up' = {p}
  /\ \/ status' \in {status, "state_conflict"}
     \/ status' = "active" /\ AsDesired
  /\ UNCHANGED records

(* One goes: stopped, or by itself.                                        *)
Lose ==
  /\ up' \subseteq up
  /\ UNCHANGED <<status, records>>

Write ==
  /\ status \in Opening \cup {"disconnecting"}
  /\ Written
  /\ UNCHANGED <<up, status>>

(* The tunnel is up already, or has come up and been recorded.             *)
Connected ==
  /\ status \in Opening \cup Ended
  /\ status' = "active"
  /\ up' \subseteq up /\ AsDesired
  /\ Outsiders \/ desired' # None
  /\ Kept

(* It is not, and nothing else than what is desired is; or an exit has     *)
(* been dealt with, which lifts a conflict if nothing is left.             *)
Failed ==
  /\ status \notin {"unknown", "disconnecting"}
  /\ status = "state_conflict" => up = {}
  /\ status' = "failed"
  /\ up' \subseteq up /\ AsDesired
  /\ Kept

Disconnect ==
  /\ status \in Ended \cup {"state_conflict"}
  /\ status' = "disconnecting"
  /\ UNCHANGED <<up, records>>

Disconnected ==
  /\ status = "disconnecting"
  /\ status' = "disconnected"
  /\ up = {} /\ UNCHANGED up
  /\ desired' = None /\ fallback' = None

(* The manager no longer knows what is up, or could not say so.            *)
Conflict ==
  /\ status # "unknown"
  /\ status' = "state_conflict"
  /\ up' \subseteq up
  /\ Written

-----------------------------------------------------------------------------
(* Removing a profile that is not up; making the record durable.           *)
Remove ==
  /\ status \in Ended
  /\ desired \notin up
  /\ desired' \in {desired, None} /\ fallback' \in {desired, fallback, None}
  /\ UNCHANGED <<up, status>>

Settle == fallback' = desired /\ UNCHANGED <<up, status, desired>>

(* Startup: what is found up and desired is active, a connection is opened *)
(* only if nothing is up, and a disconnection reported only then.          *)
Reconcile ==
  /\ status = "unknown"
  /\ \/ status' = "active" /\ up \subseteq {desired} /\ desired # None
     \/ status' \in {"restoring", "disconnected", "failed"} /\ up = {}
     \/ status' = "state_conflict"
  /\ UNCHANGED <<up, records>>

NothingToRestore ==
  /\ status = "restoring"
  /\ status' = "disconnected"
  /\ up = {} /\ UNCHANGED <<up, desired>>
  /\ fallback' = desired

(* Requests let in before startup has been reconciled.                     *)
Early ==
  /\ status = "unknown"
  /\ up' \subseteq up \/ (up = {} /\ \E p \in Profiles : up' = {p})
  /\ Written
  /\ UNCHANGED status

(* Somebody else raises a tunnel, while no connection is opened or closed. *)
Outside(p) ==
  /\ Outsiders
  /\ status \notin Opening \cup {"disconnecting"}
  /\ up' = up \cup {p}
  /\ UNCHANGED <<status, records>>

Restart ==
  /\ status' = "unknown"
  /\ up' \subseteq up
  /\ desired' \in {desired, fallback}
  /\ fallback' = desired'

Next ==
  \/ Connect \/ Connected \/ Failed
  \/ Disconnect \/ Disconnected \/ Conflict
  \/ Lose \/ Write \/ Remove \/ Settle
  \/ Reconcile \/ NothingToRestore \/ Early \/ Restart
  \/ \E p \in Profiles : Start(p) \/ Outside(p)

Spec == Init /\ [][Next]_vars
=============================================================================

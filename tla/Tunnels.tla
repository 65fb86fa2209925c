------------------------------- MODULE Tunnels -------------------------------
(***************************************************************************)
(* The two tunnel backends as the manager uses them: what is running, and  *)
(* the outcomes of Observe, Start, Stop and Shutdown.  A backend call is   *)
(* the set of its possible outcomes; the manager serialises the calls, so  *)
(* each is one step.  The state of both backends is one record:            *)
(*   proc    the process the OpenVPN supervisor owns (b.proc);             *)
(*   owner   the profile and copy the OpenVPN adapter owns (a.current);    *)
(*   reaping the copies of OpenVPN processes that exited by themselves     *)
(*           and whose wait goroutine has not yet reported them;           *)
(*   wg      the profiles whose WireGuard interface is present.            *)
(* Sources: src/internal/tunnel/openvpn_adapter.go, openvpn.go and         *)
(* wireguard.go.                                                           *)
(***************************************************************************)
EXTENDS Library, Naturals

CONSTANT Copies   \* private execution copies that can exist at a time

NoOwner == [profile |-> None, copy |-> None]
NoProc  == [profile |-> None, copy |-> None, state |-> "none"]

Owners == [profile : OpenVPN, copy : Copies]

(* running: accepted and ready.  leaving: still ready, but a stop of it    *)
(* failed.  stuck: a process group that is not ready, left by a failed     *)
(* start or stop.  gone: nothing left, not yet released by the supervisor. *)
Procs == [profile : OpenVPN, copy : Copies,
          state : {"running", "leaving", "stuck", "gone"}]

Nets == [proc    : Procs \cup {NoProc},
         owner   : Owners \cup {NoOwner},
         reaping : SUBSET Copies,
         wg      : SUBSET WireGuard]

NothingRuns == [proc |-> NoProc, owner |-> NoOwner, reaping |-> {}, wg |-> {}]

(* The profiles whose tunnel, or remains of one, is on the network.        *)
Up(net) ==
  net.wg \cup (IF net.proc.state \in {"running", "leaving", "stuck"}
               THEN {net.proc.profile} ELSE {})

-----------------------------------------------------------------------------
(* Observe.  A protocol none of whose profiles is installed is not asked.  *)
Seen(result, active) == [result |-> result, active |-> active]

OpenVPNSeen(net, installed) ==
  IF OpenVPN \cap installed = {} \/ net.proc.state \in {"none", "gone"} THEN Seen("ok", {})
  ELSE IF net.proc.state = "stuck" \/ net.owner.profile \notin installed THEN Seen("error", {})
  ELSE Seen("ok", {net.owner.profile})

WireGuardSeen(net, installed) == Seen("ok", net.wg \cap installed)

(* Mutant of Observations: stops at the first protocol with a tunnel.      *)
ObservationsFirstOnly(net, installed) ==
  LET ovpn == OpenVPNSeen(net, installed)
  IN {IF ovpn.result = "error" \/ ovpn.active # {} THEN ovpn ELSE WireGuardSeen(net, installed)}

(* The manager's observe: one protocol after the other; more than one      *)
(* active tunnel is a conflict of its own.                                 *)
Observations(net, installed) ==
  LET ovpn   == OpenVPNSeen(net, installed)
      active == ovpn.active \cup WireGuardSeen(net, installed).active
      failed == Seen("error", {})
  IN IF ovpn.result = "error" THEN {failed}
     ELSE {IF Cardinality(active) > 1 THEN Seen("many", active) ELSE Seen("ok", active)}
            \cup (IF May("observe") /\ WireGuard \cap installed # {} THEN {failed} ELSE {})

-----------------------------------------------------------------------------
(* Start.  "unproved" is ErrCleanupUnproved: the start failed and the      *)
(* backend could not prove that nothing is left of it.                     *)
StartOpenVPN(net, p, c) ==
  IF net.owner # NoOwner \/ net.proc # NoProc
  THEN {[net |-> net, result |-> "failed"]}
  ELSE {[net |-> [net EXCEPT !.proc = [profile |-> p, copy |-> c, state |-> "running"],
                             !.owner = [profile |-> p, copy |-> c]],
         result |-> "ok"]}
       \cup (IF May("start") THEN {[net |-> net, result |-> "failed"]} ELSE {})
       \cup (IF May("unproved")
             THEN {[net |-> [net EXCEPT !.proc = [profile |-> p, copy |-> c, state |-> s]],
                    result |-> "unproved"] : s \in {"stuck", "gone"}}
             ELSE {})

StartWireGuard(net, p) ==
  IF p \in net.wg
  THEN {[net |-> net, result |-> "failed"]}
  ELSE {[net |-> [net EXCEPT !.wg = @ \cup {p}], result |-> "ok"]}
       \cup (IF May("start") THEN {[net |-> net, result |-> "failed"]} ELSE {})
       \cup (IF May("unproved")
             THEN {[net |-> [net EXCEPT !.wg = w], result |-> "unproved"] :
                     w \in {net.wg, net.wg \cup {p}}}
             ELSE {})

BackendStart(net, p, c) ==
  IF p \in OpenVPN THEN StartOpenVPN(net, p, c) ELSE StartWireGuard(net, p)

-----------------------------------------------------------------------------
(* What is left of a process whose stop failed at its last deadline.       *)
Remains(state) == IF state = "stuck" THEN {"stuck", "gone"} ELSE {"leaving", "stuck", "gone"}

(* Mutant of Deactivate: the stopped process is not released.              *)
DeactivateKeepsProcess(net) ==
  {[net |-> [net EXCEPT !.proc.state = "none", !.owner = NoOwner], ok |-> TRUE]}

(* Deactivate of the owned process; the adapter forgets its profile only   *)
(* when the process is proved stopped.                                     *)
Deactivate(net) ==
  {[net |-> [net EXCEPT !.proc = NoProc, !.owner = NoOwner], ok |-> TRUE]}
    \cup (IF May("stop") /\ net.proc.state \notin {"none", "gone"}
          THEN {[net |-> [net EXCEPT !.proc.state = s], ok |-> FALSE] :
                  s \in Remains(net.proc.state)}
          ELSE {})

StopOpenVPN(net, p) ==
  IF net.owner # NoOwner /\ net.owner.profile # p
  THEN {[net |-> net, ok |-> FALSE]}
  ELSE Deactivate(net)

StopWireGuard(net, p) ==
  {[net |-> [net EXCEPT !.wg = @ \ {p}], ok |-> TRUE]}
    \cup (IF May("stop")
          THEN {[net |-> [net EXCEPT !.wg = w], ok |-> FALSE] : w \in {net.wg, net.wg \ {p}}}
          ELSE {})

BackendStop(net, p) ==
  IF p \in OpenVPN THEN StopOpenVPN(net, p) ELSE StopWireGuard(net, p)

-----------------------------------------------------------------------------
(* The OpenVPN process exits by itself; descendants may outlive it.        *)
Exits(net) ==
  {[net EXCEPT !.proc.state = s, !.reaping = @ \cup {net.proc.copy}] :
     s \in {"gone"} \cup (IF May("stop") THEN {"stuck"} ELSE {})}

(* Something a stop failed to remove goes away later, without a report.    *)
Withers(net) ==
  {[net EXCEPT !.proc.state = s] :
     s \in {"stuck", "gone"} \ {net.proc.state}}

(* The wait goroutine of the process that ran from copy c cleans up what   *)
(* is left of it, then the adapter gives up whatever profile it owns.      *)
Reaped(net, c) ==
  LET released == [net EXCEPT !.reaping = @ \ {c}, !.owner = NoOwner]
  IN IF net.proc.copy # c
     THEN {[net |-> released, proved |-> TRUE]}
     ELSE {[net |-> [released EXCEPT !.proc = NoProc], proved |-> TRUE]}
          \cup (IF net.proc.state = "stuck" /\ May("stop")
                THEN {[net |-> [released EXCEPT !.proc.state = s], proved |-> FALSE] :
                        s \in Remains("stuck")}
                ELSE {})

(* OpenVPN dies with the daemon; WireGuard interfaces do not.              *)
AfterDaemonEnds(net) == [NothingRuns EXCEPT !.wg = net.wg]
=============================================================================

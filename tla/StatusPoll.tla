----------------------------- MODULE StatusPoll -----------------------------
(***************************************************************************)
(* A Status request beside the manager's operations.  Status takes no      *)
(* gate: it reads the lifecycle, the manifest, the OpenVPN process, the    *)
(* profile the adapter owns and the WireGuard interfaces one after the     *)
(* other, and any operation may go on between two reads.  Each read is a   *)
(* step of its own here; requests do not affect one another, so there is   *)
(* one.  Left out: which protocols' tooling is installed, the health       *)
(* figures of an active tunnel, and the texts.                             *)
(* Sources: src/internal/manager/manager.go Status and observe,            *)
(* src/internal/tunnel/openvpn_adapter.go and wireguard.go Observe.        *)
(***************************************************************************)
EXTENDS Manager

VARIABLE poll   \* the request, and what has been the case since it began

Phases == {"none", "library", "process", "owner", "interfaces", "answered"}

Answers == Lifecycles \cup {"observation_unavailable"}

(* Of what has been the case, two facts: nothing was up at some moment;    *)
(* a tunnel came up beside another.                                        *)
NoPoll == [phase |-> "none", life |-> "disconnected", installed |-> {}, desired |-> None,
           seen |-> {}, answer |-> "disconnected", empty |-> FALSE, beside |-> FALSE]

Polls == [phase : Phases, life : Lifecycles, installed : SUBSET Profiles,
          desired : Profiles \cup {None}, seen : SUBSET Profiles, answer : Answers,
          empty : BOOLEAN, beside : BOOLEAN]

UnderWay == poll.phase \notin {"none", "answered"}

pollVars == <<vars, poll>>

PollInit == Init /\ poll = NoPoll

-----------------------------------------------------------------------------
(* Lifecycles that Status reports without observing anything.              *)
Outright == {"state_conflict", "starting", "switching", "disconnecting", "restoring"}

Answer(state) ==
  poll' = [NoPoll EXCEPT !.phase = "answered", !.answer = state,
                         !.empty = poll.empty, !.beside = poll.beside]

ReadLifecycle ==
  /\ ~UnderWay
  /\ poll' = IF life.state \in Outright
             THEN [NoPoll EXCEPT !.phase = "answered", !.answer = life.state]
             ELSE [NoPoll EXCEPT !.phase = "library", !.life = life.state,
                                 !.empty = (Up(net) = {})]

(* A protocol without profiles in the manifest is not observed.            *)
ReadLibrary ==
  /\ poll.phase = "library"
  /\ poll' = [poll EXCEPT !.phase = IF OpenVPN \cap Installed = {} THEN "interfaces" ELSE "process",
                          !.installed = Installed, !.desired = lib.mem.desired]

(* Mutant of ReadProcess: a group that is not ready is taken for none.     *)
ReadProcessReadyOnly ==
  /\ poll.phase = "process"
  /\ poll' = [poll EXCEPT !.phase = IF net.proc.state \in {"running", "leaving"}
                                    THEN "owner" ELSE "interfaces"]

(* State of the supervisor; a group that is not ready is an error.         *)
ReadProcess ==
  /\ poll.phase = "process"
  /\ IF net.proc.state = "stuck" THEN Answer("observation_unavailable")
     ELSE poll' = [poll EXCEPT !.phase = IF net.proc.state \in {"none", "gone"}
                                         THEN "interfaces" ELSE "owner"]

(* The profile the adapter owns by now, an identity conflict if it is none *)
(* of those in the manifest.                                               *)
ReadOwner ==
  /\ poll.phase = "owner"
  /\ IF net.owner.profile \notin poll.installed THEN Answer("state_conflict")
     ELSE poll' = [poll EXCEPT !.phase = "interfaces", !.seen = {net.owner.profile}]

(* What Status makes of the active tunnels it has observed.                *)
Verdict(active) ==
  IF active = {} THEN IF poll.life = "failed" THEN "failed" ELSE "disconnected"
  ELSE IF Cardinality(active) > 1 \/ (poll.desired # None /\ poll.desired \notin active)
  THEN "state_conflict" ELSE "active"

ReadInterfaces ==
  /\ poll.phase = "interfaces"
  /\ \/ Answer(Verdict(poll.seen \cup WireGuardSeen(net, poll.installed).active))
     \/ /\ May("observe") /\ WireGuard \cap poll.installed # {}
        /\ \E state \in {"observation_unavailable", "state_conflict"} : Answer(state)

Poll ==
  /\ ReadLifecycle \/ ReadLibrary \/ ReadProcess \/ ReadOwner \/ ReadInterfaces
  /\ UNCHANGED vars

-----------------------------------------------------------------------------
(* A step of the manager, the backends or others meanwhile.                *)
Meanwhile ==
  /\ Next
  /\ poll' = IF DaemonEnds \/ MachineStops THEN NoPoll
             ELSE IF ~UnderWay THEN poll
             ELSE [poll EXCEPT !.empty = @ \/ Up(net') = {},
                               !.beside = @ \/ (Up(net) # {} /\ ~(Up(net') \subseteq Up(net)))]

PollSpec == PollInit /\ [][Poll \/ Meanwhile]_pollVars

-----------------------------------------------------------------------------
(* Status (manager.go) says that nothing is up, disconnected or failed,    *)
(* only if nothing was at some moment since it was asked, though it may    *)
(* read the two protocols in the middle of a switch between them: unless a *)
(* tunnel came up beside another meanwhile, which only others can do.      *)
DownWasTrue ==
  poll.phase = "answered" /\ poll.answer \in {"disconnected", "failed"}
    => poll.empty \/ poll.beside
=============================================================================

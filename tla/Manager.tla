------------------------------- MODULE Manager -------------------------------
(***************************************************************************)
(* The tunnel manager: Connect, Disconnect, Remove, startup restoration,   *)
(* library operations and the handling of unexpected OpenVPN exits, one at *)
(* a time behind the manager's gate, over a library whose writes may fail  *)
(* or be ambiguous (Library) and backends that may fail, fail without      *)
(* proof, or lose their tunnel by themselves (Tunnels), with the daemon or *)
(* the machine going down between any two steps.                           *)
(*                                                                         *)
(* A step is the code between two calls that take time (observe, start,    *)
(* stop, a store write); the gate is the op variable: op = Idle exactly    *)
(* when the gate's token is in its channel.  A request the code refuses    *)
(* without changing anything (busy, not found, conflict) is no step.       *)
(* Source: src/internal/manager/manager.go.                                *)
(***************************************************************************)
EXTENDS Tunnels

CONSTANTS Features,    \* "library": imports and removals; "prefs": startup mode
                       \* changes; "early": requests before startup reconciliation
          MaxReports   \* bound on exits not yet handled by the manager

ASSUME BoundsAssumption == MaxReports \in Nat

(* Profile IDs have a fixed length.                                        *)
ASSUME FiniteAssumption == IsFiniteSet(Profiles)

VARIABLES
  op,          \* the operation that holds the gate, Idle when none does
  life,        \* lifecycle and lifecycleProfile
  lib,         \* the library
  net,         \* the backends
  held,        \* executions: the profile each copy is kept for, None if removed
  events,      \* unexpected exits whose handler waits for the gate
  reconciled   \* ReconcileStartup has taken the gate in this run of the daemon

vars == <<op, life, lib, net, held, events, reconciled>>

-----------------------------------------------------------------------------
Lifecycles == {"disconnected", "starting", "switching", "restoring",
               "disconnecting", "active", "failed", "state_conflict"}

Life(state, profile) == [state |-> state, profile |-> profile]

Steps == {"idle", "recordActive", "stopPrevious", "start", "restore", "forget",
          "record", "compensateStop", "compensateStart", "compensateStore",
          "recover", "stopAll", "clear",
          "startupForget", "startupStart", "startupRecord",
          "startupStop", "startupRepair", "exitRecord"}

(* The operation in progress: its next step, the profile it is for, the    *)
(* tunnel it replaces, the tunnels it has still to stop, and which of its  *)
(* steps have failed.                                                      *)
Op(step, target, previous) ==
  [step |-> step, target |-> target, previous |-> previous, toStop |-> {}, errs |-> {}]

Idle == Op("idle", None, None)

Ops == [step : Steps, target : Profiles \cup {None}, previous : Profiles \cup {None},
        toStop : SUBSET Profiles, errs : SUBSET {"stop", "restore"}]

Events == [profile : OpenVPN, copy : Copies, proved : BOOLEAN]

-----------------------------------------------------------------------------
(* Execution copies.  PrepareExecution names each copy at random: a name   *)
(* something still refers to is never used again.                          *)
Fresh ==
  {c \in Copies : /\ held[c] = None
                  /\ c \notin net.reaping \cup {net.proc.copy, net.owner.copy}
                  /\ \A e \in events : e.copy # c}

(* Mutant of CleanOutcomes: an error is dropped.                           *)
CleanDropsError(copies, S) ==
  {[held |-> [c \in Copies |-> IF c \in S \ kept THEN None ELSE copies[c]], ok |-> TRUE] :
     kept \in IF May("cleanup") THEN SUBSET S ELSE {{}}}

(* Removing the copies in S; a removal that fails leaves its copy tracked. *)
CleanOutcomes(copies, S) ==
  {[held |-> [c \in Copies |-> IF c \in S \ kept THEN None ELSE copies[c]],
    ok |-> kept = {}] :
     kept \in IF May("cleanup") THEN SUBSET S ELSE {{}}}

Tracked(p) == {c \in Copies : held[c] = p}

(* start: prepare a copy, start the backend from it; the copy of a failed  *)
(* start is removed, and one that cannot be removed makes it unproved.     *)
StartOutcomes(p) ==
  LET c == CHOOSE c \in Fresh : TRUE
      Outcome(n, h, r) == [net |-> n, held |-> h, result |-> r]
      kept == [held EXCEPT ![c] = p]
  IN (IF Fresh = {} \/ May("prepare") THEN {Outcome(net, held, "failed")} ELSE {})
     \cup (IF Fresh = {} THEN {}
           ELSE UNION {IF s.result = "ok" THEN {Outcome(s.net, kept, "ok")}
                       ELSE {Outcome(s.net, held, s.result)}
                            \cup (IF May("cleanup") THEN {Outcome(s.net, kept, "unproved")} ELSE {}) :
                         s \in BackendStart(net, p, c)})

(* Mutant of AfterStop: copies are removed whether or not the stop worked. *)
AfterStopCleansAnyway(s, p, copies, own) ==
  {[net |-> s.net, held |-> o.held, ok |-> s.ok /\ o.ok /\ own] :
     o \in CleanOutcomes(copies, Tracked(p))}

(* After a proved stop every copy kept for the profile is removed, except  *)
(* the one the stop itself failed to remove (own is FALSE then).           *)
AfterStop(s, p, copies, own) ==
  IF s.ok
  THEN {[net |-> s.net, held |-> o.held, ok |-> o.ok /\ own] :
          o \in CleanOutcomes(copies, Tracked(p))}
  ELSE {[net |-> s.net, held |-> copies, ok |-> FALSE]}

(* stop: prepare a copy, stop the backend with it and remove it again.     *)
StopOutcomes(p) ==
  LET c == CHOOSE c \in Fresh : TRUE
  IN (IF Fresh = {} \/ May("prepare") THEN {[net |-> net, held |-> held, ok |-> FALSE]} ELSE {})
     \cup (IF Fresh = {} THEN {}
           ELSE UNION {AfterStop(s, p, held, TRUE)
                         \cup (IF May("cleanup") THEN AfterStop(s, p, [held EXCEPT ![c] = p], FALSE)
                               ELSE {}) :
                         s \in BackendStop(net, p)})

(* Mutant of ReconcileOutcomes: the first error is taken for success.      *)
ReconcileDropsError(l, desired, connected) ==
  {[w EXCEPT !.ok = TRUE] : w \in SetConnection(l, desired, connected)}

(* reconcileConnection: write; on an error repair and write once more.     *)
ReconcileOutcomes(l, desired, connected) ==
  UNION {IF w.ok THEN {w}
         ELSE UNION {IF r.ok THEN SetConnection(r.lib, desired, connected) ELSE {r} :
                       r \in RepairOutcomes(w.lib)} :
           w \in SetConnection(l, desired, connected)}

-----------------------------------------------------------------------------
Installed == lib.mem.installed

(* A request finds the gate free.  The server accepts requests before the  *)
(* startup goroutine has run; without "early" none arrives that soon.      *)
Admitted == op = Idle /\ (reconciled \/ "early" \in Features)

(* Mutant of Unconflicted: the conflict is not looked at.                  *)
UnconflictedUnchecked == life.state \in Lifecycles

(* Only Disconnect is admitted in a conflict.                              *)
Unconflicted == life.state # "state_conflict"

Goto(step) == op' = [op EXCEPT !.step = step]

(* The operation ends: it sets the lifecycle and gives the gate back.      *)
Finish(state, profile) == op' = Idle /\ life' = Life(state, profile)

Init ==
  /\ op = Idle
  /\ life = Life("disconnected", None)
  /\ \E i \in SUBSET Profiles, m \in {"manual", "restore"} :
       lib = Durable([EmptyLibrary.mem EXCEPT !.installed = i, !.mode = m])
  /\ net = NothingRuns
  /\ held = [c \in Copies |-> None]
  /\ events = {}
  /\ reconciled = FALSE

-----------------------------------------------------------------------------
(* Connect.  Observes under the gate; the target may be active already, or *)
(* be started on a network proved empty, or replace the one active tunnel. *)
Connect(p) ==
  /\ Admitted
  /\ Unconflicted
  /\ p \in Installed
  /\ \/ May("prepare") /\ Finish("failed", p)
     \/ \E s \in Observations(net, Installed) :
          \/ s.result # "ok" /\ Finish("state_conflict", p)
          \/ s.result = "ok" /\ s.active = {p}
             /\ op' = Op("recordActive", p, None) /\ UNCHANGED life
          \/ s.result = "ok" /\ s.active = {}
             /\ op' = Op("start", p, None) /\ life' = Life("starting", p)
          \/ \E q \in Installed \ {p} :
               /\ s.result = "ok" /\ s.active = {q}
               /\ op' = Op("stopPrevious", p, q) /\ life' = Life("switching", p)
  /\ UNCHANGED <<lib, net, held, events, reconciled>>

(* The target was active already: record it, once more if that fails.      *)
RecordActive ==
  /\ op.step = "recordActive"
  /\ \E w \in SetConnection(lib, op.target, TRUE) :
       \E r \in IF w.ok THEN {w} ELSE ReconcileOutcomes(w.lib, op.target, TRUE) :
         /\ lib' = r.lib
         /\ Finish(IF r.ok THEN "active" ELSE "state_conflict", op.target)
  /\ UNCHANGED <<net, held, events, reconciled>>

StopPrevious ==
  /\ op.step = "stopPrevious"
  /\ \E s \in StopOutcomes(op.previous) :
       /\ net' = s.net /\ held' = s.held
       /\ IF s.ok THEN Goto("start") /\ UNCHANGED life
          ELSE Finish("state_conflict", op.previous)
  /\ UNCHANGED <<lib, events, reconciled>>

(* Mutant of AfterFailedStart: restores whatever the start left behind.    *)
AfterFailedStartRestores(result) == IF op.previous # None THEN "restore" ELSE "idle"

(* Only a start that left nothing behind lets the previous tunnel back.    *)
AfterFailedStart(result) ==
  IF result = "unproved" THEN "forget"
  ELSE IF op.previous # None THEN "restore" ELSE "idle"

StartTarget ==
  /\ op.step = "start"
  /\ \E s \in StartOutcomes(op.target) :
       /\ net' = s.net /\ held' = s.held
       /\ IF s.result = "ok" THEN Goto("record") /\ UNCHANGED life
          ELSE IF AfterFailedStart(s.result) = "idle" THEN Finish("failed", op.target)
          ELSE Goto(AfterFailedStart(s.result)) /\ UNCHANGED life
  /\ UNCHANGED <<lib, events, reconciled>>

RestorePrevious ==
  /\ op.step = "restore"
  /\ \E s \in StartOutcomes(op.previous) :
       /\ net' = s.net /\ held' = s.held
       /\ IF s.result = "ok" THEN Finish("active", op.previous)
          ELSE op' = [op EXCEPT !.step = "forget", !.errs = {"restore"}] /\ UNCHANGED life
  /\ UNCHANGED <<lib, events, reconciled>>

(* What runs is unknown: keep the desired profile, forget the connection.  *)
ForgetConnection ==
  /\ op.step = "forget"
  /\ \E r \in ReconcileOutcomes(lib, IF op.errs = {} THEN lib.mem.desired ELSE op.previous, FALSE) :
       lib' = r.lib
  /\ Finish("state_conflict", op.target)
  /\ UNCHANGED <<net, held, events, reconciled>>

(* Mutant of RecordTarget: reports active though nothing was recorded.     *)
RecordTargetDropsError ==
  /\ op.step = "record"
  /\ \E w \in SetConnection(lib, op.target, TRUE) : lib' = w.lib
  /\ Finish("active", op.target)
  /\ UNCHANGED <<net, held, events, reconciled>>

RecordTarget ==
  /\ op.step = "record"
  /\ \E w \in SetConnection(lib, op.target, TRUE) :
       /\ lib' = w.lib
       /\ IF w.ok THEN Finish("active", op.target) ELSE Goto("compensateStop") /\ UNCHANGED life
  /\ UNCHANGED <<net, held, events, reconciled>>

-----------------------------------------------------------------------------
(* recoverPersistenceFailure: the target could not be recorded, so stop it *)
(* and bring back what was there, in the network and in the library.       *)
CompensateStop ==
  /\ op.step = "compensateStop"
  /\ \E s \in StopOutcomes(op.target) :
       /\ net' = s.net /\ held' = s.held
       /\ op' = [op EXCEPT !.step = IF s.ok /\ op.previous # None THEN "compensateStart"
                                    ELSE "compensateStore",
                           !.errs = IF s.ok THEN {} ELSE {"stop"}]
  /\ UNCHANGED <<life, lib, events, reconciled>>

CompensateStart ==
  /\ op.step = "compensateStart"
  /\ \E s \in StartOutcomes(op.previous) :
       /\ net' = s.net /\ held' = s.held
       /\ op' = [op EXCEPT !.step = "compensateStore",
                           !.errs = IF s.result = "ok" THEN {} ELSE {"restore"}]
  /\ UNCHANGED <<life, lib, events, reconciled>>

(* Mutant of Compensation: the previous profile is not written back.       *)
CompensationForgets(l) == SetConnection(l, None, FALSE)

(* Desired again is the previous profile (none when there was none),       *)
(* connected when it runs again.                                           *)
Compensation(l) == SetConnection(l, op.previous, op.previous # None /\ op.errs = {})

CompensateStore ==
  /\ op.step = "compensateStore"
  /\ \E r \in RepairOutcomes(lib) :
       \E w \in IF r.ok /\ "stop" \notin op.errs
                THEN Compensation(r.lib)
                ELSE {[r EXCEPT !.ok = FALSE]} :
         /\ lib' = w.lib
         /\ IF ~w.ok \/ op.errs # {} THEN Finish("state_conflict", op.target)
            ELSE IF op.previous # None THEN Finish("active", op.previous)
            ELSE Finish("failed", op.target)
  /\ UNCHANGED <<net, held, events, reconciled>>

-----------------------------------------------------------------------------
(* Disconnect.  Stops everything it observes; out of a conflict it first   *)
(* asks the backends to stop what they own when they cannot be observed.   *)
StopObserved(s) == [Op("stopAll", None, None) EXCEPT !.toStop = s.active]

Disconnect ==
  /\ Admitted
  /\ \E s \in Observations(net, Installed) :
       IF s.result # "error"
       THEN op' = StopObserved(s) /\ life' = Life("disconnecting", None)
       ELSE IF life.state = "state_conflict"
       THEN op' = Op("recover", None, None) /\ life' = Life("disconnecting", None)
       ELSE Finish("state_conflict", None)
  /\ UNCHANGED <<lib, net, held, events, reconciled>>

(* shutdownBackends: WireGuard's Shutdown does nothing.                    *)
RecoverBackends ==
  /\ op.step = "recover"
  /\ \E d \in Deactivate(net) :
       /\ net' = d.net
       /\ \E s \in Observations(d.net, Installed) :
            IF s.result = "error" THEN Finish("state_conflict", None)
            ELSE op' = StopObserved(s) /\ UNCHANGED life
  /\ UNCHANGED <<lib, held, events, reconciled>>

(* Mutant of StopNext: a stop that fails is tried again without end.       *)
StopNextRetries ==
  /\ op.step = "stopAll"
  /\ \E p \in op.toStop : \E s \in StopOutcomes(p) :
       /\ net' = s.net /\ held' = s.held
       /\ op' = [op EXCEPT !.toStop = IF s.ok THEN @ \ {p} ELSE @]
  /\ UNCHANGED <<life, lib, events, reconciled>>

StopNext ==
  /\ op.step = "stopAll"
  /\ \E p \in op.toStop : \E s \in StopOutcomes(p) :
       /\ net' = s.net /\ held' = s.held
       /\ op' = [op EXCEPT !.toStop = @ \ {p},
                           !.errs = IF s.ok THEN @ ELSE {"stop"}]
  /\ UNCHANGED <<life, lib, events, reconciled>>

(* Mutant of EveryStopProved: failed stops are not remembered.             *)
EveryStopAssumed == op.toStop = {}

EveryStopProved == op.errs = {}

AllStopped ==
  /\ op.step = "stopAll" /\ op.toStop = {}
  /\ IF ~EveryStopProved THEN Finish("state_conflict", None) /\ UNCHANGED held
     ELSE \E o \in CleanOutcomes(held, Copies) :
            /\ held' = o.held
            /\ IF o.ok THEN Goto("clear") /\ UNCHANGED life ELSE Finish("state_conflict", None)
  /\ UNCHANGED <<lib, net, events, reconciled>>

ClearConnection ==
  /\ op.step = "clear"
  /\ \E r \in ReconcileOutcomes(lib, None, FALSE) :
       /\ lib' = r.lib
       /\ Finish(IF r.ok THEN "disconnected" ELSE "state_conflict", None)
  /\ UNCHANGED <<net, held, events, reconciled>>

-----------------------------------------------------------------------------
(* ReconcileStartup: waits for the gate, once in a run of the daemon.      *)
RestoreDesired(manifest) ==
  IF manifest.mode = "manual" \/ manifest.desired = None
  THEN Finish("disconnected", None)
  ELSE \/ /\ manifest.desired \in manifest.installed
          /\ op' = Op("startupStart", manifest.desired, None)
          /\ life' = Life("restoring", manifest.desired)
       \/ /\ May("prepare") \/ manifest.desired \notin manifest.installed
          /\ Finish("failed", manifest.desired)

StartupBegin ==
  /\ op = Idle
  /\ ~reconciled
  /\ reconciled' = TRUE
  /\ \E s \in Observations(net, Installed) :
       \/ s.result # "ok" /\ Finish("state_conflict", None)
       \/ \E p \in s.active :
            /\ s.result = "ok"
            /\ Finish(IF p = lib.mem.desired THEN "active" ELSE "state_conflict", p)
       \/ /\ s.result = "ok" /\ s.active = {}
          /\ IF lib.mem.connected
             THEN op' = Op("startupForget", None, None) /\ life' = Life("restoring", None)
             ELSE RestoreDesired(lib.mem)
  /\ UNCHANGED <<lib, net, held, events>>

StartupForget ==
  /\ op.step = "startupForget"
  /\ \E r \in ReconcileOutcomes(lib, lib.mem.desired, FALSE) :
       /\ lib' = r.lib
       /\ IF r.ok THEN RestoreDesired(r.lib.mem)
          ELSE Finish("state_conflict", lib.mem.desired)
  /\ UNCHANGED <<net, held, events, reconciled>>

StartupStart ==
  /\ op.step = "startupStart"
  /\ \E s \in StartOutcomes(op.target) :
       /\ net' = s.net /\ held' = s.held
       /\ IF s.result = "ok" THEN Goto("startupRecord") /\ UNCHANGED life
          ELSE Finish(IF s.result = "unproved" THEN "state_conflict" ELSE "failed", op.target)
  /\ UNCHANGED <<lib, events, reconciled>>

StartupRecord ==
  /\ op.step = "startupRecord"
  /\ \E w \in SetConnection(lib, op.target, TRUE) :
       /\ lib' = w.lib
       /\ IF w.ok THEN Finish("active", op.target) ELSE Goto("startupStop") /\ UNCHANGED life
  /\ UNCHANGED <<net, held, events, reconciled>>

StartupStop ==
  /\ op.step = "startupStop"
  /\ \E s \in StopOutcomes(op.target) :
       /\ net' = s.net /\ held' = s.held
       /\ op' = [op EXCEPT !.step = "startupRepair", !.errs = IF s.ok THEN {} ELSE {"stop"}]
  /\ UNCHANGED <<life, lib, events, reconciled>>

StartupRepair ==
  /\ op.step = "startupRepair"
  /\ \E r \in RepairOutcomes(lib) :
       \E w \in IF r.ok /\ op.errs = {} THEN ReconcileOutcomes(r.lib, op.target, FALSE)
                ELSE {[r EXCEPT !.ok = FALSE]} :
         /\ lib' = w.lib
         /\ Finish(IF w.ok THEN "failed" ELSE "state_conflict", op.target)
  /\ UNCHANGED <<net, held, events, reconciled>>

-----------------------------------------------------------------------------
(* handleUnexpectedExit: waits for the gate, then decides whether the exit *)
(* it reports still describes the network.                                 *)
HandleExit(e) ==
  /\ op = Idle
  /\ e \in events
  /\ events' = events \ {e}
  /\ \E o \in CleanOutcomes(held, {e.copy} \cap Tracked(e.profile)) :
       \/ /\ ~e.proved \/ ~o.ok
          /\ held' = o.held
          /\ Finish("state_conflict", e.profile)
       \/ /\ e.proved /\ o.ok
          /\ lib.mem.desired # e.profile
          /\ \E all \in CleanOutcomes(o.held, Tracked(e.profile)) :
               /\ held' = all.held
               /\ IF all.ok THEN UNCHANGED <<op, life>> ELSE Finish("state_conflict", e.profile)
       \/ /\ e.proved /\ o.ok
          /\ lib.mem.desired = e.profile
          /\ \E s \in Observations(net, Installed) :
               \/ s.result = "ok" /\ s.active = {e.profile}
                  /\ held' = o.held /\ UNCHANGED <<op, life>>
               \/ (s.result # "ok" \/ s.active \notin {{}, {e.profile}})
                  /\ held' = o.held /\ Finish("state_conflict", e.profile)
               \/ /\ s.result = "ok" /\ s.active = {}
                  /\ \E all \in CleanOutcomes(o.held, Tracked(e.profile)) :
                       /\ held' = all.held
                       /\ IF ~all.ok THEN Finish("state_conflict", e.profile)
                          ELSE IF ~lib.mem.connected THEN Finish("failed", e.profile)
                          ELSE op' = Op("exitRecord", e.profile, None) /\ UNCHANGED life
  /\ UNCHANGED <<lib, net, reconciled>>

ExitRecord ==
  /\ op.step = "exitRecord"
  /\ \E r \in ReconcileOutcomes(lib, op.target, FALSE) :
       /\ lib' = r.lib
       /\ Finish(IF r.ok THEN "failed" ELSE "state_conflict", op.target)
  /\ UNCHANGED <<net, held, events, reconciled>>

-----------------------------------------------------------------------------
(* Library operations share the gate; a removal refuses an active profile  *)
(* and one whose protocol cannot be observed.                              *)
Remove(p) ==
  /\ "library" \in Features
  /\ Admitted
  /\ Unconflicted
  /\ p \in Installed
  /\ LET s == IF p \in OpenVPN THEN OpenVPNSeen(net, Installed) ELSE WireGuardSeen(net, Installed)
     IN s.result = "ok" /\ p \notin s.active
  /\ \E w \in RemoveProfile(lib, p) : lib' = w.lib
  /\ UNCHANGED <<op, life, net, held, events, reconciled>>

Import(p) ==
  /\ "library" \in Features
  /\ Admitted
  /\ p \notin Installed
  /\ \E w \in PublishProfile(lib, p) : lib' = w.lib
  /\ UNCHANGED <<op, life, net, held, events, reconciled>>

(* SetPreferences does not take the gate.                                  *)
SetPreferences(mode) ==
  /\ "prefs" \in Features
  /\ mode # lib.mem.mode
  /\ \E w \in SetStartupMode(lib, mode) : lib' = w.lib
  /\ UNCHANGED <<op, life, net, held, events, reconciled>>

-----------------------------------------------------------------------------
(* The tunnels' own steps.                                                 *)
Exit ==
  /\ May("exit")
  /\ net.proc.state = "running"
  /\ Cardinality(net.reaping) + Cardinality(events) < MaxReports
  /\ net' \in Exits(net)
  /\ UNCHANGED <<op, life, lib, held, events, reconciled>>

Wither ==
  /\ net.proc.state \in {"leaving", "stuck"}
  /\ net' \in Withers(net)
  /\ UNCHANGED <<op, life, lib, held, events, reconciled>>

(* Mutant of ExitEvents: an exit whose cleanup failed is not reported.     *)
ExitEventsProvedOnly(proved) ==
  IF net.owner = NoOwner \/ ~proved THEN {}
  ELSE {[profile |-> net.owner.profile, copy |-> net.owner.copy, proved |-> TRUE]}

(* The adapter reports the exit as that of the profile it owns now, and    *)
(* reports nothing when it owns none.                                      *)
ExitEvents(proved) ==
  IF net.owner = NoOwner THEN {}
  ELSE {[profile |-> net.owner.profile, copy |-> net.owner.copy, proved |-> proved]}

Report(c) ==
  /\ c \in net.reaping
  /\ \E r \in Reaped(net, c) :
       /\ net' = r.net
       /\ events' = events \cup ExitEvents(r.proved)
  /\ UNCHANGED <<op, life, lib, held, reconciled>>

Drop(w) ==
  /\ May("drop")
  /\ w \in net.wg
  /\ net' = [net EXCEPT !.wg = @ \ {w}]
  /\ UNCHANGED <<op, life, lib, held, events, reconciled>>

(* Somebody runs wg-quick up on an installed profile, while no operation   *)
(* is between its observation and its start: the manager cannot see that.  *)
Raise(w) ==
  /\ May("external")
  /\ op = Idle
  /\ w \in Installed \ net.wg
  /\ net' = [net EXCEPT !.wg = @ \cup {w}]
  /\ UNCHANGED <<op, life, lib, held, events, reconciled>>

-----------------------------------------------------------------------------
(* The daemon ends and is started again; opening the store clears the      *)
(* execution copies.                                                       *)
Restarted ==
  /\ op' = Idle
  /\ life' = Life("disconnected", None)
  /\ held' = [c \in Copies |-> None]
  /\ events' = {}
  /\ reconciled' = FALSE

DaemonEnds ==
  /\ May("crash")
  /\ Restarted
  /\ lib' = Reopened(lib)
  /\ net' = AfterDaemonEnds(net)

MachineStops ==
  /\ May("power")
  /\ Restarted
  /\ lib' \in ReopenedAfterPowerLoss(lib)
  /\ net' = NothingRuns

-----------------------------------------------------------------------------
Request ==
  \/ \E p \in Profiles : Connect(p) \/ Remove(p) \/ Import(p)
  \/ Disconnect
  \/ \E m \in {"manual", "restore"} : SetPreferences(m)

(* The rest of an operation, once it holds the gate.                       *)
Proceed ==
  \/ RecordActive \/ StopPrevious \/ StartTarget \/ RestorePrevious
  \/ ForgetConnection \/ RecordTarget
  \/ CompensateStop \/ CompensateStart \/ CompensateStore
  \/ RecoverBackends \/ StopNext \/ AllStopped \/ ClearConnection
  \/ StartupForget \/ StartupStart \/ StartupRecord \/ StartupStop \/ StartupRepair
  \/ ExitRecord

Network ==
  \/ Exit \/ Wither
  \/ \E c \in Copies : Report(c)
  \/ \E w \in WireGuard : Drop(w) \/ Raise(w)

Next ==
  \/ Request
  \/ Proceed
  \/ StartupBegin
  \/ \E e \in Events : HandleExit(e)
  \/ Network
  \/ DaemonEnds \/ MachineStops

Spec == Init /\ [][Next]_vars

(* Every call an operation makes is bounded by a timeout, so an operation  *)
(* in progress goes on; the wait goroutine of an exited process goes on    *)
(* (a kill is bounded too); a goroutine blocked on the gate is handed the  *)
(* token before any later request can take it, so it gets its turn as      *)
(* often as the gate is given back.                                        *)
Fairness ==
  /\ WF_vars(Proceed)
  /\ \A c \in Copies : WF_vars(Report(c))
  /\ SF_vars(StartupBegin)
  /\ \A c \in Copies : SF_vars(\E e \in Events : e.copy = c /\ HandleExit(e))

FairSpec == Spec /\ Fairness

-----------------------------------------------------------------------------
(* Whatever step of an operation, callback or restart ran last, the state  *)
(* is one manager.go's types and the store's validation allow: the targets *)
(* of its calls are profiles and each copy is kept for at most one.        *)
TypeOK ==
  /\ op \in Ops
  /\ life \in [state : Lifecycles, profile : Profiles \cup {None}]
  /\ lib \in Libraries
  /\ net \in Nets
  /\ held \in [Copies -> Profiles \cup {None}]
  /\ events \subseteq Events
  /\ reconciled \in BOOLEAN

(* No failure of a stop, a start, a restoration or a compensation, and no  *)
(* restart, ever leaves two managed tunnels on the network.                *)
AtMostOneTunnel == \A p, q \in Up(net) : p = q

(* A tunnel comes up only on a network that carries none, whatever others  *)
(* have raised before the operation began.                                 *)
StartsAlone ==
  [][op # Idle => \A p \in Up(net') \ Up(net) : Up(net') = {p}]_vars

(* Once startup has been reconciled, "disconnected" is the truth: the      *)
(* manager never reports it while a tunnel, or remains of one, is up.      *)
DisconnectedIsDown ==
  life.state = "disconnected" /\ reconciled => Up(net) = {}

(* The end of a Disconnect that reports success: nothing observed at its   *)
(* start, and nothing else, is still up.                                   *)
DisconnectEndsDown ==
  [][life.state = "disconnecting" /\ life'.state = "disconnected" /\ reconciled'
       => Up(net') = {}]_vars

(* Between operations, unless a conflict is reported, what runs is what    *)
(* the library says should run.                                            *)
SettledNetworkIsDesired ==
  op = Idle /\ reconciled /\ life.state # "state_conflict" => Up(net) \subseteq {lib.mem.desired}

(* A connection reported active is recorded so that neither a restart nor  *)
(* a power loss forgets which profile is desired.                          *)
ActiveIsRecorded ==
  op = Idle /\ life.state = "active" =>
    \A manifest \in {lib.mem, lib.disk} : manifest.desired = life.profile

(* After a reported disconnection no restart brings a tunnel back.         *)
DisconnectedStaysDown ==
  op = Idle /\ reconciled /\ life.state = "disconnected" =>
    \A manifest \in {lib.mem, lib.disk} : manifest.desired = None \/ manifest.mode = "manual"

(* A reported disconnection leaves no private copy of a profile behind.    *)
DisconnectedLeavesNoCopies ==
  life.state = "disconnected" => \A c \in Copies : held[c] = None

(* The copy a ready OpenVPN process was started from is never removed      *)
(* under it. (StartOutcomes removes the copy of a failed start, also when  *)
(* the process it left is not proved gone.)                                *)
LiveTunnelKeepsItsCopy ==
  net.proc.state \in {"running", "leaving"} => held[net.proc.copy] = net.proc.profile

(* A conflict ends in a Disconnect, in a restart, or when the handling of  *)
(* an exit has proved that nothing is up.                                  *)
ConflictClearedByProof ==
  [][life.state = "state_conflict" /\ life'.state \notin {"state_conflict", "disconnecting"}
       => Up(net') = {} \/ ~reconciled']_vars

(* After a reported disconnection the OpenVPN backend owns nothing, so     *)
(* that the next Connect can start a process.                              *)
DisconnectedReleasesOpenVPN ==
  op = Idle /\ life.state = "disconnected" => net.proc = NoProc /\ net.owner = NoOwner

(* Every operation gives the gate back.                                    *)
OperationsSettle == (op # Idle) ~> (op = Idle)

(* An OpenVPN tunnel that died is not reported active for ever.            *)
DeadTunnelIsNoticed ==
  \A p \in OpenVPN :
    (life = Life("active", p) /\ p \notin Up(net)) ~> (life # Life("active", p) \/ p \in Up(net))

-----------------------------------------------------------------------------
(* The lifecycle as users are told of it, once startup has been            *)
(* reconciled.  Status reports it as it stands during an operation and in  *)
(* a conflict, and otherwise goes by what it observes (StatusPoll).        *)
LifecycleShown ==
  IF ~reconciled THEN "unknown"
  ELSE IF life.state \in {"starting", "switching"} THEN "connecting" ELSE life.state

Visible == INSTANCE ConnectionContract WITH
  Outsiders <- May("external"),
  up        <- Up(net),
  status    <- LifecycleShown,
  desired   <- lib.mem.desired,
  fallback  <- lib.disk.desired

(* Whatever fails, exits or restarts in between, what is up, what the      *)
(* lifecycle says and what the library desires change together, as         *)
(* ConnectionContract promises.                                            *)
ImplementsConnection == Visible!Spec
=============================================================================

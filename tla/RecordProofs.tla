----------------------------- MODULE RecordProofs -----------------------------
(***************************************************************************)
(* Theorems about what the manager reports and what the library records,   *)
(* for every set of profiles, every set of faults and every bound.         *)
(*                                                                         *)
(* The argument: a write that returned no error is durable, so the manager *)
(* may build on it; one that returned an error is followed by another that *)
(* returns none, or by a reported conflict.  Two facts strengthen IInv:    *)
(* Waiting, what a daemon that has not reconciled its startup still has    *)
(* untouched, and Settled, what the library records of the tunnel that is  *)
(* up.  Each theorem names the features and faults it needs absent.  The   *)
(* last one needs none: from both facts, and from Told, what the lifecycle *)
(* says of the operation in progress, every step is one that               *)
(* ConnectionContract promises.                                            *)
(***************************************************************************)
EXTENDS ManagerProofs, FiniteSetTheorems

-----------------------------------------------------------------------------
NoEarly == "early" \notin Features

NoCopies == \A c \in Copies : held[c] = None

(* The profile is the desired one, now and after a power loss.             *)
Recorded(l, p) == l.mem.desired = p /\ (NoEarly => l.disk.desired = p)

(* Before startup has been reconciled nothing has happened yet, provided   *)
(* no request is admitted that soon.                                       *)
Untouched ==
  ~reconciled =>
    /\ op = Idle /\ life.state = "disconnected" /\ NoCopies
    /\ events = {} /\ net.reaping = {} /\ net.proc.state = "none"
    /\ lib.disk.desired = lib.mem.desired
    /\ "prefs" \notin Features => lib.disk = lib.mem

(* An operation in progress is not a conflict, and one that may yet report *)
(* a disconnection keeps no copy.                                          *)
Reported ==
  /\ op.step \notin {"idle", "exitRecord"} => life.state # "state_conflict"
  /\ op.step = "exitRecord" => Up(net) = {}
  /\ op.step \in {"clear", "startupForget"} \/ life.state = "disconnected" => NoCopies

Waiting == NoEarly => Untouched /\ Reported

(* What is up between operations is recorded, and so is what is reported   *)
(* active (until its profile is removed from the library after its tunnel  *)
(* died) and the tunnel that a switch may have to bring back.              *)
Settled ==
  /\ op = Idle /\ reconciled /\ life.state # "state_conflict" => \A p \in Up(net) : Recorded(lib, p)
  /\ op = Idle /\ reconciled /\ life.state = "active" /\ "library" \notin Features
       => Recorded(lib, life.profile)
  /\ reconciled =>
       /\ op.step \in {"stopPrevious", "start", "restore"} /\ op.previous # None
            => Recorded(lib, op.previous)
       /\ op.step = "recordActive" => Up(net) \subseteq {op.target}
       /\ op.step = "compensateStore" /\ op.errs = {} => Up(net) \subseteq {op.previous}
       /\ op.step = "exitRecord" => Up(net) = {}
       /\ op.step = "startupRepair" /\ op.errs = {} => Up(net) = {}

-----------------------------------------------------------------------------
(* The library: a write that reports success is durable.                   *)

(* Store.mutate: what is on disk was published before or is the new        *)
(* manifest, and success means that the new manifest is durable.           *)
LEMMA WriteIsDurable ==
  ASSUME NEW l \in Libraries, NEW m \in Manifests, NEW w \in WriteOutcomes(l, m)
  PROVE  /\ w.ok => w.lib = Durable(m)
         /\ w.lib.disk \in {l.mem, l.disk, m}
<1>1. PICK r \in RepairOutcomes(l) : w \in IF r.ok THEN PublishOutcomes(r.lib, m) ELSE {r}
  BY DEF WriteOutcomes
<1>2. \/ r = [lib |-> l, ok |-> TRUE] \/ r = [lib |-> l, ok |-> FALSE]
      \/ r = [lib |-> Durable(l.mem), ok |-> TRUE]
  BY DEF RepairOutcomes
<1>3. r.lib.mem = l.mem /\ r.lib.disk \in {l.mem, l.disk}
  BY <1>2 DEF Durable
<1>4. CASE r.ok
  <2>1. w \in PublishOutcomes(r.lib, m)
    BY <1>1, <1>4
  <2>2. \/ w = [lib |-> Durable(m), ok |-> TRUE]
        \/ w = [lib |-> [mem |-> m, disk |-> r.lib.mem, unknown |-> TRUE], ok |-> FALSE]
        \/ w = [lib |-> r.lib, ok |-> FALSE]
    BY <2>1 DEF PublishOutcomes
  <2>3. Durable(m).disk = m /\ [mem |-> m, disk |-> r.lib.mem, unknown |-> TRUE].disk = l.mem
    BY <1>3 DEF Durable
  <2>4. w.lib.disk \in {m, l.mem, r.lib.disk}
    BY <2>2, <2>3
  <2>5. w.ok => w.lib = Durable(m)
    BY <2>2
  <2> QED
    BY <1>3, <2>4, <2>5
<1>5. CASE ~r.ok
  BY <1>1, <1>3, <1>5
<1> QED
  BY <1>4, <1>5

(* Store.SetConnection, and reconcileConnection over both of its attempts: *)
(* success means that the desired profile is recorded durably.             *)
LEMMA SetConnectionRecords ==
  ASSUME NEW l \in Libraries, NEW d \in Profiles \cup {None}, NEW c \in BOOLEAN,
         NEW w \in SetConnection(l, d, c)
  PROVE  w.ok => w.lib.mem.desired = d /\ w.lib.disk = w.lib.mem
<1> SUFFICES ASSUME w.ok PROVE w.lib.mem.desired = d /\ w.lib.disk = w.lib.mem
  OBVIOUS
<1>1. Connection(l.mem, d, c) \in Manifests /\ Connection(l.mem, d, c).desired = d
  BY DEF Connection, Libraries, Manifests
<1>2. w.lib = Durable(Connection(l.mem, d, c))
  BY <1>1, WriteIsDurable DEF SetConnection
<1> QED
  BY <1>1, <1>2 DEF Durable

(* The same of reconcileConnection.                                        *)
LEMMA ReconcileRecords ==
  ASSUME NEW l \in Libraries, NEW d \in Profiles \cup {None}, NEW c \in BOOLEAN,
         NEW w \in ReconcileOutcomes(l, d, c)
  PROVE  w.ok => w.lib.mem.desired = d /\ w.lib.disk = w.lib.mem
<1> SUFFICES ASSUME w.ok PROVE w.lib.mem.desired = d /\ w.lib.disk = w.lib.mem
  OBVIOUS
<1>1. PICK v \in SetConnection(l, d, c) :
        w \in IF v.ok THEN {v}
              ELSE UNION {IF r.ok THEN SetConnection(r.lib, d, c) ELSE {r} :
                            r \in RepairOutcomes(v.lib)}
  BY DEF ReconcileOutcomes
<1>2. v.lib \in Libraries
  BY SetConnectionKeepsInstalled
<1>3. CASE v.ok
  BY <1>1, <1>3, SetConnectionRecords
<1>4. CASE ~v.ok
  <2>1. PICK r \in RepairOutcomes(v.lib) : w \in IF r.ok THEN SetConnection(r.lib, d, c) ELSE {r}
    BY <1>1, <1>4
  <2>2. r.lib \in Libraries
    BY <1>2, RepairKeepsManifest
  <2>3. w \in SetConnection(r.lib, d, c)
    BY <2>1
  <2> QED
    BY <2>2, <2>3, SetConnectionRecords
<1> QED
  BY <1>3, <1>4

(* An observation without an error shows only what is up.                  *)
LEMMA ObservedIsUp ==
  ASSUME IInv, NEW s \in Observations(net, Installed), s.result # "error"
  PROVE  s.active \subseteq Up(net)
<1> USE InvFacts
<1>1. /\ s.active = OpenVPNSeen(net, Installed).active \cup WireGuardSeen(net, Installed).active
      /\ OpenVPNSeen(net, Installed).result # "error"
  BY DEF Observations, Seen
<1>2. WireGuardSeen(net, Installed).active \subseteq Up(net)
  BY DEF WireGuardSeen, Seen, Up
<1>3. OpenVPNSeen(net, Installed).active \subseteq Up(net)
  <2>1. SUFFICES ASSUME OpenVPNSeen(net, Installed).active # {}
                 PROVE  OpenVPNSeen(net, Installed).active \subseteq Up(net)
    OBVIOUS
  <2>2. /\ net.proc.state \notin {"none", "gone", "stuck"}
        /\ net.owner.profile \in Installed
        /\ OpenVPNSeen(net, Installed).active = {net.owner.profile}
    BY <1>1, <2>1 DEF OpenVPNSeen, Seen
  <2>3. net.proc.state \in {"running", "leaving"} /\ net.owner # NoOwner
    BY <2>2 DEF Sound, Nets, Procs, NoProc, NoOwner
  <2> QED
    BY <2>2, <2>3 DEF Sound, Matched, Up
<1> QED
  BY <1>1, <1>2, <1>3

(* Removing copies leaves each as it was or removed; without an error none *)
(* that was to be removed is left.                                         *)
LEMMA CleanShrinks ==
  ASSUME NEW copies, NEW S, NEW o \in CleanOutcomes(copies, S)
  PROVE  \A c \in Copies : /\ o.held[c] \in {copies[c], None}
                           /\ o.ok /\ c \in S => o.held[c] = None
<1>1. PICK kept \in SUBSET S :
        o = [held |-> [c \in Copies |-> IF c \in S \ kept THEN None ELSE copies[c]],
             ok |-> kept = {}]
  BY DEF CleanOutcomes
<1> QED
  BY <1>1

-----------------------------------------------------------------------------
(* What a daemon that waits for its startup has untouched, and what an     *)
(* operation in progress may report.                                       *)

(* The end of an operation that reports no disconnection.                  *)
LEMMA ReportKeepsWaiting ==
  ASSUME NEW state, NEW p, Finish(state, p), reconciled', state = "disconnected" => NoCopies'
  PROVE  Waiting'
BY DEF Finish, Life, Idle, Op, Waiting, Untouched, Reported

(* A step after which the operation goes on.                               *)
LEMMA ProgressKeepsWaiting ==
  ASSUME op'.step \notin {"idle", "exitRecord", "clear", "startupForget"}, reconciled',
         life'.state # "state_conflict", life'.state = "disconnected" => NoCopies'
  PROVE  Waiting'
BY DEF Waiting, Untouched, Reported

(* An operation in progress runs after startup has begun to be reconciled, *)
(* and has not reported anything.                                          *)
LEMMA InProgress ==
  ASSUME IInv, NoEarly, Waiting, op.step # "idle"
  PROVE  /\ reconciled
         /\ op.step # "exitRecord" => life.state # "state_conflict"
         /\ op.step \notin {"recordActive", "exitRecord"} => life.state # "disconnected"
BY DEF IInv, LifeKnown, Waiting, Untouched, Reported, Idle, Op

(* The decision whether to restore the desired profile.                    *)
LEMMA RestoreDesiredKeepsWaiting ==
  ASSUME NEW manifest, RestoreDesired(manifest), NoCopies', reconciled'
  PROVE  Waiting'
<1>1. ASSUME NEW state, NEW p, Finish(state, p) PROVE Waiting'
  BY <1>1, ReportKeepsWaiting
<1>2. ASSUME NEW p, op' = Op("startupStart", p, None), life' = Life("restoring", p) PROVE Waiting'
  BY <1>2, ProgressKeepsWaiting DEF Op, Life
<1> QED
  BY <1>1, <1>2 DEF RestoreDesired

(* What a step of an operation in progress makes of the lifecycle: it ends *)
(* the operation, reporting no disconnection, or reports nothing yet; the  *)
(* three other steps are those that may lead to a disconnection.           *)
LEMMA ProceedReports ==
  ASSUME IInv, Proceed
  PROVE  /\ op.step # "idle" /\ reconciled' = reconciled
         /\ \/ \E p : \E state \in {"active", "failed", "state_conflict"} : Finish(state, p)
            \/ /\ UNCHANGED life
               /\ op.step \notin {"recordActive", "exitRecord"}
               /\ op'.step \notin {"idle", "exitRecord", "clear", "startupForget"}
            \/ AllStopped \/ ClearConnection \/ StartupForget
<1> USE InvFacts
<1>1. CASE RecordActive \/ ForgetConnection \/ CompensateStore \/ StartupRepair \/ ExitRecord
  BY <1>1 DEF RecordActive, ForgetConnection, CompensateStore, StartupRepair, ExitRecord
<1>2. CASE StopPrevious \/ RecordTarget
  BY <1>2 DEF StopPrevious, RecordTarget, Goto, Ops
<1>3. CASE StartTarget \/ RestorePrevious
  BY <1>3 DEF StartTarget, RestorePrevious, AfterFailedStart, Goto, Ops
<1>4. CASE CompensateStop \/ CompensateStart
  <2>1. op'.step \in {"compensateStart", "compensateStore"} /\ UNCHANGED life
    BY <1>4 DEF CompensateStop, CompensateStart, Ops
  <2> QED
    BY <1>4, <2>1 DEF CompensateStop, CompensateStart
<1>5. CASE StartupStart \/ StartupRecord \/ StartupStop \/ RecoverBackends \/ StopNext
  BY <1>5 DEF StartupStart, StartupRecord, StartupStop, RecoverBackends, StopNext,
              StopObserved, Op, Goto, Ops
<1>6. CASE AllStopped \/ ClearConnection \/ StartupForget
  BY <1>6 DEF AllStopped, ClearConnection, StartupForget
<1> QED
  BY <1>1, <1>2, <1>3, <1>4, <1>5, <1>6 DEF Proceed

(* Every step of an operation in progress.                                 *)
LEMMA ProceedKeepsWaiting == ASSUME IInv, NoEarly, Waiting, Proceed PROVE Waiting'
<1> USE InvFacts
<1>1. op.step # "idle" /\ reconciled'
  BY ProceedReports, InProgress
<1>2. ASSUME NEW state, NEW p, Finish(state, p), state # "disconnected" PROVE Waiting'
  BY <1>1, <1>2, ReportKeepsWaiting
<1>3. ASSUME op.step \notin {"recordActive", "exitRecord"}, UNCHANGED life,
             op'.step \notin {"idle", "exitRecord", "clear", "startupForget"}
      PROVE  Waiting'
  BY <1>1, <1>3, InProgress, ProgressKeepsWaiting
<1>4. CASE AllStopped
  <2>1. life.state \notin {"disconnected", "state_conflict"}
    BY <1>4, InProgress DEF AllStopped
  <2>2. CASE ~EveryStopProved
    BY <1>2, <1>4, <2>2 DEF AllStopped
  <2>3. CASE EveryStopProved
    <3>1. PICK o \in CleanOutcomes(held, Copies) :
            /\ held' = o.held
            /\ IF o.ok THEN Goto("clear") /\ UNCHANGED life ELSE Finish("state_conflict", None)
      BY <1>4, <2>3 DEF AllStopped
    <3>2. CASE o.ok
      <4>1. NoCopies' /\ op'.step = "clear" /\ UNCHANGED life
        BY <3>1, <3>2, CleanShrinks DEF NoCopies, Goto, Ops
      <4> QED
        BY <1>1, <2>1, <4>1 DEF Waiting, Untouched, Reported
    <3>3. CASE ~o.ok
      BY <1>2, <3>1, <3>3
    <3> QED
      BY <3>2, <3>3
  <2> QED
    BY <2>2, <2>3
<1>5. CASE ClearConnection \/ StartupForget
  <2>1. NoCopies'
    BY <1>5 DEF ClearConnection, StartupForget, NoCopies, Waiting, Reported
  <2>2. \/ \E state, p : Finish(state, p)
        \/ \E manifest : RestoreDesired(manifest)
    BY <1>5 DEF ClearConnection, StartupForget
  <2> QED
    BY <1>1, <2>1, <2>2, ReportKeepsWaiting, RestoreDesiredKeepsWaiting
<1> QED
  BY <1>2, <1>3, <1>4, <1>5, ProceedReports

(* A new request: it is admitted only once startup is being reconciled.    *)
LEMMA RequestKeepsWaiting == ASSUME IInv, NoEarly, Waiting, Request PROVE Waiting'
<1> USE InvFacts
<1>1. Admitted => reconciled /\ op = Idle
  BY DEF Admitted, NoEarly
<1>2. Idle.step = "idle"
  BY DEF Idle, Op
<1>3. ASSUME reconciled', UNCHANGED <<op, life, held>>, op = Idle PROVE Waiting'
  BY <1>2, <1>3 DEF Waiting, Untouched, Reported, NoCopies
<1>4. ASSUME NEW p \in Profiles, Connect(p) PROVE Waiting'
  <2>1. reconciled' /\ UNCHANGED held /\ life.state # "state_conflict"
    BY <1>1, <1>4 DEF Connect, Unconflicted
  <2>2. \/ Finish("failed", p) \/ Finish("state_conflict", p)
        \/ op' = Op("recordActive", p, None) /\ UNCHANGED life
        \/ op' = Op("start", p, None) /\ life' = Life("starting", p)
        \/ \E q \in Profiles : op' = Op("stopPrevious", p, q) /\ life' = Life("switching", p)
    BY <1>4, Zenon DEF Connect
  <2>3. life.state = "disconnected" => NoCopies'
    BY <2>1 DEF Waiting, Reported, NoCopies
  <2>4. CASE Finish("failed", p) \/ Finish("state_conflict", p)
    BY <2>1, <2>4, ReportKeepsWaiting
  <2>5. CASE op' = Op("recordActive", p, None) /\ UNCHANGED life
    BY <2>1, <2>3, <2>5, ProgressKeepsWaiting DEF Op
  <2>6. CASE op' = Op("start", p, None) /\ life' = Life("starting", p)
    BY <2>1, <2>6, ProgressKeepsWaiting DEF Op, Life
  <2>7. ASSUME NEW q \in Profiles, op' = Op("stopPrevious", p, q), life' = Life("switching", p)
        PROVE  Waiting'
    BY <2>1, <2>7, ProgressKeepsWaiting DEF Op, Life
  <2> QED
    BY <2>2, <2>4, <2>5, <2>6, <2>7
<1>5. CASE Disconnect
  <2>1. reconciled'
    BY <1>1, <1>5 DEF Disconnect
  <2>2. \/ Finish("state_conflict", None)
        \/ op'.step \in {"stopAll", "recover"} /\ life'.state = "disconnecting"
    BY <1>5 DEF Disconnect, StopObserved, Op, Life
  <2> QED
    BY <2>1, <2>2, ReportKeepsWaiting, ProgressKeepsWaiting
<1>6. ASSUME NEW p \in Profiles, Remove(p) \/ Import(p) PROVE Waiting'
  BY <1>1, <1>3, <1>6 DEF Remove, Import
<1>7. ASSUME NEW m \in {"manual", "restore"}, SetPreferences(m) PROVE Waiting'
  <2>1. UNCHANGED <<op, life, net, held, events, reconciled>> /\ "prefs" \in Features
    BY <1>7 DEF SetPreferences
  <2> DEFINE moded == [lib.mem EXCEPT !.mode = m]
  <2>2. moded \in Manifests /\ moded.desired = lib.mem.desired
    BY DEF Manifests
  <2>3. PICK w \in WriteOutcomes(lib, moded) : lib' = w.lib
    BY <1>7 DEF SetPreferences, SetStartupMode
  <2> HIDE DEF moded
  <2>4. lib'.mem \in {lib.mem, moded} /\ lib'.disk \in {lib.mem, lib.disk, moded}
    BY <2>2, <2>3, WriteLeavesEither, WriteIsDurable
  <2>5. lib.disk.desired = lib.mem.desired => lib'.disk.desired = lib'.mem.desired
    BY <2>2, <2>4
  <2> QED
    BY <2>1, <2>5 DEF Waiting, Untouched, Reported, NoCopies
<1> QED
  BY <1>4, <1>5, <1>6, <1>7 DEF Request

(* The startup's own first step.                                           *)
LEMMA StartupBeginKeepsWaiting == ASSUME NoEarly, Waiting, StartupBegin PROVE Waiting'
<1>1. reconciled' /\ NoCopies'
  BY DEF StartupBegin, Waiting, Untouched, NoCopies
<1>2. \/ \E state, p : Finish(state, p)
      \/ op' = Op("startupForget", None, None) /\ life' = Life("restoring", None)
      \/ RestoreDesired(lib.mem)
  BY DEF StartupBegin
<1>3. ASSUME op' = Op("startupForget", None, None), life' = Life("restoring", None) PROVE Waiting'
  BY <1>1, <1>3 DEF Op, Life, Waiting, Untouched, Reported
<1> QED
  BY <1>1, <1>2, <1>3, ReportKeepsWaiting, RestoreDesiredKeepsWaiting

(* What the handling of an exit makes of the operation and the lifecycle:  *)
(* it finishes, changes neither, or goes on to record on a network that it *)
(* has seen empty; it never adds a copy.                                   *)
LEMMA HandledExit ==
  ASSUME IInv, NEW e \in Events, HandleExit(e)
  PROVE  /\ op = Idle /\ UNCHANGED <<lib, net, reconciled>>
         /\ \A c \in Copies : held'[c] \in {held[c], None}
         /\ \/ Finish("state_conflict", e.profile)
            \/ UNCHANGED <<op, life>>
            \/ Up(net) = {} /\ Finish("failed", e.profile)
            \/ /\ Up(net) = {} /\ op' = Op("exitRecord", e.profile, None) /\ UNCHANGED life
<1> USE InvFacts
<1>1. op = Idle /\ UNCHANGED <<lib, net, reconciled>>
  BY DEF HandleExit
<1>2. PICK o \in CleanOutcomes(held, {e.copy} \cap Tracked(e.profile)) :
        \/ held' = o.held /\ Finish("state_conflict", e.profile)
        \/ held' = o.held /\ UNCHANGED <<op, life>>
        \/ \E all \in CleanOutcomes(o.held, Tracked(e.profile)) :
             /\ held' = all.held
             /\ UNCHANGED <<op, life>> \/ Finish("state_conflict", e.profile)
        \/ \E s \in Observations(net, Installed) :
             /\ s.result = "ok" /\ s.active = {}
             /\ \E all \in CleanOutcomes(o.held, Tracked(e.profile)) :
                  /\ held' = all.held
                  /\ \/ \E state \in {"state_conflict", "failed"} : Finish(state, e.profile)
                     \/ op' = Op("exitRecord", e.profile, None) /\ UNCHANGED life
  BY DEF HandleExit
<1>3. \A c \in Copies : o.held[c] \in {held[c], None}
  BY CleanShrinks
<1>4. ASSUME NEW all \in CleanOutcomes(o.held, Tracked(e.profile))
      PROVE  \A c \in Copies : all.held[c] \in {held[c], None}
  BY <1>3, CleanShrinks
<1>5. \A c \in Copies : held'[c] \in {held[c], None}
  BY <1>2, <1>3, <1>4
<1>6. ASSUME NEW s \in Observations(net, Installed), s.result = "ok", s.active = {}
      PROVE  Up(net) = {}
  BY <1>6, ObservationsSeeAll
<1> QED
  BY <1>1, <1>2, <1>5, <1>6

(* The handling of an exit: there is none before startup.                  *)
LEMMA HandleExitKeepsWaiting ==
  ASSUME IInv, NoEarly, Waiting, NEW e \in Events, HandleExit(e) PROVE Waiting'
<1>1. reconciled'
  BY DEF HandleExit, Waiting, Untouched
<1>2. NoCopies => NoCopies'
  BY HandledExit DEF NoCopies
<1>3. life.state = "disconnected" => NoCopies
  BY DEF Waiting, Reported
<1>4. CASE UNCHANGED <<op, life>> /\ op = Idle
  BY <1>1, <1>2, <1>3, <1>4 DEF Waiting, Untouched, Reported, Idle, Op
<1>5. CASE Up(net') = {} /\ op' = Op("exitRecord", e.profile, None) /\ UNCHANGED life
  BY <1>1, <1>2, <1>3, <1>5 DEF Waiting, Untouched, Reported, Op
<1>6. ASSUME NEW state \in {"state_conflict", "failed"}, Finish(state, e.profile) PROVE Waiting'
  BY <1>1, <1>6, ReportKeepsWaiting
<1>7. op = Idle /\ Up(net') = Up(net)
  BY HandledExit
<1>8. \/ Finish("state_conflict", e.profile)
      \/ UNCHANGED <<op, life>>
      \/ Up(net) = {} /\ Finish("failed", e.profile)
      \/ /\ Up(net) = {} /\ op' = Op("exitRecord", e.profile, None) /\ UNCHANGED life
  BY HandledExit
<1> QED
  BY <1>4, <1>5, <1>6, <1>7, <1>8

(* The network's own steps: before startup only WireGuard has any.         *)
LEMMA NetworkKeepsWaiting == ASSUME IInv, NoEarly, Waiting, Network PROVE Waiting'
<1> USE InvFacts
<1>1. UNCHANGED <<op, life, lib, held, reconciled>>
  BY DEF Network, Exit, Wither, Report, Drop, Raise
<1>2. CASE Exit \/ Wither \/ \E c \in Copies : Report(c)
  <2>1. reconciled'
    BY <1>2 DEF Exit, Wither, Report, Waiting, Untouched
  <2>2. Up(net') \subseteq Up(net)
    BY <1>2, NetworkStepsAreSound, ReapedIsSound DEF Exit, Wither, Report
  <2> QED
    BY <1>1, <2>1, <2>2 DEF Waiting, Untouched, Reported, NoCopies
<1>3. ASSUME NEW w \in WireGuard, Drop(w) \/ Raise(w) PROVE Waiting'
  <2>1. UNCHANGED events /\ net'.reaping = net.reaping /\ net'.proc = net.proc
    BY <1>3 DEF Drop, Raise, Sound, Nets
  <2>2. op.step = "exitRecord" => Up(net') \subseteq Up(net)
    BY <1>3, NetworkStepsAreSound DEF Drop, Raise, Idle, Op
  <2> QED
    BY <1>1, <2>1, <2>2 DEF Waiting, Untouched, Reported, NoCopies
<1> QED
  BY <1>2, <1>3 DEF Network

(* A restart leaves a daemon that waits for its startup.                   *)
LEMMA RestartKeepsWaiting == ASSUME DaemonEnds \/ MachineStops PROVE Waiting'
<1>1. /\ op' = Idle /\ life' = Life("disconnected", None) /\ NoCopies' /\ events' = {}
  BY DEF DaemonEnds, MachineStops, Restarted, NoCopies
<1>2. lib'.disk = lib'.mem
  BY DEF DaemonEnds, MachineStops, Reopened, ReopenedAfterPowerLoss, Durable
<1>3. net'.reaping = {} /\ net'.proc.state = "none"
  BY DEF DaemonEnds, MachineStops, AfterDaemonEnds, NothingRuns, NoProc
<1> QED
  BY <1>1, <1>2, <1>3 DEF Waiting, Untouched, Reported, Idle, Op, Life

(* Unless requests are admitted before startup is reconciled, the daemon   *)
(* has nothing to lose until then, and no operation reports before its     *)
(* end: the invariant the theorems about records rest on.                  *)
THEOREM WaitingInvariant == Spec => []Waiting
<1>1. Init => Waiting
  <2> SUFFICES ASSUME Init PROVE Waiting
    OBVIOUS
  <2>1. lib.disk = lib.mem /\ Idle.step = "idle"
    BY DEF Init, Durable, Idle, Op
  <2> QED
    BY <2>1 DEF Init, Waiting, Untouched, Reported, NoCopies, NothingRuns, NoProc, Life
<1>2. IInv /\ Waiting /\ [Next]_vars => Waiting'
  <2> SUFFICES ASSUME IInv, Waiting, [Next]_vars PROVE Waiting'
    OBVIOUS
  <2>1. CASE ~NoEarly
    BY <2>1 DEF Waiting
  <2>2. CASE NoEarly /\ UNCHANGED vars
    BY <2>2 DEF vars, Waiting, Untouched, Reported, NoCopies
  <2>3. CASE NoEarly /\ Next
    BY <2>3, RequestKeepsWaiting, ProceedKeepsWaiting, StartupBeginKeepsWaiting,
       HandleExitKeepsWaiting, NetworkKeepsWaiting, RestartKeepsWaiting DEF Next
  <2> QED
    BY <2>1, <2>2, <2>3
<1> QED
  BY <1>1, <1>2, InductiveInvariant, PTL DEF Spec

(* After a Disconnect that reports success no private execution copy is    *)
(* left, whichever removals failed on the way.                             *)
THEOREM NoCopiesLeft ==
  ASSUME "early" \notin Features PROVE Spec => []DisconnectedLeavesNoCopies
<1>1. IInv /\ Waiting => DisconnectedLeavesNoCopies
  BY DEF Waiting, NoEarly, Reported, NoCopies, DisconnectedLeavesNoCopies
<1> QED
  BY <1>1, InductiveInvariant, WaitingInvariant, PTL

-----------------------------------------------------------------------------
(* How a conflict ends.                                                    *)

(* Once startup has begun, only the handling of an exit ends a conflict    *)
(* without a Disconnect, and only on a network it has seen empty.          *)
LEMMA ConflictEnds ==
  ASSUME IInv, NoEarly, Waiting, [Next]_vars, life.state = "state_conflict",
         life'.state \notin {"state_conflict", "disconnecting"}, reconciled'
  PROVE  Up(net') = {}
<1> USE InvFacts
<1>1. \A state, p : Finish(state, p) => life'.state = state
  BY DEF Finish, Life
<1>2. ASSUME Request PROVE FALSE
  <2>1. CASE Disconnect
    BY <1>1, <2>1 DEF Disconnect, Life
  <2> QED
    BY <1>2, <2>1 DEF Request, Connect, Unconflicted, Remove, Import, SetPreferences
<1>3. CASE Proceed
  <2>1. op.step = "exitRecord"
    BY <1>3, ProceedReports, InProgress
  <2>2. ExitRecord
    BY <1>3, <2>1 DEF Proceed, RecordActive, StopPrevious, StartTarget, RestorePrevious,
       ForgetConnection, RecordTarget, CompensateStop, CompensateStart, CompensateStore,
       RecoverBackends, StopNext, AllStopped, ClearConnection, StartupForget, StartupStart,
       StartupRecord, StartupStop, StartupRepair
  <2> QED
    BY <2>1, <2>2 DEF ExitRecord, Waiting, Reported
<1>4. ASSUME StartupBegin PROVE FALSE
  BY <1>4 DEF StartupBegin, Waiting, Untouched
<1>5. ASSUME NEW e \in Events, HandleExit(e) PROVE Up(net') = {}
  BY <1>1, <1>5, HandledExit
<1>6. ASSUME Network \/ UNCHANGED vars PROVE FALSE
  BY <1>6 DEF Network, Exit, Wither, Report, Drop, Raise, vars
<1>7. ASSUME DaemonEnds \/ MachineStops PROVE FALSE
  BY <1>7 DEF DaemonEnds, MachineStops, Restarted
<1> QED
  BY <1>2, <1>3, <1>4, <1>5, <1>6, <1>7 DEF Next

(* A state conflict is not lifted by anything less than a Disconnect, a    *)
(* restart, or a proof that nothing is up: no Connect, removal or late     *)
(* callback talks the manager out of it.                                   *)
THEOREM ConflictsLast ==
  ASSUME "early" \notin Features PROVE Spec => ConflictClearedByProof
<1>1. IInv /\ Waiting /\ [Next]_vars
        => [life.state = "state_conflict" /\ life'.state \notin {"state_conflict", "disconnecting"}
              => Up(net') = {} \/ ~reconciled']_vars
  BY ConflictEnds DEF NoEarly
<1> QED
  BY <1>1, InductiveInvariant, WaitingInvariant, PTL DEF Spec, ConflictClearedByProof

-----------------------------------------------------------------------------
(* What a restart finds after a reported disconnection.                    *)

(* A manifest that starts nothing at startup.                              *)
Quiet(manifest) == manifest.desired = None \/ manifest.mode = "manual"

(* No step but these three ends in a reported disconnection.               *)
LEMMA HowDisconnected ==
  ASSUME IInv, NoEarly, Waiting, [Next]_vars,
         op' = Idle, life'.state = "disconnected", reconciled'
  PROVE  \/ ClearConnection \/ StartupForget \/ StartupBegin
         \/ /\ op = Idle /\ life.state = "disconnected" /\ reconciled
            /\ \/ UNCHANGED lib
               \/ \E p \in Profiles : Remove(p) \/ Import(p)
               \/ \E m \in {"manual", "restore"} : SetPreferences(m)
<1>1. \A state, p : Finish(state, p) => life'.state = state
  BY DEF Finish, Life
<1>2. Idle.step = "idle"
  BY DEF Idle, Op
<1>3. CASE Request
  <2>1. ASSUME NEW p \in Profiles, Connect(p) PROVE FALSE
    <3>1. \/ Finish("failed", p) \/ Finish("state_conflict", p)
          \/ op' = Op("recordActive", p, None)
          \/ op' = Op("start", p, None)
          \/ \E q \in Profiles : op' = Op("stopPrevious", p, q)
      BY <2>1, InvFacts, Zenon DEF Connect
    <3> QED
      BY <1>1, <1>2, <3>1 DEF Op
  <2>2. ASSUME Disconnect PROVE FALSE
    BY <1>1, <2>2 DEF Disconnect, Life
  <2>3. ASSUME NEW p \in Profiles, Remove(p) \/ Import(p)
        PROVE  UNCHANGED <<op, life, reconciled>>
    BY <2>3 DEF Remove, Import
  <2>4. ASSUME NEW m \in {"manual", "restore"}, SetPreferences(m)
        PROVE  UNCHANGED <<op, life, reconciled>>
    BY <2>4 DEF SetPreferences
  <2> QED
    BY <1>3, <2>1, <2>2, <2>3, <2>4 DEF Request
<1>4. CASE Proceed
  <2>1. op.step # "idle" /\ (op.step \notin {"recordActive", "exitRecord"} => life.state # "disconnected")
    BY <1>4, ProceedReports, InProgress
  <2>2. ASSUME AllStopped PROVE FALSE
    <3>1. life' = life \/ life'.state = "state_conflict"
      BY <1>1, <2>2 DEF AllStopped
    <3> QED
      BY <2>1, <2>2, <3>1 DEF AllStopped
  <2> QED
    BY <1>1, <1>2, <1>4, <2>1, <2>2, ProceedReports
<1>5. ASSUME NEW e \in Events, HandleExit(e)
      PROVE  op = Idle /\ life.state = "disconnected" /\ reconciled /\ UNCHANGED lib
  BY <1>1, <1>2, <1>5, HandledExit DEF Op
<1>6. CASE Network \/ UNCHANGED vars
  BY <1>6 DEF Network, Exit, Wither, Report, Drop, Raise, vars
<1>7. ASSUME DaemonEnds \/ MachineStops PROVE FALSE
  BY <1>7 DEF DaemonEnds, MachineStops, Restarted
<1> QED
  BY <1>3, <1>4, <1>5, <1>6, <1>7 DEF Next

(* The step to a reported disconnection leaves a quiet library, in memory  *)
(* and on disk.                                                            *)
LEMMA DisconnectionIsQuiet ==
  ASSUME IInv, NoEarly, "prefs" \notin Features, Waiting, DisconnectedStaysDown, [Next]_vars,
         op' = Idle, life'.state = "disconnected", reconciled'
  PROVE  Quiet(lib'.mem) /\ Quiet(lib'.disk)
<1>0. lib \in Libraries /\ lib.mem \in Manifests
  BY InvFacts
<1>1. \A state, p : Finish(state, p) => life'.state = state
  BY DEF Finish, Life
<1>2. CASE ClearConnection
  <2>1. PICK r \in ReconcileOutcomes(lib, None, FALSE) :
          lib' = r.lib /\ Finish(IF r.ok THEN "disconnected" ELSE "state_conflict", None)
    BY <1>2 DEF ClearConnection
  <2>2. r.ok
    BY <1>1, <2>1
  <2>3. r.ok => r.lib.mem.desired = None /\ r.lib.disk = r.lib.mem
    BY <1>0, ReconcileRecords, ZenonT(60)
  <2> QED
    BY <2>1, <2>2, <2>3 DEF Quiet
<1>3. ASSUME NEW manifest, RestoreDesired(manifest) PROVE Quiet(manifest)
  BY <1>1, <1>3 DEF RestoreDesired, Quiet, Op, Idle
<1>4. CASE StartupForget
  <2>1. PICK r \in ReconcileOutcomes(lib, lib.mem.desired, FALSE) :
          /\ lib' = r.lib
          /\ IF r.ok THEN RestoreDesired(r.lib.mem) ELSE Finish("state_conflict", lib.mem.desired)
    BY <1>4 DEF StartupForget
  <2>2. r.ok /\ lib.mem.desired \in Profiles \cup {None}
    BY <1>0, <1>1, <2>1 DEF Manifests
  <2>3. r.ok => r.lib.disk = r.lib.mem
    BY <1>0, <2>2, ReconcileRecords, ZenonT(60)
  <2> QED
    BY <1>3, <2>1, <2>2, <2>3
<1>5. CASE StartupBegin
  <2>1. RestoreDesired(lib.mem)
    <3>1. \/ \E state \in {"active", "state_conflict"} : \E p : Finish(state, p)
          \/ op' = Op("startupForget", None, None)
          \/ RestoreDesired(lib.mem)
      BY <1>5 DEF StartupBegin
    <3> QED
      BY <1>1, <3>1 DEF Op, Idle
  <2>2. lib.disk = lib.mem /\ UNCHANGED lib
    BY <1>5 DEF StartupBegin, Waiting, Untouched
  <2> QED
    BY <1>3, <2>1, <2>2
<1>6. CASE op = Idle /\ life.state = "disconnected" /\ reconciled
  <2>1. Quiet(lib.mem) /\ Quiet(lib.disk)
    BY <1>6 DEF DisconnectedStaysDown, Quiet
  <2>2. ASSUME NEW m \in Manifests, Quiet(m), NEW w \in WriteOutcomes(lib, m), lib' = w.lib
        PROVE  Quiet(lib'.mem) /\ Quiet(lib'.disk)
    BY <1>0, <2>1, <2>2, WriteLeavesEither, WriteIsDurable
  <2>3. ASSUME NEW p \in Profiles, Remove(p) PROVE Quiet(lib'.mem) /\ Quiet(lib'.disk)
    <3>1. Without(lib.mem, p) \in Manifests /\ Quiet(Without(lib.mem, p))
      BY <1>0, <2>1, InvFacts DEF Without, Manifests, Quiet
    <3> QED
      BY <2>2, <2>3, <3>1 DEF Remove, RemoveProfile
  <2>4. ASSUME NEW p \in Profiles, Import(p) PROVE Quiet(lib'.mem) /\ Quiet(lib'.disk)
    <3>1. With(lib.mem, {p}) \in Manifests /\ Quiet(With(lib.mem, {p}))
      BY <1>0, <2>1 DEF With, Manifests, Quiet
    <3> QED
      BY <2>2, <2>4, <3>1 DEF Import, PublishProfile
  <2>5. \A m : ~SetPreferences(m)
    BY DEF SetPreferences
  <2>6. CASE ClearConnection \/ StartupForget \/ StartupBegin
    BY <1>2, <1>4, <1>5, <2>6
  <2> QED
    BY <2>1, <2>3, <2>4, <2>5, <2>6, HowDisconnected
<1> QED
  BY <1>2, <1>4, <1>5, <1>6, HowDisconnected

(* After a reported disconnection neither a restart of the daemon nor one  *)
(* of the machine finds a profile to restore, unless the startup mode is   *)
(* changed later.                                                          *)
THEOREM DisconnectionLasts ==
  ASSUME "early" \notin Features, "prefs" \notin Features PROVE Spec => []DisconnectedStaysDown
<1>1. Init => DisconnectedStaysDown
  BY DEF Init, DisconnectedStaysDown
<1>2. IInv /\ Waiting /\ DisconnectedStaysDown /\ [Next]_vars => DisconnectedStaysDown'
  BY DisconnectionIsQuiet DEF DisconnectedStaysDown, Quiet, NoEarly
<1> QED
  BY <1>1, <1>2, InductiveInvariant, WaitingInvariant, PTL DEF Spec

-----------------------------------------------------------------------------
(* What the library records of the tunnel that is up.                      *)

(* A profile whose write succeeded is recorded.                            *)
LEMMA WrittenIsRecorded ==
  ASSUME NEW p, lib'.mem.desired = p, lib'.disk = lib'.mem PROVE Recorded(lib', p)
BY DEF Recorded, NoEarly

(* The end of an operation: what is up is recorded, or a conflict is       *)
(* reported.                                                               *)
LEMMA FinishSettles ==
  ASSUME NEW state, NEW p, Finish(state, p),
         state # "state_conflict" /\ reconciled' => \A q \in Up(net') : Recorded(lib', q),
         state = "active" /\ reconciled' => Recorded(lib', p)
  PROVE  Settled'
<1>1. op' = Idle /\ life'.state = state /\ life'.profile = p /\ Idle.step = "idle"
  BY DEF Finish, Life, Idle, Op
<1> QED
  BY <1>1 DEF Settled

(* A step to one of the steps of which nothing is known here.              *)
LEMMA GoingOnSettles ==
  ASSUME op'.step \notin {"idle", "stopPrevious", "start", "restore", "recordActive",
                          "compensateStore", "exitRecord", "startupRepair"}
  PROVE  Settled'
BY DEF Settled, Idle, Op

(* Connect: the one tunnel it observes is the recorded one.                *)
LEMMA ConnectSettles == ASSUME IInv, Settled, NEW p \in Profiles, Connect(p) PROVE Settled'
<1>1. op = Idle /\ UNCHANGED <<lib, net, reconciled>> /\ life.state # "state_conflict"
  BY DEF Connect, Admitted, Unconflicted
<1>2. reconciled => \A q \in Up(net) : Recorded(lib, q) /\ Recorded(lib', q)
  BY <1>1 DEF Settled, Recorded, NoEarly
<1>3. ASSUME NEW s \in Observations(net, Installed), s.result = "ok"
      PROVE  s.active = Up(net)
  <2>1. Up(net) \subseteq s.active
    BY <1>3, InvFacts, ObservationsSeeAll
  <2>2. s.active \subseteq Up(net)
    BY <1>3, ObservedIsUp
  <2> QED
    BY <2>1, <2>2
<1>4. \/ Finish("failed", p) \/ Finish("state_conflict", p)
      \/ op' = Op("recordActive", p, None) /\ Up(net) = {p}
      \/ op' = Op("start", p, None)
      \/ \E q \in Installed : op' = Op("stopPrevious", p, q) /\ Up(net) = {q}
  BY <1>3 DEF Connect
<1>5. CASE Finish("failed", p) \/ Finish("state_conflict", p)
  BY <1>1, <1>2, <1>5, FinishSettles
<1>6. CASE op' = Op("recordActive", p, None) /\ Up(net) = {p}
  BY <1>1, <1>6 DEF Settled, Op, Idle
<1>7. CASE op' = Op("start", p, None)
  BY <1>1, <1>7 DEF Settled, Op, Idle
<1>8. ASSUME NEW q \in Installed, op' = Op("stopPrevious", p, q), Up(net) = {q} PROVE Settled'
  BY <1>1, <1>2, <1>8 DEF Settled, Op, Idle
<1> QED
  BY <1>4, <1>5, <1>6, <1>7, <1>8

(* The write of a connection, whichever attempt succeeds.                  *)
LEMMA RecordActiveSettles == ASSUME IInv, Settled, RecordActive PROVE Settled'
<1>1. PICK w \in SetConnection(lib, op.target, TRUE) :
        \E r \in IF w.ok THEN {w} ELSE ReconcileOutcomes(w.lib, op.target, TRUE) :
          /\ lib' = r.lib
          /\ Finish(IF r.ok THEN "active" ELSE "state_conflict", op.target)
  BY DEF RecordActive
<1>2. PICK r \in IF w.ok THEN {w} ELSE ReconcileOutcomes(w.lib, op.target, TRUE) :
        lib' = r.lib /\ Finish(IF r.ok THEN "active" ELSE "state_conflict", op.target)
  BY <1>1
<1>3. lib \in Libraries /\ op.target \in Profiles \cup {None} /\ w.lib \in Libraries
  BY InvFacts, SetConnectionKeepsInstalled
<1>4. r.ok => r.lib.mem.desired = op.target /\ r.lib.disk = r.lib.mem
  <2>1. CASE r \in ReconcileOutcomes(w.lib, op.target, TRUE)
    BY <1>3, <2>1, ReconcileRecords, ZenonT(60)
  <2>2. CASE r = w
    BY <1>3, <2>2, SetConnectionRecords, ZenonT(60)
  <2> QED
    BY <2>1, <2>2
<1>5. UNCHANGED <<net, reconciled>> /\ op.step = "recordActive"
  BY DEF RecordActive
<1>6. reconciled' => Up(net') \subseteq {op.target}
  BY <1>5 DEF Settled
<1>7. r.ok => Recorded(lib', op.target)
  BY <1>2, <1>4, WrittenIsRecorded
<1> QED
  BY <1>2, <1>6, <1>7, FinishSettles

(* Connect's stop, start and restoration: until the library is written the *)
(* tunnel that may have to come back stays the recorded one.               *)
LEMMA SwitchSettles ==
  ASSUME IInv, Settled, StopPrevious \/ StartTarget \/ RestorePrevious PROVE Settled'
<1> USE InvFacts
<1>1. UNCHANGED <<lib, reconciled>>
  BY DEF StopPrevious, StartTarget, RestorePrevious
<1>2. op.previous # None /\ reconciled => Recorded(lib', op.previous)
  BY <1>1 DEF StopPrevious, StartTarget, RestorePrevious, Settled, Recorded, NoEarly
<1>3. ASSUME NEW step \in {"start", "restore"}, op' = [op EXCEPT !.step = step] PROVE Settled'
  <2>1. op'.step = step /\ op'.previous = op.previous
    BY <1>3 DEF Ops
  <2> QED
    BY <1>1, <1>2, <2>1 DEF Settled, Idle, Op
<1>4. ASSUME NEW p, Finish("state_conflict", p) PROVE Settled'
  BY <1>4, FinishSettles
<1>5. CASE StopPrevious
  BY <1>3, <1>4, <1>5 DEF StopPrevious, Goto
<1>6. CASE StartTarget
  <2>1. PICK s \in StartOutcomes(op.target) :
          /\ net' = s.net
          /\ IF s.result = "ok" THEN Goto("record") /\ UNCHANGED life
             ELSE IF AfterFailedStart(s.result) = "idle" THEN Finish("failed", op.target)
             ELSE Goto(AfterFailedStart(s.result)) /\ UNCHANGED life
    BY <1>6 DEF StartTarget
  <2>2. op.target \in Profiles /\ Up(net) = {}
    BY <1>6 DEF StartTarget, IInv, TargetsKnown, NetworkKnown
  <2>3. /\ s.result = "failed" => s.net = net
        /\ s.result \in {"ok", "failed", "unproved"}
    BY <2>2, StartOutcomesAreSound
  <2>4. CASE Goto("record") \/ Goto("forget")
    BY <2>4, GoingOnSettles DEF Goto, Ops
  <2>5. CASE s.result = "failed" /\ Finish("failed", op.target)
    BY <2>1, <2>2, <2>3, <2>5, FinishSettles
  <2>6. CASE Goto("restore")
    BY <1>3, <2>6 DEF Goto
  <2> QED
    BY <2>1, <2>3, <2>4, <2>5, <2>6 DEF AfterFailedStart
<1>7. CASE RestorePrevious
  <2>1. PICK s \in StartOutcomes(op.previous) :
          /\ net' = s.net
          /\ IF s.result = "ok" THEN Finish("active", op.previous)
             ELSE op' = [op EXCEPT !.step = "forget", !.errs = {"restore"}] /\ UNCHANGED life
    BY <1>7 DEF RestorePrevious
  <2>2. op.previous \in Profiles /\ Up(net) = {}
    BY <1>7 DEF RestorePrevious, IInv, TargetsKnown, NetworkKnown
  <2>3. Up(net') \subseteq {op.previous}
    BY <2>1, <2>2, StartOutcomesAreSound
  <2>4. CASE Finish("active", op.previous)
    BY <1>1, <1>2, <2>2, <2>3, <2>4, FinishSettles
  <2>5. CASE op' = [op EXCEPT !.step = "forget", !.errs = {"restore"}]
    BY <2>5, GoingOnSettles DEF Ops
  <2> QED
    BY <2>1, <2>4, <2>5
<1> QED
  BY <1>5, <1>6, <1>7

(* The write that ends Connect, or StartupBegin's restoration: on success  *)
(* what is up is recorded.                                                 *)
LEMMA RecordTargetSettles ==
  ASSUME IInv, RecordTarget \/ StartupRecord PROVE Settled'
<1>1. PICK w \in SetConnection(lib, op.target, TRUE) :
        /\ lib' = w.lib
        /\ IF w.ok THEN Finish("active", op.target)
           ELSE Goto("compensateStop") \/ Goto("startupStop")
  BY DEF RecordTarget, StartupRecord
<1>2. lib \in Libraries /\ op \in Ops /\ op.target \in Profiles \cup {None}
  BY InvFacts
<1>3. w.ok => w.lib.mem.desired = op.target /\ w.lib.disk = w.lib.mem
  BY <1>2, SetConnectionRecords
<1>4. Up(net') \subseteq {op.target}
  BY DEF RecordTarget, StartupRecord, IInv, NetworkKnown
<1>5. CASE w.ok
  <2>1. Recorded(lib', op.target)
    BY <1>1, <1>3, <1>5, WrittenIsRecorded
  <2> QED
    BY <1>1, <1>4, <1>5, <2>1, FinishSettles
<1>6. CASE ~w.ok
  BY <1>1, <1>2, <1>6, GoingOnSettles DEF Goto, Ops
<1> QED
  BY <1>5, <1>6

(* The stop and the start that compensate for a write that failed leave up *)
(* what the compensation will record.                                      *)
LEMMA CompensationSettles ==
  ASSUME IInv, CompensateStop \/ CompensateStart \/ StartupStop PROVE Settled'
<1> USE InvFacts
<1>1. CASE CompensateStop \/ StartupStop
  <2>1. PICK s \in StopOutcomes(op.target) :
          /\ net' = s.net
          /\ \/ /\ op.step = "compensateStop"
                /\ op' = [op EXCEPT !.step = IF s.ok /\ op.previous # None THEN "compensateStart"
                                             ELSE "compensateStore",
                                    !.errs = IF s.ok THEN {} ELSE {"stop"}]
             \/ /\ op.step = "startupStop"
                /\ op' = [op EXCEPT !.step = "startupRepair",
                                    !.errs = IF s.ok THEN {} ELSE {"stop"}]
    BY <1>1 DEF CompensateStop, StartupStop
  <2>2. op.target \in Profiles /\ Up(net) \subseteq {op.target}
    BY <2>1 DEF IInv, TargetsKnown, NetworkKnown
  <2>3. s.ok => Up(net') = {}
    BY <2>1, <2>2, StopOutcomesAreSound
  <2>4. op'.errs = {} => s.ok
    <3>1. op'.errs = IF s.ok THEN {} ELSE {"stop"}
      BY <2>1 DEF Ops
    <3> QED
      BY <3>1
  <2>5. op'.step \in {"compensateStart", "compensateStore", "startupRepair"}
    BY <2>1 DEF Ops
  <2> QED
    BY <2>3, <2>4, <2>5 DEF Settled, Idle, Op
<1>2. CASE CompensateStart
  <2>1. PICK s \in StartOutcomes(op.previous) :
          /\ net' = s.net
          /\ op' = [op EXCEPT !.step = "compensateStore",
                              !.errs = IF s.result = "ok" THEN {} ELSE {"restore"}]
    BY <1>2 DEF CompensateStart
  <2>2. op.previous \in Profiles /\ Up(net) = {}
    BY <1>2 DEF CompensateStart, IInv, TargetsKnown, NetworkKnown
  <2>3. Up(net') \subseteq {op.previous}
    BY <2>1, <2>2, StartOutcomesAreSound
  <2>4. op'.step = "compensateStore" /\ op'.previous = op.previous
    BY <2>1 DEF Ops
  <2> QED
    BY <2>3, <2>4 DEF Settled, Idle, Op
<1> QED
  BY <1>1, <1>2

(* The write that ends a compensation: without an error the previous       *)
(* profile is recorded, and nothing but it is up.                          *)
LEMMA CompensateStoreSettles == ASSUME IInv, Settled, CompensateStore PROVE Settled'
<1>1. PICK r \in RepairOutcomes(lib) :
        \E w \in IF r.ok /\ "stop" \notin op.errs
                 THEN Compensation(r.lib) ELSE {[r EXCEPT !.ok = FALSE]} :
          /\ lib' = w.lib
          /\ IF ~w.ok \/ op.errs # {} THEN Finish("state_conflict", op.target)
             ELSE IF op.previous # None THEN Finish("active", op.previous)
             ELSE Finish("failed", op.target)
  BY DEF CompensateStore
<1>2. PICK w \in IF r.ok /\ "stop" \notin op.errs
                 THEN Compensation(r.lib) ELSE {[r EXCEPT !.ok = FALSE]} :
          /\ lib' = w.lib
          /\ IF ~w.ok \/ op.errs # {} THEN Finish("state_conflict", op.target)
             ELSE IF op.previous # None THEN Finish("active", op.previous)
             ELSE Finish("failed", op.target)
  BY <1>1
<1>3. lib \in Libraries /\ op.previous \in Profiles \cup {None}
  BY InvFacts
<1>4. r.lib \in Libraries
  BY <1>3, RepairKeepsManifest
<1>5. CASE ~w.ok \/ op.errs # {}
  BY <1>2, <1>5, FinishSettles
<1>6. CASE w.ok /\ op.errs = {}
  <2>1. w \in Compensation(r.lib)
    <3>1. [r EXCEPT !.ok = FALSE].ok = FALSE
      BY DEF RepairOutcomes
    <3> QED
      BY <1>2, <1>6, <3>1
  <2>2. w.lib.mem.desired = op.previous /\ w.lib.disk = w.lib.mem
    <3> DEFINE connected == op.previous # None /\ op.errs = {}
    <3>1. connected \in BOOLEAN /\ w \in SetConnection(r.lib, op.previous, connected)
      BY <2>1 DEF Compensation
    <3> HIDE DEF connected
    <3> QED
      BY <1>3, <1>4, <1>6, <3>1, SetConnectionRecords
  <2>3. Recorded(lib', op.previous)
    BY <1>2, <2>2, WrittenIsRecorded
  <2>4. reconciled' => Up(net') \subseteq {op.previous}
    BY <1>6 DEF CompensateStore, Settled
  <2> QED
    BY <1>2, <1>6, <2>3, <2>4, FinishSettles
<1> QED
  BY <1>5, <1>6

(* The other steps of an operation: they report a conflict, or are left    *)
(* with nothing up, or go on.                                              *)
LEMMA EmptySettles ==
  ASSUME IInv, Settled, \/ ForgetConnection \/ RecoverBackends \/ StopNext \/ AllStopped
                        \/ ClearConnection \/ StartupForget \/ StartupStart
                        \/ StartupRepair \/ ExitRecord
  PROVE  Settled'
<1> USE InvFacts
<1>1. ASSUME NEW p, Finish("state_conflict", p) PROVE Settled'
  BY <1>1, FinishSettles
<1>2. ASSUME NEW state, NEW p, Finish(state, p), state # "active", Up(net') = {} \/ ~reconciled'
      PROVE  Settled'
  BY <1>2, FinishSettles
<1>3. CASE ForgetConnection
  BY <1>1, <1>3 DEF ForgetConnection
<1>4. CASE RecoverBackends \/ StopNext \/ AllStopped
  <2>1. (\E p : Finish("state_conflict", p)) \/ op'.step \in {"stopAll", "clear"}
    BY <1>4 DEF RecoverBackends, StopNext, AllStopped, StopObserved, Op, Goto, Ops
  <2> QED
    BY <1>1, <2>1, GoingOnSettles
<1>5. CASE ClearConnection
  BY <1>2, <1>5 DEF ClearConnection, IInv, NetworkKnown
<1>6. CASE StartupForget
  <2>1. \/ \E state \in {"disconnected", "failed", "state_conflict"} : \E p : Finish(state, p)
        \/ op'.step = "startupStart"
    BY <1>6 DEF StartupForget, RestoreDesired, Op
  <2>2. Up(net') = {}
    BY <1>6 DEF StartupForget, IInv, NetworkKnown
  <2> QED
    BY <1>2, <2>1, <2>2, GoingOnSettles
<1>7. CASE StartupStart
  <2>1. PICK s \in StartOutcomes(op.target) :
          /\ net' = s.net
          /\ IF s.result = "ok" THEN Goto("startupRecord")
             ELSE Finish(IF s.result = "unproved" THEN "state_conflict" ELSE "failed", op.target)
    BY <1>7 DEF StartupStart
  <2>2. op.target \in Profiles /\ Up(net) = {}
    BY <1>7 DEF StartupStart, IInv, TargetsKnown, NetworkKnown
  <2>3. s.result \in {"ok", "failed", "unproved"} /\ (s.result = "failed" => Up(net') = {})
    BY <2>1, <2>2, StartOutcomesAreSound
  <2>4. CASE Goto("startupRecord")
    BY <2>4, GoingOnSettles DEF Goto, Ops
  <2> QED
    BY <1>1, <1>2, <2>1, <2>3, <2>4
<1>8. CASE StartupRepair
  <2>1. PICK r \in RepairOutcomes(lib) :
          \E w \in IF r.ok /\ op.errs = {} THEN ReconcileOutcomes(r.lib, op.target, FALSE)
                   ELSE {[r EXCEPT !.ok = FALSE]} :
            Finish(IF w.ok THEN "failed" ELSE "state_conflict", op.target)
    BY <1>8 DEF StartupRepair
  <2>2. CASE op.errs = {}
    <3>1. Up(net') = {} \/ ~reconciled'
      BY <1>8, <2>2 DEF StartupRepair, Settled
    <3> QED
      BY <1>2, <2>1, <3>1
  <2>3. CASE op.errs # {}
    <3>1. [r EXCEPT !.ok = FALSE].ok = FALSE
      BY DEF RepairOutcomes
    <3> QED
      BY <1>1, <2>1, <2>3, <3>1
  <2> QED
    BY <2>2, <2>3
<1>9. CASE ExitRecord
  <2>1. Up(net') = {} \/ ~reconciled'
    BY <1>9 DEF ExitRecord, Settled
  <2> QED
    BY <1>2, <1>9, <2>1 DEF ExitRecord
<1> QED
  BY <1>3, <1>4, <1>5, <1>6, <1>7, <1>8, <1>9

(* The startup's first step reports an observed tunnel active when it is   *)
(* the recorded one.                                                       *)
LEMMA StartupBeginSettles ==
  ASSUME IInv, AtMostOneTunnel, Waiting, StartupBegin PROVE Settled'
<1>1. UNCHANGED <<lib, net>> /\ ~reconciled
  BY DEF StartupBegin
<1>2. PICK s \in Observations(net, Installed) :
        \/ s.result # "ok" /\ Finish("state_conflict", None)
        \/ \E p \in s.active :
             /\ s.result = "ok"
             /\ Finish(IF p = lib.mem.desired THEN "active" ELSE "state_conflict", p)
        \/ /\ s.result = "ok" /\ s.active = {}
           /\ \/ \E state \in {"disconnected", "failed"} : \E p : Finish(state, p)
              \/ op'.step \in {"startupForget", "startupStart"}
  BY DEF StartupBegin, RestoreDesired, Op
<1>3. s.result = "ok" => s.active = Up(net)
  <2>1. s.result = "ok" => Up(net) \subseteq s.active
    BY InvFacts, ObservationsSeeAll
  <2>2. s.result = "ok" => s.active \subseteq Up(net)
    BY ObservedIsUp
  <2> QED
    BY <2>1, <2>2
<1>4. Recorded(lib', lib.mem.desired)
  BY <1>1 DEF Recorded, Waiting, Untouched
<1>5. ASSUME NEW p \in s.active, s.result = "ok",
             Finish(IF p = lib.mem.desired THEN "active" ELSE "state_conflict", p)
      PROVE  Settled'
  <2>1. Up(net') \subseteq {p}
    BY <1>1, <1>3, <1>5 DEF AtMostOneTunnel
  <2> QED
    BY <1>4, <1>5, <2>1, FinishSettles
<1>6. ASSUME s.result = "ok", s.active = {},
             NEW state \in {"disconnected", "failed"}, NEW p, Finish(state, p)
      PROVE  Settled'
  BY <1>1, <1>3, <1>6, FinishSettles
<1>7. ASSUME Finish("state_conflict", None) PROVE Settled'
  BY <1>7, FinishSettles
<1>8. ASSUME op'.step \in {"startupForget", "startupStart"} PROVE Settled'
  BY <1>8, GoingOnSettles
<1> QED
  BY <1>2, <1>5, <1>6, <1>7, <1>8

(* The handling of an exit.                                                *)
LEMMA HandleExitSettles ==
  ASSUME IInv, Settled, NEW e \in Events, HandleExit(e) PROVE Settled'
<1>1. op = Idle /\ UNCHANGED <<lib, net, reconciled>>
  BY HandledExit
<1>2. CASE UNCHANGED <<op, life>>
  BY <1>1, <1>2 DEF Settled
<1>3. CASE Finish("state_conflict", e.profile)
  BY <1>3, FinishSettles
<1>4. CASE Up(net) = {} /\ Finish("failed", e.profile)
  BY <1>1, <1>4, FinishSettles
<1>5. CASE Up(net) = {} /\ op' = Op("exitRecord", e.profile, None)
  BY <1>1, <1>5 DEF Settled, Op, Idle
<1>6. \/ Finish("state_conflict", e.profile)
      \/ UNCHANGED <<op, life>>
      \/ Up(net) = {} /\ Finish("failed", e.profile)
      \/ Up(net) = {} /\ op' = Op("exitRecord", e.profile, None)
  BY HandledExit
<1> QED
  BY <1>2, <1>3, <1>4, <1>5, <1>6

(* Library operations: a removal never touches what is up, and the others  *)
(* leave the desired profile alone.                                        *)
LEMMA LibraryStepsSettle ==
  ASSUME IInv, Settled, \/ \E p \in Profiles : Remove(p) \/ Import(p)
                        \/ \E m \in {"manual", "restore"} : SetPreferences(m)
  PROVE  Settled'
<1>0. lib \in Libraries /\ lib.mem \in Manifests
  BY InvFacts
<1>1. UNCHANGED <<op, life, net, reconciled>>
  BY DEF Remove, Import, SetPreferences
<1>2. ASSUME NEW m \in Manifests, NEW w \in WriteOutcomes(lib, m), lib' = w.lib,
             NEW q, Recorded(lib, q), m.desired = q
      PROVE  Recorded(lib', q)
  <2>1. lib'.mem \in {lib.mem, m} /\ lib'.disk \in {lib.mem, lib.disk, m}
    BY <1>0, <1>2, WriteLeavesEither, WriteIsDurable
  <2> QED
    BY <1>2, <2>1 DEF Recorded
<1>3. ASSUME NEW m \in Manifests, NEW w \in WriteOutcomes(lib, m), lib' = w.lib,
             m.desired = lib.mem.desired
      PROVE  Settled'
  <2>1. \A q : Recorded(lib, q) => Recorded(lib', q)
    BY <1>2, <1>3 DEF Recorded
  <2> QED
    BY <1>1, <2>1 DEF Settled
<1>4. ASSUME NEW p \in Profiles, Remove(p) PROVE Settled'
  <2>1. /\ Without(lib.mem, p) \in Manifests
        /\ lib.mem.desired # p => Without(lib.mem, p).desired = lib.mem.desired
    BY <1>0, InvFacts DEF Without, Manifests
  <2>2. PICK w \in WriteOutcomes(lib, Without(lib.mem, p)) : lib' = w.lib
    BY <1>4 DEF Remove, RemoveProfile
  <2>3. p \notin Up(net) /\ op = Idle /\ "library" \in Features
    BY <1>4, RemovedIsDown DEF Remove, Admitted
  <2>4. \A q \in Up(net) : Recorded(lib, q) => Recorded(lib', q)
    <3> SUFFICES ASSUME NEW q \in Up(net), Recorded(lib, q) PROVE Recorded(lib', q)
      OBVIOUS
    <3>1. q # p /\ lib.mem.desired = q
      BY <2>3 DEF Recorded
    <3> QED
      BY <1>2, <2>1, <2>2, <3>1
  <2> QED
    BY <1>1, <2>3, <2>4 DEF Settled, Idle, Op
<1>5. ASSUME NEW p \in Profiles, Import(p) PROVE Settled'
  <2>1. With(lib.mem, {p}) \in Manifests /\ With(lib.mem, {p}).desired = lib.mem.desired
    BY <1>0 DEF With, Manifests
  <2> QED
    BY <1>3, <1>5, <2>1 DEF Import, PublishProfile
<1>6. ASSUME NEW mode \in {"manual", "restore"}, SetPreferences(mode) PROVE Settled'
  <2> DEFINE moded == [lib.mem EXCEPT !.mode = mode]
  <2>1. moded \in Manifests /\ moded.desired = lib.mem.desired
    BY <1>0 DEF Manifests
  <2>2. PICK w \in WriteOutcomes(lib, moded) : lib' = w.lib
    BY <1>6 DEF SetPreferences, SetStartupMode
  <2> HIDE DEF moded
  <2> QED
    BY <1>3, <2>1, <2>2
<1> QED
  BY <1>4, <1>5, <1>6

(* Every step, if nobody else raises tunnels.                              *)
LEMMA NextSettles ==
  ASSUME ~May("external"), IInv, AtMostOneTunnel, Waiting, Settled, [Next]_vars PROVE Settled'
<1>1. ASSUME Disconnect PROVE Settled'
  <2>1. (\E p : Finish("state_conflict", p)) \/ op'.step \in {"stopAll", "recover"}
    BY <1>1 DEF Disconnect, StopObserved, Op
  <2> QED
    BY <2>1, FinishSettles, GoingOnSettles
<1>2. CASE Request
  BY <1>1, <1>2, ConnectSettles, LibraryStepsSettle DEF Request
<1>3. CASE Proceed
  BY <1>3, RecordActiveSettles, SwitchSettles, RecordTargetSettles, CompensationSettles,
     CompensateStoreSettles, EmptySettles DEF Proceed
<1>4. CASE Network
  <2>1. UNCHANGED <<op, life, lib, reconciled>>
    BY <1>4 DEF Network, Exit, Wither, Report, Drop, Raise
  <2>2. Up(net') \subseteq Up(net)
    <3>1. ASSUME NEW c \in Copies, Report(c) PROVE Up(net') \subseteq Up(net)
      BY <3>1, InvFacts, ReapedIsSound DEF Report
    <3>2. CASE Exit \/ Wither \/ \E w \in WireGuard : Drop(w)
      BY <3>2, InvFacts, NetworkStepsAreSound DEF Exit, Wither, Drop
    <3> QED
      BY <1>4, <3>1, <3>2 DEF Network, Raise
  <2> QED
    BY <2>1, <2>2 DEF Settled
<1>5. ASSUME DaemonEnds \/ MachineStops PROVE Settled'
  <2>1. ~reconciled' /\ op'.step = "idle"
    BY <1>5 DEF DaemonEnds, MachineStops, Restarted, Idle, Op
  <2> QED
    BY <2>1 DEF Settled
<1>6. CASE UNCHANGED vars
  BY <1>6 DEF vars, Settled
<1> QED
  BY <1>2, <1>3, <1>4, <1>5, <1>6, StartupBeginSettles, HandleExitSettles DEF Next

(* If nobody else raises tunnels, the library records, at the end of every *)
(* operation that reports no conflict, the tunnel that is up.              *)
THEOREM SettledInvariant ==
  ASSUME ~May("external") PROVE Spec => []Settled
<1>1. Init => Settled
  BY DEF Init, Settled, Idle, Op
<1>2. IInv /\ AtMostOneTunnel /\ Waiting /\ Settled /\ [Next]_vars => Settled'
  BY NextSettles
<1> QED
  BY <1>1, <1>2, InductiveInvariant, WaitingInvariant, OneTunnel, PTL DEF Spec

(* Between operations, unless a conflict is reported, nothing is up but    *)
(* the profile the library desires: not after a failed switch, not after a *)
(* compensation, not after a startup.                                      *)
THEOREM NetworkIsDesired ==
  ASSUME ~May("external") PROVE Spec => []SettledNetworkIsDesired
<1>1. Settled => SettledNetworkIsDesired
  BY DEF Settled, Recorded, SettledNetworkIsDesired
<1> QED
  BY <1>1, SettledInvariant, PTL

(* What is reported active is the desired profile in memory and on disk,   *)
(* so a power loss does not forget it.                                     *)
THEOREM ActiveIsDurable ==
  ASSUME ~May("external"), "early" \notin Features, "library" \notin Features
  PROVE  Spec => []ActiveIsRecorded
<1>1. Waiting /\ Settled => ActiveIsRecorded
  BY DEF Waiting, Untouched, Settled, Recorded, NoEarly, ActiveIsRecorded
<1> QED
  BY <1>1, WaitingInvariant, SettledInvariant, PTL

-----------------------------------------------------------------------------
(* The copy a process was started from.                                    *)

Kept(n, copies) == n.proc.state \in {"running", "leaving"} => copies[n.proc.copy] = n.proc.profile

(* No process exits by itself, so no report of an exit is on its way.      *)
NoExits == net.reaping = {} /\ events = {}

(* A backend start keeps the copy of the process that runs, and runs a new *)
(* one only from the copy it was given.                                    *)
LEMMA BackendStartKeeps ==
  ASSUME NEW n, Sound(n), NEW copies \in HeldType, Kept(n, copies), NEW p \in Profiles,
         NEW c \in Copies, c # n.proc.copy, NEW s \in BackendStart(n, p, c)
  PROVE  /\ s.net.reaping = n.reaping
         /\ Kept(s.net, [copies EXCEPT ![c] = p])
         /\ s.result # "ok" => Kept(s.net, copies)
<1> USE DEF HeldType
<1>1. Kept(n, [copies EXCEPT ![c] = p])
  BY DEF Kept
<1>2. CASE p \in OpenVPN
  <2> DEFINE new(state) == [n EXCEPT !.proc = [profile |-> p, copy |-> c, state |-> state]]
             ready == [n EXCEPT !.proc = [profile |-> p, copy |-> c, state |-> "running"],
                                !.owner = [profile |-> p, copy |-> c]]
  <2>1. \/ s.net = n
        \/ s.net = ready /\ s.result = "ok"
        \/ \E state \in {"stuck", "gone"} : s.net = new(state)
    BY <1>2 DEF BackendStart, StartOpenVPN
  <2>2. /\ ready.reaping = n.reaping /\ ready.proc.copy = c /\ ready.proc.profile = p
        /\ \A state : new(state).reaping = n.reaping /\ new(state).proc.state = state
    BY DEF Sound, Nets
  <2> HIDE DEF new, ready
  <2>3. Kept(ready, [copies EXCEPT ![c] = p])
    BY <2>2 DEF Kept
  <2>4. \A state \in {"stuck", "gone"} : \A h : Kept(new(state), h)
    BY <2>2 DEF Kept
  <2> QED
    BY <1>1, <2>1, <2>2, <2>3, <2>4
<1>3. CASE p \notin OpenVPN
  <2>1. s.net.proc = n.proc /\ s.net.reaping = n.reaping
    BY <1>3 DEF BackendStart, StartWireGuard, Sound, Nets
  <2> QED
    BY <1>1, <2>1 DEF Kept
<1> QED
  BY <1>2, <1>3

(* Deactivating the process leaves it ready only if it was.                *)
LEMMA DeactivateKeeps ==
  ASSUME NEW n, Sound(n), NEW d \in Deactivate(n)
  PROVE  /\ d.net.reaping = n.reaping
         /\ d.ok => d.net.proc = NoProc
         /\ d.net.proc.state \in {"running", "leaving"}
              => /\ n.proc.state \in {"running", "leaving"}
                 /\ d.net.proc.copy = n.proc.copy /\ d.net.proc.profile = n.proc.profile
<1>1. CASE d = [net |-> [n EXCEPT !.proc = NoProc, !.owner = NoOwner], ok |-> TRUE]
  BY <1>1 DEF Sound, Nets, NoProc
<1>2. ASSUME n.proc.state \notin {"none", "gone"}, NEW state \in Remains(n.proc.state),
             d = [net |-> [n EXCEPT !.proc.state = state], ok |-> FALSE]
      PROVE  /\ d.net.reaping = n.reaping /\ ~d.ok
             /\ d.net.proc.state \in {"running", "leaving"}
                  => /\ n.proc.state \in {"running", "leaving"}
                     /\ d.net.proc.copy = n.proc.copy /\ d.net.proc.profile = n.proc.profile
  <2>1. n.proc \in Procs
    BY <1>2 DEF Sound, Nets, NoProc
  <2>2. /\ d.net.reaping = n.reaping /\ ~d.ok /\ d.net.proc.state = state
        /\ d.net.proc.copy = n.proc.copy /\ d.net.proc.profile = n.proc.profile
    BY <1>2, <2>1 DEF Sound, Nets, Procs
  <2>3. state \in {"running", "leaving"} => n.proc.state \in {"running", "leaving"}
    BY <1>2, <2>1 DEF Remains, Procs
  <2> QED
    BY <2>2, <2>3
<1> QED
  BY <1>1, <1>2 DEF Deactivate

(* The manager's start keeps every copy in use.                            *)
LEMMA StartKeepsCopies ==
  ASSUME Sound(net), held \in HeldType, Kept(net, held), NEW p \in Profiles,
         NEW s \in StartOutcomes(p)
  PROVE  Kept(s.net, s.held) /\ s.net.reaping = net.reaping
<1> DEFINE c == CHOOSE c \in Fresh : TRUE
           Outcome(n, h, r) == [net |-> n, held |-> h, result |-> r]
           kept == [held EXCEPT ![c] = p]
<1>1. s = Outcome(net, held, "failed")
      \/ /\ Fresh # {}
         /\ \E b \in BackendStart(net, p, c) :
              IF b.result = "ok" THEN s = Outcome(b.net, kept, "ok")
              ELSE s \in {Outcome(b.net, held, b.result), Outcome(b.net, kept, "unproved")}
  BY DEF StartOutcomes
<1>2. ASSUME Fresh # {}, NEW b \in BackendStart(net, p, c),
             IF b.result = "ok" THEN s = Outcome(b.net, kept, "ok")
             ELSE s \in {Outcome(b.net, held, b.result), Outcome(b.net, kept, "unproved")}
      PROVE  Kept(s.net, s.held) /\ s.net.reaping = net.reaping
  <2>1. c \in Copies /\ c # net.proc.copy
    BY <1>2 DEF Fresh
  <2>3. b \in BackendStart(net, p, c)
    BY <1>2
  <2> HIDE DEF c
  <2>2. /\ b.net.reaping = net.reaping /\ Kept(b.net, kept)
        /\ b.result # "ok" => Kept(b.net, held)
    BY <2>1, <2>3, BackendStartKeeps, SMT
  <2> HIDE DEF kept
  <2> QED
    BY <1>2, <2>2
<1> HIDE DEF c, kept
<1> QED
  BY <1>1, <1>2

(* The manager's stop removes only copies kept for the profile it stopped. *)
LEMMA StopKeepsCopies ==
  ASSUME Sound(net), held \in HeldType, Kept(net, held), NEW p \in Profiles,
         NEW s \in StopOutcomes(p)
  PROVE  Kept(s.net, s.held) /\ s.net.reaping = net.reaping
<1> DEFINE c == CHOOSE c \in Fresh : TRUE
           marked == [held EXCEPT ![c] = p]
<1>1. s = [net |-> net, held |-> held, ok |-> FALSE]
      \/ /\ Fresh # {}
         /\ \E b \in BackendStop(net, p) :
              \/ s \in AfterStop(b, p, held, TRUE) \/ s \in AfterStop(b, p, marked, FALSE)
  BY DEF StopOutcomes
<1>2. ASSUME NEW b \in BackendStop(net, p), NEW copies \in HeldType, Kept(net, copies), NEW own,
             s \in AfterStop(b, p, copies, own),
             \A k \in Copies : copies[k] \in {held[k], p}
      PROVE  Kept(s.net, s.held) /\ s.net.reaping = net.reaping
  <2>1. /\ b.net.reaping = net.reaping
        /\ b.net.proc.state \in {"running", "leaving"}
             => /\ net.proc.state \in {"running", "leaving"}
                /\ b.net.proc.copy = net.proc.copy /\ b.net.proc.profile = net.proc.profile
                /\ b.ok => net.proc.profile # p
    <3>1. CASE p \in OpenVPN
      BY <3>1, DeactivateKeeps DEF BackendStop, StopOpenVPN, NoProc
    <3>2. CASE p \notin OpenVPN
      <4>1. b.net.proc = net.proc /\ b.net.reaping = net.reaping
        BY <3>2 DEF BackendStop, StopWireGuard, Sound, Nets
      <4>2. net.proc.state \in {"running", "leaving"} => net.proc.profile \in OpenVPN
        BY DEF Sound, Nets, Procs, NoProc
      <4> QED
        BY <3>2, <4>1, <4>2
    <3> QED
      BY <3>1, <3>2
  <2>2. CASE ~b.ok
    BY <1>2, <2>1, <2>2 DEF AfterStop, Kept
  <2>3. CASE b.ok
    <3>1. PICK o \in CleanOutcomes(copies, Tracked(p)) :
            s = [net |-> b.net, held |-> o.held, ok |-> o.ok /\ own]
      BY <1>2, <2>3 DEF AfterStop
    <3>2. PICK kept \in SUBSET Tracked(p) :
            o.held = [k \in Copies |-> IF k \in Tracked(p) \ kept THEN None ELSE copies[k]]
      BY DEF CleanOutcomes
    <3>3. SUFFICES ASSUME b.net.proc.state \in {"running", "leaving"}
                   PROVE  o.held[net.proc.copy] = net.proc.profile
      BY <2>1, <3>1 DEF Kept
    <3>4. net.proc.copy \in Copies /\ net.proc.profile # p
      BY <2>1, <2>3, <3>3 DEF Sound, Nets, Procs, NoProc
    <3>5. copies[net.proc.copy] = net.proc.profile /\ held[net.proc.copy] = net.proc.profile
      BY <1>2, <2>1, <3>3 DEF Kept
    <3> QED
      BY <3>2, <3>4, <3>5 DEF Tracked
  <2> QED
    BY <2>2, <2>3
<1>3. ASSUME Fresh # {} PROVE /\ marked \in HeldType /\ Kept(net, marked)
                              /\ \A k \in Copies : marked[k] \in {held[k], p}
  <2>1. c \in Copies /\ c # net.proc.copy
    BY <1>3 DEF Fresh
  <2> HIDE DEF c
  <2> QED
    BY <2>1 DEF Kept, HeldType
<1> HIDE DEF c, marked
<1>4. CASE s = [net |-> net, held |-> held, ok |-> FALSE]
  BY <1>4
<1>5. ASSUME Fresh # {}, NEW b \in BackendStop(net, p), s \in AfterStop(b, p, held, TRUE)
      PROVE  Kept(s.net, s.held) /\ s.net.reaping = net.reaping
  <2>1. \A k \in Copies : held[k] \in {held[k], p}
    OBVIOUS
  <2> QED
    BY <1>2, <1>5, <2>1
<1>6. ASSUME Fresh # {}, NEW b \in BackendStop(net, p), s \in AfterStop(b, p, marked, FALSE)
      PROVE  Kept(s.net, s.held) /\ s.net.reaping = net.reaping
  BY <1>2, <1>3, <1>6
<1> QED
  BY <1>1, <1>4, <1>5, <1>6

(* The end of a Disconnect's stops: no process is left to lose its copy.   *)
LEMMA AllStoppedKeepsCopies ==
  ASSUME IInv, Kept(net, held), AllStopped PROVE Kept(net', held')
<1>1. CASE ~EveryStopProved
  BY <1>1 DEF AllStopped, Kept
<1>2. CASE EveryStopProved
  <2>1. Up(net') = {}
    BY <1>2 DEF AllStopped, EveryStopProved, IInv, NetworkKnown
  <2> QED
    BY <2>1 DEF Up, Kept
<1> QED
  BY <1>1, <1>2

(* Every step, if no process exits by itself.                              *)
LEMMA NextKeepsCopies ==
  ASSUME ~May("exit"), IInv, NoExits, Kept(net, held), [Next]_vars
  PROVE  NoExits' /\ Kept(net', held')
<1> USE InvFacts
<1>1. CASE UNCHANGED <<net, held, events>>
  BY <1>1 DEF NoExits, Kept
<1>2. ASSUME NEW p \in Profiles, UNCHANGED events,
             \/ \E s \in StartOutcomes(p) : net' = s.net /\ held' = s.held
             \/ \E s \in StopOutcomes(p) : net' = s.net /\ held' = s.held
      PROVE  NoExits' /\ Kept(net', held')
  BY <1>2, StartKeepsCopies, StopKeepsCopies DEF NoExits
<1>3. CASE Request
  BY <1>1, <1>3 DEF Request, Connect, Remove, Import, Disconnect, SetPreferences
<1>4. CASE Proceed
  <2>1. CASE StartTarget \/ RestorePrevious \/ CompensateStart \/ StartupStart
    BY <1>2, <2>1 DEF StartTarget, RestorePrevious, CompensateStart, StartupStart, IInv, TargetsKnown
  <2>2. CASE StopPrevious \/ CompensateStop \/ StartupStop \/ StopNext
    BY <1>2, <2>2 DEF StopPrevious, CompensateStop, StartupStop, StopNext, IInv, TargetsKnown, Ops
  <2>3. CASE RecoverBackends
    BY <2>3, DeactivateKeeps DEF RecoverBackends, NoExits, Kept
  <2>4. CASE AllStopped
    BY <2>4, AllStoppedKeepsCopies DEF AllStopped, NoExits
  <2>5. CASE RecordActive \/ ForgetConnection \/ RecordTarget \/ CompensateStore \/ ClearConnection
             \/ StartupForget \/ StartupRecord \/ StartupRepair \/ ExitRecord
    BY <1>1, <2>5 DEF RecordActive, ForgetConnection, RecordTarget, CompensateStore, ClearConnection,
       StartupForget, StartupRecord, StartupRepair, ExitRecord
  <2> QED
    BY <1>4, <2>1, <2>2, <2>3, <2>4, <2>5 DEF Proceed
<1>5. CASE StartupBegin \/ UNCHANGED vars
  BY <1>1, <1>5 DEF StartupBegin, vars
<1>6. ASSUME NEW e \in Events, HandleExit(e) PROVE FALSE
  BY <1>6 DEF HandleExit, NoExits
<1>7. CASE Network
  <2>1. CASE Wither
    <3>1. \/ net' = [net EXCEPT !.proc.state = "stuck"]
          \/ net' = [net EXCEPT !.proc.state = "gone"]
      BY <2>1 DEF Wither, Withers
    <3>2. net.proc \in Procs
      BY <2>1 DEF Wither, Sound, Nets, NoProc
    <3>3. net'.proc.state \in {"stuck", "gone"} /\ net'.reaping = net.reaping
      BY <3>1, <3>2 DEF Sound, Nets, Procs
    <3> QED
      BY <2>1, <3>3 DEF Wither, NoExits, Kept
  <2>2. ASSUME NEW w \in WireGuard, Drop(w) \/ Raise(w) PROVE NoExits' /\ Kept(net', held')
    <3>1. net'.proc = net.proc /\ net'.reaping = net.reaping /\ UNCHANGED <<held, events>>
      BY <2>2 DEF Drop, Raise, Sound, Nets
    <3> QED
      BY <3>1 DEF NoExits, Kept
  <2> QED
    BY <1>7, <2>1, <2>2 DEF Network, Exit, Report, NoExits
<1>8. ASSUME DaemonEnds \/ MachineStops PROVE NoExits' /\ Kept(net', held')
  BY <1>8 DEF DaemonEnds, MachineStops, Restarted, AfterDaemonEnds, NothingRuns, NoProc, NoExits, Kept
<1> QED
  BY <1>3, <1>4, <1>5, <1>6, <1>7, <1>8 DEF Next

(* As long as no OpenVPN process exits by itself, none that is ready, or   *)
(* was and is being stopped, is without the private copy of the profile it *)
(* was started from, whichever starts, stops and cleanups fail: with such  *)
(* exits the run stale_exit shows how one can be.                          *)
THEOREM TunnelsKeepTheirCopies ==
  ASSUME ~May("exit") PROVE Spec => []LiveTunnelKeepsItsCopy
<1>1. Init => NoExits /\ Kept(net, held)
  BY DEF Init, NothingRuns, NoProc, NoExits, Kept
<1>2. IInv /\ NoExits /\ Kept(net, held) /\ [Next]_vars => (NoExits /\ Kept(net, held))'
  BY NextKeepsCopies
<1>3. Kept(net, held) => LiveTunnelKeepsItsCopy
  BY DEF Kept, LiveTunnelKeepsItsCopy
<1> QED
  BY <1>1, <1>2, <1>3, InductiveInvariant, PTL DEF Spec

-----------------------------------------------------------------------------
(* What users see: ConnectionContract's promises, kept by every step.      *)

(* The lifecycle an operation has set by the time it has reached a step.   *)
Resting == {"disconnected", "active", "failed", "state_conflict"}

Told ==
  /\ op.step \in {"idle", "exitRecord"} => life.state \in Resting
  /\ op.step = "exitRecord" => Up(net) = {}
  /\ op.step = "recordActive"
       => op.target \in Profiles /\ life.state \in Resting \ {"state_conflict"}
  /\ op.step \in {"stopPrevious", "start", "restore", "forget", "record",
                  "compensateStop", "compensateStart", "compensateStore"}
       => life.state \in {"starting", "switching"}
  /\ op.step \in {"recover", "stopAll", "clear"} => life.state = "disconnecting"
  /\ op.step \in {"startupForget", "startupStart", "startupRecord", "startupStop", "startupRepair"}
       => life.state = "restoring"

(* The end of an operation.                                                *)
LEMMA FinishTells == ASSUME NEW state \in Resting, NEW p, Finish(state, p) PROVE Told'
BY DEF Finish, Life, Idle, Op, Told

(* Startup's decision whether to restore.                                  *)
LEMMA RestoreDesiredTells == ASSUME NEW manifest, RestoreDesired(manifest) PROVE Told'
<1>1. \/ \E state \in {"disconnected", "failed"} : \E p : Finish(state, p)
      \/ \E p : op' = Op("startupStart", p, None) /\ life' = Life("restoring", p)
  BY DEF RestoreDesired
<1> QED
  BY <1>1, FinishTells DEF Resting, Told, Op, Life

(* The handling of an exit.                                                *)
LEMMA HandleExitTells == ASSUME IInv, Told, NEW e \in Events, HandleExit(e) PROVE Told'
<1>1. op = Idle /\ UNCHANGED net /\ life.state \in Resting
  BY HandledExit DEF Told, Idle, Op
<1>2. CASE UNCHANGED <<op, life>>
  BY <1>1, <1>2 DEF Told
<1>3. CASE Up(net) = {} /\ op' = Op("exitRecord", e.profile, None) /\ UNCHANGED life
  BY <1>1, <1>3 DEF Told, Op
<1> QED
  BY <1>2, <1>3, HandledExit, FinishTells DEF Resting

(* A request, which also may have to wait for startup.                     *)
LEMMA RequestTells == ASSUME IInv, Told, Request PROVE Told'
<1> USE InvFacts
<1>1. ASSUME NEW p \in Profiles, Connect(p) PROVE Told'
  <2>1. op = Idle /\ life.state \in Resting \ {"state_conflict"}
    BY <1>1 DEF Connect, Admitted, Unconflicted, Told, Idle, Op
  <2>2. \/ Finish("failed", p) \/ Finish("state_conflict", p)
        \/ op' = Op("recordActive", p, None) /\ UNCHANGED life
        \/ op' = Op("start", p, None) /\ life' = Life("starting", p)
        \/ \E q \in Profiles : op' = Op("stopPrevious", p, q) /\ life' = Life("switching", p)
    BY <1>1, Zenon DEF Connect
  <2>3. CASE Finish("failed", p) \/ Finish("state_conflict", p)
    BY <2>3, FinishTells DEF Resting
  <2>4. CASE op' = Op("recordActive", p, None) /\ UNCHANGED life
    BY <2>1, <2>4 DEF Told, Op
  <2>5. ASSUME NEW step \in {"start", "stopPrevious"}, NEW q, op' = Op(step, p, q),
               NEW state \in {"starting", "switching"}, life' = Life(state, p)
        PROVE  Told'
    BY <2>5 DEF Told, Op, Life
  <2> QED
    BY <2>2, <2>3, <2>4, <2>5
<1>2. CASE Disconnect
  <2>1. \/ Finish("state_conflict", None)
        \/ op'.step \in {"stopAll", "recover"} /\ life'.state = "disconnecting"
    BY <1>2 DEF Disconnect, StopObserved, Op, Life
  <2> QED
    BY <2>1, FinishTells DEF Resting, Told
<1>3. CASE UNCHANGED <<op, life, net>>
  BY <1>3 DEF Told
<1>4. Request => UNCHANGED <<op, life, net>> \/ Disconnect \/ \E p \in Profiles : Connect(p)
  BY DEF Request, Remove, Import, SetPreferences
<1> QED
  BY <1>1, <1>2, <1>3, <1>4

(* The rest of an operation.                                               *)
LEMMA ProceedTells == ASSUME IInv, Told, Proceed PROVE Told'
<1> USE InvFacts
<1>1. ASSUME NEW state \in Resting, NEW p, Finish(state, p) PROVE Told'
  BY <1>1, FinishTells
<1>2. CASE RecordActive \/ ForgetConnection \/ CompensateStore \/ StartupRepair \/ ExitRecord
           \/ ClearConnection
  <2>1. \E state \in Resting : \E p : Finish(state, p)
    BY <1>2 DEF RecordActive, ForgetConnection, CompensateStore, StartupRepair, ExitRecord,
                ClearConnection, Resting
  <2> QED
    BY <1>1, <2>1
<1>3. CASE StopPrevious \/ StartTarget \/ RestorePrevious \/ RecordTarget
           \/ CompensateStop \/ CompensateStart
  <2>1. op.step \in {"stopPrevious", "start", "restore", "record", "compensateStop", "compensateStart"}
    BY <1>3 DEF StopPrevious, StartTarget, RestorePrevious, RecordTarget, CompensateStop, CompensateStart
  <2>2. \/ \E state \in Resting : \E p : Finish(state, p)
        \/ /\ UNCHANGED life
           /\ op'.step \in {"start", "record", "restore", "forget",
                            "compensateStop", "compensateStart", "compensateStore"}
    <3>1. CASE StopPrevious \/ RecordTarget
      BY <3>1 DEF StopPrevious, RecordTarget, Goto, Resting, Ops
    <3>2. CASE StartTarget \/ RestorePrevious
      BY <3>2 DEF StartTarget, RestorePrevious, AfterFailedStart, Goto, Resting, Ops
    <3>3. CASE CompensateStop \/ CompensateStart
      BY <3>3 DEF CompensateStop, CompensateStart, Ops
    <3> QED
      BY <1>3, <3>1, <3>2, <3>3
  <2> QED
    BY <1>1, <2>1, <2>2 DEF Told
<1>4. CASE RecoverBackends \/ StopNext \/ AllStopped
  <2>1. \/ \E p : Finish("state_conflict", p)
        \/ UNCHANGED life /\ op'.step \in {"stopAll", "clear"}
    BY <1>4 DEF RecoverBackends, StopNext, AllStopped, StopObserved, Op, Goto, Ops
  <2>2. op.step \in {"recover", "stopAll"}
    BY <1>4 DEF RecoverBackends, StopNext, AllStopped
  <2> QED
    BY <1>1, <2>1, <2>2 DEF Told, Resting
<1>5. CASE StartupForget
  BY <1>1, <1>5, RestoreDesiredTells DEF StartupForget, Resting
<1>6. CASE StartupStart \/ StartupRecord \/ StartupStop
  <2>1. \/ \E state \in Resting : \E p : Finish(state, p)
        \/ UNCHANGED life /\ op'.step \in {"startupRecord", "startupStop", "startupRepair"}
    BY <1>6 DEF StartupStart, StartupRecord, StartupStop, Goto, Resting, Ops
  <2>2. op.step \in {"startupStart", "startupRecord", "startupStop"}
    BY <1>6 DEF StartupStart, StartupRecord, StartupStop
  <2> QED
    BY <1>1, <2>1, <2>2 DEF Told
<1> QED
  BY <1>2, <1>3, <1>4, <1>5, <1>6 DEF Proceed

(* The other steps.                                                        *)
LEMMA RestTells ==
  ASSUME IInv, Told, StartupBegin \/ Network \/ DaemonEnds \/ MachineStops \/ UNCHANGED vars
  PROVE  Told'
<1> USE InvFacts
<1>1. CASE StartupBegin
  <2>1. \/ \E state \in Resting : \E p : Finish(state, p)
        \/ op' = Op("startupForget", None, None) /\ life' = Life("restoring", None)
        \/ RestoreDesired(lib.mem)
    BY <1>1 DEF StartupBegin, Resting
  <2>2. CASE op' = Op("startupForget", None, None) /\ life' = Life("restoring", None)
    BY <2>2 DEF Told, Op, Life
  <2> QED
    BY <2>1, <2>2, FinishTells, RestoreDesiredTells
<1>2. CASE Network
  <2>1. UNCHANGED <<op, life>>
    BY <1>2 DEF Network, Exit, Wither, Report, Drop, Raise
  <2>2. op.step = "exitRecord" => Up(net') \subseteq Up(net)
    <3>1. ASSUME NEW c \in Copies, Report(c) PROVE Up(net') \subseteq Up(net)
      BY <3>1, ReapedIsSound DEF Report
    <3>2. CASE Exit \/ Wither \/ \E w \in WireGuard : Drop(w)
      BY <3>2, NetworkStepsAreSound DEF Exit, Wither, Drop
    <3>3. ASSUME NEW w \in WireGuard, Raise(w) PROVE op.step = "idle"
      BY <3>3 DEF Raise, Idle, Op
    <3> QED
      BY <1>2, <3>1, <3>2, <3>3 DEF Network
  <2> QED
    BY <2>1, <2>2 DEF Told
<1>3. CASE DaemonEnds \/ MachineStops
  BY <1>3, FinishTells DEF DaemonEnds, MachineStops, Restarted, Finish, Resting
<1>4. CASE UNCHANGED vars
  BY <1>4 DEF vars, Told
<1> QED
  BY <1>1, <1>2, <1>3, <1>4

(* In every state the lifecycle tells what the operation in progress is    *)
(* doing, and none is in progress without one that tells so.               *)
THEOREM LifecycleTells == Spec => []Told
<1>1. Init => Told
  BY DEF Init, Told, Idle, Op, Life, Resting
<1>2. IInv /\ Told /\ [Next]_vars => Told'
  BY RequestTells, ProceedTells, HandleExitTells, RestTells DEF Next
<1> QED
  BY <1>1, <1>2, InductiveInvariant, PTL DEF Spec

-----------------------------------------------------------------------------
(* The library under writes of one desired profile.                        *)
Wrote(l, d, m) ==
  /\ m.mem.desired \in {l.mem.desired, d}
  /\ m.disk.desired \in {l.mem.desired, l.disk.desired, d}

(* Repairing durability.                                                   *)
LEMMA RepairWrites ==
  ASSUME NEW l \in Libraries, NEW r \in RepairOutcomes(l), NEW d
  PROVE  r.lib \in Libraries /\ Wrote(l, d, r.lib)
<1>1. r.lib = l \/ r.lib = Durable(l.mem)
  BY DEF RepairOutcomes
<1>2. Durable(l.mem).disk = l.mem /\ Durable(l.mem).mem = l.mem
  BY DEF Durable
<1> QED
  BY <1>1, <1>2, RepairKeepsManifest DEF Wrote

(* A store write of a manifest with that desired profile.                  *)
LEMMA StoreWrites ==
  ASSUME NEW l \in Libraries, NEW m \in Manifests, NEW w \in WriteOutcomes(l, m)
  PROVE  w.lib \in Libraries /\ Wrote(l, m.desired, w.lib)
<1>1. w.lib \in Libraries /\ w.lib.mem \in {l.mem, m} /\ w.lib.disk \in {l.mem, l.disk, m}
  BY WriteLeavesEither, WriteIsDurable
<1> QED
  BY <1>1 DEF Wrote

(* Store.SetConnection.                                                    *)
LEMMA SetConnectionWrites ==
  ASSUME NEW l \in Libraries, NEW d \in Profiles \cup {None}, NEW c \in BOOLEAN,
         NEW w \in SetConnection(l, d, c)
  PROVE  w.lib \in Libraries /\ Wrote(l, d, w.lib)
<1>1. Connection(l.mem, d, c) \in Manifests /\ Connection(l.mem, d, c).desired = d
  BY DEF Connection, Libraries, Manifests
<1> QED
  BY <1>1, StoreWrites DEF SetConnection

(* One write after another.                                                *)
LEMMA WritesCompose ==
  ASSUME NEW l, NEW m, NEW n, NEW d, Wrote(l, d, m), Wrote(m, d, n) PROVE Wrote(l, d, n)
BY DEF Wrote

(* reconcileConnection, over both of its attempts.                         *)
LEMMA ReconcileWrites ==
  ASSUME NEW l \in Libraries, NEW d \in Profiles \cup {None}, NEW c \in BOOLEAN,
         NEW w \in ReconcileOutcomes(l, d, c)
  PROVE  w.lib \in Libraries /\ Wrote(l, d, w.lib)
<1>1. PICK v \in SetConnection(l, d, c) :
        w \in IF v.ok THEN {v}
              ELSE UNION {IF r.ok THEN SetConnection(r.lib, d, c) ELSE {r} :
                            r \in RepairOutcomes(v.lib)}
  BY DEF ReconcileOutcomes
<1>2. v.lib \in Libraries /\ Wrote(l, d, v.lib)
  BY SetConnectionWrites
<1>3. CASE v.ok
  BY <1>1, <1>2, <1>3
<1>4. CASE ~v.ok
  <2>1. PICK r \in RepairOutcomes(v.lib) : w \in IF r.ok THEN SetConnection(r.lib, d, c) ELSE {r}
    BY <1>1, <1>4
  <2>2. r.lib \in Libraries /\ Wrote(l, d, r.lib)
    BY <1>2, RepairWrites, WritesCompose
  <2>3. w.lib \in Libraries /\ (Wrote(r.lib, d, w.lib) \/ w.lib = r.lib)
    BY <2>1, <2>2, SetConnectionWrites
  <2> QED
    BY <2>2, <2>3, WritesCompose
<1> QED
  BY <1>3, <1>4

(* What ConnectionContract allows the library to become.                   *)
Writes == \E d \in Profiles \cup {None} : Wrote(lib, d, lib')

(* A step that leaves the library alone.                                   *)
LEMMA NoWrites == ASSUME UNCHANGED lib PROVE Writes
BY DEF Writes, Wrote

(* The writes of Connect.                                                  *)
LEMMA ConnectWrites ==
  ASSUME IInv, \/ RecordActive \/ ForgetConnection \/ RecordTarget \/ StartupRecord
               \/ ClearConnection \/ StartupForget \/ ExitRecord
  PROVE  Writes
<1> USE InvFacts
<1>1. CASE RecordActive
  <2>1. PICK w \in SetConnection(lib, op.target, TRUE) :
          \E r \in IF w.ok THEN {w} ELSE ReconcileOutcomes(w.lib, op.target, TRUE) : lib' = r.lib
    BY <1>1 DEF RecordActive
  <2>2. w.lib \in Libraries /\ Wrote(lib, op.target, w.lib)
    BY SetConnectionWrites
  <2>3. lib' = w.lib \/ \E r \in ReconcileOutcomes(w.lib, op.target, TRUE) : lib' = r.lib
    BY <2>1
  <2>4. lib' = w.lib \/ Wrote(w.lib, op.target, lib')
    BY <2>2, <2>3, ReconcileWrites, ZenonT(60)
  <2> QED
    BY <2>2, <2>4, WritesCompose DEF Writes
<1>2. ASSUME NEW d \in Profiles \cup {None}, NEW c \in BOOLEAN,
             \/ \E w \in SetConnection(lib, d, c) : lib' = w.lib
             \/ \E w \in ReconcileOutcomes(lib, d, c) : lib' = w.lib
      PROVE  Writes
  BY <1>2, SetConnectionWrites, ReconcileWrites DEF Writes
<1>3. CASE RecordTarget \/ StartupRecord
  BY <1>2, <1>3 DEF RecordTarget, StartupRecord
<1>4. CASE ForgetConnection
  <2>1. (IF op.errs = {} THEN lib.mem.desired ELSE op.previous) \in Profiles \cup {None}
    BY DEF Manifests
  <2> QED
    BY <1>2, <1>4, <2>1 DEF ForgetConnection
<1>5. CASE ClearConnection \/ StartupForget \/ ExitRecord
  <2>1. lib.mem.desired \in Profiles \cup {None}
    BY DEF Manifests
  <2> QED
    BY <1>2, <1>5, <2>1 DEF ClearConnection, StartupForget, ExitRecord
<1> QED
  BY <1>1, <1>3, <1>4, <1>5

(* Those of a compensation.                                                *)
LEMMA CompensationWrites ==
  ASSUME IInv, CompensateStore \/ StartupRepair PROVE Writes
<1> USE InvFacts
<1>1. PICK r \in RepairOutcomes(lib) :
        \/ lib' = r.lib
        \/ \E w \in SetConnection(r.lib, op.previous, op.previous # None /\ op.errs = {}) : lib' = w.lib
        \/ \E w \in ReconcileOutcomes(r.lib, op.target, FALSE) : lib' = w.lib
  <2>1. \A r \in RepairOutcomes(lib) : [r EXCEPT !.ok = FALSE].lib = r.lib
    BY DEF RepairOutcomes
  <2>2. CASE CompensateStore
    BY <2>1, <2>2 DEF CompensateStore, Compensation
  <2>3. CASE StartupRepair
    BY <2>1, <2>3 DEF StartupRepair
  <2> QED
    BY <2>2, <2>3
<1>2. \A d : r.lib \in Libraries /\ Wrote(lib, d, r.lib)
  BY RepairWrites
<1>3. CASE lib' = r.lib
  BY <1>2, <1>3 DEF Writes
<1>4. ASSUME NEW w \in SetConnection(r.lib, op.previous, op.previous # None /\ op.errs = {}),
             lib' = w.lib
      PROVE  Writes
  <2> DEFINE connected == op.previous # None /\ op.errs = {}
  <2>1. connected \in BOOLEAN /\ w \in SetConnection(r.lib, op.previous, connected)
    BY <1>4
  <2> HIDE DEF connected
  <2>2. Wrote(r.lib, op.previous, lib')
    BY <1>2, <1>4, <2>1, SetConnectionWrites
  <2> QED
    BY <1>2, <2>2, WritesCompose DEF Writes
<1>5. ASSUME NEW w \in ReconcileOutcomes(r.lib, op.target, FALSE), lib' = w.lib PROVE Writes
  <2>1. Wrote(r.lib, op.target, lib')
    BY <1>2, <1>5, ReconcileWrites
  <2> QED
    BY <1>2, <2>1, WritesCompose DEF Writes
<1> QED
  BY <1>1, <1>3, <1>4, <1>5

(* Those of library operations: an import and a change of the startup mode *)
(* leave the desired profile alone, a removal clears it at most.           *)
LEMMA LibraryOperationsWrite ==
  ASSUME IInv
  PROVE  /\ \A p \in Profiles : Remove(p)
              => Wrote(lib, IF lib.mem.desired = p THEN None ELSE lib.mem.desired, lib')
         /\ (\E p \in Profiles : Import(p)) \/ (\E m \in {"manual", "restore"} : SetPreferences(m))
              => Wrote(lib, lib.mem.desired, lib')
<1> USE InvFacts
<1>1. ASSUME NEW p \in Profiles, Remove(p)
      PROVE  Wrote(lib, IF lib.mem.desired = p THEN None ELSE lib.mem.desired, lib')
  <2>1. /\ Without(lib.mem, p) \in Manifests
        /\ Without(lib.mem, p).desired = IF lib.mem.desired = p THEN None ELSE lib.mem.desired
    BY DEF Without, Manifests
  <2> QED
    BY <1>1, <2>1, StoreWrites DEF Remove, RemoveProfile
<1>2. ASSUME NEW p \in Profiles, Import(p) PROVE Wrote(lib, lib.mem.desired, lib')
  <2>1. With(lib.mem, {p}) \in Manifests /\ With(lib.mem, {p}).desired = lib.mem.desired
    BY DEF With, Manifests
  <2> QED
    BY <1>2, <2>1, StoreWrites DEF Import, PublishProfile
<1>3. ASSUME NEW mode \in {"manual", "restore"}, SetPreferences(mode)
      PROVE  Wrote(lib, lib.mem.desired, lib')
  <2> DEFINE moded == [lib.mem EXCEPT !.mode = mode]
  <2>1. moded \in Manifests /\ moded.desired = lib.mem.desired
    BY DEF Manifests
  <2>2. PICK w \in WriteOutcomes(lib, moded) : lib' = w.lib
    BY <1>3 DEF SetPreferences, SetStartupMode
  <2> HIDE DEF moded
  <2> QED
    BY <2>1, <2>2, StoreWrites
<1> QED
  BY <1>1, <1>2, <1>3

(* Any step that is no restart.                                            *)
LEMMA EveryStepWrites ==
  ASSUME IInv, [Next]_vars, ~(DaemonEnds \/ MachineStops) PROVE Writes
<1>1. CASE UNCHANGED lib
  BY <1>1, NoWrites
<1>2. CASE \/ \E p \in Profiles : Remove(p) \/ Import(p)
           \/ \E m \in {"manual", "restore"} : SetPreferences(m)
  <2>1. lib.mem.desired \in Profiles \cup {None}
    BY InvFacts DEF Manifests
  <2> QED
    BY <1>2, <2>1, LibraryOperationsWrite DEF Writes
<1>3. Next => \/ UNCHANGED lib
              \/ RecordActive \/ ForgetConnection \/ RecordTarget \/ StartupRecord
              \/ ClearConnection \/ StartupForget \/ ExitRecord
              \/ CompensateStore \/ StartupRepair
              \/ \E p \in Profiles : Remove(p) \/ Import(p)
              \/ \E m \in {"manual", "restore"} : SetPreferences(m)
  BY DEF Next, Request, Connect, Disconnect, Proceed, StopPrevious, StartTarget, RestorePrevious,
         CompensateStop, CompensateStart, RecoverBackends, StopNext, AllStopped, StartupStart,
         StartupStop, StartupBegin, HandleExit, Network, Exit, Wither, Report, Drop, Raise
<1> QED
  BY <1>1, <1>2, <1>3, ConnectWrites, CompensationWrites DEF vars

-----------------------------------------------------------------------------
(* The shapes a step can have in ConnectionContract.                       *)
Shows == reconciled /\ reconciled'

(* An operation ends in a conflict.                                        *)
LEMMA ConflictShown ==
  ASSUME IInv, Shows, life'.state = "state_conflict", Up(net') \subseteq Up(net), Writes
  PROVE  Visible!Next
<1>1. LifecycleShown # "unknown" /\ LifecycleShown' = "state_conflict"
  BY InvFacts DEF Shows, LifecycleShown, Lifecycles
<1>2. Visible!Written
  BY DEF Writes, Wrote, Visible!Written
<1> QED
  BY <1>1, <1>2 DEF Visible!Next, Visible!Conflict

(* What ConnectionContract calls Kept and AsDesired.                       *)
Keeps == UNCHANGED lib \/ (Writes /\ lib'.disk = lib'.mem)

OnlyDesired == May("external") \/ Up(net') \subseteq {lib'.mem.desired}

(* A record that is durable, or as it was.                                 *)
LEMMA KeepsShown == ASSUME Keeps PROVE Visible!Kept
<1>1. CASE UNCHANGED lib
  BY <1>1 DEF Visible!Kept, Visible!records
<1>2. CASE Writes /\ lib'.disk = lib'.mem
  BY <1>2 DEF Visible!Kept, Visible!Written, Writes, Wrote
<1> QED
  BY <1>1, <1>2 DEF Keeps

(* An operation fails, or the handling of an exit ends.                    *)
LEMMA FailedShown ==
  ASSUME IInv, Shows, life'.state = "failed", life.state # "disconnecting",
         life.state = "state_conflict" => Up(net) = {}, Up(net') \subseteq Up(net),
         OnlyDesired, Keeps
  PROVE  Visible!Next
<1>1. /\ LifecycleShown \notin {"unknown", "disconnecting"} /\ LifecycleShown' = "failed"
      /\ LifecycleShown = "state_conflict" => Up(net) = {}
  BY InvFacts DEF Shows, LifecycleShown, Lifecycles
<1> QED
  BY <1>1, KeepsShown DEF Visible!Next, Visible!Failed, Visible!AsDesired, OnlyDesired

(* A connection has been recorded.                                         *)
LEMMA ConnectedShown ==
  ASSUME IInv, Shows, life'.state = "active",
         life.state \in {"starting", "switching", "restoring", "disconnected", "active", "failed"},
         Up(net') \subseteq Up(net), OnlyDesired, May("external") \/ lib'.mem.desired # None, Keeps
  PROVE  Visible!Next
<1>1. LifecycleShown \in Visible!Opening \cup Visible!Ended /\ LifecycleShown' = "active"
  BY DEF Shows, LifecycleShown, Visible!Opening, Visible!Ended
<1> QED
  BY <1>1, KeepsShown DEF Visible!Next, Visible!Connected, Visible!AsDesired, OnlyDesired

(* The library is written on the way.                                      *)
LEMMA WriteShown ==
  ASSUME Shows, UNCHANGED <<life, net>>,
         life.state \in {"starting", "switching", "restoring", "disconnecting"}, Writes
  PROVE  Visible!Next
<1>1. /\ LifecycleShown \in Visible!Opening \cup {"disconnecting"}
      /\ LifecycleShown' = LifecycleShown
  BY DEF Shows, LifecycleShown, Visible!Opening
<1>2. Visible!Written
  BY DEF Writes, Wrote, Visible!Written
<1> QED
  BY <1>1, <1>2 DEF Visible!Next, Visible!Write

(* Nothing to be seen, or a tunnel less.                                   *)
LEMMA LessShown ==
  ASSUME UNCHANGED <<life, lib, reconciled>>, Up(net') \subseteq Up(net)
  PROVE  Visible!Next
<1>1. UNCHANGED LifecycleShown
  BY DEF LifecycleShown
<1> QED
  BY <1>1 DEF Visible!Next, Visible!Lose, Visible!records

(* An operation starts a tunnel, whatever comes of it.                     *)
LEMMA StartShown ==
  ASSUME IInv, Shows, UNCHANGED lib, life.state \in {"starting", "switching", "restoring"},
         Up(net) = {}, NEW p \in Profiles, Up(net') \subseteq {p},
         \/ UNCHANGED life
         \/ life'.state = "state_conflict"
         \/ /\ life'.state = "active" /\ OnlyDesired
            /\ May("external") \/ lib'.mem.desired # None
         \/ life'.state = "failed" /\ UNCHANGED net
  PROVE  Visible!Next
<1>1. CASE Up(net') = {}
  <2>1. OnlyDesired /\ Keeps /\ Writes /\ Up(net') \subseteq Up(net) /\ UNCHANGED reconciled
    BY <1>1, NoWrites DEF OnlyDesired, Keeps, Shows
  <2> QED
    BY <2>1, LessShown, ConflictShown, ConnectedShown, FailedShown
<1>2. CASE Up(net') = {p}
  <2>1. LifecycleShown \in Visible!Opening
    BY DEF Shows, LifecycleShown, Visible!Opening
  <2>2. \/ LifecycleShown' \in {LifecycleShown, "state_conflict"}
        \/ LifecycleShown' = "active" /\ Visible!AsDesired
    <3>1. UNCHANGED life => LifecycleShown' = LifecycleShown
      BY DEF Shows, LifecycleShown
    <3>2. life'.state \in {"state_conflict", "active"} => LifecycleShown' = life'.state
      BY DEF Shows, LifecycleShown
    <3>3. OnlyDesired => Visible!AsDesired
      BY DEF OnlyDesired, Visible!AsDesired
    <3>4. ~UNCHANGED net
      BY <1>2
    <3> QED
      BY <3>1, <3>2, <3>3, <3>4
  <2>3. Visible!Start(p)
    BY <1>2, <2>1, <2>2 DEF Visible!Start, Visible!records
  <2> QED
    BY <2>3 DEF Visible!Next
<1> QED
  BY <1>1, <1>2

(* The end of an operation reports what it says.                           *)
LEMMA Finished == ASSUME NEW state, NEW p, Finish(state, p) PROVE life'.state = state
BY DEF Finish, Life

-----------------------------------------------------------------------------
(* What the invariants give every action: Settled holds unless others      *)
(* raise tunnels, which is when ConnectionContract asks less.              *)
Recording == ~May("external") => Settled /\ AtMostOneTunnel

(* Connect.                                                                *)
LEMMA ConnectShown ==
  ASSUME IInv, Told, Recording, reconciled, NEW p \in Profiles, Connect(p) PROVE Visible!Next
<1>1. /\ op = Idle /\ UNCHANGED <<lib, net, reconciled>>
      /\ life.state \in {"disconnected", "active", "failed"}
  BY DEF Connect, Admitted, Unconflicted, Told, Resting, Idle, Op
<1>2. Shows /\ Writes /\ Keeps /\ Up(net') \subseteq Up(net)
  BY <1>1, NoWrites DEF Shows, Keeps
<1>3. OnlyDesired
  BY <1>1 DEF Recording, Settled, Recorded, OnlyDesired
<1>4. \/ Finish("failed", p) \/ Finish("state_conflict", p) \/ UNCHANGED life
      \/ life' \in {Life("starting", p), Life("switching", p)}
  BY Zenon DEF Connect
<1>5. CASE life' \in {Life("starting", p), Life("switching", p)}
  <2>1. LifecycleShown \in Visible!Ended /\ LifecycleShown' = "connecting"
    BY <1>1, <1>2, <1>5 DEF Shows, LifecycleShown, Visible!Ended, Life
  <2> QED
    BY <1>1, <2>1 DEF Visible!Next, Visible!Connect, Visible!records
<1>6. CASE UNCHANGED life
  BY <1>1, <1>2, <1>6, LessShown
<1>7. CASE Finish("failed", p)
  BY <1>1, <1>2, <1>3, <1>7, Finished, FailedShown
<1>8. CASE Finish("state_conflict", p)
  BY <1>2, <1>8, Finished, ConflictShown
<1> QED
  BY <1>4, <1>5, <1>6, <1>7, <1>8

(* The starts an operation makes.                                          *)
LEMMA StartsShown ==
  ASSUME IInv, Told, Recording, reconciled,
         StartTarget \/ RestorePrevious \/ CompensateStart \/ StartupStart
  PROVE  Visible!Next
<1> USE InvFacts
<1>1. /\ Shows /\ UNCHANGED lib
      /\ life.state \in {"starting", "switching", "restoring"}
  BY DEF StartTarget, RestorePrevious, CompensateStart, StartupStart, Told, Shows
<1>2. PICK p \in Profiles : Up(net') \subseteq {p} /\ Up(net) = {}
  BY StartsGrowFromNothing
<1>3. CASE StartTarget
  <2>1. PICK s \in StartOutcomes(op.target) :
          /\ net' = s.net
          /\ UNCHANGED life \/ (s.result # "ok" /\ AfterFailedStart(s.result) = "idle"
                                  /\ Finish("failed", op.target))
    BY <1>3 DEF StartTarget
  <2>2. op.target \in Profiles
    BY <1>3 DEF StartTarget, IInv, TargetsKnown
  <2>3. /\ s.result = "failed" => s.net = net
        /\ s.result \in {"ok", "failed", "unproved"}
    BY <2>2, StartOutcomesAreSound
  <2>4. s.result # "ok" /\ AfterFailedStart(s.result) = "idle" => net' = net
    BY <2>1, <2>3 DEF AfterFailedStart
  <2> QED
    BY <1>1, <1>2, <2>1, <2>4, Finished, StartShown
<1>4. CASE RestorePrevious
  <2>1. Finish("active", op.previous) \/ UNCHANGED life
    BY <1>4 DEF RestorePrevious
  <2>2. op.previous \in Profiles /\ \E s \in StartOutcomes(op.previous) : net' = s.net
    BY <1>4 DEF RestorePrevious, IInv, TargetsKnown
  <2>3. Up(net') \subseteq {op.previous}
    BY <1>2, <2>2, StartOutcomesAreSound
  <2>4. May("external") \/ lib'.mem.desired = op.previous
    BY <1>1, <1>4, <2>2 DEF RestorePrevious, Recording, Settled, Recorded
  <2>5. OnlyDesired /\ (May("external") \/ lib'.mem.desired # None)
    BY <2>2, <2>3, <2>4 DEF OnlyDesired
  <2> QED
    BY <1>1, <1>2, <2>1, <2>5, Finished, StartShown
<1>5. CASE CompensateStart
  BY <1>1, <1>2, <1>5, StartShown DEF CompensateStart
<1>6. CASE StartupStart
  <2>1. PICK s \in StartOutcomes(op.target) :
          /\ net' = s.net
          /\ \/ UNCHANGED life
             \/ Finish("state_conflict", op.target)
             \/ s.result \notin {"ok", "unproved"} /\ Finish("failed", op.target)
    BY <1>6 DEF StartupStart
  <2>2. op.target \in Profiles
    BY <1>6 DEF StartupStart, IInv, TargetsKnown
  <2>3. s.result \notin {"ok", "unproved"} => net' = net
    BY <2>1, <2>2, StartOutcomesAreSound
  <2> QED
    BY <1>1, <1>2, <2>1, <2>3, Finished, StartShown
<1> QED
  BY <1>3, <1>4, <1>5, <1>6

(* The stops.                                                              *)
LEMMA StopsShown ==
  ASSUME IInv, reconciled,
         \/ StopPrevious \/ CompensateStop \/ StartupStop
         \/ StopNext \/ AllStopped \/ RecoverBackends
  PROVE  Visible!Next
<1>1. /\ Shows /\ UNCHANGED <<lib, reconciled>>
      /\ UNCHANGED life \/ \E p : Finish("state_conflict", p)
  BY DEF StopPrevious, CompensateStop, StartupStop, StopNext, AllStopped, RecoverBackends, Shows
<1>2. Up(net') \subseteq Up(net)
  BY StopsShrink DEF AllStopped
<1> QED
  BY <1>1, <1>2, NoWrites, Finished, LessShown, ConflictShown

(* Disconnect, and its end.                                                *)
LEMMA DisconnectShown ==
  ASSUME IInv, Told, reconciled, Disconnect \/ ClearConnection PROVE Visible!Next
<1>0. lib \in Libraries /\ op.target \in Profiles \cup {None} /\ op.previous \in Profiles \cup {None}
  BY InvFacts
<1>1. CASE Disconnect
  <2>1. /\ Shows /\ UNCHANGED <<lib, net>> /\ life.state \in Resting
        /\ Finish("state_conflict", None) \/ life' = Life("disconnecting", None)
    BY <1>1 DEF Disconnect, Admitted, Shows, Told, Idle, Op
  <2>2. CASE life' = Life("disconnecting", None)
    <3>1. LifecycleShown \in Visible!Ended \cup {"state_conflict"} /\ LifecycleShown' = "disconnecting"
      BY <2>1, <2>2 DEF Shows, LifecycleShown, Visible!Ended, Resting, Life
    <3> QED
      BY <2>1, <3>1 DEF Visible!Next, Visible!Disconnect, Visible!records
  <2> QED
    BY <2>1, <2>2, NoWrites, Finished, ConflictShown
<1>2. CASE ClearConnection
  <2>1. PICK r \in ReconcileOutcomes(lib, None, FALSE) :
          /\ lib' = r.lib
          /\ Finish(IF r.ok THEN "disconnected" ELSE "state_conflict", None)
    BY <1>2 DEF ClearConnection
  <2>2. Shows /\ UNCHANGED net /\ Up(net) = {} /\ life.state = "disconnecting"
    BY <1>2 DEF ClearConnection, IInv, NetworkKnown, Shows, Told
  <2>3. CASE r.ok
    <3>0. lib \in Libraries /\ None \in Profiles \cup {None} /\ FALSE \in BOOLEAN
      BY <1>0
    <3>1. r.lib.mem.desired = None /\ r.lib.disk = r.lib.mem
      BY <3>0, <2>3, ReconcileRecords, ZenonT(60)
    <3>2. LifecycleShown = "disconnecting" /\ LifecycleShown' = "disconnected"
      BY <2>1, <2>2, <2>3, Finished DEF Shows, LifecycleShown
    <3> QED
      BY <2>1, <2>2, <3>1, <3>2 DEF Visible!Next, Visible!Disconnected
  <2>4. CASE ~r.ok
    BY <1>2, <2>1, <2>2, <2>4, ConnectWrites, Finished, ConflictShown
  <2> QED
    BY <2>3, <2>4
<1> QED
  BY <1>1, <1>2

(* The writes that end Connect, or a startup's restoration.                *)
LEMMA RecordsShown ==
  ASSUME IInv, Told, Recording, reconciled, RecordActive \/ RecordTarget \/ StartupRecord
  PROVE  Visible!Next
<1>0. lib \in Libraries /\ op.target \in Profiles \cup {None} /\ op.previous \in Profiles \cup {None}
  BY InvFacts
<1>1. /\ Shows /\ UNCHANGED <<net, reconciled>> /\ Writes
      /\ op.target \in Profiles
      /\ life.state \in {"starting", "switching", "restoring", "disconnected", "active", "failed"}
      /\ ~RecordActive => life.state \in {"starting", "switching", "restoring"}
  <2>1. Writes
    BY ConnectWrites
  <2>2. CASE RecordActive
    BY <2>1, <2>2 DEF RecordActive, Shows, Told, Resting
  <2>3. CASE RecordTarget \/ StartupRecord
    <3>1. op.step \in {"record", "startupRecord"} /\ UNCHANGED <<net, reconciled>> /\ ~RecordActive
      BY <2>3 DEF RecordActive, RecordTarget, StartupRecord
    <3>2. op.target \in Profiles
      BY <3>1, InvFacts DEF IInv, TargetsKnown
    <3> QED
      BY <2>1, <3>1, <3>2 DEF Shows, Told
  <2> QED
    BY <2>2, <2>3
<1>2. Up(net') \subseteq {op.target} \/ May("external")
  BY <1>1 DEF RecordActive, RecordTarget, StartupRecord, IInv, NetworkKnown, Recording, Settled
<1>3. \/ \E p : Finish("state_conflict", p)
      \/ Finish("active", op.target) /\ lib'.mem.desired = op.target /\ lib'.disk = lib'.mem
      \/ UNCHANGED life /\ ~RecordActive
  <2>1. CASE RecordActive
    <3>1. PICK w \in SetConnection(lib, op.target, TRUE) :
            \E r \in IF w.ok THEN {w} ELSE ReconcileOutcomes(w.lib, op.target, TRUE) :
              /\ lib' = r.lib
              /\ Finish(IF r.ok THEN "active" ELSE "state_conflict", op.target)
      BY <2>1 DEF RecordActive
    <3>2. PICK r \in IF w.ok THEN {w} ELSE ReconcileOutcomes(w.lib, op.target, TRUE) :
            lib' = r.lib /\ Finish(IF r.ok THEN "active" ELSE "state_conflict", op.target)
      BY <3>1
    <3>3. w.lib \in Libraries
      BY <1>0, SetConnectionKeepsInstalled, ZenonT(60)
    <3>4. r.ok => r.lib.mem.desired = op.target /\ r.lib.disk = r.lib.mem
      <4>1. CASE r = w
        BY <1>0, <3>3, <4>1, SetConnectionRecords, ZenonT(60)
      <4>2. CASE r \in ReconcileOutcomes(w.lib, op.target, TRUE)
        BY <1>0, <3>3, <4>2, ReconcileRecords, ZenonT(60)
      <4> QED
        BY <4>1, <4>2
    <3> QED
      BY <3>2, <3>4
  <2>2. CASE RecordTarget \/ StartupRecord
    <3>1. PICK w \in SetConnection(lib, op.target, TRUE) :
            /\ lib' = w.lib
            /\ IF w.ok THEN Finish("active", op.target)
               ELSE UNCHANGED life /\ op.step \in {"record", "startupRecord"}
      BY <2>2 DEF RecordTarget, StartupRecord
    <3>2. w.ok => w.lib.mem.desired = op.target /\ w.lib.disk = w.lib.mem
      BY <1>0, SetConnectionRecords, ZenonT(60)
    <3>3. ~RecordActive
      BY <2>2 DEF RecordActive, RecordTarget, StartupRecord
    <3> QED
      BY <3>1, <3>2, <3>3
  <2> QED
    BY <2>1, <2>2
<1>4. ASSUME NEW p, Finish("state_conflict", p) PROVE Visible!Next
  BY <1>1, <1>4, Finished, ConflictShown
<1>5. CASE Finish("active", op.target) /\ lib'.mem.desired = op.target /\ lib'.disk = lib'.mem
  <2>1. Keeps /\ OnlyDesired /\ lib'.mem.desired # None /\ life'.state = "active"
        /\ Up(net') \subseteq Up(net)
    BY <1>1, <1>2, <1>5, InvFacts, Finished DEF Keeps, OnlyDesired
  <2> QED
    BY <1>1, <2>1, ConnectedShown
<1>6. CASE UNCHANGED life /\ ~RecordActive
  BY <1>1, <1>6, WriteShown
<1> QED
  BY <1>3, <1>4, <1>5, <1>6

(* The writes that end a compensation, a failed restoration, the handling  *)
(* of an exit, or what is left of a connection of which nothing is known.  *)
LEMMA CompensationsShown ==
  ASSUME IInv, Told, Recording, reconciled,
         CompensateStore \/ StartupRepair \/ ExitRecord \/ ForgetConnection
  PROVE  Visible!Next
<1>0. lib \in Libraries /\ op.target \in Profiles \cup {None} /\ op.previous \in Profiles \cup {None}
  BY InvFacts
<1>1. Shows /\ UNCHANGED <<net, reconciled>> /\ Up(net') \subseteq Up(net) /\ Writes
  <2>1. Writes
    BY ConnectWrites, CompensationWrites
  <2> QED
    BY <2>1 DEF CompensateStore, StartupRepair, ExitRecord, ForgetConnection, Shows
<1>2. ASSUME NEW p, Finish("state_conflict", p) PROVE Visible!Next
  BY <1>1, <1>2, Finished, ConflictShown
<1>3. CASE CompensateStore
  <2>1. PICK r \in RepairOutcomes(lib) :
          \E w \in IF r.ok /\ "stop" \notin op.errs
                   THEN Compensation(r.lib) ELSE {[r EXCEPT !.ok = FALSE]} :
            /\ lib' = w.lib
            /\ IF ~w.ok \/ op.errs # {} THEN Finish("state_conflict", op.target)
               ELSE IF op.previous # None THEN Finish("active", op.previous)
               ELSE Finish("failed", op.target)
    BY <1>3 DEF CompensateStore
  <2>2. PICK w \in IF r.ok /\ "stop" \notin op.errs
                   THEN Compensation(r.lib) ELSE {[r EXCEPT !.ok = FALSE]} :
            /\ lib' = w.lib
            /\ IF ~w.ok \/ op.errs # {} THEN Finish("state_conflict", op.target)
               ELSE IF op.previous # None THEN Finish("active", op.previous)
               ELSE Finish("failed", op.target)
    BY <2>1
  <2>3. CASE ~w.ok \/ op.errs # {}
    BY <1>2, <2>2, <2>3
  <2>4. CASE w.ok /\ op.errs = {}
    <3>1. w \in Compensation(r.lib)
      <4>1. [r EXCEPT !.ok = FALSE].ok = FALSE
        BY DEF RepairOutcomes
      <4> QED
        BY <2>2, <2>4, <4>1
    <3>2. w.lib.mem.desired = op.previous /\ w.lib.disk = w.lib.mem
      <4> DEFINE connected == op.previous # None /\ op.errs = {}
      <4>1. connected \in BOOLEAN /\ w \in SetConnection(r.lib, op.previous, connected)
        BY <3>1 DEF Compensation
      <4> HIDE DEF connected
      <4>2. r.lib \in Libraries
        BY <1>0, RepairKeepsManifest
      <4> QED
        BY <1>0, <2>4, <4>1, <4>2, SetConnectionRecords
    <3>3. May("external") \/ Up(net') \subseteq {op.previous}
      BY <1>1, <1>3, <2>4 DEF CompensateStore, Recording, Settled
    <3>4. Keeps /\ OnlyDesired /\ life.state \in {"starting", "switching"}
      BY <1>1, <1>3, <2>2, <3>2, <3>3 DEF CompensateStore, Keeps, OnlyDesired, Told
    <3>5. CASE op.previous # None
      <4>1. life'.state = "active" /\ lib'.mem.desired # None
        BY <2>2, <2>4, <3>2, <3>5, Finished
      <4> QED
        BY <1>1, <3>4, <4>1, ConnectedShown
    <3>6. CASE op.previous = None
      <4>1. life'.state = "failed"
        BY <2>2, <2>4, <3>6, Finished
      <4> QED
        BY <1>1, <3>4, <4>1, FailedShown
    <3> QED
      BY <3>5, <3>6
  <2> QED
    BY <2>3, <2>4
<1>4. ASSUME NEW p, Finish("failed", p), lib'.disk = lib'.mem,
             Up(net) = {} \/ (May("external") /\ life.state # "state_conflict"),
             life.state \in Resting \cup {"restoring"}
      PROVE  Visible!Next
  <2>1. Keeps /\ OnlyDesired /\ life'.state = "failed" /\ life.state # "disconnecting"
    BY <1>1, <1>4, Finished DEF Keeps, OnlyDesired, Resting
  <2> QED
    BY <1>1, <1>4, <2>1, FailedShown
<1>5. CASE StartupRepair
  <2>1. PICK r \in RepairOutcomes(lib) :
          \E w \in IF r.ok /\ op.errs = {} THEN ReconcileOutcomes(r.lib, op.target, FALSE)
                   ELSE {[r EXCEPT !.ok = FALSE]} :
            lib' = w.lib /\ Finish(IF w.ok THEN "failed" ELSE "state_conflict", op.target)
    BY <1>5 DEF StartupRepair
  <2>2. PICK w \in IF r.ok /\ op.errs = {} THEN ReconcileOutcomes(r.lib, op.target, FALSE)
                   ELSE {[r EXCEPT !.ok = FALSE]} :
            lib' = w.lib /\ Finish(IF w.ok THEN "failed" ELSE "state_conflict", op.target)
    BY <2>1
  <2>3. CASE ~w.ok
    BY <1>2, <2>2, <2>3
  <2>4. CASE w.ok
    <3>1. w \in ReconcileOutcomes(r.lib, op.target, FALSE) /\ op.errs = {}
      <4>1. [r EXCEPT !.ok = FALSE].ok = FALSE
        BY DEF RepairOutcomes
      <4> QED
        BY <2>2, <2>4, <4>1
    <3>2. lib'.disk = lib'.mem
      <4>1. r.lib \in Libraries
        BY <1>0, RepairKeepsManifest
      <4> QED
        BY <1>0, <2>2, <2>4, <3>1, <4>1, ReconcileRecords, ZenonT(60)
    <3>3. (Up(net) = {} \/ May("external")) /\ life.state = "restoring"
      BY <1>5, <3>1 DEF StartupRepair, Told, Recording, Settled
    <3> QED
      BY <1>4, <2>2, <2>4, <3>2, <3>3
  <2> QED
    BY <2>3, <2>4
<1>6. CASE ExitRecord
  <2>1. PICK r \in ReconcileOutcomes(lib, op.target, FALSE) :
          lib' = r.lib /\ Finish(IF r.ok THEN "failed" ELSE "state_conflict", op.target)
    BY <1>6 DEF ExitRecord
  <2>2. r.ok => lib'.disk = lib'.mem
    BY <1>0, <2>1, ReconcileRecords, ZenonT(60)
  <2>3. Up(net) = {} /\ life.state \in Resting
    BY <1>6 DEF ExitRecord, Told
  <2> QED
    BY <1>2, <1>4, <2>1, <2>2, <2>3
<1>7. CASE ForgetConnection
  BY <1>2, <1>7 DEF ForgetConnection
<1> QED
  BY <1>3, <1>5, <1>6, <1>7

(* Startup's decision whether to restore.                                  *)
LEMMA RestoreDesiredShown ==
  ASSUME IInv, NEW manifest, RestoreDesired(manifest)
  PROVE  \/ \E p : Finish("disconnected", p) \/ Finish("failed", p)
         \/ life'.state = "restoring"
BY DEF RestoreDesired, Life

(* The write with which a startup forgets a connection that is gone.       *)
LEMMA StartupForgetShown ==
  ASSUME IInv, Told, reconciled, StartupForget PROVE Visible!Next
<1>0. lib \in Libraries /\ lib.mem.desired \in Profiles \cup {None}
  BY InvFacts DEF Manifests
<1>1. PICK r \in ReconcileOutcomes(lib, lib.mem.desired, FALSE) :
        /\ lib' = r.lib
        /\ IF r.ok THEN RestoreDesired(r.lib.mem) ELSE Finish("state_conflict", lib.mem.desired)
  BY DEF StartupForget
<1>2. /\ Shows /\ UNCHANGED <<net, reconciled>> /\ Up(net) = {} /\ Writes
      /\ life.state = "restoring"
  <2>1. Writes
    BY ConnectWrites
  <2> QED
    BY <2>1 DEF StartupForget, Shows, Told, IInv, NetworkKnown
<1>3. CASE ~r.ok
  BY <1>1, <1>2, <1>3, Finished, ConflictShown
<1>4. CASE r.ok
  <2>1. r.lib.mem.desired = lib.mem.desired /\ r.lib.disk = r.lib.mem
    BY <1>0, <1>4, ReconcileRecords, ZenonT(60)
  <2>2. Keeps /\ OnlyDesired /\ Up(net') = Up(net) /\ lib'.disk.desired = lib.mem.desired
        /\ lib'.mem.desired = lib.mem.desired
    BY <1>1, <1>2, <2>1 DEF Keeps, OnlyDesired
  <2>3. CASE life'.state = "failed"
    BY <1>2, <2>2, <2>3, FailedShown
  <2>4. CASE life'.state = "disconnected"
    <3>1. LifecycleShown = "restoring" /\ LifecycleShown' = "disconnected"
      BY <1>2, <2>4 DEF Shows, LifecycleShown
    <3> QED
      BY <1>2, <2>2, <3>1 DEF Visible!Next, Visible!NothingToRestore
  <2>5. CASE life'.state = "restoring"
    <3>1. UNCHANGED LifecycleShown
      BY <1>2, <2>5 DEF Shows, LifecycleShown
    <3> QED
      BY <2>2, <3>1 DEF Visible!Next, Visible!Settle
  <2> QED
    BY <1>1, <1>4, <2>3, <2>4, <2>5, RestoreDesiredShown, Finished
<1> QED
  BY <1>3, <1>4

(* A finite set with an element and at most one is that element's.         *)
LEMMA OnlyElement ==
  ASSUME NEW S, IsFiniteSet(S), ~(Cardinality(S) > 1), NEW x \in S PROVE S = {x}
<1> SUFFICES ASSUME NEW y \in S, y # x PROVE FALSE
  OBVIOUS
<1>1. IsFiniteSet({x}) /\ Cardinality({x}) = 1
  BY FS_Singleton
<1>2. Cardinality({x} \cup {y}) = 2
  BY <1>1, FS_AddElement
<1>3. Cardinality({x} \cup {y}) <= Cardinality(S)
  BY FS_Subset
<1>4. Cardinality(S) \in Nat
  BY FS_CardinalityType
<1> QED
  BY <1>2, <1>3, <1>4

(* The startup's observation.                                              *)
LEMMA StartupBeginShown ==
  ASSUME IInv, StartupBegin PROVE Visible!Next
<1> USE InvFacts
<1>1. ~reconciled /\ reconciled' /\ UNCHANGED <<lib, net>>
  BY DEF StartupBegin
<1>2. PICK s \in Observations(net, Installed) :
        \/ s.result # "ok" /\ Finish("state_conflict", None)
        \/ \E p \in s.active :
             /\ s.result = "ok"
             /\ Finish(IF p = lib.mem.desired THEN "active" ELSE "state_conflict", p)
        \/ /\ s.result = "ok" /\ s.active = {}
           /\ \/ life' = Life("restoring", None)
              \/ RestoreDesired(lib.mem)
  BY DEF StartupBegin
<1>3. LifecycleShown = "unknown"
      /\ LifecycleShown' = IF life'.state \in {"starting", "switching"} THEN "connecting" ELSE life'.state
  BY <1>1 DEF LifecycleShown
<1>4. s.result = "ok" => Up(net) \subseteq s.active /\ s.active \subseteq Installed
  BY ObservationsSeeAll
<1>5. ASSUME NEW p, Finish("state_conflict", p) PROVE Visible!Next
  <2>1. LifecycleShown' = "state_conflict"
    BY <1>3, <1>5, Finished
  <2> QED
    BY <1>1, <1>3, <2>1 DEF Visible!Next, Visible!Reconcile, Visible!records
<1>6. ASSUME NEW p \in s.active, s.result = "ok", p = lib.mem.desired, Finish("active", p)
      PROVE  Visible!Next
  <2>1. s.active = {p}
    <3> DEFINE active == OpenVPNSeen(net, Installed).active \cup WireGuardSeen(net, Installed).active
    <3>0. \/ s = Seen("error", {})
          \/ s = IF Cardinality(active) > 1 THEN Seen("many", active) ELSE Seen("ok", active)
      BY Zenon DEF Observations
    <3> HIDE DEF active
    <3>1. ~(Cardinality(s.active) > 1)
      BY <1>6, <3>0 DEF Seen
    <3>2. IsFiniteSet(s.active)
      BY <1>4, <1>6, FiniteAssumption, FS_Subset
    <3> QED
      BY <3>1, <3>2, OnlyElement
  <2>2. Up(net) \subseteq {lib.mem.desired} /\ lib.mem.desired # None /\ LifecycleShown' = "active"
    BY <1>3, <1>4, <1>6, <2>1, Finished
  <2> QED
    BY <1>1, <1>3, <2>2 DEF Visible!Next, Visible!Reconcile, Visible!records
<1>7. ASSUME s.result = "ok", s.active = {}, life'.state \in {"restoring", "disconnected", "failed"}
      PROVE  Visible!Next
  BY <1>1, <1>3, <1>4, <1>7 DEF Visible!Next, Visible!Reconcile, Visible!records
<1>8. s.result = "ok" /\ s.active = {} /\ RestoreDesired(lib.mem)
        => life'.state \in {"restoring", "disconnected", "failed"}
  BY RestoreDesiredShown, Finished
<1> QED
  BY <1>2, <1>5, <1>6, <1>7, <1>8 DEF Life

(* The handling of an exit.                                                *)
LEMMA HandleExitShown ==
  ASSUME IInv, Told, reconciled, NEW e \in Events, HandleExit(e) PROVE Visible!Next
<1>1. /\ op = Idle /\ UNCHANGED <<lib, net, reconciled>> /\ Shows
      /\ life.state # "disconnecting" /\ Writes /\ Keeps
  <2>1. op = Idle /\ UNCHANGED <<lib, net, reconciled>>
    BY HandledExit
  <2>2. life.state # "disconnecting"
    BY <2>1 DEF Told, Resting, Idle, Op
  <2> QED
    BY <2>1, <2>2, NoWrites DEF Shows, Keeps
<1>2. \/ Finish("state_conflict", e.profile)
      \/ UNCHANGED life
      \/ Up(net) = {} /\ Finish("failed", e.profile)
  BY HandledExit
<1>3. CASE UNCHANGED life
  BY <1>1, <1>3, LessShown
<1>4. CASE Finish("state_conflict", e.profile)
  BY <1>1, <1>4, Finished, ConflictShown
<1>5. CASE Up(net) = {} /\ Finish("failed", e.profile)
  <2>1. OnlyDesired
    BY <1>1, <1>5 DEF OnlyDesired
  <2> QED
    BY <1>1, <1>5, <2>1, Finished, FailedShown
<1> QED
  BY <1>2, <1>3, <1>4, <1>5

(* Library operations.                                                     *)
LEMMA LibraryShown ==
  ASSUME IInv, Told, reconciled, \/ \E p \in Profiles : Remove(p) \/ Import(p)
                                 \/ \E m \in {"manual", "restore"} : SetPreferences(m)
  PROVE  Visible!Next
<1>1. UNCHANGED <<life, net, reconciled, LifecycleShown>>
  BY DEF Remove, Import, SetPreferences, LifecycleShown
<1>2. ASSUME Wrote(lib, lib.mem.desired, lib') PROVE Visible!Next
  <2>1. lib'.mem.desired = lib.mem.desired
        /\ lib'.disk.desired \in {lib.mem.desired, lib.disk.desired}
    BY <1>2 DEF Wrote
  <2> QED
    BY <1>1, <2>1 DEF Visible!Next, Visible!Settle, Visible!Lose, Visible!records
<1>3. ASSUME NEW p \in Profiles, Remove(p), lib.mem.desired = p PROVE Visible!Next
  <2>1. Wrote(lib, None, lib') /\ p \notin Up(net)
    BY <1>3, LibraryOperationsWrite, RemovedIsDown
  <2>2. LifecycleShown \in Visible!Ended
    BY <1>3 DEF Remove, Admitted, Unconflicted, Told, Resting, Idle, Op, LifecycleShown, Visible!Ended
  <2> QED
    BY <1>1, <1>3, <2>1, <2>2 DEF Visible!Next, Visible!Remove, Wrote
<1> QED
  BY <1>2, <1>3, LibraryOperationsWrite

(* The tunnels' own steps.                                                 *)
LEMMA NetworkShown == ASSUME IInv, Told, Network PROVE Visible!Next
<1> USE InvFacts
<1>1. UNCHANGED <<life, lib, reconciled>>
  BY DEF Network, Exit, Wither, Report, Drop, Raise
<1>2. ASSUME NEW w \in WireGuard, Raise(w) PROVE Visible!Next
  <2>1. May("external") /\ life.state \in Resting /\ net' = [net EXCEPT !.wg = @ \cup {w}]
    BY <1>2 DEF Raise, Told, Idle, Op
  <2>2. Up(net') = Up(net) \cup {w}
    BY <2>1 DEF Up, Sound, Nets
  <2>3. LifecycleShown \notin Visible!Opening \cup {"disconnecting"} /\ UNCHANGED LifecycleShown
    BY <1>1, <2>1 DEF LifecycleShown, Resting, Visible!Opening
  <2>4. Visible!Outside(w)
    BY <1>1, <2>1, <2>2, <2>3 DEF Visible!Outside, Visible!records
  <2>5. w \in Profiles
    BY DEF Profiles
  <2> QED
    BY <2>4, <2>5 DEF Visible!Next
<1>3. ASSUME NEW c \in Copies, Report(c) PROVE Visible!Next
  <2>1. Up(net') \subseteq Up(net)
    BY <1>3, ReapedIsSound DEF Report
  <2> QED
    BY <1>1, <2>1, LessShown
<1>4. CASE Exit \/ Wither \/ \E w \in WireGuard : Drop(w)
  <2>1. Up(net') \subseteq Up(net)
    BY <1>4, NetworkStepsAreSound DEF Exit, Wither, Drop
  <2> QED
    BY <1>1, <2>1, LessShown
<1> QED
  BY <1>2, <1>3, <1>4 DEF Network

(* A restart.                                                              *)
LEMMA RestartShown == ASSUME IInv, DaemonEnds \/ MachineStops PROVE Visible!Next
<1>1. LifecycleShown' = "unknown"
  BY DEF DaemonEnds, MachineStops, Restarted, LifecycleShown
<1>2. Up(net') \subseteq Up(net)
  BY InvFacts, NetworkStepsAreSound DEF DaemonEnds, MachineStops
<1>3. \E m \in {lib.mem, lib.disk} : lib' = Durable(m)
  BY DEF DaemonEnds, MachineStops, Reopened, ReopenedAfterPowerLoss
<1>4. lib'.mem.desired \in {lib.mem.desired, lib.disk.desired} /\ lib'.disk = lib'.mem
  BY <1>3 DEF Durable
<1> QED
  BY <1>1, <1>2, <1>4 DEF Visible!Next, Visible!Restart

(* Before startup has been reconciled.                                     *)
LEMMA EarlyShown ==
  ASSUME IInv, Told, ~reconciled, ~reconciled', Next, ~(DaemonEnds \/ MachineStops)
  PROVE  Visible!Next
<1>1. LifecycleShown = "unknown" /\ LifecycleShown' = "unknown"
  BY DEF LifecycleShown
<1>2. Writes
  BY EveryStepWrites
<1>3. Visible!Written
  BY <1>2 DEF Writes, Wrote, Visible!Written
<1>4. CASE Network
  BY <1>4, NetworkShown
<1>5. CASE ~Network
  <2>1. Up(net') \subseteq Up(net) \/ (Up(net) = {} /\ \E p \in Profiles : Up(net') \subseteq {p})
    <3>1. Proceed => op # Idle
      BY ProceedReports DEF Idle, Op
    <3>2. op = Idle => UNCHANGED net
      BY <1>5, <3>1 DEF Next, Request, Connect, Disconnect, Remove, Import, SetPreferences,
                        StartupBegin, HandleExit
    <3> QED
      BY <3>2, NetworkGrows
  <2>2. Up(net') \subseteq Up(net) \/ (Up(net) = {} /\ \E p \in Profiles : Up(net') = {p})
    BY <2>1
  <2> QED
    BY <1>1, <1>3, <2>2 DEF Visible!Next, Visible!Early
<1> QED
  BY <1>4, <1>5

(* Every step is one that ConnectionContract promises.                     *)
LEMMA NextShown ==
  ASSUME IInv, Told, Recording, [Next]_vars PROVE Visible!Next
<1>1. CASE UNCHANGED vars
  BY <1>1, LessShown DEF vars
<1>2. CASE DaemonEnds \/ MachineStops
  BY <1>2, RestartShown
<1>3. CASE StartupBegin
  BY <1>3, StartupBeginShown
<1>4. ASSUME Next, ~(DaemonEnds \/ MachineStops), ~StartupBegin, ~reconciled PROVE Visible!Next
  <2>1. UNCHANGED reconciled
    BY <1>4 DEF Next, Request, Connect, Disconnect, Remove, Import, SetPreferences, Proceed,
                HandleExit, RecordActive, StopPrevious, StartTarget, RestorePrevious,
                ForgetConnection, RecordTarget, CompensateStop, CompensateStart, CompensateStore,
                RecoverBackends, StopNext, AllStopped, ClearConnection, StartupForget, StartupStart,
                StartupRecord, StartupStop, StartupRepair, ExitRecord,
                Network, Exit, Wither, Report, Drop, Raise
  <2> QED
    BY <1>4, <2>1, EarlyShown
<1>5. ASSUME Request, reconciled PROVE Visible!Next
  BY <1>5, ConnectShown, DisconnectShown, LibraryShown DEF Request
<1>6. ASSUME Proceed, reconciled PROVE Visible!Next
  BY <1>6, StartsShown, StopsShown, RecordsShown, CompensationsShown, DisconnectShown,
     StartupForgetShown DEF Proceed
<1>7. CASE Network
  BY <1>7, NetworkShown
<1>8. ASSUME NEW e \in Events, HandleExit(e), reconciled PROVE Visible!Next
  BY <1>8, HandleExitShown
<1> QED
  BY <1>1, <1>2, <1>3, <1>4, <1>5, <1>6, <1>7, <1>8 DEF Next

(* Whatever fails, exits or restarts in between, and whatever others raise,*)
(* the manager keeps the promise ConnectionContract states.                *)
THEOREM ManagerKeepsItsPromise == Spec => ImplementsConnection
<1>1. Init => Visible!Init
  <2> SUFFICES ASSUME Init PROVE Visible!Init
    OBVIOUS
  <2>1. Up(net) = {} /\ LifecycleShown = "unknown"
    BY DEF Init, NothingRuns, NoProc, Up, LifecycleShown
  <2>2. lib.mem.desired = None /\ lib.disk = lib.mem
    <3>1. PICK i \in SUBSET Profiles, m \in {"manual", "restore"} :
            lib = Durable([EmptyLibrary.mem EXCEPT !.installed = i, !.mode = m])
      BY DEF Init
    <3>2. EmptyLibrary.mem = [desired |-> None, connected |-> FALSE, mode |-> "manual", installed |-> {}]
      BY DEF EmptyLibrary, Durable
    <3>3. [EmptyLibrary.mem EXCEPT !.installed = i, !.mode = m].desired = None
      BY <3>2
    <3> QED
      BY <3>1, <3>3, Zenon DEF Durable
  <2> QED
    BY <2>1, <2>2 DEF Visible!Init
<1>2. Spec => []Recording
  <2>1. CASE May("external")
    <3>1. Recording
      BY <2>1 DEF Recording
    <3> QED
      BY <3>1, PTL
  <2>2. CASE ~May("external")
    <3>1. Settled /\ AtMostOneTunnel => Recording
      BY DEF Recording
    <3>2. Spec => []Settled
      BY <2>2, SettledInvariant
    <3>3. Spec => []AtMostOneTunnel
      BY <2>2, OneTunnel
    <3> QED
      BY <3>1, <3>2, <3>3, PTL
  <2> QED
    BY <2>1, <2>2
<1>3. IInv /\ Told /\ Recording /\ [Next]_vars => [Visible!Next]_(Visible!vars)
  BY NextShown
<1> QED
  BY <1>1, <1>2, <1>3, InductiveInvariant, LifecycleTells, PTL
     DEF Spec, Visible!Spec, ImplementsConnection
=============================================================================

---------------------------- MODULE ManagerProofs ----------------------------
(***************************************************************************)
(* Theorems about Manager and StatusPoll, for every set of profiles, every *)
(* set of faults, every set of features and every bound.                   *)
(*                                                                         *)
(* The argument: the network only gains a tunnel in a backend start (or    *)
(* when somebody else raises one between two operations), and the          *)
(* operation that starts it still knows, from the observation it made      *)
(* under the gate and the stops it saw proved, that nothing is up.  The    *)
(* inductive invariant IInv says what each step of an operation knows.     *)
(* Two parts follow: one counts the steps an operation has left, the other *)
(* is about a Status request that reads between the steps (StatusPoll).    *)
(***************************************************************************)
EXTENDS StatusPoll, FiniteSetTheorems, TLAPS

-----------------------------------------------------------------------------
(* A start or stop is only ever made of an installed profile.              *)
TargetsKnown ==
  /\ op.previous \in Installed \cup {None}
  /\ op.step \in {"stopPrevious", "start", "record", "compensateStop",
                  "startupStart", "startupRecord", "startupStop"} => op.target \in Installed
  /\ op.step \in {"stopPrevious", "restore", "compensateStart"} => op.previous # None

(* What the observation and the stops so far have established.             *)
NetworkKnown ==
  /\ op.step \in {"start", "restore", "compensateStart",
                  "startupForget", "startupStart", "clear"} => Up(net) = {}
  /\ op.step = "stopPrevious" => Up(net) \subseteq {op.previous}
  /\ op.step \in {"record", "compensateStop", "startupRecord", "startupStop"}
       => Up(net) \subseteq {op.target}
  /\ op.step = "stopAll" /\ op.errs = {} => Up(net) \subseteq op.toStop

(* The adapter and the supervisor agree on the profile of a ready process. *)
Matched(n) ==
  n.owner # NoOwner /\ n.proc.state \in {"running", "leaving"}
    => n.owner.profile = n.proc.profile

(* Whatever is up can be seen: it is an installed profile's.               *)
NetworkSeen == Up(net) \subseteq Installed /\ Matched(net)

(* An operation that changes the network has said so.                      *)
LifeKnown ==
  op.step \notin {"idle", "recordActive", "exitRecord"} => life.state # "disconnected"

IInv == TypeOK /\ TargetsKnown /\ NetworkKnown /\ NetworkSeen /\ LifeKnown

-----------------------------------------------------------------------------
(* The library: a store call keeps its type and the manifest it leaves is  *)
(* the one before it or the one it was asked to write.                     *)

(* Repairing durability (store.go repairDurabilityLocked) leaves the       *)
(* published manifest as it is.                                            *)
LEMMA RepairKeepsManifest ==
  ASSUME NEW l \in Libraries, NEW r \in RepairOutcomes(l)
  PROVE  r.lib \in Libraries /\ r.lib.mem = l.mem
<1>1. \/ r = [lib |-> l, ok |-> TRUE] \/ r = [lib |-> l, ok |-> FALSE]
      \/ r = [lib |-> Durable(l.mem), ok |-> TRUE]
  BY DEF RepairOutcomes
<1>2. l.mem \in Manifests
  BY DEF Libraries
<1>3. Durable(l.mem) \in Libraries /\ Durable(l.mem).mem = l.mem
  BY <1>2 DEF Libraries, Durable
<1> QED
  BY <1>1, <1>3

(* publishManifestLocked leaves the old manifest or the new one, and the   *)
(* new one when it reports success.                                        *)
LEMMA PublishLeavesEither ==
  ASSUME NEW l \in Libraries, NEW m \in Manifests, NEW w \in PublishOutcomes(l, m)
  PROVE  w.lib \in Libraries /\ w.lib.mem \in {l.mem, m}
<1> DEFINE ambiguous == [mem |-> m, disk |-> l.mem, unknown |-> TRUE]
<1>1. \/ w = [lib |-> Durable(m), ok |-> TRUE]
      \/ w = [lib |-> ambiguous, ok |-> FALSE]
      \/ w = [lib |-> l, ok |-> FALSE]
  BY DEF PublishOutcomes
<1>2. ambiguous \in Libraries /\ ambiguous.mem = m
  BY DEF Libraries
<1>3. Durable(m) \in Libraries /\ Durable(m).mem = m
  BY DEF Libraries, Durable
<1>4. w.lib \in {Durable(m), ambiguous, l}
  BY <1>1
<1> HIDE DEF ambiguous
<1> QED
  BY <1>2, <1>3, <1>4

(* The same of mutate, which repairs first.                                *)
LEMMA WriteLeavesEither ==
  ASSUME NEW l \in Libraries, NEW m \in Manifests, NEW w \in WriteOutcomes(l, m)
  PROVE  w.lib \in Libraries /\ w.lib.mem \in {l.mem, m}
<1>1. PICK r \in RepairOutcomes(l) : w \in IF r.ok THEN PublishOutcomes(r.lib, m) ELSE {r}
  BY DEF WriteOutcomes
<1>2. r.lib \in Libraries /\ r.lib.mem = l.mem
  BY RepairKeepsManifest
<1>3. CASE r.ok
  <2>1. w \in PublishOutcomes(r.lib, m)
    BY <1>1, <1>3
  <2> QED
    BY <2>1, <1>2, PublishLeavesEither
<1>4. CASE ~r.ok
  BY <1>1, <1>2, <1>4
<1> QED
  BY <1>3, <1>4

(* Store.SetConnection never changes which profiles are installed.         *)
LEMMA SetConnectionKeepsInstalled ==
  ASSUME NEW l \in Libraries, NEW d \in Profiles \cup {None}, NEW c \in BOOLEAN,
         NEW w \in SetConnection(l, d, c)
  PROVE  w.lib \in Libraries /\ w.lib.mem.installed = l.mem.installed
<1>1. Connection(l.mem, d, c) \in Manifests
       /\ Connection(l.mem, d, c).installed = l.mem.installed
  BY DEF Connection, Libraries, Manifests
<1>2. w.lib \in Libraries /\ w.lib.mem \in {l.mem, Connection(l.mem, d, c)}
  BY <1>1, WriteLeavesEither DEF SetConnection
<1> QED
  BY <1>1, <1>2

(* Neither does reconcileConnection, over both of its attempts.            *)
LEMMA ReconcileKeepsInstalled ==
  ASSUME NEW l \in Libraries, NEW d \in Profiles \cup {None}, NEW c \in BOOLEAN,
         NEW w \in ReconcileOutcomes(l, d, c)
  PROVE  w.lib \in Libraries /\ w.lib.mem.installed = l.mem.installed
<1>1. PICK v \in SetConnection(l, d, c) :
        w \in IF v.ok THEN {v}
              ELSE UNION {IF r.ok THEN SetConnection(r.lib, d, c) ELSE {r} :
                            r \in RepairOutcomes(v.lib)}
  BY DEF ReconcileOutcomes
<1>2. v.lib \in Libraries /\ v.lib.mem.installed = l.mem.installed
  BY SetConnectionKeepsInstalled
<1>3. CASE v.ok
  BY <1>1, <1>2, <1>3
<1>4. CASE ~v.ok
  <2>1. PICK r \in RepairOutcomes(v.lib) : w \in IF r.ok THEN SetConnection(r.lib, d, c) ELSE {r}
    BY <1>1, <1>4
  <2>2. r.lib \in Libraries /\ r.lib.mem = v.lib.mem
    BY <1>2, RepairKeepsManifest
  <2>3. CASE r.ok
    <3>1. w \in SetConnection(r.lib, d, c)
      BY <2>1, <2>3
    <3> QED
      BY <3>1, <2>2, <1>2, SetConnectionKeepsInstalled
  <2>4. CASE ~r.ok
    BY <2>1, <2>2, <2>4, <1>2
  <2> QED
    BY <2>3, <2>4
<1> QED
  BY <1>3, <1>4

-----------------------------------------------------------------------------
(* Execution copies.                                                       *)

(* Removing execution copies, whichever removals fail, leaves every copy   *)
(* with a profile or none.                                                 *)
LEMMA CleanKeepsType ==
  ASSUME NEW copies \in [Copies -> Profiles \cup {None}], NEW S,
         NEW o \in CleanOutcomes(copies, S)
  PROVE  o.held \in [Copies -> Profiles \cup {None}]
BY DEF CleanOutcomes

-----------------------------------------------------------------------------
(* The backends.  Every outcome of a call is well typed, keeps the adapter *)
(* and the supervisor in agreement, and adds no tunnel but the one started.*)
Sound(n) == n \in Nets /\ Matched(n)

(* Only managed profiles are ever counted as up.                           *)
LEMMA UpIsManaged == ASSUME NEW n \in Nets PROVE Up(n) \subseteq Profiles
BY DEF Nets, Procs, NoProc, Up, Profiles

(* adapter.Start adds the tunnel it was asked for and nothing else, and a  *)
(* plain failure adds nothing.                                             *)
LEMMA StartOpenVPNIsSound ==
  ASSUME NEW n, Sound(n), NEW p \in OpenVPN, NEW c \in Copies, NEW s \in StartOpenVPN(n, p, c)
  PROVE  /\ Sound(s.net) /\ Up(s.net) \subseteq Up(n) \cup {p}
         /\ s.result = "failed" => s.net = n
         /\ s.result \in {"ok", "failed", "unproved"}
<1> DEFINE q(state) == [profile |-> p, copy |-> c, state |-> state]
<1>1. CASE s = [net |-> n, result |-> "failed"]
  BY <1>1
<1>2. ASSUME n.owner = NoOwner, n.proc = NoProc,
             s = [net |-> [n EXCEPT !.proc = q("running"), !.owner = [profile |-> p, copy |-> c]],
                  result |-> "ok"]
      PROVE  /\ Sound(s.net) /\ Up(s.net) \subseteq Up(n) \cup {p} /\ s.result \in {"ok", "unproved"}
  BY <1>2 DEF Sound, Matched, Nets, Procs, Owners, Up, NoProc
<1>3. ASSUME n.owner = NoOwner, n.proc = NoProc, NEW t \in {"stuck", "gone"},
             s = [net |-> [n EXCEPT !.proc = q(t)], result |-> "unproved"]
      PROVE  /\ Sound(s.net) /\ Up(s.net) \subseteq Up(n) \cup {p} /\ s.result \in {"ok", "unproved"}
  BY <1>3 DEF Sound, Matched, Nets, Procs, Up, NoProc
<1> QED
  BY <1>1, <1>2, <1>3 DEF StartOpenVPN

(* The same of the WireGuard backend.                                      *)
LEMMA StartWireGuardIsSound ==
  ASSUME NEW n, Sound(n), NEW p \in WireGuard, NEW s \in StartWireGuard(n, p)
  PROVE  /\ Sound(s.net) /\ Up(s.net) \subseteq Up(n) \cup {p}
         /\ s.result = "failed" => s.net = n
         /\ s.result \in {"ok", "failed", "unproved"}
<1>1. CASE s = [net |-> n, result |-> "failed"]
  BY <1>1
<1>2. ASSUME NEW w \in {n.wg, n.wg \cup {p}}, NEW r \in {"ok", "unproved"},
             s = [net |-> [n EXCEPT !.wg = w], result |-> r]
      PROVE  /\ Sound(s.net) /\ Up(s.net) \subseteq Up(n) \cup {p} /\ s.result \in {"ok", "unproved"}
  BY <1>2 DEF Sound, Matched, Nets, Up
<1> QED
  BY <1>1, <1>2 DEF StartWireGuard

(* The same of whichever backend the manager selects for a profile.        *)
LEMMA BackendStartIsSound ==
  ASSUME NEW n, Sound(n), NEW p \in Profiles, NEW c \in Copies, NEW s \in BackendStart(n, p, c)
  PROVE  /\ Sound(s.net) /\ Up(s.net) \subseteq Up(n) \cup {p}
         /\ s.result = "failed" => s.net = n
         /\ s.result \in {"ok", "failed", "unproved"}
BY StartOpenVPNIsSound, StartWireGuardIsSound DEF BackendStart, Profiles

(* Deactivate removes or keeps what the supervisor owns, and a proved one  *)
(* leaves no OpenVPN process.                                              *)
LEMMA DeactivateIsSound ==
  ASSUME NEW n, Sound(n), NEW d \in Deactivate(n)
  PROVE  /\ Sound(d.net) /\ Up(d.net) \subseteq Up(n)
         /\ d.ok => Up(d.net) = n.wg
<1>1. CASE d = [net |-> [n EXCEPT !.proc = NoProc, !.owner = NoOwner], ok |-> TRUE]
  BY <1>1 DEF Sound, Matched, Nets, Up, NoProc
<1>2. ASSUME n.proc.state \notin {"none", "gone"}, NEW t \in Remains(n.proc.state),
             d = [net |-> [n EXCEPT !.proc.state = t], ok |-> FALSE]
      PROVE  Sound(d.net) /\ Up(d.net) \subseteq Up(n) /\ ~d.ok
  BY <1>2 DEF Sound, Matched, Nets, Procs, Up, NoProc, Remains
<1> QED
  BY <1>1, <1>2 DEF Deactivate

(* A backend stop adds nothing, and a stop reported proved leaves nothing  *)
(* of its profile up.                                                      *)
LEMMA BackendStopIsSound ==
  ASSUME NEW n, Sound(n), NEW p \in Profiles, NEW s \in BackendStop(n, p)
  PROVE  /\ Sound(s.net) /\ Up(s.net) \subseteq Up(n)
         /\ s.ok => p \notin Up(s.net)
<1>1. CASE p \in OpenVPN
  <2>1. s \in Deactivate(n) \/ s = [net |-> n, ok |-> FALSE]
    BY <1>1 DEF BackendStop, StopOpenVPN
  <2>2. p \notin n.wg
    BY <1>1, ProfilesAssumption DEF Sound, Nets
  <2> QED
    BY <2>1, <2>2, DeactivateIsSound
<1>2. CASE p \notin OpenVPN
  <2>1. PICK w \in {n.wg, n.wg \ {p}} :
          /\ s.net = [n EXCEPT !.wg = w]
          /\ s.ok => w = n.wg \ {p}
    BY <1>2 DEF BackendStop, StopWireGuard
  <2> QED
    BY <2>1, <1>2 DEF Sound, Matched, Nets, Procs, Up, NoProc
<1> QED
  BY <1>1, <1>2

(* Exits, withering remains, dropped interfaces and restarts only ever     *)
(* shrink the network.                                                     *)
LEMMA NetworkStepsAreSound ==
  ASSUME NEW n, Sound(n)
  PROVE  /\ \A m \in Withers(n) :
              n.proc.state \in {"leaving", "stuck"} => Sound(m) /\ Up(m) \subseteq Up(n)
         /\ \A m \in Exits(n) : n.proc.state = "running" => Sound(m) /\ Up(m) \subseteq Up(n)
         /\ \A w \in WireGuard : LET m == [n EXCEPT !.wg = @ \ {w}]
                                IN Sound(m) /\ Up(m) \subseteq Up(n)
         /\ Sound(AfterDaemonEnds(n)) /\ Up(AfterDaemonEnds(n)) \subseteq Up(n)
         /\ Sound(NothingRuns) /\ Up(NothingRuns) = {}
<1>1. ASSUME NEW m \in Withers(n), n.proc.state \in {"leaving", "stuck"}
      PROVE  Sound(m) /\ Up(m) \subseteq Up(n)
  BY <1>1 DEF Withers, Sound, Matched, Nets, Procs, NoProc, Up
<1>2. ASSUME NEW m \in Exits(n), n.proc.state = "running"
      PROVE  Sound(m) /\ Up(m) \subseteq Up(n)
  <2>1. PICK t \in {"gone", "stuck"} :
          m = [n EXCEPT !.proc.state = t, !.reaping = @ \cup {n.proc.copy}]
    BY DEF Exits
  <2>2. n.proc \in Procs
    BY <1>2 DEF Sound, Nets, NoProc
  <2> QED
    BY <1>2, <2>1, <2>2 DEF Sound, Matched, Nets, Procs, Up
<1>3. ASSUME NEW w \in WireGuard
      PROVE  Sound([n EXCEPT !.wg = @ \ {w}]) /\ Up([n EXCEPT !.wg = @ \ {w}]) \subseteq Up(n)
  BY DEF Sound, Matched, Nets, Up
<1>4. Sound(AfterDaemonEnds(n)) /\ Up(AfterDaemonEnds(n)) \subseteq Up(n)
  BY DEF AfterDaemonEnds, NothingRuns, Sound, Matched, Nets, NoProc, Up
<1>5. Sound(NothingRuns) /\ Up(NothingRuns) = {}
  BY DEF NothingRuns, Sound, Matched, Nets, NoProc, Up
<1> QED
  BY <1>1, <1>2, <1>3, <1>4, <1>5

(* The wait goroutine's cleanup of an exited process shrinks the network   *)
(* too.                                                                    *)
LEMMA ReapedIsSound ==
  ASSUME NEW n, Sound(n), NEW c \in Copies, NEW r \in Reaped(n, c)
  PROVE  Sound(r.net) /\ Up(r.net) \subseteq Up(n) /\ r.proved \in BOOLEAN
<1> DEFINE released == [n EXCEPT !.reaping = @ \ {c}, !.owner = NoOwner]
<1>1. released \in Nets /\ released.owner = NoOwner /\ released.proc = n.proc /\ released.wg = n.wg
  BY DEF Sound, Nets
<1>2. \/ r = [net |-> released, proved |-> TRUE]
      \/ r = [net |-> [released EXCEPT !.proc = NoProc], proved |-> TRUE]
      \/ /\ n.proc.state = "stuck"
         /\ \E t \in Remains("stuck") :
              r = [net |-> [released EXCEPT !.proc.state = t], proved |-> FALSE]
  BY Zenon DEF Reaped
<1> HIDE DEF released
<1>3. CASE r = [net |-> released, proved |-> TRUE]
  BY <1>1, <1>3 DEF Sound, Matched, Up
<1>4. CASE r = [net |-> [released EXCEPT !.proc = NoProc], proved |-> TRUE]
  BY <1>1, <1>4 DEF Sound, Matched, Up, Nets, NoProc
<1>5. ASSUME n.proc.state = "stuck", NEW t \in Remains("stuck"),
             r = [net |-> [released EXCEPT !.proc.state = t], proved |-> FALSE]
      PROVE  Sound(r.net) /\ Up(r.net) \subseteq Up(n) /\ r.proved \in BOOLEAN
  <2>1. n.proc \in Procs
    BY <1>5 DEF Sound, Nets, NoProc
  <2> QED
    BY <1>1, <1>5, <2>1 DEF Sound, Matched, Up, Nets, Procs, Remains
<1> QED
  BY <1>2, <1>3, <1>4, <1>5

(* An observation that succeeds accounts for everything that is up, and    *)
(* so does one that finds several tunnels.                                 *)
LEMMA ObservationsSeeAll ==
  ASSUME NEW n, Sound(n), NEW installed, Up(n) \subseteq installed, installed \subseteq Profiles,
         NEW s \in Observations(n, installed), s.result # "error"
  PROVE  Up(n) \subseteq s.active /\ s.active \subseteq installed
<1>1. s.active = OpenVPNSeen(n, installed).active \cup WireGuardSeen(n, installed).active
       /\ OpenVPNSeen(n, installed).result # "error"
  BY DEF Observations, Seen
<1>2. WireGuardSeen(n, installed).active = n.wg
  BY DEF WireGuardSeen, Seen, Sound, Nets, Up
<1>3. Up(n) \subseteq OpenVPNSeen(n, installed).active \cup n.wg
  <2>1. CASE n.proc.state \in {"running", "leaving", "stuck"}
    <3>1. n.proc \in Procs /\ n.proc.profile \in OpenVPN \cap installed
      BY <2>1 DEF Sound, Nets, NoProc, Procs, Up
    <3>2. n.proc.state # "stuck" /\ n.owner.profile \in installed
      BY <1>1, <2>1, <3>1 DEF OpenVPNSeen, Seen
    <3>3. OpenVPNSeen(n, installed).active = {n.owner.profile}
      BY <2>1, <3>1, <3>2 DEF OpenVPNSeen, Seen
    <3>4. n.owner # NoOwner
      BY <3>2, ProfilesAssumption DEF NoOwner, Profiles
    <3>5. n.owner.profile = n.proc.profile
      BY <2>1, <3>2, <3>4 DEF Sound, Matched
    <3> QED
      BY <3>3, <3>5 DEF Up
  <2>2. CASE n.proc.state \notin {"running", "leaving", "stuck"}
    BY <2>2 DEF Up
  <2> QED
    BY <2>1, <2>2
<1>4. OpenVPNSeen(n, installed).active \subseteq installed
  BY DEF OpenVPNSeen, Seen
<1> QED
  BY <1>1, <1>2, <1>3, <1>4 DEF Up

-----------------------------------------------------------------------------
(* The manager's own start and stop, with the execution copies they keep.  *)
HeldType == [Copies -> Profiles \cup {None}]

(* A fresh execution copy is one of the copies.                            *)
LEMMA FreshIsFree == ASSUME NEW c, c \in Fresh PROVE c \in Copies
BY DEF Fresh

(* The manager's start: what a backend start does, with well-typed copies. *)
LEMMA StartOutcomesAreSound ==
  ASSUME Sound(net), held \in HeldType, NEW p \in Profiles, NEW s \in StartOutcomes(p)
  PROVE  /\ Sound(s.net) /\ s.held \in HeldType
         /\ Up(s.net) \subseteq Up(net) \cup {p}
         /\ s.result = "failed" => s.net = net
         /\ s.result \in {"ok", "failed", "unproved"}
<1> DEFINE c == CHOOSE c \in Fresh : TRUE
           Outcome(n, h, r) == [net |-> n, held |-> h, result |-> r]
           kept == [held EXCEPT ![c] = p]
<1>1. CASE s = Outcome(net, held, "failed")
  BY <1>1
<1>2. ASSUME Fresh # {}, NEW b \in BackendStart(net, p, c),
             s \in {Outcome(b.net, kept, "ok"), Outcome(b.net, held, b.result),
                   Outcome(b.net, kept, "unproved")}
      PROVE  /\ Sound(s.net) /\ s.held \in HeldType
             /\ Up(s.net) \subseteq Up(net) \cup {p}
             /\ s.result = "failed" => s.net = net
             /\ s.result \in {"ok", "failed", "unproved"}
  <2>1. c \in Copies
    BY <1>2, FreshIsFree
  <2>2. /\ Sound(b.net) /\ Up(b.net) \subseteq Up(net) \cup {p}
        /\ b.result = "failed" => b.net = net
        /\ b.result \in {"ok", "failed", "unproved"}
    BY <2>1, BackendStartIsSound
  <2>3. kept \in HeldType
    BY <2>1 DEF HeldType
  <2> HIDE DEF kept, c
  <2> QED
    BY <1>2, <2>2, <2>3
<1> HIDE DEF Outcome
<1>3. s = Outcome(net, held, "failed")
      \/ /\ Fresh # {}
         /\ \E b \in BackendStart(net, p, c) :
              s \in {Outcome(b.net, kept, "ok"), Outcome(b.net, held, b.result),
                    Outcome(b.net, kept, "unproved")}
  BY DEF StartOutcomes, Outcome
<1> QED
  BY <1>1, <1>2, <1>3

(* Removing copies after a stop changes nothing on the network.            *)
LEMMA AfterStopIsSound ==
  ASSUME NEW b, Sound(b.net), NEW p, NEW copies \in HeldType, NEW own,
         NEW s \in AfterStop(b, p, copies, own)
  PROVE  s.net = b.net /\ s.held \in HeldType /\ (s.ok => b.ok)
<1>1. CASE b.ok
  <2>1. PICK o \in CleanOutcomes(copies, Tracked(p)) :
          s = [net |-> b.net, held |-> o.held, ok |-> o.ok /\ own]
    BY <1>1 DEF AfterStop
  <2> QED
    BY <2>1, <1>1, CleanKeepsType DEF HeldType
<1>2. CASE ~b.ok
  <2>1. s = [net |-> b.net, held |-> copies, ok |-> FALSE]
    BY <1>2 DEF AfterStop
  <2> QED
    BY <2>1
<1> QED
  BY <1>1, <1>2

(* The manager's stop: what a backend stop does, with well-typed copies.   *)
LEMMA StopOutcomesAreSound ==
  ASSUME Sound(net), held \in HeldType, NEW p \in Profiles, NEW s \in StopOutcomes(p)
  PROVE  /\ Sound(s.net) /\ s.held \in HeldType
         /\ Up(s.net) \subseteq Up(net)
         /\ s.ok => p \notin Up(s.net)
<1> DEFINE c == CHOOSE c \in Fresh : TRUE
           marked == [held EXCEPT ![c] = p]
<1>1. CASE s = [net |-> net, held |-> held, ok |-> FALSE]
  BY <1>1
<1>2. ASSUME Fresh # {}, NEW b \in BackendStop(net, p),
             \/ s \in AfterStop(b, p, held, TRUE) \/ s \in AfterStop(b, p, marked, FALSE)
      PROVE  /\ Sound(s.net) /\ s.held \in HeldType
             /\ Up(s.net) \subseteq Up(net)
             /\ s.ok => p \notin Up(s.net)
  <2>1. c \in Copies
    BY <1>2, FreshIsFree
  <2>2. /\ Sound(b.net) /\ Up(b.net) \subseteq Up(net)
        /\ b.ok => p \notin Up(b.net)
    BY BackendStopIsSound
  <2>3. marked \in HeldType
    BY <2>1 DEF HeldType
  <2> HIDE DEF marked, c
  <2>4. ASSUME NEW copies \in HeldType, NEW own, s \in AfterStop(b, p, copies, own)
        PROVE  /\ Sound(s.net) /\ s.held \in HeldType
               /\ Up(s.net) \subseteq Up(net)
               /\ s.ok => p \notin Up(s.net)
    <3>1. s.net = b.net /\ s.held \in HeldType /\ (s.ok => b.ok)
      BY <2>2, <2>4, AfterStopIsSound
    <3> QED
      BY <2>2, <3>1
  <2>5. CASE s \in AfterStop(b, p, held, TRUE)
    BY <2>4, <2>5
  <2>6. CASE s \in AfterStop(b, p, marked, FALSE)
    BY <2>3, <2>4, <2>6
  <2> QED
    BY <1>2, <2>5, <2>6
<1>3. s = [net |-> net, held |-> held, ok |-> FALSE]
      \/ /\ Fresh # {}
         /\ \E b \in BackendStop(net, p) :
              \/ s \in AfterStop(b, p, held, TRUE) \/ s \in AfterStop(b, p, marked, FALSE)
  BY DEF StopOutcomes
<1> QED
  BY <1>1, <1>2, <1>3

-----------------------------------------------------------------------------
(* Three shapes a step of the manager can have.                            *)

(* A step that ends the operation keeps the invariant, whatever lifecycle  *)
(* it reports other than disconnected.                                     *)
LEMMA FinishedKeepsInv ==
  ASSUME NEW state \in Lifecycles, NEW p \in Profiles \cup {None}, Finish(state, p),
         lib' \in Libraries, Sound(net'), Up(net') \subseteq lib'.mem.installed,
         held' \in HeldType, events' \subseteq Events, reconciled' \in BOOLEAN
  PROVE  IInv'
<1>1. op' = Idle /\ life' = Life(state, p)
  BY DEF Finish
<1>2. /\ Idle \in Ops /\ Idle.step = "idle" /\ Idle.previous = None
      /\ Life(state, p) \in [state : Lifecycles, profile : Profiles \cup {None}]
  BY DEF Idle, Op, Ops, Steps, Life
<1>3. TypeOK'
  BY <1>1, <1>2 DEF TypeOK, Sound, HeldType
<1>4. NetworkSeen' /\ TargetsKnown' /\ NetworkKnown' /\ LifeKnown'
  BY <1>1, <1>2 DEF NetworkSeen, Sound, Matched, Installed, TargetsKnown, NetworkKnown, LifeKnown
<1> QED
  BY <1>3, <1>4 DEF IInv

(* A step that only shrinks the network keeps the invariant.               *)
LEMMA ShrinkingKeepsInv ==
  ASSUME IInv, Sound(net'), Up(net') \subseteq Up(net),
         UNCHANGED <<op, life, lib, reconciled>>, held' \in HeldType, events' \subseteq Events
  PROVE  IInv'
<1>1. TypeOK'
  BY DEF IInv, TypeOK, Sound, HeldType
<1>2. NetworkSeen'
  BY DEF IInv, NetworkSeen, Sound, Matched, Installed
<1>3. TargetsKnown' /\ NetworkKnown' /\ LifeKnown'
  BY DEF IInv, TargetsKnown, NetworkKnown, LifeKnown, Installed
<1> QED
  BY <1>1, <1>2, <1>3 DEF IInv

(* Between operations the invariant says only what the network may hold.   *)
LEMMA IdleKeepsInv ==
  ASSUME IInv, op = Idle, UNCHANGED <<op, life, reconciled>>,
         lib' \in Libraries, Sound(net'), Up(net') \subseteq lib'.mem.installed,
         held' \in HeldType, events' \subseteq Events
  PROVE  IInv'
<1>1. Idle.step = "idle" /\ Idle.previous = None
  BY DEF Idle, Op
<1>2. TypeOK'
  BY DEF IInv, TypeOK, Sound, HeldType
<1>3. NetworkSeen' /\ TargetsKnown' /\ NetworkKnown' /\ LifeKnown'
  BY <1>1 DEF NetworkSeen, Sound, Matched, Installed, TargetsKnown, NetworkKnown, LifeKnown
<1> QED
  BY <1>2, <1>3 DEF IInv

(* What the invariant gives the lemmas on outcomes.                        *)
LEMMA InvFacts ==
  ASSUME IInv
  PROVE  /\ op \in Ops /\ lib \in Libraries /\ lib.mem \in Manifests
         /\ Sound(net) /\ held \in HeldType /\ events \subseteq Events /\ reconciled \in BOOLEAN
         /\ op.target \in Profiles \cup {None} /\ op.previous \in Profiles \cup {None}
         /\ Installed \subseteq Profiles /\ None \notin Profiles
         /\ Up(net) \subseteq Installed
         /\ life.state \in Lifecycles /\ life.profile \in Profiles \cup {None}
BY ProfilesAssumption
   DEF IInv, TypeOK, NetworkSeen, Sound, HeldType, Ops, Libraries, Manifests, Installed, Profiles

-----------------------------------------------------------------------------
(* The network's own steps.                                                *)

(* The report of an exit to the manager keeps the invariant.               *)
LEMMA ReportKeepsInv == ASSUME IInv, NEW c \in Copies, Report(c) PROVE IInv'
<1>1. PICK r \in Reaped(net, c) : net' = r.net /\ events' = events \cup ExitEvents(r.proved)
  BY DEF Report
<1>2. Sound(r.net) /\ Up(r.net) \subseteq Up(net) /\ r.proved \in BOOLEAN
  BY InvFacts, ReapedIsSound
<1>3. net.owner \in Owners \cup {NoOwner}
  BY InvFacts DEF Sound, Nets
<1>4. ExitEvents(r.proved) \subseteq Events
  BY <1>2, <1>3 DEF ExitEvents, Events, Owners
<1> QED
  BY <1>1, <1>2, <1>4, InvFacts, ShrinkingKeepsInv DEF Report

(* So does every step of the network by itself.                            *)
LEMMA NetworkKeepsInv == ASSUME IInv, Network PROVE IInv'
<1> USE InvFacts
<1>1. CASE Exit
  <2>1. Sound(net') /\ Up(net') \subseteq Up(net)
    BY <1>1, NetworkStepsAreSound DEF Exit
  <2> QED
    BY <1>1, <2>1, ShrinkingKeepsInv DEF Exit
<1>2. CASE Wither
  <2>1. Sound(net') /\ Up(net') \subseteq Up(net)
    BY <1>2, NetworkStepsAreSound DEF Wither
  <2> QED
    BY <1>2, <2>1, ShrinkingKeepsInv DEF Wither
<1>3. ASSUME NEW c \in Copies, Report(c) PROVE IInv'
  BY <1>3, ReportKeepsInv
<1>4. ASSUME NEW w \in WireGuard, Drop(w) PROVE IInv'
  <2>1. Sound(net') /\ Up(net') \subseteq Up(net)
    BY <1>4, NetworkStepsAreSound DEF Drop
  <2> QED
    BY <1>4, <2>1, ShrinkingKeepsInv DEF Drop
<1>5. ASSUME NEW w \in WireGuard, Raise(w) PROVE IInv'
  <2>1. net' = [net EXCEPT !.wg = @ \cup {w}] /\ w \in Installed /\ op = Idle
    BY <1>5 DEF Raise
  <2>2. Sound(net') /\ Up(net') \subseteq Installed
    BY <2>1 DEF Sound, Matched, Nets, Up
  <2> QED
    BY <1>5, <2>1, <2>2, IdleKeepsInv DEF Raise, Installed
<1> QED
  BY <1>1, <1>2, <1>3, <1>4, <1>5 DEF Network

-----------------------------------------------------------------------------
(* An operation begins, or goes on to its next step, with the network and  *)
(* the set of installed profiles as they were.                             *)

(* A step that leaves network and installed profiles alone keeps what the  *)
(* invariant says of them.                                                 *)
LEMMA SameNetworkKeepsInv ==
  ASSUME IInv, op' \in Ops, TargetsKnown', NetworkKnown', LifeKnown',
         life' \in [state : Lifecycles, profile : Profiles \cup {None}],
         lib' \in Libraries, lib'.mem.installed = Installed, net' = net,
         held' \in HeldType, events' \subseteq Events, reconciled' \in BOOLEAN
  PROVE  IInv'
<1>1. TypeOK'
  BY DEF IInv, TypeOK, HeldType
<1>2. NetworkSeen'
  BY DEF IInv, NetworkSeen, Matched, Installed
<1> QED
  BY <1>1, <1>2 DEF IInv

(* Connect's observation establishes what its first step needs to know.    *)
LEMMA ConnectKeepsInv == ASSUME IInv, NEW p \in Profiles, Connect(p) PROVE IInv'
<1> USE InvFacts
<1>1. UNCHANGED <<lib, net, held, events, reconciled>> /\ p \in Installed
  BY DEF Connect
<1>2. ASSUME NEW state \in Lifecycles, Finish(state, p) PROVE IInv'
  BY <1>1, <1>2, FinishedKeepsInv DEF Installed
<1>3. ASSUME NEW s \in Observations(net, Installed), s.result = "ok"
      PROVE  Up(net) \subseteq s.active
  BY <1>3, ObservationsSeeAll
<1>4. ASSUME NEW s \in Observations(net, Installed), s.result = "ok", s.active = {p},
             op' = Op("recordActive", p, None), UNCHANGED life
      PROVE  IInv'
  <2>1. op' \in Ops /\ TargetsKnown' /\ NetworkKnown' /\ LifeKnown'
    BY <1>4 DEF Op, Ops, Steps, TargetsKnown, NetworkKnown, LifeKnown
  <2>2. life' \in [state : Lifecycles, profile : Profiles \cup {None}]
    BY <1>4 DEF IInv, TypeOK
  <2> QED
    BY <1>1, <2>1, <2>2, SameNetworkKeepsInv DEF Installed
<1>5. ASSUME NEW s \in Observations(net, Installed), s.result = "ok", s.active = {},
             op' = Op("start", p, None), life' = Life("starting", p)
      PROVE  IInv'
  <2>1. Up(net') = {}
    BY <1>1, <1>3, <1>5
  <2>2. op' \in Ops /\ TargetsKnown' /\ NetworkKnown'
    BY <1>1, <1>5, <2>1 DEF Op, Ops, Steps, TargetsKnown, NetworkKnown, Installed
  <2>3. life' \in [state : Lifecycles, profile : Profiles \cup {None}] /\ LifeKnown'
    BY <1>5 DEF Life, Lifecycles, LifeKnown
  <2> QED
    BY <1>1, <2>2, <2>3, SameNetworkKeepsInv DEF Installed
<1>6. ASSUME NEW s \in Observations(net, Installed), NEW q \in Installed \ {p},
             s.result = "ok", s.active = {q},
             op' = Op("stopPrevious", p, q), life' = Life("switching", p)
      PROVE  IInv'
  <2>1. Up(net') \subseteq {q}
    BY <1>1, <1>3, <1>6
  <2>2. op' \in Ops /\ TargetsKnown' /\ NetworkKnown'
    BY <1>1, <1>6, <2>1 DEF Op, Ops, Steps, TargetsKnown, NetworkKnown, Installed
  <2>3. life' \in [state : Lifecycles, profile : Profiles \cup {None}] /\ LifeKnown'
    BY <1>6 DEF Life, Lifecycles, LifeKnown
  <2> QED
    BY <1>1, <2>2, <2>3, SameNetworkKeepsInv DEF Installed
<1> QED
  BY <1>2, <1>4, <1>5, <1>6 DEF Connect, Lifecycles

(* Disconnect's observation accounts for everything it will stop.          *)
LEMMA StopAllBegins ==
  ASSUME IInv, NEW n, Sound(n), Up(n) \subseteq Installed,
         NEW s \in Observations(n, Installed), s.result # "error", op' = StopObserved(s),
         net' = n, life'.state # "disconnected",
         life' \in [state : Lifecycles, profile : Profiles \cup {None}],
         UNCHANGED <<lib, held, events, reconciled>>
  PROVE  IInv'
<1> USE InvFacts
<1>1. Up(n) \subseteq s.active /\ s.active \subseteq Installed
  BY ObservationsSeeAll
<1>2. op' \in Ops /\ TargetsKnown' /\ NetworkKnown' /\ LifeKnown'
  BY <1>1 DEF StopObserved, Op, Ops, Steps, TargetsKnown, NetworkKnown, LifeKnown
<1>3. TypeOK'
  BY <1>2 DEF TypeOK, Sound, HeldType
<1>4. NetworkSeen'
  BY DEF NetworkSeen, Sound, Matched, Installed
<1> QED
  BY <1>2, <1>3, <1>4 DEF IInv

(* Disconnect keeps the invariant on each of its first branches.           *)
LEMMA DisconnectKeepsInv == ASSUME IInv, Disconnect PROVE IInv'
<1> USE InvFacts
<1>1. UNCHANGED <<lib, net, held, events, reconciled>>
  BY DEF Disconnect
<1>2. Life("disconnecting", None) \in [state : Lifecycles, profile : Profiles \cup {None}]
       /\ Life("disconnecting", None).state = "disconnecting"
  BY DEF Life, Lifecycles
<1>3. ASSUME NEW s \in Observations(net, Installed), s.result # "error",
             op' = StopObserved(s), life' = Life("disconnecting", None)
      PROVE  IInv'
  BY <1>1, <1>2, <1>3, StopAllBegins
<1>4. ASSUME op' = Op("recover", None, None), life' = Life("disconnecting", None)
      PROVE  IInv'
  <2>1. op' \in Ops /\ TargetsKnown' /\ NetworkKnown' /\ LifeKnown'
    BY <1>2, <1>4 DEF Op, Ops, Steps, TargetsKnown, NetworkKnown, LifeKnown
  <2> QED
    BY <1>1, <1>2, <1>4, <2>1, SameNetworkKeepsInv DEF Installed
<1>5. ASSUME Finish("state_conflict", None) PROVE IInv'
  BY <1>1, <1>5, FinishedKeepsInv DEF Installed, Lifecycles
<1> QED
  BY <1>3, <1>4, <1>5 DEF Disconnect

(* So does its recovery through the backends' Shutdown.                    *)
LEMMA RecoverKeepsInv == ASSUME IInv, RecoverBackends PROVE IInv'
<1> USE InvFacts
<1>1. PICK d \in Deactivate(net) :
        /\ net' = d.net
        /\ \E s \in Observations(d.net, Installed) :
             IF s.result = "error" THEN Finish("state_conflict", None)
             ELSE op' = StopObserved(s) /\ UNCHANGED life
  BY DEF RecoverBackends
<1>2. Sound(d.net) /\ Up(d.net) \subseteq Installed
  BY DeactivateIsSound
<1>3. UNCHANGED <<lib, held, events, reconciled>> /\ op.step = "recover"
  BY DEF RecoverBackends
<1>4. ASSUME Finish("state_conflict", None) PROVE IInv'
  BY <1>1, <1>2, <1>3, <1>4, FinishedKeepsInv DEF Installed, Lifecycles
<1>5. ASSUME NEW s \in Observations(d.net, Installed), s.result # "error",
             op' = StopObserved(s), UNCHANGED life
      PROVE  IInv'
  <2>1. life.state # "disconnected"
    BY <1>3 DEF IInv, LifeKnown
  <2>2. life' \in [state : Lifecycles, profile : Profiles \cup {None}]
    BY <1>5 DEF IInv, TypeOK
  <2> QED
    BY <1>1, <1>2, <1>3, <1>5, <2>1, <2>2, StopAllBegins
<1> QED
  BY <1>1, <1>4, <1>5

-----------------------------------------------------------------------------
(* Starts and stops: the operation stays in progress, or finishes.         *)

(* A step that calls a backend and stays in progress keeps the invariant   *)
(* if it says what its next step needs.                                    *)
LEMMA CallKeepsInv ==
  ASSUME IInv, NEW o, o.net = net', Sound(o.net), o.held = held', o.held \in HeldType,
         Up(o.net) \subseteq Installed, op' \in Ops, TargetsKnown', NetworkKnown', LifeKnown',
         UNCHANGED <<life, lib, events, reconciled>>
  PROVE  IInv'
<1>1. TypeOK'
  BY DEF IInv, TypeOK, Sound, HeldType
<1>2. NetworkSeen'
  BY DEF NetworkSeen, Sound, Matched, Installed
<1> QED
  BY <1>1, <1>2 DEF IInv

(* Starting the target: only a start that left nothing behind leads to a   *)
(* restoration.                                                            *)
LEMMA StartTargetKeepsInv == ASSUME IInv, StartTarget PROVE IInv'
<1> USE InvFacts
<1>1. /\ op.step = "start" /\ UNCHANGED <<lib, events, reconciled>>
      /\ op.target \in Installed /\ Up(net) = {} /\ life.state # "disconnected"
  BY DEF StartTarget, IInv, TargetsKnown, NetworkKnown, LifeKnown
<1>2. PICK s \in StartOutcomes(op.target) :
        /\ net' = s.net /\ held' = s.held
        /\ IF s.result = "ok" THEN Goto("record") /\ UNCHANGED life
           ELSE IF AfterFailedStart(s.result) = "idle" THEN Finish("failed", op.target)
           ELSE Goto(AfterFailedStart(s.result)) /\ UNCHANGED life
  BY DEF StartTarget
<1>3. /\ Sound(s.net) /\ s.held \in HeldType /\ Up(s.net) \subseteq {op.target}
      /\ s.result = "failed" => Up(s.net) = {}
  BY <1>1, StartOutcomesAreSound
<1>4. ASSUME Finish("failed", op.target) PROVE IInv'
  BY <1>1, <1>2, <1>3, <1>4, FinishedKeepsInv DEF Installed, Lifecycles
<1>5. ASSUME NEW step \in {"record", "restore", "forget"}, Goto(step), UNCHANGED life,
             step = "restore" => Up(s.net) = {} /\ op.previous # None
      PROVE  IInv'
  <2>1. op' = [op EXCEPT !.step = step] /\ op' \in Ops
    BY <1>5 DEF Goto, Ops, Steps
  <2>2. TargetsKnown' /\ NetworkKnown' /\ LifeKnown'
    BY <1>1, <1>2, <1>3, <1>5, <2>1
       DEF IInv, TargetsKnown, NetworkKnown, LifeKnown, Installed, Ops
  <2> QED
    BY <1>1, <1>2, <1>3, <1>5, <2>1, <2>2, CallKeepsInv
<1>6. CASE s.result = "ok"
  BY <1>2, <1>5, <1>6
<1>7. CASE s.result # "ok"
  <2>1. CASE AfterFailedStart(s.result) = "idle"
    BY <1>2, <1>4, <1>7, <2>1
  <2>2. CASE AfterFailedStart(s.result) = "forget"
    BY <1>2, <1>5, <1>7, <2>2
  <2>3. CASE AfterFailedStart(s.result) = "restore"
    <3>1. s.result = "failed" /\ op.previous # None
      BY <1>1, <1>7, <2>3, StartOutcomesAreSound DEF AfterFailedStart
    <3> QED
      BY <1>2, <1>3, <1>5, <1>7, <2>3, <3>1
  <2> QED
    BY <2>1, <2>2, <2>3 DEF AfterFailedStart
<1> QED
  BY <1>6, <1>7

(* Restoring the previous tunnel after a failed switch.                    *)
LEMMA RestorePreviousKeepsInv == ASSUME IInv, RestorePrevious PROVE IInv'
<1> USE InvFacts
<1>1. /\ op.step = "restore" /\ UNCHANGED <<lib, events, reconciled>>
      /\ op.previous \in Installed /\ Up(net) = {} /\ life.state # "disconnected"
  BY DEF RestorePrevious, IInv, TargetsKnown, NetworkKnown, LifeKnown
<1>2. PICK s \in StartOutcomes(op.previous) :
        /\ net' = s.net /\ held' = s.held
        /\ IF s.result = "ok" THEN Finish("active", op.previous)
           ELSE op' = [op EXCEPT !.step = "forget", !.errs = {"restore"}] /\ UNCHANGED life
  BY DEF RestorePrevious
<1>3. Sound(s.net) /\ s.held \in HeldType /\ Up(s.net) \subseteq Installed
  BY <1>1, StartOutcomesAreSound
<1>4. CASE s.result = "ok"
  BY <1>1, <1>2, <1>3, <1>4, FinishedKeepsInv DEF Installed, Lifecycles
<1>5. CASE s.result # "ok"
  <2>1. op' = [op EXCEPT !.step = "forget", !.errs = {"restore"}] /\ UNCHANGED life
    BY <1>2, <1>5
  <2>2. /\ {"restore"} \in SUBSET {"stop", "restore"}
        /\ "forget" \in Steps
    BY DEF Steps
  <2>3. op' \in Ops
    BY <2>1, <2>2 DEF Ops
  <2>4. TargetsKnown' /\ NetworkKnown' /\ LifeKnown'
    BY <1>1, <2>1 DEF IInv, TargetsKnown, NetworkKnown, LifeKnown, Installed, Ops
  <2> QED
    BY <1>1, <1>2, <1>3, <2>1, <2>3, <2>4, CallKeepsInv
<1> QED
  BY <1>4, <1>5

(* Restoring the previous tunnel after the target could not be recorded.   *)
LEMMA CompensateStartKeepsInv == ASSUME IInv, CompensateStart PROVE IInv'
<1> USE InvFacts
<1>1. /\ op.step = "compensateStart" /\ UNCHANGED <<life, lib, events, reconciled>>
      /\ op.previous \in Installed /\ Up(net) = {} /\ life.state # "disconnected"
  BY DEF CompensateStart, IInv, TargetsKnown, NetworkKnown, LifeKnown
<1>2. PICK s \in StartOutcomes(op.previous) :
        /\ net' = s.net /\ held' = s.held
        /\ op' = [op EXCEPT !.step = "compensateStore",
                            !.errs = IF s.result = "ok" THEN {} ELSE {"restore"}]
  BY DEF CompensateStart
<1>3. Sound(s.net) /\ s.held \in HeldType /\ Up(s.net) \subseteq Installed
  BY <1>1, StartOutcomesAreSound
<1>4. op' \in Ops
  BY <1>2 DEF Ops, Steps
<1>5. TargetsKnown' /\ NetworkKnown' /\ LifeKnown'
  BY <1>1, <1>2 DEF IInv, TargetsKnown, NetworkKnown, LifeKnown, Installed, Ops
<1> QED
  BY <1>1, <1>2, <1>3, <1>4, <1>5, CallKeepsInv

(* Starting the desired profile at startup.                                *)
LEMMA StartupStartKeepsInv == ASSUME IInv, StartupStart PROVE IInv'
<1> USE InvFacts
<1>1. /\ op.step = "startupStart" /\ UNCHANGED <<lib, events, reconciled>>
      /\ op.target \in Installed /\ Up(net) = {} /\ life.state # "disconnected"
  BY DEF StartupStart, IInv, TargetsKnown, NetworkKnown, LifeKnown
<1>2. PICK s \in StartOutcomes(op.target) :
        /\ net' = s.net /\ held' = s.held
        /\ IF s.result = "ok" THEN Goto("startupRecord") /\ UNCHANGED life
           ELSE Finish(IF s.result = "unproved" THEN "state_conflict" ELSE "failed", op.target)
  BY DEF StartupStart
<1>3. Sound(s.net) /\ s.held \in HeldType /\ Up(s.net) \subseteq {op.target}
  BY <1>1, StartOutcomesAreSound
<1>4. CASE s.result = "ok"
  <2>1. op' = [op EXCEPT !.step = "startupRecord"] /\ UNCHANGED life /\ op' \in Ops
    BY <1>2, <1>4 DEF Goto, Ops, Steps
  <2>2. TargetsKnown' /\ NetworkKnown' /\ LifeKnown'
    BY <1>1, <1>2, <1>3, <2>1 DEF IInv, TargetsKnown, NetworkKnown, LifeKnown, Installed, Ops
  <2> QED
    BY <1>1, <1>2, <1>3, <2>1, <2>2, CallKeepsInv
<1>5. CASE s.result # "ok"
  BY <1>1, <1>2, <1>3, <1>5, FinishedKeepsInv DEF Installed, Lifecycles
<1> QED
  BY <1>4, <1>5

(* Stopping the tunnel a switch replaces: a start follows only a proved    *)
(* stop.                                                                   *)
LEMMA StopPreviousKeepsInv == ASSUME IInv, StopPrevious PROVE IInv'
<1> USE InvFacts
<1>1. /\ op.step = "stopPrevious" /\ UNCHANGED <<lib, events, reconciled>>
      /\ op.previous \in Installed /\ op.target \in Installed
      /\ Up(net) \subseteq {op.previous} /\ life.state # "disconnected"
  BY DEF StopPrevious, IInv, TargetsKnown, NetworkKnown, LifeKnown
<1>2. PICK s \in StopOutcomes(op.previous) :
        /\ net' = s.net /\ held' = s.held
        /\ IF s.ok THEN Goto("start") /\ UNCHANGED life
           ELSE Finish("state_conflict", op.previous)
  BY DEF StopPrevious
<1>3. /\ Sound(s.net) /\ s.held \in HeldType /\ Up(s.net) \subseteq {op.previous}
      /\ s.ok => Up(s.net) = {}
  BY <1>1, StopOutcomesAreSound
<1>4. CASE s.ok
  <2>1. op' = [op EXCEPT !.step = "start"] /\ UNCHANGED life /\ op' \in Ops
    BY <1>2, <1>4 DEF Goto, Ops, Steps
  <2>2. TargetsKnown' /\ NetworkKnown' /\ LifeKnown'
    BY <1>1, <1>2, <1>3, <1>4, <2>1 DEF IInv, TargetsKnown, NetworkKnown, LifeKnown, Installed, Ops
  <2> QED
    BY <1>1, <1>2, <1>3, <2>1, <2>2, CallKeepsInv
<1>5. CASE ~s.ok
  BY <1>1, <1>2, <1>3, <1>5, FinishedKeepsInv DEF Installed, Lifecycles
<1> QED
  BY <1>4, <1>5

(* Stopping the target that could not be recorded.                         *)
LEMMA CompensateStopKeepsInv == ASSUME IInv, CompensateStop PROVE IInv'
<1> USE InvFacts
<1>1. /\ op.step = "compensateStop" /\ UNCHANGED <<life, lib, events, reconciled>>
      /\ op.target \in Installed /\ Up(net) \subseteq {op.target} /\ life.state # "disconnected"
  BY DEF CompensateStop, IInv, TargetsKnown, NetworkKnown, LifeKnown
<1>2. PICK s \in StopOutcomes(op.target) :
        /\ net' = s.net /\ held' = s.held
        /\ op' = [op EXCEPT !.step = IF s.ok /\ op.previous # None THEN "compensateStart"
                                     ELSE "compensateStore",
                            !.errs = IF s.ok THEN {} ELSE {"stop"}]
  BY DEF CompensateStop
<1>3. /\ Sound(s.net) /\ s.held \in HeldType /\ Up(s.net) \subseteq Installed
      /\ s.ok => Up(s.net) = {}
  BY <1>1, StopOutcomesAreSound
<1>4. op' \in Ops
  BY <1>2 DEF Ops, Steps
<1>5. TargetsKnown' /\ NetworkKnown' /\ LifeKnown'
  BY <1>1, <1>2, <1>3 DEF IInv, TargetsKnown, NetworkKnown, LifeKnown, Installed, Ops
<1> QED
  BY <1>1, <1>2, <1>3, <1>4, <1>5, CallKeepsInv

(* Stopping the tunnel restored at startup that could not be recorded.     *)
LEMMA StartupStopKeepsInv == ASSUME IInv, StartupStop PROVE IInv'
<1> USE InvFacts
<1>1. /\ op.step = "startupStop" /\ UNCHANGED <<life, lib, events, reconciled>>
      /\ op.target \in Installed /\ life.state # "disconnected"
  BY DEF StartupStop, IInv, TargetsKnown, LifeKnown
<1>2. PICK s \in StopOutcomes(op.target) :
        /\ net' = s.net /\ held' = s.held
        /\ op' = [op EXCEPT !.step = "startupRepair", !.errs = IF s.ok THEN {} ELSE {"stop"}]
  BY DEF StartupStop
<1>3. Sound(s.net) /\ s.held \in HeldType /\ Up(s.net) \subseteq Installed
  BY <1>1, StopOutcomesAreSound
<1>4. op' \in Ops
  BY <1>2 DEF Ops, Steps
<1>5. TargetsKnown' /\ NetworkKnown' /\ LifeKnown'
  BY <1>1, <1>2 DEF IInv, TargetsKnown, NetworkKnown, LifeKnown, Installed, Ops
<1> QED
  BY <1>1, <1>2, <1>3, <1>4, <1>5, CallKeepsInv

(* One stop of a Disconnect: what is up stays within what is still to be   *)
(* stopped, unless a stop failed.                                          *)
LEMMA StopNextKeepsInv == ASSUME IInv, StopNext PROVE IInv'
<1> USE InvFacts
<1>1. /\ op.step = "stopAll" /\ UNCHANGED <<life, lib, events, reconciled>>
  BY DEF StopNext
<1>2. PICK p \in op.toStop : \E s \in StopOutcomes(p) :
        /\ net' = s.net /\ held' = s.held
        /\ op' = [op EXCEPT !.toStop = @ \ {p}, !.errs = IF s.ok THEN @ ELSE {"stop"}]
  BY DEF StopNext
<1>3. PICK s \in StopOutcomes(p) :
        /\ net' = s.net /\ held' = s.held
        /\ op' = [op EXCEPT !.toStop = @ \ {p}, !.errs = IF s.ok THEN @ ELSE {"stop"}]
  BY <1>2
<1>4. /\ Sound(s.net) /\ s.held \in HeldType /\ Up(s.net) \subseteq Up(net)
      /\ s.ok => p \notin Up(s.net)
  <2>1. p \in Profiles
    BY DEF Ops
  <2> QED
    BY <2>1, StopOutcomesAreSound
<1>5. op' \in Ops
  BY <1>3 DEF Ops
<1>6. op'.errs = {} => s.ok /\ op.errs = {}
  BY <1>3 DEF Ops
<1>7. life.state # "disconnected" /\ (op.errs = {} => Up(net) \subseteq op.toStop)
  BY <1>1 DEF IInv, NetworkKnown, LifeKnown
<1>8. TargetsKnown' /\ LifeKnown'
  BY <1>1, <1>3, <1>7 DEF IInv, TargetsKnown, LifeKnown, Installed, Ops
<1>9. NetworkKnown'
  <2>1. op'.step = "stopAll" /\ op'.toStop = op.toStop \ {p}
    BY <1>1, <1>3 DEF Ops
  <2>2. op'.errs = {} => Up(net') \subseteq op'.toStop
    BY <1>3, <1>4, <1>6, <1>7, <2>1
  <2> QED
    BY <2>1, <2>2 DEF NetworkKnown
<1> QED
  BY <1>1, <1>3, <1>4, <1>5, <1>8, <1>9, CallKeepsInv

(* The end of a Disconnect's stops: with every stop proved, nothing is up. *)
LEMMA AllStoppedKeepsInv == ASSUME IInv, AllStopped PROVE IInv'
<1> USE InvFacts
<1>1. /\ op.step = "stopAll" /\ op.toStop = {} /\ UNCHANGED <<lib, net, events, reconciled>>
      /\ life.state # "disconnected"
  BY DEF AllStopped, IInv, LifeKnown
<1>2. ASSUME held' \in HeldType, Finish("state_conflict", None) PROVE IInv'
  BY <1>1, <1>2, FinishedKeepsInv DEF Installed, Lifecycles
<1>3. ASSUME held' \in HeldType, op.errs = {}, Goto("clear"), UNCHANGED life PROVE IInv'
  <2>1. op' = [op EXCEPT !.step = "clear"] /\ op' \in Ops
    BY <1>3 DEF Goto, Ops, Steps
  <2>2. Up(net') = {}
    BY <1>1, <1>3 DEF IInv, NetworkKnown
  <2>3. op'.step = "clear" /\ op'.target = op.target /\ op'.previous = op.previous
    BY <2>1 DEF Ops
  <2>4. TargetsKnown' /\ NetworkKnown' /\ LifeKnown'
    BY <1>1, <1>3, <2>2, <2>3 DEF IInv, TargetsKnown, NetworkKnown, LifeKnown, Installed
  <2>5. life' \in [state : Lifecycles, profile : Profiles \cup {None}]
    BY <1>3 DEF IInv, TypeOK
  <2> QED
    BY <1>1, <1>3, <2>1, <2>4, <2>5, SameNetworkKeepsInv DEF Installed
<1>4. CASE ~EveryStopProved
  BY <1>2, <1>4 DEF AllStopped
<1>5. CASE EveryStopProved
  <2>1. PICK o \in CleanOutcomes(held, Copies) :
          /\ held' = o.held
          /\ IF o.ok THEN Goto("clear") /\ UNCHANGED life ELSE Finish("state_conflict", None)
    BY <1>5 DEF AllStopped
  <2>2. held' \in HeldType
    BY <2>1, CleanKeepsType DEF HeldType
  <2> QED
    BY <1>2, <1>3, <1>5, <2>1, <2>2 DEF EveryStopProved
<1> QED
  BY <1>4, <1>5

-----------------------------------------------------------------------------
(* Library writes of an operation in progress.                             *)

(* A store write that ends the operation keeps the invariant.              *)
LEMMA WriteFinishesKeepsInv ==
  ASSUME IInv, NEW state \in Lifecycles, NEW p \in Profiles \cup {None}, Finish(state, p),
         lib' \in Libraries, lib'.mem.installed = lib.mem.installed,
         UNCHANGED <<net, held, events, reconciled>>
  PROVE  IInv'
BY InvFacts, FinishedKeepsInv DEF Installed

(* The writes that end Connect, Disconnect and the handling of an exit.    *)
LEMMA RecordsKeepInv ==
  ASSUME IInv, RecordActive \/ ForgetConnection \/ ClearConnection \/ ExitRecord PROVE IInv'
<1> USE InvFacts
<1>1. CASE RecordActive
  <2>1. PICK w \in SetConnection(lib, op.target, TRUE) :
          \E r \in IF w.ok THEN {w} ELSE ReconcileOutcomes(w.lib, op.target, TRUE) :
            /\ lib' = r.lib
            /\ Finish(IF r.ok THEN "active" ELSE "state_conflict", op.target)
    BY <1>1 DEF RecordActive
  <2>2. PICK r \in IF w.ok THEN {w} ELSE ReconcileOutcomes(w.lib, op.target, TRUE) :
          lib' = r.lib /\ Finish(IF r.ok THEN "active" ELSE "state_conflict", op.target)
    BY <2>1
  <2>3. w.lib \in Libraries /\ w.lib.mem.installed = lib.mem.installed
    BY SetConnectionKeepsInstalled
  <2>4. r.lib \in Libraries /\ r.lib.mem.installed = lib.mem.installed
    <3>1. CASE w.ok
      BY <2>2, <2>3, <3>1
    <3>2. CASE ~w.ok
      <4>1. r \in ReconcileOutcomes(w.lib, op.target, TRUE) /\ op.target \in Profiles \cup {None}
        BY <2>2, <3>2
      <4> QED
        BY <2>3, <4>1, ReconcileKeepsInstalled
    <3> QED
      BY <3>1, <3>2
  <2> QED
    BY <1>1, <2>2, <2>4, WriteFinishesKeepsInv DEF RecordActive, Lifecycles
<1>2. CASE ForgetConnection
  <2> DEFINE d == IF op.errs = {} THEN lib.mem.desired ELSE op.previous
  <2>1. d \in Profiles \cup {None}
    BY DEF Manifests
  <2>2. PICK r \in ReconcileOutcomes(lib, d, FALSE) : lib' = r.lib
    BY <1>2 DEF ForgetConnection
  <2> HIDE DEF d
  <2>3. r.lib \in Libraries /\ r.lib.mem.installed = lib.mem.installed
    BY <2>1, ReconcileKeepsInstalled
  <2> QED
    BY <1>2, <2>2, <2>3, WriteFinishesKeepsInv DEF ForgetConnection, Lifecycles
<1>3. CASE ClearConnection
  <2>1. PICK r \in ReconcileOutcomes(lib, None, FALSE) :
          lib' = r.lib /\ Finish(IF r.ok THEN "disconnected" ELSE "state_conflict", None)
    BY <1>3 DEF ClearConnection
  <2>2. r.lib \in Libraries /\ r.lib.mem.installed = lib.mem.installed
    BY ReconcileKeepsInstalled
  <2> QED
    BY <1>3, <2>1, <2>2, WriteFinishesKeepsInv DEF ClearConnection, Lifecycles
<1>4. CASE ExitRecord
  <2>1. PICK r \in ReconcileOutcomes(lib, op.target, FALSE) :
          lib' = r.lib /\ Finish(IF r.ok THEN "failed" ELSE "state_conflict", op.target)
    BY <1>4 DEF ExitRecord
  <2>2. r.lib \in Libraries /\ r.lib.mem.installed = lib.mem.installed
    BY ReconcileKeepsInstalled
  <2> QED
    BY <1>4, <2>1, <2>2, WriteFinishesKeepsInv DEF ExitRecord, Lifecycles
<1> QED
  BY <1>1, <1>2, <1>3, <1>4

(* A write that fails leaves the operation to compensate, on the network   *)
(* as it was.                                                              *)
LEMMA FailedRecordKeepsInv ==
  ASSUME IInv,
         \/ op.step = "record" /\ Goto("compensateStop")
         \/ op.step = "startupRecord" /\ Goto("startupStop"),
         lib' \in Libraries, lib'.mem.installed = lib.mem.installed,
         UNCHANGED <<life, net, held, events, reconciled>>
  PROVE  IInv'
<1> USE InvFacts
<1>1. PICK step \in {"compensateStop", "startupStop"} :
        op' = [op EXCEPT !.step = step] /\ op.step \in {"record", "startupRecord"}
  BY DEF Goto
<1>2. op' \in Ops /\ op'.step = step /\ op'.target = op.target /\ op'.previous = op.previous
  BY <1>1 DEF Ops, Steps
<1>3. Up(net') \subseteq {op.target} /\ op.target \in Installed /\ life.state # "disconnected"
  BY <1>1 DEF IInv, NetworkKnown, TargetsKnown, LifeKnown
<1>4. TargetsKnown' /\ NetworkKnown' /\ LifeKnown'
  BY <1>1, <1>2, <1>3 DEF IInv, TargetsKnown, NetworkKnown, LifeKnown, Installed
<1>5. life' \in [state : Lifecycles, profile : Profiles \cup {None}]
  BY DEF IInv, TypeOK
<1> QED
  BY <1>2, <1>4, <1>5, SameNetworkKeepsInv DEF Installed

(* Recording the started target, in Connect and at startup.                *)
LEMMA RecordTargetKeepsInv == ASSUME IInv, RecordTarget \/ StartupRecord PROVE IInv'
<1> USE InvFacts
<1>1. PICK w \in SetConnection(lib, op.target, TRUE) :
        /\ lib' = w.lib
        /\ \/ Finish("active", op.target)
           \/ /\ UNCHANGED life
              /\ \/ op.step = "record" /\ Goto("compensateStop")
                 \/ op.step = "startupRecord" /\ Goto("startupStop")
  BY DEF RecordTarget, StartupRecord
<1>2. w.lib \in Libraries /\ w.lib.mem.installed = lib.mem.installed
  BY SetConnectionKeepsInstalled
<1>3. UNCHANGED <<net, held, events, reconciled>>
  BY DEF RecordTarget, StartupRecord
<1> QED
  BY <1>1, <1>2, <1>3, FailedRecordKeepsInv, WriteFinishesKeepsInv DEF Lifecycles

(* The writes that end a compensation, in Connect and at startup.          *)
LEMMA RepairedWritesKeepInv ==
  ASSUME IInv, CompensateStore \/ StartupRepair PROVE IInv'
<1> USE InvFacts
<1>1. CASE CompensateStore
  <2>1. PICK r \in RepairOutcomes(lib) :
          \E w \in IF r.ok /\ "stop" \notin op.errs
                   THEN Compensation(r.lib) ELSE {[r EXCEPT !.ok = FALSE]} :
            /\ lib' = w.lib
            /\ IF ~w.ok \/ op.errs # {} THEN Finish("state_conflict", op.target)
               ELSE IF op.previous # None THEN Finish("active", op.previous)
               ELSE Finish("failed", op.target)
    BY <1>1 DEF CompensateStore
  <2>2. r.lib \in Libraries /\ r.lib.mem.installed = lib.mem.installed
    BY RepairKeepsManifest
  <2>3. ASSUME NEW w \in Compensation(r.lib)
        PROVE  w.lib \in Libraries /\ w.lib.mem.installed = lib.mem.installed
    BY <2>2, SetConnectionKeepsInstalled, ZenonT(60) DEF Compensation
  <2>4. [r EXCEPT !.ok = FALSE].lib = r.lib
    BY DEF RepairOutcomes
  <2>5. lib' \in Libraries /\ lib'.mem.installed = lib.mem.installed
    BY <2>1, <2>2, <2>3, <2>4
  <2> QED
    BY <1>1, <2>1, <2>5, WriteFinishesKeepsInv DEF CompensateStore, Lifecycles
<1>2. CASE StartupRepair
  <2>1. PICK r \in RepairOutcomes(lib) :
          \E w \in IF r.ok /\ op.errs = {} THEN ReconcileOutcomes(r.lib, op.target, FALSE)
                   ELSE {[r EXCEPT !.ok = FALSE]} :
            /\ lib' = w.lib
            /\ Finish(IF w.ok THEN "failed" ELSE "state_conflict", op.target)
    BY <1>2 DEF StartupRepair
  <2>2. r.lib \in Libraries /\ r.lib.mem.installed = lib.mem.installed
    BY RepairKeepsManifest
  <2>3. ASSUME NEW w \in ReconcileOutcomes(r.lib, op.target, FALSE)
        PROVE  w.lib \in Libraries /\ w.lib.mem.installed = lib.mem.installed
    BY <2>2, ReconcileKeepsInstalled
  <2>4. [r EXCEPT !.ok = FALSE].lib = r.lib
    BY DEF RepairOutcomes
  <2>5. lib' \in Libraries /\ lib'.mem.installed = lib.mem.installed
    BY <2>1, <2>2, <2>3, <2>4
  <2> QED
    BY <1>2, <2>1, <2>5, WriteFinishesKeepsInv DEF StartupRepair, Lifecycles
<1> QED
  BY <1>1, <1>2

-----------------------------------------------------------------------------
(* Startup.                                                                *)

(* The decision whether to restore the desired profile is made on an empty *)
(* network.                                                                *)
LEMMA RestoreDesiredKeepsInv ==
  ASSUME IInv, Up(net) = {}, lib' \in Libraries, lib'.mem.installed = lib.mem.installed,
         RestoreDesired(lib'.mem), UNCHANGED <<net, held, events>>, reconciled' \in BOOLEAN
  PROVE  IInv'
<1> USE InvFacts
<1>1. lib'.mem \in Manifests
  BY DEF Libraries
<1>2. ASSUME NEW state \in Lifecycles, NEW p \in Profiles \cup {None}, Finish(state, p)
      PROVE  IInv'
  BY <1>2, FinishedKeepsInv
<1>3. ASSUME lib'.mem.desired \in lib'.mem.installed,
             op' = Op("startupStart", lib'.mem.desired, None),
             life' = Life("restoring", lib'.mem.desired)
      PROVE  IInv'
  <2>1. op' \in Ops /\ TargetsKnown' /\ NetworkKnown'
    BY <1>1, <1>3 DEF Op, Ops, Steps, Manifests, TargetsKnown, NetworkKnown, Installed
  <2>2. life' \in [state : Lifecycles, profile : Profiles \cup {None}] /\ LifeKnown'
    BY <1>1, <1>3 DEF Life, Lifecycles, Manifests, LifeKnown
  <2> QED
    BY <2>1, <2>2, SameNetworkKeepsInv DEF Installed
<1> QED
  BY <1>1, <1>2, <1>3 DEF RestoreDesired, Manifests, Lifecycles

(* Forgetting a connection that did not survive the restart.               *)
LEMMA StartupForgetKeepsInv == ASSUME IInv, StartupForget PROVE IInv'
<1> USE InvFacts
<1>1. PICK r \in ReconcileOutcomes(lib, lib.mem.desired, FALSE) :
        /\ lib' = r.lib
        /\ IF r.ok THEN RestoreDesired(r.lib.mem) ELSE Finish("state_conflict", lib.mem.desired)
  BY DEF StartupForget
<1>2. lib.mem.desired \in Profiles \cup {None}
  BY DEF Manifests
<1>3. r.lib \in Libraries /\ r.lib.mem.installed = lib.mem.installed
  BY <1>2, ReconcileKeepsInstalled
<1>4. Up(net) = {} /\ UNCHANGED <<net, held, events, reconciled>>
  BY DEF StartupForget, IInv, NetworkKnown
<1>5. CASE r.ok
  BY <1>1, <1>3, <1>4, <1>5, RestoreDesiredKeepsInv
<1>6. CASE ~r.ok
  BY <1>1, <1>2, <1>3, <1>4, <1>6, WriteFinishesKeepsInv DEF Lifecycles
<1> QED
  BY <1>5, <1>6

(* ReconcileStartup's observation establishes what its next step needs to  *)
(* know.                                                                   *)
LEMMA StartupBeginKeepsInv == ASSUME IInv, StartupBegin PROVE IInv'
<1> USE InvFacts
<1>1. UNCHANGED <<lib, net, held, events>> /\ reconciled' = TRUE
  BY DEF StartupBegin
<1>2. ASSUME NEW state \in Lifecycles, NEW p \in Profiles \cup {None}, Finish(state, p)
      PROVE  IInv'
  BY <1>1, <1>2, FinishedKeepsInv DEF Installed
<1>3. PICK s \in Observations(net, Installed) :
        \/ s.result # "ok" /\ Finish("state_conflict", None)
        \/ \E p \in s.active :
             /\ s.result = "ok"
             /\ Finish(IF p = lib.mem.desired THEN "active" ELSE "state_conflict", p)
        \/ /\ s.result = "ok" /\ s.active = {}
           /\ IF lib.mem.connected
              THEN op' = Op("startupForget", None, None) /\ life' = Life("restoring", None)
              ELSE RestoreDesired(lib.mem)
  BY DEF StartupBegin
<1>4. s.result = "ok" => Up(net) \subseteq s.active /\ s.active \subseteq Profiles
  BY ObservationsSeeAll
<1>5. ASSUME s.active = {}, s.result = "ok",
             op' = Op("startupForget", None, None), life' = Life("restoring", None)
      PROVE  IInv'
  <2>1. Up(net') = {}
    BY <1>1, <1>4, <1>5
  <2>2. op' \in Ops /\ TargetsKnown' /\ NetworkKnown'
    BY <1>1, <1>5, <2>1 DEF Op, Ops, Steps, TargetsKnown, NetworkKnown, Installed
  <2>3. life' \in [state : Lifecycles, profile : Profiles \cup {None}] /\ LifeKnown'
    BY <1>5 DEF Life, Lifecycles, LifeKnown
  <2> QED
    BY <1>1, <2>2, <2>3, SameNetworkKeepsInv DEF Installed
<1>6. ASSUME s.active = {}, s.result = "ok", RestoreDesired(lib.mem) PROVE IInv'
  BY <1>1, <1>4, <1>6, RestoreDesiredKeepsInv
<1> QED
  BY <1>2, <1>3, <1>4, <1>5, <1>6 DEF Lifecycles

-----------------------------------------------------------------------------
(* Unexpected exits.                                                       *)

(* Handling an unexpected exit keeps the invariant on every branch.        *)
LEMMA HandleExitKeepsInv == ASSUME IInv, NEW e \in Events, HandleExit(e) PROVE IInv'
<1> USE InvFacts
<1>1. /\ op = Idle /\ UNCHANGED <<lib, net, reconciled>>
      /\ events' \subseteq Events /\ e.profile \in Profiles
  BY DEF HandleExit, Events, Profiles
<1>2. ASSUME held' \in HeldType, NEW state \in Lifecycles, Finish(state, e.profile) PROVE IInv'
  BY <1>1, <1>2, FinishedKeepsInv DEF Installed
<1>3. ASSUME held' \in HeldType, UNCHANGED <<op, life>> PROVE IInv'
  BY <1>1, <1>3, IdleKeepsInv DEF Installed
<1>4. ASSUME held' \in HeldType, op' = Op("exitRecord", e.profile, None), UNCHANGED life PROVE IInv'
  <2>1. op' \in Ops /\ TargetsKnown' /\ NetworkKnown' /\ LifeKnown'
    BY <1>1, <1>4 DEF Op, Ops, Steps, TargetsKnown, NetworkKnown, LifeKnown
  <2>2. life' \in [state : Lifecycles, profile : Profiles \cup {None}]
    BY <1>4 DEF IInv, TypeOK
  <2> QED
    BY <1>1, <1>4, <2>1, <2>2, SameNetworkKeepsInv DEF Installed
<1>5. PICK o \in CleanOutcomes(held, {e.copy} \cap Tracked(e.profile)) :
        \/ held' = o.held /\ Finish("state_conflict", e.profile)
        \/ held' = o.held /\ UNCHANGED <<op, life>>
        \/ \E all \in CleanOutcomes(o.held, Tracked(e.profile)) :
             /\ held' = all.held
             /\ \/ UNCHANGED <<op, life>>
                \/ \E state \in {"state_conflict", "failed"} : Finish(state, e.profile)
                \/ op' = Op("exitRecord", e.profile, None) /\ UNCHANGED life
  BY DEF HandleExit
<1>6. o.held \in HeldType
  BY CleanKeepsType DEF HeldType
<1>7. ASSUME NEW all \in CleanOutcomes(o.held, Tracked(e.profile)) PROVE all.held \in HeldType
  BY <1>6, CleanKeepsType DEF HeldType
<1> QED
  BY <1>2, <1>3, <1>4, <1>5, <1>6, <1>7 DEF Lifecycles

-----------------------------------------------------------------------------
(* Library operations and restarts.                                        *)

(* A profile that Remove accepts is not up: the observation of its own     *)
(* protocol would have shown it.                                           *)
LEMMA RemovedIsDown == ASSUME IInv, NEW p \in Profiles, Remove(p) PROVE p \notin Up(net)
<1> USE InvFacts
<1>1. p \in Installed
  BY DEF Remove
<1>2. CASE p \in OpenVPN
  <2>1. OpenVPNSeen(net, Installed).result = "ok" /\ p \notin OpenVPNSeen(net, Installed).active
    BY <1>2 DEF Remove
  <2>2. SUFFICES ASSUME net.proc.state \in {"running", "leaving", "stuck"}, net.proc.profile = p
                 PROVE  FALSE
    BY <1>2, ProfilesAssumption DEF Up, Sound, Nets
  <2>3. net.proc.state # "stuck" /\ net.owner.profile \in Installed
    BY <1>1, <1>2, <2>1, <2>2 DEF OpenVPNSeen, Seen
  <2>4. net.owner.profile = p
    BY <2>2, <2>3 DEF Sound, Matched, NoOwner
  <2> QED
    BY <1>1, <1>2, <2>1, <2>2, <2>3, <2>4 DEF OpenVPNSeen, Seen
<1>3. CASE p \notin OpenVPN
  <2>1. p \notin WireGuardSeen(net, Installed).active
    BY <1>3 DEF Remove
  <2>2. p \notin net.wg
    BY <1>1, <2>1 DEF WireGuardSeen, Seen
  <2> QED
    BY <1>3, <2>2 DEF Up, Sound, Nets, Procs, NoProc
<1> QED
  BY <1>2, <1>3

(* A profile is removed only when it is not up, so an observation still    *)
(* sees everything.                                                        *)
LEMMA RemoveKeepsInv == ASSUME IInv, NEW p \in Profiles, Remove(p) PROVE IInv'
<1> USE InvFacts
<1>1. /\ op = Idle /\ p \in Installed /\ UNCHANGED <<op, life, net, held, events, reconciled>>
      /\ \E w \in RemoveProfile(lib, p) : lib' = w.lib
  BY DEF Remove, Admitted
<1> DEFINE m == [lib.mem EXCEPT !.installed = @ \ {p},
                               !.desired   = IF @ = p THEN None ELSE @,
                               !.connected = @ /\ lib.mem.desired # p]
<1>2. m \in Manifests /\ m.installed = Installed \ {p}
  BY DEF Manifests, Installed
<1>3. PICK w \in WriteOutcomes(lib, m) : lib' = w.lib
  BY <1>1 DEF RemoveProfile, Without
<1> HIDE DEF m
<1>4. lib' \in Libraries /\ lib'.mem.installed \in {Installed, Installed \ {p}}
  BY <1>2, <1>3, WriteLeavesEither DEF Installed
<1>5. p \notin Up(net)
  BY RemovedIsDown
<1> QED
  BY <1>1, <1>4, <1>5, IdleKeepsInv

(* Installing a profile takes nothing out of the observations' sight.      *)
LEMMA ImportKeepsInv == ASSUME IInv, NEW p \in Profiles, Import(p) PROVE IInv'
<1> USE InvFacts
<1>1. op = Idle /\ UNCHANGED <<op, life, net, held, events, reconciled>>
  BY DEF Import, Admitted
<1> DEFINE m == [lib.mem EXCEPT !.installed = @ \cup {p}]
<1>2. m \in Manifests /\ Installed \subseteq m.installed
  BY DEF Manifests, Installed
<1>3. PICK w \in WriteOutcomes(lib, m) : lib' = w.lib
  BY DEF Import, PublishProfile, With
<1> HIDE DEF m
<1>4. lib' \in Libraries /\ Installed \subseteq lib'.mem.installed
  BY <1>2, <1>3, WriteLeavesEither DEF Installed
<1> QED
  BY <1>1, <1>4, IdleKeepsInv

(* A startup mode change between the steps of an operation disturbs none   *)
(* of them.                                                                *)
LEMMA SetPreferencesKeepsInv ==
  ASSUME IInv, NEW mode \in {"manual", "restore"}, SetPreferences(mode) PROVE IInv'
<1> USE InvFacts
<1>1. UNCHANGED <<op, life, net, held, events, reconciled>>
  BY DEF SetPreferences
<1> DEFINE m == [lib.mem EXCEPT !.mode = mode]
<1>2. m \in Manifests /\ m.installed = Installed
  BY DEF Manifests, Installed
<1>3. PICK w \in WriteOutcomes(lib, m) : lib' = w.lib
  BY DEF SetPreferences, SetStartupMode
<1> HIDE DEF m
<1>4. lib' \in Libraries /\ lib'.mem.installed = Installed
  BY <1>2, <1>3, WriteLeavesEither DEF Installed
<1>5. TargetsKnown' /\ NetworkKnown' /\ LifeKnown'
  BY <1>1, <1>4 DEF IInv, TargetsKnown, NetworkKnown, LifeKnown, Installed
<1>6. op' \in Ops /\ life' \in [state : Lifecycles, profile : Profiles \cup {None}]
  BY <1>1 DEF IInv, TypeOK
<1> QED
  BY <1>1, <1>4, <1>5, <1>6, SameNetworkKeepsInv

(* A restart of the daemon or of the machine starts from what the store    *)
(* and WireGuard kept.                                                     *)
LEMMA RestartKeepsInv == ASSUME IInv, DaemonEnds \/ MachineStops PROVE IInv'
<1> USE InvFacts
<1>1. /\ Finish("disconnected", None) /\ events' = {} /\ reconciled' = FALSE
      /\ held' \in HeldType /\ "disconnected" \in Lifecycles
  BY DEF DaemonEnds, MachineStops, Restarted, Finish, HeldType, Lifecycles
<1>2. \A m \in Manifests : Durable(m) \in Libraries /\ Durable(m).mem = m
  BY DEF Durable, Libraries
<1>3. lib.disk \in Manifests
  BY DEF Libraries
<1>4. CASE DaemonEnds
  <2>1. lib' \in Libraries /\ lib'.mem = lib.mem /\ net' = AfterDaemonEnds(net)
    BY <1>2, <1>4 DEF DaemonEnds, Reopened
  <2>2. Sound(net') /\ Up(net') \subseteq lib'.mem.installed
    BY <2>1, NetworkStepsAreSound DEF Installed
  <2> QED
    BY <1>1, <2>1, <2>2, FinishedKeepsInv
<1>5. CASE MachineStops
  <2>1. lib' \in Libraries /\ net' = NothingRuns
    BY <1>2, <1>3, <1>5 DEF MachineStops, ReopenedAfterPowerLoss
  <2>2. Sound(net') /\ Up(net') = {}
    BY <2>1, NetworkStepsAreSound
  <2> QED
    BY <1>1, <2>1, <2>2, FinishedKeepsInv
<1> QED
  BY <1>4, <1>5

-----------------------------------------------------------------------------
(* The inductive invariant.                                                *)

(* The first start of the daemon satisfies the invariant.                  *)
LEMMA InitSatisfiesInv == ASSUME Init PROVE IInv
<1>1. PICK i \in SUBSET Profiles, m \in {"manual", "restore"} :
        lib = Durable([EmptyLibrary.mem EXCEPT !.installed = i, !.mode = m])
  BY DEF Init
<1> DEFINE manifest == [EmptyLibrary.mem EXCEPT !.installed = i, !.mode = m]
<1>2. manifest \in Manifests
  BY DEF EmptyLibrary, Durable, Manifests
<1> HIDE DEF manifest
<1>3. lib \in Libraries
  BY <1>1, <1>2 DEF manifest, Durable, Libraries
<1>4. /\ Idle \in Ops /\ Idle.step = "idle" /\ Idle.previous = None
      /\ Life("disconnected", None) \in [state : Lifecycles, profile : Profiles \cup {None}]
  BY DEF Idle, Op, Ops, Steps, Life, Lifecycles
<1>5. NothingRuns \in Nets /\ Up(NothingRuns) = {} /\ Matched(NothingRuns)
  BY DEF NothingRuns, Nets, NoProc, Up, Matched
<1>6. TypeOK
  BY <1>3, <1>4, <1>5 DEF Init, TypeOK
<1>7. TargetsKnown /\ NetworkKnown /\ NetworkSeen /\ LifeKnown
  BY <1>4, <1>5 DEF Init, TargetsKnown, NetworkKnown, NetworkSeen, LifeKnown
<1> QED
  BY <1>6, <1>7 DEF IInv

(* A stuttering step keeps it.                                             *)
LEMMA StutterKeepsInv == ASSUME IInv, UNCHANGED vars PROVE IInv'
BY DEF vars, IInv, TypeOK, TargetsKnown, NetworkKnown, NetworkSeen, Matched, LifeKnown, Installed

(* Every step keeps it.                                                    *)
LEMMA NextKeepsInv == ASSUME IInv, [Next]_vars PROVE IInv'
<1>1. CASE Request
  BY <1>1, ConnectKeepsInv, RemoveKeepsInv, ImportKeepsInv, DisconnectKeepsInv,
     SetPreferencesKeepsInv DEF Request
<1>2. CASE Proceed
  BY <1>2, RecordsKeepInv, StopPreviousKeepsInv, StartTargetKeepsInv, RestorePreviousKeepsInv,
     RecordTargetKeepsInv, CompensateStopKeepsInv, CompensateStartKeepsInv, RepairedWritesKeepInv,
     RecoverKeepsInv, StopNextKeepsInv, AllStoppedKeepsInv, StartupForgetKeepsInv,
     StartupStartKeepsInv, StartupStopKeepsInv DEF Proceed
<1>3. CASE StartupBegin
  BY <1>3, StartupBeginKeepsInv
<1>4. ASSUME NEW e \in Events, HandleExit(e) PROVE IInv'
  BY <1>4, HandleExitKeepsInv
<1>5. CASE Network
  BY <1>5, NetworkKeepsInv
<1>6. CASE DaemonEnds \/ MachineStops
  BY <1>6, RestartKeepsInv
<1>7. CASE UNCHANGED vars
  BY <1>7, StutterKeepsInv
<1> QED
  BY <1>1, <1>2, <1>3, <1>4, <1>5, <1>6, <1>7 DEF Next

(* Whatever the manager does and whatever fails, each step of an operation *)
(* in progress still knows what its observation and its proved stops       *)
(* established: that is the invariant every other theorem here rests on.   *)
THEOREM InductiveInvariant == Spec => []IInv
<1>1. Init => IInv
  BY InitSatisfiesInv
<1>2. IInv /\ [Next]_vars => IInv'
  BY NextKeepsInv
<1> QED
  BY <1>1, <1>2, PTL DEF Spec

(* Every operation, callback, failure and restart keeps every part of the  *)
(* manager's state well formed; in particular no step of manager.go starts *)
(* or stops the empty profile.                                             *)
THEOREM TypeCorrect == Spec => []TypeOK
<1>1. IInv => TypeOK
  BY DEF IInv
<1> QED
  BY <1>1, InductiveInvariant, PTL

-----------------------------------------------------------------------------
(* How the network changes: it shrinks, or an operation that knows it      *)
(* empty starts one tunnel, or somebody else raises one between operations.*)

(* A start made by an operation begins on an empty network and brings up   *)
(* only its target.                                                        *)
LEMMA StartsGrowFromNothing ==
  ASSUME IInv, StartTarget \/ RestorePrevious \/ CompensateStart \/ StartupStart
  PROVE  /\ Up(net) = {} /\ life'.state # "disconnected"
         /\ \E p \in Profiles : Up(net') \subseteq {p}
<1> USE InvFacts
<1>1. Up(net) = {} /\ life.state # "disconnected"
  BY DEF StartTarget, RestorePrevious, CompensateStart, StartupStart, IInv, NetworkKnown, LifeKnown
<1>2. ASSUME NEW p \in Profiles, NEW s \in StartOutcomes(p), net' = s.net
      PROVE  Up(net') \subseteq {p}
  BY <1>1, <1>2, StartOutcomesAreSound
<1>3. \E p \in Installed : \E s \in StartOutcomes(p) : net' = s.net
  BY DEF StartTarget, RestorePrevious, CompensateStart, StartupStart, IInv, TargetsKnown
<1>4. \A state, p : Finish(state, p) => life'.state = state
  BY DEF Finish, Life
<1>5. life' = life \/ life'.state \in {"failed", "active", "state_conflict"}
  <2>1. CASE StartTarget
    BY <1>4, <2>1 DEF StartTarget
  <2>2. CASE RestorePrevious
    BY <1>4, <2>2 DEF RestorePrevious
  <2>3. CASE CompensateStart
    BY <2>3 DEF CompensateStart
  <2>4. CASE StartupStart
    BY <1>4, <2>4 DEF StartupStart
  <2> QED
    BY <2>1, <2>2, <2>3, <2>4
<1> QED
  BY <1>1, <1>2, <1>3, <1>5

(* A stop made by an operation brings nothing up.                          *)
LEMMA StopsShrink ==
  ASSUME IInv, StopPrevious \/ CompensateStop \/ StartupStop \/ StopNext \/ RecoverBackends
  PROVE  Up(net') \subseteq Up(net)
<1> USE InvFacts
<1>1. CASE RecoverBackends
  BY <1>1, DeactivateIsSound DEF RecoverBackends
<1>2. CASE StopPrevious \/ CompensateStop \/ StartupStop \/ StopNext
  <2>1. \E p \in Profiles : \E s \in StopOutcomes(p) : net' = s.net
    BY <1>2 DEF StopPrevious, CompensateStop, StartupStop, StopNext, IInv, TargetsKnown, Ops
  <2> QED
    BY <2>1, StopOutcomesAreSound
<1> QED
  BY <1>1, <1>2

(* Any step: the network grows only by one tunnel on an empty network, or  *)
(* from outside between operations.                                        *)
LEMMA NetworkGrows ==
  ASSUME IInv, [Next]_vars
  PROVE  \/ Up(net') \subseteq Up(net)
         \/ /\ Up(net) = {} /\ life'.state # "disconnected"
            /\ \E p \in Profiles : Up(net') \subseteq {p}
         \/ May("external") /\ op = Idle
<1> USE InvFacts
<1>1. CASE Request
  BY <1>1 DEF Request, Connect, Remove, Import, Disconnect, SetPreferences
<1>2. CASE Proceed
  <2>1. CASE UNCHANGED net
    BY <2>1
  <2>2. \/ UNCHANGED net
        \/ StartTarget \/ RestorePrevious \/ CompensateStart \/ StartupStart
        \/ StopPrevious \/ CompensateStop \/ StartupStop \/ StopNext \/ RecoverBackends
    BY <1>2 DEF Proceed, RecordActive, ForgetConnection, RecordTarget, CompensateStore, AllStopped,
                ClearConnection, StartupForget, StartupRecord, StartupRepair, ExitRecord
  <2> QED
    BY <2>1, <2>2, StartsGrowFromNothing, StopsShrink
<1>3. CASE StartupBegin
  BY <1>3 DEF StartupBegin
<1>4. ASSUME NEW e \in Events, HandleExit(e) PROVE UNCHANGED net
  BY <1>4 DEF HandleExit
<1>5. CASE Network
  <2>1. ASSUME NEW c \in Copies, Report(c) PROVE Up(net') \subseteq Up(net)
    BY <2>1, ReapedIsSound DEF Report
  <2>2. CASE Exit \/ Wither \/ \E w \in WireGuard : Drop(w)
    BY <2>2, NetworkStepsAreSound DEF Exit, Wither, Drop
  <2>3. ASSUME NEW w \in WireGuard, Raise(w) PROVE May("external") /\ op = Idle
    BY <2>3 DEF Raise
  <2> QED
    BY <1>5, <2>1, <2>2, <2>3 DEF Network
<1>6. CASE DaemonEnds \/ MachineStops
  BY <1>6, NetworkStepsAreSound DEF DaemonEnds, MachineStops
<1>7. CASE UNCHANGED vars
  BY <1>7 DEF vars
<1> QED
  BY <1>1, <1>2, <1>3, <1>4, <1>5, <1>6, <1>7 DEF Next

(* How a disconnection comes to be reported: on a network that was seen or *)
(* left empty.                                                             *)
LEMMA DisconnectionIsProved ==
  ASSUME IInv, [Next]_vars, life'.state = "disconnected", reconciled'
  PROVE  Up(net') = {} \/ (life' = life /\ reconciled' = reconciled)
<1> USE InvFacts
<1>1. \A state, p : Finish(state, p) => life'.state = state
  BY DEF Finish, Life
<1>2. \A state, p : Life(state, p).state = state
  BY DEF Life
<1>3. CASE Request
  <2>1. ASSUME NEW p \in Profiles, Connect(p) PROVE life' = life /\ reconciled' = reconciled
    <3>1. \/ Finish("failed", p) \/ Finish("state_conflict", p) \/ UNCHANGED life
          \/ life' = Life("starting", p) \/ life' = Life("switching", p)
      BY <2>1, Zenon DEF Connect
    <3>2. life' = life \/ life'.state # "disconnected"
      BY <1>1, <1>2, <3>1
    <3> QED
      BY <2>1, <3>2 DEF Connect
  <2>2. CASE Disconnect
    BY <1>1, <1>2, <2>2 DEF Disconnect
  <2> QED
    BY <1>3, <2>1, <2>2 DEF Request, Remove, Import, SetPreferences
<1>4. CASE Proceed
  <2>1. CASE ClearConnection
    BY <2>1 DEF ClearConnection, IInv, NetworkKnown
  <2>2. CASE StartupForget
    BY <2>2 DEF StartupForget, IInv, NetworkKnown
  <2>3. CASE RecordActive \/ StopPrevious \/ StartTarget \/ RestorePrevious
             \/ ForgetConnection \/ RecordTarget
    BY <1>1, <2>3 DEF RecordActive, StopPrevious, StartTarget, RestorePrevious, ForgetConnection,
                      RecordTarget
  <2>4. CASE CompensateStop \/ CompensateStart \/ CompensateStore \/ RecoverBackends
             \/ StopNext \/ AllStopped
    BY <1>1, <2>4 DEF CompensateStop, CompensateStart, CompensateStore, RecoverBackends,
                      StopNext, AllStopped
  <2>5. CASE StartupStart \/ StartupRecord \/ StartupStop \/ StartupRepair \/ ExitRecord
    BY <1>1, <2>5 DEF StartupStart, StartupRecord, StartupStop, StartupRepair, ExitRecord
  <2> QED
    BY <1>4, <2>1, <2>2, <2>3, <2>4, <2>5 DEF Proceed
<1>5. CASE StartupBegin
  <2>1. PICK s \in Observations(net, Installed) :
          \/ s.result # "ok" /\ Finish("state_conflict", None)
          \/ \E p \in s.active : Finish(IF p = lib.mem.desired THEN "active" ELSE "state_conflict", p)
          \/ s.result = "ok" /\ s.active = {}
    BY <1>5 DEF StartupBegin
  <2>2. s.result = "ok" => Up(net) \subseteq s.active
    BY ObservationsSeeAll
  <2> QED
    BY <1>1, <1>5, <2>1, <2>2 DEF StartupBegin
<1>6. ASSUME NEW e \in Events, HandleExit(e) PROVE life' = life /\ reconciled' = reconciled
  BY <1>1, <1>6 DEF HandleExit
<1>7. CASE Network
  BY <1>7 DEF Network, Exit, Wither, Report, Drop, Raise
<1>8. CASE DaemonEnds \/ MachineStops
  BY <1>8 DEF DaemonEnds, MachineStops, Restarted
<1>9. CASE UNCHANGED vars
  BY <1>9 DEF vars
<1> QED
  BY <1>3, <1>4, <1>5, <1>6, <1>7, <1>8, <1>9 DEF Next

-----------------------------------------------------------------------------
(* A tunnel that comes up while an operation holds the gate comes up on an *)
(* empty network: Connect's switch, its restoration of the previous tunnel *)
(* and ReconcileStartup never run two, whatever fails and whatever others  *)
(* have raised.                                                            *)
THEOREM OperationsStartAlone == Spec => StartsAlone
<1>1. IInv /\ [Next]_vars
        => [op # Idle => \A p \in Up(net') \ Up(net) : Up(net') = {p}]_vars
  BY NetworkGrows
<1> QED
  BY <1>1, InductiveInvariant, PTL DEF Spec, StartsAlone

(* Disconnect reports success only when every stop was proved and nothing  *)
(* is left up.                                                             *)
THEOREM DisconnectIsComplete == Spec => DisconnectEndsDown
<1>1. IInv /\ [Next]_vars
        => [life.state = "disconnecting" /\ life'.state = "disconnected" /\ reconciled'
              => Up(net') = {}]_vars
  BY DisconnectionIsProved
<1> QED
  BY <1>1, InductiveInvariant, PTL DEF Spec, DisconnectEndsDown

(* If nobody else raises tunnels, there is never more than one: across     *)
(* switches, failed and unproved starts and stops, compensation, restarts. *)
THEOREM OneTunnel ==
  ASSUME ~May("external") PROVE Spec => []AtMostOneTunnel
<1>1. Init => AtMostOneTunnel
  BY DEF Init, NothingRuns, NoProc, Up, AtMostOneTunnel
<1>2. IInv /\ AtMostOneTunnel /\ [Next]_vars => AtMostOneTunnel'
  BY NetworkGrows DEF AtMostOneTunnel
<1> QED
  BY <1>1, <1>2, InductiveInvariant, PTL DEF Spec

(* If nobody else raises tunnels, the lifecycle is never disconnected while*)
(* a tunnel or the remains of one are up, once startup has been reconciled.*)
THEOREM DisconnectedIsTrue ==
  ASSUME ~May("external") PROVE Spec => []DisconnectedIsDown
<1>1. Init => DisconnectedIsDown
  BY DEF Init, DisconnectedIsDown
<1>2. IInv /\ DisconnectedIsDown /\ [Next]_vars => DisconnectedIsDown'
  BY NetworkGrows, DisconnectionIsProved DEF DisconnectedIsDown
<1> QED
  BY <1>1, <1>2, InductiveInvariant, PTL DEF Spec
-----------------------------------------------------------------------------
(* How long an operation can hold the gate: the provable half of its being *)
(* given back.  Each step of an operation is one the code's control flow   *)
(* cannot come back to, except that a disconnection stops each tunnel it   *)
(* has observed once.                                                      *)

(* The steps an operation can still take.                                  *)
StepsLeft(o) ==
  CASE o.step \in {"recordActive", "forget", "compensateStore", "clear",
                   "startupRepair", "exitRecord"} -> 1
    [] o.step \in {"restore", "compensateStart", "startupStop"} -> 2
    [] o.step \in {"compensateStop", "startupRecord"} -> 3
    [] o.step \in {"record", "startupStart"} -> 4
    [] o.step \in {"start", "startupForget"} -> 5
    [] o.step = "stopPrevious" -> 6
    [] o.step = "stopAll" -> 2 + Cardinality(o.toStop)
    [] o.step = "recover" -> 3 + Cardinality(Profiles)
    [] OTHER -> 0

(* An operation without a next step is none.                               *)
GateFreed == op.step = "idle" => op = Idle

(* Six steps for a Connect, and three for a Disconnect beside its stops.   *)
HeldForAWhile ==
  /\ StepsLeft(op) \in 0..(6 + Cardinality(Profiles))
  /\ StepsLeft(op) = 0 <=> op = Idle

(* Nobody else's step prolongs the operation in progress, and each of its  *)
(* own shortens it.                                                        *)
OnlyGoesOn ==
  [][/\ Proceed => StepsLeft(op') < StepsLeft(op)
     /\ op # Idle => op' = op \/ StepsLeft(op') < StepsLeft(op)]_vars

(* What StepsLeft returns, step by step.                                   *)
LEMMA StepsCounted ==
  ASSUME NEW o \in Ops
  PROVE  /\ StepsLeft(o) \in 0..(6 + Cardinality(Profiles))
         /\ StepsLeft(o) = 0 <=> o.step = "idle"
         /\ o.step = "stopAll" => StepsLeft(o) = 2 + Cardinality(o.toStop)
         /\ o.step = "recover" => StepsLeft(o) = 3 + Cardinality(Profiles)
         /\ Cardinality(o.toStop) \in 0..Cardinality(Profiles)
<1>1. /\ IsFiniteSet(o.toStop) /\ o.step \in Steps
      /\ Cardinality(o.toStop) <= Cardinality(Profiles)
  BY FiniteAssumption, FS_Subset DEF Ops
<1>2. Cardinality(o.toStop) \in Nat /\ Cardinality(Profiles) \in Nat
  BY <1>1, FiniteAssumption, FS_CardinalityType
<1> QED
  BY <1>1, <1>2 DEF StepsLeft, Steps

(* Two operations at the same step, unless they are stopping tunnels, have *)
(* the same number of steps left.                                          *)
LEMMA StepsOf ==
  ASSUME NEW o
  PROVE  /\ o.step \in {"recordActive", "forget", "compensateStore", "clear",
                        "startupRepair", "exitRecord"} => StepsLeft(o) = 1
         /\ o.step \in {"restore", "compensateStart", "startupStop"} => StepsLeft(o) = 2
         /\ o.step \in {"compensateStop", "startupRecord"} => StepsLeft(o) = 3
         /\ o.step \in {"record", "startupStart"} => StepsLeft(o) = 4
         /\ o.step \in {"start", "startupForget"} => StepsLeft(o) = 5
         /\ o.step = "stopPrevious" => StepsLeft(o) = 6
         /\ o.step = "idle" => StepsLeft(o) = 0
BY DEF StepsLeft

(* A step that moves the operation on without touching its stops.          *)
LEMMA GoingOn ==
  ASSUME NEW step \in Steps, NEW errs, op \in Ops,
         op' = [op EXCEPT !.step = step] \/ op' = [op EXCEPT !.step = step, !.errs = errs]
  PROVE  op'.step = step
BY DEF Ops

LEMMA EndingFrees ==
  ASSUME NEW state, NEW profile, Finish(state, profile)
  PROVE  op' = Idle /\ op'.step = "idle" /\ StepsLeft(op') = 0
BY StepsOf DEF Finish, Idle, Op

(* RestoreDesired ends the startup or leaves it four steps.                *)
LEMMA RestoringCounts ==
  ASSUME NEW manifest, RestoreDesired(manifest)
  PROVE  op' = Idle \/ op'.step = "startupStart"
BY EndingFrees DEF RestoreDesired, Op

(* Disconnect's tunnels: each is stopped once.                             *)
LEMMA StopsCounted ==
  ASSUME IInv, StopNext \/ AllStopped \/ RecoverBackends
  PROVE  StepsLeft(op') < StepsLeft(op) /\ GateFreed'
<1>1. op \in Ops
  BY DEF IInv, TypeOK
<1>2. CASE StopNext
  <2>1. PICK p \in op.toStop : \E s \in StopOutcomes(p) :
          op' = [op EXCEPT !.toStop = @ \ {p}, !.errs = IF s.ok THEN @ ELSE {"stop"}]
    BY <1>2 DEF StopNext
  <2>2. op.step = "stopAll"
    BY <1>2 DEF StopNext
  <2>3. op' \in Ops /\ op'.step = "stopAll" /\ op'.toStop = op.toStop \ {p}
    <3>1. PICK e : op' = [op EXCEPT !.toStop = op.toStop \ {p}, !.errs = e]
      BY <2>1
    <3>2. op'.step = op.step /\ op'.toStop = op.toStop \ {p}
      BY <1>1, <3>1 DEF Ops
    <3> QED
      BY <1>2, <2>2, <3>2, StopNextKeepsInv DEF IInv, TypeOK
  <2>4. IsFiniteSet(op.toStop)
    BY <1>1, FiniteAssumption, FS_Subset DEF Ops
  <2>5. Cardinality(op'.toStop) = Cardinality(op.toStop) - 1
    BY <2>3, <2>4, FS_RemoveElement
  <2>6. Cardinality(op.toStop) \in Nat
    BY <2>4, FS_CardinalityType
  <2>7. /\ StepsLeft(op) = 2 + Cardinality(op.toStop)
        /\ StepsLeft(op') = 2 + Cardinality(op'.toStop)
    BY <1>1, <2>2, <2>3, StepsCounted
  <2>8. StepsLeft(op') < StepsLeft(op)
    BY <2>5, <2>6, <2>7
  <2> QED
    BY <2>3, <2>8 DEF GateFreed
<1>3. CASE AllStopped
  <2>1. op.step = "stopAll" /\ StepsLeft(op) >= 2
    BY <1>1, <1>3, StepsCounted DEF AllStopped
  <2>2. op' = Idle \/ op'.step = "clear"
    BY <1>1, <1>3, EndingFrees, GoingOn DEF AllStopped, Goto, Steps
  <2>3. StepsLeft(op') \in {0, 1}
    BY <2>2, StepsOf DEF Idle, Op
  <2>4. StepsLeft(op) \in Int
    BY <1>1, StepsCounted, FS_CardinalityType, FiniteAssumption
  <2>5. StepsLeft(op') < StepsLeft(op)
    BY <2>1, <2>3, <2>4
  <2> QED
    BY <2>2, <2>5 DEF GateFreed
<1>4. CASE RecoverBackends
  <2>1. op.step = "recover" /\ StepsLeft(op) = 3 + Cardinality(Profiles)
    BY <1>1, <1>4, StepsCounted DEF RecoverBackends
  <2>2. Cardinality(Profiles) \in Nat
    BY FiniteAssumption, FS_CardinalityType
  <2>3. op' = Idle \/ (op'.step = "stopAll" /\ op' \in Ops)
    BY <1>4, EndingFrees, RecoverKeepsInv
       DEF RecoverBackends, StopObserved, Op, IInv, TypeOK
  <2>4. StepsLeft(op') \in 0..(2 + Cardinality(Profiles))
    <3>1. CASE op' = Idle
      BY <2>2, <3>1, StepsOf DEF Idle, Op
    <3>2. CASE op'.step = "stopAll" /\ op' \in Ops
      BY <2>2, <3>2, StepsCounted
    <3> QED
      BY <2>3, <3>1, <3>2
  <2>5. StepsLeft(op') < StepsLeft(op)
    BY <2>1, <2>2, <2>4
  <2> QED
    BY <2>3, <2>5 DEF GateFreed
<1> QED
  BY <1>2, <1>3, <1>4

(* The steps of Connect, of the startup and of an exit.                    *)
LEMMA ConnectionCounts ==
  ASSUME op \in Ops,
         \/ RecordActive \/ StopPrevious \/ StartTarget \/ RestorePrevious \/ ForgetConnection
         \/ RecordTarget \/ CompensateStop \/ CompensateStart \/ CompensateStore
         \/ ClearConnection
  PROVE  StepsLeft(op') < StepsLeft(op) /\ GateFreed'
<1>1. Idle.step = "idle"
  BY DEF Idle, Op
<1>2. CASE RecordActive \/ ForgetConnection \/ CompensateStore \/ ClearConnection
  <2>1. op' = Idle /\ StepsLeft(op') = 0
    BY <1>2, EndingFrees
       DEF RecordActive, ForgetConnection, CompensateStore, ClearConnection
  <2>2. StepsLeft(op) = 1
    BY <1>2, StepsOf DEF RecordActive, ForgetConnection, CompensateStore, ClearConnection
  <2> QED
    BY <2>1, <2>2 DEF GateFreed
<1>3. CASE StopPrevious
  <2>0. op.step = "stopPrevious"
    BY <1>3 DEF StopPrevious
  <2>1. op' = Idle \/ op'.step = "start"
    BY <1>3, EndingFrees, GoingOn DEF StopPrevious, Goto, Steps
  <2> QED
    BY <1>1, <2>0, <2>1, StepsOf DEF GateFreed
<1>4. CASE StartTarget
  <2>1. \A result : AfterFailedStart(result) \in {"forget", "restore", "idle"}
    BY DEF AfterFailedStart
  <2>0. op.step = "start"
    BY <1>4 DEF StartTarget
  <2>2. op' = Idle \/ op'.step \in {"record", "forget", "restore"}
    BY <1>4, <2>1, EndingFrees, GoingOn DEF StartTarget, Goto, Steps
  <2> QED
    BY <1>1, <2>0, <2>2, StepsOf DEF GateFreed
<1>5. CASE RestorePrevious
  <2>0. op.step = "restore"
    BY <1>5 DEF RestorePrevious
  <2>1. op' = Idle \/ op'.step = "forget"
    BY <1>5, EndingFrees, GoingOn DEF RestorePrevious, Steps
  <2> QED
    BY <1>1, <2>0, <2>1, StepsOf DEF GateFreed
<1>6. CASE RecordTarget
  <2>0. op.step = "record"
    BY <1>6 DEF RecordTarget
  <2>1. op' = Idle \/ op'.step = "compensateStop"
    BY <1>6, EndingFrees, GoingOn DEF RecordTarget, Goto, Steps
  <2> QED
    BY <1>1, <2>0, <2>1, StepsOf DEF GateFreed
<1>7. CASE CompensateStop
  <2>0. op.step = "compensateStop"
    BY <1>7 DEF CompensateStop
  <2>1. op'.step \in {"compensateStart", "compensateStore"}
    BY <1>7, GoingOn DEF CompensateStop, Steps
  <2> QED
    BY <1>1, <2>0, <2>1, StepsOf DEF GateFreed
<1>8. CASE CompensateStart
  <2>0. op.step = "compensateStart"
    BY <1>8 DEF CompensateStart
  <2>1. op'.step = "compensateStore"
    BY <1>8, GoingOn DEF CompensateStart, Steps
  <2> QED
    BY <1>1, <2>0, <2>1, StepsOf DEF GateFreed
<1> QED
  BY <1>2, <1>3, <1>4, <1>5, <1>6, <1>7, <1>8

LEMMA StartupCounts ==
  ASSUME op \in Ops,
         StartupForget \/ StartupStart \/ StartupRecord \/ StartupStop \/ StartupRepair \/ ExitRecord
  PROVE  StepsLeft(op') < StepsLeft(op) /\ GateFreed'
<1>1. Idle.step = "idle"
  BY DEF Idle, Op
<1>2. CASE StartupRepair \/ ExitRecord
  <2>1. op' = Idle /\ StepsLeft(op') = 0
    BY <1>2, EndingFrees DEF StartupRepair, ExitRecord
  <2>2. StepsLeft(op) = 1
    BY <1>2, StepsOf DEF StartupRepair, ExitRecord
  <2> QED
    BY <2>1, <2>2 DEF GateFreed
<1>3. CASE StartupForget
  <2>0. op.step = "startupForget"
    BY <1>3 DEF StartupForget
  <2>1. op' = Idle \/ op'.step = "startupStart"
    BY <1>3, EndingFrees, RestoringCounts DEF StartupForget
  <2> QED
    BY <1>1, <2>0, <2>1, StepsOf DEF GateFreed
<1>4. CASE StartupStart
  <2>0. op.step = "startupStart"
    BY <1>4 DEF StartupStart
  <2>1. op' = Idle \/ op'.step = "startupRecord"
    BY <1>4, EndingFrees, GoingOn DEF StartupStart, Goto, Steps
  <2> QED
    BY <1>1, <2>0, <2>1, StepsOf DEF GateFreed
<1>5. CASE StartupRecord
  <2>0. op.step = "startupRecord"
    BY <1>5 DEF StartupRecord
  <2>1. op' = Idle \/ op'.step = "startupStop"
    BY <1>5, EndingFrees, GoingOn DEF StartupRecord, Goto, Steps
  <2> QED
    BY <1>1, <2>0, <2>1, StepsOf DEF GateFreed
<1>6. CASE StartupStop
  <2>0. op.step = "startupStop"
    BY <1>6 DEF StartupStop
  <2>1. op'.step = "startupRepair"
    BY <1>6, GoingOn DEF StartupStop, Steps
  <2> QED
    BY <1>1, <2>0, <2>1, StepsOf DEF GateFreed
<1> QED
  BY <1>2, <1>3, <1>4, <1>5, <1>6

(* Every step of an operation that holds the gate shortens it.             *)
LEMMA ProceedCounts ==
  ASSUME IInv, Proceed PROVE StepsLeft(op') < StepsLeft(op) /\ GateFreed'
<1>1. op \in Ops
  BY DEF IInv, TypeOK
<1> QED
  BY <1>1, StopsCounted, ConnectionCounts, StartupCounts DEF Proceed

(* Every other step finds the gate free, leaves the operation alone, or    *)
(* restarts the daemon.                                                    *)
LEMMA OthersWait ==
  ASSUME IInv, [Next]_vars, ~Proceed
  PROVE  /\ op = Idle \/ op' = op \/ op' = Idle
         /\ op' = op \/ op' = Idle \/ op'.step # "idle"
<1>1. CASE Request
  <2>1. ASSUME NEW p \in Profiles, Connect(p)
        PROVE  op = Idle /\ (op' = Idle \/ op'.step # "idle")
    BY <2>1, EndingFrees DEF Connect, Admitted, Op
  <2>2. CASE Disconnect
    BY <2>2, EndingFrees DEF Disconnect, Admitted, StopObserved, Op
  <2> QED
    BY <1>1, <2>1, <2>2 DEF Request, Remove, Import, SetPreferences
<1>2. CASE StartupBegin
  <2>1. op = Idle
    BY <1>2 DEF StartupBegin
  <2>2. PICK s \in Observations(net, Installed) :
          \/ Finish("state_conflict", None)
          \/ \E p \in s.active :
               Finish(IF p = lib.mem.desired THEN "active" ELSE "state_conflict", p)
          \/ op' = Op("startupForget", None, None)
          \/ RestoreDesired(lib.mem)
    BY <1>2 DEF StartupBegin
  <2>3. op' = Idle \/ op'.step # "idle"
    BY <2>2, EndingFrees, RestoringCounts DEF Op
  <2> QED
    BY <2>1, <2>3
<1>3. ASSUME NEW e \in Events, HandleExit(e)
      PROVE  op = Idle /\ (op' = op \/ op' = Idle \/ op'.step # "idle")
  <2>1. \/ op' = op
        \/ \E state, p : Finish(state, p)
        \/ op' = Op("exitRecord", e.profile, None)
    BY <1>3 DEF HandleExit
  <2> QED
    BY <1>3, <2>1, EndingFrees DEF HandleExit, Op
<1>4. CASE Network
  BY <1>4 DEF Network, Exit, Wither, Report, Drop, Raise
<1>5. CASE DaemonEnds \/ MachineStops
  BY <1>5 DEF DaemonEnds, MachineStops, Restarted
<1>6. CASE UNCHANGED vars
  BY <1>6 DEF vars
<1> QED
  BY <1>1, <1>2, <1>3, <1>4, <1>5, <1>6 DEF Next

(* An operation of n profiles holds the gate for at most six more steps    *)
(* than n, whatever fails meanwhile: every step of it brings its end       *)
(* nearer and no step of anybody else puts it off.  With a step always     *)
(* possible and taken, this is why the gate is given back.                 *)
THEOREM OperationsAreBounded == Spec => []HeldForAWhile /\ OnlyGoesOn
<1>1. Init => GateFreed
  BY DEF Init, GateFreed
<1>2. IInv /\ GateFreed /\ [Next]_vars => GateFreed'
  BY ProceedCounts, OthersWait DEF GateFreed
<1>3. IInv /\ GateFreed => HeldForAWhile
  <2>1. Idle.step = "idle"
    BY DEF Idle, Op
  <2> QED
    BY <2>1, StepsCounted DEF IInv, TypeOK, GateFreed, HeldForAWhile
<1>4. IInv /\ GateFreed /\ [Next]_vars
        => [/\ Proceed => StepsLeft(op') < StepsLeft(op)
            /\ op # Idle => op' = op \/ StepsLeft(op') < StepsLeft(op)]_vars
  <2> SUFFICES ASSUME IInv, GateFreed, [Next]_vars
               PROVE  /\ Proceed => StepsLeft(op') < StepsLeft(op)
                      /\ op # Idle => op' = op \/ StepsLeft(op') < StepsLeft(op)
    OBVIOUS
  <2>1. CASE Proceed
    BY <2>1, ProceedCounts
  <2>2. CASE ~Proceed
    <3>1. op # Idle => StepsLeft(op) > 0
      BY <1>3 DEF HeldForAWhile
    <3>2. op' = Idle => StepsLeft(op') = 0
      BY StepsOf DEF Idle, Op
    <3> QED
      BY <2>2, <3>1, <3>2, OthersWait
  <2> QED
    BY <2>1, <2>2
<1> QED
  BY <1>1, <1>2, <1>3, <1>4, InductiveInvariant, PTL DEF Spec, OnlyGoesOn
-----------------------------------------------------------------------------
(* Status beside the operations.  While a request is under way, nothing    *)
(* has come up beside what was up and something has always been up: what   *)
(* is up now has been up since the request began.  So the manifest it read *)
(* lists it, and if it is an OpenVPN profile's the request has seen one.   *)
PollKnows ==
  /\ poll \in Polls
  /\ UnderWay /\ ~poll.empty /\ ~poll.beside =>
       /\ Up(net) # {}
       /\ poll.phase # "library" => Up(net) \subseteq poll.installed
       /\ poll.phase = "interfaces" => poll.seen # {} \/ Up(net) \cap OpenVPN = {}
  /\ DownWasTrue

(* What is up of OpenVPN is the supervisor's process.                      *)
LEMMA UpByProtocol ==
  ASSUME IInv
  PROVE  /\ net.wg = Up(net) \cap WireGuard
         /\ net.proc.state \in {"none", "gone"} => Up(net) \cap OpenVPN = {}
         /\ Up(net) \subseteq OpenVPN \cup WireGuard
<1>1. net \in Nets /\ OpenVPN \cap WireGuard = {}
  BY ProfilesAssumption DEF IInv, TypeOK
<1>2. net.proc.state \in {"running", "leaving", "stuck"} => net.proc.profile \in OpenVPN
  BY <1>1 DEF Nets, Procs, NoProc
<1> QED
  BY <1>1, <1>2 DEF Up, Nets

LEMMA NoPollIsOne == NoPoll \in Polls
BY DEF NoPoll, Polls, Phases, Lifecycles, Answers

LEMMA AnswerKeepsPoll ==
  ASSUME PollKnows, UnderWay, NEW state \in Answers, Answer(state),
         state \in {"disconnected", "failed"} => poll.empty \/ poll.beside
  PROVE  PollKnows'
<1>1. poll' \in Polls /\ poll'.phase = "answered" /\ poll'.answer = state
      /\ poll'.empty = poll.empty /\ poll'.beside = poll.beside
  BY NoPollIsOne DEF Answer, PollKnows, Polls, Phases
<1> QED
  BY <1>1 DEF PollKnows, UnderWay, DownWasTrue

LEMMA ReadLifecycleKeepsPoll ==
  ASSUME IInv, PollKnows, ReadLifecycle, UNCHANGED vars PROVE PollKnows'
<1>1. life.state \in Lifecycles
  BY DEF IInv, TypeOK
<1>2. CASE life.state \in Outright
  <2>1. /\ poll' \in Polls /\ poll'.phase = "answered" /\ poll'.answer = life.state
    BY <1>1, <1>2, NoPollIsOne DEF ReadLifecycle, Polls, Phases, Answers
  <2> QED
    BY <1>2, <2>1 DEF PollKnows, Outright, UnderWay, DownWasTrue
<1>3. CASE life.state \notin Outright
  <2>1. /\ poll' \in Polls /\ poll'.phase = "library"
        /\ ~poll'.empty => Up(net) # {}
    BY <1>1, <1>3 DEF ReadLifecycle, NoPoll, Polls, Phases, Answers, Lifecycles
  <2> QED
    BY <2>1 DEF PollKnows, UnderWay, DownWasTrue, vars
<1> QED
  BY <1>2, <1>3

LEMMA ReadLibraryKeepsPoll ==
  ASSUME IInv, PollKnows, ReadLibrary, UNCHANGED vars PROVE PollKnows'
<1>1. Installed \subseteq Profiles /\ lib.mem.desired \in Profiles \cup {None}
      /\ Up(net) \subseteq Installed
  BY DEF IInv, TypeOK, Libraries, Manifests, NetworkSeen, Installed
<1>2. /\ poll' \in Polls /\ poll'.phase \in {"interfaces", "process"}
      /\ poll'.phase = "interfaces" => OpenVPN \cap Installed = {}
      /\ poll'.installed = Installed /\ poll'.empty = poll.empty /\ poll'.beside = poll.beside
  BY <1>1 DEF ReadLibrary, PollKnows, Polls, Phases
<1> QED
  BY <1>1, <1>2 DEF ReadLibrary, PollKnows, UnderWay, DownWasTrue, vars

LEMMA ReadProcessKeepsPoll ==
  ASSUME IInv, PollKnows, ReadProcess, UNCHANGED vars PROVE PollKnows'
<1>1. CASE net.proc.state = "stuck"
  BY <1>1, AnswerKeepsPoll DEF ReadProcess, UnderWay, Answers
<1>2. CASE net.proc.state # "stuck"
  <2>1. /\ poll' \in Polls /\ poll'.phase \in {"interfaces", "owner"}
        /\ poll'.phase = "interfaces" => net.proc.state \in {"none", "gone"}
        /\ poll'.installed = poll.installed
        /\ poll'.empty = poll.empty /\ poll'.beside = poll.beside
    BY <1>2 DEF ReadProcess, PollKnows, Polls, Phases
  <2> QED
    BY <2>1, UpByProtocol DEF ReadProcess, PollKnows, UnderWay, DownWasTrue, vars
<1> QED
  BY <1>1, <1>2

LEMMA ReadOwnerKeepsPoll ==
  ASSUME IInv, PollKnows, ReadOwner, UNCHANGED vars PROVE PollKnows'
<1>1. CASE net.owner.profile \notin poll.installed
  BY <1>1, AnswerKeepsPoll DEF ReadOwner, UnderWay, Answers, Lifecycles
<1>2. CASE net.owner.profile \in poll.installed
  <2>1. poll \in Polls /\ {net.owner.profile} \in SUBSET Profiles
    <3>1. poll \in Polls /\ poll.installed \in SUBSET Profiles
      BY DEF PollKnows, Polls
    <3> QED
      BY <1>2, <3>1
  <2>2. /\ poll' \in Polls /\ poll'.phase = "interfaces" /\ poll'.seen # {}
        /\ poll'.installed = poll.installed
        /\ poll'.empty = poll.empty /\ poll'.beside = poll.beside
    <3> DEFINE owner == net.owner.profile
    <3>1. /\ poll' = [poll EXCEPT !.phase = "interfaces", !.seen = {owner}]
          /\ {owner} \in SUBSET Profiles
      BY <1>2, <2>1 DEF ReadOwner
    <3> HIDE DEF owner
    <3> QED
      BY <2>1, <3>1 DEF Polls, Phases
  <2> QED
    BY <2>2 DEF ReadOwner, PollKnows, UnderWay, DownWasTrue, vars
<1> QED
  BY <1>1, <1>2

(* The answer: it says that nothing is up only when no protocol was seen   *)
(* to be, which what has been up since the request began rules out.        *)
LEMMA ReadInterfacesKeepsPoll ==
  ASSUME IInv, PollKnows, ReadInterfaces, UNCHANGED vars PROVE PollKnows'
<1> DEFINE active == poll.seen \cup WireGuardSeen(net, poll.installed).active
<1>1. CASE Answer(Verdict(active))
  <2>1. Verdict(active) \in Answers
    BY DEF Verdict, Answers, Lifecycles
  <2>2. Verdict(active) \in {"disconnected", "failed"} => active = {}
    BY DEF Verdict
  <2>3. active = {} => poll.seen = {} /\ Up(net) \cap WireGuard \cap poll.installed = {}
    BY UpByProtocol DEF WireGuardSeen, Seen
  <2>4. active = {} => poll.empty \/ poll.beside
    BY <2>3, UpByProtocol DEF ReadInterfaces, PollKnows, UnderWay
  <2> HIDE DEF active
  <2> QED
    BY <1>1, <2>1, <2>2, <2>4, AnswerKeepsPoll DEF ReadInterfaces, UnderWay
<1>2. CASE \E state \in {"observation_unavailable", "state_conflict"} : Answer(state)
  BY <1>2, AnswerKeepsPoll DEF ReadInterfaces, UnderWay, Answers, Lifecycles
<1> QED
  BY <1>1, <1>2 DEF ReadInterfaces

(* Whatever goes on meanwhile.                                             *)
LEMMA MeanwhileKeepsPoll == ASSUME PollKnows, Meanwhile PROVE PollKnows'
<1>1. CASE poll' = NoPoll
  BY <1>1 DEF NoPoll, PollKnows, Polls, Phases, Lifecycles, Answers, UnderWay, DownWasTrue
<1>2. CASE ~UnderWay /\ poll' = poll
  BY <1>2 DEF PollKnows, UnderWay, DownWasTrue
<1>3. CASE /\ UnderWay
           /\ poll' = [poll EXCEPT !.empty = @ \/ Up(net') = {},
                          !.beside = @ \/ (Up(net) # {} /\ ~(Up(net') \subseteq Up(net)))]
  <2>1. /\ poll' \in Polls /\ poll'.phase = poll.phase
        /\ poll'.installed = poll.installed /\ poll'.seen = poll.seen
        /\ poll'.empty = (poll.empty \/ Up(net') = {})
        /\ poll'.beside = (poll.beside \/ (Up(net) # {} /\ ~(Up(net') \subseteq Up(net))))
    BY <1>3 DEF PollKnows, Polls
  <2> QED
    BY <1>3, <2>1 DEF PollKnows, UnderWay, DownWasTrue
<1> QED
  BY <1>1, <1>2, <1>3 DEF Meanwhile

(* Beside a request the manager does what it does without one.             *)
LEMMA PollingKeepsInv == ASSUME IInv, [Poll \/ Meanwhile]_pollVars PROVE IInv'
BY NextKeepsInv, StutterKeepsInv DEF Poll, Meanwhile, pollVars

LEMMA InvariantWhilePolled == PollSpec => []IInv
<1>1. PollInit => IInv
  BY InitSatisfiesInv DEF PollInit
<1> QED
  BY <1>1, PollingKeepsInv, PTL DEF PollSpec

LEMMA WhatPollsKnow == PollSpec => []PollKnows
<1>1. PollInit => PollKnows
  BY DEF PollInit, NoPoll, PollKnows, Polls, Phases, Lifecycles, Answers, UnderWay, DownWasTrue
<1>2. IInv /\ PollKnows /\ [Poll \/ Meanwhile]_pollVars => PollKnows'
  <2> SUFFICES ASSUME IInv, PollKnows, [Poll \/ Meanwhile]_pollVars PROVE PollKnows'
    OBVIOUS
  <2>1. CASE Poll
    BY <2>1, ReadLifecycleKeepsPoll, ReadLibraryKeepsPoll, ReadProcessKeepsPoll,
       ReadOwnerKeepsPoll, ReadInterfacesKeepsPoll DEF Poll
  <2>2. CASE Meanwhile
    BY <2>2, MeanwhileKeepsPoll
  <2>3. CASE UNCHANGED pollVars
    BY <2>3 DEF pollVars, vars, PollKnows, UnderWay, DownWasTrue
  <2> QED
    BY <2>1, <2>2, <2>3
<1> QED
  BY <1>1, <1>2, InvariantWhilePolled, PTL DEF PollSpec

(* Whatever operations, failures and exits come between the reads of one   *)
(* Status, it says disconnected, or failed with nothing up, only if        *)
(* nothing was up at some moment since it was asked, unless a tunnel came  *)
(* up beside another.                                                      *)
THEOREM StatusTellsOfAMoment == PollSpec => []DownWasTrue
<1>1. PollKnows => DownWasTrue
  BY DEF PollKnows
<1> QED
  BY <1>1, WhatPollsKnow, PTL

(* That does not happen unless somebody else raises tunnels: no switch,    *)
(* compensation or startup makes a Status say that nothing is up if        *)
(* something was up all the time.                                          *)
NeverBeside == UnderWay \/ poll.phase = "answered" => ~poll.beside

DownWasSeen ==
  poll.phase = "answered" /\ poll.answer \in {"disconnected", "failed"} => poll.empty

LEMMA PollKeepsBeside == ASSUME PollKnows, NeverBeside, Poll PROVE NeverBeside'
<1>1. poll \in Polls
  BY DEF PollKnows
<1>2. poll'.beside = FALSE \/ (UnderWay /\ poll'.beside = poll.beside)
  BY <1>1 DEF Poll, ReadLifecycle, ReadLibrary, ReadProcess, ReadOwner, ReadInterfaces,
              Answer, NoPoll, Polls, UnderWay
<1> QED
  BY <1>2 DEF NeverBeside

THEOREM StatusIsNeverTorn ==
  ASSUME ~May("external") PROVE PollSpec => []DownWasSeen
<1>1. PollInit => NeverBeside
  BY DEF PollInit, NoPoll, NeverBeside, UnderWay
<1>2. IInv /\ PollKnows /\ NeverBeside /\ [Poll \/ Meanwhile]_pollVars => NeverBeside'
  <2> SUFFICES ASSUME IInv, PollKnows, NeverBeside, [Poll \/ Meanwhile]_pollVars
               PROVE  NeverBeside'
    OBVIOUS
  <2>1. CASE Poll
    BY <2>1, PollKeepsBeside
  <2>2. CASE Meanwhile
    <3>1. Up(net) # {} => Up(net') \subseteq Up(net)
      BY <2>2, NetworkGrows DEF Meanwhile
    <3>2. poll \in Polls /\ NoPoll.beside = FALSE
      BY DEF PollKnows, NoPoll
    <3> QED
      BY <2>2, <3>1, <3>2 DEF Meanwhile, NeverBeside, UnderWay, Polls
  <2>3. CASE UNCHANGED pollVars
    BY <2>3 DEF pollVars, NeverBeside, UnderWay
  <2> QED
    BY <2>1, <2>2, <2>3
<1>3. PollKnows /\ NeverBeside => DownWasSeen
  BY DEF PollKnows, NeverBeside, DownWasTrue, DownWasSeen
<1> QED
  BY <1>1, <1>2, <1>3, InvariantWhilePolled, WhatPollsKnow, PTL DEF PollSpec
=============================================================================

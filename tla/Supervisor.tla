----------------------------- MODULE Supervisor -----------------------------
(***************************************************************************)
(* The OpenVPN process supervisor, goroutine by goroutine: Activate and    *)
(* Deactivate called by the manager's operation, Shutdown called beside it *)
(* when the daemon ends, and for each process the goroutines that wait for *)
(* it and read its output.  Several of them may be stopping the same       *)
(* process, or an old one while a new one starts.                          *)
(*                                                                         *)
(* A process is its session: the leader the supervisor started and the     *)
(* others it has forked.  Each activation uses a process of its own.  A    *)
(* scan of /proc is one step, and may fail, which counts as "still there". *)
(* Source: src/internal/tunnel/openvpn.go.                                 *)
(***************************************************************************)
EXTENDS Naturals

CONSTANTS Procs,     \* the processes that may be started
          None,      \* no process
          Op,        \* the manager's operation, one at a time
          Shutdown   \* the daemon's shutdown

ASSUME ThreadsAssumption ==
  /\ None \notin Procs
  /\ Op # Shutdown
  /\ {Op, Shutdown} \cap Procs = {}

VARIABLES
  slot,       \* b.proc
  leader,     \* the leader of each process
  others,     \* the processes that have other members
  ready,      \* processes whose output showed the ready marker
  accepted,   \* processes Activate has accepted
  stopping,   \* processes some stopProcess has been called for
  call        \* the call each thread is in, or the result of its last one

vars == <<slot, leader, others, ready, accepted, stopping, call>>

(* The wait goroutine of a process goes by the name of the process.        *)
Threads == Procs \cup {Op, Shutdown}

LastStage == 3   \* interrupt, terminate, kill

-----------------------------------------------------------------------------
(* zombie: it has exited and cmd.Wait has not returned.  reaped: exited is *)
(* set and done is closed.                                                 *)
Leaders == {"unborn", "alive", "zombie", "reaped"}

(* select: Activate waits for readiness.  stop: in stopProcess, at its     *)
(* stage.  The others are results: a process stopped without proof is      *)
(* ErrCleanupUnproved for Activate, an error for Deactivate, and a report  *)
(* that says so for the wait goroutine.                                    *)
Calls == [at    : {"idle", "select", "stop", "accepted", "refused", "proved", "unproved"},
          proc  : Procs \cup {None},
          stage : 0..LastStage]

Call(at, proc) == [at |-> at, proc |-> proc, stage |-> 0]

Busy(t) == call[t].at \in {"select", "stop"}

(* ownedProcessGroupPresent.                                               *)
Present(i) == leader[i] \in {"alive", "zombie"} \/ i \in others

Stopped(i) == leader[i] = "reaped" /\ i \notin others

Init ==
  /\ slot = None
  /\ leader = [i \in Procs |-> "unborn"]
  /\ others = {} /\ ready = {} /\ accepted = {} /\ stopping = {}
  /\ call = [t \in Threads |-> Call("idle", None)]

-----------------------------------------------------------------------------
(* Activate takes the slot and starts the process, all under b.mu.         *)
Activate(i) ==
  /\ ~Busy(Op)
  /\ slot = None
  /\ leader[i] = "unborn"
  /\ slot' = i
  /\ leader' = [leader EXCEPT ![i] = "alive"]
  /\ call' = [call EXCEPT ![Op] = Call("select", i)]
  /\ UNCHANGED <<others, ready, accepted, stopping>>

(* A process is owned already, or the new one cannot be started, or cannot *)
(* be identified and is killed and waited for before b.mu is given back.   *)
ActivateRefused ==
  /\ ~Busy(Op)
  /\ call' = [call EXCEPT ![Op] = Call("refused", None)]
  /\ UNCHANGED <<slot, leader, others, ready, accepted, stopping>>

(* Mutant of Accept: does not look whether the process has exited.         *)
AcceptUnchecked ==
  /\ call[Op].at = "select"
  /\ call[Op].proc \in ready
  /\ accepted' = accepted \cup {call[Op].proc}
  /\ call' = [call EXCEPT ![Op].at = "accepted"]
  /\ UNCHANGED <<slot, leader, others, ready, stopping>>

(* The select takes the ready case and the process has not exited.         *)
Accept ==
  /\ call[Op].at = "select"
  /\ call[Op].proc \in ready
  /\ leader[call[Op].proc] # "reaped"
  /\ accepted' = accepted \cup {call[Op].proc}
  /\ call' = [call EXCEPT ![Op].at = "accepted"]
  /\ UNCHANGED <<slot, leader, others, ready, stopping>>

BeginStop(t, i) ==
  /\ stopping' = stopping \cup {i}
  /\ call' = [call EXCEPT ![t] = [at |-> "stop", proc |-> i, stage |-> 1]]

(* It takes another case: exited, timed out or cancelled; or it was ready  *)
(* and has exited.                                                         *)
StartFails ==
  /\ call[Op].at = "select"
  /\ BeginStop(Op, call[Op].proc)
  /\ UNCHANGED <<slot, leader, others, ready, accepted>>

(* Deactivate; Shutdown is the same call, made once.                       *)
Deactivate(t) ==
  /\ IF t = Op THEN ~Busy(t) ELSE call[t].at = "idle"
  /\ IF slot = None
     THEN call' = [call EXCEPT ![t] = Call("proved", None)] /\ UNCHANGED stopping
     ELSE BeginStop(t, slot)
  /\ UNCHANGED <<slot, leader, others, ready, accepted>>

-----------------------------------------------------------------------------
(* Mutant of Released: whatever the slot holds is released.                *)
ReleasedUnchecked(i) == None

(* releaseProcess.                                                         *)
Released(i) == IF slot = i THEN None ELSE slot

(* Mutant of Gone: the reaped leader is enough.                            *)
GoneLeaderOnly(i) == leader[i] = "reaped"

(* processStopped.                                                         *)
Gone(i) == Stopped(i)

StopProved(t) ==
  /\ call[t].at = "stop"
  /\ Gone(call[t].proc)
  /\ slot' = Released(call[t].proc)
  /\ call' = [call EXCEPT ![t] = Call("proved", @.proc)]
  /\ UNCHANGED <<leader, others, ready, accepted, stopping>>

(* Mutant of Escalated: the kill is repeated without end.                  *)
EscalatedForEver(c) ==
  IF c.stage < LastStage THEN [c EXCEPT !.stage = @ + 1] ELSE c

(* Mutant of Escalated: one stage too many.                                *)
EscalatedPastKill(c) ==
  IF c.stage <= LastStage THEN [c EXCEPT !.stage = @ + 1] ELSE Call("unproved", c.proc)

Escalated(c) ==
  IF c.stage < LastStage THEN [c EXCEPT !.stage = @ + 1] ELSE Call("unproved", c.proc)

(* A stage's deadline, or the cancellation of the call, ends its wait.     *)
StopTimesOut(t) ==
  /\ call[t].at = "stop"
  /\ call' = [call EXCEPT ![t] = Escalated(@)]
  /\ UNCHANGED <<slot, leader, others, ready, accepted, stopping>>

(* wait: cmd.Wait returns; the end of an accepted process nobody is        *)
(* stopping is unexpected, and the goroutine stops what is left itself.    *)
Reap(i) ==
  /\ leader[i] = "zombie"
  /\ leader' = [leader EXCEPT ![i] = "reaped"]
  /\ IF i \in accepted \ stopping THEN BeginStop(i, i) ELSE UNCHANGED <<call, stopping>>
  /\ UNCHANGED <<slot, others, ready, accepted>>

(* drainDiagnostics: the marker is read, perhaps from what the process     *)
(* printed before it exited.                                               *)
ReadMarker(i) ==
  /\ leader[i] # "unborn"
  /\ i \notin ready
  /\ ready' = ready \cup {i}
  /\ UNCHANGED <<slot, leader, others, accepted, stopping, call>>

-----------------------------------------------------------------------------
(* The processes themselves, signalled or not.                             *)
Die(i) ==
  /\ leader[i] = "alive"
  /\ leader' = [leader EXCEPT ![i] = "zombie"]
  /\ UNCHANGED <<slot, others, ready, accepted, stopping, call>>

Fork(i) ==
  /\ leader[i] = "alive"
  /\ others' = others \cup {i}
  /\ UNCHANGED <<slot, leader, ready, accepted, stopping, call>>

OthersDie(i) ==
  /\ i \in others
  /\ others' = others \ {i}
  /\ UNCHANGED <<slot, leader, ready, accepted, stopping, call>>

-----------------------------------------------------------------------------
Stopping(t) == StopProved(t) \/ StopTimesOut(t)

Operation ==
  \/ \E i \in Procs : Activate(i)
  \/ ActivateRefused \/ Accept \/ StartFails

Process(i) == Reap(i) \/ ReadMarker(i) \/ Die(i) \/ Fork(i) \/ OthersDie(i)

Next ==
  \/ Operation
  \/ \E t \in {Op, Shutdown} : Deactivate(t)
  \/ \E t \in Threads : Stopping(t)
  \/ \E i \in Procs : Process(i)

Spec == Init /\ [][Next]_vars

(* Readiness and every stage of a stop have a timer, and cmd.Wait returns  *)
(* when the leader has exited.  No process has to exit or to get ready.    *)
Fairness ==
  /\ WF_vars(Accept \/ StartFails)
  /\ \A t \in Threads : WF_vars(Stopping(t))
  /\ \A i \in Procs : WF_vars(Reap(i))

FairSpec == Spec /\ Fairness

-----------------------------------------------------------------------------
(* Whatever the goroutines of openvpn.go do, every call is at one of its   *)
(* steps or has one of its results.                                        *)
TypeOK ==
  /\ slot \in Procs \cup {None}
  /\ leader \in [Procs -> Leaders]
  /\ others \subseteq Procs
  /\ ready \subseteq Procs
  /\ accepted \subseteq Procs
  /\ stopping \subseteq Procs
  /\ call \in [Threads -> Calls]

(* Whoever was told that a process is stopped (a failed Activate, a        *)
(* Deactivate, Shutdown, the report of an unexpected exit) was told the    *)
(* truth, and it stays true.                                               *)
ProvedMeansGone ==
  \A t \in Threads :
    call[t].at = "proved" /\ call[t].proc # None => ~Present(call[t].proc)

(* When an Activate or a Deactivate of the manager returns without leaving *)
(* doubt, no OpenVPN process at all is left: not the one it stopped, and   *)
(* none whose end another goroutine is still dealing with.                 *)
NothingLeftAfterProof ==
  call[Op].at = "proved" => \A i \in Procs : ~Present(i)

(* The supervisor keeps the promise of OwnedProcess: with three kinds of   *)
(* goroutines stopping processes, none of them lets go of a process that   *)
(* is there, and none releases the successor of the one it stopped.        *)
Owned == INSTANCE OwnedProcess WITH present <- {i \in Procs : Present(i)}

ImplementsOwnedProcess == Owned!Spec

(* A call of the manager, or of the daemon's shutdown, returns even if no  *)
(* process ever reacts to a signal.                                        *)
CallsReturn == \A t \in {Op, Shutdown} : Busy(t) ~> ~Busy(t)

(* The end of an accepted process that nobody is stopping does not go      *)
(* unnoticed, even when it ends the moment it gets ready: the slot is      *)
(* freed, or somebody is told that what is left could not be removed.      *)
DeathIsNoticed ==
  \A i \in Procs :
    (i \in accepted \ stopping /\ leader[i] \in {"zombie", "reaped"})
      ~> (slot # i \/ \E t \in Threads : call[t].at = "unproved" /\ call[t].proc = i)
=============================================================================

-------------------------- MODULE SupervisorProofs --------------------------
(***************************************************************************)
(* Theorems about Supervisor, for any number of activations.               *)
(*                                                                         *)
(* The argument: whatever is on the machine is in the slot.  A process     *)
(* that is gone stays gone, because only its living leader forks; and as   *)
(* long as the operation waits for a process or stops it, no other process *)
(* can get into the slot, because only the operation starts any.  The last *)
(* part counts the stages a call has left, and follows each accepted       *)
(* process to its end.                                                     *)
(***************************************************************************)
EXTENDS Supervisor, TLAPS

(* Whatever is there is owned, and what is owned has been started.         *)
PresentIsOwned ==
  /\ \A i \in Procs : Present(i) => slot = i
  /\ slot # None => leader[slot] # "unborn"

(* A stop is of a process that was started; only Activate waits.           *)
CallsKnowTheirProcess ==
  \A t \in Threads :
    /\ Busy(t) => call[t].proc \in Procs /\ leader[call[t].proc] # "unborn"
    /\ call[t].at = "select" => t = Op

OperationHoldsSlot == Busy(Op) => slot \in {call[Op].proc, None}

ProvedMeansStopped ==
  \A t \in Threads : call[t].at = "proved" /\ call[t].proc # None => Stopped(call[t].proc)

IInv ==
  /\ TypeOK
  /\ PresentIsOwned
  /\ CallsKnowTheirProcess
  /\ OperationHoldsSlot
  /\ ProvedMeansStopped
  /\ NothingLeftAfterProof

-----------------------------------------------------------------------------
(* The supervisor starts with an empty slot and every thread idle.         *)
LEMMA InitSatisfiesInv == Init => IInv
BY ThreadsAssumption
   DEF Init, IInv, TypeOK, PresentIsOwned, CallsKnowTheirProcess, OperationHoldsSlot,
       ProvedMeansStopped, NothingLeftAfterProof, Present, Busy, Call, Calls, Leaders, Threads,
       LastStage

(* Activate: the slot was empty, so nothing but the new process is there.  *)
LEMMA ActivateKeepsInv ==
  ASSUME IInv, NEW i \in Procs, Activate(i)
  PROVE  IInv'
<1> USE ThreadsAssumption
<1>1. TypeOK'
  BY DEF IInv, TypeOK, Activate, Call, Calls, Leaders, Threads, LastStage
<1>2. PresentIsOwned'
  BY DEF IInv, TypeOK, PresentIsOwned, Activate, Present, Leaders
<1>3. CallsKnowTheirProcess' /\ OperationHoldsSlot'
  BY DEF IInv, TypeOK, CallsKnowTheirProcess, OperationHoldsSlot, Activate, Call, Calls, Busy,
         Threads
<1>4. ProvedMeansStopped' /\ NothingLeftAfterProof'
  BY DEF IInv, TypeOK, ProvedMeansStopped, NothingLeftAfterProof, Activate, Stopped, Call,
         Calls, Threads
<1> QED
  BY <1>1, <1>2, <1>3, <1>4 DEF IInv

(* A call that only changes its own entry keeps the invariant, if what it  *)
(* says of the process is so.                                              *)
LEMMA CallOnlyKeepsInv ==
  ASSUME IInv, NEW t \in Threads, NEW c \in Calls,
         call' = [call EXCEPT ![t] = c],
         UNCHANGED <<slot, leader, others>>,
         ready' \subseteq Procs, accepted' \subseteq Procs, stopping' \subseteq Procs,
         c.at \in {"select", "stop"} =>
           /\ c.proc \in Procs /\ leader[c.proc] # "unborn"
           /\ c.at = "select" => t = Op
           /\ t = Op => slot \in {c.proc, None},
         c.at = "proved" => c.proc = None /\ slot = None
  PROVE  IInv'
<1> USE ThreadsAssumption
<1>1. TypeOK' /\ PresentIsOwned'
  BY DEF IInv, TypeOK, PresentIsOwned, Present
<1>2. CallsKnowTheirProcess' /\ OperationHoldsSlot'
  BY DEF IInv, TypeOK, CallsKnowTheirProcess, OperationHoldsSlot, Busy, Threads
<1>3. ProvedMeansStopped'
  BY DEF IInv, TypeOK, ProvedMeansStopped, Stopped
<1>4. NothingLeftAfterProof'
  BY DEF IInv, TypeOK, PresentIsOwned, NothingLeftAfterProof, Present, Threads
<1> QED
  BY <1>1, <1>2, <1>3, <1>4 DEF IInv

(* The other steps of Activate, and the beginning of Deactivate.           *)
LEMMA CallsKeepInv ==
  ASSUME IInv,
         ActivateRefused \/ Accept \/ StartFails \/ (\E t \in {Op, Shutdown} : Deactivate(t))
  PROVE  IInv'
<1> USE ThreadsAssumption
<1>1. CASE ActivateRefused
  <2>1. Call("refused", None) \in Calls /\ Op \in Threads
    BY DEF Call, Calls, Threads, LastStage
  <2> QED
    BY <1>1, <2>1, CallOnlyKeepsInv DEF ActivateRefused, Call, IInv, TypeOK
<1>2. CASE Accept
  <2> DEFINE c == [call[Op] EXCEPT !.at = "accepted"]
  <2>1. c \in Calls /\ c.at = "accepted" /\ Op \in Threads /\ call' = [call EXCEPT ![Op] = c]
    BY <1>2 DEF Accept, IInv, TypeOK, Calls, Threads
  <2>2. accepted' \subseteq Procs
    BY <1>2 DEF Accept, IInv, TypeOK, CallsKnowTheirProcess, Busy, Threads
  <2> HIDE DEF c
  <2> QED
    BY <1>2, <2>1, <2>2, CallOnlyKeepsInv DEF Accept, IInv, TypeOK
<1>3. ASSUME NEW t \in {Op, Shutdown}, NEW i \in Procs, BeginStop(t, i), slot \in {i, None},
             leader[i] # "unborn", UNCHANGED <<slot, leader, others, ready, accepted>>
      PROVE  IInv'
  <2> DEFINE c == [at |-> "stop", proc |-> i, stage |-> 1]
  <2>1. c \in Calls /\ t \in Threads /\ stopping' \subseteq Procs
    BY <1>3 DEF BeginStop, Calls, Threads, LastStage, IInv, TypeOK
  <2> QED
    BY <1>3, <2>1, CallOnlyKeepsInv DEF BeginStop, IInv, TypeOK
<1>4. CASE StartFails
  <2>1. /\ call[Op].proc \in Procs /\ slot \in {call[Op].proc, None}
        /\ leader[call[Op].proc] # "unborn"
    BY <1>4 DEF StartFails, IInv, CallsKnowTheirProcess, OperationHoldsSlot, Busy, Threads
  <2> QED
    BY <1>3, <1>4, <2>1 DEF StartFails
<1>5. ASSUME NEW t \in {Op, Shutdown}, Deactivate(t)
      PROVE  IInv'
  <2>1. CASE slot = None
    <3>1. Call("proved", None) \in Calls /\ t \in Threads
      BY DEF Call, Calls, Threads, LastStage
    <3> QED
      BY <1>5, <2>1, <3>1, CallOnlyKeepsInv DEF Deactivate, Call, IInv, TypeOK
  <2>2. CASE slot # None
    <3>1. slot \in Procs /\ leader[slot] # "unborn"
      BY <2>2 DEF IInv, TypeOK, PresentIsOwned
    <3> QED
      BY <1>3, <1>5, <2>2, <3>1 DEF Deactivate
  <2> QED
    BY <2>1, <2>2
<1> QED
  BY <1>1, <1>2, <1>4, <1>5

(* A proved stop empties the slot of that process only, and for the        *)
(* operation that is all there was.                                        *)
LEMMA StopProvedKeepsInv ==
  ASSUME IInv, NEW t \in Threads, StopProved(t)
  PROVE  IInv'
<1> USE ThreadsAssumption
<1> DEFINE i == call[t].proc
<1>1. /\ i \in Procs /\ leader[i] = "reaped" /\ i \notin others
      /\ slot' = IF slot = i THEN None ELSE slot
      /\ call' = [call EXCEPT ![t] = Call("proved", i)]
      /\ UNCHANGED <<leader, others, ready, accepted, stopping>>
  BY DEF StopProved, Released, Gone, Stopped, IInv, TypeOK, CallsKnowTheirProcess, Busy, Calls
<1>2. t = Op => slot \in {i, None}
  BY DEF StopProved, IInv, OperationHoldsSlot, Busy
<1> HIDE DEF i
<1>3. TypeOK'
  BY <1>1 DEF IInv, TypeOK, Call, Calls, LastStage
<1>4. PresentIsOwned'
  BY <1>1 DEF IInv, PresentIsOwned, Present
<1>5. CallsKnowTheirProcess' /\ OperationHoldsSlot'
  BY <1>1 DEF IInv, TypeOK, CallsKnowTheirProcess, OperationHoldsSlot, Busy, Call, Threads
<1>6. ProvedMeansStopped'
  BY <1>1 DEF IInv, TypeOK, ProvedMeansStopped, Stopped, Call
<1>7. NothingLeftAfterProof'
  <2>1. CASE t = Op
    BY <1>1, <1>2, <2>1 DEF IInv, PresentIsOwned, NothingLeftAfterProof, Present
  <2>2. CASE t # Op
    BY <1>1, <2>2 DEF IInv, TypeOK, NothingLeftAfterProof, Present, Threads
  <2> QED
    BY <2>1, <2>2
<1> QED
  BY <1>3, <1>4, <1>5, <1>6, <1>7 DEF IInv

(* A stop that times out goes on to its next stage, or gives up.           *)
LEMMA StopTimesOutKeepsInv ==
  ASSUME IInv, NEW t \in Threads, StopTimesOut(t)
  PROVE  IInv'
<1> USE ThreadsAssumption
<1> DEFINE c == Escalated(call[t])
<1>1. call[t] \in Calls /\ call[t].at = "stop"
  BY DEF StopTimesOut, IInv, TypeOK
<1>2. c \in Calls /\ c.proc = call[t].proc /\ c.at \in {"stop", "unproved"}
  BY <1>1 DEF Escalated, Call, Calls, LastStage
<1>3. /\ c.proc \in Procs /\ leader[c.proc] # "unborn"
      /\ t = Op => slot \in {c.proc, None}
  BY <1>1, <1>2 DEF IInv, CallsKnowTheirProcess, OperationHoldsSlot, Busy
<1>4. call' = [call EXCEPT ![t] = c]
  BY DEF StopTimesOut
<1> HIDE DEF c
<1> QED
  BY <1>2, <1>3, <1>4, CallOnlyKeepsInv DEF StopTimesOut, IInv, TypeOK

(* A reaped process stays where it was; its goroutine may begin to stop    *)
(* what is left of it.                                                     *)
LEMMA ReapKeepsInv ==
  ASSUME IInv, NEW i \in Procs, Reap(i)
  PROVE  IInv'
<1> USE ThreadsAssumption
<1> DEFINE c == [at |-> "stop", proc |-> i, stage |-> 1]
<1>1. /\ leader[i] = "zombie" /\ leader' = [leader EXCEPT ![i] = "reaped"]
      /\ UNCHANGED <<slot, others, ready, accepted>>
      /\ call' = [call EXCEPT ![i] = c] \/ call' = call
      /\ stopping' \subseteq Procs
      /\ i \in Threads /\ i # Op /\ c \in Calls
  BY DEF Reap, BeginStop, IInv, TypeOK, Threads, Calls, LastStage
<1> HIDE DEF c
<1>2. TypeOK'
  BY <1>1 DEF IInv, TypeOK, Leaders
<1>3. PresentIsOwned'
  BY <1>1 DEF IInv, TypeOK, PresentIsOwned, Present
<1>4. CallsKnowTheirProcess' /\ OperationHoldsSlot'
  BY <1>1 DEF IInv, TypeOK, CallsKnowTheirProcess, OperationHoldsSlot, Busy, Threads, c
<1>5. ProvedMeansStopped' /\ NothingLeftAfterProof'
  BY <1>1 DEF IInv, TypeOK, ProvedMeansStopped, NothingLeftAfterProof, Stopped, Present, Threads, c
<1> QED
  BY <1>2, <1>3, <1>4, <1>5 DEF IInv

(* The processes by themselves: only one that is there can grow, and it is *)
(* nobody's proved one.                                                    *)
LEMMA ProcessKeepsInv ==
  ASSUME IInv, NEW i \in Procs, ReadMarker(i) \/ Die(i) \/ Fork(i) \/ OthersDie(i)
  PROVE  IInv'
<1> USE ThreadsAssumption
<1>1. /\ leader' = leader \/ (leader[i] = "alive" /\ leader' = [leader EXCEPT ![i] = "zombie"])
      /\ others' \subseteq others \/ (leader[i] = "alive" /\ others' = others \cup {i})
      /\ ready' \subseteq Procs /\ others' \subseteq Procs
      /\ UNCHANGED <<slot, accepted, stopping, call>>
  BY DEF ReadMarker, Die, Fork, OthersDie, IInv, TypeOK
<1>2. TypeOK'
  BY <1>1 DEF IInv, TypeOK, Leaders
<1>3. \A j \in Procs : /\ Present(j)' => Present(j)
                       /\ leader[j] # "unborn" => leader'[j] # "unborn"
                       /\ Stopped(j) => Stopped(j)'
  BY <1>1 DEF Present, Stopped, IInv, TypeOK
<1>4. PresentIsOwned' /\ NothingLeftAfterProof'
  BY <1>1, <1>3 DEF IInv, TypeOK, PresentIsOwned, NothingLeftAfterProof
<1>5. CallsKnowTheirProcess' /\ OperationHoldsSlot'
  BY <1>1, <1>3 DEF IInv, TypeOK, CallsKnowTheirProcess, OperationHoldsSlot, Busy
<1>6. ProvedMeansStopped'
  BY <1>1, <1>3 DEF IInv, TypeOK, ProvedMeansStopped, Calls
<1> QED
  BY <1>2, <1>4, <1>5, <1>6 DEF IInv

-----------------------------------------------------------------------------
(* Every step keeps the invariant.                                         *)
LEMMA NextKeepsInv == ASSUME IInv, [Next]_vars PROVE IInv'
<1>1. CASE Operation
  BY <1>1, ActivateKeepsInv, CallsKeepInv DEF Operation
<1>2. CASE \E t \in {Op, Shutdown} : Deactivate(t)
  BY <1>2, CallsKeepInv
<1>3. CASE \E t \in Threads : Stopping(t)
  BY <1>3, StopProvedKeepsInv, StopTimesOutKeepsInv DEF Stopping
<1>4. CASE \E i \in Procs : Process(i)
  BY <1>4, ReapKeepsInv, ProcessKeepsInv DEF Process
<1>5. CASE UNCHANGED vars
  BY <1>5 DEF vars, IInv, TypeOK, PresentIsOwned, CallsKnowTheirProcess, OperationHoldsSlot,
              ProvedMeansStopped, NothingLeftAfterProof, Present, Stopped, Busy
<1> QED
  BY <1>1, <1>2, <1>3, <1>4, <1>5 DEF Next

(* In every state, what is on the machine is in the slot, and whatever a   *)
(* goroutine knows of the process it works on is so.                       *)
THEOREM SupervisorInvariant == Spec => []IInv
<1>1. Init => IInv
  BY InitSatisfiesInv
<1>2. IInv /\ [Next]_vars => IInv'
  BY NextKeepsInv
<1> QED
  BY <1>1, <1>2, PTL DEF Spec

(* Every call is at one of its steps or has one of its results.            *)
THEOREM SupervisorTypeCorrect == Spec => []TypeOK
<1>1. IInv => TypeOK
  BY DEF IInv
<1> QED
  BY <1>1, SupervisorInvariant, PTL

(* Whoever is told that a process was stopped is told the truth: a failed  *)
(* Activate, a Deactivate, Shutdown and the report of an unexpected exit.  *)
THEOREM ProofsAreTrue == Spec => []ProvedMeansGone
<1>1. IInv => ProvedMeansGone
  BY DEF IInv, TypeOK, ProvedMeansStopped, ProvedMeansGone, Present, Stopped
<1> QED
  BY <1>1, SupervisorInvariant, PTL

(* A call of the manager that returns without leaving doubt leaves no      *)
(* OpenVPN process on the machine.                                         *)
THEOREM NothingIsLeft == Spec => []NothingLeftAfterProof
<1>1. IInv => NothingLeftAfterProof
  BY DEF IInv
<1> QED
  BY <1>1, SupervisorInvariant, PTL

(* The supervisor implements OwnedProcess: each of its steps takes the     *)
(* free slot, ends a process, releases a process nothing is left of, or    *)
(* is none of the abstract owner's business.                               *)
THEOREM ImplementsOwner == Spec => ImplementsOwnedProcess
<1> USE ThreadsAssumption
<1> DEFINE P == {i \in Procs : Present(i)}
<1>1. Init => Owned!Init
  BY DEF Init, Owned!Init, Present
<1>2. ASSUME IInv, [Next]_vars
      PROVE  [Owned!Next]_(Owned!vars)
  <2>1. ASSUME UNCHANGED <<slot, leader, others>>
        PROVE  [Owned!Next]_(Owned!vars)
    BY <2>1 DEF Owned!vars, Present
  <2>2. ASSUME NEW i \in Procs, Activate(i)
        PROVE  Owned!Take(i)
    <3>1. P = {}
      BY <1>2, <2>2, ThreadsAssumption DEF IInv, PresentIsOwned, Activate
    <3>2. P' = {i}
      BY <1>2, <2>2, <3>1 DEF IInv, TypeOK, Activate, Present
    <3> QED
      BY <2>2, <3>1, <3>2 DEF Activate, Owned!Take
  <2>3. ASSUME NEW t \in Threads, StopProved(t)
        PROVE  Owned!Release \/ UNCHANGED <<slot, leader, others>>
    BY <1>2, <2>3 DEF IInv, TypeOK, CallsKnowTheirProcess, Busy, StopProved, Released, Gone,
                      Stopped, Present, Owned!Release, Calls
  <2>4. ASSUME NEW i \in Procs, Reap(i) \/ Die(i) \/ Fork(i) \/ OthersDie(i)
        PROVE  Owned!Vanish(i) \/ UNCHANGED <<slot, P>>
    <3>1. /\ \A j \in Procs \ {i} : Present(j)' = Present(j)
          /\ Present(i)' => Present(i)
          /\ UNCHANGED slot
      BY <1>2, <2>4 DEF IInv, TypeOK, Reap, Die, Fork, OthersDie, Present
    <3>2. P' = P \/ (i \in P /\ P' = P \ {i})
      BY <3>1
    <3> QED
      BY <3>1, <3>2 DEF Owned!Vanish
  <2>5. CASE Operation
    BY <2>1, <2>2, <2>5 DEF Operation, ActivateRefused, Accept, StartFails, Owned!Next
  <2>6. CASE \E t \in {Op, Shutdown} : Deactivate(t)
    BY <2>1, <2>6 DEF Deactivate
  <2>7. CASE \E t \in Threads : Stopping(t)
    BY <2>1, <2>3, <2>7 DEF Stopping, StopTimesOut, Owned!Next
  <2>8. CASE \E i \in Procs : Process(i)
    BY <2>1, <2>4, <2>8 DEF Process, ReadMarker, Owned!Next, Owned!vars
  <2>9. CASE UNCHANGED vars
    BY <2>1, <2>9 DEF vars
  <2> QED
    BY <1>2, <2>5, <2>6, <2>7, <2>8, <2>9 DEF Next
<1> QED
  BY <1>1, <1>2, SupervisorInvariant, PTL DEF Spec, ImplementsOwnedProcess, Owned!Spec
-----------------------------------------------------------------------------
(* What remains of CallsReturn and DeathIsNoticed when no step has to be   *)
(* taken: no call can take more steps than its stages, and no end of an    *)
(* accepted process is passed over.                                        *)

(* The steps a call of Activate or of stopProcess can still take.          *)
StagesLeft(c) ==
  CASE c.at = "select" -> LastStage + 1
    [] c.at = "stop"   -> LastStage + 1 - c.stage
    [] OTHER           -> 0

(* The wait goroutine stops nothing before cmd.Wait has returned.          *)
WaitsFirst == \A i \in Procs : leader[i] # "reaped" => call[i].at = "idle"

(* Readiness, interrupt, terminate, kill: then the call has returned.      *)
FewStages ==
  \A t \in Threads :
    /\ StagesLeft(call[t]) \in 0..(LastStage + 1)
    /\ StagesLeft(call[t]) = 0 <=> ~Busy(t)

(* Nobody else's step prolongs a call, and each of its own shortens it.    *)
OnlyEscalates ==
  [][/\ Accept \/ StartFails => StagesLeft(call'[Op]) < StagesLeft(call[Op])
     /\ \A t \in Threads :
          /\ Stopping(t) => StagesLeft(call'[t]) < StagesLeft(call[t])
          /\ Busy(t) => call'[t] = call[t] \/ StagesLeft(call'[t]) < StagesLeft(call[t])]_vars

(* An accepted process whose end cmd.Wait has seen is one that somebody    *)
(* has begun to stop.                                                      *)
EndsAreStopped == \A i \in accepted : leader[i] = "reaped" => i \in stopping

LEMMA StagesCounted ==
  ASSUME NEW c \in Calls
  PROVE  /\ StagesLeft(c) \in 0..(LastStage + 1)
         /\ StagesLeft(c) = 0 <=> c.at \notin {"select", "stop"}
         /\ c.at = "select" => StagesLeft(c) = LastStage + 1
         /\ c.at = "stop" => StagesLeft(c) = LastStage + 1 - c.stage
BY DEF StagesLeft, Calls, LastStage

(* stopProcess is entered at its first stage.                              *)
LEMMA StopBegins ==
  ASSUME TypeOK, NEW t \in Threads, NEW i \in Procs, BeginStop(t, i)
  PROVE  /\ call'[t].at = "stop" /\ StagesLeft(call'[t]) = LastStage
         /\ \A s \in Threads \ {t} : call'[s] = call[s]
         /\ stopping' = stopping \cup {i}
<1>1. /\ call' = [call EXCEPT ![t] = [at |-> "stop", proc |-> i, stage |-> 1]]
      /\ stopping' = stopping \cup {i}
  BY DEF BeginStop
<1>2. call'[t] = [at |-> "stop", proc |-> i, stage |-> 1]
  BY <1>1 DEF TypeOK
<1>3. call'[t] \in Calls /\ call'[t].at = "stop" /\ call'[t].stage = 1
  BY <1>2 DEF Calls, LastStage
<1>4. StagesLeft(call'[t]) = LastStage
  BY <1>3, StagesCounted DEF LastStage
<1> QED
  BY <1>1, <1>3, <1>4 DEF TypeOK

(* A step of stopProcess goes to the next stage, or returns.               *)
LEMMA StoppingCounts ==
  ASSUME IInv, NEW t \in Threads, Stopping(t)
  PROVE  /\ StagesLeft(call'[t]) < StagesLeft(call[t])
         /\ call[t].at = "stop" /\ call'[t].at # "idle"
         /\ \A s \in Threads \ {t} : call'[s] = call[s]
         /\ UNCHANGED <<leader, accepted, stopping>>
<1>1. call[t] \in Calls /\ call[t].at = "stop"
  BY DEF Stopping, StopProved, StopTimesOut, IInv, TypeOK
<1>2. StagesLeft(call[t]) = LastStage + 1 - call[t].stage /\ call[t].stage \in 0..LastStage
  BY <1>1, StagesCounted DEF Calls
<1>3. \A at, p : at \in {"proved", "unproved"}
        => StagesLeft(Call(at, p)) = 0 /\ Call(at, p).at = at
  BY DEF StagesLeft, Call
<1>4. CASE StopProved(t)
  <2>1. call'[t] = Call("proved", call[t].proc) /\ \A s \in Threads \ {t} : call'[s] = call[s]
    BY <1>4 DEF StopProved, IInv, TypeOK
  <2> QED
    BY <1>1, <1>2, <1>3, <1>4, <2>1 DEF StopProved, LastStage
<1>5. CASE StopTimesOut(t)
  <2>1. /\ call'[t] = Escalated(call[t])
        /\ \A s \in Threads \ {t} : call'[s] = call[s]
        /\ UNCHANGED <<leader, accepted, stopping>>
    BY <1>5 DEF StopTimesOut, IInv, TypeOK
  <2>2. CASE call[t].stage < LastStage
    <3>1. call'[t] = [call[t] EXCEPT !.stage = call[t].stage + 1]
      BY <2>1, <2>2 DEF Escalated
    <3>2. call'[t] \in Calls /\ call'[t].at = "stop" /\ call'[t].stage = call[t].stage + 1
      BY <1>1, <1>2, <2>2, <3>1 DEF Calls, LastStage
    <3>3. StagesLeft(call'[t]) = LastStage + 1 - (call[t].stage + 1)
      BY <3>2, StagesCounted
    <3> QED
      BY <1>1, <1>2, <2>1, <3>2, <3>3 DEF LastStage
  <2>3. CASE ~(call[t].stage < LastStage)
    BY <1>1, <1>2, <1>3, <2>1, <2>3 DEF Escalated, LastStage
  <2> QED
    BY <2>2, <2>3
<1> QED
  BY <1>4, <1>5 DEF Stopping

(* The wait goroutine of an exited process.                                *)
LEMMA ReapCounts ==
  ASSUME IInv, WaitsFirst, EndsAreStopped, NEW i \in Procs, Reap(i)
  PROVE  /\ ~Busy(i) /\ \A t \in Threads \ {i} : call'[t] = call[t]
         /\ WaitsFirst' /\ EndsAreStopped'
<1>1. i \in Threads /\ leader[i] = "zombie" /\ leader' = [leader EXCEPT ![i] = "reaped"]
  BY DEF Reap, Threads
<1>2. call[i].at = "idle"
  BY <1>1 DEF WaitsFirst
<1>3. /\ \A t \in Threads \ {i} : call'[t] = call[t]
      /\ i \in accepted => i \in stopping'
      /\ stopping \subseteq stopping' /\ accepted' = accepted
  <2>1. CASE i \in accepted \ stopping
    BY <1>1, <2>1, StopBegins DEF Reap, IInv
  <2>2. CASE i \notin accepted \ stopping
    BY <2>2 DEF Reap
  <2> QED
    BY <2>1, <2>2
<1>4. \A j \in Procs : leader'[j] = IF j = i THEN "reaped" ELSE leader[j]
  BY <1>1 DEF IInv, TypeOK
<1>5. WaitsFirst'
  BY <1>3, <1>4 DEF WaitsFirst, Threads
<1>6. EndsAreStopped'
  BY <1>3, <1>4 DEF EndsAreStopped, IInv, TypeOK
<1> QED
  BY <1>2, <1>3, <1>5, <1>6 DEF Busy

(* The calls of the operation and of the daemon's shutdown begin and end.  *)
LEMMA CallsCount ==
  ASSUME IInv, WaitsFirst, EndsAreStopped,
         Operation \/ \E t \in {Op, Shutdown} : Deactivate(t)
  PROVE  /\ Accept \/ StartFails => StagesLeft(call'[Op]) < StagesLeft(call[Op])
         /\ \A t \in Threads :
              Busy(t) => call'[t] = call[t] \/ StagesLeft(call'[t]) < StagesLeft(call[t])
         /\ WaitsFirst' /\ EndsAreStopped'
<1> USE ThreadsAssumption
<1>1. Op \in Threads /\ Shutdown \in Threads /\ Procs \subseteq Threads \ {Op, Shutdown}
  BY DEF Threads
<1>2. ASSUME NEW i \in Procs, Activate(i)
      PROVE  /\ ~Busy(Op) /\ \A t \in Threads \ {Op} : call'[t] = call[t]
             /\ WaitsFirst' /\ EndsAreStopped' /\ ~Accept /\ ~StartFails
  <2>1. /\ ~Busy(Op) /\ \A t \in Threads \ {Op} : call'[t] = call[t]
        /\ leader[i] = "unborn" /\ leader' = [leader EXCEPT ![i] = "alive"]
        /\ UNCHANGED <<accepted, stopping>>
    BY <1>2 DEF Activate, IInv, TypeOK
  <2>2. \A j \in Procs : leader'[j] = IF j = i THEN "alive" ELSE leader[j]
    BY <2>1 DEF IInv, TypeOK
  <2>3. WaitsFirst'
    BY <1>1, <2>1, <2>2 DEF WaitsFirst
  <2>4. EndsAreStopped'
    BY <2>1, <2>2 DEF EndsAreStopped, IInv, TypeOK
  <2> QED
    BY <2>1, <2>3, <2>4 DEF Busy, Accept, StartFails
<1>3. ASSUME NEW t \in {Op, Shutdown}, \A s \in Threads \ {t} : call'[s] = call[s],
             UNCHANGED leader, stopping \subseteq stopping', accepted' = accepted
      PROVE  WaitsFirst' /\ EndsAreStopped'
  BY <1>1, <1>3 DEF WaitsFirst, EndsAreStopped
<1>4. CASE ActivateRefused
  <2>1. ~Busy(Op) /\ \A s \in Threads \ {Op} : call'[s] = call[s]
    BY <1>4 DEF ActivateRefused, IInv, TypeOK
  <2>2. UNCHANGED <<leader, accepted, stopping>>
    BY <1>4 DEF ActivateRefused
  <2> QED
    BY <1>3, <2>1, <2>2 DEF Busy, Accept, StartFails
<1>5. CASE Accept
  <2>1. /\ call'[Op] = [call[Op] EXCEPT !.at = "accepted"] /\ call[Op] \in Calls
        /\ \A s \in Threads \ {Op} : call'[s] = call[s]
    BY <1>1, <1>5 DEF Accept, IInv, TypeOK
  <2>2. StagesLeft(call[Op]) = LastStage + 1
    BY <1>5, <2>1, StagesCounted DEF Accept
  <2>3. StagesLeft(call'[Op]) = 0
    BY <2>1 DEF StagesLeft, Calls
  <2>4. WaitsFirst'
    BY <1>1, <1>5, <2>1 DEF Accept, WaitsFirst
  <2>5. EndsAreStopped'
    BY <1>5 DEF Accept, EndsAreStopped
  <2> QED
    BY <2>1, <2>2, <2>3, <2>4, <2>5 DEF LastStage
<1>6. CASE StartFails
  <2>1. call[Op].at = "select" /\ call[Op].proc \in Procs /\ call[Op] \in Calls
    BY <1>1, <1>6 DEF StartFails, IInv, TypeOK, CallsKnowTheirProcess, Busy
  <2>2. /\ StagesLeft(call'[Op]) = LastStage /\ \A s \in Threads \ {Op} : call'[s] = call[s]
        /\ stopping \subseteq stopping'
    BY <1>1, <1>6, <2>1, StopBegins DEF StartFails, IInv
  <2>3. StagesLeft(call[Op]) = LastStage + 1
    BY <2>1, StagesCounted
  <2>4. WaitsFirst' /\ EndsAreStopped'
    BY <1>3, <1>6, <2>2 DEF StartFails
  <2> QED
    BY <2>2, <2>3, <2>4 DEF LastStage
<1>7. ASSUME NEW t \in {Op, Shutdown}, Deactivate(t)
      PROVE  /\ ~Busy(t) /\ \A s \in Threads \ {t} : call'[s] = call[s]
             /\ WaitsFirst' /\ EndsAreStopped'
  <2>1. ~Busy(t) /\ t \in Threads /\ UNCHANGED <<leader, accepted>>
    BY <1>1, <1>7 DEF Deactivate, Busy
  <2>2. (\A s \in Threads \ {t} : call'[s] = call[s]) /\ stopping \subseteq stopping'
    <3>1. CASE slot = None
      BY <1>7, <3>1 DEF Deactivate, IInv, TypeOK
    <3>2. CASE slot # None
      <4>1. BeginStop(t, slot) /\ slot \in Procs
        BY <1>7, <3>2 DEF Deactivate, IInv, TypeOK
      <4> QED
        BY <2>1, <4>1, StopBegins DEF IInv
    <3> QED
      BY <3>1, <3>2
  <2> QED
    BY <1>3, <2>1, <2>2
<1>8. ASSUME NEW t \in {Op, Shutdown}, Deactivate(t), Accept \/ StartFails
      PROVE  StagesLeft(call'[Op]) < StagesLeft(call[Op])
  BY <1>5, <1>6, <1>8
<1> QED
  BY <1>2, <1>4, <1>5, <1>6, <1>7, <1>8 DEF Operation

(* The processes by themselves.                                            *)
LEMMA ProcessCounts ==
  ASSUME IInv, WaitsFirst, EndsAreStopped, NEW i \in Procs, Process(i)
  PROVE  /\ \A t \in Threads : Busy(t) => call'[t] = call[t]
         /\ WaitsFirst' /\ EndsAreStopped'
<1>1. CASE Reap(i)
  BY <1>1, ReapCounts
<1>2. CASE ReadMarker(i) \/ Fork(i) \/ OthersDie(i)
  BY <1>2 DEF ReadMarker, Fork, OthersDie, WaitsFirst, EndsAreStopped
<1>3. CASE Die(i)
  <2>1. leader[i] = "alive" /\ \A j \in Procs : leader'[j] = IF j = i THEN "zombie" ELSE leader[j]
    BY <1>3 DEF Die, IInv, TypeOK
  <2>2. UNCHANGED <<accepted, stopping, call>> /\ accepted \subseteq Procs
    BY <1>3 DEF Die, IInv, TypeOK
  <2> QED
    BY <2>1, <2>2 DEF WaitsFirst, EndsAreStopped
<1> QED
  BY <1>1, <1>2, <1>3 DEF Process

LEMMA NextCounts ==
  ASSUME IInv, WaitsFirst, EndsAreStopped, [Next]_vars
  PROVE  /\ WaitsFirst' /\ EndsAreStopped'
         /\ \A t \in Threads :
              Busy(t) => call'[t] = call[t] \/ StagesLeft(call'[t]) < StagesLeft(call[t])
<1>1. CASE Operation \/ \E t \in {Op, Shutdown} : Deactivate(t)
  BY <1>1, CallsCount
<1>2. ASSUME NEW t \in Threads, Stopping(t)
      PROVE  /\ WaitsFirst' /\ EndsAreStopped'
             /\ StagesLeft(call'[t]) < StagesLeft(call[t])
             /\ \A s \in Threads \ {t} : call'[s] = call[s]
  <2>1. /\ StagesLeft(call'[t]) < StagesLeft(call[t]) /\ call[t].at = "stop"
        /\ \A s \in Threads \ {t} : call'[s] = call[s]
        /\ UNCHANGED <<leader, accepted, stopping>>
    BY <1>2, StoppingCounts
  <2>2. WaitsFirst'
    BY <2>1 DEF WaitsFirst, Threads
  <2> QED
    BY <2>1, <2>2 DEF EndsAreStopped
<1>3. CASE \E i \in Procs : Process(i)
  BY <1>3, ProcessCounts
<1>4. CASE UNCHANGED vars
  BY <1>4 DEF vars, WaitsFirst, EndsAreStopped
<1> QED
  BY <1>1, <1>2, <1>3, <1>4 DEF Next

(* A call of Activate, Deactivate or Shutdown, and the cleanup after an    *)
(* unexpected exit, returns after at most readiness, interrupt, terminate  *)
(* and kill, each of which is bounded by a timer: it is never sent back to *)
(* an earlier stage, by itself or by a goroutine stopping the same process.*)
THEOREM CallsAreBounded == Spec => []FewStages /\ OnlyEscalates
<1>1. Init => WaitsFirst /\ EndsAreStopped
  BY ThreadsAssumption DEF Init, WaitsFirst, EndsAreStopped, Call, Threads
<1>2. IInv /\ (WaitsFirst /\ EndsAreStopped) /\ [Next]_vars => (WaitsFirst /\ EndsAreStopped)'
  BY NextCounts
<1>3. IInv => FewStages
  BY StagesCounted DEF IInv, TypeOK, FewStages, Busy
<1>4. IInv /\ (WaitsFirst /\ EndsAreStopped) /\ [Next]_vars
        => [/\ Accept \/ StartFails => StagesLeft(call'[Op]) < StagesLeft(call[Op])
            /\ \A t \in Threads :
                 /\ Stopping(t) => StagesLeft(call'[t]) < StagesLeft(call[t])
                 /\ Busy(t) => call'[t] = call[t] \/ StagesLeft(call'[t]) < StagesLeft(call[t])]_vars
  BY NextCounts, CallsCount, StoppingCounts DEF Operation
<1> QED
  BY <1>1, <1>2, <1>3, <1>4, SupervisorInvariant, PTL DEF Spec, OnlyEscalates

(* cmd.Wait never returns for an accepted process without a stop of it     *)
(* having begun, even if it exits the moment Activate accepts it: either   *)
(* Activate sees the exit, or the wait goroutine sees the acceptance.      *)
THEOREM NoEndIsPassedOver == Spec => []EndsAreStopped
<1>1. Init => WaitsFirst /\ EndsAreStopped
  BY ThreadsAssumption DEF Init, WaitsFirst, EndsAreStopped, Call, Threads
<1>2. IInv /\ (WaitsFirst /\ EndsAreStopped) /\ [Next]_vars => (WaitsFirst /\ EndsAreStopped)'
  BY NextCounts
<1> QED
  BY <1>1, <1>2, SupervisorInvariant, PTL DEF Spec
=============================================================================

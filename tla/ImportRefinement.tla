-------------------------- MODULE ImportRefinement --------------------------
(***************************************************************************)
(* Proof that Import implements ImportContract: every step of the service, *)
(* seen without its revisions, receipts, gates and handler steps, is a     *)
(* step of the contract or none.  Show... are the mapping of Promised.     *)
(***************************************************************************)
EXTENDS ImportProofs

Show(l) == [mem |-> l.mem.profiles, disk |-> l.disk.profiles, unknown |-> l.unknown]

ShownGiven == {Bare(doc) : doc \in given}

ShownCalls == [c \in Calls |-> SeenCall(calls[c])]

Shown == <<Show(lib), ShownGiven, ShownCalls>>

(* A repair, seen by clients.                                              *)
LEMMA RepairShown ==
  ASSUME NEW l \in Known, NEW r \in RepairOutcomes(l)
  PROVE  [lib |-> Show(r.lib), ok |-> r.ok] \in Promised!RepairOutcomes(Show(l))
<1>1. \/ r = [lib |-> l, ok |-> TRUE] /\ ~l.unknown
      \/ r = [lib |-> l, ok |-> FALSE] /\ l.unknown /\ May("store")
      \/ r = [lib |-> Durable(l.mem), ok |-> TRUE] /\ l.unknown
  BY DEF RepairOutcomes
<1>2. Show(l).unknown = l.unknown /\ Show(l).mem = l.mem.profiles
  BY DEF Show
<1>3. Show(Durable(l.mem)) = Promised!Durable(Show(l).mem)
  BY DEF Show, Durable, Promised!Durable
<1>4. CASE r = [lib |-> l, ok |-> TRUE] /\ ~l.unknown
  BY <1>2, <1>4 DEF Promised!RepairOutcomes
<1>5. CASE r = [lib |-> l, ok |-> FALSE] /\ l.unknown /\ May("store")
  BY <1>2, <1>5 DEF Promised!RepairOutcomes, Promised!May, May
<1>6. CASE r = [lib |-> Durable(l.mem), ok |-> TRUE] /\ l.unknown
  BY <1>2, <1>3, <1>6 DEF Promised!RepairOutcomes
<1> QED
  BY <1>1, <1>4, <1>5, <1>6

(* A publication, seen by clients.                                         *)
LEMMA PublishShown ==
  ASSUME NEW l \in Known, NEW m \in Snapshots, NEW w \in PublishOutcomes(l, m)
  PROVE  [lib |-> Show(w.lib), ok |-> w.ok] \in Promised!PublishOutcomes(Show(l), m.profiles)
<1> DEFINE ambiguous == [mem |-> m, disk |-> l.mem, unknown |-> TRUE]
<1>1. \/ w = [lib |-> Durable(m), ok |-> TRUE]
      \/ w = [lib |-> ambiguous, ok |-> FALSE] /\ May("store")
      \/ w = [lib |-> l, ok |-> FALSE] /\ May("store")
  BY DEF PublishOutcomes
<1>2. Show(Durable(m)) = Promised!Durable(m.profiles)
  BY DEF Show, Durable, Promised!Durable
<1>3. Show(ambiguous) = [mem |-> m.profiles, disk |-> Show(l).mem, unknown |-> TRUE]
  BY DEF Show
<1>4. May("store") => Promised!May("store")
  BY DEF May, Promised!May
<1> HIDE DEF ambiguous
<1>5. CASE w = [lib |-> Durable(m), ok |-> TRUE]
  BY <1>2, <1>5 DEF Promised!PublishOutcomes
<1>6. CASE w = [lib |-> ambiguous, ok |-> FALSE] /\ May("store")
  BY <1>3, <1>4, <1>6 DEF Promised!PublishOutcomes
<1>7. CASE w = [lib |-> l, ok |-> FALSE] /\ May("store")
  BY <1>4, <1>7 DEF Promised!PublishOutcomes
<1> QED
  BY <1>1, <1>5, <1>6, <1>7

(* One after the other they are a write.                                   *)
LEMMA RepairThenPublish ==
  ASSUME NEW l \in Known, NEW r \in RepairOutcomes(l), r.lib \in Known, NEW m \in Snapshots,
         r.ok, NEW w \in PublishOutcomes(r.lib, m)
  PROVE  [lib |-> Show(w.lib), ok |-> w.ok] \in Promised!WriteOutcomes(Show(l), m.profiles)
<1> DEFINE s == [lib |-> Show(r.lib), ok |-> r.ok]
           v == [lib |-> Show(w.lib), ok |-> w.ok]
<1>1. s \in Promised!RepairOutcomes(Show(l))
  BY RepairShown
<1>2. v \in Promised!PublishOutcomes(Show(r.lib), m.profiles)
  BY PublishShown
<1>3. s.ok /\ s.lib = Show(r.lib)
  OBVIOUS
<1> HIDE DEF s, v
<1>4. v \in IF s.ok THEN Promised!PublishOutcomes(s.lib, m.profiles) ELSE {s}
  BY <1>2, <1>3
<1>5. v \in Promised!WriteOutcomes(Show(l), m.profiles)
  BY <1>1, <1>4 DEF Promised!WriteOutcomes
<1> QED
  BY <1>5 DEF v

(* A write, seen by clients.                                               *)
LEMMA WriteShown ==
  ASSUME NEW l \in Known, Sound(l), NEW m \in Snapshots, NEW w \in WriteOutcomes(l, m)
  PROVE  [lib |-> Show(w.lib), ok |-> w.ok] \in Promised!WriteOutcomes(Show(l), m.profiles)
<1>1. PICK r \in RepairOutcomes(l) : w \in IF r.ok THEN PublishOutcomes(r.lib, m) ELSE {r}
  BY DEF WriteOutcomes
<1>2. CASE r.ok
  BY <1>1, <1>2, Repairs, RepairThenPublish
<1>3. CASE ~r.ok
  <2> DEFINE s == [lib |-> Show(r.lib), ok |-> r.ok]
  <2>1. s \in Promised!RepairOutcomes(Show(l)) /\ w = r
    BY <1>1, <1>3, RepairShown
  <2>2. ~s.ok
    BY <1>3
  <2> HIDE DEF s
  <2>3. s \in IF s.ok THEN Promised!PublishOutcomes(s.lib, m.profiles) ELSE {s}
    BY <2>2
  <2>4. s \in Promised!WriteOutcomes(Show(l), m.profiles)
    BY <2>1, <2>3 DEF Promised!WriteOutcomes
  <2> QED
    BY <2>1, <2>4 DEF s
<1> QED
  BY <1>2, <1>3

(* What is shown of requests when one of them moves.                       *)
LEMMA CallShown ==
  ASSUME IInv, NEW c \in Calls, NEW call, calls' = [calls EXCEPT ![c] = call]
  PROVE  ShownCalls' = [ShownCalls EXCEPT ![c] = SeenCall(call)]
<1>1. calls'[c] = call /\ \A d \in Calls \ {c} : calls'[d] = calls[d]
  BY DEF IInv, RequestsKnown
<1>2. ShownCalls' = [d \in Calls |-> SeenCall(calls'[d])]
  BY DEF ShownCalls, SeenCall, Stage, Bare
<1>3. ASSUME NEW d \in Calls
      PROVE  SeenCall(calls'[d]) = IF d = c THEN SeenCall(call) ELSE SeenCall(calls[d])
  BY <1>1
<1> QED
  BY <1>2, <1>3 DEF ShownCalls

(* An inspection given is one shown.                                       *)
LEMMA DocShown ==
  ASSUME IInv, NEW d \in given
  PROVE  Bare(d) \in ShownGiven /\ Bare(d) = [files |-> d.files, records |-> d.records]
<1>1. d # None
  BY NoneAssumption DEF IInv, LibraryKnown
<1> QED
  BY <1>1 DEF Bare, ShownGiven

Waiting == {"commit", "staged", "admitted", "publish", "repair", "replay"}

(* The steps of a handler that clients tell apart.                         *)
LEMMA StageShown ==
  ASSUME IInv, NEW c \in Calls
  PROVE  /\ ShownCalls[c] = SeenCall(calls[c])
         /\ ShownCalls[c].at = Stage(calls[c].at)
         /\ ShownCalls[c].files = calls[c].files
         /\ ShownCalls[c].doc = Bare(calls[c].doc)
         /\ calls[c].at \in {"inspect", "inspecting"} => Stage(calls[c].at) = "asked"
         /\ calls[c].at \in Waiting => Stage(calls[c].at) = "sent"
         /\ calls[c].at = "committed" => Stage(calls[c].at) = "done"
         /\ calls[c].at \in {"free", "answered"} => Stage(calls[c].at) = calls[c].at
<1>1. calls[c] \in Requests
  BY DEF IInv, RequestsKnown
<1>2. ShownCalls[c] = SeenCall(calls[c])
  BY DEF ShownCalls
<1>3. /\ SeenCall(calls[c]).at = Stage(calls[c].at)
      /\ SeenCall(calls[c]).files = calls[c].files
      /\ SeenCall(calls[c]).doc = Bare(calls[c].doc)
  BY <1>1 DEF SeenCall, Requests
<1>4. /\ calls[c].at \in {"inspect", "inspecting"} => Stage(calls[c].at) = "asked"
      /\ calls[c].at \in Waiting => Stage(calls[c].at) = "sent"
      /\ calls[c].at = "committed" => Stage(calls[c].at) = "done"
      /\ calls[c].at \in {"free", "answered"} => Stage(calls[c].at) = calls[c].at
  BY DEF Stage, Waiting
<1> QED
  BY <1>2, <1>3, <1>4

(* An answer is shown as it is.                                            *)
LEMMA AnsweredShown ==
  ASSUME NEW answer
  PROVE  SeenCall(Answered(answer)) = Promised!Answered(answer)
  BY DEF SeenCall, Answered, NoCall, Stage, Bare, Promised!Answered, Promised!NoCall

(* A repair shows as one.                                                  *)
LEMMA KeptShown ==
  ASSUME IInv, NEW r \in RepairOutcomes(lib), lib' = r.lib
  PROVE  Promised!Kept
<1>1. lib \in Known
  BY DEF IInv, LibraryKnown
<1>2. PICK s : s = [lib |-> Show(r.lib), ok |-> r.ok]
  OBVIOUS
<1>3. s \in Promised!RepairOutcomes(Show(lib)) /\ s.lib = Show(r.lib)
  BY <1>1, <1>2, RepairShown
<1>4. Show(lib)' = Show(r.lib)
  BY DEF Show
<1> QED
  BY <1>3, <1>4 DEF Promised!Kept, Show

(* An answer without effect.                                               *)
LEMMA RefuseShown ==
  ASSUME IInv, NEW c \in Calls, NEW answer \in {"refused", "reinspect"},
         calls' = [calls EXCEPT ![c] = Answered(answer)], given' = given,
         \/ calls[c].at \in {"inspect", "inspecting"} /\ answer = "refused" /\ lib' = lib
         \/ calls[c].at \in Waiting /\ (lib' = lib \/ Promised!Kept)
  PROVE  Promised!Refuse(c)
<1>1. PICK call : call = Answered(answer)
  OBVIOUS
<1>2. ShownCalls' = [ShownCalls EXCEPT ![c] = Promised!Answered(answer)]
  BY <1>1, CallShown, AnsweredShown
<1>3. Promised!Set(c, Promised!Answered(answer))
  BY <1>2 DEF Promised!Set, ShownCalls
<1>4. ShownGiven' = ShownGiven /\ (lib' = lib => Show(lib)' = Show(lib))
  BY DEF ShownGiven, Show, Bare
<1>5. CASE calls[c].at \in {"inspect", "inspecting"} /\ answer = "refused" /\ lib' = lib
  <2>1. ShownCalls[c].at = "asked"
    BY <1>5, StageShown
  <2> QED
    BY <1>3, <1>4, <1>5, <2>1 DEF Promised!Refuse, ShownCalls, ShownGiven, Show
<1>6. CASE calls[c].at \in Waiting /\ (lib' = lib \/ Promised!Kept)
  <2>1. ShownCalls[c].at = "sent"
    BY <1>6, StageShown
  <2> QED
    BY <1>3, <1>4, <1>6, <2>1 DEF Promised!Refuse, ShownCalls, ShownGiven, Show
<1> QED
  BY <1>5, <1>6

(* A request moves.                                                        *)
LEMMA SetShown ==
  ASSUME IInv, NEW c \in Calls, NEW call, NEW seen, seen = SeenCall(call),
         calls' = [calls EXCEPT ![c] = call]
  PROVE  Promised!Set(c, seen)
<1>1. ShownCalls' = [ShownCalls EXCEPT ![c] = seen]
  BY CallShown
<1> QED
  BY <1>1 DEF Promised!Set, ShownCalls

(* What stays as it is shows as staying.                                   *)
LEMMA RestShown ==
  /\ lib' = lib => Show(lib)' = Show(lib)
  /\ given' = given => ShownGiven' = ShownGiven
  BY DEF Show, ShownGiven, Bare

(* A client asks for an inspection.                                        *)
LEMMA AskShown ==
  ASSUME IInv, NEW c \in Calls, NEW files \in Batches, Ask(c, files)
  PROVE  Promised!Ask(c, files)
<1>1. ShownCalls[c].at = "free"
  BY StageShown DEF Ask, At
<1>2. PICK call : call = [NoCall EXCEPT !.at = "inspect", !.files = files]
  OBVIOUS
<1>3. PICK seen : seen = [Promised!NoCall EXCEPT !.at = "asked", !.files = files]
  OBVIOUS
<1>4. seen = SeenCall(call)
  BY <1>2, <1>3 DEF SeenCall, NoCall, Promised!NoCall, Stage, Bare
<1>5. Promised!Set(c, seen)
  BY <1>2, <1>4, SetShown DEF Ask
<1>6. Show(lib)' = Show(lib) /\ ShownGiven' = ShownGiven
  BY RestShown DEF Ask
<1> QED
  BY <1>1, <1>3, <1>5, <1>6 DEF Promised!Ask, ShownCalls, ShownGiven, Show

(* A client sends an inspection.                                           *)
LEMMA SubmitShown ==
  ASSUME IInv, NEW c \in Calls, NEW doc \in given, Submit(c, doc.files, doc)
  PROVE  \E d \in ShownGiven : Promised!Submit(c, d.files, d)
<1>1. ShownCalls[c].at = "free"
  BY StageShown DEF Submit, At
<1>2. PICK call : call = [at |-> "commit", files |-> doc.files, doc |-> doc, answer |-> None]
  OBVIOUS
<1>3. PICK d : d = Bare(doc)
  OBVIOUS
<1>4. d \in ShownGiven /\ d.files = doc.files
  BY <1>3, DocShown
<1>5. PICK seen : seen = [at |-> "sent", files |-> d.files, doc |-> d, answer |-> None]
  OBVIOUS
<1>6. seen = SeenCall(call)
  <2>1. Stage("commit") = "sent"
    BY DEF Stage
  <2>2. SeenCall(call) = [call EXCEPT !.at = "sent", !.doc = d]
    BY <1>2, <1>3, <2>1 DEF SeenCall
  <2> QED
    BY <1>2, <1>4, <1>5, <2>2
<1>7. Promised!Set(c, seen)
  BY <1>2, <1>6, SetShown DEF Submit
<1>8. Show(lib)' = Show(lib) /\ ShownGiven' = ShownGiven
  BY RestShown DEF Submit
<1>9. Promised!Submit(c, d.files, d)
  BY <1>1, <1>5, <1>7, <1>8 DEF Promised!Submit, ShownCalls, ShownGiven, Show
<1> QED
  BY <1>4, <1>9

(* A client takes its answer.                                              *)
LEMMA ReceiveShown ==
  ASSUME IInv, NEW c \in Calls, Receive(c)
  PROVE  Promised!Receive(c)
<1>1. ShownCalls[c].at = "answered"
  BY StageShown DEF Receive, At
<1>2. Promised!NoCall = SeenCall(NoCall)
  BY DEF SeenCall, NoCall, Promised!NoCall, Stage, Bare
<1>3. PICK call : call = NoCall
  OBVIOUS
<1>4. Promised!Set(c, Promised!NoCall)
  BY <1>2, <1>3, SetShown DEF Receive
<1>5. Show(lib)' = Show(lib) /\ ShownGiven' = ShownGiven
  BY RestShown DEF Receive
<1> QED
  BY <1>1, <1>4, <1>5 DEF Promised!Receive, ShownCalls, ShownGiven, Show

(* A request moves to a step that clients do not tell from its last.       *)
LEMMA StepHidden ==
  ASSUME IInv, NEW c \in Calls, NEW step, Stage(step) = Stage(calls[c].at),
         calls' = [calls EXCEPT ![c].at = step]
  PROVE  ShownCalls' = ShownCalls
<1>1. PICK call : call = [calls[c] EXCEPT !.at = step]
  OBVIOUS
<1>2. calls[c] \in Requests
  BY DEF IInv, RequestsKnown
<1>3. SeenCall(call) = SeenCall(calls[c])
  BY <1>1, <1>2 DEF SeenCall, Requests
<1>4. calls' = [calls EXCEPT ![c] = call]
  BY <1>1
<1>5. ShownCalls' = [ShownCalls EXCEPT ![c] = SeenCall(call)]
  BY <1>4, CallShown
<1> QED
  BY <1>3, <1>5 DEF ShownCalls

(* A request is let in.                                                    *)
LEMMA EnterShown ==
  ASSUME IInv, NEW c \in Calls, Enter(c)
  PROVE  UNCHANGED Shown
<1>1. PICK step : step = IF calls[c].at = "inspect" THEN "inspecting" ELSE "staged"
  OBVIOUS
<1>2. calls' = [calls EXCEPT ![c].at = step]
  BY <1>1 DEF Enter
<1>3. Stage(step) = Stage(calls[c].at)
  BY <1>1 DEF Enter, Stage
<1>4. ShownCalls' = ShownCalls
  BY <1>2, <1>3, StepHidden
<1> QED
  BY <1>4, RestShown DEF Enter, Shown

(* A request is turned away, or fails, before the library is looked at.    *)
LEMMA EarlyRefusalShown ==
  ASSUME IInv, NEW c \in Calls, TurnAway(c) \/ StagingFails(c) \/ NoIdentity(c)
  PROVE  Promised!Refuse(c)
<1>1. /\ calls' = [calls EXCEPT ![c] = Answered("refused")]
      /\ given' = given /\ lib' = lib
  BY DEF TurnAway, StagingFails, NoIdentity, Answer
<1>2. calls[c].at \in {"inspect", "inspecting"} \cup Waiting
  BY DEF TurnAway, StagingFails, NoIdentity, At, Waiting
<1> QED
  BY <1>1, <1>2, RefuseShown

(* The names an inspection may give are the same.                          *)
LEMMA NamesShown ==
  ASSUME IInv, NEW batch
  PROVE  Namings(batch, lib.mem.profiles, given)
           = Promised!Namings(batch, lib.mem.profiles, ShownGiven)
<1>1. UNION {Ids(d.records) : d \in given} = UNION {Ids(d.records) : d \in ShownGiven}
  <2>1. \A d \in given : Bare(d) \in ShownGiven /\ Bare(d).records = d.records
    BY DocShown
  <2>2. \A b \in ShownGiven : \E d \in given : b = Bare(d)
    BY DEF ShownGiven
  <2> QED
    BY <2>1, <2>2
<1>2. \A S : Promised!Ids(S) = Ids(S)
  BY DEF Promised!Ids, Ids
<1>3. \A S, x : Promised!Holds(S, x) = Holds(S, x)
  BY DEF Promised!Holds, Holds
<1>4. Promised!Accepted(batch) = Accepted(batch)
  BY DEF Promised!Accepted, Accepted, Promised!Files, Files
<1>5. Promised!Profiles = Profiles
  BY DEF Promised!Profiles, Profiles
<1> QED
  BY <1>1, <1>2, <1>3, <1>4, <1>5 DEF Namings, Promised!Namings

(* The files are inspected.                                                *)
LEMMA InspectShown ==
  ASSUME IInv, NEW c \in Calls, Inspect(c)
  PROVE  Promised!Inspect(c)
<1>1. PICK files : files = calls[c].files
  OBVIOUS
<1>2. PICK name \in Namings(files, lib.mem.profiles, given) :
        LET doc   == Inspection(files, name)
            ready == Ready(files)
        IN  /\ given' = given \cup {doc}
            /\ calls' = [calls EXCEPT ![c] =
                 [Answered(IF ready THEN "inspected" ELSE "issues") EXCEPT !.doc = doc]]
  BY <1>1 DEF Inspect
<1>3. PICK doc : doc = Inspection(files, name)
  OBVIOUS
<1>4. PICK answer : answer = IF Ready(files) THEN "inspected" ELSE "issues"
  OBVIOUS
<1>5. PICK call : call = [Answered(answer) EXCEPT !.doc = doc]
  OBVIOUS
<1>6. PICK bare : bare = [files |-> files, records |-> RecordsOf(files, name, lib.mem.profiles)]
  OBVIOUS
<1>7. doc # None
  <2>1. files \in Batches
    BY <1>1 DEF Inspect, At, IInv, RequestsKnown, RequestKnown
  <2>2. lib \in Known
    BY DEF IInv, LibraryKnown
  <2>3. lib.mem \in Snapshots /\ lib.mem.profiles \in SUBSET Entries
    BY <2>2 DEF Known, Snapshots
  <2>4. RecordsOf(files, name, lib.mem.profiles) \subseteq Records
    BY <2>1, <2>3, RecordsKnown
  <2>5. doc \in Inspections
    BY <1>3, <2>1, <2>3, <2>4 DEF Inspection, Inspections
  <2> QED
    BY <2>5, NoneAssumption
<1>8. Bare(doc) = bare
  BY <1>3, <1>6, <1>7 DEF Bare, Inspection
<1>9. given' = given \cup {doc} /\ calls' = [calls EXCEPT ![c] = call]
  BY <1>2, <1>3, <1>4, <1>5
<1>10. ShownGiven' = ShownGiven \cup {bare}
  BY <1>8, <1>9 DEF ShownGiven, Bare
<1>11. PICK seen : seen = [Promised!Answered(answer) EXCEPT !.doc = bare]
  OBVIOUS
<1>12. seen = SeenCall(call)
  BY <1>5, <1>8, <1>11 DEF SeenCall, Answered, NoCall, Stage, Promised!Answered, Promised!NoCall
<1>13. Promised!Set(c, seen)
  BY <1>9, <1>12, SetShown
<1>14. ShownCalls[c].at = "asked" /\ ShownCalls[c].files = files
  BY <1>1, StageShown DEF Inspect, At
<1>15. name \in Promised!Namings(files, lib.mem.profiles, ShownGiven)
  BY <1>2, NamesShown
<1>16. Promised!RecordsOf(files, name, lib.mem.profiles) = RecordsOf(files, name, lib.mem.profiles)
  BY DEF Promised!RecordsOf, RecordsOf, Promised!Holds, Holds, Promised!Accepted, Accepted,
         Promised!Files, Files
<1>17. Promised!Ready(files) = Ready(files)
  BY DEF Promised!Ready, Ready, Promised!Files, Files
<1>18. Show(lib)' = Show(lib) /\ Show(lib).mem = lib.mem.profiles
  BY RestShown DEF Inspect, Show
<1> QED
  BY <1>4, <1>6, <1>10, <1>11, <1>13, <1>14, <1>15, <1>16, <1>17, <1>18
     DEF Promised!Inspect, ShownCalls, ShownGiven, Show

(* A handler returns.                                                      *)
LEMMA AnswerShown ==
  ASSUME IInv, NEW c \in Calls, NEW answer, Answer(c, answer)
  PROVE  Promised!Set(c, Promised!Answered(answer))
<1>1. PICK call : call = Answered(answer)
  OBVIOUS
<1>2. Promised!Answered(answer) = SeenCall(call)
  BY <1>1, AnsweredShown
<1> QED
  BY <1>1, <1>2, SetShown DEF Answer

(* A commit succeeds.                                                      *)
LEMMA AcceptShown ==
  ASSUME IInv, NEW c \in Calls, Accept(c)
  PROVE  Promised!Done(c)
<1>1. PICK call : call = [calls[c] EXCEPT !.at = "committed"]
  OBVIOUS
<1>2. calls' = [calls EXCEPT ![c] = call]
  BY <1>1 DEF Accept, GoTo
<1>3. calls[c] \in Requests
  BY DEF IInv, RequestsKnown
<1>4. Stage("committed") = "done"
  BY DEF Stage
<1>5. PICK seen : seen = [ShownCalls[c] EXCEPT !.at = "done"]
  OBVIOUS
<1>6. seen = SeenCall(call)
  <2>1. ShownCalls[c] = [calls[c] EXCEPT !.at = Stage(calls[c].at), !.doc = Bare(calls[c].doc)]
    BY StageShown DEF SeenCall
  <2>2. SeenCall(call) = [call EXCEPT !.at = "done", !.doc = Bare(calls[c].doc)]
    BY <1>1, <1>3, <1>4 DEF SeenCall, Requests
  <2> QED
    BY <1>1, <1>3, <1>5, <2>1, <2>2 DEF Requests
<1>7. Promised!Set(c, seen)
  BY <1>2, <1>6, SetShown
<1> QED
  BY <1>5, <1>7 DEF Promised!Done, ShownCalls

(* The batch of a request that waits for its answer.                       *)
LEMMA BatchShown ==
  ASSUME IInv, NEW c \in Calls, calls[c].at \in Sent
  PROVE  /\ ShownCalls[c].doc.records = calls[c].doc.records
         /\ calls[c].at \in Waiting => ShownCalls[c].at = "sent"
         /\ Promised!Described(ShownCalls[c].doc.records) = Described(calls[c].doc.records)
         /\ Promised!Added(ShownCalls[c].doc.records) = Added(calls[c].doc.records)
         /\ Promised!Ids(ShownCalls[c].doc.records) = Ids(calls[c].doc.records)
<1>1. calls[c].doc \in given
  BY DEF IInv, RequestsKnown, RequestKnown
<1>2. ShownCalls[c].doc.records = calls[c].doc.records
  BY <1>1, StageShown, DocShown
<1>3. calls[c].at \in Waiting => ShownCalls[c].at = "sent"
  BY StageShown
<1> QED
  BY <1>2, <1>3 DEF Promised!Described, Described, Promised!Added, Added, Promised!Ids, Ids

(* The manager's gate is taken, or not had.                                *)
LEMMA AdmitShown ==
  ASSUME IInv, NEW c \in Calls, Admit(c)
  PROVE  Promised!Refuse(c) \/ UNCHANGED Shown
<1>1. calls[c].at = "staged" /\ UNCHANGED <<lib, given>>
  BY DEF Admit, At
<1>2. CASE GoTo(c, "admitted")
  <2>1. Stage("admitted") = Stage(calls[c].at)
    BY <1>1 DEF Stage
  <2>2. ShownCalls' = ShownCalls
    BY <1>2, <2>1, StepHidden DEF GoTo
  <2> QED
    BY <1>1, <2>2, RestShown DEF Shown
<1>3. CASE Answer(c, "refused")
  BY <1>1, <1>3, RefuseShown DEF Answer, Waiting
<1> QED
  BY <1>2, <1>3 DEF Admit

(* The receipt is checked.                                                 *)
LEMMA ValidateShown ==
  ASSUME IInv, NEW c \in Calls, Validate(c)
  PROVE  Promised!Refuse(c) \/ UNCHANGED Shown
<1>1. calls[c].at = "admitted" /\ UNCHANGED <<lib, given>>
  BY DEF Validate, At
<1>2. ASSUME NEW step \in {"repair", "publish"}, GoTo(c, step)
      PROVE  UNCHANGED Shown
  <2>1. Stage(step) = Stage(calls[c].at)
    BY <1>1 DEF Stage
  <2>2. ShownCalls' = ShownCalls
    BY <1>2, <2>1, StepHidden DEF GoTo
  <2> QED
    BY <1>1, <2>2, RestShown DEF Shown
<1>3. CASE Answer(c, "reinspect")
  BY <1>1, <1>3, RefuseShown DEF Answer, Waiting
<1> QED
  BY <1>2, <1>3 DEF Validate

(* The repair before a comparison.                                         *)
LEMMA RepairedShown ==
  ASSUME IInv, NEW c \in Calls, Repaired(c)
  PROVE  Promised!Unrepaired(c) \/ Promised!Rewrite
<1>1. calls[c].at = "repair" /\ given' = given
  BY DEF Repaired, At
<1>2. PICK r \in RepairOutcomes(lib) :
        /\ lib' = r.lib
        /\ IF r.ok THEN GoTo(c, "replay") ELSE Answer(c, "ambiguous")
  BY DEF Repaired
<1>3. CASE r.ok
  <2>1. Stage("replay") = Stage(calls[c].at)
    BY <1>1 DEF Stage
  <2>2. ShownCalls' = ShownCalls
    BY <1>2, <1>3, <2>1, StepHidden DEF GoTo
  <2>3. Promised!Kept
    BY <1>2, KeptShown
  <2>4. ShownGiven' = ShownGiven
    BY <1>1, RestShown
  <2> QED
    BY <2>2, <2>3, <2>4 DEF Promised!Rewrite, ShownCalls, ShownGiven
<1>4. CASE ~r.ok
  <2>1. r.lib = lib /\ lib.unknown /\ May("store")
    BY <1>4 DEF RepairOutcomes
  <2>2. Promised!Set(c, Promised!Answered("ambiguous"))
    BY <1>2, <1>4, AnswerShown
  <2>3. ShownCalls[c].at = "sent"
    BY <1>1, BatchShown DEF Sent, Waiting
  <2>4. Show(lib)' = Show(lib) /\ ShownGiven' = ShownGiven /\ Show(lib).unknown
    BY <1>1, <1>2, <2>1, RestShown DEF Show
  <2> QED
    BY <2>1, <2>2, <2>3, <2>4
       DEF Promised!Unrepaired, ShownCalls, ShownGiven, Show, Promised!May, May
<1> QED
  BY <1>3, <1>4

(* A batch found in the library, durable as it is now.                     *)
LEMMA ReplayShown ==
  ASSUME IInv, NEW c \in Calls, Replay(c)
  PROVE  Promised!Refuse(c) \/ Promised!Confirm(c)
<1>1. calls[c].at = "replay" /\ UNCHANGED <<lib, given>>
  BY DEF Replay, At
<1>2. CASE Answer(c, "reinspect")
  BY <1>1, <1>2, RefuseShown DEF Answer, Waiting
<1>3. CASE Accept(c) /\ Described(calls[c].doc.records) \subseteq lib.mem.profiles
  <2>1. Promised!Done(c)
    BY <1>3, AcceptShown
  <2>2. lib.disk.profiles = lib.mem.profiles
    BY <1>1 DEF IInv, RequestsKnown, RequestKnown
  <2>3. /\ Show(lib)' = Show(lib) /\ ShownGiven' = ShownGiven
        /\ Show(lib).mem = lib.mem.profiles /\ Show(lib).disk = lib.disk.profiles
    BY <1>1, RestShown DEF Show
  <2>4. /\ ShownCalls[c].at = "sent"
        /\ Promised!Described(ShownCalls[c].doc.records) = Described(calls[c].doc.records)
    BY <1>1, BatchShown DEF Sent, Waiting
  <2> QED
    BY <1>3, <2>1, <2>2, <2>3, <2>4 DEF Promised!Confirm, ShownCalls, ShownGiven, Show
<1> QED
  BY <1>2, <1>3 DEF Replay

(* The answer is put together.                                             *)
LEMMA ReportShown ==
  ASSUME IInv, NEW c \in Calls, Report(c)
  PROVE  Promised!Report(c)
<1>1. calls[c].at = "committed" /\ UNCHANGED <<lib, given>>
  BY DEF Report, At
<1>2. PICK answer : answer = IF Ids(calls[c].doc.records) \subseteq Ids(lib.mem.profiles)
                             THEN "imported" ELSE "ambiguous"
  OBVIOUS
<1>3. Promised!Set(c, Promised!Answered(answer))
  BY <1>2, AnswerShown DEF Report
<1>4. ShownCalls[c].at = "done"
  BY <1>1, StageShown
<1>5. Promised!Ids(ShownCalls[c].doc.records) = Ids(calls[c].doc.records)
  BY <1>1, BatchShown DEF Sent
<1>6. Promised!Ids(lib.mem.profiles) = Ids(lib.mem.profiles)
  BY DEF Promised!Ids, Ids
<1>7. /\ Show(lib)' = Show(lib) /\ ShownGiven' = ShownGiven
      /\ Show(lib).mem = lib.mem.profiles
  BY <1>1, RestShown DEF Show
<1> QED
  BY <1>2, <1>3, <1>4, <1>5, <1>6, <1>7 DEF Promised!Report, ShownCalls, ShownGiven, Show

(* The answer to a batch that was written, or perhaps was.                 *)
Written(u) == IF u.ok THEN "done" ELSE IF u.lib.unknown THEN "ambiguous" ELSE "refused"

(* Store.Publish: the repair fails, the batch is refused, there is nothing *)
(* to add, or it is written.                                               *)
LEMMA PublishAtCases ==
  ASSUME IInv, NEW expected, NEW entries \in SUBSET Entries, NEW w \in PublishAt(expected, entries)
  PROVE  \/ /\ w.lib = lib /\ lib.unknown /\ May("store") /\ w.answer = "ambiguous"
         \/ \E r \in RepairOutcomes(lib) :
              /\ w.lib = r.lib
              /\ \/ w.answer \in {"reinspect", "refused"}
                 \/ /\ w.answer = "done" /\ entries = {}
                    /\ r.ok /\ r.lib.mem = lib.mem /\ lib.mem.rev = expected
         \/ \E r \in RepairOutcomes(lib) :
              /\ r.ok /\ r.lib \in Known /\ r.lib.mem = lib.mem /\ lib.mem.rev = expected
              /\ Unique(lib.mem.profiles \cup entries)
              /\ \E u \in PublishOutcomes(r.lib, Extended(lib.mem, entries)) :
                   /\ w.lib = u.lib
                   /\ w.answer = Written(u)
<1>1. PICK r \in RepairOutcomes(lib) :
        w \in (IF ~r.ok THEN {[lib |-> r.lib, answer |-> "ambiguous"]}
               ELSE IF r.lib.mem.rev # expected THEN {[lib |-> r.lib, answer |-> "reinspect"]}
               ELSE IF entries = {} THEN {[lib |-> r.lib, answer |-> "done"]}
               ELSE IF \/ Cardinality(r.lib.mem.profiles \cup entries) > MaxProfiles
                       \/ entries \cap r.lib.mem.profiles # {}
                       \/ ~Unique(r.lib.mem.profiles \cup entries)
                    THEN {[lib |-> r.lib, answer |-> "refused"]}
               ELSE {[lib |-> u.lib,
                      answer |-> IF u.ok THEN "done"
                                 ELSE IF u.lib.unknown THEN "ambiguous" ELSE "refused"] :
                       u \in PublishOutcomes(r.lib, Extended(r.lib.mem, entries))})
  BY DEF PublishAt
<1>2. r.lib \in Known /\ r.lib.mem = lib.mem
  BY Repairs DEF IInv, LibraryKnown
<1>3. CASE ~r.ok /\ w = [lib |-> r.lib, answer |-> "ambiguous"]
  <2>1. r.lib = lib /\ lib.unknown /\ May("store")
    BY <1>3 DEF RepairOutcomes
  <2> QED
    BY <1>3, <2>1
<1>4. CASE \/ w = [lib |-> r.lib, answer |-> "reinspect"]
           \/ w = [lib |-> r.lib, answer |-> "refused"]
  BY <1>4
<1>5. CASE /\ r.ok /\ r.lib.mem.rev = expected /\ entries = {}
           /\ w = [lib |-> r.lib, answer |-> "done"]
  BY <1>2, <1>5
<1>6. ASSUME r.ok, r.lib.mem.rev = expected, Unique(r.lib.mem.profiles \cup entries),
             NEW u \in PublishOutcomes(r.lib, Extended(r.lib.mem, entries)),
             w = [lib |-> u.lib,
                  answer |-> IF u.ok THEN "done"
                             ELSE IF u.lib.unknown THEN "ambiguous" ELSE "refused"]
      PROVE  /\ r.ok /\ r.lib \in Known /\ r.lib.mem = lib.mem /\ lib.mem.rev = expected
             /\ Unique(lib.mem.profiles \cup entries)
             /\ \E v \in PublishOutcomes(r.lib, Extended(lib.mem, entries)) :
                  /\ w.lib = v.lib
                  /\ w.answer = Written(v)
  BY <1>2, <1>6 DEF Written
<1> QED
  BY <1>1, <1>3, <1>4, <1>5, <1>6

(* The batch is written as a whole.                                        *)
LEMMA WholeBatchShown ==
  ASSUME IInv, NEW c \in Calls, calls[c].at = "publish", given' = given,
         NEW r \in RepairOutcomes(lib), r.ok, r.lib \in Known, r.lib.mem = lib.mem,
         lib.mem.rev = calls[c].doc.seen.rev,
         Unique(lib.mem.profiles \cup Added(calls[c].doc.records)),
         NEW u \in PublishOutcomes(r.lib, Extended(lib.mem, Added(calls[c].doc.records))),
         lib' = u.lib,
         IF u.ok THEN Accept(c) ELSE Answer(c, Written(u))
  PROVE  Promised!Publish(c)
<1>1. PICK entries : entries = Added(calls[c].doc.records)
  OBVIOUS
<1>2. PICK new : new = Extended(lib.mem, entries)
  OBVIOUS
<1>3. lib \in Known /\ entries \in SUBSET Entries
  BY <1>1, PublishKnown DEF IInv, LibraryKnown
<1>4. new \in Snapshots /\ new.profiles = lib.mem.profiles \cup entries
  BY <1>2, <1>3 DEF Known, Snapshots, Extended
<1>5. PICK v : v = [lib |-> Show(u.lib), ok |-> u.ok]
  OBVIOUS
<1>6. v \in Promised!WriteOutcomes(Show(lib), new.profiles)
  BY <1>1, <1>2, <1>3, <1>4, <1>5, RepairThenPublish
<1>7. v.lib = Show(lib)' /\ v.ok = u.ok
  BY <1>5 DEF Show
<1>8. Described(calls[c].doc.records) \subseteq lib.mem.profiles \cup entries
  BY <1>1, PublishKnown DEF Current
<1>9. /\ ShownCalls[c].at = "sent"
      /\ Promised!Described(ShownCalls[c].doc.records) = Described(calls[c].doc.records)
      /\ Promised!Added(ShownCalls[c].doc.records) = entries
  BY <1>1, BatchShown DEF Sent, Waiting
<1>10. Promised!Unique(lib.mem.profiles \cup entries)
  BY <1>1 DEF Promised!Unique, Unique
<1>a. v.lib.unknown = u.lib.unknown
  BY <1>5 DEF Show
<1>11. IF v.ok THEN Promised!Done(c)
       ELSE \/ Promised!Set(c, Promised!Answered("ambiguous"))
            \/ ~v.lib.unknown /\ Promised!Set(c, Promised!Answered("refused"))
  <2>1. CASE u.ok
    BY <2>1, <1>7, AcceptShown
  <2>2. CASE ~u.ok /\ u.lib.unknown
    BY <2>2, <1>7, AnswerShown DEF Written
  <2>3. CASE ~u.ok /\ ~u.lib.unknown
    BY <2>3, <1>7, <1>a, AnswerShown DEF Written
  <2> QED
    BY <2>1, <2>2, <2>3
<1>12. ShownGiven' = ShownGiven /\ Show(lib).mem = lib.mem.profiles
  BY RestShown DEF Show
<1> QED
  BY <1>4, <1>6, <1>7, <1>8, <1>9, <1>10, <1>11, <1>12
     DEF Promised!Publish, ShownCalls, ShownGiven, Show

(* There was nothing to write: the batch is in the library already.        *)
LEMMA NothingToAddShown ==
  ASSUME IInv, NEW c \in Calls, calls[c].at = "publish", given' = given,
         NEW r \in RepairOutcomes(lib), r.ok, lib' = r.lib,
         lib.mem.rev = calls[c].doc.seen.rev,
         Added(calls[c].doc.records) = {}, Accept(c)
  PROVE  Promised!Confirm(c)
<1>1. Promised!Kept
  BY KeptShown
<1>2. Promised!Done(c)
  BY AcceptShown
<1>3. Described(calls[c].doc.records) \subseteq lib.mem.profiles
  BY PublishKnown DEF Current
<1>4. lib'.mem = lib.mem /\ lib'.disk = lib.mem
  BY Repairs DEF IInv, LibraryKnown
<1>5. /\ Show(lib)'.mem = lib.mem.profiles /\ Show(lib)'.disk = lib.mem.profiles
      /\ ShownGiven' = ShownGiven
  BY <1>4, RestShown DEF Show
<1>6. /\ ShownCalls[c].at = "sent"
      /\ Promised!Described(ShownCalls[c].doc.records) = Described(calls[c].doc.records)
  BY BatchShown DEF Sent, Waiting
<1> QED
  BY <1>1, <1>2, <1>3, <1>5, <1>6 DEF Promised!Confirm, ShownCalls, ShownGiven, Show

(* A commit that finds the library as it was inspected.                    *)
LEMMA PublishActionShown ==
  ASSUME IInv, NEW c \in Calls, Publish(c)
  PROVE  \/ Promised!Publish(c) \/ Promised!Confirm(c)
         \/ Promised!Refuse(c) \/ Promised!Unrepaired(c)
<1>1. calls[c].at = "publish" /\ given' = given
  BY DEF Publish, At
<1>2. PICK entries : entries = Added(calls[c].doc.records)
  OBVIOUS
<1>3. entries \in SUBSET Entries
  BY <1>1, <1>2, PublishKnown
<1>a. PICK expected : expected = calls[c].doc.seen.rev
  OBVIOUS
<1>4. PICK w \in PublishAt(expected, entries) :
        lib' = w.lib /\ IF w.answer = "done" THEN Accept(c) ELSE Answer(c, w.answer)
  BY <1>2, <1>a DEF Publish
<1>5. CASE w.lib = lib /\ lib.unknown /\ May("store") /\ w.answer = "ambiguous"
  <2>1. Promised!Set(c, Promised!Answered("ambiguous"))
    BY <1>4, <1>5, AnswerShown
  <2>2. ShownCalls[c].at = "sent"
    BY <1>1, BatchShown DEF Sent, Waiting
  <2>3. Show(lib)' = Show(lib) /\ ShownGiven' = ShownGiven /\ Show(lib).unknown
    BY <1>1, <1>4, <1>5, RestShown DEF Show
  <2> QED
    BY <1>5, <2>1, <2>2, <2>3
       DEF Promised!Unrepaired, ShownCalls, ShownGiven, Show, Promised!May, May
<1>6. ASSUME NEW r \in RepairOutcomes(lib), w.lib = r.lib, w.answer \in {"reinspect", "refused"}
      PROVE  Promised!Refuse(c)
  <2>1. PICK answer \in {"reinspect", "refused"} : answer = w.answer
    BY <1>6
  <2>2. calls' = [calls EXCEPT ![c] = Answered(answer)]
    BY <1>4, <2>1 DEF Answer
  <2>3. Promised!Kept
    BY <1>4, <1>6, KeptShown
  <2> QED
    BY <1>1, <2>1, <2>2, <2>3, RefuseShown DEF Waiting
<1>7. ASSUME NEW r \in RepairOutcomes(lib), w.lib = r.lib, w.answer = "done", entries = {},
             r.ok, lib.mem.rev = expected
      PROVE  Promised!Confirm(c)
  BY <1>1, <1>2, <1>a, <1>4, <1>7, NothingToAddShown
<1>8. ASSUME NEW r \in RepairOutcomes(lib), r.ok, r.lib \in Known, r.lib.mem = lib.mem,
             lib.mem.rev = expected, Unique(lib.mem.profiles \cup entries),
             NEW u \in PublishOutcomes(r.lib, Extended(lib.mem, entries)), w.lib = u.lib,
             w.answer = Written(u)
      PROVE  Promised!Publish(c)
  <2>1. IF u.ok THEN Accept(c) ELSE Answer(c, Written(u))
    BY <1>4, <1>8 DEF Written
  <2> QED
    BY <1>1, <1>2, <1>a, <1>4, <1>8, <2>1, WholeBatchShown
<1>9. CASE \E r \in RepairOutcomes(lib) :
             /\ w.lib = r.lib
             /\ \/ w.answer \in {"reinspect", "refused"}
                \/ /\ w.answer = "done" /\ entries = {}
                   /\ r.ok /\ r.lib.mem = lib.mem /\ lib.mem.rev = expected
  BY <1>6, <1>7, <1>9
<1>10. CASE \E r \in RepairOutcomes(lib) :
              /\ r.ok /\ r.lib \in Known /\ r.lib.mem = lib.mem
              /\ lib.mem.rev = expected
              /\ Unique(lib.mem.profiles \cup entries)
              /\ \E u \in PublishOutcomes(r.lib, Extended(lib.mem, entries)) :
                   /\ w.lib = u.lib
                   /\ w.answer = Written(u)
  BY <1>8, <1>10
<1>11. \/ w.lib = lib /\ lib.unknown /\ May("store") /\ w.answer = "ambiguous"
       \/ \E r \in RepairOutcomes(lib) :
            /\ w.lib = r.lib
            /\ \/ w.answer \in {"reinspect", "refused"}
               \/ /\ w.answer = "done" /\ entries = {}
                  /\ r.ok /\ r.lib.mem = lib.mem /\ lib.mem.rev = expected
       \/ \E r \in RepairOutcomes(lib) :
            /\ r.ok /\ r.lib \in Known /\ r.lib.mem = lib.mem /\ lib.mem.rev = expected
            /\ Unique(lib.mem.profiles \cup entries)
            /\ \E u \in PublishOutcomes(r.lib, Extended(lib.mem, entries)) :
                 /\ w.lib = u.lib
                 /\ w.answer = Written(u)
  BY <1>3, PublishAtCases
<1> QED
  BY <1>5, <1>9, <1>10, <1>11

-----------------------------------------------------------------------------
(* The library changes otherwise.                                          *)
LEMMA WrittenShown ==
  ASSUME IInv, NEW m \in Snapshots, NEW w \in WriteOutcomes(lib, m), lib' = w.lib,
         UNCHANGED <<given, calls>>,
         \/ m.profiles = lib.mem.profiles
         \/ \E entry \in lib.mem.profiles : m.profiles = lib.mem.profiles \ {entry}
  PROVE  Promised!Rewrite
<1>1. PICK v : v = [lib |-> Show(w.lib), ok |-> w.ok]
  OBVIOUS
<1>2. v \in Promised!WriteOutcomes(Show(lib), m.profiles)
  BY <1>1, WriteShown DEF IInv, LibraryKnown
<1>3. v.lib = Show(lib)' /\ Show(lib).mem = lib.mem.profiles
  BY <1>1 DEF Show
<1>4. ShownGiven' = ShownGiven /\ ShownCalls' = ShownCalls
  BY RestShown DEF ShownCalls, SeenCall, Stage, Bare
<1> QED
  BY <1>2, <1>3, <1>4 DEF Promised!Rewrite, ShownCalls, ShownGiven, Show

(* Preferences, metadata, a removal.                                       *)
LEMMA EnvironmentShown ==
  ASSUME IInv, Change \/ \E entry \in Entries : Remove(entry)
  PROVE  Promised!Rewrite
<1>1. lib.mem \in Snapshots
  BY DEF IInv, LibraryKnown, Known
<1>2. CASE Change
  <2>1. PICK m : m = [lib.mem EXCEPT !.rev = @ + 1]
    OBVIOUS
  <2>2. m \in Snapshots /\ m.profiles = lib.mem.profiles
    BY <1>1, <2>1 DEF Snapshots
  <2> QED
    BY <1>2, <2>1, <2>2, WrittenShown DEF Change
<1>3. ASSUME NEW entry \in Entries, Remove(entry) PROVE Promised!Rewrite
  <2>1. PICK m : m = Reduced(lib.mem, entry)
    OBVIOUS
  <2>2. m \in Snapshots /\ m.profiles = lib.mem.profiles \ {entry}
    BY <1>1, <2>1 DEF Snapshots, Reduced
  <2> QED
    BY <1>3, <2>1, <2>2, WrittenShown DEF Remove
<1> QED
  BY <1>2, <1>3

(* The daemon or the machine stops.                                        *)
LEMMA RestartShown ==
  ASSUME IInv, Restart
  PROVE  Promised!Restart
<1>1. PICK l : l \in {Durable(lib.disk), Durable(lib.mem)} /\ lib' = l
  BY DEF Restart, ReopenedAfterPowerLoss
<1>2. Show(lib)' = Show(l)
  BY <1>1 DEF Show
<1>3. Show(l) \in Promised!ReopenedAfterPowerLoss(Show(lib))
  <2>1. Show(Durable(lib.disk)) = Promised!Durable(Show(lib).disk)
    BY DEF Show, Durable, Promised!Durable
  <2>2. Show(Durable(lib.mem)) = Promised!Durable(Show(lib).mem)
    BY DEF Show, Durable, Promised!Durable
  <2> QED
    BY <1>1, <2>1, <2>2 DEF Promised!ReopenedAfterPowerLoss
<1>4. ShownGiven' = ShownGiven
  BY RestShown DEF Restart
<1>5. ShownCalls' = [c \in Calls |-> SeenCall(calls'[c])]
  BY DEF ShownCalls, SeenCall, Stage, Bare
<1>6. ASSUME NEW c \in Calls
      PROVE  SeenCall(calls'[c]) =
               IF ShownCalls[c].at \in {"free", "answered"} THEN ShownCalls[c]
               ELSE Promised!Answered("lost")
  <2>1. calls'[c] = IF calls[c].at \in {"free", "answered"} THEN calls[c] ELSE Answered("lost")
    BY DEF Restart
  <2>2. ShownCalls[c].at \in {"free", "answered"} <=> calls[c].at \in {"free", "answered"}
    <3>1. calls[c].at \in Steps
      BY DEF IInv, RequestsKnown, Requests
    <3> QED
      BY <3>1, StageShown DEF Steps, Waiting
  <2>3. SeenCall(Answered("lost")) = Promised!Answered("lost")
    BY AnsweredShown
  <2> QED
    BY <2>1, <2>2, <2>3, StageShown
<1> QED
  BY <1>2, <1>3, <1>4, <1>5, <1>6 DEF Promised!Restart, ShownCalls, ShownGiven, Show

(* No step does anything the contract does not allow.                      *)
LEMMA NextShown ==
  ASSUME IInv, [Next]_vars
  PROVE  Promised!Next \/ UNCHANGED Shown
<1>1. ASSUME NEW c \in Calls, NEW files \in Batches, Ask(c, files) PROVE Promised!Next
  BY <1>1, AskShown DEF Promised!Next
<1>2. ASSUME NEW c \in Calls, NEW doc \in given, Submit(c, doc.files, doc) PROVE Promised!Next
  BY <1>2, SubmitShown DEF Promised!Next, ShownGiven
<1>3. ASSUME NEW c \in Calls, Receive(c) PROVE Promised!Next
  BY <1>3, ReceiveShown DEF Promised!Next
<1>4. ASSUME NEW c \in Calls, Serve(c) PROVE Promised!Next \/ UNCHANGED Shown
  <2>1. CASE TurnAway(c) \/ StagingFails(c) \/ NoIdentity(c)
    BY <2>1, EarlyRefusalShown DEF Promised!Next, Promised!Serve
  <2>2. CASE Enter(c)
    BY <2>2, EnterShown
  <2>3. CASE Inspect(c)
    BY <2>3, InspectShown DEF Promised!Next, Promised!Serve
  <2>4. CASE Admit(c)
    BY <2>4, AdmitShown DEF Promised!Next, Promised!Serve
  <2>5. CASE Validate(c)
    BY <2>5, ValidateShown DEF Promised!Next, Promised!Serve
  <2>6. CASE Publish(c)
    BY <2>6, PublishActionShown DEF Promised!Next, Promised!Serve
  <2>7. CASE Repaired(c)
    BY <2>7, RepairedShown DEF Promised!Next, Promised!Serve, Promised!Environment
  <2>8. CASE Replay(c)
    BY <2>8, ReplayShown DEF Promised!Next, Promised!Serve
  <2>9. CASE Report(c)
    BY <2>9, ReportShown DEF Promised!Next, Promised!Serve
  <2> QED
    BY <1>4, <2>1, <2>2, <2>3, <2>4, <2>5, <2>6, <2>7, <2>8, <2>9 DEF Serve
<1>5. ASSUME Change \/ \E entry \in Entries : Remove(entry) PROVE Promised!Next
  BY <1>5, EnvironmentShown DEF Promised!Next, Promised!Environment
<1>6. ASSUME NEW doc \in issued, Expire(doc) PROVE UNCHANGED Shown
  BY <1>6, RestShown DEF Expire, Shown, ShownCalls, SeenCall, Stage, Bare
<1>7. CASE Restart
  BY <1>7, RestartShown DEF Promised!Next, Promised!Environment
<1>8. CASE UNCHANGED vars
  BY <1>8, RestShown DEF vars, Shown, ShownCalls, SeenCall, Stage, Bare
<1> QED
  BY <1>1, <1>2, <1>3, <1>4, <1>5, <1>6, <1>7, <1>8 DEF Next, Environment

(* An empty library and idle clients.                                      *)
LEMMA InitShown == Init => Promised!Init
<1> SUFFICES ASSUME Init PROVE Promised!Init
  OBVIOUS
<1>1. Show(lib) = Promised!Durable({})
  BY DEF Init, Show, Durable, Promised!Durable
<1>2. ShownGiven = {}
  BY DEF Init, ShownGiven
<1>3. ShownCalls = [c \in Calls |-> Promised!NoCall]
  BY DEF Init, ShownCalls, SeenCall, NoCall, Stage, Bare, Promised!NoCall
<1> QED
  BY <1>1, <1>2, <1>3 DEF Promised!Init, Show, ShownGiven, ShownCalls

(* Whatever the library goes through and whatever fails, the service does  *)
(* for each request what ImportContract says, and answers accordingly.     *)
THEOREM ImportImplementsContract == Spec => ImplementsContract
<1>1. IInv /\ [Next]_vars => [Promised!Next]_(Promised!vars)
  <2> SUFFICES ASSUME IInv, [Next]_vars PROVE [Promised!Next]_(Promised!vars)
    OBVIOUS
  <2> QED
    BY NextShown DEF Promised!vars, Shown, Show, ShownGiven, ShownCalls
<1> QED
  BY <1>1, InitShown, ImportInvariant, PTL DEF Spec, Promised!Spec, ImplementsContract
=============================================================================

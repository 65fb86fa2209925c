---------------------------- MODULE ImportProofs ----------------------------
(***************************************************************************)
(* Proofs about Import, for every set of files, IDs, requests and faults.  *)
(* The strengthening says what an inspection is worth at each step: those  *)
(* still honoured, and those whose commit has passed the check, are        *)
(* recognised by their revision; and each knows of every record whether    *)
(* the library holds it or the import adds it.                             *)
(***************************************************************************)
EXTENDS Import, RecordLemmas

Known == [mem : Snapshots, disk : Snapshots, unknown : BOOLEAN]

(* Flagged uncertain, or safe from a power loss.                           *)
Sound(l) == ~l.unknown => l.mem = l.disk

(* What an inspection showed is the library, or one that is no more.       *)
Current(d) == d.seen.rev <= lib.mem.rev /\ (d.seen.rev = lib.mem.rev => d.seen = lib.mem)

(* Each record is of the library inspected, or is added to it.             *)
Complete(d) == Described(d.records) \subseteq d.seen.profiles \cup Added(d.records)

Sent == {"commit", "staged", "admitted", "publish", "repair", "replay", "committed"}

(* What holds of the library and of the inspections given.                 *)
LibraryKnown ==
  /\ lib \in Known
  /\ given \subseteq Inspections
  /\ issued \subseteq given
  /\ acked \subseteq Entries
  /\ RevisionIdentifiesLibrary
  /\ NoContentTwice
  /\ AcknowledgedSurvives
  /\ Sound(lib)
  /\ \A d \in given : Complete(d)

Requests == [at : Steps, files : Batches \cup {<<>>}, doc : given \cup {None},
             answer : Answers]

(* What the step a request is at has established.                          *)
RequestKnown(call) ==
  /\ call.at \in {"inspect", "inspecting"} => call.files \in Batches
  /\ call.at \in Sent => call.doc \in given
  /\ call.at = "publish" => Current(call.doc)
  /\ call.at = "replay" => lib.disk.profiles = lib.mem.profiles

RequestsKnown ==
  /\ calls \in [Calls -> Requests]
  /\ gate \in Calls \cup {None}
  /\ GateIsHeldInside
  /\ \A c \in Calls : RequestKnown(calls[c])

IInv == LibraryKnown /\ RequestsKnown

-----------------------------------------------------------------------------
(* The outcomes of a store call, spelled out.                              *)

(* RepairDurability succeeds, or fails and changes nothing.                *)
LEMMA Repairs ==
  ASSUME NEW l \in Known, NEW r \in RepairOutcomes(l), Sound(l)
  PROVE  /\ r.lib \in Known /\ Sound(r.lib) /\ r.lib.mem = l.mem
         /\ r.lib = l \/ r.lib.disk = l.mem
         /\ r.ok => r.lib.disk = l.mem /\ ~r.lib.unknown
         /\ ~r.ok => r.lib = l
<1>1. \/ r = [lib |-> l, ok |-> TRUE] /\ ~l.unknown
      \/ r = [lib |-> l, ok |-> FALSE]
      \/ r = [lib |-> Durable(l.mem), ok |-> TRUE]
  BY DEF RepairOutcomes
<1>2. /\ Durable(l.mem) \in Known /\ Sound(Durable(l.mem))
      /\ Durable(l.mem).mem = l.mem /\ Durable(l.mem).disk = l.mem
      /\ ~Durable(l.mem).unknown
  BY DEF Known, Sound, Durable
<1>3. ~l.unknown => l.disk = l.mem
  BY DEF Sound
<1> QED
  BY <1>1, <1>2, <1>3

(* The manifest is published, perhaps not for good, or it is not.          *)
LEMMA Publishes ==
  ASSUME NEW l \in Known, NEW m \in Snapshots, NEW w \in PublishOutcomes(l, m), Sound(l)
  PROVE  /\ w.lib \in Known /\ Sound(w.lib)
         /\ \/ w.lib = l /\ ~w.ok
            \/ w.lib.mem = m /\ w.lib.disk \in {l.mem, m}
         /\ w.ok => w.lib.disk = m /\ w.lib.mem = m
<1> DEFINE ambiguous == [mem |-> m, disk |-> l.mem, unknown |-> TRUE]
<1>1. \/ w = [lib |-> Durable(m), ok |-> TRUE]
      \/ w = [lib |-> ambiguous, ok |-> FALSE]
      \/ w = [lib |-> l, ok |-> FALSE]
  BY DEF PublishOutcomes
<1>2. ambiguous \in Known /\ Sound(ambiguous) /\ ambiguous.mem = m /\ ambiguous.disk = l.mem
  BY DEF Known, Sound
<1>3. /\ Durable(m) \in Known /\ Sound(Durable(m))
      /\ Durable(m).mem = m /\ Durable(m).disk = m
  BY DEF Known, Sound, Durable
<1> HIDE DEF ambiguous
<1> QED
  BY <1>1, <1>2, <1>3

(* mutate: the two in a row.                                               *)
LEMMA Writes ==
  ASSUME NEW l \in Known, NEW m \in Snapshots, NEW w \in WriteOutcomes(l, m), Sound(l)
  PROVE  /\ w.lib \in Known /\ Sound(w.lib)
         /\ \/ w.lib = l
            \/ w.lib.mem = l.mem /\ w.lib.disk = l.mem
            \/ w.lib.mem = m /\ w.lib.disk \in {l.mem, m}
         /\ w.ok => w.lib.disk = m /\ w.lib.mem = m
<1>1. PICK r \in RepairOutcomes(l) : w \in IF r.ok THEN PublishOutcomes(r.lib, m) ELSE {r}
  BY DEF WriteOutcomes
<1>2. CASE r.ok
  <2>1. w \in PublishOutcomes(r.lib, m)
    BY <1>1, <1>2
  <2> QED
    BY <2>1, <1>2, Repairs, Publishes
<1>3. CASE ~r.ok
  <2>1. w = r
    BY <1>1, <1>3
  <2> QED
    BY <2>1, <1>3, Repairs
<1> QED
  BY <1>2, <1>3

-----------------------------------------------------------------------------
(* Steps of a request.                                                     *)

(* Nothing is lost by a step that leaves the library alone.                *)
LEMMA LibraryKept ==
  ASSUME IInv, UNCHANGED <<lib, given, acked>>, issued' \subseteq issued
  PROVE  LibraryKnown'
  BY DEF IInv, LibraryKnown, RevisionIdentifiesLibrary, NoContentTwice, AcknowledgedSurvives

(* One request moves on, the others are where they were.                   *)
LEMMA RequestMoves ==
  ASSUME IInv, NEW c \in Calls, NEW call,
         call \in Requests', RequestKnown(call)',
         calls' = [calls EXCEPT ![c] = call],
         given \subseteq given',
         gate' \in Calls \cup {None},
         gate' = c <=> call.at \in Inside,
         \A d \in Calls \ {c} : gate' = d <=> gate = d,
         \A d \in Calls \ {c} : RequestKnown(calls[d])'
  PROVE  RequestsKnown'
<1>1. calls' \in [Calls -> Requests']
  BY DEF IInv, RequestsKnown, Requests
<1>2. calls'[c] = call /\ \A d \in Calls \ {c} : calls'[d] = calls[d]
  BY DEF IInv, RequestsKnown
<1>3. GateIsHeldInside'
  BY <1>2 DEF IInv, RequestsKnown, GateIsHeldInside
<1>4. \A d \in Calls : RequestKnown(calls[d])'
  BY <1>2 DEF IInv, RequestsKnown
<1> QED
  BY <1>1, <1>3, <1>4 DEF RequestsKnown

(* Who holds the gate is alone between acquire and release.                *)
LEMMA OthersOutside ==
  ASSUME IInv, NEW c \in Calls, calls[c].at \in Inside, given \subseteq given',
         \A d \in Calls \ {c} : calls'[d] = calls[d]
  PROVE  /\ gate = c
         /\ \A d \in Calls \ {c} : calls[d].at \notin Inside
         /\ \A d \in Calls \ {c} : RequestKnown(calls[d])'
<1>1. gate = c /\ \A d \in Calls \ {c} : calls[d].at \notin Inside
  BY DEF IInv, RequestsKnown, GateIsHeldInside
<1>2. ASSUME NEW d \in Calls \ {c} PROVE RequestKnown(calls[d])'
  BY <1>1, <1>2 DEF IInv, RequestsKnown, RequestKnown, Inside
<1> QED
  BY <1>1, <1>2

(* A handler returns, whatever has become of the library.                  *)
LEMMA AnswerKeeps ==
  ASSUME IInv, NEW c \in Calls, NEW answer \in Answers, Answer(c, answer),
         calls[c].at \in Inside, UNCHANGED given
  PROVE  RequestsKnown'
<1>1. PICK call : call = Answered(answer)
  OBVIOUS
<1>2. call \in Requests' /\ call.at = "answered"
  BY <1>1 DEF Requests, Answered, NoCall, Steps
<1>3. RequestKnown(call)' /\ call.at \notin Inside
  BY <1>2 DEF RequestKnown, Inside, Sent
<1>4. calls' = [calls EXCEPT ![c] = call] /\ gate' = None
  BY <1>1 DEF Answer
<1>5. \A d \in Calls \ {c} : calls'[d] = calls[d]
  BY <1>4 DEF IInv, RequestsKnown
<1>6. gate = c /\ \A d \in Calls \ {c} : RequestKnown(calls[d])'
  BY <1>5, OthersOutside
<1>7. None \notin Calls
  BY ImportAssumption
<1> QED
  BY <1>2, <1>3, <1>4, <1>6, <1>7, RequestMoves

(* A commit goes on to its next step, whatever has become of the library.  *)
LEMMA GoToKeeps ==
  ASSUME IInv, NEW c \in Calls, NEW step \in Inside \cap Sent, GoTo(c, step),
         calls[c].at \in Inside \cap Sent, UNCHANGED given,
         step = "publish" => UNCHANGED lib /\ Current(calls[c].doc),
         step = "replay" => lib'.disk.profiles = lib'.mem.profiles
  PROVE  RequestsKnown'
<1>1. PICK call : call = [calls[c] EXCEPT !.at = step]
  OBVIOUS
<1>2. calls[c] \in Requests /\ calls[c].doc \in given
  BY DEF IInv, RequestsKnown, RequestKnown
<1>3. call \in Requests' /\ call.at = step /\ call.doc = calls[c].doc
  BY <1>1, <1>2 DEF Requests, Steps, Inside
<1>4. step = "publish" => Current(call.doc)'
  BY <1>3 DEF Current
<1>5. step \notin {"inspect", "inspecting"}
  BY DEF Sent
<1>6. RequestKnown(call)'
  BY <1>2, <1>3, <1>4, <1>5 DEF RequestKnown
<1>7. calls' = [calls EXCEPT ![c] = call] /\ gate' = gate
  BY <1>1 DEF GoTo
<1>8. \A d \in Calls \ {c} : calls'[d] = calls[d]
  BY <1>7 DEF IInv, RequestsKnown
<1>9. gate = c /\ \A d \in Calls \ {c} : RequestKnown(calls[d])'
  BY <1>8, OthersOutside
<1> QED
  BY <1>3, <1>6, <1>7, <1>9, RequestMoves

(* A request outside the gate moves, or takes it.                          *)
LEMMA OutsideMoves ==
  ASSUME IInv, NEW c \in Calls, NEW call \in Requests, RequestKnown(call),
         calls' = [calls EXCEPT ![c] = call], UNCHANGED <<lib, given>>,
         calls[c].at \notin Inside, call.at \notin {"publish", "replay"},
         \/ call.at \notin Inside /\ gate' = gate
         \/ call.at \in Inside /\ gate = None /\ gate' = c
  PROVE  RequestsKnown'
<1>1. call \in Requests' /\ RequestKnown(call)'
  BY DEF Requests, RequestKnown
<1>2. \A d \in Calls \ {c} : calls'[d] = calls[d]
  BY DEF IInv, RequestsKnown
<1>3. \A d \in Calls \ {c} : RequestKnown(calls[d])'
  BY <1>2 DEF IInv, RequestsKnown, RequestKnown, Current
<1>4. gate # c /\ None \notin Calls /\ gate \in Calls \cup {None}
  BY ImportAssumption DEF IInv, RequestsKnown, GateIsHeldInside
<1>5. /\ gate' \in Calls \cup {None}
      /\ gate' = c <=> call.at \in Inside
      /\ \A d \in Calls \ {c} : gate' = d <=> gate = d
  BY <1>4
<1> QED
  BY <1>1, <1>3, <1>5, RequestMoves

(* A client asks, sends, or takes its answer; acquireImport lets a request *)
(* in or turns it away.                                                    *)
LEMMA OutsideKeepsInv ==
  ASSUME IInv, NEW c \in Calls,
         \/ \E files \in Batches : Ask(c, files)
         \/ \E doc \in given : Submit(c, doc.files, doc)
         \/ TurnAway(c) \/ Enter(c) \/ Receive(c)
  PROVE  IInv'
<1> calls[c] \in Requests /\ RequestKnown(calls[c])
  BY DEF IInv, RequestsKnown
<1> calls[c].at \in Inside <=> gate = c
  BY DEF IInv, RequestsKnown, GateIsHeldInside
<1>1. LibraryKnown'
  BY LibraryKept DEF Ask, Submit, TurnAway, Enter, Receive
<1>2. ASSUME NEW files \in Batches, Ask(c, files) PROVE RequestsKnown'
  <2>1. PICK call : call = [NoCall EXCEPT !.at = "inspect", !.files = files]
    OBVIOUS
  <2>2. call \in Requests /\ RequestKnown(call)
    BY <2>1 DEF Requests, RequestKnown, NoCall, Steps, Sent, Answers
  <2> QED
    BY <1>2, <2>1, <2>2, OutsideMoves DEF Ask, At, NoCall, Inside
<1>3. ASSUME NEW doc \in given, Submit(c, doc.files, doc) PROVE RequestsKnown'
  <2>1. PICK call : call = [at |-> "commit", files |-> doc.files, doc |-> doc, answer |-> None]
    OBVIOUS
  <2>2. doc \in Inspections
    BY DEF IInv, LibraryKnown
  <2>3. doc.files \in Batches
    BY <2>2 DEF Inspections
  <2>4. call \in Requests /\ RequestKnown(call)
    BY <2>1, <2>3 DEF Requests, RequestKnown, Steps, Sent, Answers
  <2> QED
    BY <1>3, <2>1, <2>4, OutsideMoves DEF Submit, At, Inside
<1>4. ASSUME TurnAway(c) PROVE RequestsKnown'
  <2>1. PICK call : call = Answered("refused")
    OBVIOUS
  <2>2. call \in Requests /\ RequestKnown(call) /\ call.at = "answered"
    BY <2>1 DEF Requests, RequestKnown, Answered, NoCall, Steps, Sent, Answers
  <2> QED
    BY <1>4, <2>1, <2>2, OutsideMoves DEF TurnAway, Inside
<1>5. ASSUME Enter(c) PROVE RequestsKnown'
  <2>1. PICK call :
          call = [calls[c] EXCEPT !.at = IF @ = "inspect" THEN "inspecting" ELSE "staged"]
    OBVIOUS
  <2>2. call \in Requests /\ call.at = IF calls[c].at = "inspect" THEN "inspecting" ELSE "staged"
    BY <2>1 DEF Requests, Steps
  <2>3. call.files = calls[c].files /\ call.doc = calls[c].doc
    BY <2>1 DEF Requests
  <2>4. RequestKnown(call)
    BY <1>5, <2>2, <2>3 DEF Enter, RequestKnown, Sent
  <2>5. calls' = [calls EXCEPT ![c] = call]
    BY <1>5, <2>1 DEF Enter
  <2>6. /\ calls[c].at \notin Inside /\ call.at \in {"inspecting", "staged"}
        /\ call.at \in Inside /\ call.at \notin {"publish", "replay"}
    BY <1>5, <2>2 DEF Enter, Inside
  <2>7. gate = None /\ gate' = c /\ UNCHANGED <<lib, given>>
    BY <1>5 DEF Enter
  <2> QED
    BY <2>2, <2>4, <2>5, <2>6, <2>7, OutsideMoves
<1>6. ASSUME Receive(c) PROVE RequestsKnown'
  <2>1. PICK call : call = NoCall
    OBVIOUS
  <2>2. call \in Requests /\ RequestKnown(call) /\ call.at = "free"
    BY <2>1 DEF Requests, RequestKnown, NoCall, Steps, Sent, Answers
  <2> QED
    BY <1>6, <2>1, <2>2, OutsideMoves DEF Receive, At, Inside
<1> QED
  BY <1>1, <1>2, <1>3, <1>4, <1>5, <1>6 DEF IInv

(* The steps behind acquireImport that leave the library alone.            *)
LEMMA InsideKeepsInv ==
  ASSUME IInv, NEW c \in Calls,
         StagingFails(c) \/ NoIdentity(c) \/ Admit(c) \/ Validate(c) \/ Report(c)
  PROVE  IInv'
<1>1. LibraryKnown'
  BY LibraryKept DEF StagingFails, NoIdentity, Admit, Validate, Report
<1>2. ASSUME StagingFails(c) \/ NoIdentity(c) PROVE RequestsKnown'
  BY <1>2, AnswerKeeps DEF StagingFails, NoIdentity, At, Inside, Answers
<1>3. ASSUME Admit(c) PROVE RequestsKnown'
  BY <1>3, AnswerKeeps, GoToKeeps DEF Admit, At, Inside, Sent, Answers
<1>4. ASSUME Validate(c) PROVE RequestsKnown'
  <2>1. calls[c].at = "admitted" /\ UNCHANGED <<lib, given>>
    BY <1>4 DEF Validate, At
  <2>2. Honoured(c) => Current(calls[c].doc)
    BY DEF Honoured, IInv, LibraryKnown, RevisionIdentifiesLibrary, Current
  <2>3. \/ Answer(c, "reinspect") \/ GoTo(c, "repair")
        \/ Honoured(c) /\ GoTo(c, "publish")
    BY <1>4 DEF Validate
  <2> QED
    BY <2>1, <2>2, <2>3, AnswerKeeps, GoToKeeps DEF Inside, Sent, Answers
<1>5. ASSUME Report(c) PROVE RequestsKnown'
  BY <1>5, AnswerKeeps DEF Report, At, Inside, Answers
<1> QED
  BY <1>1, <1>2, <1>3, <1>4, <1>5 DEF IInv

(* Inspect: the inspection is complete, and current when it is given.      *)
LEMMA InspectKeepsInv ==
  ASSUME IInv, NEW c \in Calls, Inspect(c)
  PROVE  IInv'
<1> DEFINE files == calls[c].files
<1>1. PICK name \in Namings(files, lib.mem.profiles, given) :
        LET doc   == Inspection(files, name)
            ready == Ready(files)
        IN  /\ given' = given \cup {doc}
            /\ issued' = IF ready THEN issued \cup {doc} ELSE issued
            /\ calls' = [calls EXCEPT ![c] =
                 [Answered(IF ready THEN "inspected" ELSE "issues") EXCEPT !.doc = doc]]
  BY DEF Inspect
<1>2. PICK doc : doc = Inspection(files, name)
  OBVIOUS
<1>3. PICK call :
        call = [Answered(IF Ready(files) THEN "inspected" ELSE "issues") EXCEPT !.doc = doc]
  OBVIOUS
<1>4. /\ given' = given \cup {doc} /\ issued' \subseteq issued \cup {doc}
      /\ issued \subseteq issued' /\ calls' = [calls EXCEPT ![c] = call]
      /\ gate' = None /\ UNCHANGED <<lib, acked>> /\ calls[c].at = "inspecting"
  BY <1>1, <1>2, <1>3 DEF Inspect, At
<1>5. lib.mem \in Snapshots /\ files \in Batches
  BY <1>4 DEF IInv, LibraryKnown, Known, RequestsKnown, RequestKnown
<1>6. /\ doc = [files |-> files, seen |-> lib.mem,
                records |-> RecordsOf(files, name, lib.mem.profiles)]
  BY <1>2 DEF Inspection
<1>7. lib.mem.profiles \in SUBSET Entries
  BY <1>5 DEF Snapshots
<1>8. doc \in Inspections /\ Complete(doc) /\ doc.seen = lib.mem
  BY <1>5, <1>6, <1>7, RecordsKnown DEF Inspections, Complete
<1>9. LibraryKnown'
  <2>1. (\A d \in given : Complete(d))'
    BY <1>4, <1>8 DEF IInv, LibraryKnown, Complete
  <2>2. RevisionIdentifiesLibrary'
    <3>1. lib.mem.rev \in Nat
      BY <1>5 DEF Snapshots
    <3> QED
      BY <3>1, <1>4, <1>8 DEF IInv, LibraryKnown, RevisionIdentifiesLibrary
  <2> QED
    BY <1>4, <1>8, <2>1, <2>2
       DEF IInv, LibraryKnown, NoContentTwice, AcknowledgedSurvives
<1>10. call \in Requests' /\ call.at = "answered"
  BY <1>3, <1>4 DEF Requests, Answered, NoCall, Steps, Answers
<1>11. RequestKnown(call)' /\ call.at \notin Inside
  BY <1>10 DEF RequestKnown, Inside, Sent
<1>12. \A d \in Calls \ {c} : calls'[d] = calls[d]
  BY <1>4 DEF IInv, RequestsKnown
<1>13. gate = c /\ \A d \in Calls \ {c} : RequestKnown(calls[d])'
  BY <1>4, <1>12, OthersOutside DEF Inside
<1>14. None \notin Calls
  BY ImportAssumption
<1>15. RequestsKnown'
  BY <1>4, <1>10, <1>11, <1>13, <1>14, RequestMoves
<1> QED
  BY <1>9, <1>15 DEF IInv

-----------------------------------------------------------------------------
(* Steps that change the library.                                          *)

(* Each manifest published is a later one, so an inspection stays what it  *)
(* was: of the library as it is, or of one that is no more.                *)
Later == lib'.mem = lib.mem \/ lib'.mem.rev = lib.mem.rev + 1

(* Current inspections stay current.                                       *)
LEMMA CurrentStays ==
  ASSUME IInv, lib' \in Known, Later, NEW d \in given, Current(d)
  PROVE  Current(d)'
<1>1. d \in Inspections /\ lib \in Known
  BY DEF IInv, LibraryKnown
<1>2. d.seen.rev \in Nat /\ lib.mem.rev \in Nat
  BY <1>1 DEF Inspections, Known, Snapshots
<1>3. CASE lib'.mem = lib.mem
  BY <1>3 DEF Current
<1>4. CASE lib'.mem.rev = lib.mem.rev + 1
  BY <1>2, <1>4 DEF Current
<1> QED
  BY <1>3, <1>4 DEF Later

(* What has to be shown of a step that writes the library.                 *)
LEMMA LibraryMoves ==
  ASSUME IInv, lib' \in Known, Sound(lib)', Later, UNCHANGED given, issued' \subseteq issued,
         Unique(lib'.mem.profiles), Unique(lib'.disk.profiles),
         acked' \subseteq Entries,
         acked' \subseteq lib'.mem.profiles \cap lib'.disk.profiles
  PROVE  LibraryKnown'
<1>1. \A d \in given : Current(d) => Current(d)'
  BY CurrentStays
<1>2. RevisionIdentifiesLibrary'
  BY <1>1 DEF IInv, LibraryKnown, RevisionIdentifiesLibrary, Current
<1> QED
  BY <1>2 DEF IInv, LibraryKnown, NoContentTwice, AcknowledgedSurvives

(* exactReplay: the batch is in the library, and there for good.           *)
LEMMA ReplayKeepsInv ==
  ASSUME IInv, NEW c \in Calls, Replay(c)
  PROVE  IInv'
<1> DEFINE batch == Described(calls[c].doc.records)
<1>1. calls[c].at = "replay" /\ UNCHANGED <<lib, given, issued>>
  BY DEF Replay, At
<1>2. lib.disk.profiles = lib.mem.profiles /\ lib \in Known
  BY <1>1 DEF IInv, RequestsKnown, RequestKnown, LibraryKnown
<1>3. lib.mem.profiles \subseteq Entries
  BY <1>2 DEF Known, Snapshots
<1>4. ASSUME Accept(c), batch \subseteq lib.mem.profiles PROVE IInv'
  <2>1. acked' \subseteq Entries /\ acked' \subseteq lib'.mem.profiles \cap lib'.disk.profiles
    BY <1>1, <1>2, <1>3, <1>4 DEF Accept, IInv, LibraryKnown, AcknowledgedSurvives
  <2>2. LibraryKnown'
    BY <1>1, <2>1, LibraryMoves DEF IInv, LibraryKnown, Later, Sound, NoContentTwice
  <2>3. RequestsKnown'
    BY <1>1, <1>4, GoToKeeps DEF Accept, Inside, Sent
  <2> QED
    BY <2>2, <2>3 DEF IInv
<1>5. ASSUME Answer(c, "reinspect"), UNCHANGED acked PROVE IInv'
  <2>1. LibraryKnown'
    BY <1>1, <1>5, LibraryKept
  <2>2. RequestsKnown'
    BY <1>1, <1>5, AnswerKeeps DEF Inside, Answers
  <2> QED
    BY <2>1, <2>2 DEF IInv
<1> QED
  BY <1>4, <1>5 DEF Replay

(* A repair makes durable what is there.                                   *)
LEMMA RepairedKeepsInv ==
  ASSUME IInv, NEW c \in Calls, Repaired(c)
  PROVE  IInv'
<1>1. calls[c].at = "repair" /\ UNCHANGED <<given, issued, acked>>
  BY DEF Repaired, At
<1>2. PICK r \in RepairOutcomes(lib) :
        /\ lib' = r.lib
        /\ IF r.ok THEN GoTo(c, "replay") ELSE Answer(c, "ambiguous")
  BY DEF Repaired
<1>3. lib \in Known /\ Sound(lib)
  BY DEF IInv, LibraryKnown
<1>4. /\ lib' \in Known /\ Sound(lib)' /\ lib'.mem = lib.mem
      /\ lib' = lib \/ lib'.disk = lib.mem
      /\ r.ok => lib'.disk = lib.mem
  BY <1>2, <1>3, Repairs DEF Sound
<1>5. LibraryKnown'
  BY <1>1, <1>4, LibraryMoves
     DEF Later, IInv, LibraryKnown, NoContentTwice, AcknowledgedSurvives
<1>6. ASSUME r.ok, GoTo(c, "replay") PROVE RequestsKnown'
  BY <1>1, <1>4, <1>6, GoToKeeps DEF Inside, Sent
<1>7. ASSUME Answer(c, "ambiguous") PROVE RequestsKnown'
  BY <1>1, <1>7, AnswerKeeps DEF Inside, Answers
<1>8. RequestsKnown'
  BY <1>2, <1>6, <1>7
<1> QED
  BY <1>5, <1>8 DEF IInv

(* Store.Publish, as import.go calls it: the outcomes, spelled out.        *)
LEMMA PublishAtKnown ==
  ASSUME lib \in Known, Sound(lib), NEW expected, NEW entries \in SUBSET Entries,
         NEW w \in PublishAt(expected, entries)
  PROVE  \/ /\ w.lib \in Known /\ Sound(w.lib) /\ w.lib.mem = lib.mem
            /\ w.lib = lib \/ w.lib.disk = lib.mem
            /\ w.answer \in {"ambiguous", "reinspect", "refused"}
         \/ /\ w.lib \in Known /\ Sound(w.lib) /\ w.lib.mem = lib.mem
            /\ w.lib.disk = lib.mem /\ w.answer = "done"
            /\ lib.mem.rev = expected /\ entries = {}
         \/ /\ w.lib \in Known /\ Sound(w.lib)
            /\ w.lib.mem = Extended(lib.mem, entries)
            /\ w.lib.disk \in {lib.mem, Extended(lib.mem, entries)}
            /\ w.answer \in {"done", "ambiguous", "refused"}
            /\ w.answer = "done" => w.lib.disk = Extended(lib.mem, entries)
            /\ lib.mem.rev = expected /\ Unique(lib.mem.profiles \cup entries)
<1> DEFINE new == Extended(lib.mem, entries)
<1>1. PICK r \in RepairOutcomes(lib) :
        w \in (IF ~r.ok THEN {[lib |-> r.lib, answer |-> "ambiguous"]}
               ELSE IF r.lib.mem.rev # expected THEN {[lib |-> r.lib, answer |-> "reinspect"]}
               ELSE IF entries = {} THEN {[lib |-> r.lib, answer |-> "done"]}
               ELSE IF \/ Cardinality(r.lib.mem.profiles \cup entries) > MaxProfiles
                       \/ entries \cap r.lib.mem.profiles # {}
                       \/ ~Unique(r.lib.mem.profiles \cup entries)
                    THEN {[lib |-> r.lib, answer |-> "refused"]}
               ELSE {[lib |-> u.lib,
                      answer |-> IF u.ok THEN "done"
                                 ELSE IF u.lib.unknown THEN "ambiguous" ELSE "refused"] :
                       u \in PublishOutcomes(r.lib, Extended(r.lib.mem, entries))})
  BY DEF PublishAt
<1>2. /\ r.lib \in Known /\ Sound(r.lib) /\ r.lib.mem = lib.mem
      /\ r.lib = lib \/ r.lib.disk = lib.mem
      /\ r.ok => r.lib.disk = lib.mem
  BY Repairs
<1>3. CASE \/ ~r.ok /\ w = [lib |-> r.lib, answer |-> "ambiguous"]
           \/ w = [lib |-> r.lib, answer |-> "reinspect"]
           \/ w = [lib |-> r.lib, answer |-> "refused"]
  BY <1>2, <1>3
<1>4. CASE /\ r.ok /\ r.lib.mem.rev = expected /\ entries = {}
           /\ w = [lib |-> r.lib, answer |-> "done"]
  BY <1>2, <1>4
<1>5. ASSUME r.ok, r.lib.mem.rev = expected, Unique(r.lib.mem.profiles \cup entries),
             NEW u \in PublishOutcomes(r.lib, Extended(r.lib.mem, entries)),
             w = [lib |-> u.lib,
                  answer |-> IF u.ok THEN "done"
                             ELSE IF u.lib.unknown THEN "ambiguous" ELSE "refused"]
      PROVE  \/ /\ w.lib \in Known /\ Sound(w.lib) /\ w.lib.mem = lib.mem
                /\ w.lib = lib \/ w.lib.disk = lib.mem
                /\ w.answer \in {"ambiguous", "reinspect", "refused"}
             \/ /\ w.lib \in Known /\ Sound(w.lib) /\ w.lib.mem = new
                /\ w.lib.disk \in {lib.mem, new}
                /\ w.answer \in {"done", "ambiguous", "refused"}
                /\ w.answer = "done" => w.lib.disk = new
                /\ lib.mem.rev = expected /\ Unique(lib.mem.profiles \cup entries)
  <2>1. new \in Snapshots
    BY DEF Known, Snapshots, Extended
  <2>2. /\ u.lib \in Known /\ Sound(u.lib)
        /\ \/ u.lib = r.lib /\ ~u.ok
           \/ u.lib.mem = new /\ u.lib.disk \in {r.lib.mem, new}
        /\ u.ok => u.lib.disk = new /\ u.lib.mem = new
    BY <1>2, <2>1, Publishes
  <2> HIDE DEF new
  <2>3. w.lib = u.lib /\ w.answer \in {"done", "ambiguous", "refused"}
    BY <1>5
  <2>4. w.answer = "done" => u.ok
    BY <1>5
  <2>5. ~u.ok => w.answer \in {"ambiguous", "refused"}
    BY <1>5
  <2> QED
    BY <1>2, <1>5, <2>2, <2>3, <2>4, <2>5
<1>6. CASE /\ r.ok /\ r.lib.mem.rev = expected /\ Unique(r.lib.mem.profiles \cup entries)
           /\ \E u \in PublishOutcomes(r.lib, Extended(r.lib.mem, entries)) :
                w = [lib |-> u.lib,
                     answer |-> IF u.ok THEN "done"
                                ELSE IF u.lib.unknown THEN "ambiguous" ELSE "refused"]
  BY <1>5, <1>6
<1> QED
  BY <1>1, <1>3, <1>4, <1>6

(* Records become entries.                                                 *)
LEMMA DescribedAreEntries ==
  ASSUME NEW records \in SUBSET Records
  PROVE  Described(records) \in SUBSET Entries /\ Added(records) \in SUBSET Entries
  BY DEF Described, Added, Records, Entries

(* What a commit that has passed the check publishes, and onto what.       *)
LEMMA PublishKnown ==
  ASSUME IInv, NEW c \in Calls, calls[c].at = "publish"
  PROVE  /\ calls[c].doc \in given /\ Current(calls[c].doc)
         /\ Described(calls[c].doc.records) \in SUBSET Entries
         /\ Added(calls[c].doc.records) \in SUBSET Entries
         /\ Described(calls[c].doc.records)
              \subseteq calls[c].doc.seen.profiles \cup Added(calls[c].doc.records)
<1>1. calls[c].doc \in given /\ Current(calls[c].doc)
  BY DEF IInv, RequestsKnown, RequestKnown, Sent
<1>2. calls[c].doc \in Inspections /\ Complete(calls[c].doc)
  BY <1>1 DEF IInv, LibraryKnown
<1>3. calls[c].doc.records \in SUBSET Records
  BY <1>2 DEF Inspections
<1> QED
  BY <1>1, <1>2, <1>3, DescribedAreEntries DEF Complete

(* Store.Publish adds the whole batch to the library inspected, or nothing.*)
LEMMA PublishKeepsInv ==
  ASSUME IInv, NEW c \in Calls, Publish(c)
  PROVE  IInv'
<1> DEFINE doc     == calls[c].doc
           entries == Added(doc.records)
           batch   == Described(doc.records)
           new     == Extended(lib.mem, entries)
<1>1. calls[c].at = "publish" /\ UNCHANGED <<given, issued>>
  BY DEF Publish, At
<1>2. /\ Current(doc) /\ entries \in SUBSET Entries /\ batch \in SUBSET Entries
      /\ batch \subseteq doc.seen.profiles \cup entries
  BY <1>1, PublishKnown
<1>3. PICK w \in PublishAt(doc.seen.rev, entries) :
        /\ lib' = w.lib
        /\ IF w.answer = "done"
           THEN Accept(c)
           ELSE Answer(c, w.answer) /\ UNCHANGED acked
  BY DEF Publish
<1>4. /\ lib \in Known /\ Sound(lib)
      /\ Unique(lib.mem.profiles) /\ Unique(lib.disk.profiles)
      /\ acked \in SUBSET Entries /\ acked \subseteq lib.mem.profiles \cap lib.disk.profiles
  BY DEF IInv, LibraryKnown, NoContentTwice, AcknowledgedSurvives
<1>5. new.rev = lib.mem.rev + 1 /\ new.profiles = lib.mem.profiles \cup entries
  BY DEF Extended
<1>6. lib.mem.rev = doc.seen.rev => batch \subseteq lib.mem.profiles \cup entries
  BY <1>2 DEF Current
<1> HIDE DEF new, entries, batch
<1>7. CASE w.answer = "done"
  <2>1. GoTo(c, "committed") /\ acked' = acked \cup batch
    BY <1>3, <1>7 DEF Accept, batch
  <2>2. RequestsKnown'
    BY <1>1, <2>1, GoToKeeps DEF Inside, Sent
  <2>3. /\ w.lib \in Known /\ Sound(w.lib) /\ lib.mem.rev = doc.seen.rev
        /\ \/ w.lib.mem = lib.mem /\ w.lib.disk = lib.mem /\ entries = {}
           \/ /\ w.lib.mem = new /\ w.lib.disk = new
              /\ Unique(lib.mem.profiles \cup entries)
    BY <1>2, <1>4, <1>7, PublishAtKnown, ZenonT(60) DEF new
  <2>4. Later /\ lib' \in Known /\ Sound(lib)'
    BY <1>3, <1>5, <2>3 DEF Later, Sound
  <2>5. Unique(lib'.mem.profiles) /\ Unique(lib'.disk.profiles)
    BY <1>3, <1>4, <1>5, <2>3
  <2>6. acked' \subseteq Entries /\ acked' \subseteq lib'.mem.profiles \cap lib'.disk.profiles
    BY <1>2, <1>3, <1>4, <1>5, <1>6, <2>1, <2>3
  <2>7. LibraryKnown'
    BY <1>1, <2>4, <2>5, <2>6, LibraryMoves
  <2> QED
    BY <2>2, <2>7 DEF IInv
<1>8. CASE w.answer # "done"
  <2>1. Answer(c, w.answer) /\ UNCHANGED acked
    BY <1>3, <1>8
  <2>2. /\ w.lib \in Known /\ Sound(w.lib)
        /\ w.answer \in {"ambiguous", "reinspect", "refused"}
        /\ \/ w.lib.mem = lib.mem /\ (w.lib = lib \/ w.lib.disk = lib.mem)
           \/ /\ w.lib.mem = new /\ w.lib.disk \in {lib.mem, new}
              /\ Unique(lib.mem.profiles \cup entries)
    BY <1>2, <1>4, <1>8, PublishAtKnown DEF new
  <2>3. RequestsKnown'
    BY <1>1, <2>1, <2>2, AnswerKeeps DEF Inside, Answers
  <2>4. Later /\ lib' \in Known /\ Sound(lib)'
    BY <1>3, <1>5, <2>2 DEF Later, Sound
  <2>5. Unique(lib'.mem.profiles) /\ Unique(lib'.disk.profiles)
    BY <1>3, <1>4, <1>5, <2>2
  <2>6. acked' \subseteq Entries /\ acked' \subseteq lib'.mem.profiles \cap lib'.disk.profiles
    BY <1>3, <1>4, <1>5, <2>1, <2>2
  <2>7. LibraryKnown'
    BY <1>1, <2>4, <2>5, <2>6, LibraryMoves
  <2> QED
    BY <2>3, <2>7 DEF IInv
<1> QED
  BY <1>7, <1>8

(* Requests stay what they are through other changes of the library, the   *)
(* comparison of a repeated commit if what it compares with is durable.    *)
LEMMA RequestsStay ==
  ASSUME IInv, UNCHANGED <<given, calls, gate>>, lib' \in Known, Later,
         \A c \in Calls : calls[c].at = "replay" => lib'.disk.profiles = lib'.mem.profiles
  PROVE  RequestsKnown'
<1>1. ASSUME NEW c \in Calls PROVE RequestKnown(calls[c])'
  <2>1. RequestKnown(calls[c])
    BY DEF IInv, RequestsKnown
  <2>2. calls[c].at = "publish" => Current(calls[c].doc)'
    <3>1. calls[c].at = "publish" => Current(calls[c].doc) /\ calls[c].doc \in given
      BY <2>1 DEF RequestKnown, Sent
    <3>2. ASSUME NEW d \in given, Current(d), d = calls[c].doc PROVE Current(calls[c].doc)'
      BY <3>2, CurrentStays DEF Current
    <3> QED
      BY <3>1, <3>2
  <2>3. calls[c].at = "replay" => lib'.disk.profiles = lib'.mem.profiles
    OBVIOUS
  <2> QED
    BY <2>1, <2>2, <2>3 DEF RequestKnown
<1> QED
  BY <1>1 DEF IInv, RequestsKnown, Requests, GateIsHeldInside

(* SetPreferences and UpdateMetadata only make a later manifest of it.     *)
LEMMA ChangeKeepsInv ==
  ASSUME IInv, Change
  PROVE  IInv'
<1> DEFINE new == [lib.mem EXCEPT !.rev = @ + 1]
<1>1. PICK w \in WriteOutcomes(lib, new) : lib' = w.lib
  BY DEF Change
<1>2. UNCHANGED <<given, issued, calls, gate, acked>>
  BY DEF Change
<1>3. lib \in Known /\ Sound(lib)
  BY DEF IInv, LibraryKnown
<1>4. new \in Snapshots /\ new.rev = lib.mem.rev + 1 /\ new.profiles = lib.mem.profiles
  BY <1>3 DEF Known, Snapshots
<1> HIDE DEF new
<1>5. /\ lib' \in Known /\ Sound(lib)'
      /\ \/ lib' = lib
         \/ lib'.mem = lib.mem /\ lib'.disk = lib.mem
         \/ lib'.mem = new /\ lib'.disk \in {lib.mem, new}
  BY <1>1, <1>3, <1>4, Writes DEF Sound
<1>6. Later
  BY <1>4, <1>5 DEF Later
<1>7. /\ lib'.mem.profiles = lib.mem.profiles
      /\ lib'.disk.profiles \in {lib.mem.profiles, lib.disk.profiles}
  BY <1>4, <1>5
<1>8. LibraryKnown'
  BY <1>2, <1>5, <1>6, <1>7, LibraryMoves
     DEF IInv, LibraryKnown, NoContentTwice, AcknowledgedSurvives
<1>9. ASSUME NEW c \in Calls, calls[c].at = "replay"
      PROVE  lib'.disk.profiles = lib'.mem.profiles
  BY <1>7, <1>9 DEF IInv, RequestsKnown, RequestKnown
<1>10. RequestsKnown'
  BY <1>2, <1>5, <1>6, <1>9, RequestsStay
<1> QED
  BY <1>8, <1>10 DEF IInv

(* Remove takes a profile away, and what was reported of it.               *)
LEMMA RemoveKeepsInv ==
  ASSUME IInv, NEW entry \in Entries, Remove(entry)
  PROVE  IInv'
<1> DEFINE new == Reduced(lib.mem, entry)
<1>1. PICK w \in WriteOutcomes(lib, new) : lib' = w.lib
  BY DEF Remove
<1>2. UNCHANGED <<given, issued, calls, gate>> /\ acked' = acked \ {entry} /\ ~Admitted
  BY DEF Remove
<1>3. lib \in Known /\ Sound(lib)
  BY DEF IInv, LibraryKnown
<1>4. new \in Snapshots /\ new.rev = lib.mem.rev + 1 /\ new.profiles = lib.mem.profiles \ {entry}
  BY <1>3 DEF Known, Snapshots, Reduced
<1> HIDE DEF new
<1>5. /\ lib' \in Known /\ Sound(lib)'
      /\ \/ lib' = lib
         \/ lib'.mem = lib.mem /\ lib'.disk = lib.mem
         \/ lib'.mem = new /\ lib'.disk \in {lib.mem, new}
  BY <1>1, <1>3, <1>4, Writes DEF Sound
<1>6. Later
  BY <1>4, <1>5 DEF Later
<1>7. /\ lib'.mem.profiles \in {lib.mem.profiles, lib.mem.profiles \ {entry}}
      /\ lib'.disk.profiles \in
           {lib.disk.profiles, lib.mem.profiles, lib.mem.profiles \ {entry}}
  BY <1>4, <1>5
<1>8. Unique(lib'.mem.profiles) /\ Unique(lib'.disk.profiles)
  BY <1>7 DEF IInv, LibraryKnown, NoContentTwice, Unique
<1>9. acked' \subseteq Entries /\ acked' \subseteq lib'.mem.profiles \cap lib'.disk.profiles
  BY <1>2, <1>7 DEF IInv, LibraryKnown, AcknowledgedSurvives
<1>10. LibraryKnown'
  BY <1>2, <1>5, <1>6, <1>8, <1>9, LibraryMoves
<1>11. RequestsKnown'
  BY <1>2, <1>5, <1>6, RequestsStay DEF Admitted
<1> QED
  BY <1>10, <1>11 DEF IInv

(* After a restart nothing is honoured that was signed before, so it does  *)
(* not matter that the revision may have gone back.                        *)
LEMMA RestartKeepsInv ==
  ASSUME IInv, Restart
  PROVE  IInv'
<1>1. /\ lib' \in {Durable(lib.disk), Durable(lib.mem)}
      /\ issued' = {} /\ gate' = None /\ UNCHANGED <<given, acked>>
      /\ calls' = [c \in Calls |-> IF calls[c].at \in {"free", "answered"} THEN calls[c]
                                   ELSE Answered("lost")]
  BY DEF Restart, NewKey, ReopenedAfterPowerLoss
<1>2. lib'.mem \in {lib.mem, lib.disk} /\ lib'.disk = lib'.mem /\ lib' \in Known /\ Sound(lib)'
  <2>1. lib.mem \in Snapshots /\ lib.disk \in Snapshots
    BY DEF IInv, LibraryKnown, Known
  <2>2. \A m \in Snapshots :
          /\ Durable(m) \in Known /\ Sound(Durable(m))
          /\ Durable(m).mem = m /\ Durable(m).disk = m
    BY DEF Known, Durable, Sound
  <2> QED
    BY <1>1, <2>1, <2>2 DEF Sound
<1>3. LibraryKnown'
  BY <1>1, <1>2
     DEF IInv, LibraryKnown, RevisionIdentifiesLibrary, NoContentTwice, AcknowledgedSurvives,
         Complete
<1>4. ASSUME NEW c \in Calls
      PROVE  /\ calls'[c] \in Requests' /\ RequestKnown(calls[c])'
             /\ calls'[c].at \in {"free", "answered"}
  <2>1. calls[c] \in Requests
    BY DEF IInv, RequestsKnown
  <2>2. Answered("lost") \in Requests /\ Answered("lost").at = "answered"
    BY DEF Requests, Answered, NoCall, Steps, Answers
  <2>3. calls'[c] \in Requests /\ calls'[c].at \in {"free", "answered"}
    BY <1>1, <2>1, <2>2
  <2> QED
    BY <1>1, <2>3 DEF Requests, RequestKnown, Sent
<1>5. GateIsHeldInside'
  BY <1>1, <1>4, ImportAssumption DEF GateIsHeldInside, Inside
<1>6. calls' \in [Calls -> Requests']
  BY <1>1, <1>4
<1> QED
  BY <1>1, <1>3, <1>4, <1>5, <1>6 DEF IInv, RequestsKnown

(* Receipts expire and nothing else changes, or nothing does.              *)
LEMMA NothingMovesKeepsInv ==
  ASSUME IInv, UNCHANGED <<lib, given, calls, gate, acked>>, issued' \subseteq issued
  PROVE  IInv'
<1>1. LibraryKnown'
  BY LibraryKept
<1>2. RequestsKnown'
  BY DEF IInv, RequestsKnown, Requests, RequestKnown, Current, GateIsHeldInside
<1> QED
  BY <1>1, <1>2 DEF IInv

(* Every step of clients, handlers, other callers and the machine.         *)
LEMMA NextKeepsInv == IInv /\ [Next]_vars => IInv'
<1> SUFFICES ASSUME IInv, [Next]_vars PROVE IInv'
  OBVIOUS
<1>1. ASSUME NEW c \in Calls,
             \/ \E files \in Batches : Ask(c, files)
             \/ \E doc \in given : Submit(c, doc.files, doc)
             \/ TurnAway(c) \/ Enter(c) \/ Receive(c)
      PROVE  IInv'
  BY <1>1, OutsideKeepsInv
<1>2. ASSUME NEW c \in Calls,
             StagingFails(c) \/ NoIdentity(c) \/ Admit(c) \/ Validate(c) \/ Report(c)
      PROVE  IInv'
  BY <1>2, InsideKeepsInv
<1>3. ASSUME NEW c \in Calls, Inspect(c) \/ Publish(c) \/ Repaired(c) \/ Replay(c)
      PROVE  IInv'
  BY <1>3, InspectKeepsInv, PublishKeepsInv, RepairedKeepsInv, ReplayKeepsInv
<1>4. CASE Change
  BY <1>4, ChangeKeepsInv
<1>5. ASSUME NEW entry \in Entries, Remove(entry) PROVE IInv'
  BY <1>5, RemoveKeepsInv
<1>6. ASSUME NEW doc \in issued, Expire(doc) PROVE IInv'
  BY <1>6, NothingMovesKeepsInv DEF Expire
<1>7. CASE Restart
  BY <1>7, RestartKeepsInv
<1>8. CASE UNCHANGED vars
  BY <1>8, NothingMovesKeepsInv DEF vars
<1> QED
  BY <1>1, <1>2, <1>3, <1>4, <1>5, <1>6, <1>7, <1>8 DEF Next, Serve, Environment

(* Nothing is imported, asked or given at first.                           *)
LEMMA InitEstablishesInv == Init => IInv
<1> SUFFICES ASSUME Init PROVE IInv
  OBVIOUS
<1>1. lib = Durable([rev |-> 0, profiles |-> {}])
  BY DEF Init
<1>2. [rev |-> 0, profiles |-> {}] \in Snapshots
  BY DEF Snapshots
<1>3. lib \in Known /\ Sound(lib) /\ lib.mem.profiles = {} /\ lib.disk.profiles = {}
  BY <1>1, <1>2 DEF Known, Sound, Durable
<1>4. LibraryKnown
  BY <1>3 DEF Init, LibraryKnown, RevisionIdentifiesLibrary, NoContentTwice, Unique,
              AcknowledgedSurvives
<1>5. NoCall \in Requests /\ NoCall.at = "free"
  BY DEF Requests, NoCall, Steps, Answers
<1>6. RequestKnown(NoCall)
  BY <1>5 DEF RequestKnown, Sent
<1>7. RequestsKnown
  BY <1>5, <1>6, ImportAssumption DEF Init, RequestsKnown, GateIsHeldInside, Inside
<1> QED
  BY <1>4, <1>7 DEF IInv

-----------------------------------------------------------------------------
(* The invariant, for all files, IDs, requests, faults and bounds.         *)
THEOREM ImportInvariant == Spec => []IInv
<1>1. Init => IInv
  BY InitEstablishesInv
<1>2. IInv /\ [Next]_vars => IInv'
  BY NextKeepsInv
<1> QED
  BY <1>1, <1>2, PTL DEF Spec

(* What the service keeps and answers is well formed.                      *)
THEOREM ImportTypeCorrect == Spec => []TypeOK
<1>1. IInv => TypeOK
  BY DEF IInv, LibraryKnown, RequestsKnown, Known, Requests, TypeOK
<1> QED
  BY <1>1, ImportInvariant, PTL

(* acquireImport and releaseImport: one at a time, and never locked out.   *)
THEOREM GateIsGivenBack == Spec => []GateIsHeldInside
<1>1. IInv => GateIsHeldInside
  BY DEF IInv, RequestsKnown
<1> QED
  BY <1>1, ImportInvariant, PTL

(* ErrStaleInspection: comparing the revision is enough.                   *)
THEOREM RevisionIsEnough == Spec => []RevisionIdentifiesLibrary
<1>1. IInv => RevisionIdentifiesLibrary
  BY DEF IInv, LibraryKnown
<1> QED
  BY <1>1, ImportInvariant, PTL

(* No repetition of a commit makes duplicates.                             *)
THEOREM DuplicatesAreExcluded == Spec => []NoContentTwice
<1>1. IInv => NoContentTwice
  BY DEF IInv, LibraryKnown
<1> QED
  BY <1>1, ImportInvariant, PTL

(* What was reported as imported is there, and survives.                   *)
THEOREM AcknowledgedIsDurable == Spec => []AcknowledgedSurvives
<1>1. IInv => AcknowledgedSurvives
  BY DEF IInv, LibraryKnown
<1> QED
  BY <1>1, ImportInvariant, PTL

(* Publish adds the whole batch to the library its inspection showed.      *)
LEMMA PublishAddsTheBatch ==
  ASSUME IInv, NEW c \in Calls, Publish(c), lib'.mem.profiles \ lib.mem.profiles # {}
  PROVE  /\ calls[c].at = "publish"
         /\ calls[c].doc.seen = lib.mem
         /\ lib'.mem.profiles = lib.mem.profiles \cup Added(calls[c].doc.records)
<1> DEFINE doc == calls[c].doc
<1>1. calls[c].at = "publish"
  BY DEF Publish, At
<1>2. Current(doc) /\ Added(doc.records) \in SUBSET Entries
  BY <1>1, PublishKnown
<1>3. PICK w \in PublishAt(doc.seen.rev, Added(doc.records)) : lib' = w.lib
  BY DEF Publish
<1>4. lib \in Known /\ Sound(lib)
  BY DEF IInv, LibraryKnown
<1>5. w.lib.mem = Extended(lib.mem, Added(doc.records)) /\ lib.mem.rev = doc.seen.rev
  BY <1>2, <1>3, <1>4, PublishAtKnown
<1> QED
  BY <1>1, <1>2, <1>3, <1>5 DEF Extended, Current

(* No other step adds a profile, unless it undoes a change by power loss.  *)
LEMMA OthersAddNothing ==
  ASSUME IInv, Next, \A c \in Calls : ~Publish(c)
  PROVE  lib' = Durable(lib.disk) \/ lib'.mem.profiles \subseteq lib.mem.profiles
<1> lib \in Known /\ Sound(lib)
  BY DEF IInv, LibraryKnown
<1>1. ASSUME NEW c \in Calls, Repaired(c) PROVE lib'.mem = lib.mem
  BY <1>1, Repairs DEF Repaired
<1>2. CASE Change
  <2> DEFINE new == [lib.mem EXCEPT !.rev = @ + 1]
  <2>1. new \in Snapshots /\ new.profiles = lib.mem.profiles
    BY DEF Known, Snapshots
  <2>2. PICK w \in WriteOutcomes(lib, new) : lib' = w.lib
    BY <1>2 DEF Change
  <2> HIDE DEF new
  <2>3. lib' = lib \/ lib'.mem = lib.mem \/ lib'.mem = new
    BY <2>1, <2>2, Writes
  <2> QED
    BY <2>1, <2>3
<1>3. ASSUME NEW entry \in Entries, Remove(entry)
      PROVE  lib'.mem.profiles \subseteq lib.mem.profiles
  <2>1. Reduced(lib.mem, entry) \in Snapshots
    BY DEF Known, Snapshots, Reduced
  <2>2. Reduced(lib.mem, entry).profiles \subseteq lib.mem.profiles
    BY DEF Reduced
  <2> QED
    BY <1>3, <2>1, <2>2, Writes DEF Remove
<1>4. CASE Restart
  BY <1>4 DEF Restart, ReopenedAfterPowerLoss, Durable
<1>5. ASSUME UNCHANGED lib PROVE lib'.mem.profiles \subseteq lib.mem.profiles
  BY <1>5
<1> QED
  BY <1>1, <1>2, <1>3, <1>4, <1>5
     DEF Next, Serve, Environment, Ask, Submit, TurnAway, Enter, StagingFails, Inspect,
         NoIdentity, Admit, Validate, Replay, Report, Receive, Expire

(* Nothing appears in the library but what was inspected for it.           *)
THEOREM OnlyInspectedIsPublished == Spec => PublishesWhatWasInspected
<1>1. ASSUME IInv, [Next]_vars
      PROVE  [lib'.mem.profiles \ lib.mem.profiles # {} =>
                \/ lib' = Durable(lib.disk)
                \/ \E c \in Calls :
                     /\ calls[c].at = "publish"
                     /\ calls[c].doc.seen = lib.mem
                     /\ lib'.mem.profiles =
                          lib.mem.profiles \cup Added(calls[c].doc.records)]_vars
  BY <1>1, PublishAddsTheBatch, OthersAddNothing
<1> QED
  BY <1>1, ImportInvariant, PTL DEF Spec, PublishesWhatWasInspected
=============================================================================

---------------------------- MODULE DialogProofs ----------------------------
(***************************************************************************)
(* Proofs about ImportDialog, for any files, IDs, requests and faults.     *)
(* The strengthening says what an answer on its way is worth to the dialog *)
(* that waits for it, and why the IDs it finds in the library tell it that *)
(* its profiles were there: every profile ever held comes from an          *)
(* inspection, and an ID stands for one content among all of them.  The    *)
(* last part counts the steps a commit() can see before it has ended.      *)
(***************************************************************************)
EXTENDS ImportDialog, RecordLemmas

(* Every profile that some inspection describes.                           *)
Proposed == UNION {Described(d.records) : d \in given}

LibraryKnown ==
  /\ lib.mem \subseteq ever /\ lib.disk \subseteq ever
  /\ given \subseteq Inspections
  /\ ever \subseteq Proposed
  /\ \A e, f \in Proposed : e.id = f.id => e = f
  /\ \A d \in given : Described(d.records) \subseteq ever \cup Added(d.records)

Requests == [at : {"free", "asked", "sent", "done", "answered"}, files : Batches \cup {<<>>},
             doc : given \cup {None}, answer : Answers]

RequestKnown(call) ==
  /\ call \in Requests
  /\ call.at = "asked" => call.files \in Batches
  /\ call.at \in {"sent", "done"} => call.doc \in given
  /\ call.at = "done" => Described(call.doc.records) \subseteq ever
  /\ call.at = "answered" /\ call.answer \in {"inspected", "issues"} => call.doc \in given

(* What a commit() that waits for this request goes by.                    *)
Awaited(call, doc) ==
  /\ call.at \in {"sent", "done", "answered"}
  /\ call.at \in {"sent", "done"} => call.doc = doc
  /\ call.at = "answered" =>
       /\ call.answer \in {"imported", "refused", "reinspect", "ambiguous", "lost"}
       /\ call.answer = "imported" => Described(doc.records) \subseteq ever

Flows == [at : {"none", "waiting", "reconciling", "listed"}, doc : given \cup {None},
          present : SUBSET Profiles]

FlowKnown(c) ==
  /\ flow[c] \in Flows
  /\ flow[c].at = "none" <=> flow[c].doc = None
  /\ flow[c].at = "waiting" => Awaited(calls[c], flow[c].doc) /\ tab.asking # c
  /\ flow[c].at = "listed" => flow[c].present \subseteq Ids(ever)

Tabs == [phase : {"choose", "inspect", "review", "import", "outcome"},
         files : Batches \cup {<<>>}, inspection : given \cup {None}, ready : BOOLEAN,
         asking : Calls \cup {None}, committing : BOOLEAN, busy : BOOLEAN, notice : BOOLEAN,
         outcome : (SUBSET ever) \cup {None}, open : BOOLEAN]

(* The inspection that is being asked for is one of the files chosen.      *)
AskedFor(call, files) ==
  /\ call.at \in {"asked", "answered"}
  /\ call.at = "asked" => call.files = files
  /\ call.at = "answered" /\ call.answer \in {"inspected", "issues"} => call.doc.files = files

TabKnown ==
  /\ tab \in Tabs
  /\ ReviewMatchesFiles
  /\ tab.ready => tab.inspection # None
  /\ tab.asking # None => tab.phase # "choose" /\ AskedFor(calls[tab.asking], tab.files)

IInv ==
  /\ LibraryKnown
  /\ DOMAIN calls = Calls /\ calls = [c \in Calls |-> calls[c]]
  /\ DOMAIN flow = Calls /\ flow = [c \in Calls |-> flow[c]]
  /\ \A c \in Calls : RequestKnown(calls[c]) /\ FlowKnown(c)
  /\ TabKnown

-----------------------------------------------------------------------------
(* The library.                                                            *)

(* A write leaves what was there or what was written.                      *)
LEMMA Writes ==
  ASSUME NEW l, NEW m, NEW w \in WriteOutcomes(l, m)
  PROVE  /\ w.lib.mem \in {l.mem, m} /\ w.lib.disk \in {l.mem, l.disk, w.lib.mem}
         /\ w.ok => w.lib.mem = m
<1>1. PICK r \in RepairOutcomes(l) : w \in IF r.ok THEN PublishOutcomes(r.lib, m) ELSE {r}
  BY DEF WriteOutcomes
<1>2. r \in {[lib |-> Durable(l.mem), ok |-> TRUE], [lib |-> l, ok |-> TRUE],
             [lib |-> l, ok |-> FALSE]}
  BY DEF RepairOutcomes
<1>3. r.lib.mem = l.mem /\ r.lib.disk \in {l.mem, l.disk}
  BY <1>2 DEF Durable
<1>4. CASE r.ok
  <2>1. w \in {[lib |-> Durable(m), ok |-> TRUE],
               [lib |-> [mem |-> m, disk |-> r.lib.mem, unknown |-> TRUE], ok |-> FALSE],
               [lib |-> r.lib, ok |-> FALSE]}
    BY <1>1, <1>4 DEF PublishOutcomes
  <2> QED
    BY <1>3, <2>1 DEF Durable
<1>5. CASE ~r.ok
  BY <1>1, <1>2, <1>3, <1>5
<1> QED
  BY <1>4, <1>5

(* What the library holds after a step: what was inspected and is there    *)
(* for good in ever.                                                       *)
LEMMA LibraryMoves ==
  ASSUME LibraryKnown, UNCHANGED given, Remembered,
         lib'.mem \subseteq Proposed, lib'.disk \subseteq ever \cup lib'.mem
  PROVE  LibraryKnown' /\ given \subseteq given' /\ ever \subseteq ever' /\ lib'.mem \subseteq ever'
<1>1. ever' = ever \cup lib'.mem /\ Proposed' = Proposed
  BY DEF Remembered, Proposed
<1> QED
  BY <1>1 DEF LibraryKnown

(* The library is as it was, perhaps made durable.                         *)
LEMMA KeptLibrary ==
  ASSUME LibraryKnown, Kept \/ UNCHANGED lib, UNCHANGED given, Remembered
  PROVE  /\ LibraryKnown' /\ given \subseteq given' /\ ever \subseteq ever'
         /\ lib'.mem \subseteq ever'
<1>1. lib'.mem = lib.mem /\ lib'.disk \in {lib.mem, lib.disk}
  <2>1. CASE UNCHANGED lib
    BY <2>1
  <2>2. CASE Kept
    <3>1. PICK r \in RepairOutcomes(lib) : lib' = r.lib
      BY <2>2 DEF Kept
    <3>2. r.lib \in {Durable(lib.mem), lib}
      BY <3>1 DEF RepairOutcomes
    <3> QED
      BY <3>1, <3>2 DEF Durable
  <2> QED
    BY <2>1, <2>2
<1>2. lib'.mem \subseteq Proposed /\ lib'.disk \subseteq ever \cup lib'.mem
  BY <1>1 DEF LibraryKnown
<1> QED
  BY <1>2, LibraryMoves

-----------------------------------------------------------------------------
(* Steps of the daemon's handlers.                                         *)

(* What the dialog knows does not depend on requests of others, nor on     *)
(* what is inspected or published later.                                   *)
LEMMA DialogStays ==
  ASSUME IInv, LibraryKnown', given \subseteq given', ever \subseteq ever', UNCHANGED dialog,
         DOMAIN calls' = Calls, calls' = [c \in Calls |-> calls'[c]],
         \A c \in Calls : RequestKnown(calls[c])',
         \A c \in Calls : /\ flow[c].at = "waiting" => Awaited(calls[c], flow[c].doc)'
                          /\ tab.asking = c => AskedFor(calls[c], tab.files)'
  PROVE  IInv'
<1>1. tab' = tab /\ flow' = flow
  BY DEF dialog
<1>2. ASSUME NEW c \in Calls PROVE FlowKnown(c)'
  <2>1. Ids(ever) \subseteq Ids(ever')
    BY DEF Ids
  <2>2. Ids(ever)' = Ids(ever')
    BY DEF Ids
  <2> QED
    BY <1>1, <1>2, <2>1, <2>2 DEF IInv, FlowKnown, Flows
<1>3. TabKnown'
  <2>1. tab \in Tabs'
    BY DEF IInv, TabKnown, Tabs
  <2>2. tab.asking # None => tab.asking \in Calls
    BY DEF IInv, TabKnown, Tabs
  <2> QED
    BY <1>1, <2>1, <2>2 DEF IInv, TabKnown, ReviewMatchesFiles
<1> QED
  BY <1>1, <1>2, <1>3 DEF IInv

(* A handler moves one request on.                                         *)
LEMMA RequestMoves ==
  ASSUME IInv, LibraryKnown', given \subseteq given', ever \subseteq ever', UNCHANGED dialog,
         NEW c \in Calls, NEW call, Set(c, call), RequestKnown(call)',
         flow[c].at = "waiting" => Awaited(call, flow[c].doc)',
         tab.asking = c => AskedFor(call, tab.files)'
  PROVE  IInv'
<1>1. /\ calls' = [calls EXCEPT ![c] = call]
      /\ DOMAIN calls' = Calls /\ calls' = [d \in Calls |-> calls'[d]]
  BY DEF Set, IInv
<1>2. calls'[c] = call /\ \A d \in Calls \ {c} : calls'[d] = calls[d]
  BY <1>1 DEF IInv
<1>3. tab' = tab /\ flow' = flow
  BY DEF dialog
<1>4. ASSUME NEW d \in Calls PROVE RequestKnown(calls[d])'
  <2>1. CASE d = c
    BY <1>2, <2>1 DEF RequestKnown, Requests
  <2>2. CASE d # c
    BY <1>2, <2>2 DEF IInv, RequestKnown, Requests
  <2> QED
    BY <2>1, <2>2
<1>5. ASSUME NEW d \in Calls
      PROVE  /\ flow[d].at = "waiting" => Awaited(calls[d], flow[d].doc)'
             /\ tab.asking = d => AskedFor(calls[d], tab.files)'
  <2>1. CASE d = c
    BY <1>2, <1>3, <2>1 DEF Awaited, AskedFor
  <2>2. CASE d # c
    <3>1. tab.asking = d => tab.asking # None
      BY ImportAssumption
    <3> QED
      BY <1>2, <1>3, <2>2, <3>1 DEF IInv, FlowKnown, TabKnown, Awaited, AskedFor
  <2> QED
    BY <2>1, <2>2
<1> QED
  BY <1>1, <1>4, <1>5, DialogStays

(* An answer without an inspection is one to a commit, or is nobody's.     *)
LEMMA Answering ==
  ASSUME NEW answer \in {"refused", "reinspect", "ambiguous", "lost"}
  PROVE  /\ RequestKnown(Answered(answer))' /\ AskedFor(Answered(answer), tab.files)'
         /\ \A doc : Awaited(Answered(answer), doc)'
<1>1. PICK call : call = Answered(answer)
  OBVIOUS
<1>2. call \in Requests' /\ call.at = "answered" /\ call.answer = answer
  BY <1>1 DEF Requests, Answered, NoCall, Answers
<1>3. RequestKnown(call)' /\ AskedFor(call, tab.files)' /\ \A doc : Awaited(call, doc)'
  BY <1>2 DEF RequestKnown, AskedFor, Awaited
<1> QED
  BY <1>1, <1>3

LEMMA InspectKeeps ==
  ASSUME IInv, NEW c \in Calls, Inspect(c), UNCHANGED dialog, Remembered PROVE IInv'
<1>1. PICK files, name, doc, call :
        /\ files = calls[c].files
        /\ name \in Namings(files, lib.mem, given)
        /\ doc = [files |-> files, records |-> RecordsOf(files, name, lib.mem)]
        /\ call = [Answered(IF Ready(files) THEN "inspected" ELSE "issues") EXCEPT !.doc = doc]
        /\ given' = given \cup {doc}
        /\ Set(c, call)
  BY DEF Inspect
<1>2. calls[c].at = "asked" /\ files \in Batches /\ UNCHANGED lib
  BY <1>1 DEF Inspect, IInv, RequestKnown
<1>3. lib.mem \in SUBSET Entries
  <2>1. ASSUME NEW d \in given PROVE Described(d.records) \subseteq Entries
    BY <2>1 DEF IInv, LibraryKnown, Inspections, Records, Described, Entries
  <2> QED
    BY <2>1 DEF IInv, LibraryKnown, Proposed
<1>4. doc.files = files /\ doc.records = RecordsOf(files, name, lib.mem)
  BY <1>1
<1>5. /\ doc.records \subseteq Records
      /\ Described(doc.records) \subseteq lib.mem \cup Added(doc.records)
  BY <1>1, <1>2, <1>3, <1>4, RecordsKnown
<1>6. doc \in Inspections
  BY <1>1, <1>2, <1>4, <1>5 DEF Inspections
<1>7. Proposed' = Proposed \cup Described(doc.records)
  BY <1>1 DEF Proposed
<1>8. ASSUME NEW e \in Described(doc.records), NEW f \in Proposed \cup Described(doc.records), e.id = f.id
      PROVE  e = f
  <2>1. \/ e \in lib.mem
        \/ e.id \notin UNION {Ids(d.records) : d \in given}
    BY <1>1, <1>4, <1>8, EntriesNamed
  <2>2. CASE f \in Described(doc.records)
    BY <1>1, <1>4, <1>8, <2>2, EntriesNamed
  <2>3. CASE f \in Proposed
    <3>1. f.id \in UNION {Ids(d.records) : d \in given}
      <4>1. PICK d \in given : \E r \in d.records : f = [id |-> r.id, content |-> r.content]
        BY <2>3 DEF Proposed, Described
      <4> QED
        BY <4>1 DEF Ids
    <3>2. e \in Proposed
      BY <1>8, <2>1, <3>1 DEF IInv, LibraryKnown
    <3> QED
      BY <1>8, <2>3, <3>2 DEF IInv, LibraryKnown
  <2> QED
    BY <1>8, <2>2, <2>3
<1>9. ever' = ever
  BY <1>2 DEF Remembered, IInv, LibraryKnown
<1>10. LibraryKnown'
  <2>1. \A e, f \in Proposed' : e.id = f.id => e = f
    BY <1>7, <1>8 DEF IInv, LibraryKnown
  <2>2. \A d \in given' : Described(d.records) \subseteq ever' \cup Added(d.records)
    BY <1>1, <1>5, <1>9 DEF IInv, LibraryKnown
  <2> QED
    BY <1>1, <1>2, <1>6, <1>7, <1>9, <2>1, <2>2 DEF IInv, LibraryKnown
<1>11. doc \in given' /\ call \in Requests' /\ call.at = "answered" /\ call.doc = doc
  BY <1>1 DEF Requests, Answered, NoCall, Answers
<1>12. RequestKnown(call)'
  BY <1>11 DEF RequestKnown
<1>13. flow[c].at # "waiting"
  BY <1>2 DEF IInv, FlowKnown, Awaited
<1>14. tab.asking = c => AskedFor(call, tab.files)'
  <2>1. tab.asking = c => files = tab.files
    BY <1>1, <1>2, ImportAssumption DEF IInv, TabKnown, AskedFor
  <2>2. tab' = tab
    BY DEF dialog
  <2> QED
    BY <1>4, <1>11, <2>1, <2>2 DEF AskedFor
<1>15. given \subseteq given' /\ ever \subseteq ever'
  BY <1>1, <1>9
<1> QED
  BY <1>1, <1>10, <1>12, <1>13, <1>14, <1>15, RequestMoves

LEMMA RefuseKeeps ==
  ASSUME IInv, NEW c \in Calls, Refuse(c) \/ Unrepaired(c), UNCHANGED dialog, Remembered PROVE IInv'
<1>1. PICK answer \in {"refused", "reinspect", "ambiguous"} : Set(c, Answered(answer))
  BY DEF Refuse, Unrepaired
<1>2. (Kept \/ UNCHANGED lib) /\ UNCHANGED given
  BY DEF Refuse, Unrepaired
<1>3. LibraryKnown' /\ given \subseteq given' /\ ever \subseteq ever'
  BY <1>2, KeptLibrary DEF IInv
<1> QED
  BY <1>1, <1>3, Answering, RequestMoves

(* The request of a commit that is sent goes by an inspection given.       *)
LEMMA SentKnown ==
  ASSUME IInv, NEW c \in Calls, calls[c].at \in {"sent", "done"}
  PROVE  /\ calls[c].doc \in given /\ tab.asking # c
         /\ flow[c].at = "waiting" => flow[c].doc = calls[c].doc
  BY ImportAssumption DEF IInv, RequestKnown, FlowKnown, Awaited, TabKnown, AskedFor

(* A commit that is done was published, or found in the library.           *)
LEMMA DoneKeeps ==
  ASSUME IInv, NEW c \in Calls, calls[c].at = "sent", Done(c), UNCHANGED dialog,
         LibraryKnown', given \subseteq given', ever \subseteq ever',
         Described(calls[c].doc.records) \subseteq ever'
  PROVE  IInv'
<1>1. calls[c].doc \in given /\ tab.asking # c /\ (flow[c].at = "waiting" => flow[c].doc = calls[c].doc)
  BY SentKnown
<1>2. calls[c] \in Requests
  BY DEF IInv, RequestKnown
<1>3. PICK call, doc : call = [calls[c] EXCEPT !.at = "done"] /\ doc = calls[c].doc
  OBVIOUS
<1>4. call \in Requests /\ call.at = "done" /\ call.doc = doc
  BY <1>2, <1>3 DEF Requests
<1>5. Set(c, call) /\ flow' = flow /\ Described(doc.records) \subseteq ever'
  BY <1>3 DEF Done, dialog
<1>6. RequestKnown(call)'
  BY <1>1, <1>3, <1>4, <1>5 DEF RequestKnown, Requests
<1>7. flow[c].at = "waiting" => Awaited(call, flow[c].doc)'
  BY <1>1, <1>3, <1>4, <1>5 DEF Awaited
<1> QED
  BY <1>1, <1>5, <1>6, <1>7, RequestMoves

LEMMA PublishKeeps ==
  ASSUME IInv, NEW c \in Calls, Publish(c), UNCHANGED dialog, Remembered PROVE IInv'
<1> DEFINE doc == calls[c].doc
           entries == Added(doc.records)
<1>1. doc \in given /\ tab.asking # c /\ (flow[c].at = "waiting" => flow[c].doc = doc)
  BY SentKnown DEF Publish
<1>2. PICK w \in WriteOutcomes(lib, lib.mem \cup entries) :
        /\ lib' = w.lib
        /\ IF w.ok THEN Done(c) ELSE Set(c, Answered("ambiguous")) \/ Set(c, Answered("refused"))
  BY DEF Publish
<1>3. entries \subseteq Proposed
  BY <1>1 DEF Added, Described, Proposed
<1>4. /\ lib'.mem \in {lib.mem, lib.mem \cup entries}
      /\ lib'.disk \in {lib.mem, lib.disk, lib'.mem}
      /\ w.ok => lib'.mem = lib.mem \cup entries
  BY <1>2, Writes
<1>5. lib'.mem \subseteq Proposed /\ lib'.disk \subseteq ever \cup lib'.mem
  BY <1>3, <1>4 DEF IInv, LibraryKnown
<1>6. LibraryKnown' /\ given \subseteq given' /\ ever \subseteq ever' /\ lib'.mem \subseteq ever'
  BY <1>5, LibraryMoves DEF IInv, Publish
<1>7. CASE ~w.ok
  BY <1>1, <1>2, <1>6, <1>7, Answering, RequestMoves
<1>8. CASE w.ok
  <2>1. Described(doc.records) \subseteq lib.mem \cup entries
    BY DEF Publish
  <2>2. Described(calls[c].doc.records) \subseteq ever'
    BY <1>4, <1>6, <1>8, <2>1
  <2> QED
    BY <1>2, <1>6, <1>8, <2>2, DoneKeeps DEF Publish
<1> QED
  BY <1>7, <1>8

LEMMA ConfirmKeeps ==
  ASSUME IInv, NEW c \in Calls, Confirm(c), UNCHANGED dialog, Remembered PROVE IInv'
<1>1. LibraryKnown' /\ given \subseteq given' /\ ever \subseteq ever' /\ lib'.mem \subseteq ever'
  BY KeptLibrary DEF IInv, Confirm
<1>2. Described(calls[c].doc.records) \subseteq ever'
  BY <1>1 DEF Confirm
<1> QED
  BY <1>1, <1>2, DoneKeeps DEF Confirm

LEMMA ReportKeeps ==
  ASSUME IInv, NEW c \in Calls, Report(c), UNCHANGED dialog, Remembered PROVE IInv'
<1>1. PICK answer \in {"imported", "ambiguous"} : Set(c, Answered(answer))
  BY DEF Report
<1>2. LibraryKnown' /\ given \subseteq given' /\ ever \subseteq ever'
  BY KeptLibrary DEF IInv, Report
<1>3. PICK call : call = Answered(answer)
  OBVIOUS
<1>4. RequestKnown(call)' /\ call.at = "answered" /\ call.answer = answer
  BY <1>3 DEF RequestKnown, Requests, Answered, NoCall, Answers
<1>5. tab.asking # c /\ (flow[c].at = "waiting" => flow[c].doc = calls[c].doc)
  BY SentKnown DEF Report
<1>6. Described(calls[c].doc.records) \subseteq ever'
  BY <1>2 DEF Report, IInv, RequestKnown
<1>7. flow[c].at = "waiting" => Awaited(call, flow[c].doc)'
  <2>1. flow' = flow
    BY DEF dialog
  <2> QED
    BY <1>4, <1>5, <1>6, <2>1 DEF Awaited
<1> QED
  BY <1>1, <1>2, <1>3, <1>4, <1>5, <1>7, RequestMoves

(* The rest of the world: the library is written otherwise, the daemon and *)
(* the machine stop.                                                       *)
LEMMA EnvironmentKeeps ==
  ASSUME IInv, Environment, UNCHANGED dialog, Remembered PROVE IInv'
<1>1. CASE Rewrite
  <2>1. \/ Kept
        \/ /\ lib'.mem \subseteq lib.mem
           /\ lib'.disk \in {lib.mem, lib.disk, lib'.mem}
    <3>1. Kept \/ \E m \in SUBSET lib.mem : \E w \in WriteOutcomes(lib, m) : lib' = w.lib
      BY <1>1 DEF Rewrite
    <3>2. ASSUME NEW m \in SUBSET lib.mem, NEW w \in WriteOutcomes(lib, m), lib' = w.lib
          PROVE  lib'.mem \subseteq lib.mem /\ lib'.disk \in {lib.mem, lib.disk, lib'.mem}
      BY <3>2, Writes
    <3> QED
      BY <3>1, <3>2
  <2>2. UNCHANGED <<given, calls>>
    BY <1>1 DEF Rewrite
  <2>3. LibraryKnown' /\ given \subseteq given' /\ ever \subseteq ever'
    <3>1. CASE Kept
      BY <2>2, <3>1, KeptLibrary DEF IInv
    <3>2. CASE lib'.mem \subseteq lib.mem /\ lib'.disk \in {lib.mem, lib.disk, lib'.mem}
      <4>1. lib'.mem \subseteq Proposed /\ lib'.disk \subseteq ever \cup lib'.mem
        BY <3>2 DEF IInv, LibraryKnown
      <4> QED
        BY <2>2, <4>1, LibraryMoves DEF IInv
    <3> QED
      BY <2>1, <3>1, <3>2
  <2>4. \A c \in Calls : RequestKnown(calls[c])'
    BY <2>2, <2>3 DEF IInv, RequestKnown, Requests
  <2>5. tab' = tab /\ flow' = flow /\ calls' = calls
    BY <2>2 DEF dialog
  <2>6. \A c \in Calls : /\ flow[c].at = "waiting" => Awaited(calls[c], flow[c].doc)'
                         /\ tab.asking = c => AskedFor(calls[c], tab.files)'
    BY <2>3, <2>5, ImportAssumption DEF IInv, FlowKnown, Awaited, TabKnown, AskedFor
  <2> QED
    BY <2>3, <2>4, <2>5, <2>6, DialogStays DEF IInv
<1>2. CASE Restart
  <2>1. lib' \in {Durable(lib.mem), Durable(lib.disk)} /\ UNCHANGED given
    BY <1>2 DEF Restart, ReopenedAfterPowerLoss
  <2>2. lib'.mem \subseteq Proposed /\ lib'.disk \subseteq ever \cup lib'.mem
    BY <2>1 DEF Durable, IInv, LibraryKnown
  <2>3. LibraryKnown' /\ given \subseteq given' /\ ever \subseteq ever'
    BY <2>1, <2>2, LibraryMoves DEF IInv
  <2>4. /\ DOMAIN calls' = Calls /\ calls' = [c \in Calls |-> calls'[c]]
        /\ \A c \in Calls :
             calls'[c] = IF calls[c].at \in {"free", "answered"} THEN calls[c] ELSE Answered("lost")
    BY <1>2 DEF Restart
  <2>5. tab' = tab /\ flow' = flow
    BY DEF dialog
  <2>6. ASSUME NEW c \in Calls
        PROVE  /\ RequestKnown(calls[c])'
               /\ flow[c].at = "waiting" => Awaited(calls[c], flow[c].doc)'
               /\ tab.asking = c => AskedFor(calls[c], tab.files)'
    <3>1. CASE calls[c].at \in {"free", "answered"}
      <4>1. calls'[c] = calls[c]
        BY <2>4, <3>1
      <4>2. RequestKnown(calls[c])'
        BY <2>3, <4>1 DEF IInv, RequestKnown, Requests
      <4> QED
        BY <2>3, <2>5, <4>1, <4>2, ImportAssumption DEF IInv, FlowKnown, Awaited, TabKnown, AskedFor
    <3>2. CASE calls[c].at \notin {"free", "answered"}
      <4>1. PICK call : call = Answered("lost")
        OBVIOUS
      <4>2. RequestKnown(call)' /\ AskedFor(call, tab.files)' /\ \A doc : Awaited(call, doc)'
        BY <4>1, Answering
      <4>3. calls'[c] = call
        BY <2>4, <3>2, <4>1
      <4> QED
        BY <4>2, <4>3 DEF RequestKnown, AskedFor, Awaited
    <3> QED
      BY <3>1, <3>2
  <2> QED
    BY <2>3, <2>4, <2>6, DialogStays
<1> QED
  BY <1>1, <1>2 DEF Environment

-----------------------------------------------------------------------------
(* Steps of the dialog.                                                    *)

(* Nothing the daemon has or has answered changes with the dialog.         *)
LEMMA DaemonStays ==
  ASSUME IInv, UNCHANGED <<lib, given>>, Remembered
  PROVE  LibraryKnown' /\ ever' = ever /\ Proposed' = Proposed
<1>1. ever' = ever /\ Proposed' = Proposed
  BY DEF IInv, LibraryKnown, Remembered, Proposed
<1> QED
  BY <1>1 DEF IInv, LibraryKnown

(* The dialog moves, a commit() goes on or ends, a request is received:    *)
(* nothing new is waited for.                                              *)
LEMMA DialogMoves ==
  ASSUME IInv, UNCHANGED <<lib, given>>, Remembered, NEW c, NEW f \in Flows,
         calls' \in {calls, [calls EXCEPT ![c] = NoCall]},
         flow' \in {flow, [flow EXCEPT ![c] = f]},
         f.at # "waiting", f.at = "none" <=> f.doc = None,
         f.at = "listed" => f.present \subseteq Ids(ever),
         calls' = calls \/ (flow'[c].at # "waiting" /\ tab'.asking # c),
         tab' \in Tabs,
         tab'.inspection # None => tab'.inspection.files = tab'.files,
         tab'.ready => tab'.inspection # None,
         tab'.asking # None =>
           tab'.asking = tab.asking /\ tab'.phase # "choose" /\ tab'.files = tab.files
  PROVE  IInv'
<1>1. LibraryKnown' /\ ever' = ever /\ given' = given
  BY DaemonStays
<1>2. /\ DOMAIN calls' = Calls /\ calls' = [d \in Calls |-> calls'[d]]
      /\ DOMAIN flow' = Calls /\ flow' = [d \in Calls |-> flow'[d]]
  BY DEF IInv
<1>3. \A d \in Calls : /\ calls'[d] = calls[d] \/ (calls'[d] = NoCall /\ d = c)
                       /\ flow'[d] = flow[d] \/ (flow'[d] = f /\ d = c)
  BY DEF IInv
<1>4. ASSUME NEW d \in Calls PROVE RequestKnown(calls[d])'
  <2>1. calls'[d] = calls[d] \/ calls'[d] = NoCall
    BY <1>3
  <2>2. CASE calls'[d] = calls[d]
    BY <1>1, <2>2 DEF IInv, RequestKnown, Requests
  <2>3. CASE calls'[d] = NoCall
    BY <1>1, <2>3 DEF RequestKnown, Requests, NoCall, Answers
  <2> QED
    BY <2>1, <2>2, <2>3
<1>5. ASSUME NEW d \in Calls PROVE FlowKnown(d)'
  <2>1. flow'[d] \in Flows /\ (flow'[d].at = "none" <=> flow'[d].doc = None)
    BY <1>3 DEF IInv, FlowKnown
  <2>2. Flows' = Flows /\ Ids(ever)' = Ids(ever)
    BY <1>1 DEF Flows, Ids
  <2>3. flow'[d].at = "listed" => flow'[d].present \subseteq Ids(ever)
    BY <1>3 DEF IInv, FlowKnown
  <2>4. ASSUME flow'[d].at = "waiting"
        PROVE  Awaited(calls[d], flow[d].doc)' /\ tab'.asking # d
    <3>1. flow'[d] = flow[d] /\ calls'[d] = calls[d]
      BY <1>3, <2>4
    <3>2. Awaited(calls[d], flow[d].doc) /\ tab.asking # d
      BY <2>4, <3>1 DEF IInv, FlowKnown
    <3> QED
      BY <1>1, <3>1, <3>2, ImportAssumption DEF Awaited
  <2> QED
    BY <2>1, <2>2, <2>3, <2>4 DEF FlowKnown
<1>6. TabKnown'
  <2>1. Tabs' = Tabs
    BY <1>1 DEF Tabs
  <2>2. ASSUME tab'.asking # None PROVE tab'.phase # "choose" /\ AskedFor(calls[tab.asking], tab.files)'
    <3>1. tab'.asking = tab.asking /\ tab'.phase # "choose" /\ tab'.files = tab.files
      BY <2>2
    <3>2. tab.asking \in Calls
      BY <2>2, <3>1 DEF IInv, TabKnown, Tabs
    <3>3. calls'[tab.asking] = calls[tab.asking]
      BY <1>3, <3>1, <3>2
    <3> QED
      BY <2>2, <3>1, <3>3 DEF IInv, TabKnown, AskedFor
  <2> QED
    BY <2>1, <2>2 DEF TabKnown, ReviewMatchesFiles
<1> QED
  BY <1>1, <1>2, <1>4, <1>5, <1>6 DEF IInv

LEMMA FreshKnown ==
  /\ NoFlow \in Flows /\ NoFlow.at = "none" /\ NoFlow.doc = None
  /\ Fresh \in Tabs /\ Fresh.inspection = None /\ Fresh.asking = None /\ ~Fresh.ready
<1>1. NoFlow \in Flows /\ NoFlow.at = "none" /\ NoFlow.doc = None
  BY DEF NoFlow, Flows
<1>2. Fresh \in Tabs /\ Fresh.inspection = None /\ Fresh.asking = None /\ ~Fresh.ready
  BY DEF Fresh, Tabs
<1> QED
  BY <1>1, <1>2

(* The user's clicks that send nothing.                                    *)
LEMMA ClicksKeep ==
  ASSUME IInv, Remembered,
         \/ Open \/ Cancel \/ Close \/ KeepReviewing \/ Leave \/ InspectionLost
         \/ \E batch \in Batches : SelectFiles(batch)
  PROVE  IInv'
<1> USE DEF vars
<1>1. UNCHANGED <<lib, given>> /\ calls' = calls /\ flow' = flow
  BY DEF Open, Cancel, Close, KeepReviewing, Leave, InspectionLost, SelectFiles
<1>2. tab \in Tabs
  BY DEF IInv, TabKnown
<1>3. /\ tab' \in Tabs
      /\ tab'.inspection # None => tab'.inspection.files = tab'.files
      /\ tab'.ready => tab'.inspection # None
      /\ tab'.asking # None =>
           tab'.asking = tab.asking /\ tab'.phase # "choose" /\ tab'.files = tab.files
  <2>1. CASE Leave
    BY <2>1, FreshKnown DEF Leave
  <2>2. CASE \E batch \in Batches : SelectFiles(batch)
    <3>1. tab.asking = None
      BY <2>2 DEF SelectFiles, IInv, TabKnown
    <3> QED
      BY <1>2, <2>2, <3>1 DEF SelectFiles, Tabs
  <2>3. CASE Cancel \/ InspectionLost
    BY <1>2, <2>3 DEF Cancel, InspectionLost, NotInspected, IInv, TabKnown, ReviewMatchesFiles, Tabs
  <2>4. CASE Open \/ Close \/ KeepReviewing
    <3>1. \/ \E seen \in BOOLEAN : tab' = [tab EXCEPT !.open = seen]
          \/ \E shown \in BOOLEAN : tab' = [tab EXCEPT !.notice = shown]
      BY <2>4 DEF Open, Close, KeepReviewing
    <3>2. /\ tab' \in Tabs /\ tab'.files = tab.files /\ tab'.inspection = tab.inspection
          /\ tab'.ready = tab.ready /\ tab'.asking = tab.asking /\ tab'.phase = tab.phase
      BY <1>2, <3>1 DEF Tabs
    <3> QED
      BY <3>2 DEF IInv, TabKnown, ReviewMatchesFiles
  <2> QED
    BY <2>1, <2>2, <2>3, <2>4
<1> QED
  BY <1>1, <1>3, FreshKnown, DialogMoves

LEMMA ReloadKeeps ==
  ASSUME IInv, Remembered, Reload PROVE IInv'
<1>1. UNCHANGED <<lib, given>> /\ calls' = calls
  BY DEF Reload, vars
<1>2. LibraryKnown' /\ ever' = ever /\ given' = given
  BY <1>1, DaemonStays
<1>3. \A c \in Calls : RequestKnown(calls[c])'
  BY <1>1, <1>2 DEF IInv, RequestKnown, Requests
<1>4. Flows' = Flows /\ Tabs' = Tabs
  BY <1>2 DEF Flows, Tabs
<1>5. /\ DOMAIN flow' = Calls /\ flow' = [c \in Calls |-> flow'[c]]
      /\ \A c \in Calls : flow'[c] = NoFlow
  BY DEF Reload
<1>6. \A c \in Calls : FlowKnown(c)'
  BY <1>4, <1>5, FreshKnown DEF FlowKnown
<1>7. TabKnown'
  BY <1>4, FreshKnown DEF Reload, TabKnown, ReviewMatchesFiles
<1> QED
  BY <1>1, <1>2, <1>3, <1>5, <1>6, <1>7 DEF IInv

(* What was inspected and is neither reported nor added is there already.  *)
LEMMA NothingToAdd ==
  ASSUME IInv, NEW d \in given, Added(d.records) = {} PROVE Described(d.records) \subseteq ever
  BY DEF IInv, LibraryKnown

(* IDs found in the library are those of the very profiles proposed.       *)
LEMMA FoundAreProposed ==
  ASSUME IInv, NEW d \in given, Ids(Added(d.records)) \subseteq Ids(ever)
  PROVE  Added(d.records) \subseteq ever
<1> SUFFICES ASSUME NEW p \in Added(d.records) PROVE p \in ever
  OBVIOUS
<1>1. p \in Proposed
  BY DEF Added, Described, Proposed
<1>2. PICK e \in ever : e.id = p.id
  BY DEF Ids
<1>3. e \in Proposed
  BY DEF IInv, LibraryKnown
<1> QED
  BY <1>1, <1>2, <1>3 DEF IInv, LibraryKnown

(* Each end a commit() can come to keeps the invariant.                    *)
LEMMA EndsKeep ==
  ASSUME IInv, UNCHANGED <<lib, given>>, Remembered, NEW c \in Calls,
         flow[c] # NoFlow,
         calls' \in {calls, [calls EXCEPT ![c] = NoCall]},
         calls' = calls \/ tab.asking # c,
         \/ \E profiles \in SUBSET ever : Complete(c, profiles)
         \/ BackToReview(c) \/ Block(c) \/ InspectAgain(c)
  PROVE  IInv'
<1>1. tab \in Tabs
  BY DEF IInv, TabKnown
<1>2. flow' = [flow EXCEPT ![c] = NoFlow]
  BY DEF Complete, BackToReview, Block, InspectAgain, Return
<1>3. flow'[c] = NoFlow
  BY <1>2 DEF IInv
<1>4. /\ tab' \in Tabs /\ tab'.files = tab.files /\ tab'.inspection = tab.inspection
      /\ tab'.asking = tab.asking
      /\ tab'.ready => tab.ready
      /\ tab'.phase \in {tab.phase, "outcome", "review"}
  <2>1. CASE \E profiles \in SUBSET ever : Complete(c, profiles)
    <3>1. PICK profiles \in SUBSET ever : Complete(c, profiles)
      BY <2>1
    <3>2. tab' = [tab EXCEPT !.outcome = profiles, !.busy = FALSE, !.phase = "outcome",
                             !.committing = FALSE]
      BY <3>1 DEF Complete
    <3>3. tab' \in Tabs
      BY <1>1, <3>2 DEF Tabs
    <3> QED
      BY <1>1, <3>2, <3>3 DEF Tabs
  <2>2. CASE BackToReview(c) \/ Block(c)
    BY <1>1, <2>2 DEF BackToReview, Block, Tabs
  <2>3. CASE InspectAgain(c)
    BY <1>1, <2>3 DEF InspectAgain, Tabs
  <2> QED
    BY <2>1, <2>2, <2>3
<1>5. /\ tab'.inspection # None => tab'.inspection.files = tab'.files
      /\ tab'.ready => tab'.inspection # None
      /\ tab'.asking # None =>
           tab'.asking = tab.asking /\ tab'.phase # "choose" /\ tab'.files = tab.files
  BY <1>4 DEF IInv, TabKnown, ReviewMatchesFiles
<1> QED
  BY <1>2, <1>3, <1>4, <1>5, FreshKnown, DialogMoves

(* The outcome is uncertain: it is known already, given up, or looked up.  *)
LEMMA UncertainKeeps ==
  ASSUME IInv, UNCHANGED <<lib, given>>, Remembered, NEW c \in Calls,
         flow[c] # NoFlow,
         calls' \in {calls, [calls EXCEPT ![c] = NoCall]},
         calls' = calls \/ tab.asking # c,
         Uncertain(c)
  PROVE  IInv'
<1>1. tab \in Tabs /\ flow[c] \in Flows
  BY DEF IInv, TabKnown, FlowKnown
<1>2. CASE tab.inspection = None
  BY <1>2, EndsKeep DEF Uncertain
<1>3. ASSUME tab.inspection # None, Added(tab.inspection.records) = {} PROVE IInv'
  <2>1. tab.inspection \in given
    BY <1>1, <1>3 DEF Tabs
  <2>2. Described(tab.inspection.records) \in SUBSET ever
    BY <1>3, <2>1, NothingToAdd
  <2> QED
    BY <1>3, <2>2, EndsKeep DEF Uncertain
<1>4. ASSUME tab.inspection # None, Added(tab.inspection.records) # {} PROVE IInv'
  <2>1. tab.inspection \in given
    BY <1>1, <1>4 DEF Tabs
  <2>2. PICK f : f = [[flow[c] EXCEPT !.at = "reconciling"] EXCEPT !.doc = tab.inspection]
    OBVIOUS
  <2>3. f \in Flows /\ f.at = "reconciling" /\ f.doc = tab.inspection
    BY <1>1, <2>1, <2>2 DEF Flows
  <2>4. flow' = [flow EXCEPT ![c] = f] /\ UNCHANGED tab
    BY <1>4, <2>2 DEF Uncertain, IInv
  <2>5. flow'[c] = f
    BY <2>4 DEF IInv
  <2> QED
    BY <1>1, <1>4, <2>3, <2>4, <2>5, DialogMoves DEF IInv, TabKnown, ReviewMatchesFiles
<1> QED
  BY <1>2, <1>3, <1>4

LEMMA WaitsForCommit ==
  ASSUME IInv, NEW c \in Calls, flow[c].at = "waiting"
  PROVE  flow[c] # NoFlow /\ tab.asking # c /\ Awaited(calls[c], flow[c].doc)
  BY FreshKnown DEF IInv, FlowKnown

LEMMA CommitAnsweredKeeps ==
  ASSUME IInv, NEW c \in Calls, CommitAnswered(c), Remembered PROVE IInv'
<1>1. /\ flow[c] # NoFlow /\ tab.asking # c /\ calls[c].at = "answered"
      /\ calls[c].answer \in {"imported", "refused", "reinspect", "ambiguous", "lost"}
      /\ calls[c].answer = "imported" => Described(flow[c].doc.records) \in SUBSET ever
  BY WaitsForCommit DEF CommitAnswered, Receive, Awaited
<1>2. UNCHANGED <<lib, given>> /\ calls' = [calls EXCEPT ![c] = NoCall]
  BY DEF CommitAnswered, Receive, Set
<1>3. \/ \E profiles \in SUBSET ever : Complete(c, profiles)
      \/ BackToReview(c) \/ InspectAgain(c) \/ Uncertain(c)
  BY <1>1 DEF CommitAnswered
<1> QED
  BY <1>1, <1>2, <1>3, EndsKeep, UncertainKeeps

LEMMA BreakdownKeeps ==
  ASSUME IInv, NEW c \in Calls, AnswerLost(c) \/ ProxyAnswers(c), Remembered PROVE IInv'
<1>1. flow[c] # NoFlow
  BY WaitsForCommit DEF AnswerLost, ProxyAnswers
<1>2. UNCHANGED <<lib, given>> /\ calls' = calls
  BY DEF AnswerLost, ProxyAnswers, vars
<1> QED
  BY <1>1, <1>2, EndsKeep, UncertainKeeps DEF AnswerLost, ProxyAnswers

LEMMA ReconcileKeeps ==
  ASSUME IInv, NEW c \in Calls, List(c) \/ Conclude(c), Remembered PROVE IInv'
<1>1. flow[c] \in Flows /\ flow[c] # NoFlow /\ flow[c].doc \in given
  BY FreshKnown DEF List, Conclude, IInv, FlowKnown, Flows
<1>2. UNCHANGED <<lib, given>> /\ calls' = calls
  BY DEF List, Conclude, vars
<1> DEFINE proposed == Added(flow[c].doc.records)
           found == Ids(proposed) \cap Ids(lib.mem)
<1>3. ASSUME flow' = [flow EXCEPT ![c].at = "listed", ![c].present = found], UNCHANGED tab PROVE IInv'
  <2>1. PICK f : f = [[flow[c] EXCEPT !.at = "listed"] EXCEPT !.present = found]
    OBVIOUS
  <2>2. found \subseteq Ids(ever) /\ found \subseteq Profiles
    <3>1. proposed \subseteq Entries
      BY <1>1 DEF IInv, LibraryKnown, Inspections, Records, Added, Described, Entries
    <3>2. Ids(proposed) \subseteq Profiles
      BY <3>1 DEF Ids, Entries
    <3>3. Ids(lib.mem) \subseteq Ids(ever)
      BY DEF Ids, IInv, LibraryKnown
    <3> QED
      BY <3>2, <3>3
  <2> HIDE DEF found
  <2>3. f \in Flows /\ f.at = "listed" /\ f.doc # None /\ f.present = found
    <3>1. flow[c].doc # None
      BY <1>1, InspectionAssumption DEF IInv, LibraryKnown
    <3> QED
      BY <1>1, <2>1, <2>2, <3>1 DEF Flows
  <2>4. flow' = [flow EXCEPT ![c] = f]
    BY <1>3, <2>1 DEF IInv
  <2>5. f.at # "waiting" /\ f.at # "none" /\ (f.at = "listed" => f.present \subseteq Ids(ever))
    BY <2>2, <2>3
  <2> QED
    BY <1>2, <1>3, <2>3, <2>4, <2>5, DialogMoves DEF IInv, TabKnown, ReviewMatchesFiles
<1>4. CASE List(c)
  BY <1>1, <1>2, <1>3, <1>4, EndsKeep DEF List
<1>5. CASE Conclude(c)
  <2>1. flow[c].present \subseteq Ids(ever)
    BY <1>5 DEF Conclude, IInv, FlowKnown
  <2>2. flow[c].present = Ids(proposed) => proposed \in SUBSET ever
    BY <1>1, <2>1, FoundAreProposed
  <2>3. \/ \E profiles \in SUBSET ever : Complete(c, profiles)
        \/ BackToReview(c) \/ Block(c)
    BY <1>5, <2>2 DEF Conclude
  <2> QED
    BY <1>1, <1>2, <2>3, EndsKeep
<1> QED
  BY <1>4, <1>5

LEMMA InspectedKeeps ==
  ASSUME IInv, NEW c \in Calls, Inspected(c) \/ Drop(c), Remembered PROVE IInv'
<1>1. UNCHANGED <<lib, given>> /\ calls' = [calls EXCEPT ![c] = NoCall] /\ UNCHANGED flow
  BY DEF Inspected, Drop, Receive, Set, dialog
<1>2. flow[c].at # "waiting" /\ tab \in Tabs /\ calls[c].at = "answered"
  BY DEF Inspected, Drop, Receive, IInv, FlowKnown, TabKnown
<1>3. CASE Drop(c)
  BY <1>1, <1>2, <1>3, FreshKnown, DialogMoves DEF Drop, dialog, IInv, TabKnown, ReviewMatchesFiles
<1>4. CASE Inspected(c)
  <2>1. CASE calls[c].answer \in {"inspected", "issues"}
    <3>1. calls[c].doc \in given /\ calls[c].doc # None
      BY <1>2, <2>1, InspectionAssumption DEF IInv, RequestKnown, LibraryKnown
    <3>2. calls[c].doc.files = tab.files
      BY <1>2, <1>4, <2>1, ImportAssumption DEF Inspected, IInv, TabKnown, AskedFor
    <3>3. /\ tab' \in Tabs /\ tab'.files = tab.files
          /\ tab'.inspection = calls[c].doc /\ tab'.asking = None
      <4>1. tab' = [tab EXCEPT !.inspection = calls[c].doc, !.phase = "review",
                               !.ready = calls[c].answer = "inspected",
                               !.asking = None, !.busy = FALSE]
        BY <1>4, <2>1 DEF Inspected, Reviewed
      <4> QED
        BY <1>2, <3>1, <4>1 DEF Tabs
    <3> QED
      BY <1>1, <1>2, <3>1, <3>2, <3>3, FreshKnown, ImportAssumption, DialogMoves
  <2>2. CASE calls[c].answer \notin {"inspected", "issues"}
    <3>1. /\ tab' \in Tabs /\ tab'.files = tab.files /\ tab'.inspection = tab.inspection
          /\ tab'.ready = tab.ready /\ tab'.asking = None
      <4>1. tab' = [tab EXCEPT !.phase = "choose", !.asking = None, !.busy = FALSE]
        BY <1>4, <2>2 DEF Inspected, Reviewed, NotInspected
      <4> QED
        BY <1>2, <4>1 DEF Tabs
    <3> QED
      BY <1>1, <1>2, <3>1, FreshKnown, ImportAssumption, DialogMoves
           DEF IInv, TabKnown, ReviewMatchesFiles
  <2> QED
    BY <2>1, <2>2
<1> QED
  BY <1>3, <1>4

(* A request is sent: the dialog waits for it, and for no other anew.      *)
LEMMA DialogSends ==
  ASSUME IInv, UNCHANGED <<lib, given>>, Remembered, NEW c \in Calls, NEW call, NEW f \in Flows,
         calls[c].at = "free", Set(c, call), RequestKnown(call),
         flow' = [flow EXCEPT ![c] = f],
         f.at \in {"none", "waiting"}, f.at = "none" <=> f.doc = None,
         f.at = "waiting" => Awaited(call, f.doc) /\ tab'.asking # c,
         tab' \in Tabs, UNCHANGED <<tab.files, tab.inspection, tab.ready>>,
         tab'.asking \in {tab.asking, c},
         tab'.asking # None => tab'.phase # "choose",
         tab'.asking = c => AskedFor(call, tab.files)
  PROVE  IInv'
<1>1. LibraryKnown' /\ ever' = ever /\ given' = given
  BY DaemonStays
<1>2. calls' = [calls EXCEPT ![c] = call]
  BY DEF Set
<1>3. /\ DOMAIN calls' = Calls /\ calls' = [d \in Calls |-> calls'[d]]
      /\ DOMAIN flow' = Calls /\ flow' = [d \in Calls |-> flow'[d]]
  BY <1>2 DEF IInv
<1>4. /\ calls'[c] = call /\ \A d \in Calls \ {c} : calls'[d] = calls[d]
      /\ flow'[c] = f /\ \A d \in Calls \ {c} : flow'[d] = flow[d]
  BY <1>2 DEF IInv
<1>5. Requests' = Requests /\ Flows' = Flows /\ Tabs' = Tabs /\ Ids(ever)' = Ids(ever)
  BY <1>1 DEF Requests, Flows, Tabs, Ids
<1>6. tab.asking # c
  BY ImportAssumption DEF IInv, TabKnown, AskedFor, RequestKnown
<1>7. ASSUME NEW d \in Calls PROVE RequestKnown(calls[d])' /\ FlowKnown(d)'
  <2>1. CASE d = c
    BY <1>1, <1>4, <1>5, <2>1, ImportAssumption DEF RequestKnown, FlowKnown, Awaited
  <2>2. CASE d # c
    BY <1>1, <1>4, <1>5, <2>2 DEF IInv, RequestKnown, FlowKnown, Awaited
  <2> QED
    BY <2>1, <2>2
<1>8. TabKnown'
  <2>1. ASSUME tab'.asking # None PROVE AskedFor(calls[tab.asking], tab.files)'
    <3>1. CASE tab'.asking = c
      BY <1>4, <3>1 DEF AskedFor
    <3>2. CASE tab'.asking = tab.asking
      <4>1. tab.asking \in Calls \ {c}
        BY <1>6, <2>1, <3>2 DEF IInv, TabKnown, Tabs
      <4> QED
        BY <1>4, <2>1, <3>2, <4>1 DEF IInv, TabKnown, AskedFor
    <3> QED
      BY <3>1, <3>2
  <2> QED
    BY <1>5, <2>1 DEF IInv, TabKnown, ReviewMatchesFiles
<1> QED
  BY <1>1, <1>3, <1>7, <1>8 DEF IInv

LEMMA InspectFilesKeeps ==
  ASSUME IInv, NEW c \in Calls, InspectFiles(c), Remembered PROVE IInv'
<1>1. tab \in Tabs /\ tab.files \in Batches /\ flow' = flow /\ flow[c] = NoFlow
  BY DEF InspectFiles, IInv, TabKnown, Tabs
<1>2. PICK call : call = [NoCall EXCEPT !.at = "asked", !.files = tab.files]
  OBVIOUS
<1>3. calls[c].at = "free" /\ UNCHANGED <<lib, given>> /\ Set(c, call)
  BY <1>2 DEF InspectFiles, Ask
<1>4. RequestKnown(call) /\ AskedFor(call, tab.files)
  BY <1>1, <1>2 DEF RequestKnown, AskedFor, Requests, NoCall, Answers
<1>5. /\ tab' \in Tabs /\ tab'.asking = c /\ tab'.phase = "inspect"
      /\ UNCHANGED <<tab.files, tab.inspection, tab.ready>>
  BY <1>1 DEF InspectFiles, Tabs
<1>6. flow' = [flow EXCEPT ![c] = NoFlow]
  BY <1>1 DEF IInv
<1> QED
  BY <1>3, <1>4, <1>5, <1>6, FreshKnown, DialogSends

LEMMA CommitKeeps ==
  ASSUME IInv, NEW c \in Calls, Commit(c), Remembered PROVE IInv'
<1>1. tab \in Tabs /\ tab.inspection \in given /\ tab.inspection # None
  BY DEF Commit, IInv, TabKnown, Tabs
<1>2. PICK call, f :
        /\ call = [at |-> "sent", files |-> tab.files, doc |-> tab.inspection, answer |-> None]
        /\ f = [[NoFlow EXCEPT !.at = "waiting"] EXCEPT !.doc = tab.inspection]
  OBVIOUS
<1>3. calls[c].at = "free" /\ UNCHANGED <<lib, given>> /\ Set(c, call)
  BY <1>2 DEF Commit, Submit
<1>4. call \in Requests /\ call.at = "sent" /\ call.doc = tab.inspection
  BY <1>1, <1>2 DEF Requests, Answers, Tabs
<1>5. f \in Flows /\ f.at = "waiting" /\ f.doc = tab.inspection
  BY <1>1, <1>2 DEF Flows, NoFlow
<1>6. RequestKnown(call) /\ Awaited(call, f.doc)
  BY <1>1, <1>4, <1>5 DEF RequestKnown, Awaited
<1>7. flow' = [flow EXCEPT ![c] = f]
  BY <1>2 DEF Commit
<1>8. /\ tab' \in Tabs /\ tab'.asking = tab.asking /\ tab'.phase = "import"
      /\ UNCHANGED <<tab.files, tab.inspection, tab.ready>>
  BY <1>1 DEF Commit, Tabs
<1>9. tab.asking # c
  BY <1>3, ImportAssumption DEF IInv, TabKnown, AskedFor, RequestKnown
<1> QED
  BY <1>1, <1>3, <1>5, <1>6, <1>7, <1>8, <1>9, DialogSends

-----------------------------------------------------------------------------
LEMMA NextKeepsInv == IInv /\ [DialogNext]_dialogVars => IInv'
<1> SUFFICES ASSUME IInv, [DialogNext]_dialogVars PROVE IInv'
  OBVIOUS
<1>1. ASSUME User \/ Breakdown, Remembered PROVE IInv'
  BY <1>1, ClicksKeep, ReloadKeeps, InspectFilesKeeps, CommitKeeps, BreakdownKeeps DEF User, Breakdown
<1>2. ASSUME Environment, UNCHANGED dialog, Remembered PROVE IInv'
  BY <1>2, EnvironmentKeeps
<1>3. ASSUME NEW c \in Calls, Handle(c) PROVE IInv'
  BY <1>3, InspectKeeps, RefuseKeeps, PublishKeeps, ConfirmKeeps, ReportKeeps DEF Handle, Serve
<1>4. ASSUME NEW c \in Calls, Resume(c) PROVE IInv'
  BY <1>4, InspectedKeeps, CommitAnsweredKeeps, ReconcileKeeps DEF Resume, Await
<1>5. CASE UNCHANGED dialogVars
  <2>1. UNCHANGED <<lib, given, calls, dialog>> /\ tab' = tab /\ flow' = flow
    BY <1>5 DEF dialogVars, vars, dialog
  <2>2. Remembered
    BY <1>5 DEF dialogVars, vars, Remembered, IInv, LibraryKnown
  <2>3. tab \in Tabs
    BY DEF IInv, TabKnown
  <2> QED
    BY <2>1, <2>2, <2>3, FreshKnown, DialogMoves DEF IInv, TabKnown, ReviewMatchesFiles
<1> QED
  BY <1>1, <1>2, <1>3, <1>4, <1>5 DEF DialogNext

LEMMA InitialInv == DialogInit => IInv
<1> SUFFICES ASSUME DialogInit PROVE IInv
  OBVIOUS
<1>1. /\ lib.mem = {} /\ lib.disk = {} /\ given = {} /\ ever = {} /\ tab = Fresh
      /\ calls = [c \in Calls |-> NoCall] /\ flow = [c \in Calls |-> NoFlow]
  BY DEF DialogInit, Init, Durable
<1>2. LibraryKnown
  BY <1>1 DEF LibraryKnown, Proposed
<1>3. RequestKnown(NoCall)
  BY DEF RequestKnown, Requests, NoCall, Answers
<1>4. \A c \in Calls : RequestKnown(calls[c]) /\ FlowKnown(c)
  BY <1>1, <1>3, FreshKnown DEF FlowKnown
<1>5. TabKnown
  BY <1>1, FreshKnown DEF TabKnown, ReviewMatchesFiles
<1> QED
  BY <1>1, <1>2, <1>4, <1>5 DEF IInv

(* What the dialog waits for is what it takes it for, and every profile    *)
(* ever held comes from an inspection that names it uniquely.              *)
THEOREM DialogInvariant == DialogSpec => []IInv
  BY InitialInv, NextKeepsInv, PTL DEF DialogSpec

(* The dialog's variables are well formed, and it waits only for requests  *)
(* that are under way or answered.                                         *)
THEOREM DialogTypeCorrect == DialogSpec => []DialogTypeOK
<1>1. IInv => DialogTypeOK
  <2> SUFFICES ASSUME IInv PROVE DialogTypeOK
    OBVIOUS
  <2>1. tab \in Tabs /\ (tab.asking # None => AskedFor(calls[tab.asking], tab.files))
    BY DEF IInv, TabKnown
  <2>2. ASSUME NEW c \in Calls
        PROVE  /\ flow[c].at \in {"none", "waiting", "reconciling", "listed"}
               /\ flow[c].at = "none" <=> flow[c].doc = None
               /\ flow[c].at = "waiting" => calls[c].at \in {"sent", "done", "answered"}
    BY DEF IInv, FlowKnown, Flows, Awaited
  <2> QED
    BY <2>1, <2>2 DEF Tabs, AskedFor, DialogTypeOK
<1> QED
  BY <1>1, DialogInvariant, PTL

(* The inspection on the screen is always one of the files that confirming *)
(* it sends, whatever was cancelled, discarded or chosen anew while its    *)
(* answer was on its way.                                                  *)
THEOREM ReviewedIsSent == DialogSpec => []ReviewMatchesFiles
<1>1. IInv => ReviewMatchesFiles
  BY DEF IInv, TabKnown
<1> QED
  BY <1>1, DialogInvariant, PTL

(* What the dialog reports as imported has all been in the library, also   *)
(* when it only infers that from the IDs it finds there.                   *)
THEOREM ReportedWasImported == DialogSpec => []OutcomeIsTrue
<1>1. IInv => OutcomeIsTrue
  BY DEF IInv, TabKnown, Tabs, OutcomeIsTrue
<1> QED
  BY <1>1, DialogInvariant, PTL
-----------------------------------------------------------------------------
(* How long an import can be under way: what remains of CommitSettles when *)
(* no step has to be taken.                                                *)

FlowLeft(f) ==
  CASE f.at = "waiting"     -> 3
    [] f.at = "reconciling" -> 2
    [] f.at = "listed"      -> 1
    [] OTHER                -> 0

CallLeft(call) ==
  CASE call.at = "sent"             -> 3
    [] call.at \in {"asked", "done"} -> 2
    [] call.at = "answered"         -> 1
    [] OTHER                        -> 0

(* The steps a commit() can still see: those of the daemon that serves its *)
(* request, and its own.                                                   *)
StepsLeft(c) == FlowLeft(flow[c]) + CallLeft(calls[c])

UnderWay(c) == flow[c].at # "none"

CommitIsShort == \A c \in Calls : UnderWay(c) => StepsLeft(c) \in 1..6

(* Nothing the user, the network, another request or a restart does puts   *)
(* off the end of a commit(), and what it waits for brings it nearer.      *)
CommitGoesOn ==
  [][\A c \in Calls : UnderWay(c) =>
       /\ (flow'[c] = flow[c] /\ calls'[c] = calls[c]) \/ StepsLeft(c)' < StepsLeft(c)
       /\ Handle(c) \/ Resume(c) => StepsLeft(c)' < StepsLeft(c)]_dialogVars

FlowFalls(c) == FlowLeft(flow'[c]) < FlowLeft(flow[c])
CallFalls(c) == CallLeft(calls'[c]) < CallLeft(calls[c])

LEMMA Left ==
  ASSUME NEW x
  PROVE  /\ FlowLeft(x) \in 0..3 /\ CallLeft(x) \in 0..3
         /\ x.at = "waiting" => FlowLeft(x) = 3
         /\ x.at = "reconciling" => FlowLeft(x) = 2
         /\ x.at = "listed" => FlowLeft(x) = 1
         /\ x.at = "none" => FlowLeft(x) = 0
         /\ x.at = "sent" => CallLeft(x) = 3
         /\ x.at \in {"asked", "done"} => CallLeft(x) = 2
         /\ x.at = "answered" => CallLeft(x) = 1
         /\ x.at = "free" => CallLeft(x) = 0
BY DEF FlowLeft, CallLeft

(* A request that is moved on; no other moves.                             *)
LEMMA SetMoves ==
  ASSUME IInv, NEW c \in Calls, NEW call, Set(c, call)
  PROVE  calls'[c] = call /\ \A d \in Calls \ {c} : calls'[d] = calls[d]
<1>1. calls' = [calls EXCEPT ![c] = call]
  BY DEF Set
<1> QED
  BY <1>1 DEF IInv

(* An answer is sent, and received once.                                   *)
LEMMA AnswerFalls ==
  ASSUME IInv, NEW c \in Calls, NEW call, Set(c, call), call.at = "answered",
         calls[c].at \in {"asked", "sent", "done"}
  PROVE  CallFalls(c) /\ \A d \in Calls \ {c} : calls'[d] = calls[d]
<1>1. calls'[c] = call /\ \A d \in Calls \ {c} : calls'[d] = calls[d]
  BY SetMoves
<1>2. CallLeft(call) = 1 /\ CallLeft(calls[c]) \in {2, 3}
  BY Left
<1> QED
  BY <1>1, <1>2 DEF CallFalls

LEMMA ReceiveFalls ==
  ASSUME IInv, NEW c \in Calls, Receive(c)
  PROVE  CallFalls(c) /\ \A d \in Calls \ {c} : calls'[d] = calls[d]
<1>1. calls[c].at = "answered" /\ Set(c, NoCall)
  BY DEF Receive
<1>2. calls'[c] = NoCall /\ \A d \in Calls \ {c} : calls'[d] = calls[d]
  BY <1>1, SetMoves
<1>3. CallLeft(NoCall) = 0 /\ CallLeft(calls[c]) = 1
  BY <1>1, Left DEF NoCall
<1> QED
  BY <1>2, <1>3 DEF CallFalls

(* The daemon's handler answers, or has published and is about to.         *)
LEMMA HandleFalls ==
  ASSUME IInv, NEW c \in Calls, Handle(c)
  PROVE  /\ CallFalls(c) /\ \A d \in Calls \ {c} : calls'[d] = calls[d]
         /\ flow' = flow
<1>1. Serve(c) /\ flow' = flow
  BY DEF Handle, dialog
<1>2. \A answer : Answered(answer).at = "answered"
  BY DEF Answered, NoCall
<1>3. CASE Inspect(c)
  <2>1. PICK answer, doc : Set(c, [Answered(answer) EXCEPT !.doc = doc])
    BY <1>3 DEF Inspect
  <2>2. [Answered(answer) EXCEPT !.doc = doc].at = "answered"
    BY DEF Answered, NoCall
  <2> QED
    BY <1>1, <1>3, <2>1, <2>2, AnswerFalls DEF Inspect
<1>4. CASE Refuse(c)
  <2>1. PICK answer : Set(c, Answered(answer))
    BY <1>4 DEF Refuse
  <2> QED
    BY <1>1, <1>2, <1>4, <2>1, AnswerFalls DEF Refuse
<1>5. ASSUME calls[c].at = "sent", Done(c)
      PROVE  CallFalls(c) /\ \A d \in Calls \ {c} : calls'[d] = calls[d]
  <2>1. PICK call : call = [calls[c] EXCEPT !.at = "done"]
    OBVIOUS
  <2>2. call.at = "done"
    BY <2>1 DEF IInv, RequestKnown, Requests
  <2>3. calls'[c] = call /\ \A d \in Calls \ {c} : calls'[d] = calls[d]
    BY <1>5, <2>1, SetMoves DEF Done
  <2>4. CallLeft(call) = 2 /\ CallLeft(calls[c]) = 3
    BY <1>5, <2>2, Left
  <2> QED
    BY <2>3, <2>4 DEF CallFalls
<1>6. CASE Publish(c)
  <2>1. calls[c].at = "sent" /\ (Done(c) \/ \E answer : Set(c, Answered(answer)))
    BY <1>6 DEF Publish
  <2> QED
    BY <1>1, <1>2, <1>5, <2>1, AnswerFalls
<1>7. CASE Confirm(c)
  BY <1>1, <1>5, <1>7 DEF Confirm
<1>8. CASE Unrepaired(c) \/ Report(c)
  <2>1. calls[c].at \in {"sent", "done"} /\ \E answer : Set(c, Answered(answer))
    BY <1>8 DEF Unrepaired, Report
  <2> QED
    BY <1>1, <1>2, <2>1, AnswerFalls
<1> QED
  BY <1>1, <1>3, <1>4, <1>6, <1>7, <1>8 DEF Serve

(* A commit() that ends, or that has to look what became of it.            *)
LEMMA ReturnFalls ==
  ASSUME IInv, NEW c \in Calls, UnderWay(c), Return(c)
  PROVE  FlowFalls(c) /\ \A d \in Calls \ {c} : flow'[d] = flow[d]
<1>1. flow'[c] = NoFlow /\ \A d \in Calls \ {c} : flow'[d] = flow[d]
  BY DEF Return, IInv
<1>2. FlowLeft(NoFlow) = 0
  BY FreshKnown, Left
<1>3. FlowLeft(flow[c]) \in {1, 2, 3}
  BY Left DEF UnderWay, IInv, FlowKnown, Flows
<1> QED
  BY <1>1, <1>2, <1>3 DEF FlowFalls

LEMMA LookingFalls ==
  ASSUME IInv, NEW c \in Calls, NEW at, NEW f,
         \/ flow[c].at = "waiting" /\ at = "reconciling"
         \/ flow[c].at = "reconciling" /\ at = "listed",
         f.at = at, flow' = [flow EXCEPT ![c] = f]
  PROVE  FlowFalls(c) /\ \A d \in Calls \ {c} : flow'[d] = flow[d]
<1>1. flow'[c] = f /\ \A d \in Calls \ {c} : flow'[d] = flow[d]
  BY DEF IInv
<1>2. FlowLeft(f) < FlowLeft(flow[c])
  BY Left
<1> QED
  BY <1>1, <1>2 DEF FlowFalls

LEMMA UncertainFalls ==
  ASSUME IInv, NEW c \in Calls, flow[c].at = "waiting", Uncertain(c)
  PROVE  FlowFalls(c) /\ \A d \in Calls \ {c} : flow'[d] = flow[d]
<1>1. CASE Return(c)
  BY <1>1, ReturnFalls DEF UnderWay
<1>2. CASE ~Return(c)
  <2>1. PICK f : f = [[flow[c] EXCEPT !.at = "reconciling"] EXCEPT !.doc = tab.inspection]
    OBVIOUS
  <2>2. f.at = "reconciling"
    BY <2>1 DEF IInv, FlowKnown, Flows
  <2>3. flow' = [flow EXCEPT ![c].at = "reconciling", ![c].doc = tab.inspection]
    BY <1>2 DEF Uncertain, Block, Complete
  <2>4. flow' = [flow EXCEPT ![c] = f]
    BY <2>1, <2>3 DEF IInv
  <2> QED
    BY <2>2, <2>4, LookingFalls
<1> QED
  BY <1>1, <1>2

(* What a commit() waits for: its answer, the list, its conclusion.        *)
LEMMA AwaitFalls ==
  ASSUME IInv, NEW c \in Calls, CommitAnswered(c) \/ List(c) \/ Conclude(c)
  PROVE  FlowFalls(c) /\ \A d \in Calls \ {c} : flow'[d] = flow[d]
<1>1. CASE CommitAnswered(c)
  <2>1. flow[c].at = "waiting" /\ calls[c].at = "answered"
    BY <1>1 DEF CommitAnswered, Receive
  <2>2. calls[c].answer \in {"imported", "refused", "reinspect", "ambiguous", "lost"}
    BY <2>1, WaitsForCommit DEF Awaited
  <2>3. Return(c) \/ Uncertain(c)
    BY <1>1, <2>2 DEF CommitAnswered, Complete, BackToReview, InspectAgain
  <2> QED
    BY <2>1, <2>3, ReturnFalls, UncertainFalls DEF UnderWay
<1>2. CASE List(c)
  <2>1. CASE Return(c)
    BY <1>2, <2>1, ReturnFalls DEF List, UnderWay
  <2>2. CASE ~Return(c)
    <3> DEFINE found == Ids(Added(flow[c].doc.records)) \cap Ids(lib.mem)
    <3>1. PICK f : f = [[flow[c] EXCEPT !.at = "listed"] EXCEPT !.present = found]
      OBVIOUS
    <3>2. flow[c].at = "reconciling" /\ f.at = "listed"
      BY <1>2, <3>1 DEF List, IInv, FlowKnown, Flows
    <3>3. flow' = [flow EXCEPT ![c].at = "listed", ![c].present = found]
      BY <1>2, <2>2 DEF List, Block
    <3>4. flow' = [flow EXCEPT ![c] = f]
      BY <3>1, <3>3 DEF IInv
    <3> QED
      BY <3>2, <3>4, LookingFalls
  <2> QED
    BY <2>1, <2>2
<1>3. CASE Conclude(c)
  BY <1>3, ReturnFalls DEF Conclude, Complete, BackToReview, Block, UnderWay
<1> QED
  BY <1>1, <1>2, <1>3

(* What the request and the commit() of c do in a step.                    *)
Moves(c) ==
  /\ flow'[c] = flow[c] \/ FlowFalls(c)
  /\ calls'[c] = calls[c] \/ CallFalls(c)

LEMMA ResumeFalls ==
  ASSUME IInv, NEW c \in Calls, Resume(c), UnderWay(c)
  PROVE  Moves(c) /\ (FlowFalls(c) \/ CallFalls(c))
<1>1. CASE Inspected(c) \/ Drop(c)
  BY <1>1, ReceiveFalls DEF Inspected, Drop, dialog, Moves
<1>2. CASE CommitAnswered(c)
  BY <1>2, ReceiveFalls, AwaitFalls DEF CommitAnswered, Moves
<1>3. CASE List(c) \/ Conclude(c)
  BY <1>3, AwaitFalls DEF List, Conclude, vars, Moves
<1> QED
  BY <1>1, <1>2, <1>3 DEF Resume, Await

(* Steps of another request.                                               *)
LEMMA OthersMove ==
  ASSUME IInv, NEW c \in Calls, NEW d \in Calls \ {c}, Handle(d) \/ Resume(d)
  PROVE  flow'[c] = flow[c] /\ calls'[c] = calls[c]
<1>1. CASE Handle(d)
  BY <1>1, HandleFalls
<1>2. CASE Inspected(d) \/ Drop(d)
  BY <1>2, ReceiveFalls DEF Inspected, Drop, dialog
<1>3. CASE CommitAnswered(d)
  BY <1>3, ReceiveFalls, AwaitFalls DEF CommitAnswered
<1>4. CASE List(d) \/ Conclude(d)
  BY <1>4, AwaitFalls DEF List, Conclude, vars
<1> QED
  BY <1>1, <1>2, <1>3, <1>4 DEF Resume, Await

(* The user may reload the page; a connection may break.                   *)
LEMMA UserMoves ==
  ASSUME IInv, NEW c \in Calls, UnderWay(c), User \/ Breakdown PROVE Moves(c)
<1>1. CASE Open \/ Cancel \/ Close \/ KeepReviewing \/ Leave \/ InspectionLost
           \/ \E batch \in Batches : SelectFiles(batch)
  BY <1>1 DEF Open, Cancel, Close, KeepReviewing, Leave, InspectionLost, SelectFiles, vars, Moves
<1>2. CASE Reload
  <2>1. flow'[c] = NoFlow /\ calls' = calls
    BY <1>2 DEF Reload, vars
  <2>2. FlowLeft(NoFlow) = 0 /\ FlowLeft(flow[c]) \in {1, 2, 3}
    BY FreshKnown, Left DEF UnderWay, IInv, FlowKnown, Flows
  <2> QED
    BY <2>1, <2>2 DEF Moves, FlowFalls
<1>3. ASSUME NEW d \in Calls, InspectFiles(d) PROVE Moves(c)
  <2>1. d # c /\ flow' = flow
    BY <1>3, FreshKnown DEF InspectFiles, UnderWay
  <2>2. \E call : Set(d, call)
    BY <1>3 DEF InspectFiles, Ask
  <2> QED
    BY <2>1, <2>2, SetMoves DEF Moves
<1>4. ASSUME NEW d \in Calls, Commit(d) PROVE Moves(c)
  <2>1. d # c
    BY <1>4, FreshKnown DEF Commit, UnderWay
  <2>2. \E call : Set(d, call)
    BY <1>4 DEF Commit, Submit
  <2>3. flow'[c] = flow[c]
    BY <1>4, <2>1 DEF Commit, IInv
  <2> QED
    BY <2>1, <2>2, <2>3, SetMoves DEF Moves
<1>5. ASSUME NEW d \in Calls, AnswerLost(d) \/ ProxyAnswers(d) PROVE Moves(c)
  <2>1. calls' = calls
    BY <1>5 DEF AnswerLost, ProxyAnswers, vars
  <2>2. FlowFalls(d) /\ \A e \in Calls \ {d} : flow'[e] = flow[e]
    BY <1>5, UncertainFalls, ReturnFalls DEF AnswerLost, ProxyAnswers, BackToReview, UnderWay
  <2> QED
    BY <2>1, <2>2 DEF Moves
<1> QED
  BY <1>1, <1>2, <1>3, <1>4, <1>5 DEF User, Breakdown

(* A restart of the daemon leaves every request lost, which is an answer.  *)
LEMMA EnvironmentMoves ==
  ASSUME IInv, NEW c \in Calls, Environment, UNCHANGED dialog PROVE Moves(c)
<1>1. flow' = flow
  BY DEF dialog
<1>2. CASE Rewrite
  BY <1>1, <1>2 DEF Rewrite, Moves
<1>3. CASE Restart
  <2>1. calls'[c] = IF calls[c].at \in {"free", "answered"} THEN calls[c] ELSE Answered("lost")
    BY <1>3 DEF Restart
  <2>2. CASE calls[c].at \notin {"free", "answered"}
    <3>1. calls[c].at \in {"asked", "sent", "done"}
      BY <2>2 DEF IInv, RequestKnown, Requests
    <3>2. CallLeft(Answered("lost")) = 1 /\ CallLeft(calls[c]) \in {2, 3}
      BY <3>1, Left DEF Answered, NoCall
    <3> QED
      BY <1>1, <2>1, <2>2, <3>2 DEF Moves, CallFalls
  <2> QED
    BY <1>1, <2>1, <2>2 DEF Moves
<1> QED
  BY <1>2, <1>3 DEF Environment

LEMMA CommitMoves ==
  ASSUME IInv, [DialogNext]_dialogVars, NEW c \in Calls, UnderWay(c)
  PROVE  /\ Moves(c)
         /\ Handle(c) \/ Resume(c) => FlowFalls(c) \/ CallFalls(c)
<1>1. Handle(c) => Moves(c) /\ CallFalls(c)
  BY HandleFalls DEF Moves
<1>2. ASSUME NEW d \in Calls, Handle(d) \/ Resume(d) PROVE Moves(c)
  BY <1>1, <1>2, ResumeFalls, OthersMove DEF Moves
<1>3. ASSUME UNCHANGED dialogVars PROVE Moves(c)
  <2>1. flow' = flow /\ calls' = calls
    BY <1>3 DEF dialogVars, vars, dialog
  <2> QED
    BY <2>1 DEF Moves
<1>4. Moves(c)
  BY <1>2, <1>3, UserMoves, EnvironmentMoves DEF DialogNext
<1> QED
  BY <1>1, <1>4, ResumeFalls

(* A commit() sees at most six steps, three of the daemon's handler and    *)
(* three of its own, whatever is lost, restarted or clicked meanwhile: it  *)
(* never waits for an answer twice or reads the library again.             *)
THEOREM CommitsAreBounded == DialogSpec => []CommitIsShort /\ CommitGoesOn
<1>1. IInv => CommitIsShort
  <2> SUFFICES ASSUME IInv, NEW c \in Calls, UnderWay(c) PROVE StepsLeft(c) \in 1..6
    BY DEF CommitIsShort
  <2>1. FlowLeft(flow[c]) \in {1, 2, 3}
    BY Left DEF UnderWay, IInv, FlowKnown, Flows
  <2>2. CallLeft(calls[c]) \in 0..3
    BY Left
  <2> QED
    BY <2>1, <2>2 DEF StepsLeft
<1>2. IInv /\ [DialogNext]_dialogVars
        => [\A c \in Calls : UnderWay(c) =>
              /\ (flow'[c] = flow[c] /\ calls'[c] = calls[c]) \/ StepsLeft(c)' < StepsLeft(c)
              /\ Handle(c) \/ Resume(c) => StepsLeft(c)' < StepsLeft(c)]_dialogVars
  <2> SUFFICES ASSUME IInv, [DialogNext]_dialogVars, NEW c \in Calls, UnderWay(c)
               PROVE  /\ \/ flow'[c] = flow[c] /\ calls'[c] = calls[c]
                         \/ StepsLeft(c)' < StepsLeft(c)
                      /\ Handle(c) \/ Resume(c) => StepsLeft(c)' < StepsLeft(c)
    OBVIOUS
  <2>1. /\ FlowLeft(flow[c]) \in Int /\ CallLeft(calls[c]) \in Int
        /\ FlowLeft(flow'[c]) \in Int /\ CallLeft(calls'[c]) \in Int
    BY Left
  <2>2. /\ StepsLeft(c) = FlowLeft(flow[c]) + CallLeft(calls[c])
        /\ StepsLeft(c)' = FlowLeft(flow'[c]) + CallLeft(calls'[c])
    BY DEF StepsLeft, FlowLeft, CallLeft
  <2>3. Moves(c) /\ (FlowFalls(c) \/ CallFalls(c)) => StepsLeft(c)' < StepsLeft(c)
    BY <2>1, <2>2 DEF Moves, FlowFalls, CallFalls
  <2> QED
    BY <2>3, CommitMoves DEF Moves
<1> QED
  BY <1>1, <1>2, DialogInvariant, PTL DEF DialogSpec, CommitGoesOn
=============================================================================

--------------------------- MODULE ImportContract ---------------------------
(***************************************************************************)
(* What the import service promises its clients: a request to import       *)
(* publishes its batch as a whole, or finds it already there, or changes   *)
(* nothing, in one step at some moment before it is answered; and it is    *)
(* answered "imported" only when the batch is in the library for good.     *)
(***************************************************************************)
EXTENDS ImportRecords

VARIABLES
  lib,    \* the library: its manifests are sets of entries
  given,  \* the inspections clients have been answered
  calls   \* the state of each request

vars == <<lib, given, calls>>

Inspections == [files : Batches, records : SUBSET Records]

Init ==
  /\ lib = Durable({})
  /\ given = {}
  /\ calls = [c \in Calls |-> NoCall]

Set(c, call) == calls' = [calls EXCEPT ![c] = call]

Ask(c, files) ==
  /\ calls[c].at = "free"
  /\ Set(c, [NoCall EXCEPT !.at = "asked", !.files = files])
  /\ UNCHANGED <<lib, given>>

Submit(c, files, doc) ==
  /\ calls[c].at = "free"
  /\ Set(c, [at |-> "sent", files |-> files, doc |-> doc, answer |-> None])
  /\ UNCHANGED <<lib, given>>

Inspect(c) ==
  /\ calls[c].at = "asked"
  /\ \E name \in Namings(calls[c].files, lib.mem, given) :
       LET files == calls[c].files
           doc   == [files |-> files, records |-> RecordsOf(files, name, lib.mem)]
       IN  /\ given' = given \cup {doc}
           /\ Set(c, [Answered(IF Ready(files) THEN "inspected" ELSE "issues")
                        EXCEPT !.doc = doc])
  /\ UNCHANGED lib

(* The library as it is, perhaps made durable.                             *)
Kept == lib' \in {r.lib : r \in RepairOutcomes(lib)}

Refuse(c) ==
  /\ \/ calls[c].at = "asked" /\ Set(c, Answered("refused")) /\ UNCHANGED lib
     \/ /\ calls[c].at = "sent"
        /\ \E answer \in {"refused", "reinspect"} : Set(c, Answered(answer))
        /\ Kept \/ UNCHANGED lib
  /\ UNCHANGED given

Done(c) == Set(c, [calls[c] EXCEPT !.at = "done"])

(* The batch is published as a whole, or perhaps published; it is refused  *)
(* only when it certainly has not been.                                    *)
Publish(c) ==
  /\ calls[c].at = "sent"
  /\ LET entries == Added(calls[c].doc.records) IN
       /\ Described(calls[c].doc.records) \subseteq lib.mem \cup entries
       /\ Unique(lib.mem \cup entries)
       /\ \E w \in WriteOutcomes(lib, lib.mem \cup entries) :
            /\ lib' = w.lib
            /\ IF w.ok THEN Done(c)
               ELSE \/ Set(c, Answered("ambiguous"))
                    \/ ~w.lib.unknown /\ Set(c, Answered("refused"))
  /\ UNCHANGED given

(* It is found in the library, where nothing can undo it.                  *)
Confirm(c) ==
  /\ calls[c].at = "sent"
  /\ Kept \/ UNCHANGED lib
  /\ Described(calls[c].doc.records) \subseteq lib'.mem \cap lib'.disk
  /\ Done(c)
  /\ UNCHANGED given

(* The profiles are looked up for the answer.                              *)
Report(c) ==
  /\ calls[c].at = "done"
  /\ Set(c, Answered(IF Ids(calls[c].doc.records) \subseteq Ids(lib.mem)
                     THEN "imported" ELSE "ambiguous"))
  /\ UNCHANGED <<lib, given>>

Receive(c) ==
  /\ calls[c].at = "answered"
  /\ Set(c, NoCall)
  /\ UNCHANGED <<lib, given>>

(* The library is repaired, written otherwise, or loses a profile.         *)
Rewrite ==
  /\ \/ Kept
     \/ \E w \in WriteOutcomes(lib, lib.mem) : lib' = w.lib
     \/ \E entry \in lib.mem : \E w \in WriteOutcomes(lib, lib.mem \ {entry}) : lib' = w.lib
  /\ UNCHANGED <<given, calls>>

(* The repair before a comparison fails.                                   *)
Unrepaired(c) ==
  /\ calls[c].at = "sent"
  /\ May("store") /\ lib.unknown
  /\ Set(c, Answered("ambiguous"))
  /\ UNCHANGED <<lib, given>>

Restart ==
  /\ lib' \in ReopenedAfterPowerLoss(lib)
  /\ calls' = [c \in Calls |->
       IF calls[c].at \in {"free", "answered"} THEN calls[c] ELSE Answered("lost")]
  /\ UNCHANGED given

Serve(c) ==
  Inspect(c) \/ Refuse(c) \/ Publish(c) \/ Confirm(c) \/ Unrepaired(c) \/ Report(c)

Environment == Rewrite \/ Restart

Next ==
  \/ \E c \in Calls :
       \/ \E files \in Batches : Ask(c, files)
       \/ \E doc \in given : Submit(c, doc.files, doc)
       \/ Serve(c)
       \/ Receive(c)
  \/ Environment

Spec == Init /\ [][Next]_vars
=============================================================================

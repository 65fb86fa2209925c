------------------------------- MODULE Import -------------------------------
(***************************************************************************)
(* Importing profiles: a client has its files inspected, and sends them    *)
(* again with the inspection to have them published.  Between the two, and *)
(* between the steps of either, the library changes, profiles are removed, *)
(* receipts expire and the daemon or the machine stops.  A client may send *)
(* any inspection it was ever given, as often as it likes.                 *)
(* Source: src/internal/profiles/import.go, src/internal/httpapi/server.go.*)
(***************************************************************************)
EXTENDS ImportRecords

CONSTANTS MaxProfiles, \* how many profiles a library may hold
          MaxRevision  \* bound: no other change is made from this revision on

ASSUME LimitsAssumption == MaxProfiles \in Nat /\ MaxRevision \in Nat

VARIABLES
  lib,      \* the library, see Library; its manifests are Snapshots here
  given,    \* the inspections clients have been answered
  issued,   \* those whose receipt the daemon still honours
  calls,    \* the state of each request
  gate,     \* the request that holds importGate
  acked     \* history: profiles reported as imported, removal not asked for

vars == <<lib, given, issued, calls, gate, acked>>

-----------------------------------------------------------------------------
(* The part of a manifest an import looks at.  Every mutation of the store *)
(* adds one to LibraryRevision.                                            *)
Snapshots == [rev : Nat, profiles : SUBSET Entries]

(* What the receipt authenticates: the records of the files in their order *)
(* and the revision of the manifest they were compared with, which is kept *)
(* whole for the properties.                                               *)
Inspections == [files : Batches, seen : Snapshots, records : SUBSET Records]

(* Mutant of Extended: the batch is not published as a whole.              *)
ExtendedInPart(snapshot, entries) ==
  LET one == CHOOSE e \in entries : TRUE IN
    [rev |-> snapshot.rev + 1, profiles |-> snapshot.profiles \cup {one}]

Extended(snapshot, entries) ==
  [rev |-> snapshot.rev + 1, profiles |-> snapshot.profiles \cup entries]

(* Mutant of Reduced: a removal leaves the revision as it is.              *)
ReducedUnrevised(snapshot, entry) ==
  [rev |-> snapshot.rev, profiles |-> snapshot.profiles \ {entry}]

Reduced(snapshot, entry) ==
  [rev |-> snapshot.rev + 1, profiles |-> snapshot.profiles \ {entry}]

-----------------------------------------------------------------------------
Inspection(batch, name) ==
  [files |-> batch, seen |-> lib.mem, records |-> RecordsOf(batch, name, lib.mem.profiles)]

ASSUME NoneAssumption == None \notin Inspections

-----------------------------------------------------------------------------
Init ==
  /\ lib = Durable([rev |-> 0, profiles |-> {}])
  /\ given = {} /\ issued = {}
  /\ calls = [c \in Calls |-> NoCall]
  /\ gate = None
  /\ acked = {}

At(c, step) == calls[c].at = step

GoTo(c, step) == calls' = [calls EXCEPT ![c].at = step] /\ UNCHANGED gate

(* The handler returns; releaseImport is deferred.                         *)
Answer(c, answer) ==
  /\ calls' = [calls EXCEPT ![c] = Answered(answer)]
  /\ gate' = None

(* Between commitAdmission and its release, which is the manager's gate.   *)
Admitted == \E c \in Calls : calls[c].at \in {"admitted", "publish", "repair", "replay"}

Inspecting == {c \in Calls : calls[c].at \in {"inspect", "inspecting"}}

Ask(c, files) ==
  /\ At(c, "free")
  /\ Cardinality(given) + Cardinality(Inspecting) < MaxInspections
  /\ calls' = [calls EXCEPT ![c] = [NoCall EXCEPT !.at = "inspect", !.files = files]]
  /\ UNCHANGED <<lib, given, issued, gate, acked>>

Submit(c, files, doc) ==
  /\ At(c, "free")
  /\ calls' = [calls EXCEPT ![c] =
                 [at |-> "commit", files |-> files, doc |-> doc, answer |-> None]]
  /\ UNCHANGED <<lib, given, issued, gate, acked>>

(* acquireImport, in inspectImport and in commitImport.                    *)
TurnAway(c) ==
  /\ calls[c].at \in {"inspect", "commit"}
  /\ gate # None
  /\ calls' = [calls EXCEPT ![c] = Answered("refused")]
  /\ UNCHANGED <<lib, given, issued, gate, acked>>

Enter(c) ==
  /\ calls[c].at \in {"inspect", "commit"}
  /\ gate = None
  /\ gate' = c
  /\ calls' = [calls EXCEPT ![c].at = IF @ = "inspect" THEN "inspecting" ELSE "staged"]
  /\ UNCHANGED <<lib, given, issued, acked>>

(* Mutant of StagingFails: the gate is not given back.                     *)
StagingFailsHeld(c) ==
  /\ calls[c].at \in {"inspecting", "staged"}
  /\ May("staging")
  /\ calls' = [calls EXCEPT ![c] = Answered("refused")]
  /\ UNCHANGED <<lib, given, issued, gate, acked>>

(* stageImportMultipart: a body that does not arrive or cannot be staged.  *)
StagingFails(c) ==
  /\ calls[c].at \in {"inspecting", "staged"}
  /\ May("staging")
  /\ Answer(c, "refused")
  /\ UNCHANGED <<lib, given, issued, acked>>

(* Inspect: a receipt is signed only if no file has an issue.              *)
Inspect(c) ==
  /\ At(c, "inspecting")
  /\ \E name \in Namings(calls[c].files, lib.mem.profiles, given) :
       LET doc   == Inspection(calls[c].files, name)
           ready == Ready(calls[c].files)
       IN  /\ given' = given \cup {doc}
           /\ issued' = IF ready THEN issued \cup {doc} ELSE issued
           /\ calls' = [calls EXCEPT ![c] =
                [Answered(IF ready THEN "inspected" ELSE "issues") EXCEPT !.doc = doc]]
  /\ gate' = None
  /\ UNCHANGED <<lib, acked>>

(* generateIdentity gives up.                                              *)
NoIdentity(c) ==
  /\ At(c, "inspecting")
  /\ Namings(calls[c].files, lib.mem.profiles, given) = {}
  /\ Answer(c, "refused")
  /\ UNCHANGED <<lib, given, issued, acked>>

-----------------------------------------------------------------------------
(* Commit: the manager's gate is taken, unless a transition holds it.      *)
Admit(c) ==
  /\ At(c, "staged")
  /\ \/ GoTo(c, "admitted")
     \/ May("transition") /\ Answer(c, "refused")
  /\ UNCHANGED <<lib, given, issued, acked>>

(* Mutant of Honoured: the receipt's code is not looked at.                *)
HonouredUnsigned(c) == calls[c].doc \in given /\ calls[c].doc.files = calls[c].files

(* decodeReceipt, expiry, reinspectBound and the comparison of the codes.  *)
Honoured(c) == calls[c].doc \in issued /\ calls[c].doc.files = calls[c].files

(* The profiles to publish are chosen: each record is found in the library *)
(* as it was inspected, or is new, or repeats one that is.                 *)
Consistent(records, profiles) ==
  \A r \in records :
    IF r.id \in Ids(profiles)
    THEN ~r.new /\ [id |-> r.id, content |-> r.content] \in profiles
    ELSE [r EXCEPT !.new = TRUE] \in records

(* The receipt is checked and the manifest read.                           *)
Validate(c) ==
  /\ At(c, "admitted")
  /\ LET doc == calls[c].doc IN
       IF ~Honoured(c) THEN Answer(c, "reinspect")
       ELSE IF doc.seen.rev # lib.mem.rev THEN GoTo(c, "repair")
       ELSE IF Consistent(doc.records, lib.mem.profiles) THEN GoTo(c, "publish")
       ELSE Answer(c, "reinspect")
  /\ UNCHANGED <<lib, given, issued, acked>>

(* Mutant of PublishAt: what the inspection found is trusted, and the      *)
(* revision left as it is.                                                 *)
PublishAtTrusting(expected, entries) ==
  {[lib |-> w.lib, answer |-> IF w.ok THEN "done" ELSE "ambiguous"] :
     w \in WriteOutcomes(lib, [lib.mem EXCEPT !.profiles = @ \cup entries])}

(* Mutant of PublishAt: an uncertain outcome is answered as a refusal.     *)
PublishAtRefusing(expected, entries) ==
  IF lib.unknown \/ lib.mem.rev # expected \/ entries = {}
  THEN {[lib |-> lib, answer |-> "reinspect"]}
  ELSE {[lib |-> w.lib, answer |-> IF w.ok THEN "done" ELSE "refused"] :
          w \in PublishOutcomes(lib, Extended(lib.mem, entries))}

(* Store.Publish, under s.mu.                                              *)
PublishAt(expected, entries) ==
  UNION {IF ~r.ok THEN {[lib |-> r.lib, answer |-> "ambiguous"]}
         ELSE IF r.lib.mem.rev # expected THEN {[lib |-> r.lib, answer |-> "reinspect"]}
         ELSE IF entries = {} THEN {[lib |-> r.lib, answer |-> "done"]}
         ELSE IF \/ Cardinality(r.lib.mem.profiles \cup entries) > MaxProfiles
                 \/ entries \cap r.lib.mem.profiles # {}
                 \/ ~Unique(r.lib.mem.profiles \cup entries)
              THEN {[lib |-> r.lib, answer |-> "refused"]}
         ELSE {[lib |-> w.lib,
                answer |-> IF w.ok THEN "done"
                           ELSE IF w.lib.unknown THEN "ambiguous" ELSE "refused"] :
                 w \in PublishOutcomes(r.lib, Extended(r.lib.mem, entries))} :
           r \in RepairOutcomes(lib)}

(* Commit returns without an error.                                        *)
Accept(c) ==
  /\ GoTo(c, "committed")
  /\ acked' = acked \cup Described(calls[c].doc.records)

(* Mutant of Publish: the store's result is handed on as the answer.       *)
PublishUnreported(c) ==
  /\ At(c, "publish")
  /\ \E w \in PublishAt(calls[c].doc.seen.rev, Added(calls[c].doc.records)) :
       lib' = w.lib /\ Answer(c, w.answer)
  /\ UNCHANGED <<given, issued, acked>>

Publish(c) ==
  /\ At(c, "publish")
  /\ \E w \in PublishAt(calls[c].doc.seen.rev, Added(calls[c].doc.records)) :
       /\ lib' = w.lib
       /\ IF w.answer = "done"
          THEN Accept(c)
          ELSE Answer(c, w.answer) /\ UNCHANGED acked
  /\ UNCHANGED <<given, issued>>

(* Mutant of Repaired: a repeated commit is compared without a repair.     *)
RepairedNot(c) ==
  /\ At(c, "repair")
  /\ GoTo(c, "replay")
  /\ UNCHANGED <<lib, given, issued, acked>>

(* The library has changed since: first what it says is made durable ...   *)
Repaired(c) ==
  /\ At(c, "repair")
  /\ \E r \in RepairOutcomes(lib) :
       /\ lib' = r.lib
       /\ IF r.ok THEN GoTo(c, "replay") ELSE Answer(c, "ambiguous")
  /\ UNCHANGED <<given, issued, acked>>

(* Mutant of Replay: one profile of the batch is enough.                   *)
ReplayPartial(c) ==
  /\ At(c, "replay")
  /\ IF Described(calls[c].doc.records) \cap lib.mem.profiles # {}
     THEN Accept(c)
     ELSE Answer(c, "reinspect") /\ UNCHANGED acked
  /\ UNCHANGED <<lib, given, issued>>

(* ... then exactReplay: this very batch may have been published before.   *)
Replay(c) ==
  /\ At(c, "replay")
  /\ IF Described(calls[c].doc.records) \subseteq lib.mem.profiles
     THEN Accept(c)
     ELSE Answer(c, "reinspect") /\ UNCHANGED acked
  /\ UNCHANGED <<lib, given, issued>>

(* commitImport looks each profile up for its answer, with only importGate *)
(* still held.                                                             *)
Report(c) ==
  /\ At(c, "committed")
  /\ Answer(c, IF Ids(calls[c].doc.records) \subseteq Ids(lib.mem.profiles)
               THEN "imported" ELSE "ambiguous")
  /\ UNCHANGED <<lib, given, issued, acked>>

(* The client takes the answer, or has stopped waiting for it.             *)
Receive(c) ==
  /\ At(c, "answered")
  /\ calls' = [calls EXCEPT ![c] = NoCall]
  /\ UNCHANGED <<lib, given, issued, gate, acked>>

-----------------------------------------------------------------------------
(* SetPreferences and UpdateMetadata need no gate; a transition's          *)
(* SetConnection changes no more of a Snapshot than they do.               *)
Change ==
  /\ lib.mem.rev < MaxRevision
  /\ \E w \in WriteOutcomes(lib, [lib.mem EXCEPT !.rev = @ + 1]) : lib' = w.lib
  /\ UNCHANGED <<given, issued, calls, gate, acked>>

Remove(entry) ==
  /\ lib.mem.rev < MaxRevision
  /\ ~Admitted
  /\ entry \in lib.mem.profiles
  /\ \E w \in WriteOutcomes(lib, Reduced(lib.mem, entry)) : lib' = w.lib
  /\ acked' = acked \ {entry}
  /\ UNCHANGED <<given, issued, calls, gate>>

(* receiptTTL has passed.                                                  *)
Expire(doc) ==
  /\ issued' = issued \ {doc}
  /\ UNCHANGED <<lib, given, calls, gate, acked>>

(* Mutant of NewKey: the key of the receipts outlives the daemon.          *)
NewKeyKept == UNCHANGED issued

(* NewImportService: no receipt signed before is good any more.            *)
NewKey == issued' = {}

(* The daemon or the machine stops, and the daemon is started again.       *)
Restart ==
  /\ lib' \in ReopenedAfterPowerLoss(lib)
  /\ NewKey
  /\ calls' = [c \in Calls |->
       IF calls[c].at \in {"free", "answered"} THEN calls[c]
       ELSE Answered("lost")]
  /\ gate' = None
  /\ UNCHANGED <<given, acked>>

Serve(c) ==
  \/ TurnAway(c) \/ Enter(c) \/ StagingFails(c) \/ Inspect(c) \/ NoIdentity(c)
  \/ Admit(c) \/ Validate(c) \/ Publish(c) \/ Repaired(c) \/ Replay(c) \/ Report(c)

Environment ==
  \/ Change
  \/ \E entry \in Entries : Remove(entry)
  \/ \E doc \in issued : Expire(doc)
  \/ Restart

Next ==
  \/ \E c \in Calls :
       \/ \E files \in Batches : Ask(c, files)
       \/ \E doc \in given : Submit(c, doc.files, doc)
       \/ Serve(c)
       \/ Receive(c)
  \/ Environment

Spec == Init /\ [][Next]_vars

-----------------------------------------------------------------------------
Steps == {"free", "inspect", "inspecting", "commit", "staged", "admitted", "publish",
          "repair", "replay", "committed", "answered"}

Inside == {"inspecting", "staged", "admitted", "publish", "repair", "replay", "committed"}

(* Nothing import.go keeps or answers is malformed; a call that has sent   *)
(* an inspection has one that was given.                                   *)
TypeOK ==
  /\ lib \in [mem : Snapshots, disk : Snapshots, unknown : BOOLEAN]
  /\ given \subseteq Inspections
  /\ issued \subseteq given
  /\ calls \in [Calls -> [at : Steps, files : Batches \cup {<<>>},
                          doc : given \cup {None}, answer : Answers]]
  /\ gate \in Calls \cup {None}
  /\ acked \subseteq Entries

(* importGate is held by the one handler that is between acquireImport and *)
(* releaseImport and by nobody else, whatever that handler runs into: two  *)
(* could publish one batch twice, and one that returned early without      *)
(* giving it back would have every later import refused.                   *)
GateIsHeldInside == \A c \in Calls : gate = c <=> calls[c].at \in Inside

(* An inspection is accepted, without looking at the library's contents,   *)
(* on the strength of its revision alone: while its receipt is honoured,   *)
(* the same revision must mean the same library, though a power loss can   *)
(* take the revision back (Commit, ErrStaleInspection).                    *)
RevisionIdentifiesLibrary ==
  \A d \in issued :
    d.seen.rev <= lib.mem.rev /\ (d.seen.rev = lib.mem.rev => d.seen = lib.mem)

(* However often an inspection is sent, and whatever was imported since it *)
(* was made, the library holds no content and no ID twice, nor would it    *)
(* after a power loss (docs/migration.md: "detects exact duplicates").     *)
NoContentTwice == Unique(lib.mem.profiles) /\ Unique(lib.disk.profiles)

(* A profile whose import was reported, be it by an answer repeated after  *)
(* an ambiguous one, is in the library and survives any restart and power  *)
(* loss until its removal is asked for.                                    *)
AcknowledgedSurvives == acked \subseteq lib.mem.profiles \cap lib.disk.profiles

(* Profiles appear in the library only as one whole batch, published onto  *)
(* exactly the library its inspection showed: so a removed profile does    *)
(* not come back with a repeated commit, nor a batch published twice.      *)
(* (A power loss may bring back what was there before the last change.)    *)
PublishesWhatWasInspected ==
  [][lib'.mem.profiles \ lib.mem.profiles # {} =>
       \/ lib' = Durable(lib.disk)
       \/ \E c \in Calls :
            /\ calls[c].at = "publish"
            /\ calls[c].doc.seen = lib.mem
            /\ lib'.mem.profiles = lib.mem.profiles \cup Added(calls[c].doc.records)]_vars

-----------------------------------------------------------------------------
(* What the clients of the service see of it: revisions, receipts, the     *)
(* gates and the steps of a handler are its own affair.                    *)
Stage(step) ==
  CASE step \in {"inspect", "inspecting"} -> "asked"
    [] step \in {"commit", "staged", "admitted", "publish", "repair", "replay"} -> "sent"
    [] step = "committed" -> "done"
    [] step \in {"free", "answered"} -> step

Bare(doc) == IF doc = None THEN None ELSE [files |-> doc.files, records |-> doc.records]

SeenCall(call) == [call EXCEPT !.at = Stage(@), !.doc = Bare(@)]

Promised == INSTANCE ImportContract WITH
  lib   <- [mem |-> lib.mem.profiles, disk |-> lib.disk.profiles, unknown |-> lib.unknown],
  given <- {Bare(doc) : doc \in given},
  calls <- [c \in Calls |-> SeenCall(calls[c])]

(* Whatever changes, fails or stops in between, each request publishes its *)
(* whole batch in one step, finds it published, or changes nothing, and    *)
(* its answer says which, as ImportContract promises the dialog.           *)
ImplementsContract == Promised!Spec
=============================================================================
